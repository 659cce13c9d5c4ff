--------------------------------- MODULE Pty ----------------------------------
(***************************************************************************)
(* session/pty.go and protocol/pty/frames.go: a terminal session.  At the  *)
(* client one goroutine sends what is typed, one sends the terminal's size *)
(* after each SIGWINCH, one prints; at the server one goroutine sends what *)
(* the shell prints and one feeds it keys and sizes.                       *)
(*                                                                         *)
(* A frame is two writes, header and payload, under the writer's mutex.    *)
(* Keys are "k" (any text), "E" (the escape 0x05), "q", and "end" for the  *)
(* end of standard input; output is counted in chunks; a size stands for   *)
(* columns and rows.                                                       *)
(***************************************************************************)
EXTENDS Naturals, Sequences, SequencesExt

CONSTANTS Keys, Sizes,
          MaxKeys, MaxOutput, MaxResizes   \* bounds: what is typed, printed, resized

ASSUME PtyAssumption ==
    /\ Keys \subseteq {"k", "E", "q", "end"} /\ Sizes \subseteq Nat
    /\ MaxKeys \in Nat /\ MaxOutput \in Nat /\ MaxResizes \in Nat

Ends == {"client", "server"}
DefaultSize == 24

VARIABLES
    ctx, ret,             \* per end: its context is live; what the session returned ("" before)
    wire,                 \* per end: the writes on their way to it
    eof,                  \* per end: the other end has half-closed or closed
    results,              \* per end: results or errorsCh
    typed, unread,        \* all keys typed, and those stdin still holds
    escape,               \* the stdin goroutine has seen 0x05
    keys,                 \* stdin goroutine: [pc, data]
    size, resizes, winch, \* the terminal's size, changes left, a signal in the channel
    resizer,              \* resize goroutine: [pc, data]
    writer,               \* the client's mutex: its holder, or ""
    printer,              \* output goroutine of the client
    printed,              \* chunks on the client's terminal
    shell,                \* "run", "exited" (by itself) or "killed"
    shellIn, shellSize,   \* keys the shell got, and its size
    made, sent,           \* chunks the shell printed, and those read from the terminal
    reader, feeder        \* output and input goroutine of the server

clientVars == <<typed, unread, escape, keys, size, resizes, winch, resizer, writer, printer, printed>>
serverVars == <<shell, shellIn, shellSize, made, sent, reader, feeder>>
streamVars == <<wire, eof>>
vars == <<ctx, ret, results, clientVars, serverVars, streamVars>>

\* PTYClient sends its size before it starts to read.
Init ==
    /\ ctx = [e \in Ends |-> TRUE] /\ ret = [e \in Ends |-> ""]
    /\ wire = [e \in Ends |-> <<>>] /\ eof = [e \in Ends |-> FALSE]
    /\ results = [e \in Ends |-> <<>>]
    /\ typed = <<>> /\ unread = <<>> /\ escape = FALSE
    /\ keys = [pc |-> "off", data |-> <<>>] /\ printer = "off" /\ printed = 0
    /\ size \in Sizes /\ resizes = MaxResizes /\ winch = FALSE
    /\ resizer = [pc |-> "measure", data |-> 0] /\ writer = ""
    /\ shell = "run" /\ shellIn = <<>> /\ shellSize = DefaultSize
    /\ made = 0 /\ sent = 0 /\ reader = "read" /\ feeder = "read"

Live(e) == ret[e] = ""
Part(p, k, v) == [part |-> p, kind |-> k, val |-> v]
Result(e, r) == results' = [results EXCEPT ![e] = Append(@, r)]

------------------------------------------------------------------------------
\* The environment.
Type(k) ==
    /\ Live("client") /\ Len(typed) < MaxKeys /\ ~Contains(typed, "end")
    /\ typed' = Append(typed, k) /\ unread' = Append(unread, k)
    /\ UNCHANGED <<ctx, ret, results, escape, keys, size, resizes, winch, resizer, writer, printer,
                   printed, serverVars, streamVars>>

\* signal.Notify never blocks: the channel holds one signal.
NotifyUnbuffered == resizer.pc = "wait"   \* mutant: a channel without a buffer
Notify == TRUE
Resize(s) ==
    /\ Live("client") /\ resizes > 0 /\ s # size
    /\ size' = s /\ resizes' = resizes - 1 /\ winch' = Notify
    /\ UNCHANGED <<ctx, ret, results, typed, unread, escape, keys, resizer, writer, printer, printed,
                   serverVars, streamVars>>

ShellPrints ==
    /\ shell = "run" /\ made < MaxOutput
    /\ made' = made + 1
    /\ UNCHANGED <<ctx, ret, results, clientVars, shell, shellIn, shellSize, sent, reader, feeder, streamVars>>

ShellExits ==
    /\ shell = "run" /\ shell' = "exited"
    /\ UNCHANGED <<ctx, ret, results, clientVars, shellIn, shellSize, made, sent, reader, feeder, streamVars>>

Cancel(e) ==
    /\ ctx[e] /\ Live(e) /\ ctx' = [ctx EXCEPT ![e] = FALSE]
    /\ UNCHANGED <<ret, results, clientVars, serverVars, streamVars>>

------------------------------------------------------------------------------
\* PTYClient, the keys.  0x05 q leaves, and what was read with it is not sent;
\* 0x05 before another key is sent with it.
RECURSIVE Translate(_, _)
Translate(ks, esc) ==
    IF ks \in {<<>>, <<"end">>} THEN [out |-> <<>>, esc |-> esc, quit |-> FALSE]
    ELSE IF esc /\ Head(ks) = "q" THEN [out |-> <<>>, esc |-> FALSE, quit |-> TRUE]
    ELSE LET key == Head(ks)
             now == IF esc THEN <<"E", key>> ELSE IF key = "E" THEN <<>> ELSE <<key>>
             rest == Translate(Tail(ks), ~esc /\ key = "E")
         IN [rest EXCEPT !.out = now \o @]

\* CloseWrite is the end of the client's frames: a frame being written stays cut.
ReadKeys(n) ==
    /\ Live("client") /\ keys.pc = "read" /\ n \in 1 .. Len(unread) /\ ~Contains(SubSeq(unread, 1, n), "end")
    /\ unread' = SubSeq(unread, n + 1, Len(unread))
    /\ LET t == Translate(SubSeq(unread, 1, n), escape) IN
       /\ escape' = t.esc
       /\ IF t.quit
          THEN /\ keys' = [pc |-> "done", data |-> <<>>]
               /\ eof' = [eof EXCEPT !["server"] = TRUE] /\ Result("client", "nil")
          ELSE /\ keys' = [pc |-> IF t.out = <<>> THEN "read" ELSE "lock", data |-> t.out]
               /\ UNCHANGED <<eof, results>>
    /\ UNCHANGED <<ctx, ret, typed, size, resizes, winch, resizer, writer, printer, printed, serverVars, wire>>

StdinEnds ==
    /\ Live("client") /\ keys.pc = "read" /\ unread = <<"end">>
    /\ keys' = [pc |-> "done", data |-> <<>>] /\ unread' = <<>> /\ Result("client", "eof")
    /\ UNCHANGED <<ctx, ret, typed, escape, size, resizes, winch, resizer, writer, printer, printed,
                   serverVars, streamVars>>

\* The size: measured, then sent under the mutex.  16-bit columns and rows; 0 is 1.
EncodeResize(s) == IF s % 65536 = 0 THEN 1 ELSE s % 65536
DecodeResize(v) == IF v = 0 THEN 1 ELSE v
Measure ==
    /\ Live("client")
    /\ resizer.pc = "measure" \/ (resizer.pc = "wait" /\ winch)
    /\ winch' = IF resizer.pc = "wait" THEN FALSE ELSE winch
    /\ resizer' = [pc |-> "lock", data |-> EncodeResize(size)]
    /\ UNCHANGED <<ctx, ret, results, typed, unread, escape, keys, size, resizes, writer, printer,
                   printed, serverVars, streamVars>>

\* WriteFrame of the two goroutines: the header with the mutex, then the payload.
\* Nothing written after a half-close or to a closed stream arrives; a write after
\* the other end's close fails once that is known, and until then succeeds.
Put(e, p) == wire' = IF eof[e] \/ ~Live(e) THEN wire ELSE [wire EXCEPT ![e] = Append(@, p)]
LockFree(g) == writer' = g   \* mutant: no mutex
Lock(g) == writer = "" /\ writer' = g
Unlock == writer' = ""

KeysHeader ==
    /\ Live("client") /\ keys.pc = "lock" /\ Lock("keys")
    /\ keys' = [keys EXCEPT !.pc = "payload"]
    /\ Put("server", Part("header", "data", Len(keys.data)))
    /\ UNCHANGED <<ctx, ret, results, typed, unread, escape, size, resizes, winch, resizer, printer,
                   printed, serverVars, eof>>
KeysPayload ==
    /\ Live("client") /\ keys.pc = "payload" /\ Unlock
    /\ \/ keys' = [pc |-> "read", data |-> <<>>] /\ UNCHANGED results
       \/ ~Live("server") /\ keys' = [pc |-> "done", data |-> <<>>] /\ Result("client", "err")
    /\ Put("server", Part("payload", "data", keys.data))
    /\ UNCHANGED <<ctx, ret, typed, unread, escape, size, resizes, winch, resizer, printer, printed,
                   serverVars, eof>>

ResizeHeader ==
    /\ Live("client") /\ resizer.pc = "lock" /\ Lock("resize")
    /\ resizer' = [resizer EXCEPT !.pc = "payload"]
    /\ Put("server", Part("header", "resize", 4))
    /\ UNCHANGED <<ctx, ret, results, typed, unread, escape, keys, size, resizes, winch, printer,
                   printed, serverVars, eof>>
ResizePayload ==
    /\ Live("client") /\ resizer.pc = "payload" /\ Unlock
    /\ resizer' = [pc |-> "wait", data |-> 0]
    /\ Put("server", Part("payload", "resize", resizer.data))
    /\ keys' = IF keys.pc = "off" THEN [keys EXCEPT !.pc = "read"] ELSE keys
    /\ printer' = IF printer = "off" THEN "read" ELSE printer
    /\ UNCHANGED <<ctx, ret, results, typed, unread, escape, size, resizes, winch, printed, serverVars, eof>>

\* ReadFrame: a header and its payload; the end of the stream between frames is
\* EOF, inside one it is an error.
HasFrame(e) == Len(wire[e]) >= 2
Ended(e) == eof[e] /\ ~HasFrame(e)
EndOf(e) == IF wire[e] = <<>> THEN "eof" ELSE "err"

PrintFrame ==
    /\ Live("client") /\ printer = "read" /\ HasFrame("client")
    /\ wire' = [wire EXCEPT !["client"] = SubSeq(@, 3, Len(@))]
    /\ \/ printed' = printed + 1 /\ UNCHANGED <<printer, results>>
       \/ printer' = "done" /\ Result("client", "err") /\ UNCHANGED printed   \* os.Stdout.Write fails
    /\ UNCHANGED <<ctx, ret, typed, unread, escape, keys, size, resizes, winch, resizer, writer,
                   serverVars, eof>>
PrintEnds ==
    /\ Live("client") /\ printer = "read" /\ Ended("client")
    /\ printer' = "done" /\ Result("client", EndOf("client"))
    /\ UNCHANGED <<ctx, ret, typed, unread, escape, keys, size, resizes, winch, resizer, writer,
                   printed, serverVars, streamVars>>

\* The first result decides, or the context; the stream is closed by runClient.
Closed(e, o) ==
    /\ eof' = [eof EXCEPT ![o] = TRUE] /\ wire' = [wire EXCEPT ![e] = <<>>]
    /\ results' = [results EXCEPT ![e] = <<>>]
Outcome(r) == IF r \in {"eof", "nil"} THEN "ok" ELSE "err"

ClientReturns ==
    /\ Live("client")
    /\ \/ results["client"] # <<>> /\ ret' = [ret EXCEPT !["client"] = Outcome(Head(results["client"]))]
       \/ ~ctx["client"] /\ ret' = [ret EXCEPT !["client"] = "err"]
    /\ Closed("client", "server")
    /\ writer' = "" /\ keys' = [pc |-> "done", data |-> <<>>] /\ resizer' = [pc |-> "done", data |-> 0]
    /\ printer' = "done" /\ unread' = <<>> /\ winch' = FALSE
    /\ UNCHANGED <<ctx, typed, escape, size, resizes, printed, serverVars>>

------------------------------------------------------------------------------
\* PTYServer, the shell's output: all of it is read before the terminal reports
\* the end.  A frame is again two writes.
ReadOutput ==
    /\ Live("server") /\ reader = "read" /\ sent < made
    /\ sent' = sent + 1 /\ reader' = "header"
    /\ UNCHANGED <<ctx, ret, results, clientVars, shell, shellIn, shellSize, made, feeder, streamVars>>
SendOutput ==
    /\ Live("server") /\ reader \in {"header", "payload"}
    /\ \/ reader' = (IF reader = "header" THEN "payload" ELSE "read") /\ UNCHANGED results
       \/ ~Live("client") /\ reader' = "done" /\ Result("server", "err")
    /\ Put("client", Part(reader, "data", 1))
    /\ UNCHANGED <<ctx, ret, clientVars, shell, shellIn, shellSize, made, sent, feeder, eof>>
\* Mutant: the end of the shell is reported before its output has been read.
OutputEndsEarly ==
    /\ Live("server") /\ reader = "read" /\ shell # "run"
    /\ reader' = "done" /\ Result("server", "end")
    /\ UNCHANGED <<ctx, ret, clientVars, shell, shellIn, shellSize, made, sent, feeder, streamVars>>

OutputEnds ==
    /\ Live("server") /\ reader = "read" /\ sent = made /\ shell # "run"
    /\ reader' = "done" /\ Result("server", "end")
    /\ UNCHANGED <<ctx, ret, clientVars, shell, shellIn, shellSize, made, sent, feeder, streamVars>>

\* Its input.  A terminal without a shell may refuse keys, depending on the system.
FeedFrame ==
    /\ Live("server") /\ feeder = "read" /\ HasFrame("server")
    /\ wire' = [wire EXCEPT !["server"] = SubSeq(@, 3, Len(@))]
    /\ LET kind == wire["server"][1].kind val == wire["server"][2].val IN
       \/ /\ kind = "data" /\ shellIn' = shellIn \o val /\ UNCHANGED <<shellSize, feeder, results>>
       \/ /\ kind = "data" /\ shell # "run" /\ feeder' = "done" /\ Result("server", "err")
          /\ UNCHANGED <<shellIn, shellSize>>
       \/ /\ kind = "resize" /\ shellSize' = DecodeResize(val) /\ UNCHANGED <<shellIn, feeder, results>>
    /\ UNCHANGED <<ctx, ret, clientVars, shell, made, sent, reader, eof>>

FeedEnds ==
    /\ Live("server") /\ feeder = "read" /\ Ended("server")
    /\ feeder' = "done" /\ Result("server", EndOf("server"))
    /\ UNCHANGED <<ctx, ret, clientVars, shell, shellIn, shellSize, made, sent, reader, streamVars>>

\* The select: the shell is killed unless it was its output that ended.
isPTYEnd(r) == r = "end"
\* closeErr: half-closing a stream whose other end has closed may fail.
CloseWriteErr == IF Live("client") THEN {"ok"} ELSE {"ok", "err"}

ServerReturns ==
    /\ Live("server")
    /\ \/ /\ results["server"] # <<>> /\ isPTYEnd(Head(results["server"]))
          /\ \E r \in CloseWriteErr : ret' = [ret EXCEPT !["server"] = r]
          /\ UNCHANGED shell
       \/ /\ results["server"] # <<>> /\ ~isPTYEnd(Head(results["server"]))
          /\ ret' = [ret EXCEPT !["server"] = Outcome(Head(results["server"]))]
          /\ shell' = IF shell = "run" THEN "killed" ELSE shell
       \/ /\ ~ctx["server"] /\ ret' = [ret EXCEPT !["server"] = "err"]
          /\ shell' = IF shell = "run" THEN "killed" ELSE shell
    /\ Closed("server", "client")
    /\ reader' = "done" /\ feeder' = "done"
    /\ UNCHANGED <<ctx, clientVars, shellIn, shellSize, made, sent>>

------------------------------------------------------------------------------
Progress ==
    \/ \E n \in 1 .. MaxKeys : ReadKeys(n)
    \/ StdinEnds \/ KeysHeader \/ KeysPayload \/ Measure \/ ResizeHeader \/ ResizePayload
    \/ PrintFrame \/ PrintEnds \/ ClientReturns
    \/ ReadOutput \/ SendOutput \/ OutputEnds \/ FeedFrame \/ FeedEnds \/ ServerReturns

Next ==
    \/ \E k \in Keys : Type(k)
    \/ \E s \in Sizes : Resize(s)
    \/ \E e \in Ends : Cancel(e)
    \/ ShellPrints \/ ShellExits \/ Progress

Spec == Init /\ [][Next]_vars

\* Goroutines run.  Each step consumes something of which there is a finite amount,
\* so that weak fairness of them all together is fairness of each.
FairSpec == Spec /\ WF_vars(Progress)

------------------------------------------------------------------------------
\* Types of the state.
TypeOK ==
    /\ keys.pc \in {"off", "read", "lock", "payload", "done"}
    /\ resizer.pc \in {"measure", "wait", "lock", "payload", "done"}
    /\ writer \in {"", "keys", "resize"}
    /\ \A e \in Ends : ret[e] \in {"", "ok", "err"} /\ Len(results[e]) <= 2
    /\ printed <= sent /\ sent <= made

\* Headers and payloads alternate on the wire in both directions, each payload
\* after its own header, although two goroutines of the client write frames.
FramesWhole ==
    \A e \in Ends : \A i \in 1 .. Len(wire[e]) :
        IF i % 2 = 1 THEN wire[e][i].part = "header"
        ELSE wire[e][i].part = "payload" /\ wire[e][i].kind = wire[e][i - 1].kind

\* When the shell ends by itself and both ends report success, the client has
\* printed all of its output before it returned ("so that the client can consume
\* the final logout output and observe EOF"), unless the user left it.
LogoutSeen ==
    /\ shell = "exited" /\ ret["server"] = "ok" /\ ret["client"] = "ok"
    /\ ~Translate(typed, FALSE).quit /\ ~Contains(typed, "end")
    => printed = made

\* As long as both ends run, the shell's window gets the terminal's last size, even
\* when the size changes while an earlier one is being sent.
SizeConverges ==
    <>[]((\A e \in Ends : Live(e)) => shellSize = EncodeResize(size))

==============================================================================

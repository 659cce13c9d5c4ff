------------------------------- MODULE Bridges --------------------------------
(***************************************************************************)
(* session/session.go and session/forwarding.go: what the two ends of one  *)
(* stream do with it.  The client's end runs Bridge, on its terminal or on *)
(* a connection accepted by StartLocalForward; the server's end runs       *)
(* Bridge, TCPForward, SOCKS or Exec, as runServerSession dispatches.      *)
(*                                                                         *)
(* Data are chunks, counted: an end reads chunks from its input (terminal, *)
(* TCP connection or child process), and hands chunks to its output.  A    *)
(* stream keeps their order.  The two copiers of Exec's output are one     *)
(* here: the mutex around stream.Write makes them so.                      *)
(*                                                                         *)
(* The stream is libp2p's, or nativewebrtc's, which goes on over a new     *)
(* data channel when it loses the old one, without the frames that were on *)
(* their way (see NativeStream and NativeSession).                         *)
(***************************************************************************)
EXTENDS Naturals, Sequences

CONSTANTS Kinds,        \* the kinds of session that are checked
          Routes,       \* the kinds of stream: "libp2p", "native"
          MaxChunks,    \* bound: chunks per input, for each kind and end
          MaxFaults     \* bound: local connections and data channels that fail

Ends == {"client", "server"}
Other(e) == IF e = "client" THEN "server" ELSE "client"

ASSUME BoundsAssumption == MaxChunks \in [Kinds -> [Ends -> Nat]] /\ MaxFaults \in Nat
ASSUME KindsAssumption == Kinds \subseteq {"raw", "forward", "socks", "exec"}
ASSUME RoutesAssumption == Routes \subseteq {"libp2p", "native"}

VARIABLES
    kind,     \* the kind of session
    route,    \* the kind of stream
    ctx,      \* per end: the context of the session is live
    pc,       \* per end: where the session's function is
    ret,      \* per end: what it returned
    input,    \* per end: chunks that entered its input and were read from it, whether the
              \* input has ended, whether the reading end of a pipe has been closed
    inp, out, \* per end: the goroutine that reads the input, the one that feeds the output
    errorsCh, completed,
    flow,     \* per end: chunks on their way to it, and whether EOF follows them
    reset,    \* the stream was reset, by either end
    closed,   \* per end: stream.Close was called
    got,      \* per end: chunks handed to its output
    held,     \* chunks of the stream in the bufio.Reader of SOCKS
    eaten,    \* chunks that were requests of the SOCKS negotiation
    replies,  \* chunks that SOCKS wrote itself
    timer,    \* handshakeTimer: "armed", "stopped" or "fired"
    faults,
    lossy     \* history: frames were lost with a data channel that was replaced

sessionVars == <<pc, ret, completed>>
copyVars == <<input, inp, out, errorsCh>>
streamVars == <<flow, reset, closed, got>>
socksVars == <<held, eaten, replies, timer>>
fixed == <<kind, route, lossy>>
vars == <<fixed, ctx, sessionVars, copyVars, streamVars, socksVars, faults>>

------------------------------------------------------------------------------
\* runClient and runServerSession: the server's end dials or negotiates first,
\* unless its input is there already.
FirstStep(k, e) ==
    IF e = "client" \/ k = "raw" THEN "bridge"
    ELSE IF k = "forward" THEN "dial" ELSE IF k = "socks" THEN "greet" ELSE "start"
Copiers(k, e) == IF FirstStep(k, e) = "bridge" THEN "run" ELSE "off"

Init ==
    /\ kind \in Kinds /\ route \in Routes /\ lossy = FALSE
    /\ ctx = [e \in Ends |-> TRUE]
    /\ pc = [e \in Ends |-> FirstStep(kind, e)]
    /\ ret = [e \in Ends |-> "none"]
    /\ input = [e \in Ends |-> [made |-> 0, read |-> 0, ended |-> FALSE, shut |-> FALSE]]
    /\ inp = [e \in Ends |-> Copiers(kind, e)]
    /\ out = inp
    /\ errorsCh = [e \in Ends |-> <<>>] /\ completed = [e \in Ends |-> 0]
    /\ flow = [e \in Ends |-> [chunks |-> 0, eof |-> FALSE]]
    /\ reset = FALSE /\ closed = [e \in Ends |-> FALSE]
    /\ got = [e \in Ends |-> 0]
    /\ held = 0 /\ eaten = 0 /\ replies = 0
    /\ timer = IF kind = "socks" THEN "armed" ELSE "stopped"
    /\ faults = 0

\* The environment: an input produces a chunk or ends (a child process exits), and
\* a context ends.  A target is there once the server's end has dialled it.  The
\* client and the server's terminal have an inactivity timer, which may interrupt
\* them at any time, as their context may.
HasInput(e) == inp[e] # "off" /\ pc[e] # "closed"
Produce(e) ==
    /\ HasInput(e) /\ ~input[e].ended /\ input[e].made < MaxChunks[kind][e]
    /\ input' = [input EXCEPT ![e].made = @ + 1]
    /\ UNCHANGED <<fixed, ctx, sessionVars, inp, out, errorsCh, streamVars, socksVars, faults>>

EndInput(e) ==
    /\ HasInput(e) /\ ~input[e].ended
    /\ input' = [input EXCEPT ![e].ended = TRUE]
    /\ UNCHANGED <<fixed, ctx, sessionVars, inp, out, errorsCh, streamVars, socksVars, faults>>

Timed(e) == kind = "raw" \/ e = "client"
Cancel(e) ==
    /\ ctx[e] /\ pc[e] # "closed" /\ ~Timed(e)
    /\ ctx' = [ctx EXCEPT ![e] = FALSE]
    /\ UNCHANGED <<fixed, sessionVars, copyVars, streamVars, socksVars, faults>>

------------------------------------------------------------------------------
\* The stream.  A write reaches the other end unless that end is closed; a closed
\* end and a reset stream refuse it.  What an end has received before the stream
\* is reset counts as read before.
Broken(e) == reset \/ closed[e]
Sent(e) == IF closed[Other(e)] THEN flow ELSE [flow EXCEPT ![Other(e)].chunks = @ + 1]
HalfClosed(e) == [flow EXCEPT ![Other(e)].eof = TRUE]
Report(e, v) == errorsCh' = [errorsCh EXCEPT ![e] = Append(@, v)]

\* What is left of the frames on their way to e when a data channel is gone: those
\* it received before.  The end of the stream comes last.
Kept(e) ==
    IF out[e] = "done" THEN {flow[e]}
    ELSE {flow[e]} \cup {[chunks |-> n, eof |-> FALSE] : n \in 0 .. flow[e].chunks}

\* superviseClientConnection and Listener.activate put a new data channel under
\* the stream, which goes on: nothing is sent again.
ChannelReplaced ==
    /\ route = "native" /\ ~reset /\ faults < MaxFaults
    /\ \A e \in Ends : ~closed[e]
    /\ flow' \in {f \in [Ends -> Kept("client") \cup Kept("server")] : \A e \in Ends : f[e] \in Kept(e)}
    /\ flow' # flow
    /\ lossy' = TRUE /\ faults' = faults + 1
    /\ UNCHANGED <<kind, route, ctx, sessionVars, copyVars, reset, closed, got, socksVars>>

\* Close of a native stream closes the PeerConnection after controlDeliveryDelay,
\* with what it has not delivered yet ...
ChannelClosed(e) ==
    /\ route = "native" /\ ~reset /\ ~closed[e] /\ closed[Other(e)]
    /\ \E f \in Kept(e) \ {flow[e]} : flow' = [flow EXCEPT ![e] = f]
    /\ UNCHANGED <<fixed, ctx, sessionVars, copyVars, reset, closed, got, socksVars, faults>>

\* ... and the other end, which waits for a new channel in vain, fails the stream.
ReconnectFails(e) ==
    /\ route = "native" /\ ~reset /\ ~closed[e] /\ closed[Other(e)]
    /\ reset' = TRUE
    /\ UNCHANGED <<fixed, ctx, sessionVars, copyVars, flow, closed, got, socksVars, faults>>

\* Exec half-closes the stream itself; the copiers of Bridge and bridgeBuffered do.
Child(e) == kind = "exec" /\ e = "server"
WriteClosed(e) == inp[e] = "done" /\ ~Child(e)

\* A session's function returns and the deferred calls follow: the connection is
\* closed, which ends the copiers, and so is the stream (by handleStream, runClient
\* or StartLocalForward), which sends EOF unless that was done before.  f is the
\* stream's content when it returns; a reset discards it.
Leave(e, r, f, rst) ==
    /\ pc' = [pc EXCEPT ![e] = "closed"] /\ ret' = [ret EXCEPT ![e] = r]
    /\ reset' = rst /\ closed' = [closed EXCEPT ![e] = TRUE]
    /\ flow' = [d \in Ends |-> [chunks |-> IF rst \/ d = e THEN 0 ELSE f[d].chunks,
                               eof |-> f[d].eof \/ (d = Other(e) /\ ~WriteClosed(e))]]
    /\ inp' = [inp EXCEPT ![e] = "done"] /\ out' = [out EXCEPT ![e] = "done"]
    /\ errorsCh' = [errorsCh EXCEPT ![e] = <<>>]

\* The goroutine that copies input to stream: io.Copy, the quit delay, CloseWrite.
CopyIn(e) ==
    /\ inp[e] = "run" /\ input[e].read < input[e].made /\ ~input[e].shut /\ ~Broken(e)
    /\ input' = [input EXCEPT ![e].read = @ + 1]
    /\ flow' = Sent(e)
    /\ UNCHANGED <<fixed, ctx, sessionVars, inp, out, errorsCh, reset, closed, got, socksVars, faults>>

\* bridgeBuffered ignores the error of CloseWrite, and does not reset on an error.
Buffered(e) == kind = "socks" /\ e = "server"

\* A failed write, or a failed read of a connection, ends the copy: the stream is
\* half-closed all the same, and the error reported.
CopyInFails(e) ==
    /\ inp[e] = "run" /\ ~Child(e)
    /\ \/ input[e].read < input[e].made /\ (Broken(e) \/ closed[Other(e)]) /\ UNCHANGED faults
       \/ kind \in {"forward", "socks"} /\ faults < MaxFaults /\ faults' = faults + 1
    /\ inp' = [inp EXCEPT ![e] = "done"] /\ Report(e, "err")
    /\ flow' = IF Broken(e) THEN flow ELSE HalfClosed(e)
    /\ UNCHANGED <<fixed, ctx, sessionVars, input, out, reset, closed, got, socksVars>>

\* copyOutput ignores a failed write and goes on reading the child's output.
CopyInDropped(e) ==
    /\ inp[e] = "run" /\ Child(e) /\ ~input[e].shut
    /\ input[e].read < input[e].made /\ (Broken(e) \/ closed[Other(e)])
    /\ input' = [input EXCEPT ![e].read = @ + 1]
    /\ UNCHANGED <<fixed, ctx, sessionVars, inp, out, errorsCh, streamVars, socksVars, faults>>

InputEnds(e) ==
    /\ inp[e] = "run" /\ input[e].read = input[e].made /\ input[e].ended
    /\ inp' = [inp EXCEPT ![e] = IF Child(e) THEN "done" ELSE "delay"]
    /\ UNCHANGED <<fixed, ctx, sessionVars, input, out, errorsCh, streamVars, socksVars, faults>>

\* child.Wait has closed the pipe under the copier: what was still in it is lost.
PipeShut(e) ==
    /\ inp[e] = "run" /\ input[e].shut
    /\ inp' = [inp EXCEPT ![e] = "done"]
    /\ UNCHANGED <<fixed, ctx, sessionVars, input, out, errorsCh, streamVars, socksVars, faults>>

\* Mutant: the stream is not half-closed.
CloseWriteMissing(e) ==
    /\ inp[e] = "delay"
    /\ inp' = [inp EXCEPT ![e] = "done"] /\ Report(e, "nil")
    /\ UNCHANGED <<fixed, ctx, sessionVars, input, out, streamVars, socksVars, faults>>

CloseWrite(e) ==
    /\ inp[e] = "delay"
    /\ inp' = [inp EXCEPT ![e] = "done"]
    /\ flow' = IF Broken(e) THEN flow ELSE HalfClosed(e)
    /\ Report(e, IF Broken(e) /\ ~Buffered(e) THEN "err" ELSE "nil")
    /\ UNCHANGED <<fixed, ctx, sessionVars, input, out, reset, closed, got, socksVars, faults>>

\* The goroutine that copies stream to output and half-closes the output.  The
\* server's end of SOCKS reads what its bufio.Reader holds first.
HeldIgnored(e) == 0   \* mutant: the stream is read past the bufio.Reader
Held(e) == IF e = "server" THEN held ELSE 0
CopyOut(e) ==
    /\ out[e] = "run" /\ (Held(e) > 0 \/ (flow[e].chunks > 0 /\ ~Broken(e)))
    /\ got' = [got EXCEPT ![e] = @ + 1]
    /\ IF Held(e) > 0 THEN held' = held - 1 /\ UNCHANGED flow
       ELSE flow' = [flow EXCEPT ![e].chunks = @ - 1] /\ UNCHANGED held
    /\ UNCHANGED <<fixed, ctx, sessionVars, copyVars, reset, closed, eaten, replies, timer, faults>>

StreamEnds(e) ==
    /\ out[e] = "run" /\ Held(e) = 0
    /\ Broken(e) \/ (flow[e].chunks = 0 /\ flow[e].eof)
    /\ out' = [out EXCEPT ![e] = "done"]
    /\ IF Child(e) THEN UNCHANGED errorsCh ELSE Report(e, IF Broken(e) THEN "err" ELSE "nil")
    /\ UNCHANGED <<fixed, ctx, sessionVars, input, inp, streamVars, socksVars, faults>>

\* Everything was handed to a TCP connection, but its CloseWrite fails.
OutputNotShut(e) ==
    /\ out[e] = "run" /\ Held(e) = 0 /\ ~Broken(e) /\ flow[e].chunks = 0 /\ flow[e].eof
    /\ kind \in {"forward", "socks"} /\ ~Buffered(e) /\ faults < MaxFaults
    /\ faults' = faults + 1 /\ Report(e, "err")
    /\ out' = [out EXCEPT ![e] = "done"]
    /\ UNCHANGED <<fixed, ctx, sessionVars, input, inp, streamVars, socksVars>>

\* The output refuses a chunk: a connection was reset, or a child has closed its
\* standard input, which Exec ignores.
Refusable(e) == out[e] = "run" /\ (Held(e) > 0 \/ flow[e].chunks > 0) /\ ~Broken(e)
OutputFails(e) ==
    /\ Refusable(e) /\ kind \in {"forward", "socks"} /\ faults < MaxFaults
    /\ faults' = faults + 1 /\ Report(e, "err")
    /\ out' = [out EXCEPT ![e] = "done"]
    /\ UNCHANGED <<fixed, ctx, sessionVars, input, inp, streamVars, socksVars>>

StdinRefused(e) ==
    /\ Refusable(e) /\ Child(e)
    /\ out' = [out EXCEPT ![e] = "done"]
    /\ UNCHANGED <<fixed, ctx, sessionVars, input, inp, errorsCh, streamVars, socksVars, faults>>

------------------------------------------------------------------------------
\* Bridge and bridgeBuffered: two results, the first error, the context, or (in
\* the client and on the server's terminal) the inactivity timer.
Collect(e) ==
    /\ pc[e] = "bridge" /\ errorsCh[e] # <<>>
    /\ \/ /\ Head(errorsCh[e]) = "nil" /\ completed[e] = 0
          /\ completed' = [completed EXCEPT ![e] = 1]
          /\ errorsCh' = [errorsCh EXCEPT ![e] = Tail(@)]
          /\ UNCHANGED <<pc, ret, inp, out, flow, reset, closed>>
       \/ /\ Head(errorsCh[e]) = "nil" /\ completed[e] = 1
          /\ Leave(e, "ok", flow, reset) /\ UNCHANGED completed
       \/ /\ Head(errorsCh[e]) = "err"
          /\ Leave(e, "err", flow, reset \/ ~Buffered(e)) /\ UNCHANGED completed
    /\ UNCHANGED <<fixed, ctx, input, got, socksVars, faults>>

Interrupt(e) ==
    /\ pc[e] = "bridge" /\ (~ctx[e] \/ Timed(e))
    /\ Leave(e, "err", flow, TRUE)
    /\ UNCHANGED <<fixed, ctx, completed, input, got, socksVars, faults>>

\* Exec: the pipes and the child are made, or Exec returns at once.
ChildStarts ==
    /\ pc["server"] = "start" /\ pc' = [pc EXCEPT !["server"] = "child"]
    /\ inp' = [inp EXCEPT !["server"] = "run"] /\ out' = [out EXCEPT !["server"] = "run"]
    /\ UNCHANGED <<fixed, ctx, ret, completed, input, errorsCh, streamVars, socksVars, faults>>

ChildStartFails ==
    /\ pc["server"] = "start" /\ Leave("server", "err", flow, reset)
    /\ UNCHANGED <<fixed, ctx, completed, input, got, socksVars, faults>>

\* Wait returns when the child has exited and closes the pipes; the copiers
\* are awaited only then.
ChildWait ==
    /\ pc["server"] = "child" /\ input["server"].ended
    /\ pc' = [pc EXCEPT !["server"] = "drain"]
    /\ input' = [input EXCEPT !["server"].shut = TRUE]
    /\ UNCHANGED <<fixed, ctx, ret, completed, inp, out, errorsCh, streamVars, socksVars, faults>>

ChildKilled ==
    /\ pc["server"] = "child" /\ ~ctx["server"] /\ ~input["server"].ended
    /\ input' = [input EXCEPT !["server"].ended = TRUE]
    /\ UNCHANGED <<fixed, ctx, sessionVars, inp, out, errorsCh, streamVars, socksVars, faults>>

ExecReturns ==
    /\ pc["server"] = "drain" /\ inp["server"] = "done"
    /\ \E r \in {"ok", "err"} :
          /\ ctx["server"] \/ r = "err"
          /\ Leave("server", r, IF Broken("server") THEN flow ELSE HalfClosed("server"), reset)
    /\ UNCHANGED <<fixed, ctx, completed, input, got, socksVars, faults>>

------------------------------------------------------------------------------
\* TCPForward and SOCKS dial the target, then bridge; a SOCKS client is told the
\* outcome, and the session ends when it cannot be.
Bridging ==
    /\ pc' = [pc EXCEPT !["server"] = "bridge"]
    /\ inp' = [inp EXCEPT !["server"] = "run"] /\ out' = [out EXCEPT !["server"] = "run"]
    /\ UNCHANGED <<ret, errorsCh, reset, closed>>

ForwardDials ==
    /\ pc["server"] = "dial"
    /\ (Bridging /\ UNCHANGED flow) \/ Leave("server", "err", flow, reset)
    /\ UNCHANGED <<fixed, ctx, completed, input, got, socksVars, faults>>

SocksDials ==
    /\ pc["server"] = "connect"
    /\ \/ /\ ~Broken("server") /\ replies' = replies + 1
          /\ (Bridging /\ flow' = Sent("server")) \/ Leave("server", "err", Sent("server"), reset)
       \/ /\ Broken("server") /\ Leave("server", "err", flow, reset) /\ UNCHANGED replies
    /\ UNCHANGED <<fixed, ctx, completed, input, got, held, eaten, timer, faults>>

\* The negotiation reads through a bufio.Reader, which takes more from the stream
\* than the request it is asked for.  A SOCKS5 greeting is answered, and a request
\* follows; a SOCKS4 request comes at once; either may be malformed.
Fill(n) ==
    /\ pc["server"] \in {"greet", "request"} /\ held = 0 /\ ~Broken("server")
    /\ n \in 1 .. flow["server"].chunks
    /\ held' = n /\ flow' = [flow EXCEPT !["server"].chunks = @ - n]
    /\ UNCHANGED <<fixed, ctx, sessionVars, copyVars, reset, closed, got, eaten, replies, timer, faults>>

Taken == held > 0 /\ held' = held - 1 /\ eaten' = eaten + 1

Socks5Greeting ==
    /\ pc["server"] = "greet" /\ ~Broken("server") /\ Taken
    /\ pc' = [pc EXCEPT !["server"] = "request"]
    /\ flow' = Sent("server") /\ replies' = replies + 1
    /\ UNCHANGED <<fixed, ctx, ret, completed, copyVars, reset, closed, got, timer, faults>>

\* Mutant: the timer is left running while the target is dialled.
HandshakeDoneTimed ==
    \/ /\ timer = "armed" /\ UNCHANGED timer
       /\ pc' = [pc EXCEPT !["server"] = "connect"]
       /\ UNCHANGED <<ret, inp, out, errorsCh, flow, reset, closed>>
    \/ timer = "fired" /\ UNCHANGED timer /\ Leave("server", "err", flow, reset)

\* The request is understood: the timer is stopped, which fails once it has fired.
HandshakeDone ==
    \/ /\ timer = "armed" /\ timer' = "stopped"
       /\ pc' = [pc EXCEPT !["server"] = "connect"]
       /\ UNCHANGED <<ret, inp, out, errorsCh, flow, reset, closed>>
    \/ timer = "fired" /\ UNCHANGED timer /\ Leave("server", "err", flow, reset)

Socks5Request ==
    /\ pc["server"] = "request" /\ Taken /\ HandshakeDone
    /\ UNCHANGED <<fixed, ctx, completed, input, got, replies, faults>>

Socks4Request ==
    /\ pc["server"] = "greet" /\ Taken /\ HandshakeDone
    /\ UNCHANGED <<fixed, ctx, completed, input, got, replies, faults>>

\* It is malformed, or the stream ends; SOCKS5 answers an unsuitable greeting.
NegotiationFails ==
    /\ pc["server"] \in {"greet", "request"}
    /\ held > 0 \/ Broken("server") \/ (flow["server"].chunks = 0 /\ flow["server"].eof)
    /\ timer' = IF timer = "armed" THEN "stopped" ELSE timer
    /\ \/ /\ pc["server"] = "greet" /\ held > 0 /\ ~Broken("server")
          /\ Leave("server", "err", Sent("server"), reset) /\ replies' = replies + 1
       \/ Leave("server", "err", flow, reset) /\ UNCHANGED replies
    /\ held' = 0
    /\ UNCHANGED <<fixed, ctx, completed, input, got, eaten, faults>>

TimerFires ==
    /\ timer = "armed" /\ timer' = "fired"
    /\ reset' = TRUE
    /\ UNCHANGED <<fixed, ctx, sessionVars, copyVars, flow, closed, got, held, eaten, replies, faults>>

------------------------------------------------------------------------------
Copying(e) ==
    \/ CopyIn(e) \/ CopyInFails(e) \/ CopyInDropped(e) \/ InputEnds(e) \/ PipeShut(e) \/ CloseWrite(e)
    \/ CopyOut(e) \/ StreamEnds(e) \/ OutputNotShut(e) \/ OutputFails(e) \/ StdinRefused(e)
Negotiating ==
    \/ \E n \in 1 .. MaxChunks[kind]["client"] : Fill(n)
    \/ Socks5Greeting \/ Socks5Request \/ Socks4Request \/ NegotiationFails \/ TimerFires
Server ==
    \/ ForwardDials \/ SocksDials \/ ChildStarts \/ ChildStartFails \/ ChildWait \/ ChildKilled \/ ExecReturns \/ Negotiating
Running(e) == Copying(e) \/ Collect(e) \/ ReconnectFails(e) \/ (~ctx[e] /\ Interrupt(e))

Next ==
    \/ \E e \in Ends : Produce(e) \/ EndInput(e) \/ Cancel(e) \/ Interrupt(e) \/ Running(e)
                     \/ ChannelClosed(e)
    \/ Server \/ ChannelReplaced

Spec == Init /\ [][Next]_vars

\* Goroutines run, dials and timers end, and what a session has read its output
\* takes.  Inputs, contexts and data channels are free.
FairSpec == Spec /\ WF_vars(Server \/ \E e \in Ends : Running(e))

------------------------------------------------------------------------------
\* Types of the state.
TypeOK ==
    /\ kind \in Kinds /\ route \in Routes /\ lossy \in BOOLEAN /\ reset \in BOOLEAN
    /\ timer \in {"armed", "stopped", "fired"}
    /\ \A e \in Ends :
          /\ pc[e] \in {"dial", "greet", "request", "connect", "start", "child", "drain", "bridge",
                        "closed"}
          /\ ret[e] \in {"none", "ok", "err"} /\ completed[e] \in 0 .. 1
          /\ inp[e] \in {"off", "run", "delay", "done"} /\ out[e] \in {"off", "run", "done"}
          /\ input[e].read <= input[e].made /\ Len(errorsCh[e]) <= 2
          /\ flow[e].chunks \in 0 .. MaxChunks[kind][Other(e)] + 2

Wanted(e) ==
    IF e = "server" THEN input["client"].made - eaten ELSE input["server"].made + replies

Complete == \A e \in Ends : got[e] = Wanted(e)

\* When both ends report success, every chunk that entered an input left the
\* other's output: no half-close, negotiation or shutdown cuts data off silently,
\* also when Close throws away what a native stream has not delivered.  What is
\* lost with a data channel that is replaced is the subject of WritesSurvive.  A
\* child process is free to exit without reading its input; what it wrote is the
\* subject of ExecOutput.
NothingCutOff == kind # "exec" /\ ~lossy /\ (\A e \in Ends : ret[e] = "ok") => Complete

\* The timer of the SOCKS handshake resets a stream only while the handshake
\* lasts: once the target is being dialled the stream is left alone.
NoLateTimeout ==
    kind = "socks" /\ pc["server"] \in {"connect", "bridge"} => timer = "stopped"

Finished == \A e \in Ends : input[e].ended \/ pc[e] = "closed"

\* When the inputs end, or the server's end has given up, both ends return:
\* neither waits for the other in a half-closed stream, nor for a native stream
\* whose other end is gone.  It takes outputs that accept what they are given, and
\* a stream that has not lost an end of stream with a data channel: an end that
\* was lost is not sent again, and the reader waits for it as long as the channels
\* last (session.go:35-95, stream.go:103-131).
BothEnd == <>[](Finished /\ ~lossy => \A e \in Ends : pc[e] = "closed")

\* What a child process wrote before it exited reaches the client, when both ends
\* report success.
ExecOutput ==
    kind = "exec" /\ (\A e \in Ends : ret[e] = "ok") => got["client"] = input["server"].made

\* docs/ARCHITECTURE.md:62-65: a replacement data channel is attached to the
\* existing logical stream so that queued writes survive transient ICE failures;
\* then two ends that report success have lost nothing.
WritesSurvive == kind # "exec" /\ (\A e \in Ends : ret[e] = "ok") => Complete
==============================================================================

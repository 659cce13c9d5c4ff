------------------------------ MODULE Rendezvous ------------------------------
(***************************************************************************)
(* From dialling to the session: openAnyStream races the libp2p route with *)
(* native WebRTC, which itself races its signaling sessions                *)
(* (ConnectWithSignalingSessions); the client authenticates the stream it  *)
(* chose (protocol/admission); the listener (runListener, and startServer  *)
(* of the daemon) authenticates every stream that arrives and, unless it   *)
(* is persistent, serves one of them and exits.                            *)
(*                                                                         *)
(* A stream is named by its client and its route.  Cryptography is         *)
(* symbolic: a MAC is the record of its key and of what it covers, a nonce *)
(* is the name of the stream it was drawn for.  Peers follow the protocol, *)
(* though their tokens may differ and their clocks may be wrong.           *)
(***************************************************************************)
EXTENDS Integers, FiniteSets

CONSTANTS Clients,
          Sessions,      \* the signaling sessions of a client, by name (createSessions);
                         \* none when native WebRTC is not enabled for it
          Setups,        \* opts and profile (below) that the two sides may start with
          Key,           \* the key of the listener's token
          MaxClockSkew   \* in ticks of the clocks; the listener's reads 0

Libp2p == "libp2p"
Routes(c) == {Libp2p} \cup Sessions[c]
AllRoutes == {Libp2p} \cup UNION {Sessions[c] : c \in Clients}
Streams == {s \in Clients \X AllRoutes : s[2] \in Routes(s[1])}

ASSUME SkewAssumption == MaxClockSkew \in Nat
ASSUME NamesAssumption == \A c \in Clients : Libp2p \notin Sessions[c] /\ "none" \notin Sessions[c]
ASSUME SetupsAssumption ==
    \A u \in Setups : /\ u.opts \in [token : BOOLEAN, persistent : BOOLEAN]
                       /\ \A c \in Clients : u.profile[c].clock \in Int

VARIABLES
    opts,       \* token: both sides have a pairing token; persistent: keepOpen, or a mode
                \* that implies it
    profile,    \* the key and the clock of every client
    client,     \* where runClient is: pc, failed attempts, whether its dial context has
                \* expired, whether raceCtx is done, the stream openAnyStream returned
    att,        \* the goroutine of every attempt
    nat,        \* the goroutine that runs nativewebrtc.Connect
    once,       \* per client: winnerOnce is done
    result,     \* per client: the connection in the channel of that name
    sig,        \* per client and session: the signaling session is open
    end,        \* per stream: the client's end
    wire,       \* per stream: the frames under way, to the server and to the client
    handler,    \* per stream: where the listener's goroutine is
    accepted, done,   \* of runListener; done: the channel result holds an error
    listener,   \* "run" or "exited"
    served      \* history: the streams that reached runServerSession

clientVars == <<client, att, nat, once, result, sig>>
listenerVars == <<accepted, done, listener, served>>
vars == <<opts, profile, clientVars, end, wire, handler, listenerVars>>

------------------------------------------------------------------------------
\* protocol/admission: frames, MACs and their verification.
NoFrame == [kind |-> "none"]
calculateMAC(key, role, ts, cn, sn) ==
    [key |-> key, role |-> role, ts |-> ts, client |-> cn, server |-> sn]
encode(kind, ts, nonce, mac) == [kind |-> kind, ts |-> ts, nonce |-> nonce, mac |-> mac]
decodes(f, expectedKind) == f.kind = expectedKind
CreateHello(p, s) ==
    encode("hello", p.clock, s, calculateMAC(p.key, "client", p.clock, s, ""))
VerifyHelloAnyClock(f) ==
    decodes(f, "hello") /\ f.mac = calculateMAC(Key, "client", f.ts, f.nonce, "")
VerifyHello(f) ==
    /\ decodes(f, "hello")
    /\ f.ts >= -MaxClockSkew /\ f.ts <= MaxClockSkew
    /\ f.mac = calculateMAC(Key, "client", f.ts, f.nonce, "")
CreateAck(f, s) ==
    encode("ack", f.ts, s, calculateMAC(Key, "server", f.ts, f.nonce, s))
VerifyAck(p, s, f) ==
    /\ decodes(f, "ack") /\ f.ts = p.clock
    /\ f.mac = calculateMAC(p.key, "server", p.clock, s, f.nonce)

Init ==
    /\ \E u \in Setups : opts = u.opts /\ profile = u.profile
    /\ client = [c \in Clients |-> [pc |-> "race", failures |-> 0, expired |-> FALSE,
                                    raced |-> FALSE, stream |-> "none"]]
    /\ att = [s \in Streams |-> "dial"]
    /\ nat = [c \in Clients |-> IF Sessions[c] # {} THEN "connect" ELSE "off"]
    /\ once = [c \in Clients |-> FALSE]
    /\ result = [c \in Clients |-> "none"]
    /\ sig = [s \in Streams |-> s[2] # Libp2p]
    /\ end = [s \in Streams |-> "none"]
    /\ wire = [s \in Streams |-> [up |-> NoFrame, down |-> NoFrame]]
    /\ handler = [s \in Streams |-> "none"]
    /\ accepted = FALSE /\ done = FALSE /\ listener = "run" /\ served = {}

------------------------------------------------------------------------------
\* A stream reaches the listener: handleStream, up to the goroutine it starts.
\* Without a token the first stream takes a listener that is not persistent; a
\* stream refused at once is reset.
HandleTakesSlot(s) ==
    IF accepted /\ ~opts.persistent
    THEN handler' = [handler EXCEPT ![s] = "closed"] /\ UNCHANGED <<accepted, served>>
    ELSE /\ handler' = [handler EXCEPT ![s] = IF opts.token THEN "auth" ELSE "session"]
         /\ accepted' = TRUE /\ served' = IF opts.token THEN served ELSE served \cup {s}
Handle(s) ==
    IF opts.token
    THEN handler' = [handler EXCEPT ![s] = "auth"] /\ UNCHANGED <<accepted, served>>
    ELSE IF accepted /\ ~opts.persistent
         THEN handler' = [handler EXCEPT ![s] = "closed"] /\ UNCHANGED <<accepted, served>>
         ELSE /\ handler' = [handler EXCEPT ![s] = "session"]
              /\ accepted' = TRUE /\ served' = served \cup {s}

\* openAnyStream returns: the first stream wins, and raceCtx is cancelled.
Return(c, pc, r) ==
    client' = [client EXCEPT ![c] = [pc |-> pc, failures |-> 0, expired |-> FALSE,
                                     raced |-> TRUE, stream |-> r]]
AfterOpen == IF opts.token THEN "hello" ELSE "session"
nativeWebRTCEnabled(c) == Sessions[c] # {}

\* node.OpenStream returns a stream, or an error; without native WebRTC there is
\* no race, and openAnyStream returns what it does.
Libp2pUp(c) ==
    LET s == <<c, Libp2p>> IN
    /\ att[s] = "dial" /\ listener = "run"
    /\ att' = [att EXCEPT ![s] = IF nativeWebRTCEnabled(c) THEN "up" ELSE "end"]
    /\ IF nativeWebRTCEnabled(c) THEN UNCHANGED client ELSE Return(c, AfterOpen, Libp2p)
    /\ end' = [end EXCEPT ![s] = "open"]
    /\ Handle(s)
    /\ UNCHANGED <<opts, profile, nat, once, result, sig, wire, done, listener>>

DialFails(s) ==
    /\ att[s] = "dial"
    /\ att' = [att EXCEPT ![s] = IF nativeWebRTCEnabled(s[1]) THEN "err" ELSE "end"]
    /\ IF nativeWebRTCEnabled(s[1]) THEN UNCHANGED client ELSE Return(s[1], "failed", "none")
    /\ UNCHANGED <<opts, profile, nat, once, result, sig, end, wire, handler, listenerVars>>

\* connectWithSession succeeds: the first to do so is the winner, the others
\* close their connection, and with it their signaling session.
SessionUp(s) ==
    LET c == s[1] IN
    /\ s[2] # Libp2p /\ att[s] = "dial" /\ listener = "run"
    /\ once' = [once EXCEPT ![c] = TRUE]
    /\ result' = IF once[c] THEN result ELSE [result EXCEPT ![c] = s[2]]
    /\ att' = [att EXCEPT ![s] = IF once[c] THEN "end" ELSE "up"]
    /\ end' = [end EXCEPT ![s] = IF once[c] THEN "closed" ELSE "open"]
    /\ sig' = IF once[c] THEN [sig EXCEPT ![s] = FALSE] ELSE sig
    /\ Handle(s)
    /\ UNCHANGED <<opts, profile, client, nat, wire, done, listener>>

------------------------------------------------------------------------------
\* ConnectWithSignalingSessions waits for a winner, for every session to fail, or
\* for its context, and closes the sessions it does not hand on.
CloseSessions(c, keep) == sig' = [s \in Streams |-> sig[s] /\ (s[1] = c => s[2] = keep)]

ConnectWins(c) ==
    /\ nat[c] = "connect" /\ result[c] # "none"
    /\ nat' = [nat EXCEPT ![c] = "up"]
    /\ CloseSessions(c, result[c])
    /\ UNCHANGED <<opts, profile, client, att, once, result, end, wire, handler, listenerVars>>

ConnectFails(c) ==
    /\ nat[c] = "connect" /\ \A r \in Sessions[c] : att[<<c, r>>] = "err"
    /\ nat' = [nat EXCEPT ![c] = "err"]
    /\ CloseSessions(c, "none")
    /\ UNCHANGED <<opts, profile, client, att, once, result, end, wire, handler, listenerVars>>

ConnectExpires(c) ==
    /\ nat[c] = "connect" /\ client[c].raced
    /\ nat' = [nat EXCEPT ![c] = "err"]
    /\ CloseSessions(c, "none")
    /\ UNCHANGED <<opts, profile, client, att, once, result, end, wire, handler, listenerVars>>

------------------------------------------------------------------------------
\* openAnyStream receives two attempts at most.  A dial context that expires ends
\* raceCtx as well.
OneFailure(c) ==
    IF client[c].failures = 1 THEN Return(c, "failed", "none")
    ELSE client' = [client EXCEPT ![c].failures = @ + 1]

ReceiveLibp2p(c) ==
    LET s == <<c, Libp2p>> IN
    /\ client[c].pc = "race" /\ att[s] \in {"up", "err"}
    /\ att' = [att EXCEPT ![s] = "end"]
    /\ IF att[s] = "up" THEN Return(c, AfterOpen, Libp2p) ELSE OneFailure(c)
    /\ UNCHANGED <<opts, profile, nat, once, result, sig, end, wire, handler, listenerVars>>

ReceiveNative(c) ==
    /\ client[c].pc = "race" /\ nat[c] \in {"up", "err"}
    /\ nat' = [nat EXCEPT ![c] = "end"]
    /\ IF nat[c] = "up" THEN Return(c, AfterOpen, result[c]) ELSE OneFailure(c)
    /\ UNCHANGED <<opts, profile, att, once, result, sig, end, wire, handler, listenerVars>>

DialExpires(c) ==
    /\ nativeWebRTCEnabled(c) /\ client[c].pc = "race" /\ ~client[c].expired
    /\ client' = [client EXCEPT ![c].expired = TRUE, ![c].raced = TRUE]
    /\ UNCHANGED <<opts, profile, att, nat, once, result, sig, end, wire, handler, listenerVars>>

RaceExpires(c) ==
    /\ client[c].pc = "race" /\ client[c].expired
    /\ Return(c, "failed", "none")
    /\ UNCHANGED <<opts, profile, att, nat, once, result, sig, end, wire, handler, listenerVars>>

\* An attempt that finds raceCtx done resets its stream or closes its connection.
Libp2pLosesOpen(c) ==
    /\ client[c].raced /\ att[<<c, Libp2p>>] \in {"up", "err"}
    /\ att' = [att EXCEPT ![<<c, Libp2p>>] = "end"]
    /\ UNCHANGED <<opts, profile, client, nat, once, result, sig, end, wire, handler, listenerVars>>
Libp2pLoses(c) ==
    LET s == <<c, Libp2p>> IN
    /\ client[c].raced /\ att[s] \in {"up", "err"}
    /\ att' = [att EXCEPT ![s] = "end"]
    /\ end' = [end EXCEPT ![s] = IF @ = "open" THEN "closed" ELSE @]
    /\ UNCHANGED <<opts, profile, client, nat, once, result, sig, wire, handler, listenerVars>>

NativeLoses(c) ==
    /\ client[c].raced /\ nat[c] \in {"up", "err"}
    /\ nat' = [nat EXCEPT ![c] = "end"]
    /\ IF nat[c] = "up"
       THEN /\ end' = [end EXCEPT ![<<c, result[c]>>] = "closed"]
            /\ sig' = [sig EXCEPT ![<<c, result[c]>>] = FALSE]
       ELSE UNCHANGED <<end, sig>>
    /\ UNCHANGED <<opts, profile, client, att, once, result, wire, handler, listenerVars>>

------------------------------------------------------------------------------
\* AuthenticateClient on the stream that was chosen; a failure resets it.  Only
\* libp2p streams have deadlines.
Chosen(c) == <<c, client[c].stream>>
Shut(c, pc) ==
    /\ client' = [client EXCEPT ![c].pc = pc]
    /\ end' = [end EXCEPT ![Chosen(c)] = "closed"]
    /\ sig' = [s \in Streams |-> sig[s] /\ s # Chosen(c)]
    /\ wire' = [wire EXCEPT ![Chosen(c)].down = NoFrame]

SendHello(c) ==
    /\ client[c].pc = "hello"
    /\ client' = [client EXCEPT ![c].pc = "ack"]
    /\ wire' = [wire EXCEPT ![Chosen(c)].up = CreateHello(profile[c], Chosen(c))]
    /\ UNCHANGED <<opts, profile, att, nat, once, result, sig, end, handler, listenerVars>>

ReadAck(c) ==
    LET f == wire[Chosen(c)].down IN
    /\ client[c].pc = "ack" /\ f # NoFrame
    /\ IF VerifyAck(profile[c], Chosen(c), f)
       THEN /\ client' = [client EXCEPT ![c].pc = "session"]
            /\ wire' = [wire EXCEPT ![Chosen(c)].down = NoFrame]
            /\ UNCHANGED <<end, sig>>
       ELSE Shut(c, "failed")
    /\ UNCHANGED <<opts, profile, att, nat, once, result, handler, listenerVars>>

NoAckDeadlineOnly(c) ==
    /\ client[c].pc = "ack" /\ Chosen(c)[2] = Libp2p
    /\ Shut(c, "failed")
    /\ UNCHANGED <<opts, profile, att, nat, once, result, handler, listenerVars>>
NoAck(c) ==
    LET s == Chosen(c) IN
    /\ client[c].pc = "ack"
    /\ (wire[s].down = NoFrame /\ handler[s] = "closed") \/ s[2] = Libp2p
    /\ Shut(c, "failed")
    /\ UNCHANGED <<opts, profile, att, nat, once, result, handler, listenerVars>>

\* The client's session ends, by itself or with the listener's end of the stream.
ClientLeaves(c) ==
    /\ client[c].pc = "session"
    /\ Shut(c, "done")
    /\ UNCHANGED <<opts, profile, att, nat, once, result, handler, listenerVars>>

------------------------------------------------------------------------------
\* The listener's goroutine of a stream.  AuthenticateServer fails on a wrong
\* hello, on the end of the stream and at the deadline of a libp2p stream.
ServerAuth(s) ==
    /\ listener = "run" /\ handler[s] = "auth" /\ wire[s].up # NoFrame
    /\ handler' = [handler EXCEPT ![s] = IF VerifyHello(wire[s].up) THEN "check" ELSE "closed"]
    /\ wire' = [wire EXCEPT ![s] =
           [up |-> NoFrame, down |-> IF VerifyHello(@.up) /\ end[s] = "open"
                                     THEN CreateAck(@.up, s) ELSE NoFrame]]
    /\ UNCHANGED <<opts, profile, clientVars, end, listenerVars>>

AuthFails(s) ==
    /\ listener = "run" /\ handler[s] = "auth"
    /\ (end[s] = "closed" /\ wire[s].up = NoFrame) \/ s[2] = Libp2p
    /\ handler' = [handler EXCEPT ![s] = "closed"]
    /\ UNCHANGED <<opts, profile, clientVars, end, wire, listenerVars>>

\* After authentication the first stream takes a listener that is not persistent.
Admit(s) ==
    /\ listener = "run" /\ handler[s] = "check"
    /\ IF accepted /\ ~opts.persistent
       THEN handler' = [handler EXCEPT ![s] = "closed"] /\ UNCHANGED <<accepted, served>>
       ELSE /\ handler' = [handler EXCEPT ![s] = "session"]
            /\ accepted' = TRUE /\ served' = served \cup {s}
    /\ UNCHANGED <<opts, profile, clientVars, end, wire, done, listener>>

\* runServerSession returns; a listener that is not persistent reports it, and the
\* deferred stream.Close comes after that.
SessionEnds(s) ==
    /\ listener = "run" /\ handler[s] = "session"
    /\ handler' = [handler EXCEPT ![s] = "close"]
    /\ done' = (done \/ ~opts.persistent)
    /\ UNCHANGED <<opts, profile, clientVars, end, wire, accepted, listener, served>>

CloseStream(s) ==
    /\ listener = "run" /\ handler[s] = "close"
    /\ handler' = [handler EXCEPT ![s] = "closed"]
    /\ UNCHANGED <<opts, profile, clientVars, end, wire, listenerVars>>

\* runListener returns, with its session or with its context; node and native
\* listener are closed, and their streams with them.
Exit ==
    /\ listener = "run"
    /\ listener' = "exited"
    /\ handler' = [s \in Streams |-> IF handler[s] = "none" THEN "none" ELSE "closed"]
    /\ UNCHANGED <<opts, profile, clientVars, end, wire, accepted, done, served>>
ListenerReturns == done /\ Exit
ListenerCancelled == Exit

------------------------------------------------------------------------------
Dialling(c) ==
    \/ Libp2pUp(c) \/ \E r \in Sessions[c] : SessionUp(<<c, r>>)
    \/ \E r \in Routes(c) : DialFails(<<c, r>>)
    \/ ConnectWins(c) \/ ConnectFails(c) \/ ConnectExpires(c)
Racing(c) ==
    \/ ReceiveLibp2p(c) \/ ReceiveNative(c) \/ DialExpires(c) \/ RaceExpires(c)
    \/ Libp2pLoses(c) \/ NativeLoses(c)
Authenticating(c) == SendHello(c) \/ ReadAck(c) \/ NoAck(c)
Serving(s) == ServerAuth(s) \/ AuthFails(s) \/ Admit(s) \/ CloseStream(s)

Next ==
    \/ \E c \in Clients : Dialling(c) \/ Racing(c) \/ Authenticating(c) \/ ClientLeaves(c)
    \/ \E s \in Streams : Serving(s) \/ SessionEnds(s)
    \/ ListenerReturns \/ ListenerCancelled

Spec == Init /\ [][Next]_vars

\* Goroutines run, dials and deadlines end, and a session whose stream has gone
\* ends; how long a session lasts otherwise is free, and so is the listener's
\* context.  All of these steps are taken finitely often.
Progress ==
    \/ \E c \in Clients : Dialling(c) \/ Racing(c) \/ Authenticating(c)
    \/ \E s \in Streams : Serving(s) \/ (end[s] = "closed" /\ SessionEnds(s))
    \/ ListenerReturns

FairSpec == Spec /\ WF_vars(Progress)

------------------------------------------------------------------------------
\* Types of the state.
TypeOK ==
    /\ \A c \in Clients :
          /\ client[c].pc \in {"race", "hello", "ack", "session", "done", "failed"}
          /\ client[c].failures \in 0 .. 1
          /\ client[c].stream \in Routes(c) \cup {"none"} /\ result[c] \in Sessions[c] \cup {"none"}
          /\ nat[c] \in {"off", "connect", "up", "err", "end"}
    /\ \A s \in Streams :
          /\ att[s] \in {"dial", "up", "err", "end"} /\ end[s] \in {"none", "open", "closed"}
          /\ handler[s] \in {"none", "auth", "check", "session", "close", "closed"}
    /\ accepted \in BOOLEAN /\ done \in BOOLEAN /\ listener \in {"run", "exited"}

\* With a token, the session of a listener goes to a stream that its client chose
\* and authenticated: the losers of openAnyStream's race, and clients with another
\* token or a clock that is off, never take it.
ChosenServed ==
    opts.token => \A s \in served :
        /\ client[s[1]].stream = s[2]
        /\ profile[s[1]].key = Key /\ profile[s[1]].clock \in -MaxClockSkew .. MaxClockSkew

\* The one session of a listener is not used up by a stream it then turns away.
SlotNotLost == accepted => served # {}

\* openAnyStream returns, and authentication ends, whatever the other side does;
\* on native streams, which have no deadline, because the listener answers or
\* closes every stream.
ClientDecides == <>(\A c \in Clients : client[c].pc \in {"session", "done", "failed"})

Stranded(s) == result[s[1]] = s[2] /\ nat[s[1]] = "end" /\ client[s[1]].stream # s[2]

\* A stream that is established and not chosen is closed by its attempt, and so is
\* the signaling session it used.  The exception is a connection that wins while
\* ConnectWithSignalingSessions sees the end of its context: it stays in result.
LosersClosed ==
    <>[](\A s \in Streams : end[s] = "open" \/ sig[s] =>
            client[s[1]].stream = s[2] \/ (Stranded(s) /\ ~sig[s]))

==============================================================================

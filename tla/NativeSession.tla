---------------------------- MODULE NativeSession ----------------------------
(***************************************************************************)
(* nativewebrtc/endpoint.go: one client connection and the listener it     *)
(* talks to.  The client's supervisor redials after a loss and binds the   *)
(* new data channel to its logical stream; the listener keeps a table of   *)
(* logical streams by the client's signaling identity, binds a new channel *)
(* to the entry that waits for one, and drops an entry whose grace period  *)
(* ends.  Goroutines of both sides interleave at the mutexes l.mu and      *)
(* writeMu and at blocking sends.  What the frames carry is in the module  *)
(* NativeStream.                                                           *)
(*                                                                         *)
(* Stream 0 is the client's, the others are the listener's in the order of *)
(* their creation.  Time is abstract: a grace period may end at any moment *)
(* while it runs.                                                          *)
(***************************************************************************)
EXTENDS Naturals, FiniteSets

CONSTANTS MaxDials,     \* bound: data channels the client negotiates, the first included
          MaxSessions,  \* bound: logical streams of the listener
          MaxFaults,    \* bound: losses that do not follow from the other end's close, overflows
          Calls         \* <<end, call>>: what the applications may do

Ends == {"client", "server"}
Channels == 1 .. MaxDials
Sessions == 1 .. MaxSessions
Streams == {0} \cup Sessions
AppCalls == {"Write", "CloseWrite", "Close", "Reset", "Stall", "Listener.Close"}

ASSUME BoundsAssumption ==
    MaxDials \in Nat \ {0} /\ MaxSessions \in Nat \ {0} /\ MaxFaults \in Nat
ASSUME CallsAssumption == Calls \subseteq Ends \X AppCalls

VARIABLES
    linkPeer,     \* link.peer of a stream's link, 0 for nil
    linkClosed,   \* link.closed
    closed,       \* Stream.closed
    readErr,      \* why fail was called
    writeClosed,  \* Stream.writeClosed
    writing,      \* a Write holds writeMu: it waits for credit (flow) or is in link.Send
    op,           \* the closing call the application is in
    up,           \* ends at which the nativePeer of a channel is not closed
    aborts,       \* <<channel, end>>: an abort frame is on its way to end
    sup,          \* the client's supervisor
    cur,          \* the channel the supervisor forwards, or is dialing
    ctxDone,      \* connectionCtx is cancelled
    dials,        \* channels negotiated so far
    act,          \* the listener's goroutine of a channel: handshake, then watch
    sidOf,        \* the stream that goroutine feeds
    entry,        \* l.streams of the client: stream (0: none) and entry.peer
    armed, fired, \* entry.timer is running; callbacks of AfterFunc waiting for l.mu
    sessions,     \* logical streams created so far
    lmu,          \* who holds l.mu across steps: a timer callback, Listener.Close
    expiring,     \* the stream that callback fails
    lc,           \* Listener.Close
    faults

linkVars == <<linkPeer, linkClosed, up>>
streamVars == <<closed, readErr, writeClosed>>
appVars == <<writing, op>>
clientVars == <<sup, cur, ctxDone, dials>>
tableVars == <<entry, armed, fired, sessions>>
lockVars == <<lmu, expiring, lc>>
vars == <<linkVars, streamVars, appVars, aborts, clientVars, act, sidOf, tableVars,
          lockVars, faults>>

------------------------------------------------------------------------------
\* The client has authenticated the first channel and returned its Connection;
\* its AUTH_READY is on the way to the listener.
Init ==
    /\ linkPeer = [s \in Streams |-> IF s = 0 THEN 1 ELSE 0]
    /\ linkClosed = [s \in Streams |-> FALSE]
    /\ closed = [s \in Streams |-> FALSE]
    /\ readErr = [s \in Streams |-> "nil"]
    /\ writeClosed = [s \in Streams |-> FALSE]
    /\ writing = [s \in Streams |-> "no"]
    /\ op = [s \in Streams |-> "none"]
    /\ up = [c \in Channels |-> IF c = 1 THEN Ends ELSE {}]
    /\ aborts = {}
    /\ sup = "forward" /\ cur = 1 /\ ctxDone = FALSE /\ dials = 1
    /\ act = [c \in Channels |-> IF c = 1 THEN "ready" ELSE "none"]
    /\ sidOf = [c \in Channels |-> 0]
    /\ entry = [sid |-> 0, peer |-> 0]
    /\ armed = [s \in Sessions |-> FALSE] /\ fired = [s \in Sessions |-> 0]
    /\ sessions = 0
    /\ lmu = "free" /\ expiring = 0 /\ lc = "open"
    /\ faults = 0

EndOf(s) == IF s = 0 THEN "client" ELSE "server"
Other(e) == IF e = "client" THEN "server" ELSE "client"
Exists(s) == s <= sessions

\* link.Send: blocks without a peer, fails on a closed link or a closed peer.
SendOK(s) == linkPeer[s] # 0 /\ EndOf(s) \in up[linkPeer[s]]
SendErr(s) == linkClosed[s] \/ (linkPeer[s] # 0 /\ EndOf(s) \notin up[linkPeer[s]])
SendReturns(s) == SendOK(s) \/ SendErr(s)

\* Write holds writeMu while it waits for credit and in link.Send, CloseWrite in
\* link.Send.
InSend(s) == writing[s] = "send" \/ op[s] \in {"eof", "closeEof"}
WriteMuFree(s) == writing[s] # "flow" /\ ~InSend(s)
MutexWait(call) == IF call = "Close" THEN "closeMutex" ELSE "eofMutex"
MutexWaits == {"closeMutex", "eofMutex"}

\* fail, up to the point where the first caller waits for writeMu ...
Fail(s, err) ==
    /\ closed' = [closed EXCEPT ![s] = TRUE]
    /\ readErr' = [readErr EXCEPT ![s] = IF closed[s] THEN @ ELSE err]
\* ... and its last step.
FailDone(s) == WriteMuFree(s) /\ writeClosed' = [writeClosed EXCEPT ![s] = TRUE]

Shut(c, e) == up' = [up EXCEPT ![c] = @ \ {e}]
LinkClose(s) ==
    /\ linkClosed' = [linkClosed EXCEPT ![s] = TRUE]
    /\ linkPeer' = [linkPeer EXCEPT ![s] = 0]
    /\ IF linkPeer[s] # 0 THEN Shut(linkPeer[s], EndOf(s)) ELSE UNCHANGED up

NoEntry == [sid |-> 0, peer |-> 0]
OwnsAny(s) == entry.sid # 0
Owns(s) == entry.sid = s

\* Stop keeps a timer from firing; a callback that already runs goes on.
NoTimer(s) == UNCHANGED armed
StartTimer(s) == armed' = [armed EXCEPT ![s] = TRUE]
StopTimer(s) == armed' = [armed EXCEPT ![s] = FALSE]

------------------------------------------------------------------------------
\* The network loses a channel, the application interrupts it, or one end sees
\* that the other has closed.
PeerCloses(c, e) ==
    /\ e \in up[c]
    /\ Other(e) \in up[c] => faults < MaxFaults
    /\ faults' = IF Other(e) \in up[c] THEN faults + 1 ELSE faults
    /\ Shut(c, e)
    /\ UNCHANGED <<linkPeer, linkClosed, streamVars, appVars, aborts, clientVars, act, sidOf,
                   tableVars, lockVars>>

------------------------------------------------------------------------------
\* The calls of the application, at either end.
Called(s, call) == Exists(s) /\ <<EndOf(s), call>> \in Calls

\* The window has room for the chunk, or Write waits in flowCond.  A Write behind
\* CloseWrite's eof is not a state of its own: it finds writeClosed afterwards.  A
\* CloseWrite that waits for writeMu gets it in its turn (sync.Mutex does not
\* starve a waiter): a Write that overtakes it looks like one that began before.
Write(s) ==
    /\ Called(s, "Write") /\ WriteMuFree(s) /\ op[s] \notin MutexWaits
    /\ ~writeClosed[s] /\ ~closed[s]
    /\ \E w \in {"flow", "send"} : writing' = [writing EXCEPT ![s] = w]
    /\ UNCHANGED <<linkVars, streamVars, op, aborts, clientVars, act, sidOf, tableVars,
                   lockVars, faults>>

\* Credit wakes the writer: an ack, because the application at the other end
\* reads, or inFlight = 0 on a new channel.
Credited(s) == writing' = [writing EXCEPT ![s] = IF @ = "flow" THEN "send" ELSE @]

Acked(s) ==
    /\ writing[s] = "flow" /\ ~closed[s]
    /\ linkPeer[s] # 0 /\ up[linkPeer[s]] = Ends
    /\ IF s = 0 THEN sup = "forward" ELSE act[linkPeer[s]] = "watch"
    /\ Credited(s)
    /\ UNCHANGED <<linkVars, streamVars, op, aborts, clientVars, act, sidOf, tableVars,
                   lockVars, faults>>

WriteReturns(s) ==
    /\ (writing[s] = "flow" /\ closed[s]) \/ (writing[s] = "send" /\ SendReturns(s))
    /\ writing' = [writing EXCEPT ![s] = "no"]
    /\ UNCHANGED <<linkVars, streamVars, op, aborts, clientVars, act, sidOf, tableVars,
                   lockVars, faults>>

\* CloseWrite, alone or as the first part of Close, may have to wait for writeMu.
CloseWriteBlocks(s, call) ==
    /\ Called(s, call) /\ op[s] = "none" /\ ~WriteMuFree(s)
    /\ op' = [op EXCEPT ![s] = MutexWait(call)]
    /\ UNCHANGED <<linkVars, streamVars, writing, aborts, clientVars, act, sidOf, tableVars,
                   lockVars, faults>>

CloseWrite(s, call) ==
    /\ op[s] = MutexWait(call) \/ (Called(s, call) /\ op[s] = "none")
    /\ WriteMuFree(s)
    /\ op' = [op EXCEPT ![s] = IF call = "Close"
                               THEN IF writeClosed[s] THEN "fail" ELSE "closeEof"
                               ELSE IF writeClosed[s] THEN "none" ELSE "eof"]
    /\ writeClosed' = [writeClosed EXCEPT ![s] = TRUE]
    /\ UNCHANGED <<linkVars, closed, readErr, writing, aborts, clientVars, act, sidOf,
                   tableVars, lockVars, faults>>

EofSent(s) ==
    /\ op[s] \in {"eof", "closeEof"} /\ SendReturns(s)
    /\ op' = [op EXCEPT ![s] = IF @ = "eof" THEN "none" ELSE "fail"]
    /\ UNCHANGED <<linkVars, streamVars, writing, aborts, clientVars, act, sidOf, tableVars,
                   lockVars, faults>>

\* The rest of Close up to closePeer: nobody can hold writeMu any more.
CloseFail(s) ==
    /\ op[s] = "fail"
    /\ Fail(s, "EOF")
    /\ op' = [op EXCEPT ![s] = "closePeer"]
    /\ UNCHANGED <<linkVars, writeClosed, writing, aborts, clientVars, act, sidOf, tableVars,
                   lockVars, faults>>

Reset(s) ==
    /\ Called(s, "Reset") /\ op[s] = "none"
    /\ Fail(s, "reset")
    /\ op' = [op EXCEPT ![s] = IF closed[s] THEN "abort" ELSE "resetWait"]
    /\ UNCHANGED <<linkVars, writeClosed, writing, aborts, clientVars, act, sidOf, tableVars,
                   lockVars, faults>>

ResetFailed(s) ==
    /\ op[s] = "resetWait" /\ FailDone(s)
    /\ op' = [op EXCEPT ![s] = "abort"]
    /\ UNCHANGED <<linkVars, closed, readErr, writing, aborts, clientVars, act, sidOf,
                   tableVars, lockVars, faults>>

AbortSent(s) ==
    /\ op[s] = "abort" /\ SendReturns(s)
    /\ aborts' = IF SendOK(s) /\ Other(EndOf(s)) \in up[linkPeer[s]]
                 THEN aborts \cup {<<linkPeer[s], Other(EndOf(s))>>} ELSE aborts
    /\ op' = [op EXCEPT ![s] = "closePeer"]
    /\ UNCHANGED <<linkVars, streamVars, writing, clientVars, act, sidOf, tableVars,
                   lockVars, faults>>

\* closePeer: the client cancels its supervisor, the listener forgets its entry
\* (under l.mu); both then close the link.
ClosePeer(s) ==
    /\ op[s] = "closePeer"
    /\ op' = [op EXCEPT ![s] = "linkClose"]
    /\ IF s = 0
       THEN ctxDone' = TRUE /\ UNCHANGED <<entry, armed>>
       ELSE /\ lmu = "free"
            /\ IF Owns(s) THEN entry' = NoEntry /\ StopTimer(s) ELSE UNCHANGED <<entry, armed>>
            /\ UNCHANGED ctxDone
    /\ UNCHANGED <<linkVars, streamVars, writing, aborts, sup, cur, dials, act, sidOf,
                   fired, sessions, lockVars, faults>>

ClosePeerLink(s) ==
    /\ op[s] = "linkClose"
    /\ LinkClose(s)
    /\ op' = [op EXCEPT ![s] = "done"]
    /\ UNCHANGED <<streamVars, writing, aborts, clientVars, act, sidOf, tableVars,
                   lockVars, faults>>

------------------------------------------------------------------------------
\* superviseClientConnection.  forwardFrames returns when the peer closes.
ForwardEnds ==
    /\ sup = "forward" /\ "client" \notin up[cur]
    /\ sup' = IF ctxDone THEN "done" ELSE "dial"
    /\ linkPeer' = IF ctxDone \/ linkPeer[0] # cur THEN linkPeer
                   ELSE [linkPeer EXCEPT ![0] = 0]
    /\ UNCHANGED <<linkClosed, up, streamVars, appVars, aborts, cur, ctxDone, dials, act,
                   sidOf, tableVars, lockVars, faults>>

\* Receive calls fail, which may wait for writeMu: for an abort frame, or
\* because the reader stalls and the queue is full.
ForwardAbort ==
    /\ sup = "forward" /\ <<cur, "client">> \in aborts
    /\ aborts' = aborts \ {<<cur, "client">>}
    /\ Fail(0, "abort")
    /\ sup' = IF closed[0] THEN "forward" ELSE "failWait"
    /\ UNCHANGED <<linkVars, writeClosed, appVars, cur, ctxDone, dials, act, sidOf,
                   tableVars, lockVars, faults>>

ForwardAborted ==
    /\ sup = "failWait" /\ FailDone(0)
    /\ sup' = "forward"
    /\ UNCHANGED <<linkVars, closed, readErr, appVars, aborts, cur, ctxDone, dials, act,
                   sidOf, tableVars, lockVars, faults>>

ForwardOverflow ==
    /\ sup = "forward" /\ <<"client", "Stall">> \in Calls /\ ~closed[0]
    /\ "server" \in up[cur] /\ "client" \in up[cur]
    /\ faults < MaxFaults /\ faults' = faults + 1
    /\ Fail(0, "overflow")
    /\ sup' = "overflow"
    /\ UNCHANGED <<linkVars, writeClosed, appVars, aborts, cur, ctxDone, dials, act, sidOf,
                   tableVars, lockVars>>

\* Receive returned an error: the peer is detached and stays open.
ForwardOverflowed ==
    /\ sup = "overflow" /\ FailDone(0)
    /\ sup' = IF ctxDone THEN "done" ELSE "dial"
    /\ linkPeer' = IF ctxDone \/ linkPeer[0] # cur THEN linkPeer
                   ELSE [linkPeer EXCEPT ![0] = 0]
    /\ UNCHANGED <<linkClosed, up, closed, readErr, appVars, aborts, cur, ctxDone, dials,
                   act, sidOf, tableVars, lockVars, faults>>

\* dialAuthenticatedPeer: a new offer.  The listener answers it while it runs.
Offer ==
    /\ sup = "dial" /\ ~ctxDone /\ dials < MaxDials
    /\ dials' = dials + 1 /\ cur' = dials + 1
    /\ sup' = "auth"
    /\ IF lc = "open"
       THEN /\ up' = [up EXCEPT ![dials + 1] = Ends]
            /\ act' = [act EXCEPT ![dials + 1] = "auth"]
       ELSE /\ up' = [up EXCEPT ![dials + 1] = {"client"}]
            /\ UNCHANGED act
    /\ UNCHANGED <<linkPeer, linkClosed, streamVars, appVars, aborts, ctxDone, sidOf,
                   tableVars, lockVars, faults>>

\* The listener's proof is verified and AUTH_READY sent.
Authenticated ==
    /\ sup = "auth" /\ up[cur] = Ends /\ act[cur] = "auth"
    /\ act' = [act EXCEPT ![cur] = "ready"]
    /\ sup' = "attach"
    /\ UNCHANGED <<linkVars, streamVars, appVars, aborts, cur, ctxDone, dials, sidOf,
                   tableVars, lockVars, faults>>

\* An attempt fails and its peer is closed; the loop waits and tries again.
AttemptFails ==
    /\ sup = "auth"
    /\ Shut(cur, "client")
    /\ sup' = "dial"
    /\ UNCHANGED <<linkPeer, linkClosed, streamVars, appVars, aborts, cur, ctxDone, dials,
                   act, sidOf, tableVars, lockVars, faults>>

\* reconnectCtx ends: 120 seconds have passed, or the stream was closed.
GraceExpires ==
    /\ sup \in {"dial", "auth"}
    /\ IF sup = "auth" THEN Shut(cur, "client") ELSE UNCHANGED up
    /\ sup' = "grace"
    /\ UNCHANGED <<linkPeer, linkClosed, streamVars, appVars, aborts, cur, ctxDone, dials,
                   act, sidOf, tableVars, lockVars, faults>>

\* link.Attach.  When it fails the new peer is left open.
Attach ==
    /\ sup = "attach"
    /\ IF linkClosed[0] \/ linkPeer[0] # 0
       THEN sup' = "grace" /\ UNCHANGED linkPeer
       ELSE sup' = "resume" /\ linkPeer' = [linkPeer EXCEPT ![0] = cur]
    /\ UNCHANGED <<linkClosed, up, streamVars, appVars, aborts, cur, ctxDone, dials, act,
                   sidOf, tableVars, lockVars, faults>>

\* stream.Reconnected: inFlight is 0 again, and resume and flow:1 are sent, or a
\* send fails.
Reconnected ==
    /\ sup = "resume"
    /\ Credited(0)
    /\ \/ SendOK(0) /\ sup' = "forward"
       \/ SendErr(0) /\ sup' = "sendError"
    /\ UNCHANGED <<linkVars, streamVars, op, aborts, cur, ctxDone, dials, act, sidOf,
                   tableVars, lockVars, faults>>

GiveUpLinkOpen ==
    /\ sup \in {"grace", "sendError"}
    /\ Fail(0, sup)
    /\ sup' = "done"
    /\ UNCHANGED <<linkVars, writeClosed, appVars, aborts, cur, ctxDone, dials, act, sidOf,
                   tableVars, lockVars, faults>>

\* The supervisor gives the stream up: fail, then link.Close.
GiveUp ==
    /\ sup \in {"grace", "sendError"}
    /\ Fail(0, sup)
    /\ IF closed[0] THEN sup' = "done" /\ LinkClose(0) ELSE sup' = "giveUp" /\ UNCHANGED linkVars
    /\ UNCHANGED <<writeClosed, appVars, aborts, cur, ctxDone, dials, act, sidOf, tableVars,
                   lockVars, faults>>

GaveUp ==
    /\ sup = "giveUp" /\ FailDone(0)
    /\ LinkClose(0)
    /\ sup' = "done"
    /\ UNCHANGED <<closed, readErr, appVars, aborts, cur, ctxDone, dials, act, sidOf,
                   tableVars, lockVars, faults>>

------------------------------------------------------------------------------
\* The listener.  answerNativeOffer fails: the peer closed, the attempt timed
\* out or the listener stops.
AnswerFails(c) ==
    /\ act[c] \in {"auth", "ready"}
    /\ up[c] # Ends \/ lc # "open"
    /\ act' = [act EXCEPT ![c] = "done"]
    /\ Shut(c, "server")
    /\ UNCHANGED <<linkPeer, linkClosed, streamVars, appVars, aborts, clientVars, sidOf,
                   tableVars, lockVars, faults>>

\* activate, under l.mu: refuse the channel, start a stream with it, or bind it
\* to the stream that waits for one.
OccupiedIgnored(s) == linkClosed[s]
Occupied(s) == entry.peer # 0 \/ linkClosed[s] \/ linkPeer[s] # 0

NeverClosed == FALSE
ListenerClosed == lc \in {"wait", "closed"}

ActivateRefused(c) ==
    /\ act[c] = "ready" /\ lmu = "free"
    /\ ListenerClosed \/ (entry.sid # 0 /\ Occupied(entry.sid))
    /\ act' = [act EXCEPT ![c] = "done"]
    /\ Shut(c, "server")
    /\ UNCHANGED <<linkPeer, linkClosed, streamVars, appVars, aborts, clientVars, sidOf,
                   tableVars, lockVars, faults>>

ActivateNew(c) ==
    /\ act[c] = "ready" /\ lmu = "free" /\ ~ListenerClosed
    /\ entry.sid = 0 /\ sessions < MaxSessions
    /\ sessions' = sessions + 1
    /\ entry' = [sid |-> sessions + 1, peer |-> c]
    /\ linkPeer' = [linkPeer EXCEPT ![sessions + 1] = c]
    /\ sidOf' = [sidOf EXCEPT ![c] = sessions + 1]
    /\ act' = [act EXCEPT ![c] = "watch"]
    /\ UNCHANGED <<linkClosed, up, streamVars, appVars, aborts, clientVars, armed, fired,
                   lockVars, faults>>

ActivateBind(c) ==
    /\ act[c] = "ready" /\ lmu = "free" /\ ~ListenerClosed
    /\ entry.sid # 0 /\ ~Occupied(entry.sid)
    /\ StopTimer(entry.sid)
    /\ entry' = [entry EXCEPT !.peer = c]
    /\ linkPeer' = [linkPeer EXCEPT ![entry.sid] = c]
    /\ sidOf' = [sidOf EXCEPT ![c] = entry.sid]
    /\ act' = [act EXCEPT ![c] = "resume"]
    /\ UNCHANGED <<linkClosed, up, streamVars, appVars, aborts, clientVars, fired, sessions,
                   lockVars, faults>>

\* activate calls Reconnected, and Reset when that fails.
Resumed(c) ==
    /\ act[c] = "resume" /\ SendOK(sidOf[c])
    /\ Credited(sidOf[c])
    /\ act' = [act EXCEPT ![c] = "watch"]
    /\ UNCHANGED <<linkVars, streamVars, op, aborts, clientVars, sidOf, tableVars,
                   lockVars, faults>>

ResumeFails(c) ==
    /\ act[c] = "resume" /\ SendErr(sidOf[c])
    /\ Credited(sidOf[c])
    /\ Fail(sidOf[c], "sendError")
    /\ act' = [act EXCEPT ![c] = IF closed[sidOf[c]] THEN "reset" ELSE "resetWait"]
    /\ UNCHANGED <<linkVars, writeClosed, op, aborts, clientVars, sidOf, tableVars,
                   lockVars, faults>>

ResumeReset(c) ==
    LET s == sidOf[c] IN
    /\ act[c] \in {"reset", "resetWait"} /\ lmu = "free" /\ SendReturns(s)
    /\ IF act[c] = "resetWait" THEN FailDone(s) ELSE UNCHANGED writeClosed
    /\ IF Owns(s) THEN entry' = NoEntry /\ StopTimer(s) ELSE UNCHANGED <<entry, armed>>
    /\ LinkClose(s)
    /\ act' = [act EXCEPT ![c] = "done"]
    /\ UNCHANGED <<closed, readErr, appVars, aborts, clientVars, sidOf, fired, sessions,
                   lockVars, faults>>

\* watch: forwardFrames into the stream, then the loss is recorded under l.mu
\* and the grace timer started, unless the entry has changed hands.
WatchAbort(c) ==
    /\ act[c] = "watch" /\ <<c, "server">> \in aborts
    /\ aborts' = aborts \ {<<c, "server">>}
    /\ Fail(sidOf[c], "abort")
    /\ act' = [act EXCEPT ![c] = IF closed[sidOf[c]] THEN "watch" ELSE "failWait"]
    /\ UNCHANGED <<linkVars, writeClosed, appVars, clientVars, sidOf, tableVars, lockVars,
                   faults>>

WatchAborted(c) ==
    /\ act[c] = "failWait" /\ FailDone(sidOf[c])
    /\ act' = [act EXCEPT ![c] = "watch"]
    /\ UNCHANGED <<linkVars, closed, readErr, appVars, aborts, clientVars, sidOf, tableVars,
                   lockVars, faults>>

WatchOverflow(c) ==
    /\ act[c] = "watch" /\ <<"server", "Stall">> \in Calls /\ ~closed[sidOf[c]]
    /\ up[c] = Ends
    /\ faults < MaxFaults /\ faults' = faults + 1
    /\ Fail(sidOf[c], "overflow")
    /\ act' = [act EXCEPT ![c] = "overflow"]
    /\ UNCHANGED <<linkVars, writeClosed, appVars, aborts, clientVars, sidOf, tableVars,
                   lockVars>>

WatchOverflowed(c) ==
    /\ act[c] = "overflow" /\ FailDone(sidOf[c])
    /\ act' = [act EXCEPT ![c] = "dropped"]
    /\ UNCHANGED <<linkVars, closed, readErr, appVars, aborts, clientVars, sidOf, tableVars,
                   lockVars, faults>>

Detached(c) == Owns(sidOf[c]) /\ entry.peer = c
WatchEnds(c) ==
    /\ act[c] = "dropped" \/ (act[c] = "watch" /\ "server" \notin up[c])
    /\ lmu = "free"
    /\ act' = [act EXCEPT ![c] = IF @ = "dropped" THEN "leaked" ELSE "done"]
    /\ IF Detached(c)
       THEN /\ linkPeer' = [linkPeer EXCEPT ![sidOf[c]] = IF @ = c THEN 0 ELSE @]
            /\ entry' = [entry EXCEPT !.peer = 0]
            /\ StartTimer(sidOf[c])
       ELSE UNCHANGED <<linkPeer, entry, armed>>
    /\ UNCHANGED <<linkClosed, up, streamVars, appVars, aborts, clientVars, sidOf, fired,
                   sessions, lockVars, faults>>

\* The grace timer fires; its callback waits for l.mu, and does nothing when
\* the entry has a peer again or is gone.
TimerFires(s) ==
    /\ armed[s]
    /\ StopTimer(s)
    /\ fired' = [fired EXCEPT ![s] = @ + 1]
    /\ UNCHANGED <<linkVars, streamVars, appVars, aborts, clientVars, act, sidOf, entry,
                   sessions, lockVars, faults>>

Expired(s) == Owns(s) /\ entry.peer = 0
TimerRuns(s) ==
    /\ fired[s] > 0 /\ lmu = "free"
    /\ fired' = [fired EXCEPT ![s] = @ - 1]
    /\ IF Expired(s)
       THEN /\ entry' = NoEntry
            /\ Fail(s, "grace")
            /\ IF closed[s]
               THEN LinkClose(s) /\ UNCHANGED <<lmu, expiring>>
               ELSE UNCHANGED linkVars /\ lmu' = "timer" /\ expiring' = s
       ELSE UNCHANGED <<entry, closed, readErr, linkVars, lmu, expiring>>
    /\ UNCHANGED <<writeClosed, appVars, aborts, clientVars, act, sidOf, armed, sessions, lc,
                   faults>>

\* The callback, still holding l.mu, gets past writeMu.
TimerDone ==
    /\ lmu = "timer" /\ FailDone(expiring)
    /\ LinkClose(expiring)
    /\ lmu' = "free" /\ expiring' = 0
    /\ UNCHANGED <<closed, readErr, appVars, aborts, clientVars, act, sidOf, tableVars, lc,
                   faults>>

\* Listener.Close: cancel the handshakes, fail every stream under l.mu, wait
\* for the handshake goroutines.
ListenerCancel ==
    /\ <<"server", "Listener.Close">> \in Calls /\ lc = "open"
    /\ lc' = "cancelled"
    /\ UNCHANGED <<linkVars, streamVars, appVars, aborts, clientVars, act, sidOf, tableVars,
                   lmu, expiring, faults>>

ListenerFail ==
    /\ lc = "cancelled" /\ lmu = "free"
    /\ LET s == entry.sid
       IN  IF s = 0
           THEN lc' = "wait" /\ UNCHANGED <<lmu, entry, armed, closed, readErr, linkVars>>
           ELSE /\ StopTimer(s)
                /\ Fail(s, "canceled")
                /\ IF closed[s]
                   THEN lc' = "wait" /\ LinkClose(s) /\ entry' = NoEntry /\ UNCHANGED lmu
                   ELSE lc' = "locked" /\ lmu' = "close" /\ UNCHANGED <<linkVars, entry>>
    /\ UNCHANGED <<writeClosed, appVars, aborts, clientVars, act, sidOf, fired, sessions,
                   expiring, faults>>

ListenerFailed ==
    /\ lc = "locked" /\ FailDone(entry.sid)
    /\ LinkClose(entry.sid)
    /\ entry' = NoEntry
    /\ lmu' = "free" /\ lc' = "wait"
    /\ UNCHANGED <<closed, readErr, appVars, aborts, clientVars, act, sidOf, armed, fired,
                   sessions, expiring, faults>>

ListenerReturns ==
    /\ lc = "wait"
    /\ \A c \in Channels : act[c] \notin {"auth", "ready", "resume", "reset", "resetWait"}
    /\ lc' = "closed"
    /\ UNCHANGED <<linkVars, streamVars, appVars, aborts, clientVars, act, sidOf, tableVars,
                   lmu, expiring, faults>>

------------------------------------------------------------------------------
Application(s) ==
    \/ Write(s) \/ Reset(s)
    \/ \E call \in {"CloseWrite", "Close"} :
          (op[s] = "none" /\ CloseWrite(s, call)) \/ CloseWriteBlocks(s, call)
CallStep(s) ==
    \/ \E call \in {"CloseWrite", "Close"} : op[s] \in MutexWaits /\ CloseWrite(s, call)
    \/ EofSent(s) \/ CloseFail(s) \/ ResetFailed(s) \/ AbortSent(s)
    \/ ClosePeer(s) \/ ClosePeerLink(s)
Supervisor ==
    \/ ForwardEnds \/ ForwardAbort \/ ForwardAborted \/ ForwardOverflowed
    \/ Authenticated \/ Attach \/ Reconnected \/ GiveUp \/ GaveUp
Handler(c) ==
    \/ AnswerFails(c) \/ ActivateRefused(c) \/ ActivateNew(c) \/ ActivateBind(c)
    \/ Resumed(c) \/ ResumeFails(c) \/ ResumeReset(c)
    \/ WatchAbort(c) \/ WatchAborted(c) \/ WatchOverflowed(c) \/ WatchEnds(c)
ListenerClose == ListenerFail \/ ListenerFailed \/ ListenerReturns

Next ==
    \/ \E s \in Streams :
          \/ Application(s) \/ Acked(s)
          \/ WriteReturns(s) \/ CallStep(s)
    \/ \E c \in Channels, e \in Ends : PeerCloses(c, e)
    \/ Supervisor \/ ForwardOverflow \/ Offer \/ AttemptFails \/ GraceExpires
    \/ \E c \in Channels : Handler(c) \/ WatchOverflow(c)
    \/ \E s \in Sessions : TimerFires(s) \/ TimerRuns(s)
    \/ TimerDone \/ ListenerCancel \/ ListenerClose

Spec == Init /\ [][Next]_vars

\* Runnable goroutines run, grace periods end, and an end whose counterpart has
\* gone notices it.  Weak fairness is enough for the mutexes: a holder that
\* releases one does not come back for it forever.  Nothing is assumed of the applications: nobody
\* has to read, so credit need not come.
Fairness ==
    /\ WF_vars(Supervisor) /\ WF_vars(GraceExpires)
    /\ WF_vars(TimerDone) /\ WF_vars(ListenerClose)
    /\ \A s \in Streams : WF_vars(WriteReturns(s)) /\ WF_vars(CallStep(s))
    /\ \A s \in Sessions : WF_vars(TimerFires(s) \/ TimerRuns(s))
    /\ \A c \in Channels :
          /\ WF_vars(Handler(c))
          /\ WF_vars(\E e \in Ends : PeerCloses(c, e) /\ Other(e) \notin up[c])

FairSpec == Spec /\ Fairness

------------------------------------------------------------------------------
\* Every variable has its type, and a closed link has no peer.
TypeOK ==
    /\ \A s \in Streams : linkClosed[s] => linkPeer[s] = 0
    /\ linkPeer \in [Streams -> {0} \cup Channels]
    /\ linkClosed \in [Streams -> BOOLEAN] /\ closed \in [Streams -> BOOLEAN]
    /\ readErr \in [Streams -> {"nil", "EOF", "reset", "abort", "overflow", "grace",
                                "sendError", "canceled"}]
    /\ writeClosed \in [Streams -> BOOLEAN] /\ writing \in [Streams -> {"no", "flow", "send"}]
    /\ op \in [Streams -> {"none", "eofMutex", "closeMutex", "eof", "closeEof", "fail",
                           "resetWait", "abort", "closePeer", "linkClose", "done"}]
    /\ up \in [Channels -> SUBSET Ends] /\ aborts \subseteq Channels \X Ends
    /\ sup \in {"forward", "failWait", "overflow", "dial", "auth", "attach", "resume",
                "grace", "sendError", "giveUp", "done"}
    /\ cur \in Channels /\ ctxDone \in BOOLEAN /\ dials \in Channels
    /\ act \in [Channels -> {"none", "auth", "ready", "resume", "reset", "resetWait", "watch",
                             "failWait", "overflow", "dropped", "leaked", "done"}]
    /\ sidOf \in [Channels -> Streams]
    /\ entry \in [sid : Streams, peer : {0} \cup Channels]
    /\ armed \in [Sessions -> BOOLEAN] /\ fired \in [Sessions -> Nat]
    /\ sessions \in Streams
    /\ lmu \in {"free", "timer", "close"} /\ expiring \in Streams
    /\ lc \in {"open", "cancelled", "locked", "wait", "closed"} /\ faults \in Nat

Feeding == {"watch", "failWait", "overflow", "resume"}

\* Frames reach a stream from one channel at a time, the one its link sends on:
\* the watch of a lost channel has stopped before a new channel is bound, so
\* frames of two channels never mix (endpoint.go:949, 976-984).
OneFeeder ==
    \A c, d \in Channels :
        act[c] \in Feeding /\ act[d] \in Feeding /\ sidOf[c] = sidOf[d] => c = d

\* A client has at most one logical stream that has not failed, and a stream
\* that has not failed is in the table: a client that comes back finds it
\* (endpoint.go:929-947, 985-994, 844-850).
OneLiveStream ==
    \A s \in Sessions : Exists(s) /\ ~closed[s] => entry.sid = s

\* When Listener.Close has returned no stream is alive and no peer open, except
\* one that the stream's own Close is about to close, and a peer dropped with a
\* full receive queue, which nobody closes (endpoint.go:835-856, 922-928).
CloseIsFinal ==
    lc = "closed" =>
        /\ entry.sid = 0 /\ \A s \in Sessions : Exists(s) => closed[s]
        /\ \A c \in Channels : "server" \in up[c] =>
              act[c] \in {"dropped", "leaked"} \/ op[sidOf[c]] = "linkClose"

\* A lost connection is resolved at both ends: the stream is moved to a new
\* channel, or closed for its readers when the grace period or the listener ends.
LossResolved ==
    /\ sup = "dial" ~> sup = "forward" \/ closed[0]
    /\ (entry.sid # 0 /\ entry.peer = 0)
       ~> (entry.sid = 0 \/ entry.peer # 0 \/ closed[entry.sid])

\* Every call returns: Write, CloseWrite, Close and Reset of a stream, and Close
\* of the listener.
CallsReturn ==
    /\ \A s \in Streams : writing[s] # "no" ~> writing[s] = "no"
    /\ \A s \in Streams : op[s] # "none" ~> op[s] \in {"none", "done"}
    /\ lc = "cancelled" ~> lc = "closed"

\* fail waits for writeMu, whose holder waits in link.Send for a new channel.
FailWaits(s) == closed[s] /\ ~linkClosed[s] /\ linkPeer[s] = 0 /\ InSend(s)

\* Write waits in flowCond, with writeMu held, for an ack that the other end does
\* not send because its application does not read.
CreditWaits(s) == ~closed[s] /\ writing[s] = "flow"

\* When CallsReturn fails, it is in one of two ways: a stream was given up (fail)
\* during a Write or CloseWrite without a channel, before its link was closed; or
\* a Write waits for credit, and CloseWrite, Close and other Writes behind it for
\* writeMu (stream.go:77-87, 104, 118), on a stream that nobody has failed.  Reset,
\* the grace period and Listener.Close always end the second wait, and no other
\* order of the mutexes, the callbacks of the timers, the supervisor and the
\* closing calls blocks for ever.
NoOtherHang == CallsReturn \/ <>[](\E s \in Streams : FailWaits(s) \/ CreditWaits(s))

------------------------------------------------------------------------------
\* docs/WEBRTC_MIGRATION.md:56-57: a loss is survived for up to 120 seconds; a
\* stream does not fail because a replacement channel was lost as well.
GraceHonoured == \A s \in Streams : readErr[s] # "sendError"

\* docs/ARCHITECTURE.md:62: each disconnect starts a grace period of its own, so
\* an entry is not dropped while the timer of its last loss still runs.
FullGrace ==
    [][\A s \in Sessions : readErr[s] # "grace" /\ readErr'[s] = "grace" => ~armed[s]]_vars
==============================================================================

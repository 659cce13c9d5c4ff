---------------------------- MODULE NativeStream -----------------------------
(***************************************************************************)
(* nativewebrtc/stream.go: the logical byte stream between a client and a  *)
(* listener, with its credit window, and the part of endpoint.go that      *)
(* carries its frames (nativePeer, peerLink, forwardFrames) and moves the  *)
(* stream to a new data channel after a loss.  Both ends run the same code *)
(* and are modelled by the same actions.                                   *)
(*                                                                         *)
(* A chunk is one Write, numbered in the order in which the sender's       *)
(* writes succeeded.  Sizes are in units of the smallest chunk.  ping/pong *)
(* change no state and are left out.  Connections are made here only when  *)
(* both ends have noticed the loss; the grace timers, the listener's       *)
(* stream table and the mutexes are in the module NativeSession.           *)
(***************************************************************************)
EXTENDS Integers, Sequences

CONSTANTS Sizes,       \* lengths of the values passed to Write
          Window,      \* flowWindowBytes
          MaxRead,     \* maxReadQueueBytes
          FrameDepth,  \* nativeFrameQueueDepth
          Ops,         \* <<end, operation>>: which closing calls the ends make
          MaxWrites,   \* bound: successful writes of each end
          MaxFaults    \* bound: losses noticed before the network stops failing

Ends == {"client", "server"}
Other(e) == IF e = "client" THEN "server" ELSE "client"

ASSUME SizesAssumption == Sizes \subseteq Nat
ASSUME LimitsAssumption ==
    Window \in Nat /\ MaxRead \in Nat /\ FrameDepth \in Nat /\ MaxFaults \in Nat
ASSUME WorkloadAssumption ==
    MaxWrites \in [Ends -> Nat] /\ Ops \subseteq Ends \X {"CloseWrite", "Close", "Reset"}

Controls == {"eof", "abort", "flow", "resume", "ack"}
Frames == [type : Controls \cup {"data"}, id : Nat, len : Nat]
Data(i, n) == [type |-> "data", id |-> i, len |-> n]
Control(c) == [type |-> c, id |-> 0, len |-> 0]
AckShort(n) == [type |-> "ack", id |-> 0, len |-> n - 1]
Ack(n) == [type |-> "ack", id |-> 0, len |-> n]
Idle == [pc |-> "idle", len |-> 0, counted |-> FALSE]

VARIABLES
    flowEnabled, inFlight,                  \* credit state, under flowMu
    readQueue, readQueued, readOffset,      \* receive state, under readMu
    closedRead, readErr,
    writeClosed, closed,
    peer,        \* link.peer: "nil", "open", "closed" (not yet detached),
                 \* or "ready": authenticated, not yet attached
    linkClosed,  \* link.closed
    frames,      \* sent to this end and not yet received: on the data channel,
                 \* then in nativePeer.frames
    wr,          \* the writer holding writeMu: idle, waiting in flowCond, or in
                 \* send, with its length counted in inFlight or not
    op,          \* the closing call in progress
    rc,          \* what Reconnected does next
    pendAck,     \* goroutines about to send ack:n, per n
    pendFlow,    \* the goroutine of NewStream about to send flow:1
    written,     \* number of writes that returned success
    delivered,   \* numbers of the chunks Read has consumed
    early,       \* bytes sent before flow:1 arrived, never counted in inFlight
    writtenOff,  \* bytes of inFlight a reconnection set to 0 without acks
    faults       \* losses noticed so far, at either end of a data channel

flowVars == <<flowEnabled, inFlight>>
readVars == <<readQueue, readQueued, readOffset, closedRead, readErr>>
linkVars == <<peer, linkClosed, frames>>
callVars == <<wr, op, rc, pendAck, pendFlow>>
histVars == <<written, delivered, early, writtenOff, faults>>
vars == <<flowVars, readVars, writeClosed, closed, linkVars, callVars, histVars>>

------------------------------------------------------------------------------
Init ==
    /\ flowEnabled = [e \in Ends |-> FALSE]
    /\ inFlight = [e \in Ends |-> 0]
    /\ readQueue = [e \in Ends |-> <<>>]
    /\ readQueued = [e \in Ends |-> 0]
    /\ readOffset = [e \in Ends |-> 0]
    /\ closedRead = [e \in Ends |-> FALSE]
    /\ readErr = [e \in Ends |-> FALSE]
    /\ writeClosed = [e \in Ends |-> FALSE]
    /\ closed = [e \in Ends |-> FALSE]
    /\ peer = [e \in Ends |-> "open"]
    /\ linkClosed = [e \in Ends |-> FALSE]
    /\ frames = [e \in Ends |-> <<>>]
    /\ wr = [e \in Ends |-> Idle]
    /\ op = [e \in Ends |-> "none"]
    /\ rc = [e \in Ends |-> "none"]
    /\ pendAck = [e \in Ends |-> [n \in Sizes |-> 0]]
    /\ pendFlow = [e \in Ends |-> TRUE]
    /\ written = [e \in Ends |-> 0]
    /\ delivered = [e \in Ends |-> <<>>]
    /\ early = [e \in Ends |-> 0]
    /\ writtenOff = [e \in Ends |-> 0]
    /\ faults = 0

------------------------------------------------------------------------------
\* peerLink.Send blocks while there is no peer, and fails once the link is
\* closed.  A frame handed to a peer that has closed, here or there, is lost.
CanSend(e) == peer[e] \in {"open", "closed"} \/ linkClosed[e]
Carries(e) == peer[e] = "open" /\ peer[Other(e)] # "nil"
Put(e, f) == frames' = IF Carries(e)
                       THEN [frames EXCEPT ![Other(e)] = Append(@, f)] ELSE frames

\* Whoever is inside Write or CloseWrite holds writeMu.
WriteMuIgnored(e) == TRUE
WriteMuFree(e) == wr[e].pc = "idle" /\ op[e] \notin {"eof", "closeEof"}

\* fail up to its last step, which waits for writeMu and is FailFinish.  In the
\* code the caller waits there too; here it goes on, which only adds behaviours
\* (what the waiting can block is in NativeSession).
Fail(e, err) ==
    /\ closed' = [closed EXCEPT ![e] = TRUE]
    /\ closedRead' = [closedRead EXCEPT ![e] = TRUE]
    /\ readErr' = [readErr EXCEPT ![e] = @ \/ (err /\ ~closed[e])]

FailFinish(e) ==
    /\ closed[e] /\ ~writeClosed[e] /\ WriteMuFree(e)
    /\ writeClosed' = [writeClosed EXCEPT ![e] = TRUE]
    /\ UNCHANGED <<flowVars, readVars, closed, linkVars, callVars, histVars>>

\* acknowledge never takes inFlight below zero.
LessUnclamped(a, b) == a - b
Less(a, b) == IF a < b THEN 0 ELSE a - b

\* link.Close: the peer is dropped and nothing can be attached again.
LinkClose(e) ==
    /\ linkClosed' = [linkClosed EXCEPT ![e] = TRUE]
    /\ peer' = [peer EXCEPT ![e] = "nil"]
    /\ frames' = [frames EXCEPT ![e] = <<>>]

------------------------------------------------------------------------------
\* Write: the flow window.  An empty pipe admits a value of any length.
WindowFull(e, n) == flowEnabled[e] /\ inFlight[e] > 0 /\ inFlight[e] + n > Window

WriteBegin(e, n) ==
    /\ WriteMuFree(e) /\ ~writeClosed[e] /\ ~closed[e]
    /\ written[e] < MaxWrites[e]
    /\ wr' = [wr EXCEPT ![e] = [pc |-> "flow", len |-> n, counted |-> FALSE]]
    /\ UNCHANGED <<flowVars, readVars, writeClosed, closed, linkVars,
                   op, rc, pendAck, pendFlow, histVars>>

WriteAdmit(e) ==
    /\ wr[e].pc = "flow" /\ ~closed[e]
    /\ ~WindowFull(e, wr[e].len)
    /\ wr' = [wr EXCEPT ![e] = [pc |-> "send", len |-> wr[e].len,
                                counted |-> flowEnabled[e]]]
    /\ inFlight' = [inFlight EXCEPT ![e] = IF flowEnabled[e] THEN @ + wr[e].len ELSE @]
    /\ UNCHANGED <<flowEnabled, readVars, writeClosed, closed, linkVars,
                   op, rc, pendAck, pendFlow, histVars>>

\* The stream failed while the writer waited for credit.
WriteAbandon(e) ==
    /\ wr[e].pc = "flow" /\ closed[e]
    /\ wr' = [wr EXCEPT ![e] = Idle]
    /\ UNCHANGED <<flowVars, readVars, writeClosed, closed, linkVars,
                   op, rc, pendAck, pendFlow, histVars>>

\* link.Send takes the value: it is on its way, or lost in a peer that has
\* closed without the sender noticing.
WriteSend(e) ==
    /\ wr[e].pc = "send" /\ peer[e] \in {"open", "closed"}
    /\ Put(e, Data(written[e] + 1, wr[e].len))
    /\ written' = [written EXCEPT ![e] = @ + 1]
    /\ early' = [early EXCEPT ![e] = IF wr[e].counted THEN @ ELSE @ + wr[e].len]
    /\ wr' = [wr EXCEPT ![e] = Idle]
    /\ UNCHANGED <<flowVars, readVars, writeClosed, closed, peer, linkClosed,
                   op, rc, pendAck, pendFlow, delivered, writtenOff, faults>>

\* link.Send fails: the credit is given back.
WriteFail(e) ==
    /\ wr[e].pc = "send" /\ (peer[e] = "closed" \/ linkClosed[e])
    /\ inFlight' = [inFlight EXCEPT ![e] = Less(@, wr[e].len)]
    /\ wr' = [wr EXCEPT ![e] = Idle]
    /\ UNCHANGED <<flowEnabled, readVars, writeClosed, closed, linkVars,
                   op, rc, pendAck, pendFlow, histVars>>

------------------------------------------------------------------------------
\* Read copies part of the first chunk, or the rest of it.  Only a chunk that
\* is used up leaves the queue, and only then is a goroutine started that
\* sends its ack.  Chunks already queued are read before EOF or an error.
ReadPart(e) ==
    /\ readQueue[e] # <<>>
    /\ \E n \in 1 .. Head(readQueue[e]).len - readOffset[e] - 1 :
          readOffset' = [readOffset EXCEPT ![e] = @ + n]
    /\ UNCHANGED <<flowVars, readQueue, readQueued, closedRead, readErr, writeClosed,
                   closed, linkVars, callVars, histVars>>

NotTaken(q) == q
Taken(q) == Tail(q)
NotFreed(total, n) == total
Freed(total, n) == total - n
NoAck(acks, n) == acks
AckLater(acks, n) == [acks EXCEPT ![n] = @ + 1]

Read(e) ==
    /\ readQueue[e] # <<>>
    /\ LET chunk == Head(readQueue[e])
       IN  /\ readQueue' = [readQueue EXCEPT ![e] = Taken(@)]
           /\ readQueued' = [readQueued EXCEPT ![e] = Freed(@, chunk.len)]
           /\ readOffset' = [readOffset EXCEPT ![e] = 0]
           /\ pendAck' = [pendAck EXCEPT ![e] = AckLater(@, chunk.len)]
           /\ delivered' = [delivered EXCEPT ![e] = Append(@, chunk.id)]
    /\ UNCHANGED <<flowVars, closedRead, readErr, writeClosed, closed, linkVars,
                   wr, op, rc, pendFlow, written, early, writtenOff, faults>>

SendAck(e, n) ==
    /\ pendAck[e][n] > 0 /\ CanSend(e)
    /\ pendAck' = [pendAck EXCEPT ![e][n] = @ - 1]
    /\ Put(e, Ack(n))
    /\ UNCHANGED <<flowVars, readVars, writeClosed, closed, peer, linkClosed,
                   wr, op, rc, pendFlow, histVars>>

SendFlow(e) ==
    /\ pendFlow[e] /\ CanSend(e)
    /\ pendFlow' = [pendFlow EXCEPT ![e] = FALSE]
    /\ Put(e, Control("flow"))
    /\ UNCHANGED <<flowVars, readVars, writeClosed, closed, peer, linkClosed,
                   wr, op, rc, pendAck, histVars>>

------------------------------------------------------------------------------
\* Receive, called by forwardFrames for the first frame of the peer.  It runs
\* only once Reconnected has returned.
Ready(e, type) ==
    /\ rc[e] = "none" /\ peer[e] \in {"open", "closed"}
    /\ frames[e] # <<>> /\ Head(frames[e]).type = type
Receiving(e, type) == Ready(e, type) /\ frames' = [frames EXCEPT ![e] = Tail(@)]

ReceiveData(e) ==
    LET f == Head(frames[e]) IN
    /\ Receiving(e, "data")
    /\ closedRead[e] \/ closed[e] \/ f.len <= MaxRead - readQueued[e]
    /\ IF closedRead[e] \/ closed[e]
       THEN UNCHANGED <<readQueue, readQueued>>
       ELSE /\ readQueue' = [readQueue EXCEPT ![e] = Append(@, f)]
            /\ readQueued' = [readQueued EXCEPT ![e] = @ + f.len]
    /\ UNCHANGED <<flowVars, readOffset, closedRead, readErr, writeClosed, closed,
                   peer, linkClosed, callVars, histVars>>

\* The queue would exceed its limit: the stream fails, forwardFrames returns
\* and the peer is detached (but not closed).
ReceiveOverflow(e) ==
    /\ Ready(e, "data")
    /\ ~closedRead[e] /\ ~closed[e] /\ Head(frames[e]).len > MaxRead - readQueued[e]
    /\ Fail(e, TRUE)
    /\ peer' = [peer EXCEPT ![e] = "nil"]
    /\ frames' = [frames EXCEPT ![e] = <<>>]
    /\ faults' = faults + 1
    /\ UNCHANGED <<flowVars, readQueue, readQueued, readOffset, writeClosed, linkClosed,
                   callVars, written, delivered, early, writtenOff>>

ReceiveEof(e) ==
    /\ Receiving(e, "eof")
    /\ closedRead' = [closedRead EXCEPT ![e] = TRUE]
    /\ UNCHANGED <<flowVars, readQueue, readQueued, readOffset, readErr, writeClosed,
                   closed, peer, linkClosed, callVars, histVars>>

ReceiveAbort(e) ==
    /\ Receiving(e, "abort")
    /\ Fail(e, TRUE)
    /\ UNCHANGED <<flowVars, readQueue, readQueued, readOffset, writeClosed,
                   peer, linkClosed, callVars, histVars>>

ReceiveFlow(e) ==
    /\ Receiving(e, "flow")
    /\ flowEnabled' = [flowEnabled EXCEPT ![e] = TRUE]
    /\ UNCHANGED <<inFlight, readVars, writeClosed, closed, peer, linkClosed,
                   callVars, histVars>>

ReceiveResume(e) ==
    /\ Ready(e, "resume")
    /\ inFlight' = [inFlight EXCEPT ![e] = 0]
    /\ writtenOff' = [writtenOff EXCEPT ![e] = @ + inFlight[e]]
    /\ frames' = [f \in Ends |->
                    IF f = e THEN Tail(frames[e])
                    ELSE IF Carries(e) THEN Append(frames[f], Control("flow")) ELSE frames[f]]
    /\ UNCHANGED <<flowEnabled, readVars, writeClosed, closed, peer, linkClosed,
                   callVars, written, delivered, early, faults>>

ReceiveAck(e) ==
    /\ Receiving(e, "ack")
    /\ inFlight' = [inFlight EXCEPT ![e] = Less(@, Head(frames[e]).len)]
    /\ UNCHANGED <<flowEnabled, readVars, writeClosed, closed, peer, linkClosed,
                   callVars, histVars>>

Receive(e) ==
    \/ ReceiveData(e) \/ ReceiveOverflow(e) \/ ReceiveEof(e) \/ ReceiveAbort(e)
    \/ ReceiveFlow(e) \/ ReceiveResume(e) \/ ReceiveAck(e)

------------------------------------------------------------------------------
\* The OnMessage callback of the data channel moves a frame into the queue of
\* the peer; a frame that arrives after the peer has closed is queued or dropped,
\* as select picks, while frames before and after it may still be received.
Without(s, i) == SubSeq(s, 1, i - 1) \o SubSeq(s, i + 1, Len(s))
DropFrame(e) ==
    /\ peer[e] = "closed"
    /\ \E i \in DOMAIN frames[e] : frames' = [frames EXCEPT ![e] = Without(@, i)]
    /\ UNCHANGED <<flowVars, readVars, writeClosed, closed, peer, linkClosed, callVars,
                   histVars>>

\* nativePeer.Close: the connection fails, Interrupt is called, a frame arrives
\* while the queue is full, or the other side of the connection has gone.
Deserted(e) == peer[Other(e)] \in {"closed", "nil"}
PeerClose(e) ==
    /\ peer[e] = "open"
    /\ Deserted(e) \/ Len(frames[e]) > FrameDepth \/ faults < MaxFaults
    /\ peer' = [peer EXCEPT ![e] = "closed"]
    /\ faults' = IF Deserted(e) THEN faults ELSE faults + 1
    /\ UNCHANGED <<flowVars, readVars, writeClosed, closed, linkClosed, frames,
                   callVars, written, delivered, early, writtenOff>>

\* forwardFrames sees the closed peer, whatever its queue still holds.
Detach(e) ==
    /\ peer[e] = "closed" /\ rc[e] = "none"
    /\ peer' = [peer EXCEPT ![e] = "nil"]
    /\ frames' = [frames EXCEPT ![e] = <<>>]
    /\ UNCHANGED <<flowVars, readVars, writeClosed, closed, linkClosed, callVars, histVars>>

\* dialAuthenticatedPeer and answerNativeOffer succeed: a new data channel.
Dial ==
    /\ \A e \in Ends : peer[e] = "nil" /\ ~linkClosed[e] /\ rc[e] = "none"
    /\ faults <= MaxFaults
    /\ peer' = [e \in Ends |-> "ready"]
    /\ frames' = [e \in Ends |-> <<>>]
    /\ UNCHANGED <<flowVars, readVars, writeClosed, closed, linkClosed, callVars, histVars>>

Attach(e) ==
    /\ peer[e] = "ready"
    /\ peer' = [peer EXCEPT ![e] = "open"]
    /\ rc' = [rc EXCEPT ![e] = "reset"]
    /\ UNCHANGED <<flowVars, readVars, writeClosed, closed, linkClosed, frames,
                   wr, op, pendAck, pendFlow, histVars>>

\* Reconnected: forget the credit in use, then announce resume and flow:1.
ReconnectedReset(e) ==
    /\ rc[e] = "reset"
    /\ inFlight' = [inFlight EXCEPT ![e] = 0]
    /\ writtenOff' = [writtenOff EXCEPT ![e] = @ + inFlight[e]]
    /\ rc' = [rc EXCEPT ![e] = "resume"]
    /\ UNCHANGED <<flowEnabled, readVars, writeClosed, closed, linkVars,
                   wr, op, pendAck, pendFlow, written, delivered, early, faults>>

ReconnectedSend(e) ==
    /\ rc[e] \in {"resume", "flow"} /\ peer[e] \in {"open", "closed"}
    /\ Put(e, Control(rc[e]))
    /\ rc' = [rc EXCEPT ![e] = IF @ = "resume" THEN "flow" ELSE "none"]
    /\ UNCHANGED <<flowVars, readVars, writeClosed, closed, peer, linkClosed,
                   wr, op, pendAck, pendFlow, histVars>>

\* The new channel is gone before the stream has resumed: both the client's
\* supervisor and the listener's activate give the stream up.
ReconnectedFail(e) ==
    /\ rc[e] \in {"resume", "flow"} /\ (peer[e] = "closed" \/ linkClosed[e])
    /\ Fail(e, TRUE)
    /\ LinkClose(e)
    /\ rc' = [rc EXCEPT ![e] = "none"]
    /\ UNCHANGED <<flowVars, readQueue, readQueued, readOffset, writeClosed,
                   wr, op, pendAck, pendFlow, histVars>>

\* The grace period ends without a new channel: the stream is failed, and once
\* fail has got past writeMu the link is closed.
GraceExpires(e) ==
    /\ peer[e] = "nil" /\ ~linkClosed[e] /\ rc[e] = "none"
    /\ Fail(e, TRUE)
    /\ rc' = [rc EXCEPT ![e] = "giveUp"]
    /\ UNCHANGED <<flowVars, readQueue, readQueued, readOffset, writeClosed, linkVars,
                   wr, op, pendAck, pendFlow, histVars>>

GaveUp(e) ==
    /\ rc[e] = "giveUp" /\ (writeClosed[e] \/ WriteMuFree(e))
    /\ LinkClose(e)
    /\ rc' = [rc EXCEPT ![e] = "none"]
    /\ UNCHANGED <<flowVars, readVars, writeClosed, closed, wr, op, pendAck, pendFlow,
                   histVars>>

------------------------------------------------------------------------------
\* CloseWrite, also as the first part of Close.  link.Send may block.
CloseWrite(e, call) ==
    /\ <<e, call>> \in Ops /\ op[e] = "none" /\ WriteMuFree(e)
    /\ IF writeClosed[e]
       THEN call = "Close" /\ op' = [op EXCEPT ![e] = "fail"]
       ELSE op' = [op EXCEPT ![e] = IF call = "Close" THEN "closeEof" ELSE "eof"]
    /\ writeClosed' = [writeClosed EXCEPT ![e] = TRUE]
    /\ UNCHANGED <<flowVars, readVars, closed, linkVars, wr, rc, pendAck, pendFlow, histVars>>

SendEof(e) ==
    /\ op[e] \in {"eof", "closeEof"} /\ CanSend(e)
    /\ Put(e, Control("eof"))
    /\ op' = [op EXCEPT ![e] = IF @ = "eof" THEN "none" ELSE "fail"]
    /\ UNCHANGED <<flowVars, readVars, writeClosed, closed, peer, linkClosed,
                   wr, rc, pendAck, pendFlow, histVars>>

CloseFail(e) ==
    /\ op[e] = "fail"
    /\ Fail(e, FALSE)
    /\ op' = [op EXCEPT ![e] = "closePeer"]
    /\ UNCHANGED <<flowVars, readQueue, readQueued, readOffset, writeClosed, linkVars,
                   wr, rc, pendAck, pendFlow, histVars>>

\* closePeer.  Close gets here after its 50 ms delay: time, not delivery.
ClosePeer(e) ==
    /\ op[e] = "closePeer"
    /\ LinkClose(e)
    /\ op' = [op EXCEPT ![e] = "done"]
    /\ UNCHANGED <<flowVars, readVars, writeClosed, closed, wr, rc, pendAck, pendFlow,
                   histVars>>

\* Reset fails the stream, then waits for writeMu unless it had failed before.
Reset(e) ==
    /\ <<e, "Reset">> \in Ops /\ op[e] = "none"
    /\ Fail(e, TRUE)
    /\ op' = [op EXCEPT ![e] = IF closed[e] THEN "abort" ELSE "resetWait"]
    /\ UNCHANGED <<flowVars, readQueue, readQueued, readOffset, writeClosed, linkVars,
                   wr, rc, pendAck, pendFlow, histVars>>

SendAbort(e) ==
    /\ op[e] = "abort" \/ (op[e] = "resetWait" /\ WriteMuFree(e))
    /\ CanSend(e)
    /\ Put(e, Control("abort"))
    /\ op' = [op EXCEPT ![e] = "closePeer"]
    /\ UNCHANGED <<flowVars, readVars, writeClosed, closed, peer, linkClosed,
                   wr, rc, pendAck, pendFlow, histVars>>

------------------------------------------------------------------------------
\* The application decides when to write and to close, the network when to fail.
Environment(e) ==
    \/ \E n \in Sizes : WriteBegin(e, n)
    \/ \E call \in {"CloseWrite", "Close"} : CloseWrite(e, call)
    \/ Reset(e)
    \/ ReadPart(e)
    \/ PeerClose(e)

\* Goroutines that are runnable run.
Progress(e) ==
    \/ WriteAdmit(e) \/ WriteAbandon(e) \/ WriteSend(e) \/ WriteFail(e)
    \/ FailFinish(e) \/ Read(e) \/ SendFlow(e) \/ \E n \in Sizes : SendAck(e, n)
    \/ Receive(e) \/ DropFrame(e) \/ Detach(e) \/ Attach(e)
    \/ ReconnectedReset(e) \/ ReconnectedSend(e) \/ ReconnectedFail(e)
    \/ GraceExpires(e) \/ GaveUp(e)
    \/ SendEof(e) \/ CloseFail(e) \/ ClosePeer(e) \/ SendAbort(e)

Next == Dial \/ \E e \in Ends : Environment(e) \/ Progress(e)

Spec == Init /\ [][Next]_vars

\* Reading is fair: the application keeps consuming what arrives.  A network
\* that lets both ends reconnect does so; Write, Close and failures are free.
Fairness ==
    /\ WF_vars(Dial)
    /\ \A e \in Ends :
          /\ WF_vars(WriteAdmit(e) \/ WriteAbandon(e))
          /\ WF_vars(WriteSend(e) \/ WriteFail(e))
          /\ WF_vars(Read(e))
          /\ WF_vars(SendFlow(e))
          /\ \A n \in Sizes : WF_vars(SendAck(e, n))
          /\ WF_vars(Receive(e))
          /\ WF_vars(Detach(e))
          /\ WF_vars(Attach(e))
          /\ WF_vars(ReconnectedReset(e) \/ ReconnectedSend(e) \/ ReconnectedFail(e))
          /\ WF_vars(GraceExpires(e))
          /\ WF_vars(PeerClose(e) /\ Deserted(e))

FairSpec == Spec /\ Fairness

------------------------------------------------------------------------------
FlowTypes == flowEnabled \in [Ends -> BOOLEAN] /\ inFlight \in [Ends -> Nat]
ReadTypes ==
    /\ readQueue \in [Ends -> Seq(Frames)] /\ readQueued \in [Ends -> Int]
    /\ readOffset \in [Ends -> Nat]
    /\ closedRead \in [Ends -> BOOLEAN] /\ readErr \in [Ends -> BOOLEAN]
CloseTypes == writeClosed \in [Ends -> BOOLEAN] /\ closed \in [Ends -> BOOLEAN]
LinkTypes ==
    /\ peer \in [Ends -> {"nil", "ready", "open", "closed"}]
    /\ linkClosed \in [Ends -> BOOLEAN]
    /\ frames \in [Ends -> Seq(Frames)]
Writers == [pc : {"idle", "flow", "send"}, len : Nat, counted : BOOLEAN]
CallTypes ==
    /\ wr \in [Ends -> Writers]
    /\ op \in [Ends -> {"none", "eof", "closeEof", "fail", "closePeer", "done",
                        "resetWait", "abort"}]
    /\ rc \in [Ends -> {"none", "reset", "resume", "flow", "giveUp"}]
    /\ pendAck \in [Ends -> [Sizes -> Nat]] /\ pendFlow \in [Ends -> BOOLEAN]
HistTypes ==
    /\ written \in [Ends -> Nat] /\ delivered \in [Ends -> Seq(Nat)]
    /\ early \in [Ends -> Nat] /\ writtenOff \in [Ends -> Nat] /\ faults \in Nat

WriteMuHeld ==
    \A e \in Ends : op[e] \in {"eof", "closeEof"} => wr[e].pc = "idle" /\ writeClosed[e]
FailedReads == \A e \in Ends : closed[e] => closedRead[e]
PeerState ==
    \A e \in Ends :
        /\ linkClosed[e] => peer[e] = "nil"
        /\ peer[e] = "nil" => frames[e] = <<>>
        /\ rc[e] = "giveUp" => peer[e] = "nil"
        /\ rc[e] \in {"reset", "resume", "flow"} => peer[e] \in {"open", "closed"} \/ linkClosed[e]

\* Types, and the discipline the locks of the code impose: one call at a time
\* inside writeMu, reads end with the stream, nothing queued without a peer, no
\* peer in a closed link, Reconnected only on an attached peer.
TypeOK ==
    /\ FlowTypes /\ ReadTypes /\ CloseTypes /\ LinkTypes /\ CallTypes /\ HistTypes
    /\ WriteMuHeld /\ FailedReads /\ PeerState

\* Chunks reach the reader in the order they were written, none twice: a frame
\* of an old data channel never shows up after one of the new channel, and a
\* writer that was blocked across a reconnection does not send out of turn.
InOrder ==
    \A e \in Ends : \A i, j \in DOMAIN delivered[e] :
        i < j => delivered[e][i] < delivered[e][j]

\* inFlight never exceeds the window, except for one value that is larger than
\* the window and was admitted alone (stream.go:84-95).
CounterWithinWindow ==
    \A e \in Ends : inFlight[e] <= Window \/ \E n \in Sizes : inFlight[e] <= n

Complete(e) == Len(delivered[e]) + Len(readQueue[e]) = written[Other(e)]

\* A reader that is told EOF, on a connection that was never lost, has every
\* byte whose Write reported success: eof does not overtake data.
EofAfterData ==
    faults = 0 => \A e \in Ends :
        peer[e] = "open" /\ closedRead[e] /\ ~closed[e] => Complete(e)

\* A writer waiting for credit gets it or learns that the stream failed, also
\* when the acks it waits for were lost with a data channel.
WriterNotStuck ==
    \A e \in Ends : wr[e].pc = "flow" ~> wr[e].pc # "flow"

==============================================================================

------------------------- MODULE NativeSessionProofs -------------------------
(***************************************************************************)
(* The listener's table of logical streams: OneFeeder, OneLiveStream and   *)
(* CloseIsFinal of NativeSession, for any number of channels, streams and  *)
(* faults and any calls of the applications.                               *)
(*                                                                         *)
(* Three things carry the argument.  While a goroutine feeds the stream of *)
(* the entry, the entry names its channel, so that activate finds it       *)
(* occupied (Feeders).  Whoever takes a stream out of the table has failed *)
(* it (Failed).  And whoever took it out has closed its link, or still     *)
(* has to: the stream's own Close, or a timer that holds l.mu (Unlisted).  *)
(***************************************************************************)
EXTENDS NativeSession, TLAPS

\* The goroutine of a channel: it has bound its channel to a stream; it has not
\* dropped it; Listener.Close waits for it.
Bound == {"resume", "reset", "resetWait", "watch", "failWait", "overflow", "dropped"}
Linked == Bound \ {"dropped"}
Handshaking == {"auth", "ready", "resume", "reset", "resetWait"}

\* The closing calls that have been past fail.
PastFail == {"resetWait", "abort", "closePeer", "linkClose", "done"}

\* ... and the ones that have not.
Unfailed == {"none", "eofMutex", "closeMutex", "eof", "closeEof", "fail"}

Types ==
    /\ linkPeer \in [Streams -> {0} \cup Channels] /\ linkClosed \in [Streams -> BOOLEAN]
    /\ closed \in [Streams -> BOOLEAN] /\ up \in [Channels -> SUBSET Ends]
    /\ op \in [Streams -> Unfailed \cup PastFail]
    /\ act \in [Channels -> {"none", "auth", "ready", "leaked", "done"} \cup Bound]
    /\ sidOf \in [Channels -> Streams]
    /\ entry \in [sid : Streams, peer : {0} \cup Channels]
    /\ sessions \in Streams /\ expiring \in Streams
    /\ lmu \in {"free", "timer", "close"}
    /\ lc \in {"open", "cancelled", "locked", "wait", "closed"}
    /\ cur \in Channels /\ dials \in Channels

\* What names a stream names one that exists.
Known(s) == s \in Sessions /\ s <= sessions
Existing ==
    /\ \A s \in Sessions : op[s] # "none" \/ linkClosed[s] => Known(s)
    /\ \A c \in Channels : act[c] \in Bound => Known(sidOf[c])
    /\ entry.sid # 0 => Known(entry.sid)
    /\ lmu = "timer" => Known(expiring)

\* The entry names the channel that feeds its stream, and a stream has one.
Feeders ==
    \A c \in Channels : act[c] \in Bound =>
        /\ sidOf[c] = entry.sid => entry.peer = c
        /\ \A d \in Channels : act[d] \in Bound /\ sidOf[d] = sidOf[c] => c = d

\* Whoever is about to take a stream out of the table has failed it.
Failed ==
    /\ \A s \in Sessions : op[s] \in PastFail => closed[s]
    /\ \A c \in Channels : act[c] \in {"reset", "resetWait"} => closed[sidOf[c]]
    /\ lc = "locked" => entry.sid # 0 /\ closed[entry.sid]
    /\ lmu = "timer" => closed[expiring]

\* A closed link has no peer; an open channel of a stream is the peer of its link.
Links ==
    /\ \A s \in Streams : linkClosed[s] => linkPeer[s] = 0
    /\ \A c \in Channels : "server" \in up[c] =>
          act[c] \notin {"none", "done"} /\ (act[c] \in Linked => linkPeer[sidOf[c]] = c)

\* A stream that is no longer in the table has a closed link, or somebody who is
\* about to close it.
Unlisted ==
    \A s \in Sessions : Known(s) /\ entry.sid # s =>
        linkClosed[s] \/ op[s] = "linkClose" \/ (lmu = "timer" /\ expiring = s)

\* Listener.Close holds l.mu while it fails a stream, and is alone afterwards.
Closing ==
    /\ lc = "locked" <=> lmu = "close"
    /\ lc \in {"wait", "closed"} => entry.sid = 0 /\ lmu = "free"
    /\ lc = "closed" => \A c \in Channels : act[c] \notin Handshaking

IInv == /\ Types /\ Existing /\ Feeders /\ Failed /\ Links /\ Unlisted /\ Closing
        /\ OneLiveStream

------------------------------------------------------------------------------
LEMMA Facts == 0 \in Streams /\ 0 \notin Sessions /\ (\A s \in Streams : s = 0 \/ s \in Sessions)
               /\ Sessions \subseteq Streams /\ Sessions \subseteq Nat /\ 0 \notin Channels
BY BoundsAssumption DEF Streams, Sessions, Channels

\* A step that leaves the table and the bindings alone: streams may fail, closing
\* calls proceed, channels close and goroutines move on.
LEMMA Frame ==
    ASSUME IInv, Types', UNCHANGED <<entry, sessions, sidOf, lmu, expiring, lc>>,
           linkClosed'[0] => linkPeer'[0] = 0,
           \A s \in Sessions :
               /\ closed[s] => closed'[s]
               /\ linkPeer'[s] = linkPeer[s] /\ linkClosed'[s] = linkClosed[s]
               /\ op'[s] # "none" => Known(s)
               /\ op'[s] \in PastFail => closed'[s]
               /\ op[s] = "linkClose" => op'[s] = "linkClose",
           \A c \in Channels :
               /\ act'[c] \in Bound => act[c] \in Bound
               /\ act'[c] \in Linked => act[c] \in Linked
               /\ act'[c] \in {"reset", "resetWait"} => closed'[sidOf[c]]
               /\ act'[c] \in Handshaking => act[c] \in Handshaking \/ lc # "closed"
               /\ "server" \in up'[c] =>
                      act'[c] \notin {"none", "done"} /\ (act'[c] \in Linked => "server" \in up[c])
    PROVE  IInv'
<1>1. \A s : Known(s)' = Known(s)
  BY Zenon DEF Known
<1>2. Existing'
  BY <1>1, Zenon DEF IInv, Existing
<1>3. Feeders'
  BY Zenon DEF IInv, Feeders
<1>4. \A s : Known(s) => s \in Sessions
  BY Zenon DEF Known
<1>5. Failed'
  BY <1>4, Zenon DEF IInv, Failed, Existing
<1>6. Links'
  <2>1. \A c \in Channels : "server" \in up'[c] => act'[c] \notin {"none", "done"}
    BY Zenon
  <2>2. ASSUME NEW c \in Channels, "server" \in up'[c], act'[c] \in Linked PROVE linkPeer'[sidOf'[c]] = c
    <3>1. "server" \in up[c] /\ act[c] \in Linked /\ act[c] \in Bound
      BY <2>2, Zenon DEF Linked
    <3>2. linkPeer[sidOf[c]] = c /\ sidOf[c] \in Sessions
      BY <3>1, <1>4, Zenon DEF IInv, Links, Existing
    <3>3. QED
      BY <3>2, Zenon
  <2>3. \A s \in Streams : linkClosed'[s] => linkPeer'[s] = 0
    BY Facts, Zenon DEF IInv, Links
  <2>4. QED
    BY <2>1, <2>2, <2>3, Zenon DEF Links
<1>7. Unlisted'
  BY <1>1, Zenon DEF IInv, Unlisted
<1>8. Closing'
  BY Zenon DEF IInv, Closing
<1>9. OneLiveStream'
  BY Facts, Zenon DEF IInv, OneLiveStream, Exists
<1>10. QED
  BY <1>2, <1>3, <1>5, <1>6, <1>7, <1>8, <1>9, Zenon DEF IInv

\* What the invariant reads.
tables == <<linkPeer, linkClosed, up, closed, op, act, sidOf, entry, sessions, lmu, expiring, lc,
            cur, dials>>
LEMMA Quiet ==
    ASSUME IInv, UNCHANGED tables
    PROVE  IInv'
<1>1. \A s : Known(s)' = Known(s)
  BY Zenon DEF Known, tables
<1>2. QED
  BY <1>1, Zenon DEF tables, IInv, Types, Existing, Feeders, Failed, Links, Unlisted, Closing,
     OneLiveStream, Exists

\* A step that moves neither a goroutine of the listener nor a stream of its.
LEMMA ClientFrame ==
    ASSUME IInv, Types', UNCHANGED <<act, entry, sessions, sidOf, lmu, expiring, lc>>,
           linkClosed'[0] => linkPeer'[0] = 0,
           \A s \in Sessions : /\ closed'[s] = closed[s] /\ op'[s] = op[s]
                               /\ linkPeer'[s] = linkPeer[s] /\ linkClosed'[s] = linkClosed[s],
           \A c \in Channels : "server" \in up'[c] => "server" \in up[c]
    PROVE  IInv'
<1>1. \A s \in Sessions :
         /\ closed[s] => closed'[s]
         /\ op'[s] # "none" => Known(s)
         /\ op'[s] \in PastFail => closed'[s]
         /\ op[s] = "linkClose" => op'[s] = "linkClose"
  BY Zenon DEF IInv, Existing, Failed
<1>2. \A c \in Channels : act[c] \in {"reset", "resetWait"} => act[c] \in Bound
  BY Zenon DEF Bound
<1>3. \A c \in Channels : act'[c] \in {"reset", "resetWait"} => closed'[sidOf[c]]
  BY <1>2, Zenon DEF IInv, Failed, Existing, Known
<1>4. \A c \in Channels :
         /\ act'[c] \in Bound => act[c] \in Bound
         /\ act'[c] \in Linked => act[c] \in Linked
         /\ act'[c] \in Handshaking => act[c] \in Handshaking \/ lc # "closed"
         /\ "server" \in up'[c] =>
                act'[c] \notin {"none", "done"} /\ (act'[c] \in Linked => "server" \in up[c])
  BY Zenon DEF IInv, Links
<1>5. QED
  BY <1>1, <1>3, <1>4, Frame, Zenon

\* A closing call proceeds to p; its stream may fail.
LEMMA CallFrame ==
    ASSUME IInv, NEW s \in Streams,
           NEW p \in Unfailed \cup PastFail,
           op' = [op EXCEPT ![s] = p], op[s] # "linkClose", Exists(s) \/ op[s] # "none",
           closed' = closed \/ closed' = [closed EXCEPT ![s] = TRUE], p \in PastFail => closed'[s],
           UNCHANGED <<linkPeer, linkClosed, up, act, sidOf, entry, sessions, lmu, expiring, lc, cur, dials>>
    PROVE  IInv'
<1>1. closed \in [Streams -> BOOLEAN]
      /\ op \in [Streams -> Unfailed \cup PastFail]
  BY Zenon DEF IInv, Types
<1>2. closed' \in [Streams -> BOOLEAN] /\ \A t \in Streams : closed[t] => closed'[t]
  BY <1>1, Zenon
<1>3. op' \in [Streams -> Unfailed \cup PastFail]
      /\ op'[s] = p /\ \A t \in Streams : t # s => op'[t] = op[t]
  BY <1>1, Zenon
<1>4. Types'
  BY <1>2, <1>3, Zenon DEF IInv, Types
<1>5. \A t \in Sessions :
         /\ op'[t] # "none" => Known(t)
         /\ op'[t] \in PastFail => closed'[t]
         /\ op[t] = "linkClose" => op'[t] = "linkClose"
  BY <1>2, <1>3, Facts, Zenon DEF IInv, Existing, Failed, Known, Exists
<1>6. \A c \in Channels : act[c] \in {"reset", "resetWait"} => act[c] \in Bound
  BY Zenon DEF Bound
<1>7. \A c \in Channels : act'[c] \in {"reset", "resetWait"} => closed'[sidOf[c]]
  BY <1>2, <1>6, Facts, Zenon DEF IInv, Failed, Existing, Known
<1>8. linkClosed'[0] => linkPeer'[0] = 0
  BY Facts, Zenon DEF IInv, Links
<1>9. QED
  BY <1>2, <1>4, <1>5, <1>7, <1>8, Facts, Frame, Zenon DEF IInv, Links

\* link.Close, and a peer that closes.
LEMMA ShutFacts ==
    ASSUME IInv, NEW c \in Channels, NEW e \in Ends, Shut(c, e)
    PROVE  /\ up' \in [Channels -> SUBSET Ends]
           /\ \A d \in Channels : "server" \in up'[d] => "server" \in up[d]
           /\ e \notin up'[c]
BY Zenon DEF IInv, Types, Shut

LEMMA LinkCloseFacts ==
    ASSUME IInv, NEW s \in Streams, LinkClose(s)
    PROVE  /\ linkPeer' \in [Streams -> {0} \cup Channels] /\ linkClosed' \in [Streams -> BOOLEAN]
           /\ up' \in [Channels -> SUBSET Ends]
           /\ linkClosed'[s] /\ linkPeer'[s] = 0
           /\ \A t \in Streams : t # s => linkPeer'[t] = linkPeer[t] /\ linkClosed'[t] = linkClosed[t]
           /\ \A c \in Channels : "server" \in up'[c] => "server" \in up[c]
           /\ \A c \in Channels : s # 0 /\ linkPeer[s] = c => "server" \notin up'[c]
<1>1. /\ linkPeer \in [Streams -> {0} \cup Channels] /\ linkClosed \in [Streams -> BOOLEAN]
      /\ up \in [Channels -> SUBSET Ends]
  BY Zenon DEF IInv, Types
<1>2. /\ linkPeer' \in [Streams -> {0} \cup Channels] /\ linkClosed' \in [Streams -> BOOLEAN]
      /\ linkClosed'[s] /\ linkPeer'[s] = 0
      /\ \A t \in Streams : t # s => linkPeer'[t] = linkPeer[t] /\ linkClosed'[t] = linkClosed[t]
  BY <1>1, Zenon DEF LinkClose
<1>3. CASE linkPeer[s] = 0
  BY <1>1, <1>2, <1>3, Facts, Zenon DEF LinkClose
<1>4. CASE linkPeer[s] # 0
  <2>1. linkPeer[s] \in Channels /\ EndOf(s) \in Ends /\ Shut(linkPeer[s], EndOf(s))
    BY <1>1, <1>4, Zenon DEF LinkClose, EndOf, Ends
  <2>2. s # 0 => EndOf(s) = "server"
    BY Zenon DEF EndOf
  <2>3. QED
    BY <1>2, <2>1, <2>2, ShutFacts, Zenon
<1>5. QED
  BY <1>3, <1>4, Zenon

------------------------------------------------------------------------------
\* The applications' calls.
LEMMA CallSteps ==
    ASSUME IInv, NEW s \in Streams,
           \/ Write(s) \/ Acked(s) \/ WriteReturns(s) \/ Reset(s)
           \/ \E call \in {"CloseWrite", "Close"} : CloseWriteBlocks(s, call) \/ CloseWrite(s, call)
           \/ EofSent(s) \/ CloseFail(s) \/ ResetFailed(s) \/ AbortSent(s)
    PROVE  IInv'
<1>1. CASE Write(s) \/ Acked(s) \/ WriteReturns(s)
  BY <1>1, Quiet, Zenon DEF Write, Acked, WriteReturns, tables, linkVars, streamVars, clientVars, tableVars, lockVars
<1>2. CASE Reset(s)
  <2>1. /\ op' = [op EXCEPT ![s] = IF closed[s] THEN "abort" ELSE "resetWait"]
        /\ op[s] = "none" /\ Exists(s) /\ closed' = [closed EXCEPT ![s] = TRUE]
        /\ UNCHANGED <<linkPeer, linkClosed, up, act, sidOf, entry, sessions, lmu, expiring, lc, cur, dials>>
    BY <1>2, Zenon DEF Reset, Fail, Called, linkVars, clientVars, tableVars, lockVars
  <2>2. closed'[s]
    BY <2>1, Zenon DEF IInv, Types
  <2>3. (IF closed[s] THEN "abort" ELSE "resetWait") \in PastFail
    BY Zenon DEF PastFail
  <2>4. QED
    BY <2>1, <2>2, <2>3, CallFrame, Zenon
<1>3. ASSUME NEW call \in {"CloseWrite", "Close"}, CloseWriteBlocks(s, call) \/ CloseWrite(s, call)
      PROVE  IInv'
  <2>1. MutexWait(call) \in {"eofMutex", "closeMutex"}
    BY Zenon DEF MutexWait
  <2>2. /\ op[s] # "linkClose" /\ (Exists(s) \/ op[s] # "none")
        /\ UNCHANGED <<linkPeer, linkClosed, up, closed, act, sidOf, entry, sessions, lmu, expiring, lc,
                       cur, dials>>
    BY <1>3, <2>1, Zenon DEF CloseWriteBlocks, CloseWrite, Called, streamVars, linkVars, clientVars,
       tableVars, lockVars
  <2>3. \E p \in Unfailed : op' = [op EXCEPT ![s] = p]
    <3>1. CASE CloseWriteBlocks(s, call)
      BY <2>1, <3>1, Zenon DEF CloseWriteBlocks, Unfailed
    <3>2. CASE CloseWrite(s, call)
      BY <3>2, Zenon DEF CloseWrite, Unfailed
    <3>3. QED
      BY <1>3, <3>1, <3>2, Zenon
  <2>4. \A p \in Unfailed : p \notin PastFail
    BY Zenon DEF PastFail, Unfailed
  <2>5. QED
    BY <2>2, <2>3, <2>4, CallFrame, Zenon
<1>4. CASE EofSent(s)
  <2>1. /\ op[s] \in {"eof", "closeEof"}
        /\ UNCHANGED <<linkPeer, linkClosed, up, closed, act, sidOf, entry, sessions, lmu, expiring, lc,
                       cur, dials>>
    BY <1>4, Zenon DEF EofSent, linkVars, streamVars, clientVars, tableVars, lockVars
  <2>2. \E p \in Unfailed : op' = [op EXCEPT ![s] = p] /\ p \notin PastFail
    BY <1>4, Zenon DEF EofSent, PastFail, Unfailed
  <2>3. QED
    BY <2>1, <2>2, CallFrame, Zenon
<1>5. CASE CloseFail(s)
  <2>1. /\ op[s] = "fail" /\ op' = [op EXCEPT ![s] = "closePeer"]
        /\ closed' = [closed EXCEPT ![s] = TRUE]
        /\ UNCHANGED <<linkPeer, linkClosed, up, act, sidOf, entry, sessions, lmu, expiring, lc, cur, dials>>
    BY <1>5, Zenon DEF CloseFail, Fail, linkVars, clientVars, tableVars, lockVars
  <2>2. closed'[s] /\ "closePeer" \in PastFail
    BY <2>1, Zenon DEF IInv, Types, PastFail
  <2>3. QED
    BY <2>1, <2>2, CallFrame, Zenon
<1>6. CASE ResetFailed(s) \/ AbortSent(s)
  <2>1. /\ op[s] \in {"resetWait", "abort"} /\ \E p \in {"abort", "closePeer"} : op' = [op EXCEPT ![s] = p]
        /\ UNCHANGED <<linkPeer, linkClosed, up, closed, act, sidOf, entry, sessions, lmu, expiring, lc,
                       cur, dials>>
    BY <1>6, Zenon DEF ResetFailed, AbortSent, linkVars, streamVars, clientVars, tableVars, lockVars
  <2>2. CASE s = 0
    <3>1. Types'
      BY <2>1, Facts DEF IInv, Types, PastFail
    <3>2. \A t \in Sessions : op'[t] = op[t]
      BY <2>1, <2>2, Facts, Zenon DEF IInv, Types
    <3>3. linkClosed'[0] => linkPeer'[0] = 0
      BY <2>1, Facts, Zenon DEF IInv, Links
    <3>4. QED
      BY <2>1, <3>1, <3>2, <3>3, ClientFrame, Zenon
  <2>3. CASE s # 0
    <3>1. closed'[s] /\ {"abort", "closePeer"} \subseteq PastFail
      BY <2>1, <2>3, Facts, Zenon DEF IInv, Failed, PastFail
    <3>2. QED
      BY <2>1, <3>1, CallFrame, Zenon
  <2>4. QED
    BY <2>2, <2>3, Zenon
<1>7. QED
  BY <1>1, <1>2, <1>3, <1>4, <1>5, <1>6, Zenon

\* closePeer at the client.
LEMMA ClientCloseSteps ==
    ASSUME IInv, ClosePeer(0) \/ ClosePeerLink(0)
    PROVE  IInv'
<1>1. UNCHANGED <<closed, act, sidOf, sessions, lmu, expiring, lc, cur, dials>>
  BY Zenon DEF ClosePeer, ClosePeerLink, streamVars, clientVars, tableVars, lockVars
<1>2. UNCHANGED entry /\ \E p \in {"linkClose", "done"} : op' = [op EXCEPT ![0] = p]
  BY Facts, Zenon DEF ClosePeer, ClosePeerLink, tableVars
<1>3. op' \in [Streams -> Unfailed \cup PastFail]
      /\ \A t \in Sessions : op'[t] = op[t]
  BY <1>2, Facts DEF IInv, Types, PastFail
<1>4. UNCHANGED <<linkPeer, linkClosed, up>> \/ LinkClose(0)
  BY Zenon DEF ClosePeer, ClosePeerLink, linkVars
<1>5. /\ linkPeer' \in [Streams -> {0} \cup Channels] /\ linkClosed' \in [Streams -> BOOLEAN]
      /\ up' \in [Channels -> SUBSET Ends]
      /\ linkClosed'[0] => linkPeer'[0] = 0
      /\ \A t \in Sessions : linkPeer'[t] = linkPeer[t] /\ linkClosed'[t] = linkClosed[t]
      /\ \A c \in Channels : "server" \in up'[c] => "server" \in up[c]
  <2>1. CASE UNCHANGED <<linkPeer, linkClosed, up>>
    BY <2>1, Facts, Zenon DEF IInv, Types, Links
  <2>2. CASE LinkClose(0)
    BY <2>2, Facts, LinkCloseFacts, Zenon
  <2>3. QED
    BY <1>4, <2>1, <2>2, Zenon
<1>6. Types'
  BY <1>1, <1>2, <1>3, <1>5, Zenon DEF IInv, Types
<1>7. QED
  BY <1>1, <1>2, <1>3, <1>5, <1>6, ClientFrame, Zenon

------------------------------------------------------------------------------
\* The client's supervisor, and losses.
LEMMA SupervisorSteps ==
    ASSUME IInv,
           \/ ForwardEnds \/ ForwardAbort \/ ForwardAborted \/ ForwardOverflow \/ ForwardOverflowed
           \/ AttemptFails \/ GraceExpires \/ Attach \/ Reconnected \/ GiveUp \/ GaveUp
           \/ \E c \in Channels, e \in Ends : PeerCloses(c, e)
    PROVE  IInv'
<1>1. UNCHANGED <<op, act, sidOf, entry, sessions, lmu, expiring, lc, cur, dials>>
  BY Zenon DEF ForwardEnds, ForwardAbort, ForwardAborted, ForwardOverflow, ForwardOverflowed, AttemptFails,
     GraceExpires, Attach, Reconnected, GiveUp, GaveUp, PeerCloses, appVars, clientVars, tableVars, lockVars
<1>2. closed' = closed \/ closed' = [closed EXCEPT ![0] = TRUE]
  BY Zenon DEF ForwardEnds, ForwardAbort, ForwardAborted, ForwardOverflow, ForwardOverflowed, AttemptFails,
     GraceExpires, Attach, Reconnected, GiveUp, GaveUp, PeerCloses, Fail, streamVars
<1>3. \/ UNCHANGED <<linkPeer, linkClosed, up>>
      \/ LinkClose(0)
      \/ UNCHANGED <<linkClosed, up>> /\ linkPeer' = [linkPeer EXCEPT ![0] = 0]
      \/ ~linkClosed[0] /\ UNCHANGED <<linkClosed, up>> /\ linkPeer' = [linkPeer EXCEPT ![0] = cur]
      \/ UNCHANGED <<linkPeer, linkClosed>> /\ \E c \in Channels, e \in Ends : Shut(c, e)
  <2>1. CASE ForwardEnds \/ ForwardAbort \/ ForwardAborted \/ ForwardOverflow \/ ForwardOverflowed
    BY <2>1, Zenon DEF ForwardEnds, ForwardAbort, ForwardAborted, ForwardOverflow, ForwardOverflowed, linkVars, IInv,
       Types, Ends
  <2>2. CASE AttemptFails \/ GraceExpires \/ Attach \/ Reconnected \/ GiveUp \/ GaveUp
    BY <2>2, Zenon DEF AttemptFails, GraceExpires, Attach, Reconnected, GiveUp, GaveUp, linkVars, IInv, Types, Ends
  <2>3. CASE \E c \in Channels, e \in Ends : PeerCloses(c, e)
    BY <2>3, Zenon DEF PeerCloses
  <2>4. QED
    BY <2>1, <2>2, <2>3, Zenon
<1>4. closed' \in [Streams -> BOOLEAN] /\ \A t \in Sessions : closed'[t] = closed[t]
  BY <1>2, Facts, Zenon DEF IInv, Types
<1>5. /\ linkPeer' \in [Streams -> {0} \cup Channels] /\ linkClosed' \in [Streams -> BOOLEAN]
      /\ up' \in [Channels -> SUBSET Ends]
      /\ linkClosed'[0] => linkPeer'[0] = 0
      /\ \A t \in Sessions : linkPeer'[t] = linkPeer[t] /\ linkClosed'[t] = linkClosed[t]
      /\ \A c \in Channels : "server" \in up'[c] => "server" \in up[c]
  <2>1. CASE UNCHANGED <<linkPeer, linkClosed, up>>
    BY <2>1, Facts, Zenon DEF IInv, Types, Links
  <2>2. CASE LinkClose(0)
    BY <2>2, Facts, LinkCloseFacts, Zenon
  <2>3. CASE /\ UNCHANGED <<linkClosed, up>>
             /\ \/ linkPeer' = [linkPeer EXCEPT ![0] = 0]
                \/ ~linkClosed[0] /\ linkPeer' = [linkPeer EXCEPT ![0] = cur]
    BY <2>3, Facts DEF IInv, Types
  <2>4. CASE UNCHANGED <<linkPeer, linkClosed>> /\ \E c \in Channels, e \in Ends : Shut(c, e)
    <3>1. PICK c \in Channels, e \in Ends : Shut(c, e)
      BY <2>4, Zenon
    <3>2. linkClosed'[0] => linkPeer'[0] = 0
      BY <2>4, Facts, Zenon DEF IInv, Links
    <3>3. QED
      BY <2>4, <3>1, <3>2, ShutFacts, Zenon DEF IInv, Types
  <2>5. QED
    BY <1>3, <2>1, <2>2, <2>3, <2>4, Zenon
<1>6. Types'
  BY <1>1, <1>4, <1>5, Zenon DEF IInv, Types
<1>7. QED
  BY <1>1, <1>4, <1>5, <1>6, ClientFrame, Zenon

------------------------------------------------------------------------------
\* The listener's goroutine of channel c moves on to a, without touching the table.
Places == {"none", "auth", "ready", "leaked", "done"} \cup Bound

LEMMA HandlerFrame ==
    ASSUME IInv, NEW c \in Channels, NEW a \in Places, act' = [act EXCEPT ![c] = a],
           UNCHANGED <<linkPeer, linkClosed, op, sidOf, entry, sessions, lmu, expiring, lc>>,
           cur' \in Channels, dials' \in Channels,
           closed' \in [Streams -> BOOLEAN], \A s \in Streams : closed[s] => closed'[s],
           up' \in [Channels -> SUBSET Ends],
           \A d \in Channels : d # c => ("server" \in up'[d] => "server" \in up[d]),
           a \in Bound => act[c] \in Bound, a \in Linked => act[c] \in Linked,
           a \in {"reset", "resetWait"} => closed'[sidOf[c]],
           a \in Handshaking => act[c] \in Handshaking \/ lc # "closed",
           "server" \in up'[c] => a \notin {"none", "done"} /\ (a \in Linked => "server" \in up[c])
    PROVE  IInv'
<1>1. act' \in [Channels -> Places] /\ act'[c] = a /\ \A d \in Channels : d # c => act'[d] = act[d]
  BY Zenon DEF IInv, Types, Places
<1>2. Types'
  BY <1>1, Zenon DEF IInv, Types, Places
<1>3. linkClosed'[0] => linkPeer'[0] = 0
  BY Facts, Zenon DEF IInv, Links
<1>4. \A d \in Channels : act[d] \in {"reset", "resetWait"} => closed'[sidOf[d]]
  BY Zenon DEF IInv, Types, Failed
<1>5. \A d \in Channels :
         /\ act'[d] \in Bound => act[d] \in Bound
         /\ act'[d] \in Linked => act[d] \in Linked
         /\ act'[d] \in {"reset", "resetWait"} => closed'[sidOf[d]]
         /\ act'[d] \in Handshaking => act[d] \in Handshaking \/ lc # "closed"
         /\ "server" \in up'[d] =>
                act'[d] \notin {"none", "done"} /\ (act'[d] \in Linked => "server" \in up[d])
  BY <1>1, <1>4, Zenon DEF IInv, Links
<1>6. \A s \in Sessions :
         /\ closed[s] => closed'[s]
         /\ op'[s] # "none" => Known(s)
         /\ op'[s] \in PastFail => closed'[s]
  BY Facts, Zenon DEF IInv, Existing, Failed
<1>7. QED
  BY <1>2, <1>3, <1>5, <1>6, Frame, Zenon

LEMMA HandshakeSteps ==
    ASSUME IInv,
           Offer \/ Authenticated \/ \E c \in Channels : AnswerFails(c) \/ ActivateRefused(c)
    PROVE  IInv'
<1>1. UNCHANGED <<closed, linkPeer, linkClosed, op, sidOf, entry, sessions, lmu, expiring, lc>>
  BY Zenon DEF Offer, Authenticated, AnswerFails, ActivateRefused, streamVars, linkVars, appVars, tableVars, lockVars
<1>2. closed' \in [Streams -> BOOLEAN] /\ \A s \in Streams : closed[s] => closed'[s]
  BY <1>1, Zenon DEF IInv, Types
<1>3. CASE Offer
  <2> DEFINE c == dials + 1
  <2>1. c \in Channels /\ cur' = c /\ dials' = c
    BY <1>3, BoundsAssumption DEF Offer, IInv, Types, Channels
  <2> HIDE DEF c
  <2>2. CASE lc = "open"
    <3>1. act' = [act EXCEPT ![c] = "auth"] /\ up' = [up EXCEPT ![c] = Ends]
      BY <1>3, <2>2, Zenon DEF Offer, c
    <3>2. up' \in [Channels -> SUBSET Ends] /\ \A d \in Channels : d # c => up'[d] = up[d]
      BY <2>1, <3>1, Zenon DEF IInv, Types
    <3>3. "auth" \in Places /\ "auth" \notin Bound /\ "auth" \notin Linked
      BY Zenon DEF Places, Bound, Linked
    <3>4. QED
      BY <1>1, <1>2, <2>1, <2>2, <3>1, <3>2, <3>3, HandlerFrame, Zenon
  <2>3. CASE lc # "open"
    <3>1. UNCHANGED act /\ up' = [up EXCEPT ![c] = {"client"}]
      BY <1>3, <2>3, Zenon DEF Offer, c
    <3>2. up' \in [Channels -> SUBSET Ends] /\ \A d \in Channels : "server" \in up'[d] => "server" \in up[d]
      BY <2>1, <3>1, Zenon DEF IInv, Types, Ends
    <3>3. Types'
      BY <1>1, <2>1, <3>1, <3>2, Zenon DEF IInv, Types
    <3>4. linkClosed'[0] => linkPeer'[0] = 0
      BY <1>1, Facts, Zenon DEF IInv, Links
    <3>5. QED
      BY <1>1, <3>1, <3>2, <3>3, <3>4, ClientFrame, Zenon
  <2>4. QED
    BY <2>2, <2>3, Zenon
<1>4. CASE Authenticated
  <2>1. act[cur] = "auth" /\ act' = [act EXCEPT ![cur] = "ready"] /\ UNCHANGED <<up, cur, dials>>
    BY <1>4, Zenon DEF Authenticated, linkVars
  <2>2. "ready" \in Places /\ "ready" \notin Bound /\ "ready" \notin Linked
        /\ "auth" \in Handshaking
    BY Zenon DEF Places, Bound, Linked, Handshaking
  <2>3. up' \in [Channels -> SUBSET Ends] /\ cur \in Channels /\ dials \in Channels
    BY <2>1, Zenon DEF IInv, Types
  <2>4. QED
    BY <1>1, <1>2, <2>1, <2>2, <2>3, HandlerFrame, Zenon
<1>5. ASSUME NEW c \in Channels, AnswerFails(c) \/ ActivateRefused(c)
      PROVE  IInv'
  <2>1. act' = [act EXCEPT ![c] = "done"] /\ UNCHANGED <<cur, dials>> /\ Shut(c, "server")
    BY <1>5, Zenon DEF AnswerFails, ActivateRefused, clientVars
  <2>2. "done" \in Places /\ "done" \notin Bound /\ "done" \notin Linked /\ "done" \notin Handshaking
    BY Zenon DEF Places, Bound, Linked, Handshaking
  <2>3. /\ up' \in [Channels -> SUBSET Ends] /\ "server" \notin up'[c]
        /\ \A d \in Channels : "server" \in up'[d] => "server" \in up[d]
    BY <2>1, ShutFacts, Zenon DEF Ends
  <2>4. cur \in Channels /\ dials \in Channels
    BY Zenon DEF IInv, Types
  <2>5. QED
    BY <1>1, <1>2, <2>1, <2>2, <2>3, <2>4, HandlerFrame, Zenon
<1>6. QED
  BY <1>3, <1>4, <1>5, Zenon

LEMMA WatchSteps ==
    ASSUME IInv, NEW c \in Channels,
           \/ Resumed(c) \/ ResumeFails(c) \/ WatchAbort(c) \/ WatchAborted(c)
           \/ WatchOverflow(c) \/ WatchOverflowed(c)
    PROVE  IInv'
<1>1. UNCHANGED <<up, linkPeer, linkClosed, op, sidOf, entry, sessions, lmu, expiring, lc, cur, dials>>
  BY Zenon DEF Resumed, ResumeFails, WatchAbort, WatchAborted, WatchOverflow, WatchOverflowed, clientVars,
     linkVars, appVars, tableVars, lockVars
<1>2. closed' = closed \/ closed' = [closed EXCEPT ![sidOf[c]] = TRUE]
  BY Zenon DEF Resumed, ResumeFails, WatchAbort, WatchAborted, WatchOverflow, WatchOverflowed, Fail, streamVars
<1>3. sidOf[c] \in Streams /\ closed \in [Streams -> BOOLEAN]
  BY Zenon DEF IInv, Types
<1>4. closed' \in [Streams -> BOOLEAN] /\ \A s \in Streams : closed[s] => closed'[s]
  BY <1>2, <1>3, Zenon
<1>5. act[c] \in {"resume", "watch", "failWait", "overflow"}
      /\ \E a \in {"reset", "resetWait", "watch", "failWait", "overflow", "dropped"} :
            /\ act' = [act EXCEPT ![c] = a]
            /\ a \in {"reset", "resetWait"} => closed'[sidOf[c]] /\ act[c] = "resume"
  BY <1>3, Zenon DEF Resumed, ResumeFails, WatchAbort, WatchAborted, WatchOverflow, WatchOverflowed, Fail
<1>6. PICK a \in {"reset", "resetWait", "watch", "failWait", "overflow", "dropped"} :
            /\ act' = [act EXCEPT ![c] = a]
            /\ a \in {"reset", "resetWait"} => closed'[sidOf[c]] /\ act[c] = "resume"
  BY <1>5, Zenon
<1>7. act[c] \in Linked /\ act[c] \in Bound /\ a \in Places /\ a \notin {"none", "done"}
      /\ (a \in Handshaking => act[c] \in Handshaking)
  BY <1>5, <1>6, Zenon DEF Linked, Bound, Places, Handshaking
<1>8. cur' \in Channels /\ dials' \in Channels /\ up' \in [Channels -> SUBSET Ends]
  BY <1>1, Zenon DEF IInv, Types
<1>9. "server" \in up'[c] => "server" \in up[c]
  BY <1>1, Zenon
<1>10. \A d \in Channels : d # c => ("server" \in up'[d] => "server" \in up[d])
  BY <1>1, Zenon
<1>11. QED
  BY <1>1, <1>4, <1>6, <1>7, <1>8, <1>9, <1>10, HandlerFrame, Zenon

------------------------------------------------------------------------------
\* Stream s leaves the table, or its link is closed, or both.
LEMMA Removal ==
    ASSUME IInv, Types', Closing', NEW s \in Sessions, Known(s), UNCHANGED <<sessions, sidOf>>,
           entry' = entry \/ (entry.sid = s /\ closed'[s] /\ entry' = NoEntry),
           LinkClose(s) \/ UNCHANGED <<linkPeer, linkClosed, up>>,
           \A t \in Sessions : (closed[t] => closed'[t]) /\ (t # s => op'[t] = op[t]),
           \A d \in Channels : act'[d] = act[d] \/ (act'[d] = "done" /\ "server" \notin up'[d]),
           op'[s] \in PastFail => closed'[s],
           entry'.sid # s => linkClosed'[s] \/ op'[s] = "linkClose" \/ (lmu' = "timer" /\ expiring' = s),
           lmu' = "timer" => Known(expiring') /\ closed'[expiring'],
           lmu = "timer" => (lmu' = "timer" /\ expiring' = expiring) \/ expiring = s,
           lc' = "locked" => entry'.sid # 0 /\ closed'[entry'.sid]
    PROVE  IInv'
<1>1. \A t : Known(t)' = Known(t)
  BY Zenon DEF Known
<1>2. \A t : Known(t) => t \in Sessions /\ t # 0
  BY Facts, Zenon DEF Known
<1>3. "done" \notin Bound /\ "done" \notin Linked /\ "done" \notin {"reset", "resetWait"}
  BY Zenon DEF Bound, Linked
<1>4. \A d \in Channels : /\ act'[d] \in Bound => act[d] \in Bound
                          /\ act'[d] \in Linked => act[d] \in Linked
                          /\ act'[d] \in {"reset", "resetWait"} => act[d] \in {"reset", "resetWait"}
  BY <1>3, Zenon
<1>5. entry'.sid # 0 => entry' = entry
  BY DEF NoEntry
<1>6. /\ \A t \in Streams : linkClosed'[t] => linkPeer'[t] = 0
      /\ \A t \in Sessions : t # s => linkPeer'[t] = linkPeer[t] /\ linkClosed'[t] = linkClosed[t]
      /\ linkClosed[s] => linkClosed'[s]
      /\ \A d \in Channels : "server" \in up'[d] => "server" \in up[d]
      /\ \A d \in Channels : "server" \in up'[d] /\ linkPeer[s] = d => linkPeer'[s] = d
  <2>1. CASE LinkClose(s)
    BY <2>1, LinkCloseFacts, Facts DEF IInv, Links
  <2>2. CASE UNCHANGED <<linkPeer, linkClosed, up>>
    BY <2>2, Zenon DEF IInv, Links
  <2>3. QED
    BY <2>1, <2>2, Zenon
<1>7. Existing'
  BY <1>1, <1>4, <1>5, <1>6, Zenon DEF IInv, Existing
<1>8. Feeders'
  <2>1. \A d \in Channels : act[d] \in Bound => sidOf[d] # 0
    BY <1>2, Zenon DEF IInv, Existing
  <2>2. QED
    BY <1>4, <1>5, <2>1, ZenonT(30) DEF IInv, Feeders
<1>9. Failed'
  <2>1. \A d \in Channels : act[d] \in {"reset", "resetWait"} => act[d] \in Bound
    BY Zenon DEF Bound
  <2>2. QED
    BY <1>2, <1>4, <2>1, Zenon DEF IInv, Failed, Existing
<1>10. Links'
  <2>1. ASSUME NEW d \in Channels, "server" \in up'[d], act'[d] \in Linked PROVE linkPeer'[sidOf'[d]] = d
    <3>1. act[d] \in Linked /\ "server" \in up[d] /\ act[d] \in Bound
      BY <1>4, <1>6, <2>1, Zenon DEF Linked
    <3>2. linkPeer[sidOf[d]] = d /\ sidOf[d] \in Sessions
      BY <3>1, <1>2, Zenon DEF IInv, Links, Existing
    <3>3. QED
      BY <2>1, <3>2, <1>6, ZenonT(30)
  <2>2. \A d \in Channels : "server" \in up'[d] => act'[d] \notin {"none", "done"}
    BY <1>6, Zenon DEF IInv, Links
  <2>3. QED
    BY <1>6, <2>1, <2>2, Zenon DEF Links
<1>11. Unlisted'
  <2>1. ASSUME NEW t \in Sessions, Known(t)', entry'.sid # t, t # s
        PROVE  linkClosed'[t] \/ op'[t] = "linkClose" \/ (lmu' = "timer" /\ expiring' = t)
    <3>1. Known(t) /\ entry.sid # t
      BY <1>1, <2>1, Zenon
    <3>2. linkClosed[t] \/ op[t] = "linkClose" \/ (lmu = "timer" /\ expiring = t)
      BY <3>1, Zenon DEF IInv, Unlisted
    <3>3. QED
      BY <1>6, <2>1, <3>2, Zenon
  <2>2. QED
    BY <2>1, Zenon DEF Unlisted
<1>12. OneLiveStream'
  BY Facts, Zenon DEF IInv, OneLiveStream, Exists
<1>13. QED
  BY <1>7, <1>8, <1>9, <1>10, <1>11, <1>12, Zenon DEF IInv

\* closePeer of a stream of the listener.
LEMMA ClosePeerStep ==
    ASSUME IInv, NEW s \in Sessions, ClosePeer(s)
    PROVE  IInv'
<1>1. /\ op[s] = "closePeer" /\ op' = [op EXCEPT ![s] = "linkClose"] /\ lmu = "free"
      /\ entry' = entry \/ (entry.sid = s /\ entry' = NoEntry)
      /\ UNCHANGED <<linkPeer, linkClosed, up, closed, act, sidOf, sessions, lmu, expiring, lc, cur, dials>>
  BY Facts, Zenon DEF ClosePeer, Owns, linkVars, streamVars, lockVars
<1>2. /\ op' \in [Streams -> Unfailed \cup PastFail]
      /\ op'[s] = "linkClose" /\ \A t \in Sessions : t # s => op'[t] = op[t]
  BY <1>1, Facts, Zenon DEF IInv, Types, PastFail
<1>3. entry' \in [sid : Streams, peer : {0} \cup Channels] /\ (entry'.sid = entry.sid \/ entry'.sid = 0)
  BY <1>1, Facts DEF IInv, Types, NoEntry
<1>4. Types'
  BY <1>1, <1>2, <1>3, Zenon DEF IInv, Types
<1>5. closed[s] /\ Known(s)
  BY <1>1, Zenon DEF IInv, Failed, Existing, PastFail
<1>6. Closing'
  BY <1>1, <1>3, Zenon DEF IInv, Closing
<1>7. lc # "locked" /\ lmu # "timer"
  BY <1>1, Zenon DEF IInv, Closing
<1>8. QED
  BY <1>1, <1>2, <1>4, <1>5, <1>6, <1>7, Removal, Zenon

LEMMA ClosePeerLinkStep ==
    ASSUME IInv, NEW s \in Sessions, ClosePeerLink(s)
    PROVE  IInv'
<1>1. /\ op[s] = "linkClose" /\ op' = [op EXCEPT ![s] = "done"] /\ LinkClose(s)
      /\ UNCHANGED <<closed, act, sidOf, entry, sessions, lmu, expiring, lc, cur, dials>>
  BY Zenon DEF ClosePeerLink, streamVars, clientVars, tableVars, lockVars
<1>2. /\ op' \in [Streams -> Unfailed \cup PastFail]
      /\ op'[s] = "done" /\ \A t \in Sessions : t # s => op'[t] = op[t]
  BY <1>1, Facts, Zenon DEF IInv, Types, PastFail
<1>3. s \in Streams
  BY Facts, Zenon
<1>4. Types'
  BY <1>1, <1>2, <1>3, LinkCloseFacts, Zenon DEF IInv, Types
<1>5. closed[s] /\ Known(s)
  BY <1>1, Zenon DEF IInv, Failed, Existing, PastFail
<1>6. Closing' /\ linkClosed'[s]
  BY <1>1, <1>3, LinkCloseFacts, Zenon DEF IInv, Closing
<1>7. /\ lmu' = "timer" => Known(expiring') /\ closed'[expiring']
      /\ lc' = "locked" => entry'.sid # 0 /\ closed'[entry'.sid]
  BY <1>1, Zenon DEF IInv, Failed, Existing
<1>8. QED
  BY <1>1, <1>2, <1>4, <1>5, <1>6, <1>7, Removal, Zenon

\* Reset of a stream whose Reconnected failed.
LEMMA ResumeResetStep ==
    ASSUME IInv, NEW c \in Channels, ResumeReset(c)
    PROVE  IInv'
<1> DEFINE s == sidOf[c]
<1>1. /\ act[c] \in {"reset", "resetWait"} /\ act' = [act EXCEPT ![c] = "done"] /\ lmu = "free"
      /\ entry' = entry \/ (entry.sid = s /\ entry' = NoEntry)
      /\ LinkClose(s)
      /\ UNCHANGED <<closed, op, sidOf, sessions, lmu, expiring, lc, cur, dials>>
  BY Zenon DEF ResumeReset, Owns, appVars, clientVars, lockVars
<1>2. act[c] \in Bound /\ act[c] \in Linked
  BY <1>1, Zenon DEF Bound, Linked
<1>3. Known(s) /\ closed[s] /\ s \in Sessions /\ s \in Streams
  BY <1>1, <1>2, Facts, Zenon DEF IInv, Existing, Failed, Known
<1>4. /\ act' \in [Channels -> {"none", "auth", "ready", "leaked", "done"} \cup Bound]
      /\ act'[c] = "done" /\ \A d \in Channels : d # c => act'[d] = act[d]
  BY <1>1, Zenon DEF IInv, Types
<1> HIDE DEF s
<1>5. entry' \in [sid : Streams, peer : {0} \cup Channels] /\ (entry'.sid = entry.sid \/ entry'.sid = 0)
  BY <1>1, Facts DEF IInv, Types, NoEntry
<1>6. Types' /\ linkClosed'[s]
  BY <1>1, <1>3, <1>4, <1>5, LinkCloseFacts, Zenon DEF IInv, Types
<1>7. "server" \notin up'[c]
  BY <1>1, <1>2, <1>3, LinkCloseFacts, Facts, Zenon DEF IInv, Links, s
<1>8. Closing'
  BY <1>1, <1>4, <1>5, Zenon DEF IInv, Closing, Handshaking
<1>9. lc # "locked" /\ lmu # "timer"
  BY <1>1, Zenon DEF IInv, Closing
<1>10. op[s] \in PastFail => closed'[s]
  BY <1>1, <1>3, Zenon
<1>11. QED
  BY <1>1, <1>3, <1>4, <1>6, <1>7, <1>8, <1>9, <1>10, Removal, Zenon

------------------------------------------------------------------------------
\* The grace timer's callback, and what follows its wait for writeMu.
LEMMA TimerRunsStep ==
    ASSUME IInv, NEW s \in Sessions, TimerRuns(s)
    PROVE  IInv'
<1>1. /\ lmu = "free" /\ UNCHANGED <<op, act, sidOf, sessions, lc, cur, dials>>
  BY Zenon DEF TimerRuns, appVars, clientVars
<1>2. CASE ~Expired(s)
  BY <1>1, <1>2, Quiet, Zenon DEF TimerRuns, tables, linkVars
<1>3. CASE Expired(s)
  <2>1. /\ entry.sid = s /\ entry' = NoEntry /\ closed' = [closed EXCEPT ![s] = TRUE]
        /\ \/ closed[s] /\ LinkClose(s) /\ UNCHANGED <<lmu, expiring>>
           \/ UNCHANGED <<linkPeer, linkClosed, up>> /\ lmu' = "timer" /\ expiring' = s
    BY <1>3, Zenon DEF TimerRuns, Expired, Owns, Fail, linkVars
  <2>2. s \in Streams /\ s # 0 /\ Known(s)
    BY <2>1, Facts, Zenon DEF IInv, Existing
  <2>3. /\ closed' \in [Streams -> BOOLEAN] /\ closed'[s]
        /\ \A t \in Sessions : closed[t] => closed'[t]
    BY <2>1, <2>2, Facts, Zenon DEF IInv, Types
  <2>4. entry' \in [sid : Streams, peer : {0} \cup Channels] /\ entry'.sid = 0
    BY <2>1, Facts, Zenon DEF NoEntry
  <2>5. /\ linkPeer' \in [Streams -> {0} \cup Channels] /\ linkClosed' \in [Streams -> BOOLEAN]
        /\ up' \in [Channels -> SUBSET Ends]
    BY <2>1, <2>2, LinkCloseFacts, Zenon DEF IInv, Types
  <2>6. lmu' \in {"free", "timer", "close"} /\ expiring' \in Streams
    BY <2>1, <2>2, Zenon DEF IInv, Types
  <2>7. Types'
    BY <1>1, <2>3, <2>4, <2>5, <2>6, Zenon DEF IInv, Types
  <2>8. lc \in {"open", "cancelled"}
    BY <1>1, <2>1, <2>2, Zenon DEF IInv, Closing, Types
  <2>9. lmu' # "close"
    BY <1>1, <2>1, Zenon
  <2>10. Closing'
    BY <1>1, <2>4, <2>8, <2>9, Zenon DEF Closing
  <2>11. linkClosed'[s] \/ (lmu' = "timer" /\ expiring' = s)
    BY <2>1, <2>2, LinkCloseFacts, Zenon
  <2>12. lmu' = "timer" => Known(expiring') /\ closed'[expiring']
    BY <1>1, <2>1, <2>2, <2>3, Zenon
  <2>13. lc' # "locked" /\ lmu # "timer"
    BY <1>1, <2>8, Zenon
  <2>14. QED
    BY <1>1, <2>1, <2>2, <2>3, <2>7, <2>10, <2>11, <2>12, <2>13, Removal, Zenon
<1>4. QED
  BY <1>2, <1>3, Zenon

LEMMA TimerDoneStep ==
    ASSUME IInv, TimerDone
    PROVE  IInv'
<1> DEFINE s == expiring
<1>1. /\ lmu = "timer" /\ lmu' = "free" /\ expiring' = 0 /\ LinkClose(s)
      /\ UNCHANGED <<closed, op, act, sidOf, entry, sessions, lc, cur, dials>>
  BY Zenon DEF TimerDone, appVars, clientVars, tableVars
<1>2. Known(s) /\ s \in Sessions /\ s \in Streams /\ closed[s]
  BY <1>1, Facts, Zenon DEF IInv, Existing, Failed, Known
<1> HIDE DEF s
<1>3. Types' /\ linkClosed'[s]
  BY <1>1, <1>2, LinkCloseFacts, Facts, Zenon DEF IInv, Types
<1>4. Closing' /\ lc # "locked"
  BY <1>1, Zenon DEF IInv, Closing
<1>5. lmu' # "timer" /\ expiring = s
  BY <1>1, Zenon DEF s
<1>6. QED
  BY <1>1, <1>2, <1>3, <1>4, <1>5, Removal, Zenon

\* Listener.Close.
LEMMA ListenerCloseSteps ==
    ASSUME IInv, ListenerCancel \/ ListenerReturns \/ (ListenerFail /\ entry.sid = 0)
    PROVE  IInv'
<1>1. UNCHANGED <<linkPeer, linkClosed, up, closed, op, act, sidOf, entry, sessions, lmu, expiring,
                  cur, dials>>
  BY Zenon DEF ListenerCancel, ListenerReturns, ListenerFail, linkVars, streamVars, appVars, clientVars,
     tableVars, lockVars
<1>2. /\ lc' \in {"cancelled", "wait", "closed"} /\ lc # "locked" /\ Closing'
  <2>1. CASE ListenerCancel
    BY <1>1, <2>1, Zenon DEF ListenerCancel, IInv, Closing
  <2>2. CASE ListenerReturns
    BY <1>1, <2>2, Zenon DEF ListenerReturns, IInv, Closing, Handshaking
  <2>3. CASE ListenerFail /\ entry.sid = 0
    BY <1>1, <2>3, Zenon DEF ListenerFail, IInv, Closing
  <2>4. QED
    BY <2>1, <2>2, <2>3, Zenon
<1>3. Types'
  BY <1>1, <1>2, Zenon DEF IInv, Types
<1>4. \A s : Known(s)' = Known(s)
  BY <1>1, Zenon DEF Known
<1>5. lc' # "locked"
  BY <1>2, Zenon
<1>6. QED
  BY <1>1, <1>2, <1>3, <1>4, <1>5, Zenon DEF IInv, Existing, Feeders, Failed, Links, Unlisted,
     OneLiveStream, Exists

LEMMA ListenerFailStep ==
    ASSUME IInv, ListenerFail, entry.sid # 0
    PROVE  IInv'
<1> DEFINE s == entry.sid
<1>1. /\ lc = "cancelled" /\ lmu = "free"
      /\ closed' = [closed EXCEPT ![s] = TRUE]
      /\ UNCHANGED <<op, act, sidOf, sessions, expiring, cur, dials>>
      /\ \/ lc' = "wait" /\ LinkClose(s) /\ entry' = NoEntry /\ lmu' = lmu
         \/ lc' = "locked" /\ lmu' = "close" /\ UNCHANGED <<linkPeer, linkClosed, up, entry>>
  BY Zenon DEF ListenerFail, Fail, appVars, clientVars, linkVars
<1>2. Known(s) /\ s \in Sessions /\ s \in Streams
  BY Facts, Zenon DEF IInv, Existing, Known
<1> HIDE DEF s
<1>3. /\ closed' \in [Streams -> BOOLEAN] /\ closed'[s]
      /\ \A t \in Sessions : closed[t] => closed'[t]
  BY <1>1, <1>2, Facts, Zenon DEF IInv, Types
<1>4. CASE lc' = "wait" /\ LinkClose(s) /\ entry' = NoEntry /\ lmu' = lmu
  <2>1. entry' \in [sid : Streams, peer : {0} \cup Channels] /\ entry'.sid = 0
    BY <1>4, Facts, Zenon DEF NoEntry
  <2>2. Types' /\ linkClosed'[s]
    BY <1>1, <1>2, <1>3, <1>4, <2>1, LinkCloseFacts, Zenon DEF IInv, Types
  <2>3. Closing' /\ lc' # "locked" /\ lmu # "timer" /\ lmu' # "timer"
    BY <1>1, <1>4, <2>1, Zenon DEF Closing
  <2>4. QED
    BY <1>1, <1>2, <1>3, <1>4, <2>2, <2>3, Removal, Zenon DEF s, IInv, Failed
<1>5. CASE lc' = "locked" /\ lmu' = "close" /\ UNCHANGED <<linkPeer, linkClosed, up, entry>>
  <2>1. Types'
    BY <1>1, <1>3, <1>5, Zenon DEF IInv, Types
  <2>2. Closing' /\ lmu # "timer" /\ lmu' # "timer"
    BY <1>1, <1>5, Zenon DEF Closing
  <2>3. entry'.sid = s /\ s # 0
    BY <1>2, <1>5, Facts, Zenon DEF s
  <2>4. QED
    BY <1>1, <1>2, <1>3, <1>5, <2>1, <2>2, <2>3, Removal, Zenon DEF IInv, Failed
<1>6. QED
  BY <1>1, <1>4, <1>5, Zenon

LEMMA ListenerFailedStep ==
    ASSUME IInv, ListenerFailed
    PROVE  IInv'
<1> DEFINE s == entry.sid
<1>1. /\ lc = "locked" /\ lc' = "wait" /\ lmu' = "free" /\ LinkClose(s) /\ entry' = NoEntry
      /\ UNCHANGED <<closed, op, act, sidOf, sessions, expiring, cur, dials>>
  BY Zenon DEF ListenerFailed, appVars, clientVars
<1>2. s # 0 /\ closed[s]
  BY <1>1, Zenon DEF IInv, Failed
<1>3. Known(s) /\ s \in Sessions /\ s \in Streams /\ lmu = "close"
  BY <1>1, <1>2, Facts, Zenon DEF IInv, Existing, Known, Closing
<1> HIDE DEF s
<1>4. entry' \in [sid : Streams, peer : {0} \cup Channels] /\ entry'.sid = 0
  BY <1>1, Facts, Zenon DEF NoEntry
<1>5. Types' /\ linkClosed'[s]
  BY <1>1, <1>3, <1>4, LinkCloseFacts, Zenon DEF IInv, Types
<1>6. Closing' /\ lc' # "locked" /\ lmu # "timer" /\ lmu' # "timer"
  BY <1>1, <1>3, <1>4, Zenon DEF Closing
<1>7. QED
  BY <1>1, <1>2, <1>3, <1>5, <1>6, Removal, Zenon DEF s, IInv, Failed

------------------------------------------------------------------------------
\* activate binds channel c to stream s, which no other channel feeds.
LEMMA FeedersAfterBind ==
    ASSUME IInv, NEW c \in Channels, NEW s, entry'.sid = s, entry'.peer = c, sidOf'[c] = s,
           \A d \in Channels : act[d] \in Bound => sidOf[d] # s,
           \A d \in Channels : d # c => act'[d] = act[d] /\ sidOf'[d] = sidOf[d]
    PROVE  Feeders'
<1>1. \A d \in Channels : d # c /\ act'[d] \in Bound => act[d] \in Bound /\ sidOf'[d] # s
  BY Zenon
<1>2. ASSUME NEW d \in Channels, act'[d] \in Bound PROVE sidOf'[d] = entry'.sid => entry'.peer = d
  BY <1>1, <1>2, Zenon
<1>3. ASSUME NEW d \in Channels, act'[d] \in Bound, NEW b \in Channels, act'[b] \in Bound,
             sidOf'[b] = sidOf'[d]
      PROVE  d = b
  <2>1. CASE d = c \/ b = c
    BY <1>1, <1>3, <2>1, Zenon
  <2>2. CASE d # c /\ b # c
    <3>1. act[d] \in Bound /\ act[b] \in Bound /\ sidOf[b] = sidOf[d]
      BY <1>3, <2>2, Zenon
    <3>2. QED
      BY <3>1, Zenon DEF IInv, Feeders
  <2>3. QED
    BY <2>1, <2>2, Zenon
<1>4. QED
  BY <1>2, <1>3, Zenon DEF Feeders

LEMMA LinksAfterBind ==
    ASSUME IInv, NEW c \in Channels, NEW s \in Streams, UNCHANGED <<linkClosed, up>>,
           ~linkClosed[s], linkPeer'[s] = c, sidOf'[c] = s, act'[c] \notin {"none", "done"},
           \A t \in Streams : t # s => linkPeer'[t] = linkPeer[t],
           \A d \in Channels : act[d] \in Linked => sidOf[d] # s,
           \A d \in Channels : d # c => act'[d] = act[d] /\ sidOf'[d] = sidOf[d]
    PROVE  Links'
<1>1. \A t \in Streams : linkClosed'[t] => linkPeer'[t] = 0
  BY Zenon DEF IInv, Links
<1>2. \A d \in Channels : "server" \in up'[d] => act'[d] \notin {"none", "done"}
  BY Zenon DEF IInv, Links
<1>3. \A d \in Channels : sidOf[d] \in Streams
  BY Zenon DEF IInv, Types
<1>4. ASSUME NEW d \in Channels, "server" \in up'[d], act'[d] \in Linked PROVE linkPeer'[sidOf'[d]] = d
  <2>1. CASE d = c
    BY <2>1, Zenon
  <2>2. CASE d # c
    <3>1. act'[d] = act[d] /\ sidOf'[d] = sidOf[d] /\ up'[d] = up[d]
      BY <2>2, Zenon
    <3>2. linkPeer[sidOf[d]] = d /\ sidOf[d] # s
      BY <1>4, <3>1, Zenon DEF IInv, Links
    <3>3. QED
      BY <1>3, <3>1, <3>2, Zenon
  <2>3. QED
    BY <2>1, <2>2, Zenon
<1>5. QED
  BY <1>1, <1>2, <1>4, Zenon DEF Links

\* activate.
LEMMA ActivateNewStep ==
    ASSUME IInv, NEW c \in Channels, ActivateNew(c)
    PROVE  IInv'
<1> DEFINE s == sessions + 1
<1>1. /\ act[c] = "ready" /\ lmu = "free" /\ entry.sid = 0 /\ ~ListenerClosed
      /\ sessions' = s /\ entry' = [sid |-> s, peer |-> c]
      /\ linkPeer' = [linkPeer EXCEPT ![s] = c] /\ sidOf' = [sidOf EXCEPT ![c] = s]
      /\ act' = [act EXCEPT ![c] = "watch"]
      /\ UNCHANGED <<linkClosed, up, closed, op, lmu, expiring, lc, cur, dials>>
  BY Zenon DEF ActivateNew, linkVars, streamVars, appVars, clientVars, lockVars
<1>2. s \in Sessions /\ s \in Streams /\ s # 0 /\ ~Known(s)
      /\ \A t \in Sessions : t <= s <=> t <= sessions \/ t = s
  BY BoundsAssumption DEF ActivateNew, IInv, Types, Sessions, Streams, Known
<1> HIDE DEF s
<1>3. /\ linkPeer' \in [Streams -> {0} \cup Channels] /\ sidOf' \in [Channels -> Streams]
      /\ act' \in [Channels -> {"none", "auth", "ready", "leaked", "done"} \cup Bound]
      /\ linkPeer'[s] = c /\ \A t \in Streams : t # s => linkPeer'[t] = linkPeer[t]
      /\ sidOf'[c] = s /\ \A d \in Channels : d # c => sidOf'[d] = sidOf[d]
      /\ act'[c] = "watch" /\ \A d \in Channels : d # c => act'[d] = act[d]
  BY <1>1, <1>2, Zenon DEF IInv, Types, Bound
<1>4. entry' \in [sid : Streams, peer : {0} \cup Channels] /\ entry'.sid = s /\ entry'.peer = c
  BY <1>1, <1>2, Zenon
<1>5. Types'
  BY <1>1, <1>2, <1>3, <1>4, Zenon DEF IInv, Types
<1>6. \A t \in Sessions : Known(t)' <=> Known(t) \/ t = s
  BY <1>1, <1>2, Zenon DEF Known
<1>7. \A t : Known(t) => t \in Sessions
  BY Zenon DEF Known
<1>8. lc \in {"open", "cancelled"}
  BY <1>1, Zenon DEF IInv, Types, Closing, ListenerClosed
<1>9. "watch" \notin {"reset", "resetWait", "none", "done"} /\ "watch" \notin Handshaking
      /\ lmu' # "timer" /\ lc' # "locked" /\ lc' # "closed"
  BY <1>1, <1>8, Zenon DEF Handshaking
<1>10. Existing'
  <2>1. \A t \in Sessions : op'[t] # "none" \/ linkClosed'[t] => Known(t)'
    BY <1>1, <1>6, Zenon DEF IInv, Existing
  <2>2. ASSUME NEW d \in Channels, act'[d] \in Bound PROVE Known(sidOf[d])'
    <3>1. CASE d = c
      BY <1>2, <1>3, <1>6, <3>1, Zenon
    <3>2. CASE d # c
      <4>1. sidOf'[d] = sidOf[d] /\ Known(sidOf[d])
        BY <1>3, <2>2, <3>2, Zenon DEF IInv, Existing
      <4>2. QED
        BY <1>6, <1>7, <4>1, Zenon
    <3>3. QED
      BY <3>1, <3>2, Zenon
  <2>3. Known(entry.sid)'
    BY <1>2, <1>4, <1>6, Zenon
  <2>4. QED
    BY <1>9, <2>1, <2>2, <2>3, Zenon DEF Existing
<1>11. Feeders'
  <2>1. \A d \in Channels : act[d] \in Bound => sidOf[d] # s
    BY <1>2, Zenon DEF IInv, Existing
  <2>2. QED
    BY <1>3, <1>4, <2>1, FeedersAfterBind, ZenonT(30)
<1>12. Failed'
  BY <1>1, <1>3, <1>9, Zenon DEF IInv, Failed
<1>13. Links'
  <2>1. ~linkClosed[s]
    BY <1>2, Zenon DEF IInv, Existing
  <2>2. \A d \in Channels : act[d] \in Linked => sidOf[d] # s
    BY <1>2, Zenon DEF IInv, Existing, Linked
  <2>3. UNCHANGED <<linkClosed, up>> /\ act'[c] \notin {"none", "done"}
    BY <1>1, <1>3, Zenon
  <2>4. QED
    BY <1>2, <1>3, <2>1, <2>2, <2>3, LinksAfterBind, ZenonT(30)
<1>14. Unlisted'
  <2>1. \A t \in Sessions : Known(t) => entry.sid # t
    BY <1>1, Facts, Zenon
  <2>2. QED
    BY <1>1, <1>4, <1>6, <2>1, Zenon DEF IInv, Unlisted
<1>15. Closing'
  BY <1>1, <1>8, Zenon DEF IInv, Closing
<1>16. OneLiveStream'
  BY <1>1, <1>2, <1>4, Facts, Zenon DEF IInv, OneLiveStream, Exists
<1>17. QED
  BY <1>5, <1>10, <1>11, <1>12, <1>13, <1>14, <1>15, <1>16, Zenon DEF IInv

LEMMA ActivateBindStep ==
    ASSUME IInv, NEW c \in Channels, ActivateBind(c)
    PROVE  IInv'
<1> DEFINE s == entry.sid
<1>1. /\ act[c] = "ready" /\ lmu = "free" /\ ~ListenerClosed
      /\ s # 0 /\ entry.peer = 0 /\ ~linkClosed[s] /\ linkPeer[s] = 0
      /\ entry' = [entry EXCEPT !.peer = c]
      /\ linkPeer' = [linkPeer EXCEPT ![s] = c] /\ sidOf' = [sidOf EXCEPT ![c] = s]
      /\ act' = [act EXCEPT ![c] = "resume"]
      /\ UNCHANGED <<linkClosed, up, closed, op, sessions, lmu, expiring, lc, cur, dials>>
  BY Zenon DEF ActivateBind, Occupied, linkVars, streamVars, appVars, clientVars, lockVars
<1>2. Known(s) /\ s \in Sessions /\ s \in Streams
  BY <1>1, Facts, Zenon DEF IInv, Existing, Known
<1>3. entry' \in [sid : Streams, peer : {0} \cup Channels] /\ entry'.sid = s /\ entry'.peer = c
  BY <1>1, Zenon DEF IInv, Types
<1> HIDE DEF s
<1>4. /\ linkPeer' \in [Streams -> {0} \cup Channels] /\ sidOf' \in [Channels -> Streams]
      /\ act' \in [Channels -> {"none", "auth", "ready", "leaked", "done"} \cup Bound]
      /\ linkPeer'[s] = c /\ \A t \in Streams : t # s => linkPeer'[t] = linkPeer[t]
      /\ sidOf'[c] = s /\ \A d \in Channels : d # c => sidOf'[d] = sidOf[d]
      /\ act'[c] = "resume" /\ \A d \in Channels : d # c => act'[d] = act[d]
  BY <1>1, <1>2, Zenon DEF IInv, Types, Bound
<1>5. Types'
  BY <1>1, <1>3, <1>4, Zenon DEF IInv, Types
<1>6. \A t : Known(t)' = Known(t)
  BY <1>1, Zenon DEF Known
<1>7. lc \in {"open", "cancelled"}
  BY <1>1, Zenon DEF IInv, Types, Closing, ListenerClosed
<1>8. "resume" \notin {"reset", "resetWait", "none", "done"}
      /\ lmu' # "timer" /\ lc' # "locked" /\ lc' # "closed"
  BY <1>1, <1>7, Zenon
\* The entry has no peer, so nobody feeds its stream.
<1>9. \A d \in Channels : act[d] \in Bound => sidOf[d] # s
  BY <1>1, Facts, Zenon DEF IInv, Feeders, s
<1>10. Existing'
  BY <1>1, <1>2, <1>3, <1>4, <1>6, <1>8, ZenonT(30) DEF IInv, Existing
<1>11. Feeders'
  BY <1>3, <1>4, <1>9, FeedersAfterBind, ZenonT(30)
<1>12. Failed'
  BY <1>1, <1>4, <1>8, Zenon DEF IInv, Failed
<1>13. Links'
  <2>1. \A d \in Channels : act[d] \in Linked => sidOf[d] # s
    BY <1>9, Zenon DEF Linked
  <2>2. QED
    BY <1>1, <1>2, <1>4, <1>8, <2>1, LinksAfterBind, ZenonT(30)
<1>14. Unlisted'
  BY <1>1, <1>3, <1>6, Zenon DEF IInv, Unlisted, s
<1>15. Closing'
  BY <1>1, <1>7, Zenon DEF IInv, Closing
<1>16. OneLiveStream'
  BY <1>1, <1>3, Zenon DEF IInv, OneLiveStream, Exists, s
<1>17. QED
  BY <1>5, <1>10, <1>11, <1>12, <1>13, <1>14, <1>15, <1>16, Zenon DEF IInv

\* watch returns.
LEMMA WatchEndsStep ==
    ASSUME IInv, NEW c \in Channels, WatchEnds(c)
    PROVE  IInv'
<1> DEFINE s == sidOf[c]
<1>1. /\ lmu = "free"
      /\ UNCHANGED <<linkClosed, up, closed, op, sidOf, sessions, lmu, expiring, lc, cur, dials>>
  BY Zenon DEF WatchEnds, streamVars, appVars, clientVars, lockVars
<1>2. \E a \in {"leaked", "done"} : /\ act' = [act EXCEPT ![c] = a]
                                    /\ a = "done" => "server" \notin up[c]
  BY Zenon DEF WatchEnds
<1>3. PICK a \in {"leaked", "done"} : /\ act' = [act EXCEPT ![c] = a]
                                      /\ a = "done" => "server" \notin up[c]
  BY <1>2, Zenon
<1>4. a \notin Bound /\ a \notin Linked /\ a \notin Handshaking /\ a \notin {"reset", "resetWait"}
  BY Zenon DEF Bound, Linked, Handshaking
<1>5. act' \in [Channels -> {"none", "auth", "ready", "leaked", "done"} \cup Bound]
      /\ act'[c] = a /\ \A d \in Channels : d # c => act'[d] = act[d]
  BY <1>3, Zenon DEF IInv, Types
<1>6. \/ UNCHANGED <<linkPeer, entry>>
      \/ /\ entry.sid = s /\ entry.peer = c /\ entry' = [entry EXCEPT !.peer = 0]
         /\ linkPeer' = [linkPeer EXCEPT ![s] = IF @ = c THEN 0 ELSE @]
  BY Zenon DEF WatchEnds, Detached, Owns
<1>7. entry' \in [sid : Streams, peer : {0} \cup Channels] /\ entry'.sid = entry.sid
      /\ (entry'.peer = entry.peer \/ (entry.sid = s /\ entry.peer = c))
  BY <1>6, Zenon DEF IInv, Types
<1>8. linkPeer' \in [Streams -> {0} \cup Channels]
      /\ \A t \in Streams : linkPeer'[t] = linkPeer[t] \/ (linkPeer[t] = c /\ linkPeer'[t] = 0)
  BY <1>6 DEF IInv, Types
<1> HIDE DEF s
<1>9. Types'
  BY <1>1, <1>5, <1>7, <1>8, Zenon DEF IInv, Types
<1>10. \A t : Known(t)' = Known(t)
  BY <1>1, Zenon DEF Known
<1>11. \A d \in Channels : /\ act'[d] \in Bound => d # c /\ act[d] \in Bound
                           /\ act'[d] \in Linked => d # c /\ act[d] \in Linked
                           /\ act'[d] \in Handshaking => act[d] \in Handshaking
                           /\ act'[d] \in {"reset", "resetWait"} => act[d] \in {"reset", "resetWait"}
  BY <1>4, <1>5, Zenon
<1>12. Existing'
  BY <1>1, <1>7, <1>10, <1>11, Zenon DEF IInv, Existing
<1>13. Feeders'
  <2>1. ASSUME NEW d \in Channels, act'[d] \in Bound, sidOf'[d] = entry'.sid PROVE entry'.peer = d
    <3>1. entry.peer = d /\ d # c
      BY <1>1, <1>7, <1>11, <2>1, Zenon DEF IInv, Feeders
    <3>2. QED
      BY <1>7, <3>1, Zenon
  <2>2. QED
    BY <1>1, <1>11, <2>1, Zenon DEF IInv, Feeders
<1>14. Failed'
  BY <1>1, <1>7, <1>11, Zenon DEF IInv, Failed
<1>15. Links'
  <2>1. \A t \in Streams : linkClosed'[t] => linkPeer'[t] = 0
    BY <1>1, <1>8, Zenon DEF IInv, Links
  <2>2. \A d \in Channels : "server" \in up'[d] => act'[d] \notin {"none", "done"}
    BY <1>1, <1>3, <1>5, Zenon DEF IInv, Links
  <2>3. \A d \in Channels : sidOf[d] \in Streams
    BY Zenon DEF IInv, Types
  <2>4. ASSUME NEW d \in Channels, "server" \in up'[d], act'[d] \in Linked PROVE linkPeer'[sidOf'[d]] = d
    <3>1. linkPeer[sidOf[d]] = d /\ d # c
      BY <1>1, <1>11, <2>4, Zenon DEF IInv, Links
    <3>2. QED
      BY <1>1, <1>8, <2>3, <3>1, Zenon
  <2>5. QED
    BY <2>1, <2>2, <2>4, Zenon DEF Links
<1>16. Unlisted' /\ OneLiveStream'
  BY <1>1, <1>7, <1>10, Zenon DEF IInv, Unlisted, OneLiveStream, Exists
<1>17. Closing'
  BY <1>1, <1>7, <1>11, Zenon DEF IInv, Closing
<1>18. QED
  BY <1>9, <1>12, <1>13, <1>14, <1>15, <1>16, <1>17, Zenon DEF IInv

------------------------------------------------------------------------------
LEMMA Initial == Init => IInv
<1> SUFFICES ASSUME Init PROVE IInv
  BY Zenon
<1>1. Types
  BY Facts, BoundsAssumption DEF Init, Types, Unfailed, Channels, Ends
<1>2. Existing /\ Feeders /\ Failed
  BY Zenon DEF Init, Existing, Feeders, Failed, Bound, PastFail, Known, Streams
<1>3. Links
  BY Zenon DEF Init, Links, Linked, Bound
<1>4. Unlisted /\ Closing /\ OneLiveStream
  BY Facts DEF Init, Unlisted, Closing, OneLiveStream, Known, Exists, Sessions
<1>5. QED
  BY <1>1, <1>2, <1>3, <1>4, Zenon DEF IInv

LEMMA Inductive == IInv /\ [Next]_vars => IInv'
<1> SUFFICES ASSUME IInv, [Next]_vars PROVE IInv'
  BY Zenon
<1>1. CASE UNCHANGED vars
  BY <1>1, Quiet, Zenon DEF vars, tables, linkVars, streamVars, appVars, clientVars, tableVars, lockVars
<1>2. ASSUME NEW s \in Streams, Application(s) \/ Acked(s) \/ WriteReturns(s) \/ CallStep(s) PROVE IInv'
  <2>1. CASE ClosePeer(s) \/ ClosePeerLink(s)
    BY <2>1, Facts, ClientCloseSteps, ClosePeerStep, ClosePeerLinkStep, Zenon
  <2>2. CASE ~(ClosePeer(s) \/ ClosePeerLink(s))
    BY <1>2, <2>2, CallSteps, Zenon DEF Application, CallStep
  <2>3. QED
    BY <2>1, <2>2, Zenon
<1>3. ASSUME NEW c \in Channels, Handler(c) \/ WatchOverflow(c) PROVE IInv'
  BY <1>3, HandshakeSteps, ActivateNewStep, ActivateBindStep, WatchSteps, ResumeResetStep, WatchEndsStep,
     Zenon, Zenon DEF Handler
<1>4. ASSUME NEW s \in Sessions, TimerFires(s) PROVE IInv'
  BY <1>4, Quiet, Zenon DEF TimerFires, tables, linkVars, streamVars, appVars, clientVars, lockVars
<1>5. CASE Supervisor \/ ForwardOverflow \/ Offer \/ AttemptFails \/ GraceExpires
           \/ \E c \in Channels, e \in Ends : PeerCloses(c, e)
  BY <1>5, SupervisorSteps, HandshakeSteps, Zenon DEF Supervisor
<1>6. CASE TimerDone \/ ListenerCancel \/ ListenerClose
  BY <1>6, TimerDoneStep, ListenerCloseSteps, ListenerFailStep, ListenerFailedStep, Zenon DEF ListenerClose
<1>7. QED
  BY <1>1, <1>2, <1>3, <1>4, <1>5, <1>6, TimerRunsStep, Zenon DEF Next

LEMMA Invariance == Spec => []IInv
BY Initial, Inductive, PTL DEF Spec

------------------------------------------------------------------------------
\* OneFeeder: watch and activate never let frames of two channels into one stream.
THEOREM OneFeederHolds == Spec => []OneFeeder
<1>1. IInv => OneFeeder
  BY Zenon DEF IInv, Feeders, OneFeeder, Feeding, Bound
<1>2. QED
  BY <1>1, Invariance, PTL

\* OneLiveStream: a stream of the listener that has not failed is the one a
\* reconnecting client is bound to by activate.
THEOREM OneLiveStreamHolds == Spec => []OneLiveStream
BY Invariance, PTL DEF IInv

\* CloseIsFinal: after Listener.Close no stream is alive, and the only peers that
\* are open belong to a stream whose own Close is at its last call, or were
\* dropped with a full receive queue.
THEOREM CloseIsFinalHolds == Spec => []CloseIsFinal
<1>1. ASSUME IInv, lc = "closed" PROVE CloseIsFinal
  <2>1. entry.sid = 0 /\ lmu = "free" /\ \A c \in Channels : act[c] \notin Handshaking
    BY <1>1, Zenon DEF IInv, Closing
  <2>2. \A s \in Sessions : Exists(s) => closed[s]
    BY <1>1, <2>1, Facts, Zenon DEF IInv, OneLiveStream
  <2>3. ASSUME NEW c \in Channels, "server" \in up[c], act[c] \notin {"dropped", "leaked"}
        PROVE  op[sidOf[c]] = "linkClose"
    <3>1. act[c] \in Linked /\ act[c] \in Bound
      BY <1>1, <2>1, <2>3, Zenon DEF IInv, Types, Links, Linked, Handshaking
    <3>2. linkPeer[sidOf[c]] = c /\ Known(sidOf[c])
      BY <1>1, <2>3, <3>1, Zenon DEF IInv, Links, Existing
    <3>3. ~linkClosed[sidOf[c]] /\ sidOf[c] \in Sessions
      BY <1>1, <3>2, Facts, Zenon DEF IInv, Links, Known
    <3>4. QED
      BY <1>1, <2>1, <3>2, <3>3, Facts, Zenon DEF IInv, Unlisted
  <2>4. QED
    BY <2>1, <2>2, <2>3, Zenon DEF CloseIsFinal
<1>2. IInv => CloseIsFinal
  BY <1>1, Zenon DEF CloseIsFinal
<1>3. QED
  BY <1>2, Invariance, PTL
==============================================================================

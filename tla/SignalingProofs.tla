--------------------------- MODULE SignalingProofs ---------------------------
(***************************************************************************)
(* The handshake limits of the listener: HandshakesCounted of Signaling,   *)
(* for any trackers, scenarios and limits.                                 *)
(*                                                                         *)
(* The counters are the numbers of goroutines at work, in all and for each *)
(* remote peer.  beginHandshake and the start of the goroutine, and its    *)
(* end and endHandshake, change both by one; nothing else touches them.    *)
(***************************************************************************)
EXTENDS Signaling, FiniteSetTheorems, TLAPS

Remotes == {"client", "other"}
handlers == <<answering, handshakes, peerHandshakes>>

\* A goroutine has a place and an attempt, and the counters are numbers.
Goroutines ==
    /\ answering = [h \in Slots |-> answering[h]]
    /\ \A h \in Slots : answering[h] = [pc |-> answering[h].pc, sid |-> answering[h].sid]
Types == Goroutines /\ handshakes \in Nat /\ peerHandshakes \in [Remotes -> Nat]

IInv == Types /\ HandshakesCounted

LEMMA BusyFinite ==
    ASSUME NEW r
    PROVE  IsFiniteSet(Busy(r)) /\ Cardinality(Busy(r)) \in Nat
<1>1. IsFiniteSet(Slots)
  BY SignalingAssumption, FS_Interval DEF Slots
<1>2. QED
  BY <1>1, FS_Subset, FS_CardinalityType, Zenon DEF Busy

LEMMA FromRemotes == \A s : From(s) \in Remotes
BY Zenon DEF From, Remotes

\* The places of the goroutines, after one of them has moved.
LEMMA Moved ==
    ASSUME Goroutines, NEW h \in Slots, NEW p, NEW s,
           answering' = [answering EXCEPT ![h] = [pc |-> p, sid |-> s]]
    PROVE  /\ Goroutines' /\ answering'[h].pc = p /\ answering'[h].sid = s
           /\ \A g \in Slots : g # h => answering'[g] = answering[g]
<1>1. /\ answering'[h] = [pc |-> p, sid |-> s]
      /\ \A g \in Slots : g # h => answering'[g] = answering[g]
  BY Zenon DEF Goroutines
<1>2. \A g \in Slots : answering'[g] = [pc |-> answering'[g].pc, sid |-> answering'[g].sid]
  BY <1>1, Zenon DEF Goroutines
<1>3. answering' = [g \in Slots |-> answering'[g]]
  BY Zenon DEF Goroutines
<1>4. QED
  BY <1>1, <1>2, <1>3, Zenon DEF Goroutines

------------------------------------------------------------------------------
\* beginHandshake, and the goroutine that it allows.
LEMMA Begins ==
    ASSUME IInv, NEW h \in Slots, NEW s, answering[h].pc = "idle", beginHandshake(From(s)),
           answering' = [answering EXCEPT ![h] = [pc |-> "answer", sid |-> s]],
           handshakes' = handshakes + 1,
           peerHandshakes' = [peerHandshakes EXCEPT ![From(s)] = @ + 1]
    PROVE  IInv'
<1> DEFINE r == From(s)
<1>1. r \in Remotes
  BY FromRemotes, Zenon
<1> HIDE DEF r
<1>2. /\ peerHandshakes' \in [Remotes -> Nat] /\ peerHandshakes'[r] = peerHandshakes[r] + 1
      /\ \A q \in Remotes : q # r => peerHandshakes'[q] = peerHandshakes[q]
  BY <1>1 DEF IInv, Types, r
<1>3. /\ Goroutines' /\ answering'[h].pc = "answer" /\ answering'[h].sid = s
      /\ \A g \in Slots : g # h => answering'[g] = answering[g]
  BY Moved, Zenon DEF IInv, Types
<1>4. handshakes' \in Nat
  BY DEF IInv, Types
<1>5. Types'
  BY <1>2, <1>3, <1>4, Zenon DEF Types
<1>6. Busy(r)' = Busy(r) \cup {h} /\ h \notin Busy(r)
  BY <1>3, Zenon DEF Busy, r
<1>7. \A q \in Remotes : q # r => Busy(q)' = Busy(q)
  BY <1>3, Zenon DEF Busy, r
<1>8. Cardinality(Busy(r)') = Cardinality(Busy(r)) + 1
  <2>1. Cardinality(Busy(r) \cup {h}) = IF h \in Busy(r) THEN Cardinality(Busy(r)) ELSE Cardinality(Busy(r)) + 1
    BY BusyFinite, FS_AddElement, Zenon
  <2>2. QED
    BY <1>6, <2>1, Zenon
<1>9. \A q \in Remotes : peerHandshakes'[q] = Cardinality(Busy(q)')
  BY <1>2, <1>7, <1>8, Zenon DEF IInv, HandshakesCounted, Remotes
<1>10. peerHandshakes[r] + 1 <= maxConcurrentHandshakesPeer /\ handshakes + 1 <= maxConcurrentHandshakes
  BY <1>1, SignalingAssumption DEF beginHandshake, IInv, Types, r
<1>11. \A q \in Remotes : peerHandshakes'[q] <= maxConcurrentHandshakesPeer
  BY <1>2, <1>10, Zenon DEF IInv, HandshakesCounted, Remotes
<1>12. handshakes' = peerHandshakes'["client"] + peerHandshakes'["other"]
  BY <1>1, <1>2 DEF IInv, Types, HandshakesCounted, Remotes
<1>13. QED
  BY <1>5, <1>9, <1>10, <1>11, <1>12, Zenon DEF IInv, HandshakesCounted, Remotes

\* endHandshake, deferred by a goroutine at work.
LEMMA Ends ==
    ASSUME IInv, NEW h \in Slots, answering[h].pc # "idle", endHandshake(h)
    PROVE  IInv'
<1>1. PICK r \in Remotes : r = From(answering[h].sid)
  BY FromRemotes, Zenon
<1>2. r \in Remotes /\ h \in Busy(r)
  BY <1>1, Zenon DEF Busy
<1>3. answering' = [answering EXCEPT ![h] = [pc |-> "idle", sid |-> 0]] /\ handshakes' = handshakes - 1
      /\ peerHandshakes' = [peerHandshakes EXCEPT ![r] = @ - 1]
  BY <1>1, Zenon DEF endHandshake, Idle
<1>4. /\ Goroutines' /\ answering'[h].pc = "idle"
      /\ \A g \in Slots : g # h => answering'[g] = answering[g]
  BY <1>3, Moved, Zenon DEF IInv, Types
<1>5. Busy(r)' = Busy(r) \ {h}
  BY <1>4, Zenon DEF Busy
<1>6. \A q \in Remotes : q # r => Busy(q)' = Busy(q)
  BY <1>1, <1>4, Zenon DEF Busy
<1>7. Cardinality(Busy(r)') = Cardinality(Busy(r)) - 1 /\ Cardinality(Busy(r)') \in Nat
  <2>1. IsFiniteSet(Busy(r) \ {h})
        /\ Cardinality(Busy(r) \ {h}) = IF h \in Busy(r) THEN Cardinality(Busy(r)) - 1 ELSE Cardinality(Busy(r))
    BY BusyFinite, FS_RemoveElement, Zenon
  <2>2. Cardinality(Busy(r) \ {h}) \in Nat
    BY <2>1, FS_CardinalityType, Zenon
  <2>3. QED
    BY <1>2, <1>5, <2>1, <2>2, Zenon
<1>8. peerHandshakes[r] - 1 \in Nat
  BY <1>2, <1>7, Zenon DEF IInv, HandshakesCounted, Remotes
<1>9. /\ peerHandshakes' \in [Remotes -> Nat] /\ peerHandshakes'[r] = peerHandshakes[r] - 1
      /\ \A q \in Remotes : q # r => peerHandshakes'[q] = peerHandshakes[q]
  BY <1>2, <1>3, <1>8, Zenon DEF IInv, Types
<1>10. \A q \in Remotes : peerHandshakes'[q] = Cardinality(Busy(q)')
  BY <1>6, <1>7, <1>9, Zenon DEF IInv, HandshakesCounted, Remotes
<1>11. \A q \in Remotes : peerHandshakes'[q] <= maxConcurrentHandshakesPeer
  BY <1>2, <1>9, SignalingAssumption DEF IInv, Types, HandshakesCounted, Remotes
<1>12. /\ handshakes' = peerHandshakes'["client"] + peerHandshakes'["other"]
       /\ handshakes' \in Nat /\ handshakes' <= maxConcurrentHandshakes
  BY <1>2, <1>3, <1>9, SignalingAssumption DEF IInv, Types, HandshakesCounted, Remotes
<1>13. Types'
  BY <1>4, <1>9, <1>12, Zenon DEF Types
<1>14. QED
  BY <1>10, <1>11, <1>12, <1>13, Zenon DEF IInv, HandshakesCounted, Remotes

\* The answer is published: the goroutine is still at work for the same attempt.
LEMMA Publishes ==
    ASSUME IInv, NEW h \in Slots, PublishAnswer(h)
    PROVE  IInv'
<1>1. /\ answering[h].pc = "answer" /\ UNCHANGED <<handshakes, peerHandshakes>>
      /\ answering' = [answering EXCEPT ![h].pc = "auth"]
  BY Zenon DEF PublishAnswer
<1>2. /\ answering' = [answering EXCEPT ![h] = [answering[h] EXCEPT !.pc = "auth"]]
      /\ answering[h] = [pc |-> answering[h].pc, sid |-> answering[h].sid]
  BY <1>1, Zenon DEF IInv, Types, Goroutines
<1>3. [answering[h] EXCEPT !.pc = "auth"] = [pc |-> "auth", sid |-> answering[h].sid]
  BY <1>2
<1>4. answering' = [answering EXCEPT ![h] = [pc |-> "auth", sid |-> answering[h].sid]]
  BY <1>2, <1>3, Zenon
<1>5. /\ Goroutines' /\ answering'[h].pc = "auth" /\ answering'[h].sid = answering[h].sid
      /\ \A g \in Slots : g # h => answering'[g] = answering[g]
  BY <1>4, Moved, Zenon DEF IInv, Types
<1>6. Types'
  BY <1>1, <1>5, Zenon DEF IInv, Types
<1>7. \A r \in Remotes : Busy(r)' = Busy(r)
  BY <1>1, <1>5 DEF Busy
<1>8. QED
  BY <1>1, <1>6, <1>7, Zenon DEF IInv, HandshakesCounted, Remotes

LEMMA Quiet ==
    ASSUME IInv, UNCHANGED handlers
    PROVE  IInv'
<1>1. \A r : Busy(r)' = Busy(r)
  BY Zenon DEF Busy, handlers
<1>2. QED
  BY <1>1, Zenon DEF IInv, Types, Goroutines, HandshakesCounted, handlers

------------------------------------------------------------------------------
LEMMA Initial == Init => IInv
<1> SUFFICES ASSUME Init PROVE IInv
  BY Zenon
<1>1. Types
  BY Zenon DEF Init, Types, Goroutines, Idle, Remotes
<1>2. \A r \in Remotes : Busy(r) = {}
  BY Zenon DEF Init, Busy, Idle
<1>3. \A r \in Remotes : peerHandshakes[r] = 0 /\ Cardinality(Busy(r)) = 0
  <2>1. \A r \in Remotes : Cardinality(Busy(r)) = 0
    BY <1>2, FS_EmptySet, Zenon
  <2>2. QED
    BY <2>1, Zenon DEF Init, Remotes
<1>4. QED
  BY <1>1, <1>3, SignalingAssumption DEF IInv, HandshakesCounted, Init, Remotes

LEMMA Inductive == IInv /\ [Next]_vars => IInv'
<1> SUFFICES ASSUME IInv, [Next]_vars PROVE IInv'
  BY Zenon
<1>1. CASE UNCHANGED vars
  BY <1>1, Quiet, Zenon DEF vars, peers, handlers
<1>2. ASSUME NEW p, CloseSession(p) PROVE IInv'
  BY <1>2, Quiet, Zenon DEF CloseSession, TorrentClose, NostrClose, Closing, peers, handlers
<1>3. ASSUME NEW p \in Peers, NEW u \in Trackers, Looping(p, u) \/ Break(p, u) \/ OtherOffer(p, u) PROVE IInv'
  BY <1>3, Quiet, Zenon DEF Looping, Dial, Connected, ReadFails, Push, Break, OtherOffer, peers, handlers
<1>4. ASSUME NEW p \in Peers, NEW u \in Trackers, NEW s \in Signals,
             receive(p, u, s) \/ Ignore(p, u, s) \/ subscribe(p, u, s)
      PROVE  IInv'
  BY <1>4, Quiet, Zenon DEF receive, Ignore, subscribe, Received, Taken, peers, handlers
<1>5. CASE \E u \in Trackers : Tick(u)
  BY <1>5, Quiet, Zenon DEF Tick, peers, handlers
<1>6. CASE \E m \in net : Lose(m)
  BY <1>6, Quiet, Zenon DEF Lose, peers, handlers
<1>7. CASE StartOffer \/ NostrOffer \/ AwaitAnswer \/ DialFails
  BY <1>7, Quiet, Zenon DEF StartOffer, NostrOffer, Dialling, AwaitAnswer, DialFails, handlers
<1>8. ASSUME NEW h \in Slots, TakeEvent(h) PROVE IInv'
  <2> DEFINE s == Head(events["listener"])
  <2>1. CASE UNCHANGED handlers
    BY <2>1, Quiet, Zenon
  <2>2. CASE ~UNCHANGED handlers
    <3>1. /\ beginHandshake(From(s.sid)) /\ answering[h].pc = "idle"
          /\ answering' = [answering EXCEPT ![h] = [pc |-> "answer", sid |-> s.sid]]
          /\ handshakes' = handshakes + 1
          /\ peerHandshakes' = [peerHandshakes EXCEPT ![From(s.sid)] = @ + 1]
      BY <1>8, <2>2, Zenon DEF TakeEvent, handlers
    <3> HIDE DEF s
    <3>2. QED
      BY <3>1, Begins, Zenon
  <2>3. QED
    BY <2>1, <2>2, Zenon
<1>9. ASSUME NEW h \in Slots, Answering(h) PROVE IInv'
  <2>1. CASE AnswerFails(h)
    BY <2>1, Ends, Zenon DEF AnswerFails
  <2>2. CASE Authenticated(h)
    BY <2>2, Ends DEF Authenticated
  <2>3. QED
    BY <1>9, <2>1, <2>2, Publishes, Zenon DEF Answering
<1>10. QED
  BY <1>1, <1>2, <1>3, <1>4, <1>5, <1>6, <1>7, <1>8, <1>9, Zenon DEF Next

\* HandshakesCounted: the counters of beginHandshake and endHandshake are exact and
\* within their limits, however offers, failures and successes interleave.
THEOREM HandshakesCountedHolds == Spec => []HandshakesCounted
<1>1. IInv => HandshakesCounted
  BY Zenon DEF IInv
<1>2. QED
  BY <1>1, Initial, Inductive, PTL DEF Spec
==============================================================================

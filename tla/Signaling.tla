------------------------------ MODULE Signaling -------------------------------
(***************************************************************************)
(* nativewebrtc/torrent.go, nostr.go and signaling.go: how an offer finds  *)
(* the listener and its answer the client, with the handshake limits of    *)
(* nativewebrtc/endpoint.go.                                               *)
(*                                                                         *)
(* A session keeps a WebSocket to each tracker.  A client stores its offer *)
(* and announces it to all of them, again and again; the listener answers  *)
(* through the tracker that brought the offer.  The trackers drop what     *)
(* they like, and connections break.  The Nostr session has relays in      *)
(* place of trackers, and publishes once.                                  *)
(*                                                                         *)
(* A signal is its type and its attempt (SessionID), which tells the two   *)
(* peers too; attempt 0 is another client of the same room.  The rest of   *)
(* what prepareOutgoing writes follows from the sender's token and clock.  *)
(***************************************************************************)
EXTENDS Naturals, Sequences, FiniteSets

CONSTANTS Trackers,
          Scenarios,                \* one is chosen at the start: the medium, and bounds on
                                    \* the client's dials (attempts), broken connections and
                                    \* lost signals (faults), offers of another client per
                                    \* peer (others), the peers that close (closers), the
                                    \* tokens and clocks of the peers, and the peers whose
                                    \* sessions are connected (ready)
          signalTTL,                \* allowed difference of clocks
          EventDepth,               \* capacity of the channel events (64)
          maxConcurrentHandshakes,
          maxConcurrentHandshakesPeer

Peers == {"client", "listener"}
Slots == 1 .. maxConcurrentHandshakes + 1   \* goroutines that answer an offer
None == [type |-> "none", sid |-> 0]
Sids == UNION {0 .. b.attempts : b \in Scenarios}   \* attempts of the client
Signals == [type : {"offer", "answer", "bye", "junk"}, sid : Sids]

ASSUME SignalingAssumption ==
    /\ EventDepth \in Nat \ {0}
    /\ maxConcurrentHandshakes \in Nat /\ maxConcurrentHandshakesPeer \in Nat
    /\ \A b \in Scenarios :
          /\ b.medium \in {"torrent", "nostr"} /\ b.closers \subseteq Peers
          /\ b.ready \subseteq Peers
          /\ b.attempts \in Nat /\ b.faults \in Nat /\ b.others \in [Peers -> Nat]
          /\ b.clocks \in [Peers -> Nat]

VARIABLES
    budget,    \* the scenario, and what is left of its bounds
    loop,      \* per peer and tracker: connectLoop (or subscribe)
    entry,     \* per peer and tracker: entry.socket is set
    alive,     \* per peer and tracker: the connection is open
    pending,   \* per peer and tracker: the signal receive is handing to events
    closing,   \* per peer: "no", "cancelled" (the context has ended), "closed"
    events,    \* per peer: the channel
    offers,    \* the client's stored offers
    origins,   \* per attempt: the tracker that brought its offer to the listener
    seen,      \* per peer: the signals passed on so far
    net,       \* signals held by a tracker for a peer
    client,    \* the client's dial: its place and its attempt
    answering, \* per goroutine of the listener: its place and its attempt
    handshakes, peerHandshakes

sockets == <<loop, entry, alive, pending>>
tables == <<offers, origins, seen>>
peers == <<client, answering, handshakes, peerHandshakes>>
vars == <<budget, sockets, closing, events, tables, net, peers>>
medium == budget.medium

From(sid) == IF sid = 0 THEN "other" ELSE "client"
Idle == [pc |-> "idle", sid |-> 0]

\* NewTorrentSession and NewNostrSession: the listener has been up for a while; the
\* client's session is new, or used before when a lost connection is dialled again.
Init ==
    /\ budget \in Scenarios
    /\ loop = [p \in Peers |-> [u \in Trackers |-> 
                IF medium = "nostr" \/ p \in budget.ready THEN "read" ELSE "dial"]]
    /\ alive = [p \in Peers |-> [u \in Trackers |-> medium = "nostr" \/ p \in budget.ready]]
    /\ entry = alive
    /\ pending = [p \in Peers |-> [u \in Trackers |-> None]]
    /\ closing = [p \in Peers |-> "no"] /\ events = [p \in Peers |-> <<>>]
    /\ offers = {} /\ origins = [s \in Sids |-> {}]
    /\ seen = [p \in Peers |-> {}] /\ net = {}
    /\ client = Idle /\ answering = [h \in Slots |-> Idle]
    /\ handshakes = 0 /\ peerHandshakes = [r \in {"client", "other"} |-> 0]

------------------------------------------------------------------------------
\* signaling.go: the room of a token, and a signal as it is written and opened.  A
\* sealed signal is bound to its other fields; a tracker's plain one is completed by
\* the receiver (trackerIncoming), with its own clock.
Token(p) == budget.tokens[p]
SignalingRoomTopic(p) == <<"room", Token(p)>>
Sender(s) == IF s.type = "answer" THEN "listener" ELSE From(s.sid)
prepareOutgoing(s) ==
    LET p == IF s.type = "answer" THEN "listener" ELSE "client" IN
    [type |-> s.type, room |-> SignalingRoomTopic(p), encrypted |-> Token(p), createdAt |-> budget.clocks[p],
     from |-> Sender(s), to |-> IF s.type = "answer" THEN From(s.sid) ELSE "anybody"]
trackerIncoming(p, m) ==
    IF medium = "torrent" /\ m.encrypted = "none"
    THEN [m EXCEPT !.room = SignalingRoomTopic(p), !.createdAt = budget.clocks[p], !.to = p] ELSE m
Since(a, b) == IF a < b THEN b - a ELSE a - b
\* Mutant: a signal as old as signalTTL is refused.
openIncomingStrict(p, m) ==
    /\ Token(p) # "none" => m.encrypted = Token(p)
    /\ m.room = SignalingRoomTopic(p) /\ m.from # p /\ m.to \in {"anybody", p}
    /\ Since(m.createdAt, budget.clocks[p]) < signalTTL
    /\ m.type \in {"offer", "answer", "bye"}
openIncoming(p, m) ==
    /\ Token(p) # "none" => m.encrypted = Token(p)
    /\ m.room = SignalingRoomTopic(p) /\ m.from # p /\ m.to \in {"anybody", p}
    /\ Since(m.createdAt, budget.clocks[p]) <= signalTTL
    /\ m.type \in {"offer", "answer", "bye"}
opens(p, s) == openIncoming(p, trackerIncoming(p, prepareOutgoing(s)))

\* torrentSocket.write: a signal written to an open connection is with the tracker,
\* for the peers of the room (TorrentInfoHash, or the event's tag); one written to a
\* connection that is broken, but not known to be, is lost.
Carried(p, to, us, sigs) ==
    {[u |-> u, to |-> to, sig |-> s] :
        u \in {v \in us : entry[p][v] /\ alive[p][v] /\ Token(p) = Token(to)}, s \in sigs}
Stored(os) == {[type |-> "offer", sid |-> s] : s \in os}
announcePayload(us, os) == Carried("client", "listener", us, Stored(os))

------------------------------------------------------------------------------
\* connectLoop.
Dial(p, u) ==
    /\ loop[p][u] = "dial"
    /\ \/ /\ closing[p] = "no"
          /\ loop' = [loop EXCEPT ![p][u] = "dialled"]
          /\ alive' = [alive EXCEPT ![p][u] = TRUE]
       \/ /\ closing[p] # "no"
          /\ loop' = [loop EXCEPT ![p][u] = "ended"] /\ UNCHANGED alive
    /\ UNCHANGED <<budget, entry, pending, closing, events, tables, net, peers>>

announced(u) ==
    {[u |-> u, to |-> "listener", sig |-> s] :
        s \in {o \in Stored(offers) : alive["client"][u] /\ Token("client") = Token("listener")}}

\* Mutant: the loop reads without looking at the context.
ConnectedUnchecked(p, u) ==
    /\ loop[p][u] = "dialled"
    /\ loop' = [loop EXCEPT ![p][u] = "read"] /\ entry' = [entry EXCEPT ![p][u] = TRUE]
    /\ net' = IF p = "client" THEN net \cup announced(u) ELSE net
    /\ UNCHANGED <<budget, alive, pending, closing, events, tables, peers>>

\* The socket is stored and the offers announced; the loop reads unless the
\* context has ended meanwhile.
Connected(p, u) ==
    /\ loop[p][u] = "dialled"
    /\ \/ /\ closing[p] = "no"
          /\ loop' = [loop EXCEPT ![p][u] = "read"]
          /\ entry' = [entry EXCEPT ![p][u] = TRUE] /\ UNCHANGED alive
          /\ net' = IF p = "client" THEN net \cup announced(u) ELSE net
       \/ /\ closing[p] # "no"
          /\ loop' = [loop EXCEPT ![p][u] = "dial"]
          /\ alive' = [alive EXCEPT ![p][u] = FALSE] /\ UNCHANGED <<entry, net>>
    /\ UNCHANGED <<budget, pending, closing, events, tables, peers>>

\* ReadJSON fails: the connection is closed and dialled again after a pause.
ReadFails(p, u) ==
    /\ loop[p][u] = "read" /\ ~alive[p][u]
    /\ loop' = [loop EXCEPT ![p][u] = IF medium = "nostr" THEN "ended" ELSE "dial"]
    /\ entry' = [entry EXCEPT ![p][u] = FALSE]
    /\ UNCHANGED <<budget, alive, pending, closing, events, tables, net, peers>>

\* The ticker's announcement.
Tick(u) ==
    /\ medium = "torrent" /\ loop["client"][u] \in {"read", "push"}
    /\ net' = net \cup announcePayload({u}, offers)
    /\ UNCHANGED <<budget, sockets, closing, events, tables, peers>>

\* receive records where an offer came from, and takes an answered offer out of the
\* announcements.  It drops what is neither, an answer to an offer that is not
\* stored, and a signal that it passed on less than five seconds ago (one seen at
\* all may or may not be that recent).
Taken(p, u, s) ==
    /\ loop[p][u] = "read" /\ alive[p][u] /\ [u |-> u, to |-> p, sig |-> s] \in net
    /\ net' = net \ {[u |-> u, to |-> p, sig |-> s]}
    /\ UNCHANGED <<budget, entry, alive, closing, events, peers>>
Received(p, u, s) ==
    /\ medium = "torrent" /\ Taken(p, u, s)
    /\ origins' = IF p = "listener" /\ s.type = "offer" THEN [origins EXCEPT ![s.sid] = {u}] ELSE origins
    /\ offers' = IF s.type = "answer" THEN offers \ {s.sid} ELSE offers

expected(s) == s.type = "offer" \/ (s.type = "answer" /\ s.sid \in offers)

Pass(p, u, s) ==
    /\ seen' = [seen EXCEPT ![p] = @ \cup {s}]
    /\ loop' = [loop EXCEPT ![p][u] = "push"]
    /\ pending' = [pending EXCEPT ![p][u] = s]

receive(p, u, s) == Received(p, u, s) /\ expected(s) /\ opens(p, s) /\ Pass(p, u, s)

Ignore(p, u, s) ==
    /\ Received(p, u, s) /\ (~expected(s) \/ ~opens(p, s) \/ s \in seen[p])
    /\ UNCHANGED <<seen, loop, pending>>

\* The Nostr session: the pool drops an event that a second relay brings (seen), and
\* the loop one that does not open.
subscribe(p, u, s) ==
    /\ medium = "nostr" /\ \A v \in Trackers : loop[p][v] # "push"
    /\ Taken(p, u, s) /\ UNCHANGED <<origins, offers>>
    /\ \/ s \notin seen[p] /\ opens(p, s) /\ Pass(p, u, s)
       \/ (s \in seen[p] \/ ~opens(p, s)) /\ UNCHANGED <<seen, loop, pending>>

\* The send to events, which waits while the channel is full.
Push(p, u) ==
    /\ loop[p][u] = "push"
    /\ \/ /\ Len(events[p]) < EventDepth
          /\ events' = [events EXCEPT ![p] = Append(@, pending[p][u])]
       \/ closing[p] # "no" /\ UNCHANGED events
    /\ loop' = [loop EXCEPT ![p][u] = "read"]
    /\ pending' = [pending EXCEPT ![p][u] = None]
    /\ UNCHANGED <<budget, entry, alive, closing, tables, net, peers>>

\* Close: the context first, then the sockets it finds; the Nostr session's pool
\* closes all it has.
Closing(p) ==
    /\ net' = {m \in net : m.to # p} /\ seen' = [seen EXCEPT ![p] = {}]
    /\ UNCHANGED <<budget, loop, pending, events, offers, origins, peers>>
TorrentClose(p) ==
    /\ medium = "torrent" /\ Closing(p)
    /\ \/ /\ closing[p] = "no" /\ closing' = [closing EXCEPT ![p] = "cancelled"]
          /\ UNCHANGED <<alive, entry>>
       \/ /\ closing[p] = "cancelled" /\ closing' = [closing EXCEPT ![p] = "closed"]
          /\ alive' = [alive EXCEPT ![p] = [u \in Trackers |-> @[u] /\ ~entry[p][u]]]
          /\ entry' = [entry EXCEPT ![p] = [u \in Trackers |-> FALSE]]
NostrClose(p) ==
    /\ medium = "nostr" /\ Closing(p)
    /\ closing[p] = "no" /\ closing' = [closing EXCEPT ![p] = "closed"]
    /\ alive' = [alive EXCEPT ![p] = [u \in Trackers |-> FALSE]]
    /\ entry' = [entry EXCEPT ![p] = [u \in Trackers |-> FALSE]]
CloseSession(p) == TorrentClose(p) \/ NostrClose(p)

\* The environment: a connection breaks, a tracker loses a signal, and another
\* client's offer comes in, or something that is no signal at all.
Break(p, u) ==
    /\ budget.faults > 0 /\ budget' = [budget EXCEPT !.faults = @ - 1]
    /\ medium = "torrent" /\ alive[p][u] /\ loop[p][u] # "dialled"
    /\ alive' = [alive EXCEPT ![p][u] = FALSE]
    /\ UNCHANGED <<loop, entry, pending, closing, events, tables, net, peers>>

Lose(m) ==
    /\ budget.faults > 0 /\ budget' = [budget EXCEPT !.faults = @ - 1]
    /\ m \in net /\ net' = net \ {m}
    /\ UNCHANGED <<sockets, closing, events, tables, peers>>

OtherOffer(p, u) ==
    /\ budget.others[p] > 0 /\ budget' = [budget EXCEPT !.others[p] = @ - 1]
    /\ \E y \in {"offer", "junk"} :
          net' = net \cup {[u |-> u, to |-> p, sig |-> [type |-> y, sid |-> 0]]}
    /\ UNCHANGED <<sockets, closing, events, tables, peers>>

------------------------------------------------------------------------------
\* Publish of the Nostr session: the first relay that takes the event ends it and
\* cancels the rest, so some of them have it; after eight seconds it fails.
NostrPublish(p, to, s) ==
    \E us \in SUBSET Trackers : us # {} /\ net' = net \cup Carried(p, to, us, {s})

\* dialAuthenticatedPeer: Publish stores the offer and announces it, and fails when
\* no tracker is connected; a failed dial says bye, which removes the offer.
SomeSocket(p) == \E u \in Trackers : entry[p][u]
Dialling ==
    /\ client.pc \in {"idle", "failed"} /\ client.sid < budget.attempts /\ closing["client"] = "no"
    /\ UNCHANGED <<sockets, closing, events, origins, seen, answering, handshakes, peerHandshakes>>

StartOffer ==
    /\ medium = "torrent" /\ Dialling /\ UNCHANGED budget
    /\ LET sid == client.sid + 1 IN
       \/ /\ SomeSocket("client")
          /\ client' = [pc |-> "waiting", sid |-> sid]
          /\ offers' = offers \cup {sid} /\ net' = net \cup announcePayload(Trackers, offers')
       \/ /\ ~SomeSocket("client")
          /\ client' = [pc |-> "failed", sid |-> sid] /\ UNCHANGED <<offers, net>>

NostrOffer ==
    /\ medium = "nostr" /\ Dialling /\ UNCHANGED offers
    /\ LET sid == client.sid + 1 IN
       \/ /\ client' = [pc |-> "waiting", sid |-> sid] /\ UNCHANGED budget
          /\ NostrPublish("client", "listener", [type |-> "offer", sid |-> sid])
       \/ /\ budget.faults > 0 /\ budget' = [budget EXCEPT !.faults = @ - 1]
          /\ client' = [pc |-> "failed", sid |-> sid] /\ UNCHANGED net

\* Other signals are read and dropped.
AwaitAnswer ==
    /\ client.pc = "waiting" /\ events["client"] # <<>>
    /\ events' = [events EXCEPT !["client"] = Tail(@)]
    /\ client' = IF Head(events["client"]) = [type |-> "answer", sid |-> client.sid]
                 THEN [client EXCEPT !.pc = "connecting"] ELSE client
    /\ UNCHANGED <<budget, sockets, closing, tables, net, answering, handshakes, peerHandshakes>>

DialFails ==
    /\ client.pc \in {"waiting", "connecting"}
    /\ client' = [client EXCEPT !.pc = "failed"]
    /\ offers' = offers \ {client.sid}
    /\ \/ medium = "torrent" /\ net' = net \cup announcePayload(Trackers, offers')
       \/ medium = "nostr" /\ NostrPublish("client", "listener", [type |-> "bye", sid |-> client.sid])
    /\ UNCHANGED <<budget, sockets, closing, events, origins, seen, answering, handshakes,
                   peerHandshakes>>

------------------------------------------------------------------------------
\* The listener's loop over Events, and beginHandshake.
beginHandshake(r) ==
    /\ handshakes < maxConcurrentHandshakes
    /\ peerHandshakes[r] < maxConcurrentHandshakesPeer

TakeEvent(h) ==
    /\ events["listener"] # <<>> /\ closing["listener"] = "no"
    /\ events' = [events EXCEPT !["listener"] = Tail(@)]
    /\ LET s == Head(events["listener"]) r == From(s.sid) IN
       \/ /\ s.type = "offer" /\ beginHandshake(r)
          /\ answering[h].pc = "idle" /\ \A g \in 1 .. h - 1 : answering[g].pc # "idle"
          /\ answering' = [answering EXCEPT ![h] = [pc |-> "answer", sid |-> s.sid]]
          /\ handshakes' = handshakes + 1
          /\ peerHandshakes' = [peerHandshakes EXCEPT ![r] = @ + 1]
       \/ ~(s.type = "offer" /\ beginHandshake(r)) /\ h = 1 /\ UNCHANGED <<answering, handshakes, peerHandshakes>>
    /\ UNCHANGED <<budget, sockets, closing, tables, net, client>>

\* Mutant: the remote peer's own count is not decremented.
endHandshakePeerKept(h) ==
    /\ answering' = [answering EXCEPT ![h] = Idle]
    /\ handshakes' = handshakes - 1 /\ UNCHANGED peerHandshakes

endHandshake(h) ==
    /\ answering' = [answering EXCEPT ![h] = Idle]
    /\ handshakes' = handshakes - 1
    /\ peerHandshakes' = [peerHandshakes EXCEPT ![From(answering[h].sid)] = @ - 1]

\* answerNativeOffer publishes the answer to the tracker the offer came from, or to
\* all of them when that is not known.  What another client is sent is its own affair.
Targets(sid) == IF origins[sid] = {} THEN Trackers ELSE origins[sid]
PublishAnswer(h) ==
    /\ answering[h].pc = "answer"
    /\ answering' = [answering EXCEPT ![h].pc = "auth"]
    /\ LET sid == answering[h].sid  s == [type |-> "answer", sid |-> sid] IN
       \/ sid = 0 /\ (\E u \in Targets(sid) : entry["listener"][u]) /\ UNCHANGED net
       \/ /\ sid # 0 /\ medium = "torrent" /\ \E u \in Targets(sid) : entry["listener"][u]
          /\ net' = net \cup Carried("listener", "client", Targets(sid), {s})
       \/ sid # 0 /\ medium = "nostr" /\ NostrPublish("listener", "client", s)
    /\ UNCHANGED <<budget, sockets, closing, events, tables, client, handshakes, peerHandshakes>>

\* It cannot be made or published, or authentication does not come within 20
\* seconds: bye, which also forgets the origin.
AnswerFails(h) ==
    /\ \/ answering[h].pc = "auth" /\ UNCHANGED budget
       \/ /\ answering[h].pc = "answer" /\ UNCHANGED budget
          /\ \A u \in Targets(answering[h].sid) : ~entry["listener"][u] \/ ~alive["listener"][u]
       \/ /\ answering[h].pc = "answer" /\ budget.faults > 0
          /\ budget' = [budget EXCEPT !.faults = @ - 1]
    /\ endHandshake(h)
    /\ origins' = [origins EXCEPT ![answering[h].sid] = {}]
    /\ UNCHANGED <<sockets, closing, events, offers, seen, net, client>>

\* The data channel opens, and both sides authenticate: the listener activates.
Authenticated(h) ==
    /\ client.pc = "connecting"
    /\ answering[h] = [pc |-> "auth", sid |-> client.sid]
    /\ client' = [client EXCEPT !.pc = "connected"]
    /\ endHandshake(h)
    /\ UNCHANGED <<budget, sockets, closing, events, tables, net>>

------------------------------------------------------------------------------
Looping(p, u) == Dial(p, u) \/ Connected(p, u) \/ ReadFails(p, u) \/ Push(p, u)
Answering(h) == PublishAnswer(h) \/ AnswerFails(h) \/ Authenticated(h)

Next ==
    \/ \E p \in budget.closers : CloseSession(p)
    \/ \E p \in Peers, u \in Trackers :
          \/ Looping(p, u) \/ Break(p, u) \/ OtherOffer(p, u)
          \/ \E s \in Signals : receive(p, u, s) \/ Ignore(p, u, s) \/ subscribe(p, u, s)
    \/ \E u \in Trackers : Tick(u)
    \/ \E m \in net : Lose(m)
    \/ StartOffer \/ NostrOffer \/ AwaitAnswer \/ DialFails
    \/ \E h \in Slots : TakeEvent(h) \/ Answering(h)

Spec == Init /\ [][Next]_vars

\* Goroutines run, dials succeed in the end, timers and tickers go off, trackers
\* deliver what they do not lose, and Close comes to its end once it was called.
\* The client's own deadline (DialFails) may or may not come.
FairSpec ==
    /\ Spec
    /\ \A p \in Peers, u \in Trackers : WF_vars(Looping(p, u))
    /\ SF_vars(\E u \in Trackers, s \in Signals : receive("listener", u, s))
    /\ WF_vars(\E u \in Trackers, s \in Signals : receive("client", u, s))
    /\ WF_vars(\E p \in Peers : closing[p] = "cancelled" /\ CloseSession(p))
    /\ \A u \in Trackers : WF_vars(Tick(u))
    /\ WF_vars(AwaitAnswer) /\ WF_vars(\E h \in Slots : TakeEvent(h))
    /\ WF_vars(\E h \in Slots : Answering(h))

------------------------------------------------------------------------------
\* Types of the state.
TypeOK ==
    /\ \A p \in Peers, u \in Trackers :
          /\ loop[p][u] \in {"dial", "dialled", "read", "push", "ended"}
          /\ (pending[p][u] # None) = (loop[p][u] = "push")
    /\ \A p \in Peers : Len(events[p]) <= EventDepth /\ seen[p] \subseteq Signals
    /\ client.pc \in {"idle", "waiting", "connecting", "connected", "failed"}
    /\ offers \subseteq Sids /\ handshakes \in Nat

Busy(r) == {h \in Slots : answering[h].pc # "idle" /\ From(answering[h].sid) = r}

\* The handshake counters are exact in every interleaving of offers, failures and
\* successes, and the limits hold in all and for each remote peer.
HandshakesCounted ==
    /\ \A r \in {"client", "other"} :
          peerHandshakes[r] = Cardinality(Busy(r)) /\ peerHandshakes[r] <= maxConcurrentHandshakesPeer
    /\ handshakes = peerHandshakes["client"] + peerHandshakes["other"]
    /\ handshakes <= maxConcurrentHandshakes

\* After Close every goroutine of the session ends and no connection stays open,
\* one whose dial succeeded during Close included.
SocketsReleased ==
    <>[](\A p \in Peers : closing[p] # "no" =>
            \A u \in Trackers : loop[p][u] = "ended" /\ ~alive[p][u] /\ ~entry[p][u])

Reachable ==
    /\ Token("client") = Token("listener")
    /\ \/ Since(budget.clocks["client"], budget.clocks["listener"]) <= signalTTL
       \/ Token("client") = "none"

\* Announcements, origins and duplicates do not keep an answer from a waiting dial
\* for ever: broken connections and lost signals are made good.  The clocks may
\* differ by the whole of signalTTL, and by more when the trackers' signals are plain.
AnswerComes ==
    []<>(medium = "torrent" /\ Reachable =>
            client.pc # "waiting" \/ \E p \in Peers : closing[p] # "no")
==============================================================================

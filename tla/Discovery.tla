------------------------------ MODULE Discovery ------------------------------
(***************************************************************************)
(* The libp2p side of the program: how a node is configured, started and   *)
(* closed (p2p/node.go, relay/relay.go, internal/cli/node_config.go), how   *)
(* a listener makes itself known (provider records under rotating          *)
(* rendezvous epochs, GossipSub records, mDNS) and how a client finds and  *)
(* dials it.                                                               *)
(*                                                                         *)
(* A multiaddr is [ip, tr, circuit]: its address family, the transport it  *)
(* names and whether it continues with /p2p-circuit.  A configured         *)
(* multiaddr is [form, at]: "ok", "bad" (does not parse) or "nopeer"       *)
(* (parses, names no PeerId).  Time is in minutes.                         *)
(***************************************************************************)
EXTENDS Integers, Sequences, FiniteSets, SequencesExt

CONSTANTS
    Scenarios,      \* the configurations and environments to start from
    MaxAddrs,       \* maxPubSubAddresses
    Horizon         \* bound: minutes the clock runs past the start

VARIABLES
    scn,            \* the scenario, never changed
    faults,         \* bound: how many operations may still fail
    now,            \* the listener's clock
    node,           \* each node: how far New has come, and what it holds
    peerstore,      \* each node's addresses of each peer
    inbox,          \* records on the discovery topic, not yet read
    dht,            \* provider records
    adv,            \* the listener's Advertise loop
    call,           \* the client's openStream
    dialled         \* transports each node has dialled over

vars == <<scn, faults, now, node, peerstore, inbox, dht, adv, call, dialled>>

Nodes == {"server", "client"}
Peers == Nodes \union {"relay", "stranger"}
Addr(ip, tr) == [ip |-> ip, tr |-> tr, circuit |-> FALSE]
When(condition, value) == IF condition THEN <<value>> ELSE <<>>

----------------------------------------------------------------------------
(* Configuration: the callers of p2p.New.                                  *)

Has(o, flag) == flag \in o.flags
Family(o) == IF Has(o, "ipv4") THEN 4 ELSE IF Has(o, "ipv6") THEN 6 ELSE 0

PubSubDiscover(private) == ~private
nodeConfig(o, dhtServer, private) ==
    LET on(flag) == ~Has(o, flag) /\ ~Has(o, "tor")
    IN  [ip |-> Family(o), announce |-> o.announce, relays |-> o.relays,
         ws |-> FALSE, socks |-> o.socks,
         bootstrap |-> IF on("noDHT") THEN o.bootstrap ELSE <<>>,
         dht |-> on("noDHT"), mdns |-> on("noMDNS"), pubsub |-> on("noPubsub"),
         discover |-> PubSubDiscover(private),
         quic |-> on("noQUIC"), webrtc |-> on("noWebRTC"),
         listen |-> TRUE, dhtServer |-> dhtServer, relayServer |-> FALSE]

\* The relay command's node: no DHT, a WebSocket port, no WebRTC.
relayStart(o) ==
    [ip |-> Family(o), announce |-> o.announce, relays |-> <<>>, ws |-> ~Has(o, "noWS"),
     bootstrap |-> <<>>, dht |-> FALSE, mdns |-> ~Has(o, "noMDNS"),
     pubsub |-> ~Has(o, "noPubsub"), discover |-> ~Has(o, "noPubsub"),
     quic |-> ~Has(o, "noQUIC"), webrtc |-> FALSE,
     listen |-> TRUE, dhtServer |-> FALSE, relayServer |-> TRUE, socks |-> ""]

\* daemon.Run's node; its relays ordered by priority, equal ones as written.
relayAddrs(relays) ==
    LET before(i, j) == \/ relays[i].priority < relays[j].priority
                        \/ relays[i].priority = relays[j].priority /\ i < j
        order == SetToSortSeq(DOMAIN relays, before)
    IN  [i \in DOMAIN order |-> relays[order[i]].addr]
daemonRun(d) ==
    [ip |-> 0, announce |-> <<>>, relays |-> relayAddrs(d.relays), ws |-> FALSE,
     bootstrap |-> <<>>, dht |-> TRUE, mdns |-> TRUE, pubsub |-> TRUE,
     discover |-> d.fallback, quic |-> TRUE, webrtc |-> TRUE, listen |-> TRUE,
     dhtServer |-> FALSE, relayServer |-> FALSE, socks |-> d.socks]

GuardOff(cfg) == cfg
applyUpstreamSOCKSGuard(cfg) ==
    IF cfg.socks # "" THEN [cfg EXCEPT !.quic = FALSE, !.webrtc = FALSE] ELSE cfg

----------------------------------------------------------------------------
(* Addresses.                                                              *)

listenAddresses(cfg) ==
    LET family(ip) == <<Addr(ip, "tcp")>>
                      \o When(cfg.quic, Addr(ip, "quic-v1"))
                      \o When(cfg.webrtc, Addr(ip, "webrtc-direct"))
                      \o When(cfg.ws, Addr(ip, "ws"))
    IN  (IF cfg.ip # 6 THEN family(4) ELSE <<>>)
        \o (IF cfg.ip # 4 THEN family(6) ELSE <<>>)

\* Which lists of configured multiaddrs New accepts.
parseMultiaddrs(values) == \A i \in DOMAIN values : values[i].form # "bad"
parseRelayInfos(values) == \A i \in DOMAIN values : values[i].form = "ok"
bootstrapPeers(values) == values = <<>> \/ parseRelayInfos(values)
relayCircuitAddresses(values) ==
    [i \in DOMAIN values |-> [values[i].at EXCEPT !.circuit = TRUE]]

uniqueAddrs(values) ==
    LET keep(seen, value) == IF Contains(seen, value) THEN seen ELSE Append(seen, value)
    IN  FoldLeft(keep, <<>>, values)

\* Whether TCP is dialled through the proxy, by DialContext below.
upstreamSOCKSDialer(cfg) == cfg.socks # ""

\* The transports the host is built with.
Transports(cfg) ==
    {"tcp"} \union (IF cfg.socks = "" THEN {"ws", "wss"} ELSE {})
            \union (IF cfg.quic THEN {"quic-v1"} ELSE {})
            \union (IF cfg.webrtc THEN {"webrtc-direct"} ELSE {})

\* The addresses the host announces: where it listens, what it was told to
\* announce, and on a listener a circuit through each static relay.
Announced(cfg) ==
    [i \in DOMAIN cfg.announce |-> cfg.announce[i].at]
    \o IF cfg.dhtServer /\ ~cfg.relayServer
       THEN relayCircuitAddresses(cfg.relays) ELSE <<>>
Addrs(cfg) ==
    LET current == IF cfg.listen THEN listenAddresses(cfg) ELSE <<>>
    IN  IF Announced(cfg) = <<>> THEN current
        ELSE uniqueAddrs(current \o Announced(cfg))

dialAddressRank(a) ==
    CASE a.tr = "webrtc-direct" -> 0
      [] a.tr = "quic-v1" -> 1
      [] a.tr = "webtransport" -> 2
      [] a.tr = "wss" -> 3
      [] a.tr = "ws" -> 4
      [] a.tr = "tcp" -> IF a.circuit THEN 6 ELSE 5
      [] OTHER -> IF a.circuit THEN 6 ELSE 7

Sorted(addresses) ==
    LET rank(i) == dialAddressRank(addresses[i])
        before(i, j) == rank(i) < rank(j) \/ (rank(i) = rank(j) /\ i < j)
        order == SetToSortSeq(DOMAIN addresses, before)
    IN  [i \in DOMAIN order |-> addresses[order[i]]]
PreferDialRanker(addresses) ==
    LET sorted == Sorted(addresses)
        changed(i) == dialAddressRank(sorted[i]) # dialAddressRank(sorted[i - 1])
        delay[i \in DOMAIN sorted] ==
            IF i = 1 THEN 0 ELSE delay[i - 1] + IF changed(i) THEN 50 ELSE 0
    IN  [i \in DOMAIN sorted |-> [addr |-> sorted[i], delay |-> delay[i]]]

----------------------------------------------------------------------------
(* Rendezvous identifiers and GossipSub records.                           *)

RendezvousInterval == 5
PeerCid == [kind |-> "peer", epoch |-> 0]
RendezvousID(epoch) == [kind |-> "token", epoch |-> epoch]

CurrentOnly(clock) == <<RendezvousID(clock \div RendezvousInterval)>>
ProviderCIDs(clock) ==
    LET epoch == clock \div RendezvousInterval
        valid(id) == id.epoch >= 0
    IN  SelectSeq([i \in 1..3 |-> RendezvousID(epoch + i - 2)], valid)

encodePubSubPeerRecord(p, addrs) ==
    [key |-> p, addrs |-> SubSeq(addrs, 1, Min({Len(addrs), MaxAddrs})), wire |-> "ok"]
decodePubSubPeerRecord(record) ==
    /\ record.wire = "ok"
    /\ Len(record.addrs) <= MaxAddrs
    /\ record.key # "none"

----------------------------------------------------------------------------
(* New, Close and the routines a node runs.                                *)

Fault == faults > 0 /\ faults' = faults - 1
Cfg(n) == node[n].cfg
Holds(n, what) == what \in node[n].open
Dialable(n, addrs) == {a \in addrs : a.tr \in Transports(Cfg(n))}
Dial(n, addrs) == dialled' =
    [dialled EXCEPT ![n] = @ \union {a.tr : a \in Dialable(n, addrs)}]
Learn(n, p, addrs) ==
    peerstore' = [peerstore EXCEPT ![n][p] = @ \union addrs]
Reach(n, stage, open) ==
    node' = [node EXCEPT ![n].stage = stage, ![n].open = open]

Environment == <<scn, now, inbox, dht, adv, call>>

LeaveSubscription(open) == open \ {"ctx", "mdns", "topic", "dht", "host"}
Close(open) == open \ {"ctx", "mdns", "subscription", "topic", "dht", "host"}
Fail(n, open) == Reach(n, "failed", Close(open))

Accepts(c) ==
    /\ c.socks # "bad"
    /\ parseRelayInfos(c.relays)
    /\ parseMultiaddrs(c.announce)
RefuseConfig(n) ==
    /\ node[n].stage = "idle"
    /\ ~Accepts(Cfg(n))
    /\ Reach(n, "failed", {"parent"})
    /\ UNCHANGED <<Environment, faults, peerstore, dialled>>

CreateHost(n) ==
    /\ node[n].stage = "idle"
    /\ Accepts(Cfg(n))
    /\ \/ /\ node' = [node EXCEPT ![n].stage = "relays",
                                  ![n].open = {"parent", "ctx", "host"},
                                  ![n].cfg = applyUpstreamSOCKSGuard(@)]
          /\ UNCHANGED faults
       \/ /\ Fault
          /\ Reach(n, "failed", {"parent"})
    /\ UNCHANGED <<Environment, peerstore, dialled>>

\* One turn of the loop over the static relays: a relay that is away is
\* passed over, one that refuses a listener's reservation ends New.
ConnectRelay(n) ==
    LET relay == Head(node[n].relays).at
        rest == [node EXCEPT ![n].relays = Tail(@)]
    IN  /\ node[n].stage = "relays"
        /\ node[n].relays # <<>>
        /\ Learn(n, "relay", {relay})
        /\ Dial(n, {relay})
        /\ \/ /\ node' = rest
              /\ UNCHANGED faults
           \/ /\ Dialable(n, {relay}) # {}
              /\ Cfg(n).dhtServer /\ ~Cfg(n).relayServer
              /\ Fault
              /\ Fail(n, node[n].open)
        /\ UNCHANGED Environment

DefaultBootstrap == {Addr(4, "tcp"), Addr(4, "quic-v1"), Addr(4, "wss")}
Bootstrappers(c) ==
    IF c.bootstrap = <<>> THEN DefaultBootstrap
    ELSE {c.bootstrap[i].at : i \in DOMAIN c.bootstrap}
StartDHT(n) ==
    /\ node[n].stage = "relays"
    /\ node[n].relays = <<>>
    /\ \/ /\ ~Cfg(n).dht
          /\ Reach(n, "mdns", node[n].open)
          /\ UNCHANGED <<faults, dialled>>
       \/ /\ Cfg(n).dht /\ ~bootstrapPeers(Cfg(n).bootstrap)
          /\ Fail(n, node[n].open)
          /\ UNCHANGED <<faults, dialled>>
       \/ /\ Cfg(n).dht /\ bootstrapPeers(Cfg(n).bootstrap)
          /\ Dial(n, Bootstrappers(Cfg(n)))
          /\ \/ /\ Reach(n, "mdns", node[n].open \union {"dht"})
                /\ UNCHANGED faults
             \/ /\ Fault
                /\ \E open \in {node[n].open, node[n].open \union {"dht"}} : Fail(n, open)
    /\ UNCHANGED <<Environment, peerstore>>

StartMDNS(n) ==
    LET open == node[n].open \union (IF Cfg(n).mdns THEN {"mdns"} ELSE {})
    IN  /\ node[n].stage = "mdns"
        /\ \/ /\ Reach(n, "pubsub", open)
              /\ UNCHANGED faults
           \/ /\ Cfg(n).mdns
              /\ Fault
              /\ Fail(n, open)
        /\ UNCHANGED <<Environment, peerstore, dialled>>

TopicClosed(open) == open
startPubSub(n) ==
    LET open == node[n].open
    IN  /\ node[n].stage = "pubsub"
        /\ \/ /\ ~Cfg(n).pubsub \/ ~Cfg(n).discover
              /\ Reach(n, "up", open)
              /\ UNCHANGED faults
           \/ /\ Cfg(n).pubsub /\ Cfg(n).discover
              /\ Reach(n, "up", open \union {"topic", "subscription", "publish", "consume"})
              /\ UNCHANGED faults
           \/ /\ Cfg(n).pubsub
              /\ Fault                             \* no GossipSub, no topic
              /\ Fail(n, open)
           \/ /\ Cfg(n).pubsub /\ Cfg(n).discover
              /\ Fault                             \* no subscription
              /\ Fail(n, TopicClosed(open))
        /\ UNCHANGED <<Environment, peerstore, dialled>>

\* The node's owner closes it; its context may have ended before that.
CloseNode(n) ==
    /\ n \in scn.stops
    /\ node[n].stage = "up"
    /\ Reach(n, "closed", Close(node[n].open))
    /\ UNCHANGED <<Environment, faults, peerstore, dialled>>
Interrupt(n) ==
    /\ n \in scn.stops
    /\ node[n].stage = "up"
    /\ Holds(n, "parent")
    /\ Reach(n, "up", node[n].open \ {"parent", "ctx"})
    /\ UNCHANGED <<Environment, faults, peerstore, dialled>>

publishPubSubDiscovery(n) ==
    LET message == [from |-> n, record |-> encodePubSubPeerRecord(n, Addrs(Cfg(n)))]
        peers == {m \in Nodes \ {n} : Holds(m, "subscription")}
    IN  /\ {"publish", "ctx", "topic"} \subseteq node[n].open
        /\ \E m \in peers : message \notin inbox[m]
        /\ inbox' = [m \in Nodes |-> IF m \in peers THEN inbox[m] \union {message}
                                    ELSE inbox[m]]
        /\ UNCHANGED <<scn, faults, now, node, peerstore, dht, adv, call, dialled>>

\* What other peers put on the topic: their own records, records they pass
\* on for another peer, and records that do not decode.
StrangerAddr == Addr(4, "wss")
ForeignRecords ==
    {[key |-> "stranger", addrs |-> <<StrangerAddr>>, wire |-> "ok"],
     [key |-> "server", addrs |-> <<StrangerAddr>>, wire |-> "ok"],
     [key |-> "server", addrs |-> <<>>, wire |-> "truncated"]}
ForeignPublish(n) ==
    /\ n \in scn.foreign
    /\ Holds(n, "subscription")
    /\ \A m \in inbox[n] : m.from # "stranger"         \* bound: one at a time
    /\ \E record \in ForeignRecords :
         inbox' = [inbox EXCEPT ![n] = @ \union {[from |-> "stranger", record |-> record]}]
    /\ UNCHANGED <<scn, faults, now, node, peerstore, dht, adv, call, dialled>>

AnySender(n, message) ==
    decodePubSubPeerRecord(message.record) /\ message.record.key # n
Admitted(n, message) ==
    /\ decodePubSubPeerRecord(message.record)
    /\ message.record.key # n
    /\ message.from = message.record.key
consumePubSubDiscovery(n) ==
    /\ {"consume", "ctx", "subscription"} \subseteq node[n].open
    /\ \E message \in inbox[n] :
         /\ inbox' = [inbox EXCEPT ![n] = @ \ {message}]
         /\ IF Admitted(n, message)
            THEN Learn(n, message.record.key, ToSet(message.record.addrs))
            ELSE UNCHANGED peerstore
    /\ UNCHANGED <<scn, faults, now, node, dht, adv, call, dialled>>

\* The routines return once the context or the subscription has ended.
RoutineEnds(n) ==
    /\ \E routine \in {"publish", "consume"} \intersect node[n].open :
         /\ \/ ~Holds(n, "ctx")
            \/ routine = "consume" /\ ~Holds(n, "subscription")
         /\ node' = [node EXCEPT ![n].open = @ \ {routine}]
    /\ UNCHANGED <<Environment, faults, peerstore, dialled>>

HandlePeerFound(n) ==
    /\ Holds(n, "mdns")
    /\ \E p \in {m \in Nodes : Holds(m, "mdns")} :
         LET addrs == ToSet(listenAddresses(Cfg(p)))
         IN  /\ p # n
             /\ Holds(n, "ctx")
             /\ Learn(n, p, addrs)
             /\ Dial(n, addrs)
    /\ UNCHANGED <<Environment, faults, node>>

\* TempAddrTTL: what was learnt of a peer is forgotten.
AddrsExpire ==
    /\ scn.expiry
    /\ peerstore["client"]["server"] # {}
    /\ peerstore' = [peerstore EXCEPT !["client"]["server"] = {}]
    /\ UNCHANGED <<Environment, faults, node, dialled>>

----------------------------------------------------------------------------
(* Advertise: the listener publishes its provider records.                 *)

ProvideLimit == scn.slow   \* minutes a Provide may take: at most one
Interval == IF scn.token THEN 5 ELSE 360
Quiet == <<scn, node, peerstore, inbox, call, dialled>>

Advertise ==
    /\ adv.pc = "off"
    /\ node["server"].stage = "up"
    /\ adv' = [adv EXCEPT !.pc = IF Holds("server", "dht") THEN "start" ELSE "done"]
    /\ UNCHANGED <<Quiet, faults, now, dht>>

AdvertiseRound ==
    /\ \/ adv.pc = "start"
       \/ adv.pc = "sleep" /\ now >= adv.since + Interval
    /\ adv' = [adv EXCEPT !.pc = "provide", !.since = now,
                          !.todo = IF scn.token THEN ProviderCIDs(now) ELSE <<PeerCid>>]
    /\ UNCHANGED <<Quiet, faults, now, dht>>

Provide ==
    LET last == Len(adv.todo) = 1
        record == [cid |-> Head(adv.todo), peer |-> "server", addrs |-> ToSet(Addrs(Cfg("server")))]
    IN  /\ adv.pc = "provide"
        /\ \/ /\ {"parent", "dht"} \subseteq node["server"].open
              /\ dht' = dht \union {record}
              /\ UNCHANGED faults
           \/ /\ IF {"parent", "dht"} \subseteq node["server"].open
                 THEN Fault ELSE UNCHANGED faults
              /\ UNCHANGED dht
        /\ adv' = [adv EXCEPT !.todo = Tail(@), !.since = now,
                              !.pc = IF last THEN "sleep" ELSE @,
                              !.rounds = IF last THEN 1 ELSE @]
        /\ UNCHANGED <<Quiet, now>>

AdvertiseEnds ==
    /\ adv.pc = "sleep"
    /\ ~Holds("server", "parent")
    /\ adv' = [adv EXCEPT !.pc = "done"]
    /\ UNCHANGED <<Quiet, faults, now, dht>>

\* A minute passes; nothing that is due by now is left behind, and a lookup
\* (three queries of four seconds) ends within its minute.
Tick ==
    /\ now < scn.start + Horizon
    /\ scn.timed
    /\ adv.pc \notin {"off", "start"}
    /\ adv.pc = "provide" => now < adv.since + ProvideLimit
    /\ adv.pc = "sleep" => now < adv.since + Interval
    /\ call.pc \notin {"lookup", "dial"}
    /\ now' = now + 1
    /\ UNCHANGED <<Quiet, faults, dht, adv>>

----------------------------------------------------------------------------
(* openStream: the client resolves its target and dials it.                *)

Caller == <<scn, now, node, inbox, dht, adv>>
Result(pc) == call' = [call EXCEPT !.pc = pc]
Known == peerstore["client"]["server"]
Relays == Cfg("client").relays

\* A full multiaddr names the peer and where it is.
ResolveMultiaddr ==
    /\ call.pc = "ready" /\ node["client"].stage = "up"
    /\ scn.target.kind = "multiaddr"
    /\ IF scn.target.form = "ok"
       THEN Learn("client", "server", {scn.target.at}) /\ Result("dial")
       ELSE Result("error") /\ UNCHANGED peerstore
    /\ UNCHANGED <<Caller, faults, dialled>>

\* A PeerId: by the first relay, from the peerstore, or by a DHT lookup.
ResolvePeerId ==
    /\ call.pc = "ready" /\ node["client"].stage = "up"
    /\ scn.target.kind = "id"
    /\ \/ /\ scn.target.form = "bad"
          /\ Result("error")
          /\ UNCHANGED peerstore
       \/ /\ scn.target.form = "ok" /\ Relays # <<>>
          /\ Learn("client", "server", {[Relays[1].at EXCEPT !.circuit = TRUE]})
          /\ Result("dial")
       \/ /\ scn.target.form = "ok" /\ Relays = <<>> /\ Known # {}
          /\ Result("dial")
          /\ UNCHANGED peerstore
       \/ /\ scn.target.form = "ok" /\ Relays = <<>> /\ Known = {}
          /\ IF Cfg("client").dht
             THEN call' = [call EXCEPT !.pc = "lookup", !.known = adv.rounds > 0,
                             !.cids = IF scn.token THEN ProviderCIDs(now + scn.skew)
                                      ELSE <<PeerCid>>]
             ELSE Result("error")
          /\ UNCHANGED peerstore
    /\ UNCHANGED <<Caller, faults, dialled>>

Usable(record) == record.peer = "server" /\ record.addrs # {}
Lookup ==
    LET found == {r \in dht : r.cid = Head(call.cids) /\ Usable(r)}
    IN  /\ call.pc = "lookup" /\ call.cids # <<>>
        /\ \/ \E r \in found :
                /\ Learn("client", "server", r.addrs)
                /\ call' = [call EXCEPT !.pc = "dial", !.cids = <<>>]
                /\ UNCHANGED faults
           \/ /\ IF found = {} THEN UNCHANGED faults ELSE Fault
              /\ call' = [call EXCEPT !.cids = Tail(@)]
              /\ UNCHANGED peerstore
        /\ UNCHANGED <<Caller, dialled>>

\* No provider: without a token the routing table is asked for the peer.
FindPeer ==
    LET routable == Holds("server", "dht") /\ ~scn.token
    IN  /\ call.pc = "lookup" /\ call.cids = <<>>
        /\ \/ /\ routable
              /\ Learn("client", "server", ToSet(Addrs(Cfg("server"))))
              /\ Result("dial")
           \/ /\ Result("notfound")
              /\ UNCHANGED peerstore
        /\ UNCHANGED <<Caller, faults, dialled>>

\* NewStream: the dialable addresses, in whatever order the peerstore gives
\* them, are ranked and dialled.
NewStream ==
    LET targets == Dialable("client", Known)
    IN  /\ call.pc = "dial"
        /\ \/ /\ targets = {}
              /\ Result("error")
              /\ UNCHANGED faults
           \/ \E order \in SetToSeqs(targets), proxied \in BOOLEAN :
                /\ targets # {}
                /\ proxied = upstreamSOCKSDialer(Cfg("client"))
                /\ \/ /\ call' = [call EXCEPT
                               !.pc = IF proxied THEN "dialling" ELSE "stream",
                               !.bg = IF proxied THEN "running" ELSE @,
                               !.dial = PreferDialRanker(order)]
                      /\ UNCHANGED faults
                   \/ /\ Fault
                      /\ ~proxied
                      /\ call' = [call EXCEPT !.pc = "error", !.dial = PreferDialRanker(order)]
        /\ Dial("client", Known)
        /\ UNCHANGED <<Caller, peerstore>>

\* DialContext: the proxy dial runs in a goroutine of its own, which hands
\* its result over a channel of capacity one and never waits for a taker.
Dialling == <<Caller, faults, peerstore, dialled>>
ProxyDialReturns ==
    /\ call.bg = "running"
    /\ call' = [call EXCEPT !.bg = "done"]
    /\ UNCHANGED Dialling
DialContext ==
    /\ call.pc = "dialling"
    /\ \/ Result("error")                          \* ctx.Done()
       \/ /\ call.bg = "done"
          /\ \E pc \in {"stream", "error"} : Result(pc)
    /\ UNCHANGED Dialling

----------------------------------------------------------------------------
Held(c) ==
    {"parent", "ctx", "host"}
    \union (IF c.dht THEN {"dht"} ELSE {})
    \union (IF c.mdns THEN {"mdns"} ELSE {})
    \union (IF c.pubsub /\ c.discover
            THEN {"topic", "subscription", "publish", "consume"} ELSE {})

\* A node starts idle, or is up already with all that its New started.
Init ==
    /\ scn \in Scenarios
    /\ faults = scn.faults
    /\ now = scn.start
    /\ node = [n \in Nodes |->
         LET c == scn.cfg[n]
             up == n \in scn.up
         IN  [stage |-> IF up THEN "up" ELSE "idle",
              cfg |-> IF up THEN applyUpstreamSOCKSGuard(c) ELSE c,
              open |-> IF up THEN Held(c) ELSE {"parent"},
              relays |-> IF up THEN <<>> ELSE c.relays]]
    /\ peerstore = [n \in Nodes |-> [p \in Peers |-> {}]]
    /\ inbox = [n \in Nodes |-> {}]
    /\ dht = scn.dht
    /\ adv = [pc |-> IF scn.advertises THEN "off" ELSE "done", todo |-> <<>>,
              since |-> 0, rounds |-> 0]
    /\ call = [pc |-> "ready", cids |-> <<>>, dial |-> <<>>, bg |-> "none", known |-> FALSE]
    /\ dialled = [n \in Nodes |-> {}]

New(n) ==
    \/ RefuseConfig(n) \/ CreateHost(n) \/ ConnectRelay(n)
    \/ StartDHT(n) \/ StartMDNS(n) \/ startPubSub(n)
openStream ==
    \/ ResolveMultiaddr \/ ResolvePeerId \/ Lookup \/ FindPeer
    \/ NewStream \/ ProxyDialReturns \/ DialContext
Next ==
    \/ \E n \in Nodes :
         \/ n \in scn.starts /\ New(n)
         \/ Interrupt(n) \/ CloseNode(n) \/ RoutineEnds(n)
         \/ publishPubSubDiscovery(n) \/ ForeignPublish(n)
         \/ consumePubSubDiscovery(n) \/ HandlePeerFound(n)
    \/ Advertise \/ AdvertiseRound \/ Provide \/ AdvertiseEnds \/ Tick
    \/ openStream
    \/ AddrsExpire

\* The routines of a node that is going away run, and a proxy dial ends: by
\* an answer, or by the operating system's own limit on connecting.
FairSpec ==
    /\ Init /\ [][Next]_vars
    /\ \A n \in Nodes : WF_vars(RoutineEnds(n))
    /\ WF_vars(ProxyDialReturns)

----------------------------------------------------------------------------
(* Properties.                                                             *)

Stages == {"idle", "relays", "mdns", "pubsub", "up", "failed", "closed"}
TypeOK ==
    /\ faults \in 0..scn.faults
    /\ now \in scn.start..scn.start + Horizon
    /\ \A n \in Nodes : /\ node[n].stage \in Stages
                         /\ node[n].open \subseteq
                              Held([dht |-> TRUE, mdns |-> TRUE, pubsub |-> TRUE, discover |-> TRUE])
    /\ adv.pc \in {"off", "start", "provide", "sleep", "done"}
    /\ call.pc \in {"ready", "lookup", "dial", "dialling", "stream", "notfound", "error"}

\* With --upstream-socks a node dials over TCP, the transport that goes
\* through the proxy, and over nothing else: whatever addresses the relays,
\* the bootstrap list, mDNS, the topic, the DHT or the target bring.
NoBypass ==
    \A n \in Nodes : scn.cfg[n].socks # "" => dialled[n] \subseteq {"tcp"}

\* Where the client looks for the listener is where the listener is, or
\* where the user said: no record on the topic or in the DHT that comes from
\* another peer adds an address under the listener's PeerId.
PeerstoreSound ==
    peerstore["client"]["server"] \subseteq
        ToSet(Addrs(Cfg("server"))) \union {scn.target.at}
        \union {[Relays[i].at EXCEPT !.circuit = TRUE] : i \in DOMAIN Relays}

\* With a token, a client finds the listener at any moment after the first
\* round of Advertise, unless a Provide or a query failed: its clock may be
\* ten minutes behind the listener's, and five minutes ahead if Provides
\* are quick, not ahead if each takes the minute Advertise allows it.
NotMissed ==
    ~(scn.faults = 0 /\ call.pc = "notfound" /\ call.known /\ scn.token)

\* A New that failed, at whatever step, and a node that was closed hold
\* nothing in the end: no host, DHT, mDNS service, topic or subscription,
\* and none of their goroutines; and no proxy dial waits forever.
NothingLeftOpen ==
    /\ \A n \in Nodes : node[n].stage \in {"failed", "closed"} ~> node[n].open \subseteq {"parent"}
    /\ call.bg = "running" ~> call.bg # "running"
==============================================================================

----------------------------- MODULE MCDiscovery ------------------------------
(***************************************************************************)
(* Scenarios: nodes that start under every configuration, with failures;   *)
(* discovery between two nodes; and a private listener looked up by a      *)
(* client whose clock differs, over two and a half rounds of Advertise.    *)
(***************************************************************************)
EXTENDS Discovery

At(form, a) == [form |-> form, at |-> a]
TcpRelay == At("ok", Addr(4, "tcp"))
QuicRelay == At("ok", Addr(4, "quic-v1"))
Plain == [flags |-> {}, announce |-> <<>>, relays |-> <<>>, bootstrap |-> <<>>, socks |-> ""]
With(flags) == [Plain EXCEPT !.flags = flags]
Off == {"noDHT", "noMDNS", "noPubsub", "noQUIC", "noWebRTC", "ipv4"}

ById == [kind |-> "id", form |-> "ok", at |-> Addr(4, "tcp")]
Base == [by |-> "cli", token |-> FALSE, skew |-> 0, slow |-> 1, start |-> 20, timed |-> FALSE,
         faults |-> 0, up |-> {}, starts |-> {}, stops |-> {}, foreign |-> {}, expiry |-> FALSE,
         advertises |-> FALSE, dht |-> {}, target |-> ById,
         cfg |-> [server |-> nodeConfig(With(Off), TRUE, FALSE),
                  client |-> nodeConfig(With(Off), FALSE, FALSE)]]
Client(o) == nodeConfig(o, FALSE, FALSE)

\* One node starts, each operation of New failing in turn, and is closed.
StartConfigs ==
    {nodeConfig([Plain EXCEPT !.relays = r, !.socks = x, !.bootstrap = b, !.announce = a,
                              !.flags = f], TRUE, t) :
        r \in {<<>>, <<TcpRelay, QuicRelay>>, <<At("nopeer", Addr(4, "tcp"))>>},
        x \in {"", "ok", "bad"}, b \in {<<>>, <<At("bad", Addr(4, "tcp"))>>},
        a \in {<<>>, <<At("nopeer", Addr(6, "ws"))>>, <<At("bad", Addr(6, "ws"))>>},
        f \in {{}, {"tor"}, {"ipv6"}}, t \in BOOLEAN}
    \union {relayStart(With(f)) : f \in {{}, {"noWS", "noPubsub"}, {"noMDNS"}}}
    \union {daemonRun([relays |-> r, fallback |-> TRUE, socks |-> x]) : x \in {"", "ok"},
              r \in {<<>>, <<[addr |-> QuicRelay, priority |-> 2], [addr |-> TcpRelay, priority |-> 1]>>}}
Starting ==
    {[Base EXCEPT !.cfg.server = c, !.faults = 1, !.starts = {"server"}, !.stops = {"server"}]
        : c \in StartConfigs}

\* Both nodes up, on the topic or on one network, a proxy at the client.
Targets == {ById, [kind |-> "multiaddr", form |-> "ok", at |-> Addr(4, "quic-v1")],
            [kind |-> "multiaddr", form |-> "nopeer", at |-> Addr(4, "tcp")],
            [kind |-> "id", form |-> "bad", at |-> Addr(4, "tcp")]}
Meeting ==
    {[Base EXCEPT !.cfg.server = nodeConfig(With({"ipv4", "noDHT", off}), TRUE, t),
                  !.cfg.client = Client([With({"ipv4", off}) EXCEPT !.socks = x]),
                  !.up = {"server", "client"}, !.foreign = {"client"}, !.expiry = TRUE,
                  !.token = t, !.advertises = TRUE, !.target = target, !.stops = {"server"}]
        : t \in BOOLEAN, x \in {"", "ok"}, off \in {"noMDNS", "noPubsub"}, target \in Targets}
Relayed ==
    {[Base EXCEPT !.cfg.server = nodeConfig([With(Off) EXCEPT !.relays = <<r>>], TRUE, FALSE),
                  !.cfg.client = Client([With(Off \ {"noQUIC"}) EXCEPT !.relays = <<r>>, !.socks = x]),
                  !.up = {"server"}, !.starts = {"client"}, !.stops = {"client"}, !.faults = 1]
        : r \in {TcpRelay, QuicRelay}, x \in {"", "ok"}}

\* Looked up in the DHT, where another peer also provides.
Other == [cid |-> PeerCid, peer |-> "stranger", addrs |-> {StrangerAddr}]
Public ==
    {[Base EXCEPT !.cfg.server = nodeConfig(With(Off \ {"noDHT", "noQUIC", "noWebRTC", "ipv4"}), TRUE, FALSE),
                  !.cfg.client = Client(With(Off \ {"noDHT", "noQUIC"})), !.faults = 1,
                  !.up = {"server", "client"}, !.stops = {"server"}, !.advertises = TRUE,
                  !.dht = {Other}]}
Private ==
    {[Base EXCEPT !.cfg.server = nodeConfig(With(Off \ {"noDHT"}), TRUE, TRUE),
                  !.cfg.client = nodeConfig(With(Off \ {"noDHT"}), FALSE, TRUE),
                  !.up = {"server", "client"}, !.advertises = TRUE, !.token = TRUE,
                  !.timed = TRUE, !.start = start, !.slow = clock[1], !.skew = clock[2]]
        : start \in 20..24, clock \in {<<0, -10>>, <<0, 5>>, <<1, -10>>, <<1, 0>>}}
Alone == {[Base EXCEPT !.up = Nodes]}
AllScenarios == Alone \union Starting \union Meeting \union Relayed \union Public \union Private
==============================================================================

----------------------------- MODULE MCSignaling ------------------------------
EXTENDS Signaling, TLC

Both(c, l) == "client" :> c @@ "listener" :> l
Scenario(m, a, f, others, closers, tokens, clocks) ==
    [medium |-> m, attempts |-> a, faults |-> f, others |-> others,
     closers |-> closers, tokens |-> tokens, clocks |-> clocks, ready |-> {"listener"}]

\* Delivery under faults; plain signals between clocks that are far apart; closing
\* with full queues and breaking connections; and the relays, where there is less to
\* go wrong.
MCScenarios == {
    [Scenario("torrent", 1, 1, Both(0, 0), {}, Both("k", "k"), Both(0, 1))
        EXCEPT !.ready = Peers],
    Scenario("torrent", 1, 0, Both(0, 0), {}, Both("none", "none"), Both(2, 0)),
    Scenario("torrent", 0, 1, Both(2, 0), {"client"}, Both("k", "k"), Both(0, 0)),
    Scenario("torrent", 0, 1, Both(0, 1), {"listener"}, Both("k", "k"), Both(0, 0)),
    Scenario("nostr", 1, 0, Both(0, 1), {"listener"}, Both("k", "k"), Both(0, 1)),
    Scenario("nostr", 1, 0, Both(1, 0), {"client"}, Both("none", "none"), Both(0, 2)),
    Scenario("nostr", 1, 1, Both(1, 0), {"client"}, Both("none", "k"), Both(0, 0))}
==============================================================================

---------------------------- MODULE MCRendezvous -----------------------------
(***************************************************************************)
(* A client with every route, at the edge of the clock window, and one     *)
(* with the libp2p route only, whose token or clock may be wrong.          *)
(***************************************************************************)
EXTENDS Rendezvous, TLC

CONSTANTS c1, c2, right, wrong

TwoClients == (c1 :> {"nostr", "torrent"}) @@ (c2 :> {})
Setup(token, persistent, other) ==
    [opts |-> [token |-> token, persistent |-> persistent],
     profile |-> (c1 :> [key |-> right, clock |-> MaxClockSkew]) @@ (c2 :> other)]
Good == [key |-> right, clock |-> 0]
WrongKey == [key |-> wrong, clock |-> 0]
WrongClock == [key |-> right, clock |-> -MaxClockSkew - 1]
MCSetups ==
    {Setup(TRUE, FALSE, x) : x \in {Good, WrongKey, WrongClock}} \cup
    {Setup(TRUE, TRUE, WrongKey), Setup(FALSE, FALSE, Good), Setup(FALSE, TRUE, Good)}
==============================================================================

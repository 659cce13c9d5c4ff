------------------------------ MODULE MCDaemon -------------------------------
(* Two tunnel names; definitions that differ in their port or only in their *)
(* target, and a client tunnel; two ports and one local address.            *)
EXTENDS Daemon

Server(p, t) == [mode |-> "server", res |-> p, tag |-> t]
Client(a) == [mode |-> "client", res |-> a, tag |-> 0]
MCDefs == {Server(1, 0), Server(1, 1), Server(2, 0), Client(3)}
FewDefs == {Server(1, 0), Server(1, 1), Client(2)}
==============================================================================

--------------------------- MODULE MCNativeStream ----------------------------
(***************************************************************************)
(* Workloads for NativeStream: how many values the client writes (the      *)
(* server's writes would be symmetric) and which closing calls are made.   *)
(***************************************************************************)
EXTENDS StreamAccounting

FromClient(n) == [e \in Ends |-> IF e = "client" THEN n ELSE 0]
TwoChunks == FromClient(2)

NoCalls == {}
Crossing == {<<"client", "CloseWrite">>, <<"client", "Close">>, <<"server", "Reset">>}
==============================================================================

--------------------------- MODULE MCNativeSession ---------------------------
(* What the applications of the two ends do, for NativeSession.             *)
EXTENDS NativeSession

NoCalls == {}
Mixed == {<<"client", "Write">>, <<"client", "Stall">>, <<"server", "Write">>,
          <<"server", "Stall">>, <<"server", "Close">>, <<"server", "Reset">>,
          <<"server", "Listener.Close">>}
BothWrite == {<<"client", "Write">>, <<"client", "Close">>, <<"client", "Reset">>,
              <<"server", "Write">>, <<"server", "Stall">>, <<"server", "Listener.Close">>}
ServerWrites == {<<"server", "Write">>}
==============================================================================

---------------------------- MODULE MCUdpForward -----------------------------
(***************************************************************************)
(* UdpForward with two sources as model values.                            *)
(***************************************************************************)
EXTENDS UdpForward

CONSTANTS c1, c2
==============================================================================

-------------------------- MODULE MCDatagramSockets --------------------------
(* DatagramSockets for TLC: the .cfg gives the constants their values.       *)
EXTENDS DatagramSockets
==============================================================================

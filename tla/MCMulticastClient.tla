-------------------------- MODULE MCMulticastClient --------------------------
(* The example program for TLC: the .cfg gives the constants their values.  *)
EXTENDS MulticastClient
==============================================================================

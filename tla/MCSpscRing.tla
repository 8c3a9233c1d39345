------------------------------ MODULE MCSpscRing ------------------------------
(* The specialised SPSC ring for TLC: the .cfg gives the constants values.   *)
EXTENDS SpscRing
==============================================================================

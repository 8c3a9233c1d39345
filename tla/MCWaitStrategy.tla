---------------------------- MODULE MCWaitStrategy ----------------------------
(* The wait-strategy scenario for TLC: the .cfg gives the constants values.  *)
EXTENDS WaitStrategy
==============================================================================

------------------------------ MODULE MCTcpEcho ------------------------------
(* TcpEcho for TLC: the .cfg gives the constants their values.              *)
EXTENDS TcpEcho
==============================================================================

---------------------------- MODULE MCPairedPhases ----------------------------
(* The phase protocol for TLC: the .cfg gives the constants their values.    *)
EXTENDS PairedPhases
==============================================================================

--------------------------- MODULE MCStreamSockets ---------------------------
(* StreamSockets for TLC: the .cfg gives the constants their values.        *)
EXTENDS StreamSockets
==============================================================================

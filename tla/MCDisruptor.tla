----------------------------- MODULE MCDisruptor -----------------------------
(* Disruptor for TLC: the .cfg files give the constants their values.       *)
EXTENDS Disruptor, TLC

\* Producer handles are interchangeable: only their objects' states matter.
HandleSymmetry == Permutations(Handles)
==============================================================================

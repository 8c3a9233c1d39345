--------------------------- MODULE MCSocketOptions ---------------------------
(* Two callers and ints of three bits.  Budgets lie below zero, at and just *)
(* beyond the largest int, and where narrowing would wrap to -1 and to 0.   *)
EXTENDS SocketOptions, TLC

MCBudgets  == {-1, 0, 2, IntLimit - 1, IntLimit, 2 * IntLimit - 1, 2 * IntLimit}
MCAdjusted == {-1, 0, 2}

CallerSymmetry == Permutations(Callers)
==============================================================================

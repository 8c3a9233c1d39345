SPECIFICATION Spec
CONSTANTS
    Callers = {c1, c2}
    IntLimit = 4
    Budgets <- MCBudgets
    Adjusted <- MCAdjusted
SYMMETRY CallerSymmetry
INVARIANTS NarrowingIsExact ErrorsAreReal RacingAppliesAgree

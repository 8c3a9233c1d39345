CONSTANTS
    Warmup = 1
    Samples = 2
    Connected = FALSE
    MayFail = TRUE
    Strays <- MCStrays
    Disturbances = 2
SPECIFICATION Spec
INVARIANTS
    AccountsAddUp
    SamplesAreAnswers
    AnomaliesAreReal
PROPERTY
    Terminates

CONSTANTS
    Warmup = 1
    Samples = 2
    PayloadBytes = 3
    Buffer = 2
    Spin = TRUE
    MayFail = TRUE
SPECIFICATION Spec
INVARIANTS
    TypeOK
    ThrowsOnlyOnFaults
PROPERTY
    Terminates

CONSTANTS
    Sizes = {0, 1, 3}
    Buffer = 2
    StreamLength = 4
SPECIFICATION StreamSpec
INVARIANTS
    StreamIsExact
    CloseLosesNothing
PROPERTY
    StreamSpinReturns

CONSTANTS
    Wrap = 8
    Capacity = 2
    ConsumerCount = 2
    Owner = Owner
    Handles = {}
    Blank = Blank
    InitialPositions = {7}
    Counts = {0, 1, 2, 3}
    MaxCounts = {0, 1, 3}
SPECIFICATION Spec
INVARIANTS
    TypeOK
    NoWriteRace
    NoReadRace
    HandlerGetsItsEvent
PROPERTIES
    PositionsAdvance
    ImplementsStream

CONSTANTS
    Wrap = 8
    Capacity = 2
    ConsumerCount = 1
    Owner = Owner
    Handles = {h1, h2}
    Blank = Blank
    InitialPositions = {7}
    Counts = {1, 2}
    MaxCounts = {1}
SPECIFICATION Spec
INVARIANTS
    CapacityCacheSound
    DebugStateTracksOwnership
PROPERTIES
    ImplementsStream
SYMMETRY HandleSymmetry

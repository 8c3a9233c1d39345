CONSTANTS
    Wrap = 16
    Capacity = 4
    ConsumerCount = 1
    Owner = Owner
    Handles = {h1}
    Blank = Blank
    InitialPositions = {0}
    Counts = {}
    MaxCounts = {}
    WarmupRuns = 2
    WarmupEvents = 2
    Events = 8
    ProducerBatch = 1
    DrainLimit = 4
    Producer = h1
SPECIFICATION PhasesSpec
INVARIANTS
    NoControlRace
    PhasesAreWhole
PROPERTIES
    Terminates

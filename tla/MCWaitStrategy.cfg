CONSTANTS
    Wrap = 12
    Capacity = 4
    ConsumerCount = 1
    Owner = Owner
    Handles = {}
    Blank = Blank
    InitialPositions = {0}
    Counts = {}
    MaxCounts = {}
    EventCount = 10
    WarmupCount = 5
    SampleCount = 4
    PauseLimit = 2
SPECIFICATION ClientSpec
INVARIANTS
    MeasuredHandoffsAreDirect
    PausesFollowIdlePolls
PROPERTIES
    Terminates

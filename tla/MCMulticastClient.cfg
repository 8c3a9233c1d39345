CONSTANTS
    Wrap = 16
    Capacity = 4
    ConsumerCount = 2
    Owner = Owner
    Producer = h1
    Handles = {h1}
    Blank = Blank
    InitialPositions = {14}
    Counts = {}
    MaxCounts = {}
    EventCount = 7
    BatchSize = 2
SPECIFICATION ClientSpec
INVARIANT ReturnsWithTheWholeStream
PROPERTY Terminates

CONSTANTS
    Wrap = 8
    Capacity = 4
    EventCount = 11
    Nothing = Nothing
SPECIFICATION Spec
INVARIANTS
    NoSlotRace
PROPERTIES
    ImplementsFifo
    EndsWithChecksum

CONSTANTS
    Sends = 4
    Queue = 2
SPECIFICATION DatagramSpec
INVARIANTS
    NothingSwallowed
    ErrorsReportedOnce
    InterruptionsHidden
PROPERTY
    DatagramSpinReturns

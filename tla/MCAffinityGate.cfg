CONSTANTS
    Helpers <- MCHelpers
    ProducerCpu = 1
    ConsumerCpu = 2
    Housekeeping <- MCHousekeeping
    Phases = 2
SPECIFICATION GateSpec
INVARIANTS
    WorkersArePinned
PROPERTIES
    LauncherTerminates
    HelpersLeaveTheHotCpus

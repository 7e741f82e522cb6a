CONSTANTS
    Service = {s1, s2}
    MaxFaults = 2
SPECIFICATION FairSpec
INVARIANT ControllerHasConfig
PROPERTIES
    LeaveLeavesNothing
    SingleServerFinishes
CHECK_DEADLOCK FALSE

CONSTANTS
    Command = {c1}
    MaxFaults = 1
SPECIFICATION FairSpec
PROPERTY DeleteFinishes
CHECK_DEADLOCK FALSE

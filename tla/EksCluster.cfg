CONSTANTS
    Command = {c1, c2}
    MaxFaults = 2
SPECIFICATION FairSpec
INVARIANTS
    BalancerInv
PROPERTIES
    CreatedMeansReady
    DeletedMeansGone
    CreateFinishes
CHECK_DEADLOCK FALSE

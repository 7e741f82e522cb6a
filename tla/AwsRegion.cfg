CONSTANTS
    Command = {c1, c2}
    Region = {r1, r2, r3}
    Vpc = {v1, v2, v3}
    HasEfs = {r1, r2}
    Repeat = {r2}
    Fragile = {"delete"}
    MaxCrashes = 2
    None = None
SPECIFICATION FairSpec
INVARIANTS
    CoreInv
    RegionsConnected
PROPERTIES
    DeletedMeansGone
    DeleteFinishes
CHECK_DEADLOCK FALSE

CONSTANTS
    Command = {c1, c2}
    Cluster = {a, b}
    Services = 2
    Images = 2
    Page = 1
    Refusable = {}
    Together = FALSE
    MaxFaults = 1
    None = None
    Stale = Stale
SPECIFICATION FairSpec
INVARIANTS
    GrantInv
PROPERTIES
    DeleteFinishes
    GrantFinishes
CHECK_DEADLOCK FALSE

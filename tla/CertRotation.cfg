CONSTANTS
    MaxCa = 3
    Machine = {m1, m2, m3}
    Initial = {m1, m2}
    Azure = FALSE
    Hasty = FALSE
    MaxCrashes = 1
    NoKeys = NoKeys
    NotAnArchive = NotAnArchive
SPECIFICATION FairSpec
INVARIANTS
    TypeOK
    MutualTrust
    OldCaRetired
    NewMachinesJoin
    FleetWithinOneStage
PROPERTIES
    ExitMeansRotated
    MovesInStep
    RotationCompletes
CHECK_DEADLOCK FALSE

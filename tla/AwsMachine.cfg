CONSTANTS
    Command = {c1}
    Name = {core1}
    Instance = {i1, i2, i3}
    Volume = {v1}
    MaxCrashes = 1
    None = None
SPECIFICATION FairSpec
INVARIANTS
    DataSurvives
    MountInv
PROPERTIES
    UninterruptedRedeployKeepsVolume
    BootCompletes
CHECK_DEADLOCK FALSE

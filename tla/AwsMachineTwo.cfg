CONSTANTS
    Command = {c1, c2}
    Name = {core1, core2}
    Instance = {i1, i2, i3}
    Volume = {v1, v2}
    MaxCrashes = 1
    None = None
SPECIFICATION Spec
INVARIANTS
    VolumeFollowsItsMachine
SYMMETRY Interchangeable
CHECK_DEADLOCK FALSE

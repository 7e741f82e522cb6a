CONSTANTS
    MaxCa = 2
    Machine = {m1, m2}
    Initial = {m1}
    Azure = TRUE
    Hasty = FALSE
    MaxCrashes = 1
    NoKeys = NoKeys
    NotAnArchive = NotAnArchive
SPECIFICATION Spec
INVARIANT NewMachinesJoin
CHECK_DEADLOCK FALSE

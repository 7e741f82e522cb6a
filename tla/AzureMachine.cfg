CONSTANTS
    Command = {c1, c2}
    Name = {etcd1, etcd2}
    Address = {a1, a2}
    Type = {"default", "mgmt", "single"}
    RoleChoice = {{}, {"management"}, {"pitcher", "log"}}
    Management = {TRUE, FALSE}
    Skip = {TRUE, FALSE}
    Alone = TRUE
    MaxCrashes = 1
    None = None
SPECIFICATION Spec
INVARIANTS
    RulesInv
    GroupsServeRoles
PROPERTIES
    DiskOutlivesMachine
    UninterruptedRedeployKeepsDisk
SYMMETRY Interchangeable
CHECK_DEADLOCK FALSE

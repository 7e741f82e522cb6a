CONSTANTS
    Command = {c1, c2}
    Owner = {c1}
    Pool = {main, extra}
    Main = main
    Password = {p1, p2}
    MaxFaults = 1
    None = None
SPECIFICATION FairSpec
INVARIANTS
    SecretInv
PROPERTIES
    CreatedMeansReady
    PublicAddresses
    DeletedMeansGone
    CreateFinishes
CHECK_DEADLOCK FALSE

CONSTANTS
    Shell = {c1, c2}
    Kind = {basic, scaling}
    MaxFaults = 2
SPECIFICATION ClusterFairSpec
INVARIANT ClusterTypeOK
PROPERTIES
    CreatedMeansUsable
    ClusterDeletedMeansGone
    CreateFinishes
CHECK_DEADLOCK FALSE

\* scaling past the limit while nodes are created, failing writes, deletion
SPECIFICATION Spec
CONSTANTS
    Clusters = {c1}
    Lists <- Scaling
    Policies = {""}
    MaxEdits = 1
    MaxLost = 0
    MaxCrash = 0
    Hazards = {"api", "status", "delete"}
INVARIANTS
    MastersBounded
    QuorumReachable

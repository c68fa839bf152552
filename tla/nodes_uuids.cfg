\* groups come and go, with the custom resource itself
SPECIFICATION Spec
CONSTANTS
    Clusters = {c1}
    Lists <- RegroupedOrInvalid
    Policies = {""}
    MaxEdits = 1
    MaxLost = 0
    MaxCrash = 1
    Hazards = {"api", "status", "es", "delete"}
INVARIANTS
    TypeOK
    UUIDsBlamedRightly

\* liveness when nothing fails, for every redundancy policy
SPECIFICATION FairSpec
CONSTANTS
    Clusters = {c1}
    Lists <- Sizes
    Policies = {"", "Zero", "Single", "Multiple", "Full"}
    MaxEdits = 1
    MaxLost = 0
    MaxCrash = 0
    Hazards = {}
PROPERTIES
    Converges

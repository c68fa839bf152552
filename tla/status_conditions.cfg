\* a cluster with a node and a second cluster, changes during a pass, failures
SPECIFICATION FairSpec
CONSTANTS
    c1 = c1
    c2 = c2
    n1 = n1
    Clusters = {c1, c2}
    Node = {n1}
    Home <- OneNode
    PodLists <- SomePods
    Settings <- SomeSettings
    MaxDisk = 3
    Unreadable = {1}
    MaxChanges = 2
    MaxFaults = 1
INVARIANTS
    TypeOK
    OwnWatermarks
PROPERTIES
    StatusBecomesTrue

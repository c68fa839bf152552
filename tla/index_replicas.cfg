\* indices come and go during a pass, some requests fail; of two templates one
\* is listed as Elasticsearch lists it and one by its name alone
SPECIFICATION FairSpec
CONSTANTS
    Templates = {a, b}
    OneField = {a}
    Indices = {i, j}
    Counts = {0, 1, 2}
    Default = 1
    NoSetting = NoSetting
    MaxEdits = 1
    MaxChurn = 3
    MaxFaults = 1
INVARIANTS
    TypeOK
    NoneLeftBehind
PROPERTIES
    Converges

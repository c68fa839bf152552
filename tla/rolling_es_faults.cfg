\* failing Elasticsearch requests
SPECIFICATION Spec
CONSTANTS
    N = 2
    Tmpls = {t1, t2}
    Unsched = {}
    NoTmpl = NoTmpl
    MaxEdits = 1
    MaxSecret = 2
    Hazards = {"es"}
INVARIANTS
    TypeOK
    AllocationOwned
    ScaledDownOwned
    NoLostRollout

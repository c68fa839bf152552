\* three nodes, nothing fails: an edit of the spec and a new secret; it ends
SPECIFICATION FairSpec
CONSTANTS
    N = 3
    Tmpls = {t1, t2}
    Unsched = {}
    NoTmpl = NoTmpl
    MaxEdits = 1
    MaxSecret = 2
    Hazards = {}
INVARIANTS
    AtMostOneRestarting
    NoMissedRedeploy
PROPERTIES
    NoSpuriousRedeploy
    LeaveWithAllocationOff
    IsRollingRestart
    Converges

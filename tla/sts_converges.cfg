\* liveness of the restart when nothing fails
SPECIFICATION FairSpec
CONSTANTS
    MaxPods = 3
    Others = 2
    Tmpls = {t1}
    Unsched = {}
    NoTmpl = NoTmpl
    MaxEdits = 0
    MaxSecret = 3
    MaxCrash = 0
    Hazards = {}
INVARIANTS
    NoMissedRedeploy
PROPERTIES
    SecretReachesPods

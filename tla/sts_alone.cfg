\* restarts one pod at a time
SPECIFICATION Spec
CONSTANTS
    MaxPods = 3
    Others = 1
    Tmpls = {t1}
    Unsched = {}
    NoTmpl = NoTmpl
    MaxEdits = 0
    MaxSecret = 2
    MaxCrash = 0
    Hazards = {"api", "status", "rotate", "fast"}
PROPERTIES
    TakenDownAlone

\* one node, everything that can go wrong
SPECIFICATION Spec
CONSTANTS
    N = 1
    Tmpls = {t1, t2}
    Unsched = {t2}
    NoTmpl = NoTmpl
    MaxEdits = 1
    MaxSecret = 2
    Hazards = {"slow", "api", "status", "es", "rotate", "pod", "crash"}
INVARIANTS
    StatusConsistent
PROPERTIES
    PhaseAdvances

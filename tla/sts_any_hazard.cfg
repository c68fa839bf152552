\* updates, unschedulable pods and faults
SPECIFICATION Spec
CONSTANTS
    MaxPods = 2
    Others = 1
    Tmpls = {t1, t2, t3}
    Unsched = {t2}
    NoTmpl = NoTmpl
    MaxEdits = 2
    MaxSecret = 1
    MaxCrash = 1
    Hazards = {"es", "status", "lateError"}
INVARIANTS
    TypeOK
    StatusConsistent

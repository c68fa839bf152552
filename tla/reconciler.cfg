\* two events: changes by users, failures and restarts, anywhere in a reconcile
\* an unmanaged resource leaves nothing to do
CHECK_DEADLOCK FALSE
SPECIFICATION FairSpec
CONSTANTS
    Specs <- SomeSpecs
    Absent = Absent
    Foreign = Foreign
    Tries = 2
    MaxProgress = 1
    MaxEvents = 2
INVARIANTS
    TypeOK
PROPERTIES
    NoLostProgress
    NotUnnoticed
    HandsOff
    Converges

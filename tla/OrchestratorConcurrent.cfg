SPECIFICATION LiveSpec
CONSTANTS
    Requests = {r1}
    Threads = {t1, t2}
    Faults = {}
    notify_on_none = TRUE
    MaxStamps = 4
    MaxExpired = 1
    MaxRestarts = 1
INVARIANTS
    WorkIsDriven
    OwnerNeverStranded
PROPERTIES
    WorkEnds
CHECK_DEADLOCK FALSE

SPECIFICATION Spec
CONSTANTS
    Requests = {r1}
    Threads = {t1, t2}
    Faults = {}
    notify_on_none = FALSE
    MaxStamps = 4
    MaxExpired = 0
    MaxRestarts = 0
SYMMETRY Symmetry
INVARIANTS
    AppliedOnce
CHECK_DEADLOCK FALSE

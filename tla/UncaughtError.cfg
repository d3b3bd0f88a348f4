SPECIFICATION SerialSpec
CONSTANTS
    Requests = {r1}
    Threads = {t1}
    Faults = {"classify", "store", "notify"}
    notify_on_none = FALSE
    MaxStamps = 4
    MaxExpired = 0
    MaxRestarts = 0
SYMMETRY Symmetry
INVARIANTS
    ErrorsEndInFailed
CHECK_DEADLOCK FALSE

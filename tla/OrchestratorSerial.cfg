SPECIFICATION SerialSpec
CONSTANTS
    Requests = {r1, r2}
    Threads = {t1, t2}
    Faults = {}
    notify_on_none = FALSE
    MaxStamps = 5
    MaxExpired = 0
    MaxRestarts = 1
SYMMETRY Symmetry
INVARIANTS
    AppliedOnce
    RevisionsAreVersioned
    RevisionsBuildOnTheLast
    DocumentsWereOffered
    DocumentsFitTheIntent
PROPERTIES
    AllowedEdges
    KeepsPromise
CHECK_DEADLOCK FALSE

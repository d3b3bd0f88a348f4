SPECIFICATION Spec
CONSTANTS
    Requests = {r1}
    Threads = {t1, t2}
    Faults = {"classify", "store", "notify"}
    notify_on_none = TRUE
    MaxStamps = 4
    MaxExpired = 1
    MaxRestarts = 1
SYMMETRY Symmetry
INVARIANTS
    TypeOK
    ApprovalHasDocument
    DocumentsAreConfirmed
    GeneratesActionable
    IngestIsAlone
CHECK_DEADLOCK FALSE

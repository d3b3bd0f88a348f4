SPECIFICATION LiveSpec
CONSTANTS
    Clients = {c1, c2}
    Inactivity = 2
    MaxDuration = 3
    MaxLag = 1
    MaxMessages = 5
    LastArrival = 5
    MaxTime = 7
INVARIANTS
    TypeOK
    WindowsRespected
    EveryMessageOnce
    NotSplitEarly
PROPERTIES
    EveryBucketCloses
CHECK_DEADLOCK FALSE

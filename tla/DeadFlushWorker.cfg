SPECIFICATION LiveSpec
CONSTANTS
    c1 = c1
    c2 = c2
    m1 = m1
    m2 = m2
    m3 = m3
    m4 = m4
    Clients = {c1, c2}
    Messages = {m1, m2, m3, m4}
    sender <- MCsender
    Bodies <- MCBodies
    Inactivity = 1
    MaxDuration = 2
    MayRaise = FALSE
    MaxDeliveries = 2
    LastDelivery = 2
    MaxTime = 3
PROPERTIES
    EveryBucketIsFlushed
CHECK_DEADLOCK FALSE

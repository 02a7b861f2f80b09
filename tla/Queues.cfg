SPECIFICATION MCSpec
CONSTANTS
    Users = {u1, u2}
    Queues = {q1, q2}
    FirstQueue = q1
    FirstUser = u1
    MaxInits = 1
    Clients = {t1, t2}
    Signals = {s1, s2}
    Contexts = {1}
    Slots = {1}
INVARIANTS
    ErrorReportedOnce
    DestroyedQueuesSafe
    FaultKillsSignals
PROPERTIES
    RuntimeCallsReturn
    WaitersReleased
CHECK_DEADLOCK FALSE

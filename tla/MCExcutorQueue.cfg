CONSTANTS
    Messages = {m1, m2, m3, m4}
    Mine = {m1, m2, m3}
    Timed = TRUE
    None = None
SPECIFICATION FairSpec
CHECK_DEADLOCK FALSE
INVARIANTS
    TypeOK
    WakeupPending
    WorkerGoneFirst
PROPERTIES
    HandlesInOrder
    QueuedIsHandled
    UninitReturns

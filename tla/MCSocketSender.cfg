CONSTANTS
    Threads = {t1, t2}
    Executors = {service, event}
    MaxCommands = 3
    MaxStream = 1
SPECIFICATION FairSpec
CHECK_DEADLOCK FALSE
INVARIANTS
    TypeOK
    OwnUntilTimeout
PROPERTIES
    CallReturns
    RepliesInOrder

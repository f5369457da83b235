CONSTANTS
    Clients = {c1, c2}
    Commands = {k1, k2, k3}
    Fds = {f1, f2}
    None = None
    KillTime = 1
    TotalTime = 2
    MaxWait = 3
SPECIFICATION FairSpec
CHECK_DEADLOCK FALSE
INVARIANTS
    TypeOK
    NothingLeftBehind
    EndsItsOwn
PROPERTIES
    DestroyLeavesNone
    HandledInTheEnd

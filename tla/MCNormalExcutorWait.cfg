CONSTANTS
    Clients = {c1}
    Commands = {k1, k2}
    Fds = {f1, f2}
    None = None
    KillTime = 10
    TotalTime = 20
    MaxWait = 25
SPECIFICATION Spec
CHECK_DEADLOCK FALSE
INVARIANTS
    WaitBounded

CONSTANTS
    Names = {n1, n2}
    Addrs = {a1, a2}
    Pids = {p1, p2}
    Clients = {c1}
    Sequences = {1}
    Flags = {f1}
    Deaf = {n2}
    MaxRunning = 3
SPECIFICATION FairSpec
CHECK_DEADLOCK FALSE
PROPERTIES
    EndedIsReaped
    StopOfRunningEnds

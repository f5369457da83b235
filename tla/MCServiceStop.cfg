CONSTANTS
    Names = {n1}
    Addrs = {a1}
    Pids = {p1}
    Clients = {c1}
    Sequences = {1}
    Flags = {f1}
    Deaf = {}
    MaxRunning = 3
SPECIFICATION FairSpec
CHECK_DEADLOCK FALSE
PROPERTIES
    StopEnds

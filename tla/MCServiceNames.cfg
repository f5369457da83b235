CONSTANTS
    Names = {n1, n2, n3}
    Addrs = {a1, a2, a3}
    Pids = {p1, p2, p3, p4}
    Clients = {c1}
    Sequences = {1}
    Flags = {f1}
    Deaf = {}
    MaxRunning = 3
SPECIFICATION Spec
SYMMETRY Symmetric
CHECK_DEADLOCK FALSE
INVARIANTS
    OneProcessPerName

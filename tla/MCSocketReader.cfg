CONSTANTS
    Conns = {c1, c2, c3}
    Clients = {a, b}
    Trusted = {a}
    CommandNum = 2
    Inputs = {2}
    ClientNum = 2
    FdNum = 3
    None = None
    Owner <- MCOwner
    c1 = c1
    c2 = c2
    c3 = c3
    a = a
    b = b
SPECIFICATION FairSpec
CHECK_DEADLOCK FALSE
INVARIANTS
    TypeOK
    DescriptorsOwn
    NoOrphans
    AnswersReachAsker
PROPERTIES
    EndReachesCommands

CONSTANTS
    Names = {n1, n2}
    Packaged = {n1}
    Restarting = {n2}
    None = None
    MaxRequests = 2
SPECIFICATION FairSpec
CHECK_DEADLOCK FALSE
INVARIANTS
    TypeOK
    NeverRecorded
    
    RetriedOrDropped
PROPERTIES
    DeletedIsLeftAlone

CONSTANTS
    Threads = {t1}
    Receiver = r
    Names = {n}
    CallNum = 3
    OtherLabels = {e1}
    CallbackOps = {"CHECK", "RUN", "STOP", "PAUSE"}
    None = None
SPECIFICATION FairSpec
CHECK_DEADLOCK FALSE
INVARIANTS
    TypeOK
    DiesOnlyOf
    NotTold
    StopStops
PROPERTIES
    EndedStays
    CallsReturn

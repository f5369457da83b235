CONSTANTS
    Threads = {t1}
    Executors = {service}
    MaxCommands = 3
    MaxStream = 2
SPECIFICATION Spec
CHECK_DEADLOCK FALSE
INVARIANTS
    ResultIsOwn

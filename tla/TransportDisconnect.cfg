CONSTANTS
    Transports = {t1}
    Tcp = {t1}
    MaxDisconnects = 1
    WIN32_MAX_FHS = 4
    FhCounts = {4}
    MaxIn = 1
    MaxOut = 1
    None = None
SPECIFICATION Spec
INVARIANTS ClosedAfterThreads
CHECK_DEADLOCK FALSE

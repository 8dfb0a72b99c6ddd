CONSTANTS
    Transports = {t1, u1}
    Tcp = {t1}
    MaxDisconnects = 2
    WIN32_MAX_FHS = 3
    FhCounts = {0, 3}
    MaxIn = 0
    MaxOut = 0
    None = None
SPECIFICATION FairSpec
INVARIANTS KickedOnce
PROPERTIES DisconnectedIsFreed
CHECK_DEADLOCK FALSE

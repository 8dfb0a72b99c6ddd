CONSTANTS
    Transports = {u1, u2}
    Tcp = {}
    MaxDisconnects = 0
    WIN32_MAX_FHS = 4
    FhCounts = {0, 3, 4}
    MaxIn = 1
    MaxOut = 1
    None = None
SPECIFICATION FairSpec
INVARIANTS TransportInv DescriptorsIntact Handshake ClosedAfterThreads
PROPERTIES GoneIsFreed
CHECK_DEADLOCK FALSE

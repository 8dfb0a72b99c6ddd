CONSTANTS
    Count = 5
    WAIT_ALL_CHUNK_SIZE = 2
    Sockets = {0, 2, 3}
    MaxFailures = 1
SPECIFICATION WaitSpec
INVARIANTS WaitInv ResultRight
PROPERTIES CallReturns PairsNoticed

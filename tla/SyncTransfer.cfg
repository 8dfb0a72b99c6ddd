CONSTANTS
    f1 = f1
    f2 = f2
    f3 = f3
    FileList <- ThreeFiles
    Local <- Contents
    Readable <- CanRead
    Old <- OldContents
    Locked = {f3}
    Commands = {"push", "one", "sync", "would", "pull", "ls"}
    MaxSessions = 2
    Overlap = FALSE
    Cap = 2
    MaxFaults = 1
    None = None
SPECIFICATION Spec
INVARIANTS SyncInv SkipOnlyCurrent PulledIsWhole
PROPERTIES TransferSpec SessionsEnd
CHECK_DEADLOCK FALSE

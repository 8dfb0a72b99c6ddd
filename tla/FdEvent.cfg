CONSTANTS
    Fds = {f1, f2}
    MaxData = 2
    MaxFill = 1
SPECIFICATION FairSpec
INVARIANTS LoopInv
PROPERTIES ReadDelivered
CHECK_DEADLOCK FALSE

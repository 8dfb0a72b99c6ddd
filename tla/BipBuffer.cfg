CONSTANTS
    BIP_BUFFER_SIZE = 3
    Reader = r
    Writers = {w1}
    Closers = {c1, c2}
    NoOne = none
    Lens = {1, 4}
    MaxBytes = 6
SPECIFICATION BipFairSpec
INVARIANTS BufferInv NoLostWakeup
PROPERTIES PipeSpec CallsReturn BytesArrive
CHECK_DEADLOCK FALSE

CONSTANTS
    Transports = {u1, u2, e1, e2}
    Usb = {u1, u2}
    Ports = {p1}
    MaxLocal = 2
    None = None
SPECIFICATION Spec
INVARIANTS SourcesInv TableRight
PROPERTIES UsbReturns SlotsFreed

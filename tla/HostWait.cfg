CONSTANTS
    u1 = u1
    Transports = {a1, a2}
    Tcp = {a1, a2}
    SerialOf <- Addresses
    Banners = {"device", "other"}
    MaxCnxn = 2
    None = None
    Names = {n0}
    SmartName = n0
    Dests = {d1}
    Star = Star
    Trackers = {}
    Waiters = {w1}
    Targets = {"any", "addr"}
SPECIFICATION Spec
PROPERTIES WaitAnswered
CHECK_DEADLOCK FALSE

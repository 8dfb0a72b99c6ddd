CONSTANTS
    u1 = u1
    Transports = {a1, u1}
    Tcp = {a1}
    SerialOf <- Addresses
    Banners = {"device", "other"}
    MaxCnxn = 2
    None = None
    Names = {n0, n1}
    SmartName = n0
    Dests = {d1, d2}
    Star = Star
    Trackers = {k1}
    Waiters = {}
    Targets = {"any", "addr", "usb"}
SPECIFICATION Spec
INVARIANTS ServerInv ForwardsOnline TrackersCurrent
PROPERTIES GoneIsForgotten
CHECK_DEADLOCK FALSE

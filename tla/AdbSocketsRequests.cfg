CONSTANTS
    Clients = {c1, c2}
    Services = {s1}
    Scripts <- RequestScripts
    MAX_PAYLOAD = 2
    Room = 1
    MaxSent = 1
    None = None
    Smart = Smart
    Remote = Remote
SPECIFICATION Spec
SYMMETRY ClientSymmetry
INVARIANTS StatusFirst PeersLinked TransportUnused
CHECK_DEADLOCK FALSE

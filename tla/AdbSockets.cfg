CONSTANTS
    Clients = {c1}
    Services = {}
    Scripts <- StreamScripts
    MAX_PAYLOAD = 2
    Room = 1
    MaxSent = 3
    None = None
    Smart = Smart
    Remote = Remote
SPECIFICATION FairSpec
INVARIANTS SocketsInv FlowControl BytesInOrder
PROPERTIES Served Unplugged
CHECK_DEADLOCK FALSE

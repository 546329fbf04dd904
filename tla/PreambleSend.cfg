CONSTANTS
    NoConn = NoConn
    Conns = {c1, c2}
    Capacity = 2
    WindowLen = 3
    MaxPackets = 2
    MaxWindows = 2
SPECIFICATION TimedSpec
PROPERTIES
    EveryPacketLeaves
    EveryWindowGoesOut
CHECK_DEADLOCK FALSE

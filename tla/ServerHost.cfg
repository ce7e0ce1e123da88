SPECIFICATION Spec
CONSTANTS
    PoolSize = 2
    Handles = {1, 2}
    MaxConnections = 3
    MaxVoid = 1
    MaxQueue = 2
    MaxPackets = 1
    IndexAssigned = TRUE
INVARIANTS
    ServerHostTypeOK
    TagsExact
    SocketsOwned
    PacketsExpected
    
PROPERTIES
    ImplementsPacketOrder
    SessionsServed
    StopHeeded

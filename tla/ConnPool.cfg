SPECIFICATION FairSpec
CONSTANTS
    Clients = {c1, c2}
    Conns = {x1, x2}
    NoConn = NoConn
    Kinds = {"do", "rpush", "slave"}
    BatchLen = 1
    KeepAlive = 2
    AliveTime = 1
    MaxClock = 2
    MaxCalls = 2
INVARIANTS
    TypeOK
    SingleOwner
    RepliesMatch
    EconnUnsent
    SocketsOwned
PROPERTIES
    NoStaleConn
    CallReturns
    ShutdownDrains
CHECK_DEADLOCK FALSE

CONSTANTS
    s1 = s1
    s2 = s2
    f1 = f1
    f2 = f2
    Sessions = {s1, s2}
    Flows = {f1, f2}
    Claims <- QuicClaims
    NoClaim = NoClaim
    MaxGeneration = 4
    PendingFlowsPerSession = 2
    UDPFlowsPerSession = 1
    TCPIdleConnections = 1
    PortalClaims = 3
    Conns <- TwoSessionConns
    NoConn = NoConn
    MaxSessions = 1
SPECIFICATION ManagerSpec
INVARIANTS
    
    RegisteredIsPresent
CHECK_DEADLOCK FALSE

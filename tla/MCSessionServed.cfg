CONSTANTS
    s1 = s1
    s2 = s2
    f1 = f1
    f2 = f2
    Sessions = {s1}
    Flows = {f1, f2}
    Claims <- SplitClaims
    NoClaim = NoClaim
    MaxGeneration = 5
    PendingFlowsPerSession = 2
    UDPFlowsPerSession = 1
    TCPIdleConnections = 1
    PortalClaims = 3
    Conns <- ThreeConns
    NoConn = NoConn
    MaxSessions = 1
SPECIFICATION ManagerServeSpec
INVARIANT CurrentConnServed
CHECK_DEADLOCK FALSE

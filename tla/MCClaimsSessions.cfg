CONSTANTS
    s1 = s1
    s2 = s2
    f1 = f1
    f2 = f2
    Sessions = {s1, s2}
    Flows = {f1, f2}
    Claims <- TwoSessionClaims
    NoClaim = NoClaim
    MaxGeneration = 4
    PendingFlowsPerSession = 1
    UDPFlowsPerSession = 1
    TCPIdleConnections = 1
    PortalClaims = 2
SPECIFICATION ServeSpec
INVARIANTS
    CurrentGenerationOnly
    TombstonesBounded
CHECK_DEADLOCK FALSE

CONSTANTS
    s1 = s1
    s2 = s2
    f1 = f1
    f2 = f2
    Sessions = {s1}
    Flows = {f1, f2}
    Claims <- ShutdownClaims
    NoClaim = NoClaim
    MaxGeneration = 4
    PendingFlowsPerSession = 2
    UDPFlowsPerSession = 1
    TCPIdleConnections = 1
    PortalClaims = 3
SPECIFICATION Spec
INVARIANTS
    CountersExact
    HeldIsOwned
    ClosedStaysEmpty
CHECK_DEADLOCK FALSE

CONSTANTS
    s1 = s1
    s2 = s2
    f1 = f1
    f2 = f2
    Sessions = {s1}
    Flows = {f1, f2}
    Claims <- PairClaims
    NoClaim = NoClaim
    MaxGeneration = 3
    PendingFlowsPerSession = 2
    UDPFlowsPerSession = 1
    TCPIdleConnections = 1
    PortalClaims = 3
SPECIFICATION FairSpec
PROPERTIES
    EveryHalfSettles
    CloseReleasesEverything
CHECK_DEADLOCK FALSE

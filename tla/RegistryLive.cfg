CONSTANTS
    k1 = k1
    k2 = k2
    k3 = k3
    s1 = s1
    s2 = s2
    None = None
    Revoker = Revoker
    Kinds <- ControlOnly
    Sessions <- OneSession
    Connections <- OneConnections
    MaxEvents = 1
    Timeouts = TRUE
    MaxLate = 1
    MaxRestarts = 1
SPECIFICATION FairSpec
PROPERTY LossIsNoticed

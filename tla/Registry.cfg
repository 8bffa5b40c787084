CONSTANTS
    k1 = k1
    k2 = k2
    k3 = k3
    s1 = s1
    s2 = s2
    None = None
    Revoker = Revoker
    Kinds <- BothKinds
    Sessions <- OneSession
    Connections <- TwoConnections
    MaxEvents = 1
    Timeouts = FALSE
    MaxLate = 0
    MaxRestarts = 0
SPECIFICATION Spec
SYMMETRY Symmetry
INVARIANT RegisteredIsServed
INVARIANT RevokedIsOut
INVARIANT KnownIsHosted
INVARIANT ViewsSettle
INVARIANT RevokedIsUnlinked

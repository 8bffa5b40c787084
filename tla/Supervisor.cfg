CONSTANTS
    h1 = h1
    h2 = h2
    h3 = h3
    s1 = s1
    small = small
    large = large
    None = None
    Handlers <- ThreeHandlers
    Sessions <- OneSession
    Sizes <- TwoSizes
    Fitting <- OneSize
    Faults = TRUE
    Interrupts = TRUE
    MaxCrashes = 1
SPECIFICATION FairSpec
INVARIANT CreatedIsKept
INVARIANT DeletedIsGone
PROPERTY RemovedIsDetached
PROPERTY RestoresExactly
PROPERTY CallsEnd

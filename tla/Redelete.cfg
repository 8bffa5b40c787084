CONSTANTS
    h1 = h1
    h2 = h2
    h3 = h3
    s1 = s1
    small = small
    large = large
    None = None
    Handlers <- TwoHandlers
    Sessions <- OneSession
    Sizes <- OneSize
    Fitting <- OneSize
    Faults = FALSE
    Interrupts = TRUE
    MaxCrashes = 0
SPECIFICATION Spec
INVARIANT AnsweredIsGone

CONSTANTS
    c1 = c1
    c2 = c2
    i1 = i1
    i2 = i2
    i3 = i3
    none = none
    None <- none
    Callers <- TwoCallers
    Instances <- OneInstance
    Interrupts = TRUE
    MaxStrays = 0
SPECIFICATION FairSpec
PROPERTY CommandsEnd

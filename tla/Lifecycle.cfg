CONSTANTS
    c1 = c1
    c2 = c2
    i1 = i1
    i2 = i2
    i3 = i3
    none = none
    None <- none
    Callers <- TwoCallers
    Instances <- TwoInstances
    Interrupts = TRUE
    MaxStrays = 1
SPECIFICATION Spec
SYMMETRY Symmetry
INVARIANT VmOwned
INVARIANT StoppedIsReleased
PROPERTY LossIsReported
PROPERTY BootsOnFreeDisk
PROPERTY ContractSpec

CONSTANTS
    NoRecord = NoRecord
    Asks <- AllButReprovision
    MaxRequests = 2
    MaxEvictions = 1
    MaxFaults = 1
    MaxMishaps = 1
SPECIFICATION Spec
INVARIANT Backed
INVARIANT IdleStopSparesRuns
INVARIANT GoneLeavesNothing
PROPERTY WorkIsKept
CHECK_DEADLOCK FALSE

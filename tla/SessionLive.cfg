CONSTANTS
    NoRecord = NoRecord
    Asks = {"delete"}
    MaxRequests = 1
    MaxEvictions = 1
    MaxFaults = 1
    MaxMishaps = 1
SPECIFICATION FairSpec
PROPERTY DeletionEnds
PROPERTY WorkEnds
PROPERTY IdleIsStopped
CHECK_DEADLOCK FALSE

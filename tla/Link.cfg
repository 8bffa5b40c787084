CONSTANTS
    MaxRequests = 2
    MaxLinks = 3
    MaxEvictions = 1
    MaxFaults = 1
    MaxControls = 1
    MaxMishaps = 1
SPECIFICATION FairSpec
INVARIANT AnswersMatch
INVARIANT OneLink
INVARIANT CutIsFinal
PROPERTY RequestsEnd
PROPERTY Relinked
CHECK_DEADLOCK FALSE

SPECIFICATION TestsSpec
CONSTANTS
    N = 3
    MaxLate = 11
    Timeout = 2
    Sleep = 4
    MaxCalls = 3
INVARIANTS
    SoundWiresPass
    PassMeansConnected
    FailMeansLoss
    SenderStopsFirst
PROPERTIES
    VerdictIsOwn
CHECK_DEADLOCK FALSE

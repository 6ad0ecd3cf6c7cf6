SPECIFICATION FairSpec
CONSTANTS
    Attempts = 3
    MaxLives = 4
    FaultKinds = {"qdrant", "proxy", "sigterm", "crash", "idle"}
    MaxFaults = 3
INVARIANTS
    TypeOK
    RunningIsReady
PROPERTIES
    ImplementsProcess
    EventuallyServing
CHECK_DEADLOCK FALSE

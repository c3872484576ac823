SPECIFICATION PoolSpec
CONSTANTS
    Worker = {w1, w2}
    NumVenues = 1
    MaxConcurrency = 1
    MaxAttempts = 2
    Chaos = TRUE
    SlowShutdown = FALSE
    FaultKinds = {"gone"}
    MaxTicks = 2
    MaxRequests = 1
CHECK_DEADLOCK FALSE
PROPERTIES
    EveryPollEnds
    ShutdownEnds

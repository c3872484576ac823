SPECIFICATION PoolSpec
CONSTANTS
    Worker = {w1, w2, w3}
    NumVenues = 2
    MaxConcurrency = 1
    MaxAttempts = 1
    Chaos = TRUE
    SlowShutdown = TRUE
    FaultKinds = {"store", "kafka"}
    MaxTicks = 1
    MaxRequests = 1
SYMMETRY Symmetry
CHECK_DEADLOCK FALSE
INVARIANTS
    OutcomesMatchTopics
    InterruptedRunsFinish

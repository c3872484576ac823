SPECIFICATION ConsumerSpec
CONSTANTS
    i1 = i1
    i2 = i2
    Item = {i1, i2}
    EventIds = {1, 2, 3}
    Scripts <- MCScripts
    Chaos = FALSE
    Overrides = {}
    FaultKinds = {"redis"}
    MaxFaults = 1
    MaxReplays = 0
CHECK_DEADLOCK FALSE
INVARIANT CommittedMeansProcessed

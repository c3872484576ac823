SPECIFICATION ConsumerSpec
CONSTANTS
    i1 = i1
    i2 = i2
    Item = {i1}
    EventIds = {1, 2, 3}
    Scripts <- MCShortScripts
    Chaos = TRUE
    Overrides = {"sold_out"}
    FaultKinds = {"mark", "ack", "redis", "mongo", "unmark", "commit", "rejoin", "crash"}
    MaxFaults = 2
    MaxReplays = 1
CHECK_DEADLOCK FALSE
INVARIANTS
    
    
    PassedOverOnlyIfThrown
    NewestIsShown
PROPERTIES
    LoopKeepsOrder
    EveryRecordProcessed

SPECIFICATION PathSpec
CONSTANTS
    v1 = v1
    i1 = i1
    Venue = {v1}
    Item = {i1}
    ItemVenue <- MCItemVenue
    Tx = {t1}
    RepeatableRead = TRUE
    ObservedVersions = TRUE
    MaxVersion = 2
    MaxOutboxId = 3
    Relay = {r1}
    MaxFaults = 1
    Chaos = FALSE
    Overrides = {}
    FaultKinds = {"crash"}
    MaxConsumerFaults = 1
    MaxReplays = 0
CHECK_DEADLOCK FALSE
INVARIANTS
    PublishedInOrder
    AvailabilityFollowsMenu

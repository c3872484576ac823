SPECIFICATION ServiceSpec
CONSTANTS
    v1 = v1
    i1 = i1
    Venue = {v1}
    Item = {i1}
    ItemVenue <- MCItemVenue
    Tx = {t1}
    RepeatableRead = TRUE
    ObservedVersions = TRUE
    MaxVersion = 1
    MaxOutboxId = 2
    Relay = {r1, r2}
    MaxFaults = 2
CHECK_DEADLOCK FALSE
INVARIANTS
    PublishedWasSent
    OneClaimant
PROPERTIES
    ImplementsMenuEvents
    EveryWritePublished

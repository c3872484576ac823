SPECIFICATION RepositorySpec
CONSTANTS
    v1 = v1
    v2 = v2
    i1 = i1
    i2 = i2
    Venue = {v1}
    Item = {i1}
    ItemVenue <- MCItemVenue
    Tx = {t1, t2, t3}
    RepeatableRead = FALSE
    ObservedVersions = TRUE
    MaxVersion = 2
    MaxOutboxId = 4
SYMMETRY Symmetry
CHECK_DEADLOCK FALSE
INVARIANTS
    RepositoryTypeOK
    OutboxMatchesItems
    IdsFollowVersions
    RepliesAreHonest
PROPERTY ItemHistoryProperty

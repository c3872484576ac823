SPECIFICATION CompositionSpec
CONSTANTS
    Venue = {v1}
    Req = {r1, r2, r3}
    None = None
    Pending = Pending
    Failed = Failed
    MaxUpdates = 1
INVARIANTS
    SingleFlight
    WaitersAreLed
    NeverOlder
PROPERTY EveryRequestEnds

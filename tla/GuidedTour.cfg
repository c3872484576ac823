SPECIFICATION TourSpec
CONSTANTS
    edit = edit
    soldOut = soldOut
    Write = {edit, soldOut}
    What <- MCWhat
    MAX_BUFFERED_SPANS = 2
    MaxActs = 1
    None = None
CHECK_DEADLOCK FALSE
INVARIANTS
    DrawnOncePerArrival
    GapsArePaired
    StepsAreEarned
PROPERTIES
    TicksStay
    TicksComeBack

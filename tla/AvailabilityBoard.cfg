SPECIFICATION BoardSpec
CONSTANTS
    Item = {i1, i2}
    Venue = {home, other}
    Home = home
    Status = {in_stock, sold_out}
    InStock = in_stock
    Contended = {i1}
    MaxPuts = 2
    MaxActs = 2
    None = None
    Absent = Absent
    Loading = Loading
CHECK_DEADLOCK FALSE
INVARIANTS
    QuietBoardIsAnAnswer
    OneWriteAtATime
PROPERTIES
    ChangedVerdictHasCause
    BoardConverges

SPECIFICATION EditorSpec
CONSTANTS
    i1 = i1
    i2 = i2
    Item = {i1, i2}
    Price = {1, 2}
    MaxMutations = 2
    MaxOtherWrites = 1
    MaxVisits = 2
    FirstRows <- MCFirstRows
    None = None
    Gone = Gone
    Loading = Loading
CHECK_DEADLOCK FALSE
INVARIANTS
    SameVersionSameRow
PROPERTIES
    FailedReorderIsUndone
    UntouchedFieldsKept

SPECIFICATION FairSpec
CONSTANTS
    Calls = {c1}
    SideEffecting = {c1}
    RequestIds = {i1}
    MaxPending = 1
PROPERTIES
    MergerMovesOn
    CloseEndsEveryCall

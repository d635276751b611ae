SPECIFICATION Spec
CONSTANTS
    Calls = {c1, c2}
    SideEffecting = {c1}
    RequestIds = {i1, i2}
    MaxPending = 2
SYMMETRY ToolSymmetry
INVARIANTS
    EveryCallIsAccountedFor
PROPERTIES
    NothingAfterReflection
    KeepsToolContract

CONSTANTS
    a = a
    b = b
    empty = empty
    zeros = zeros
    x = x
    y = y
    long = long
    null = null
    Cols <- MCCols
    Values <- FewValues
    Default <- empty
    Padded <- FewPadded
    Refused <- MCRefused
    Null <- null
    Plains <- MCPlains
    Nullables = {TRUE, FALSE}
    Reshapes = {FALSE}
    Capacity <- MCCapacity
    Truncates = FALSE
    MaxRows = 2
    MaxKeys = 1
SPECIFICATION Spec
INVARIANTS
    MapInStep
    ReadsBack
SYMMETRY Symmetry
CHECK_DEADLOCK FALSE

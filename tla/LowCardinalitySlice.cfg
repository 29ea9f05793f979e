CONSTANTS
    a = a
    b = b
    empty = empty
    zeros = zeros
    x = x
    y = y
    long = long
    null = null
    Cols <- MCCols
    Values <- MCValues
    Default <- empty
    Padded <- MCPadded
    Refused <- MCRefused
    Null <- null
    Plains <- MCPlains
    Nullables = {TRUE}
    Reshapes = {TRUE}
    Capacity <- MCCapacity
    Truncates = FALSE
    MaxRows = 2
    MaxKeys = 2
SPECIFICATION Spec
INVARIANT ReadsBack
CHECK_DEADLOCK FALSE

CONSTANTS
    one = one
    two = two
    k = k
    l = l
    zero = zero
    v = v
    null = null
    long = long
    Cols <- MCCols
    Keys <- MCKeys
    Values <- MCValues
    Default <- zero
    Null <- null
    TooLong <- long
    Inputs <- MCInputs
    Sent <- MCSent
    MaxRows = 2
SPECIFICATION Spec
INVARIANTS
    SizesAgree
    ReadsBack
SYMMETRY Symmetry
CHECK_DEADLOCK FALSE

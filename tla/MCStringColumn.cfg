CONSTANTS
    one = one
    two = two
    Cols <- MCCols
    Texts <- MCTexts
    BlockSize = 2
    Sent <- MCSent
    MaxRows = 2
    MaxMoved = 1
SPECIFICATION Spec
INVARIANTS
    BlocksHold
    ReadsBack
SYMMETRY Symmetry
CHECK_DEADLOCK FALSE

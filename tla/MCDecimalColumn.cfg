SPECIFICATION Spec

CONSTANTS
    one = one
    two = two
    Cols <- MCCols
    LimbBits = 4
    Limbs = 3
    Radix = 3
    ChunkLen = 2
    StrLen = 9
    Int32Precision = 1
    Int64Precision = 4
    DecimalTypes <- MCDecimalTypes
    Texts <- MCTexts
    Inputs <- MCInputs
    Numbers <- MCNumbers
    NumeralLen = 8
    TextLen = 5
    MaxText = 5
    MaxRows = 2

SYMMETRY Symmetry
INVARIANT ReadsBack
PROPERTIES ConversionsExact AcceptsExactly

CONSTANTS
    OutSize = 4
    InSize = 3
    Chunks = {0, 1, 3}
    MaxInput = 3
    MaxFrame = 5
    Blocks <- MCBlocks
    MaxPackets = 2
    Lengths = {1, 4}
SPECIFICATION Spec
INVARIANTS
    BytesInOrder
    ReaderNotStranded
    OnlyTheConnectionFails
CHECK_DEADLOCK FALSE

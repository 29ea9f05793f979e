CONSTANTS
    MaxRequests = 2
    MaxPackets = 2
    MaxBlocks = 2
    MaxPings = 2
    MaxCancels = 2
    Options <- MCOptions
SPECIFICATION FairSpec
INVARIANTS
    NoCrossTalk
    IdleMeansDrained
    ServerUnderstands
    OnlyAbandonedQueriesMisled
    InsertComplete
PROPERTIES
    CallsReturn
CHECK_DEADLOCK FALSE

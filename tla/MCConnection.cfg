CONSTANTS
    Listed = 2
    HasHost = TRUE
    SendRetries = 2
SPECIFICATION FairSpec
INVARIANTS
    TypeOK
    FailedCallRestoresEndpoint
    OkMeansConnected
    IteratorFollowsEndpoint
    EveryEndpointTried
    AttemptsBounded
PROPERTIES
    CallsReturn
    ImplementsService
CHECK_DEADLOCK FALSE

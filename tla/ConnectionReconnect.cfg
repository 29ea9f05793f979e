CONSTANTS
    Listed = 1
    HasHost = TRUE
    SendRetries = 1
SPECIFICATION Spec
INVARIANTS
    ReconnectTriesEachEndpoint
CHECK_DEADLOCK FALSE

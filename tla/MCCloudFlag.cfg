CONSTANTS
    Robot = {0, 1}
    Attempts = 2
    MaxTroubles = 3
    Expiry = "never"
SPECIFICATION ReconnectSpec
CHECK_DEADLOCK FALSE
INVARIANT OwnRejection

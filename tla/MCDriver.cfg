\* Commands: two robots behind one driver, three commands, two faults.
\* Connections: two robots, two attempts a connect, two troubles, a cloud
\* that refuses an expired token with a status the driver retries on.
CONSTANTS
    Robots = {r1, r2}
    MaxCommands = 3
    MaxFaults = 2
    Robot = {0, 1}
    Attempts = 2
    MaxTroubles = 2
    Expiry = "rejected"
SPECIFICATION MCSpec
CHECK_DEADLOCK FALSE
INVARIANTS
    NoLateTwist
    RequestsInOrder
    OnceOnly
    OneLoginPerToken
    OnePeer
    LeftAlone
PROPERTIES
    OutlivesOutage
    ComesBack

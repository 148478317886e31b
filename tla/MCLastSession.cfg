\* Two sessions on one robot client, no frames, STAND_DOWN_ON_EXIT set.
CONSTANTS
    Session = {s1, s2}
    Nobody = Nobody
    QueueSize = 1
    MaxFrames = 0
    StandDownOnExit = TRUE
SPECIFICATION HostedSpec
CHECK_DEADLOCK FALSE
PROPERTY
    LastSessionEnds

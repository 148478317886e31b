\* stop_tracking returns and the robot keeps turning.
SPECIFICATION Spec
CONSTANTS
    Threads = {t1, t2}
    Callers = {c1}
    Calls = {"start_tracking", "stop_tracking"}
    NoThread = NoThread
    Still = Still
    Adrift = Adrift
    MaxSweep = 2
    MaxCorrections = 1
    MaxTwists = 1
    ClosedLoop = TRUE
    FindApproach = FALSE
PROPERTY
    StopTrackingHalts

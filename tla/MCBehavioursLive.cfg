\* One caller, two thread slots, a sweep of two steps, one correction, no
\* odometry.
SPECIFICATION FairSpec
CONSTANTS
    Threads = {t1, t2}
    Callers = {c1}
    Calls = {"start_tracking", "start_greeter", "find_object",
             "stop_greeter", "greet_visitor"}
    NoThread = NoThread
    Still = Still
    Adrift = Adrift
    MaxSweep = 2
    MaxCorrections = 1
    MaxTwists = 1
    ClosedLoop = FALSE
    FindApproach = FALSE
PROPERTIES
    SearchTerminates
    StoppedGreeterEnds

\* Three behaviour threads, one caller and every call that starts, stops or
\* moves; two sweep steps at the most, one Twist per turn.  Threads are only
\* compared for equality and all properties are safety properties.
SPECIFICATION Spec
CONSTANTS
    Threads = {t1, t2, t3}
    Callers = {c1}
    Calls = {"start_tracking", "start_greeter", "find_object",
             "stop_greeter", "stop_find", "stop_tracking", "move",
             "stop_moving", "turn_degrees"}
    NoThread = NoThread
    Still = Still
    Adrift = Adrift
    MaxSweep = 1
    MaxCorrections = 0
    MaxTwists = 1
    ClosedLoop = TRUE
    FindApproach = TRUE
SYMMETRY SlotSymmetry
INVARIANTS
    HolderIsMoving
    SearchingHasSearcher
PROPERTIES
    NothingLeftMoving
    TrackerYields

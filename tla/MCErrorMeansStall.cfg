\* A search started while the greeter was on.
SPECIFICATION Spec
CONSTANTS
    Threads = {t1, t2}
    Callers = {c1}
    Calls = {"start_greeter", "find_object"}
    NoThread = NoThread
    Still = Still
    Adrift = Adrift
    MaxSweep = 2
    MaxCorrections = 1
    MaxTwists = 1
    ClosedLoop = TRUE
    FindApproach = FALSE
PROPERTY
    ErrorMeansStall

\* Two tool threads, three requests, a window of one tick; the tool threads are
\* interchangeable and every property checked is a safety property.
\* Subscriptions: two threads, two channels, two requests.  Dog: two tools,
\* gestures of three steps.
SPECIFICATION MCSpec
CHECK_DEADLOCK FALSE
CONSTANTS
    Callers = {c1, c2}
    Names <- MixedNames
    Ballistic <- MCBallistic
    Motions <- MCMotions
    lower <- LowerMixed
    None = None
    Window = 1
    MaxTime = 2
    MaxRequests = 3
    agent = agent
    worker = worker
    Asker = {agent, worker}
    MaxOffers = 2
    MaxIds = 2
    MaxInbox = 2
    Tool = {agent, worker}
    MaxSteps = 3
SYMMETRY CallerSymmetry
INVARIANTS
    Undirected
    HeardUnlessWithdrawn
    LabelIsPose
PROPERTIES
    AcceptedInTime
    TokenSpec

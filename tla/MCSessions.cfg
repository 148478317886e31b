\* A local session: two behaviours that announce two events each through a
\* queue of two; three presses of SPACE, two chunks through a queue of one.
\* The server: two sessions, two frames through a queue of one.  The client:
\* two answers, two chunks of audio.
CONSTANTS
    greeter = greeter
    search = search
    Behaviour = {greeter, search}
    NoEvent = NoEvent
    Capacity = 2
    MaxEvents = 2
    MicSize = 1
    MaxPresses = 3
    MaxChunks = 2
    MaxLines = 1
    s1 = s1
    s2 = s2
    Session = {s1, s2}
    Nobody = Nobody
    QueueSize = 1
    MaxFrames = 2
    StandDownOnExit = TRUE
    Pumps = {"server", "keyboard", "sound"}
    MaxAnswers = 2
    MaxAudio = 2
SPECIFICATION MCSpec
CHECK_DEADLOCK FALSE
INVARIANTS
    FreshUtterance
    ToldInOrder
    StandsDown
    OneClient
    FreshestKept
    BargeIn
    StandsDownAfterHangUp
PROPERTIES
    EndIsHeard
    Announced
    SessionEnds

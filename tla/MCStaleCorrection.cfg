\* _face_target accepts, after a turn, the very frame it has corrected for.
CONSTANTS
    Circle = 12
    Width = 3
    Step = 3
    Over = 1
    Deadzone = 0
    Tolerance = 1
    MaxCorrections = 2
    Needed = 2
    InFlight = 1
    Missed = Missed
SPECIFICATION FacingSpec
CHECK_DEADLOCK FALSE
PROPERTY OneCorrectionPerFrame

\* One tool thread is enough: a name that differs from a ballistic one in case.
SPECIFICATION Spec
CONSTANTS
    Callers = {c1}
    Names <- MixedNames
    Ballistic <- MCBallistic
    Motions <- MCMotions
    lower <- LowerMixed
    None = None
    Window = 1
    MaxTime = 1
    MaxRequests = 1
INVARIANTS
    BallisticIsConfirmed

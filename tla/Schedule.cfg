CONSTANTS
    At = 1
    Delay = 1
    Windows <- MCWindows
    NoLimit = NoLimit
    NoTime = NoTime
    Horizon = 5
    MaxAttempt = 3
    MaxCrashes = 1
    MaxEdits = 2

SPECIFICATION FairSpec

CHECK_DEADLOCK FALSE

INVARIANTS
    NotForgotten
    OnceUnlessReEnabled

PROPERTIES
    StartsAreDue
    ComesToAnEnd

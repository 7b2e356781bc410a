SPECIFICATION Spec
CONSTANTS
    Rules = {"st"}
    Ops = {"rollover"}
    Window = 1
    Quota = 1
    Direction <- MCDirection
    Iot <- MCIot
    Timed <- MCTimed
    Sources <- OneCamera
INVARIANT OnIsLatched
CHECK_DEADLOCK FALSE

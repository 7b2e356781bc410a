SPECIFICATION Spec
CONSTANTS
    Rules = {"s", "gi"}
    Ops = {"create", "delete", "toggle", "edit", "touch", "pause", "restart", "rollover"}
    Window = 1
    Quota = 1
    Direction <- MCDirection
    Iot <- MCIot
    Timed <- MCTimed
    Sources <- TwoCameras
INVARIANT SessionInv

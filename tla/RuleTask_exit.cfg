SPECIFICATION Spec
CONSTANTS
    Rules = {"e", "et", "xi", "gi"}
    Ops = {"create", "delete", "toggle", "edit", "touch", "pause", "restart"}
    Window = 1
    Quota = 1
    Direction <- MCDirection
    Iot <- MCIot
    Timed <- MCTimed
    Sources <- OneCamera
INVARIANT WayOutInv
PROPERTY OpensWhenAllowed
PROPERTY ActionsAlternate

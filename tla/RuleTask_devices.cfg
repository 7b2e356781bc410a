SPECIFICATION FairSpec
CONSTANTS
    Rules = {"si", "st", "gi"}
    Ops = {"create", "delete", "toggle", "edit", "touch", "pause", "restart"}
    Window = 2
    Quota = 2
    Direction <- MCDirection
    Iot <- MCIot
    Timed <- MCTimed
    Sources <- OneCamera
INVARIANT EdgeInv
PROPERTY HeldBackNotForever
PROPERTY LeavesWhenOver

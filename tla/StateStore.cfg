CONSTANTS
    Path <- MCPath
    PatternOf <- MCPatternOf
    EchoOf <- MCEchoOf
    Value = {1, 2}
    Missing = Missing
    Sub = {"all", "echo"}
    MaxLeaves = 2
    MaxDepth = 2
    MaxWrites = 2
    MaxSwitches = 3
    MaxSubs = 2

SPECIFICATION FairSpec

CHECK_DEADLOCK FALSE

INVARIANTS
    TreeInv
    EventsTellAll

PROPERTIES
    OldIsWhatWasSeen
    NothingFromBeforeStop
    ComesToRest

CONSTANTS
    Device = {"d1"}
    Home = {"A", "B"}
    HomeOf <- MCHomeOf
    TopUpMax = 1
    AlignMax = 2
    MaxReports = 1
    MaxFlaps = 1
    MaxSwitches = 1
    MaxRefreshes = 1
    MaxPulls = 1

SPECIFICATION FairSpec

CHECK_DEADLOCK FALSE

INVARIANTS
    HomeInv
    NobodyForgotten

PROPERTIES
    ReadsAreFresh
    SwitchEndsAligned

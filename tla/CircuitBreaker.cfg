CONSTANTS
    Calls = {c1, c2}
    Probers = {p1, p2}
    Threshold = 2
    MinSamples = 3
    MaxSamples = 3
SPECIFICATION FairSpec
INVARIANTS ProbeInv SingleProbe
PROPERTIES StaleProbeIsVoid OpensOnFreshEvidence NeverStuck

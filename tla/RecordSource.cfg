CONSTANTS
    MaxTarget = 2
    MaxMinutes = 1
    MaxDay = 2

SPECIFICATION FairSpec

INVARIANTS
    OncePerDay
    
    OffIsDisarmed


    
    

CONSTANTS
    MaxTarget = 1
    MaxMinutes = 1
    MaxDay = 2

SPECIFICATION Spec

INVARIANT LatchMeansTold

SPECIFICATION FairSpec
CONSTANTS
    Setups <- MCSetups
    MaxAge = 1
    MaxAway = 2
INVARIANTS
    ClientNotAhead
    CodecsCarried
    RttDefined
PROPERTIES
    Finishes
CHECK_DEADLOCK FALSE

SPECIFICATION FairSpec
CONSTANTS
    NumIds = 3
    RandomIds <- MCRandomIds
    Fragments <- MCFragments
    PendingLength = 2
    MaxTimeouts = 2
    WindowUp = 2
    WindowDown = 2
INVARIANTS
    TimedOutCounted
    PendingCovered
PROPERTIES
    AckNotOverwritten
    NeverStarved
CHECK_DEADLOCK FALSE

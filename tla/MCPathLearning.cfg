SPECIFICATION PathSpec
CONSTANTS
    Delays <- MCDelays
    Limits <- MCLimits
    Corrupting = {TRUE, FALSE}
    Targets <- MCTargets
    Trips <- MCTrips
    MaxSamples = 7
INVARIANTS
    TypeOK
    BestType
    ProbeFits
    ProbeClose
    AnswersInTime
    TargetKept
    LastDitchTried
CHECK_DEADLOCK FALSE

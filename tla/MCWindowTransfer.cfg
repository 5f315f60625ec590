CONSTANTS
    MaxSeqId = 8
    Length = 4
    SendWindowSize = 2
    RecvWindowSize = 2
    MaxChunk = 2
    MaxAge = 1
    MaxFrags = 9
    NoData = NoData
    Data <- MCData
    Packets <- MCPackets
SPECIFICATION Spec
INVARIANTS
    ReleasedArrived
    NothingLost
    WindowsMeet
PROPERTIES
    ImplementsReceiver
CHECK_DEADLOCK FALSE

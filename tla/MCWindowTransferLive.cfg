CONSTANTS
    MaxSeqId = 6
    Length = 3
    SendWindowSize = 2
    RecvWindowSize = 2
    MaxChunk = 1
    MaxAge = 1
    MaxFrags = 6
    NoData = NoData
    Data <- MCData
    Packets <- MCPackets
SPECIFICATION FairSpec
PROPERTIES
    SenderDrains
CHECK_DEADLOCK FALSE

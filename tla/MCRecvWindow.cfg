CONSTANTS
    MaxSeqId = 9
    Length = 5
    SendWindowSize = 3
    RecvWindowSize = 3
    MaxChunk = 2
    MaxAge = 2
    MaxFrags = 12
    NoData = NoData
    Data <- MCData
SPECIFICATION RecvSpec
INVARIANTS
    RecvTypeOK
    AckedIsKept
    RecvCoherent
    FewLeftBehind
PROPERTIES
    ImplementsFifo
CHECK_DEADLOCK FALSE

CONSTANTS
    MaxSeqId = 6
    Length = 4
    SendWindowSize = 3
    a = a
    b = b
    NoData = NoData
    Data <- MCData
    Packets <- MCPackets
SPECIFICATION SendSpec
INVARIANTS
    SendTypeOK
    InFlightBounded
    SendCoherent
PROPERTIES
    QueueDiscipline
    ReleaseOnlyAcked

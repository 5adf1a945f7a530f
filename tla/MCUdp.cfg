SPECIFICATION Spec
CONSTANTS
    socket_size = 3
    DefaultSize = 3
    Width = 8
    MaxDatagrams = 3
    MaxPackets = 2
    Lengths <- OneOrTwo
    ReadSizes <- OneOrTwo
    WriteSizes <- TwoOrNine
    Receivers = {r1, r2}
    Habits <- Careful
INVARIANT TypeOK
INVARIANT ReadsThePacket
INVARIANT SentAsWritten
PROPERTY HeldIsParsed
CHECK_DEADLOCK FALSE

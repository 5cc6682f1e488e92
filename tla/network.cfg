SPECIFICATION FairSpec
CONSTANTS
    Base = 2
    InputLimit = 5
    Packets <- MCPackets
    LoginPacket <- MCLogin
    MaxSent = 2
    MaxCommands = 2
INVARIANTS
    TypeOK
    FiguresWhole
    StopsOnlyAtExit
PROPERTIES
    RefinesPacketQueue
    ExitEnds
    PacketsExecuted
CHECK_DEADLOCK FALSE

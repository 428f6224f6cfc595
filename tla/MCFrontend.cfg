SPECIFICATION ActiveSpec
CONSTANTS
    p1 = p1
    p2 = p2
    p3 = p3
    Publishers = {p1, p2, p3}
    Strangers = {p3}
    MaxPublishers = 1
    MaxInvalid = 1
    MaxPackets <- MCMaxPackets
INVARIANTS
    TypeOK
    CountIsOff
    DownIsReset
    CutOff
    OnePacketAfterStop
PROPERTY StopTerminates

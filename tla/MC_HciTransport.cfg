SPECIFICATION FairSpec
CONSTANTS
    Senders = {s1, s2}
    HostPackets <- MixedPackets
    MaxPackets = 2
    Base = 6
    IsoModulus = 12
    TxMax = 11
    Devices = {1, 2}
    RxMax = 2
    RxBuffer = 2
INVARIANTS
    PacketsWholeInOrder
    DriverAccepts
    NothingStranded
PROPERTIES
    CallsReturn

SPECIFICATION FairSpec
CONSTANTS
    NSlots = 2
    Devices = {"mouse", "trackball", "keyboard"}
    Kind <- MCKind
    NoInput = NoInput
    MaxFrame = 2
    MaxSlices = 2
    MaxQueue = 2
    MaxEvents = 2
INVARIANT
    ButtonsFollowDevice
PROPERTY
    ReplacedIsNoticed

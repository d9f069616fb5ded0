SPECIFICATION CodecSpec
CONSTANTS
    Freqs <- MCFreqs
    Bands = {0, 2, 3, 255}
    Widths = {0, 1, 2, 3, 4, 5, 6, 7}
    Lengths <- MCLengths
    SbusValues <- MCSbusValues
    MaxOps = 3
    Shifts = {"shift"}
    CapsLock = "caps lock"
    Letters = {"a"}
    Specials = {"tab"}
    KeyQueueSize = 2
    MaxReadBatch = 2
    MaxFrameEvents = 2
    MaxUnread = 2
    NoKey = NoKey
CONSTRAINT PlainOverrun
INVARIANTS
    ExactlyProperPasses
    RoundTrip
    ExactlyFittingPasses
    QuietIsReleased
    ReleasedAsPressed
PROPERTY
    FramesAreSbus
CHECK_DEADLOCK FALSE

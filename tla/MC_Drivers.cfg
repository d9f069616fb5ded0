SPECIFICATION DriversSpec
CONSTANTS
    h1 = h1
    h2 = h2
    p1 = p1
    p2 = p2
    s1 = s1
    s2 = s2
    Handles <- MCHandles
    Pins <- MCPins
    NULL = NULL
    NSignals = 2
    MaxRegs = 3
    MaxPending = 1
    Owners <- MCHandles
    TimerIds = {1, 2}
    NoTimer = NoTimer
    MaxSignals = 1
    SpiHandles <- MCHandles
    Settings <- MCSettings
    NONE = NONE
    MaxIds = 3
    PmuHandles <- MCHandles
    KeySignals = {1, 2}
    NoPmu = NoPmu
SYMMETRY MCSymmetry
CONSTRAINT Bound
INVARIANTS
    CountIsHolders
    CachesExplained
    StaysArmed
    SignalsFindInstance
    TimerSignalsFindInstance
    SoftTimerIsOne
    RunsUnderOwnSettings
    CsStatusTrue
    PressIsKept
CHECK_DEADLOCK FALSE

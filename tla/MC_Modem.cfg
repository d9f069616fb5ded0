SPECIFICATION ModemSpec
CONSTANTS
    MaxCmds = 2
    MaxRx = 3
    AtBuf = 2
    RespBuf = 1
    Budget = 6
    ProbeMax = 2
    DialMax = 4
    Poll = 1
INVARIANTS
    WakeBounded
PROPERTIES
    NoStall
    DeinitReturns

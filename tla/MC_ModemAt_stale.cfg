SPECIFICATION AtSpec
CONSTANTS
    MaxCmds = 2
    MaxRx = 2
    AtBuf = 2
    RespBuf = 2
PROPERTY
    OkIsForThisCommand

SPECIFICATION MCFairSpec
CONSTANTS
    t1 = t1
    t2 = t2
    Threads <- MCTwo
    Readers <- MCTwo
    Modulus = 5
    Events = {"EVENT", "BAD"}
    MaxCalls = 3
    MaxQueue = 1
INVARIANTS
    IdsDistinct
    AnswerIsMine
PROPERTY
    LoneReaderReturns

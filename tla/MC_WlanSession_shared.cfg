SPECIFICATION FairSpec
CONSTANTS
    t1 = t1
    t2 = t2
    Threads <- MCTwo
    Readers <- MCTwo
    Modulus = 5
    Events = {"EVENT"}
    MaxCalls = 2
    MaxQueue = 1
PROPERTY
    TimedReturns

SPECIFICATION FairSpec
CONSTANTS
    Events = {e1, e2, e3}
    Consumers = {c1, c2}
    NULL = NULL
INVARIANTS
    ListIsOrder
    NoLostWakeup
PROPERTIES
    ImplementsFifo
    EventLeaves
    TimedGetReturns

SPECIFICATION FairSpec
CONSTANTS
    Callouts = {a, b}
    Queued = {a}
    NULL = NULL
    Modulus = 6
    TicksArgs = {0, 2}
    MaxLag = 2
    RealtimeSteps = {0, 2}
INVARIANTS
    RunsAccountedFor
    WaitCoversEarliest
PROPERTIES
    NeverEarly
    DueIsServed

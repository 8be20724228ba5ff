CONSTANTS
    None = None
    WordMax = 7
    Bays <- MCBays
    Attainable <- MCAttainable
    Launcher = TRUE
    PipeRoom = 1
    FreeHeap = 4
SPECIFICATION FairSpec
INVARIANTS
    SampleHonest
    PowerCycles
    PassComplete
    PassJustified
    HealthyBayPasses
PROPERTIES
    BayReturns
CHECK_DEADLOCK FALSE

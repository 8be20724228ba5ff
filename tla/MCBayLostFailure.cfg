CONSTANTS
    None = None
    WordMax = 7
    Bays <- MCBays
    Attainable <- MCAttainable
    Launcher = TRUE
    PipeRoom = 1
    FreeHeap = 4
SPECIFICATION Spec
INVARIANT BridgeErrorFailsRun
CHECK_DEADLOCK FALSE

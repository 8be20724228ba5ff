CONSTANTS
    local = local
    remote = remote
    Controllers = {local, remote}
    Hosted = {local}
    NumSlots = 2
    Headers <- FirmwareHeaders
    Idle = Idle
    MaxFrames <- MostFrames
    MaxCancels = 1
    MaxStops = 1
    MaxResets = 1
SPECIFICATION MCSpec
CHECK_DEADLOCK FALSE
INVARIANTS
    NoLostWakeup
    OneQueuedPerSlot
    SentInAcceptedOrder
    AcceptedAccounted
PROPERTIES
    ArbitrationWinner
    WireDrains

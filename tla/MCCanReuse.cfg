CONSTANTS
    local = local
    remote = remote
    Controllers = {local, remote}
    Hosted = {local}
    NumSlots = 2
    Headers <- FirmwareHeaders
    Idle = Idle
    MaxFrames <- RemoteBusy
    MaxCancels = 1
    MaxStops = 0
    MaxResets = 0
SPECIFICATION Spec
CHECK_DEADLOCK FALSE
INVARIANTS
    NoObsoleteCompletion

CONSTANTS
    Depth = 2
    CharTicks = 1
    Configs <- Polling
    MaxBytes = 3
    MaxWrites = 2
    MaxResets = 1
SPECIFICATION MCSpec
CHECK_DEADLOCK FALSE
INVARIANTS
    NoLostWakeup
    ReceivedInOrder
PROPERTIES
    Drains

CONSTANTS
    Depth = 2
    CharTicks = 2
    Configs <- Receiving
    MaxBytes = 3
    MaxWrites = 0
    MaxResets = 0
SPECIFICATION Spec
CHECK_DEADLOCK FALSE
PROPERTIES
    NoIdleInsideBurst

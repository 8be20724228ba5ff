CONSTANTS
    UartDepth = 1
    UartBytes = 5
    HostDepth = 2
    HostBytes = 4
    UartMaxFrame = 6
    Units <- EmptyFrames
    MaxUnits = 2
    Chunks = {1, 3}
    Timeout = 1
    Roles = {TRUE, FALSE}
    MaxSessions = 2
    MaxDown = 3
    MaxTraffic = 3
SPECIFICATION Spec
CHECK_DEADLOCK FALSE
PROPERTIES
    LinkSurvivesUart

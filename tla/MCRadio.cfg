CONSTANTS
    MaxNodes = 3
    MaxUarts = 3
    TxFifo = 2
    RxFifo = 2
    MaxBurst = 2
    IdleUs = 1
    TurnUs = 0
    OverheadBits = 8
    AirRate = 8
    UartBaud = 5
    Second = 1
    QuantumUs = 1
    NoBurst = NoBurst
    MaxAttachments = 3
    MaxOffers = 3
    OfferUntil = 3
    Horizon = 20
    MaxSkew = 2
    CalmAt = 8
    Fading <- OneWay
SPECIFICATION MCSpec
CHECK_DEADLOCK FALSE
INVARIANTS
    TxOwnership
    HeardInAirOrder
    OffersAccounted
    DescriptorsOwnBytes
    IdleGapSeals
    ReceptionAccounted
    AirCapacity
PROPERTIES
    ImplementsBroadcast
    FairTurns
    TxDrains

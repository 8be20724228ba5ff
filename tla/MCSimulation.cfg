CONSTANTS
    Absent = Absent
    None = None
    NoSchedule = NoSchedule
    Padding = Padding
    FlashBase = 8
    VectorAlignment = 2
    Bits = {0, 1}
    LowBit = 0
    Boards <- SimulatedBoards
    Header = 1
    Supported <- MCSupported
    Launcher = TRUE
    PipeRoom = 1
    WordMax = 7
    Iterations = 4
    Catalog <- MCCatalog
    LegacyMcu <- MCLegacyMcu
    PhysicalAdc <- MCPhysicalAdc
    OnBus <- MCOnBus
    RamBase = 100
    Granule = 2
    SauRegions = 4
    ExposedEvents <- MCEvents
SPECIFICATION FairSpec
INVARIANTS
    OperationsSpareBoard
    PoolConserved
    VerdictTruthful
    ReportAccounted
    MachineMatchesLayout
PROPERTIES
    PhasesInOrder
    ExecutionEnds
CHECK_DEADLOCK FALSE

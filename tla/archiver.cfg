SPECIFICATION FairArchiverSpec
CONSTANTS
    w1 = w1
    w2 = w2
    Workers <- MCWorkers
    OrderCapacity = 1
    WorkCapacity = 1
    BufferCapacity = 3
    Waterline = 3
    LargeChunks = 2
    Plans <- MCPlans
    Faults <- MCFaults
    Capacity = 2
    CatalogUnits = 3
    QueueCapacity = 1
    HistoryLimit = 2
INVARIANTS
    PipelineTypeOK
    StoreHasRoom
    NoEndAfterError
    FramesAccepted
    SlicesAreWhole
PROPERTIES
    StreamsInOrder
    PaxWriterEnds
CHECK_DEADLOCK FALSE

SPECIFICATION ArchiverSpec
CONSTANTS
    w1 = w1
    w2 = w2
    Workers <- MCWorkers
    OrderCapacity = 1
    WorkCapacity = 1
    BufferCapacity = 3
    Waterline = 0
    LargeChunks = 2
    Plans <- MCTwoFiles
    Faults <- MCSkip
    Capacity = 2
    CatalogUnits = 0
    QueueCapacity = 1
    HistoryLimit = 2
INVARIANTS
    SlicesNumberedWithoutGap
CHECK_DEADLOCK FALSE

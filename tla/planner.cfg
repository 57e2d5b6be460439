SPECIFICATION PlannerSpec
CONSTANTS
    Entries <- MCEntries
    Kind <- MCKind
    Size <- MCSize
    Inode <- MCInode
    Device <- MCDevice
    Children <- MCChildren
    Sources <- MCSources
    MayVanish = {"b", "c", "a"}
    MayGoUnread = {"c", "q"}
    OneFileSystem = TRUE
    FrontierCapacity = 1
    SliceSize = 4
    MetadataSize = 3
    Widest = 9
    None = None
    Threads = {w1, w2}
    QueueCapacity = 2
INVARIANTS
    PlanIsSound
PROPERTIES
    PlansAsWithOneThread
    ScanEnds
CHECK_DEADLOCK FALSE

SPECIFICATION FairSpec
CONSTANTS
    NumFrames = 3
    SliceEnds <- MCSliceEnds
    RetentionFrames = 2
    QueueCapacity = 2
    BufferFrames = 2
    ProducerMayFail = FALSE
    SpoolTarget = FALSE
    MaxSessions = 3
INVARIANTS
    TypeOK
    RetentionCovers
    NoProtocolError
    MediaReplayable
    SameNumberSameStart
    ExitIsTruthful
PROPERTIES
    StoresArchive
    CompletesUnlessDoneLost
CHECK_DEADLOCK FALSE

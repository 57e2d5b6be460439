SPECIFICATION FairSpec
CONSTANTS
    NumFrames = 3
    SliceEnds <- MCSliceEnds
    RetentionFrames = 1
    QueueCapacity = 2
    BufferFrames = 2
    ProducerMayFail = TRUE
    SpoolTarget = TRUE
    MaxSessions = 3
INVARIANTS
    NoEndAfterFailure
PROPERTIES
    ArchiveCompletes
    FailureReachesWriters

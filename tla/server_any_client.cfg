SPECIFICATION Spec
CONSTANTS
    NumFrames = 3
    SliceEnds <- MCSliceEnds
    RetentionFrames = 2
    QueueCapacity = 2
    ProducerMayFail = TRUE
    MaxInFlight = 2
INVARIANTS
    EndBehindAllAcks
PROPERTIES
    CommitCountsVolumes
CHECK_DEADLOCK FALSE

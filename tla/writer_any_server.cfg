SPECIFICATION FairSessionSpec
CONSTANTS
    NumFrames = 2
    SliceEnds = {1}
    BufferFrames = 2
    SpoolTarget = FALSE
    MaxReplies = 5
INVARIANTS
    AcksFollowTheMedium
PROPERTIES
    WriterLeaves
CHECK_DEADLOCK FALSE

SPECIFICATION SpoolSpec
CONSTANTS
    Stream <- MCStream
    MaxArchives = 2
    MaxSessions = 4
INVARIANTS
    AckedAreReadable
    SpoolIsWellFormed
PROPERTIES
    FinishedFilesStay
CHECK_DEADLOCK FALSE

SPECIFICATION Spec
CONSTANTS
    a1 = a1
    a2 = a2
    b1 = b1
    b2 = b2
    Archives <- MCArchives
    Bodies <- MCBodies
    MaxFrames = 3
    MaxSlice = 2
    HistoryLimit = 2
SYMMETRY Symmetry
INVARIANTS
    AcceptsExactlyTheWellFormed
    ReplaysAreRepetitions
    ReplayEndsAtTheEnd
CHECK_DEADLOCK FALSE

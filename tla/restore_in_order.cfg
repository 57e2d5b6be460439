SPECIFICATION FairSpec
CONSTANTS
    Stream <- MCStream
    Archives <- MCArchives
    Layouts <- MCLayouts
    Damageable <- AllFrames
    DamageKinds <- AnyDamage
    MaxDamage = 2
    MaxFaults = 2
    HistoryLimit = 4
    Options <- MCAll
    AnyOrder = FALSE
INVARIANTS
    ReaderExitIsTruthful
    DoneIsAuthentic
    SalvageLosesOnlyDamaged
PROPERTIES
    RestoreCompletes
    ReadersLeave
CHECK_DEADLOCK FALSE

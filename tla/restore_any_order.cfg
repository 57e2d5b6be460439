SPECIFICATION Spec
CONSTANTS
    Stream <- MCStream
    Archives <- MCArchives
    Layouts <- MCLayoutsAndForeign
    Damageable <- AllFrames
    DamageKinds <- AnyDamage
    MaxDamage = 1
    MaxFaults = 2
    HistoryLimit = 2
    Options <- MCRobust
    AnyOrder = TRUE
INVARIANTS
    OutputIsPrefix
    DoneIsComplete
    MetadataIsSound
    SalvageInOrder
CHECK_DEADLOCK FALSE

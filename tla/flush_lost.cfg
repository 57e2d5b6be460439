SPECIFICATION Spec
CONSTANTS
    Stream <- MCStream
    Archives <- MCArchives
    Layouts <- MCDisjoint
    Damageable <- NoFrame
    DamageKinds <- BadHash
    MaxDamage = 0
    MaxFaults = 0
    HistoryLimit = 2
    Options <- MCFullOutput
    AnyOrder = FALSE
INVARIANTS
    DoneIsComplete
CHECK_DEADLOCK FALSE

SPECIFICATION FairSpec
CONSTANTS
    MaxIndex = 4
    ConflictPanics = TRUE
    GenesisFinal = TRUE
INVARIANTS
    TypeOK
    RollbackRangeIntact
    PrunedBelowRoot
PROPERTIES
    PruningCatchesUp
    ShutdownJoins
CHECK_DEADLOCK FALSE

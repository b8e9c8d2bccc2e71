SPECIFICATION Spec
CONSTANTS
    None = None
    Keys <- ThreeKeys
    Depth = 2
    MaxVersion = 5
    Diffs <- SomeDiffs
    MaxRollbacks = 1
    BucketCapacity = 2
    DeletesKeepShape = TRUE
    DeletionsRefilled = TRUE
    OrphansRedone = TRUE
INVARIANTS
    TypeOK
    TreeReadable
CHECK_DEADLOCK FALSE

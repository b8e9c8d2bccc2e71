SPECIFICATION Spec
CONSTANTS
    None = None
    Keys <- ThreeKeys
    Depth = 2
    MaxVersion = 4
    Diffs <- SomeDiffs
    MaxRollbacks = 1
    BucketCapacity = 4
    DeletesKeepShape = TRUE
    DeletionsRefilled = TRUE
    OrphansRedone = FALSE
INVARIANT
    TreeReadable
CHECK_DEADLOCK FALSE

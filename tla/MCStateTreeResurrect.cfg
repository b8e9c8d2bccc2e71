SPECIFICATION Spec
CONSTANTS
    None = None
    Keys <- ThreeKeys
    Depth = 2
    MaxVersion = 4
    Diffs <- SomeDiffs
    MaxRollbacks = 1
    BucketCapacity = 2
    DeletesKeepShape = FALSE
    DeletionsRefilled = TRUE
    OrphansRedone = TRUE
INVARIANT
    DeletedStaysGone
CHECK_DEADLOCK FALSE

SPECIFICATION Spec
CONSTANTS
    A = A
    B = B
    C = C
    D = D
    X = X
    Y = Y
    None = None
    Genesis = Genesis
    Blocks <- FlipBlocks
    Parent <- FlipParent
    Kind <- FlipKind
    Failing = {}
    Resources = {X}
    SupportsRestore = FALSE
    SettledTargets = FALSE
    CleanRestarts = TRUE
    BatchesHeld = TRUE
    LateRestores = TRUE
    AtomicCommits = TRUE
    MaxBatches = 4
    MaxRollbacks = 1
    MaxCrashes = 0
INVARIANT ReadsSerial

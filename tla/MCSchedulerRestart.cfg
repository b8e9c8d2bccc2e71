SPECIFICATION Spec
CONSTANTS
    A = A
    B = B
    C = C
    D = D
    X = X
    Y = Y
    None = None
    Genesis = Genesis
    Blocks <- FlipBlocks
    Parent <- FlipParent
    Kind <- FlipKind
    Failing = {}
    Resources = {X}
    SupportsRestore = FALSE
    SettledTargets = TRUE
    CleanRestarts = FALSE
    BatchesHeld = TRUE
    LateRestores = TRUE
    AtomicCommits = TRUE
    MaxBatches = 4
    MaxRollbacks = 1
    MaxCrashes = 1
INVARIANT RestartNeverPanics

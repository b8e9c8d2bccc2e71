SPECIFICATION Spec
CONSTANTS
    A = A
    B = B
    C = C
    D = D
    X = X
    Y = Y
    None = None
    Genesis = Genesis
    Blocks <- ForkBlocks
    Parent <- ForkParent
    Kind <- ForkKind
    Failing = {}
    Resources = {X, Y}
    SupportsRestore = TRUE
    SettledTargets = TRUE
    CleanRestarts = TRUE
    BatchesHeld = TRUE
    LateRestores = TRUE
    AtomicCommits = TRUE
    MaxBatches = 4
    MaxRollbacks = 1
    MaxCrashes = 1
INVARIANTS
    TypeOK
    ReadsSerial
    DiskHoldsChain
    OnlyCanonicalApplied
    CheckpointsKnown
    LastCommittedAgrees
    SmtMatchesLatest
    RootIsOldest

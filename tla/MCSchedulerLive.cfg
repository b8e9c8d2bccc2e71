SPECIFICATION FairSpec
CONSTANTS
    A = A
    B = B
    C = C
    D = D
    X = X
    Y = Y
    None = None
    Genesis = Genesis
    Blocks <- LineBlocks
    Parent <- LineParent
    Kind <- LineKind
    Failing = {B}
    Resources = {X}
    SupportsRestore = TRUE
    SettledTargets = FALSE
    CleanRestarts = TRUE
    BatchesHeld = TRUE
    LateRestores = TRUE
    AtomicCommits = FALSE
    MaxBatches = 4
    MaxRollbacks = 1
    MaxCrashes = 0
INVARIANTS
    OnlyCanonicalApplied
    DiskHoldsChain
    LastCommittedAgrees
PROPERTIES
    RollbackReturns
    BatchSettles
CHECK_DEADLOCK FALSE

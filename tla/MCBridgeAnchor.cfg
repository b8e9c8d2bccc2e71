SPECIFICATION Spec
CONSTANTS
    None = None
    G = G
    O = O
    P = P
    Q = Q
    R = R
    Blocks <- MCBlocks
    L1Genesis = G
    Parent <- MCParent
    Score <- MCScore
    LaneBlocks <- MCLaneBlocks
    SettlingBlocks <- MCSettlingBlocks
    FinalityDepth = 1
    Filtering = TRUE
    Configs <- MCConfigs
    RpcRetryMaxAttempts = 2
    MaxSwitches = 2
    MaxFailures = 1
    MaxRestarts = 1
    AnchorHolds = FALSE
    PruningIsDeep = TRUE
INVARIANTS
    ChainThreaded
CHECK_DEADLOCK FALSE

SPECIFICATION Spec
CONSTANTS
    n1 = n1
    p1 = p1
    NoThread = NoThread
    NBlocks = 4
    Trees <- AllTrees
    Works <- OneHeavy
    MaxBad = 1
    Net <- MCNet
    Pool <- NoPool
    Modes <- AnyMode
    Checkpoints <- AnyBlock
    MaxRestarts = 1
INVARIANTS TypeOK CoinsOfOneChain SoundBlocksNeverFail BestIsHeaviest NoSoundOrphanIsStranded BestChainLinked
CHECK_DEADLOCK FALSE

SPECIFICATION Spec
CONSTANTS
    n1 = n1
    p1 = p1
    NoThread = NoThread
    NBlocks = 3
    Trees <- AllTrees
    Works <- SameWork
    MaxBad = 0
    Net <- MCNet
    Pool <- MCPool
    Modes <- Advisory
    Checkpoints <- NoCheckpoints
    MaxRestarts = 0
INVARIANTS SoundBlocksNeverFail
CHECK_DEADLOCK FALSE

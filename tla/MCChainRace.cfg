SPECIFICATION FairSpec
CONSTANTS
    n1 = n1
    p1 = p1
    NoThread = NoThread
    NBlocks = 3
    Trees <- Fork
    Works <- SameWork
    MaxBad = 1
    Net <- MCNet
    Pool <- MCPool
    Modes <- Enforcing
    Checkpoints <- LaterBlocks
    MaxRestarts = 0
PROPERTIES CheckpointsAdvance HandlersEnd
CHECK_DEADLOCK FALSE

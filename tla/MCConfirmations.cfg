SPECIFICATION FairSpec
CONSTANTS
    NBlocks = 4
    Trees <- MCTrees
    Mine <- FirstAndLast
    Final = 3
    MaxFailures = 1
    MaxRestarts = 1
INVARIANTS TypeOK FinalRowsStayInChain
PROPERTIES RowsConverge
CHECK_DEADLOCK FALSE

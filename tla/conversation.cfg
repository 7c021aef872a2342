SPECIFICATION FairSpec
CONSTANTS
    MaxMsg = 3
    Controls = {3}
    Mentions = {1, 2}
    Scenarios <- AllAdapters
INVARIANTS NothingSkipped OneJobPerMessage ActiveOnlyInTurn 
PROPERTY JobsServed
CHECK_DEADLOCK FALSE

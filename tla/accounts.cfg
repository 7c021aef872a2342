SPECIFICATION FairSpec
CONSTANTS
    Conns = {1, 2}
    Models = {"x", "y"}
    Requests = {r1, r2}
    Plans <- AllPlans
    StickyLimit = 2
    TransientCooldown = 1
    ResetCooldown = 2
    BackoffBase = 1
    BackoffMax = 2
    MaxLevel = 1
    Scenes <- Accounts
INVARIANTS
    TypeOK
    
    
    StickyBound
    

    
CHECK_DEADLOCK FALSE

SPECIFICATION FairSpec
CONSTANTS
    c1 = c1
    c2 = c2
    d1 = d1
    d2 = d2
    d3 = d3
    Commands <- TwoCommands
    Deliveries <- ThreeDeliveries
    CommandOf <- TwiceAndOnce
    MaxProcessed = 1
    MaxFrames = 3
    MaxCrashes = 1
INVARIANTS
    TypeOK
    ExecutedOncePerMemory
    RememberedIsReported
    AckPrecedesResult
PROPERTIES
    AnswerIsStable
    
    RememberedReachesTheWire
CHECK_DEADLOCK FALSE

\* The pages of the console, one at a time; the bounds of the other pages are
\* in MCConsole.
\* Every page may end: what the user does is bounded.
SPECIFICATION Spec
CHECK_DEADLOCK FALSE
CONSTANTS
    MaxOpens = 2
    MaxActs = 2
    MaxMoves = 3
    MaxLapses = 1
    MaxFailures = 1
    MaxOverruns = 0
    MaxAborts = 1
    MaxQueueAborts = 0
    MaxRows = 2
    Queues <- SomeQueues
    LastSecond = 2
    MaxCommands = 4
    PageSize = 1
    MaxPages = 3
    WindowStart = 1
INVARIANTS
    
    
    PointersAreCurrent
    RequestsAreMeant
    MissedOnlyTies
    
PROPERTIES
    
    
    PagesAgree
    FlagsClear

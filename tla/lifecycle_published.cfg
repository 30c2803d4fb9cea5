SPECIFICATION Spec
CONSTANTS
    h1 = h1
    h2 = h2
    Handlers <- OneHandler
    MaxTries = 2
    MaxExpiring = 1
    MaxCrashes = 0
    Outcomes <- OnlyCompleted
INVARIANTS
    OutcomePublishedOnce
CHECK_DEADLOCK FALSE

SPECIFICATION Spec
CONSTANTS
    h1 = h1
    h2 = h2
    Handlers <- TwoHandlers
    MaxTries = 2
    MaxExpiring = 1
    MaxCrashes = 1
    Outcomes <- AllOutcomes
INVARIANTS
    QueuedKeepsItsJob
CHECK_DEADLOCK FALSE

SPECIFICATION FairSpec
CONSTANTS
    h1 = h1
    h2 = h2
    Handlers <- OneHandler
    MaxTries = 1
    MaxExpiring = 1
    MaxCrashes = 1
    Outcomes <- SomeOutcomes
PROPERTIES
    EventuallyTerminal
CHECK_DEADLOCK FALSE

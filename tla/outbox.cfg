SPECIFICATION OutboxFairSpec
CONSTANTS
    e1 = e1
    e2 = e2
    s1 = s1
    s2 = s2
    Worker = Worker
    NoPost = NoPost
    EventIds <- TwoEvents
    Senders <- TwoSenders
    MaxAttempts = 3
    BatchLimit = 2
    MaxFaults = 1
    MaxEnqueues = 2
    MaxRestarts = 1
INVARIANTS
    OutboxTypeOK
    DeliveredWasReceived
    DlqOnlyAfterMaxAttempts
    AttemptsAreFailures
PROPERTIES EventuallySettled

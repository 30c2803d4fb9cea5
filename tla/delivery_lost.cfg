SPECIFICATION Spec
CONSTANTS
    s1 = s1
    s2 = s2
    s3 = s3
    r1 = r1
    r2 = r2
    None = None
    Sessions <- OneSession
    Requests <- TwoRequests
    Max = 2
    MaxOutages = 0
    MaxRestarts = 0
CHECK_DEADLOCK FALSE
INVARIANTS
    StoredUntilDrained

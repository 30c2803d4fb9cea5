SPECIFICATION Spec
CONSTANTS
    s1 = s1
    s2 = s2
    s3 = s3
    r1 = r1
    r2 = r2
    None = None
    Sessions <- ThreeSessions
    Requests <- TwoRequests
    Max = 1
    MaxOutages = 1
    MaxRestarts = 1
SYMMETRY Symmetry
CHECK_DEADLOCK FALSE
INVARIANTS
    TypeOK
    CurrentIsNewest
    OneLiveSession
    DeliveredOnce

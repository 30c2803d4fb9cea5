\* A browser that signs in and out, and the pairing modal; the user may stop.
SPECIFICATION AccessSpec
CHECK_DEADLOCK FALSE
CONSTANTS
    MaxSessions = 2
    MaxVisits = 1
    MaxMishaps = 1
    Targets = {"/settings"}
    Devices = {"d1", "d2"}
    MaxPairSessions = 2
    MaxRequests = 2
    MaxPolls = 2
    MaxLost = 1
INVARIANTS
    JarWhole
    RoleIsGranted
    RedirectsSettle
    TokenOfDeviceShown
PROPERTIES
    KeepsPromise
    RevokedCookiesDropped
    LoadingEnds
    

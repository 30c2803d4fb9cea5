\* The modal says paired of a device the control plane never gave to the user.
SPECIFICATION AccessSpec
CHECK_DEADLOCK FALSE
CONSTANTS
    MaxSessions = 2
    MaxVisits = 1
    MaxMishaps = 1
    Targets = {"/settings"}
    Devices = {"d1", "d2"}
    MaxPairSessions = 2
    MaxRequests = 2
    MaxPolls = 2
    MaxLost = 1
INVARIANT PairedIsBacked

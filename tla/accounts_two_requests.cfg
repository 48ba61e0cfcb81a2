SPECIFICATION Spec
CONSTANTS
    Requests = {r1, r2}
    Users = {owner}
    Strangers = {}
    OidcName = oidc
    FreeFailures = 2
    BaseDelay = 1
    MaxDelay = 2
    GlobalWindow = 2
    GlobalMax = 2
    Idle = 3
    Absolute = 4
    Touch = 1
    MaxTime = 4
    MaxRows = 5
    MaxSessions = 2
SYMMETRY MCSymmetry
INVARIANTS
    ThrottleSpaces
    GlobalCap
    DeviceStays

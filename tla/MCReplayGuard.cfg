SPECIFICATION Spec
CONSTANTS
    k1 = k1
    k2 = k2
    k3 = k3
    k4 = k4
    f1 = f1
    f2 = f2
    Instance = {i1, i2}
    Key = {k1, k2, k3, k4}
    Fingerprint = {f1, f2}
    Request <- Requests
    TTL = 3
    CacheLimit = 2
    Ahead = {i2}
    MaxStall = 1
    MaxTime = 4
    MaxClaims = 3
SYMMETRY Symmetry
INVARIANTS
    AcceptedOncePerWindow
    LiveKeysBounded
PROPERTIES
    RefusalIsJustified
CHECK_DEADLOCK FALSE

SPECIFICATION Spec
CONSTANTS
    Devices = {d1}
    Instances = {i1}
    Requests = {r1, r2}
    StatusTTL = 1
    TokenTTL = 3
    Lag = 1
    MaxTime = 4
SYMMETRY Interchangeable
INVARIANTS
    RevocationBound
    SessionBound
    NoTokenForLateRequest
    LockoutBound
PROPERTY
    PolicySpec

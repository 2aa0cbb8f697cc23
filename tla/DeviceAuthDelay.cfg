SPECIFICATION Spec
CONSTANTS
    Devices = {d1}
    Instances = {i1}
    Requests = {r1, r2}
    StatusTTL = 2
    TokenTTL = 4
    Lag = 1
    MaxTime = 5
SYMMETRY Interchangeable
INVARIANT
    DocumentedDelay

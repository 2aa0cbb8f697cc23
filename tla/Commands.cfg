SPECIFICATION Spec
CONSTANTS
    Devices = {d1, d2}
    Ids = {c1, c2, x}
    StoreIds = {c1, c2}
    UUIDs = {c1, c2}
    Requests = {r1, r2}
    Expiries = {1, 3}
    MaxTime = 2
SYMMETRY Interchangeable
INVARIANTS
    TypeOK
    AckHolds
    ShownIsCurrent
PROPERTY
    Forward

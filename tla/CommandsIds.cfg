SPECIFICATION Spec
CONSTANTS
    Devices = {d1, d2}
    Ids = {c1, c2, u1}
    StoreIds = {c1, c2}
    UUIDs = {u1}
    Requests = {r1, r2}
    Expiries = {1, 3}
    MaxTime = 2
SYMMETRY Interchangeable
INVARIANT
    StoredIdsAccepted

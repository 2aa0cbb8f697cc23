SPECIFICATION Spec
CONSTANTS
    x = x
    y = y
    bad = bad
    Readings = {x, y, bad}
    Valid = {x, y}
    Batches <- BatchesOf
    Requests = {r1, r2, r3}
    MaxSends = 2
SYMMETRY Interchangeable
INVARIANTS
    StoredFirst
    CountsAreStored
    LossHasCause
    RacesBounded
CHECK_DEADLOCK FALSE

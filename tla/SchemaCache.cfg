SPECIFICATION Spec
CONSTANTS
    Keys = {k1}
    Instances = {i1, i2}
    Requests = {r1, r2}
    SchemaTTL = 2
    Lag = 1
    MaxUploads = 3
    MaxTime = 4
SYMMETRY Interchangeable
INVARIANTS
    StalenessBound
    OnlyStoredSchemas

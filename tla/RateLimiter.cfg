SPECIFICATION FairSpec
CONSTANTS
    Keys = {k1, k2}
    Calls = {c1, c2, c3, c4}
    Window = 2
    Limit = 2
    MaxTime = 5
INVARIANTS
    WindowLimit
    PruningIsInvisible
    MemoryBound
PROPERTY
    IdleKeysAreForgotten
CHECK_DEADLOCK FALSE

SPECIFICATION Spec
CONSTANTS
    Kids = {k1, k2}
    TokenKids = {k1}
    Requests = {r1, r2}
    NoRequest = none
    KeyTTL = 1
    Lag = 1
    MaxTime = 2
    Grace = 1
INVARIANTS
    RefusalHasCause
PROPERTIES
    WithdrawnKeysFade
    VerificationEnds

SPECIFICATION Spec
CONSTANTS
    m1 = m1
    m2 = m2
    Spellings <- SpellingsOf
    Normalize <- NormalizeOf
    UUIDs = {u1, u2, u3, u4}
    Requests = {r1, r2}
SYMMETRY Interchangeable
INVARIANTS
    TypeOK
    DuplicatesOverlapped
    DuplicatesBounded
    SecretsWork

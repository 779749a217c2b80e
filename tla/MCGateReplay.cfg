SPECIFICATION Spec
CONSTANTS
    Nonces = {n1, n2}
    Rids = {q1, q2}
    NoRid = none
    EmptyRid = empty
    Scopes = {a}
    Skews = {0}
    TS_DRIFT = 1
    NONCE_TTL = 1
    NONCE_MAX = 1
    NONCE_SQLITE = TRUE
    IDEM_TTL = 1
    IDEM_MAX = 1
    MaxTime = 2
    MaxSent = 2
SYMMETRY MCSymmetry
INVARIANTS
    StoresBounded
PROPERTIES
    NonceBinding

SPECIFICATION Spec
CONSTANTS
    Nonces = {n1}
    Rids = {q1}
    NoRid = none
    EmptyRid = empty
    Scopes = {a}
    Skews <- AheadOrNot
    TS_DRIFT = 1
    NONCE_TTL = 1
    NONCE_MAX = 1
    NONCE_SQLITE = FALSE
    IDEM_TTL = 1
    IDEM_MAX = 1
    MaxTime = 2
    MaxSent = 2
SYMMETRY MCSymmetry
PROPERTIES
    RunsTwiceOnlyIf

SPECIFICATION MCSpec
CONSTANTS
    Posts = {p1, p2}
    Reads = {g1, g2}
    Isolates = {i1, i2}
    Nonces = {n1, n2}
    JANITOR = TRUE
    REPLAY_TTL = 2
    LOCK_MAX = 1
    CLAIM_TTL = 2
    ITEM_TTL = 0
    FORGET_MAX = 1
    PATIENCE = 1
    MaxTime = 1
    MaxForgets = 1
    MaxRequests = 3
    Notes = {p1, p2}
    Keys = {n1, n2}
    Settings <- MCSettings
    WINDOW = 2
    DEDUPE_TTL = 1
    COOLDOWN = 2
    LastSecond = 6
    t1 = t1
    t2 = t2
    t3 = t3
    t4 = t4
    s1 = s1
    s2 = s2
    Tokens = {t1, t2, t3, t4}
    Sites = {s1, s2}
    Environments <- MCEnvironments
    Signs = {p1, p2}
    Bodies <- MCBodies
    Policies <- MCPolicies
    ControlPlane = {"BindDomain"}
    DefaultRef = "ref"
    TS_WINDOW = 1
    SIGN_TTL = 4
    SIGN_LOCK_MAX = 3
    SIGN_MAX = 1
    SIGN_RATE_TTL = 2
    LastSignSecond = 4
SYMMETRY MCSymmetry
INVARIANTS
    OneWinner
    OneWinnerHere
    ItemsAccounted
    ReadOnce
    ForgetComplete
    DedupeHolds
    LimitsHold
    BreakerNeedsFailures
    TokenIsolation
    ProductionGuarded
    SignedAgainSlow
PROPERTIES
    ClosedOnlyQuietly
CHECK_DEADLOCK FALSE

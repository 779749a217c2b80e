SPECIFICATION Spec
CONSTANTS
    Pages = {home, blog}
    Versions = {v1}
    Contents = {a}
    Times = {0}
    NoVal = NoVal
    MAX_PUBLISH_RETRY = 1
    PUBLISH_LOG_LIMIT = 2
    CACHE_STALE_TTL = 0
    MaxTime = 0
    MaxEntries = 2
SYMMETRY MCSymmetry
PROPERTIES
    WaitingIsKept

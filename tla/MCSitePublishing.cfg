SPECIFICATION FairSpec
CONSTANTS
    Pages = {home}
    Versions = {v1}
    Contents = {a, b}
    Times = {1}
    NoVal = NoVal
    MAX_PUBLISH_RETRY = 1
    PUBLISH_LOG_LIMIT = 1
    CACHE_STALE_TTL = 1
    MaxTime = 2
    MaxEntries = 2
INVARIANTS
    BoundedStaleness
    CacheCoherent
PROPERTIES
    LostOnlyBehindFailed
    EntriesSettle

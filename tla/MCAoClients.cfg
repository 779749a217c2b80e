SPECIFICATION MCSpec
CONSTANTS
    n1 = n1
    s1 = s1
    s2 = s2
    pid1 = pid1
    pid2 = pid2
    Writes = {w1, w2}
    CallerIds = {n1}
    WriteBodies <- MCWriteBodies
    Bridges <- MCBridges
    WRITE_RETRIES = 2
    Unset = unset
    Reads = {r1}
    ReadSites = {s1, s2}
    SitePids = {pid1, pid2}
    Hosts = {h1}
    ReadConfigs <- MCReadConfigs
    PointerSets <- MCPointerSets
    MaxRepoints = 1
    Absent = absent
    Clients = {c1, c2}
    ClientKinds = {"api", "deep", "matrix", "write", "write_auto", "diagnose"}
    ApiConfigs <- MCApiConfigs
    SEND_ATTEMPTS = 2
    READ_ATTEMPTS = 2
    MaxSlot = 3
INVARIANTS
    ReadFromNamed
    ReadsSpareTheLog
    OwnResult
PROPERTIES
    KeepsPromise
    WritesAnswered
    ClientsFinish
CHECK_DEADLOCK FALSE

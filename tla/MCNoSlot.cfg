SPECIFICATION ClientsSpec
CONSTANTS
    Clients = {c1, c2}
    ClientKinds = {"api", "deep", "matrix", "write", "write_auto", "diagnose"}
    ApiConfigs <- MCApiConfigs
    SEND_ATTEMPTS = 3
    READ_ATTEMPTS = 2
    MaxSlot = 4
INVARIANTS
    NoSlotFails
CHECK_DEADLOCK FALSE

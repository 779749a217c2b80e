SPECIFICATION Spec
CONSTANTS
    Skus = {s1}
    Warehouses = {w1, w2}
    Default = w1
    POs = {o1}
    Checkouts = {c1, c2}
    Orders = {r1}
    Returns = {t1}
    Carts <- MCCarts
    Counts = {1}
    Thresholds = {0, 1}
    Limits = {2, 4}
    ReturnStatuses = {"approved"}
    None = None
    MaxApprovals = 2
    MaxStock = 2
SYMMETRY MCSymmetry
INVARIANTS
    StockAccounted
    ReserveCovers
    ChargedAsApproved

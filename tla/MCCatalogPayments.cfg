SPECIFICATION Spec
CONSTANTS
    Payments = {p1, p2}
    Checkouts = {c1}
    Orders = {o1}
    Statuses = {"requires_action", "authorized", "captured", "refunded"}
    EventStatuses = {"authorized", "paid"}
    None = None
SYMMETRY MCSymmetry
INVARIANTS
    PaidMeansCaptured
    CaptureSettles
PROPERTIES
    RefundStays

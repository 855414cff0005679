SPECIFICATION Spec
CONSTANTS
    Orders = {o1}
    Callers = {c1}
    Qty = 2
    Exchanges = {"MEXC"}
    MaxDrops = 0
    None = None
INVARIANT DoneMeansDone
CHECK_DEADLOCK FALSE

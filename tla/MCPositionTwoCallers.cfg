SPECIFICATION Spec
CONSTANTS
    Orders = {o1}
    Callers = {c1, c2}
    Ops = {"sync", "cancel", "trail"}
    Qty = 2
    Holding = 0
    Exchanges = {"GATEIO"}
    Faults = {}
    None = None
INVARIANT NoOvercount
CHECK_DEADLOCK FALSE

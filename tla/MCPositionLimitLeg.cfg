SPECIFICATION Spec
CONSTANTS
    Orders = {o1, o2, o3}
    Callers = {c1}
    Ops = {"sync", "cancel", "trail", "setSide"}
    Qty = 2
    Holding = 2
    Exchanges = {"GATEIO", "GATEIO_FUTURES"}
    Faults = {"margin"}
    None = None
INVARIANTS TrackedIsCounted SettledIsExact
CHECK_DEADLOCK FALSE

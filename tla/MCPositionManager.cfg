SPECIFICATION Spec
CONSTANTS
    Orders = {o1, o2}
    Callers = {c1}
    Ops = {"sync", "cancel", "trail", "market", "setSide"}
    Qty = 2
    Holding = 2
    Exchanges = {"MEXC", "GATEIO", "GATEIO_FUTURES"}
    Faults = {"timeout", "notFound", "margin"}
    None = None
INVARIANTS TypeOK NoOvercount Ledger
CHECK_DEADLOCK FALSE

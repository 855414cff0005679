SPECIFICATION Spec
CONSTANTS
    Orders = {o1}
    Callers = {c1}
    Qty = 2
    Exchanges = {"GATEIO"}
    MaxDrops = 1
    None = None
PROPERTY ReloadPublishesFinished
CHECK_DEADLOCK FALSE

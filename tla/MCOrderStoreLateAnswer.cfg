SPECIFICATION FairSpec
CONSTANTS
    Orders = {o1}
    Callers = {c1}
    Qty = 2
    Exchanges = {"GATEIO"}
    MaxDrops = 0
    None = None
PROPERTY FinalUpdateLasts
CHECK_DEADLOCK FALSE

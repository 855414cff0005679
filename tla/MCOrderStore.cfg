SPECIFICATION FairSpec
CONSTANTS
    Orders = {o1}
    Callers = {c1, c2}
    Qty = 2
    Exchanges = {"MEXC", "GATEIO"}
    MaxDrops = 1
    None = None
INVARIANTS TypeOK AllIsGenuine
PROPERTIES RemovedOnlyWhenDone FinalUpdateLands
CHECK_DEADLOCK FALSE

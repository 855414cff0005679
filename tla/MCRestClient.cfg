SPECIFICATION FairSpec
CONSTANTS
    order = order
    query = query
    ticker = ticker
    orders = orders
    tickers = tickers
    Calls <- MCCalls
    Placements = {order}
    Endpoints = {orders, tickers}
    Listed = {orders}
    EndpointOf <- MCEndpointOf
    GlobalLimit = 2
    Burst = 1
    MaxAttempts = 2
    MaxCancels = 1
INVARIANTS TypeOK PermitsAccounted CloseServesWaiters EffectsExplained
PROPERTIES ImplementsAtLeastOnce CallsReturn
CHECK_DEADLOCK FALSE

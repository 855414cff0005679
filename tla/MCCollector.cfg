SPECIFICATION Spec
CONSTANTS
    quote = quote
    echo = echo
    deal = deal
    twin = twin
    trade = trade
    rate = rate
    mexc = mexc
    gate = gate
    symbol = symbol
    Quotes = {quote, echo}
    Trades = {deal, twin, trade}
    Rates = {}
    Identified = {trade}
    MarketOf <- MCMarketOf
    SymbolOf <- MCSymbolOf
    PriceOf <- MCPriceOf
    StampOf <- MCStampOf
    MaxAgain = 1
    MaxFaults = 1
INVARIANTS TypeOK RowsExplained SeenIsStored CalmLosesNothing

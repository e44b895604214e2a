SPECIFICATION ResolverSpec
CONSTANTS
    Tickers = {runner, once}
    Runner = runner
    Trades = {t1}
    Labels = {l1}
    Events = {e1, e2}
    Bars = 2
    Candles <- MCCandles
    Stop0 <- MCStop0
    Target = 2
    Stops <- MCStops
    Prices <- MCPrices
    Quantity = 2
    EntryCost = 1
    ExitCost = 1
    Horizon = 2
    Evidence <- MCEvidence
    MaxMissing = 1
    MaxRows = 1
INVARIANTS LedgerBalances ResultsMatchMarket
PROPERTIES SettledIsFinal
CHECK_DEADLOCK FALSE
SYMMETRY EventSymmetry

\* The dashboard and the Telegram service, one of which dies once; two commands
\* and one run of an evidence tool while the evidence changes once; two symbols
\* of two candles, one candle a day; an account of three symbols, two with an odd
\* name and one of these unlisted, that changes once while it is read twice; two
\* decisions and three audits.
CONSTANTS
    Clients = {dashboard, telegram}
    MaxOps = 3
    MaxDeaths = 1
    MaxRuns = 2
    Commands = {first, second}
    Commits = {"ours", "other"}
    CampaignCommit = "ours"
    MaxEvidence = 1
    Sufficient = {0}
    MaxToolRuns = 1
    NoRow = NoRow
    Symbols = 2
    Candles = 2
    CandlesPerDay = 1
    MaxDayAccepts = 1
    MaxSymbolDay = 1
    MaxStopLosses = 2
    MaxDayTrades = 3
    MaxLosses = 3
    MaxRescues = 2
    MaxRescuesOpen = 1
    MaxOpenPositions = 1
    Pairs = {"btc", "odd", "ghost"}
    OddPairs = {"odd", "ghost"}
    Listed = {"odd"}
    Tracked = {}
    MaxFillPairs = 2
    TransportRetries = 1
    MaxWait = 2
    MaxReads = 2
    MaxMoves = 1
    MaxRows = 2
    Kinds = {"filled", "aligned", "planned", "unlabelled", "shadowed"}
    MaxAudits = 3
SPECIFICATION ToolsSpec
SYMMETRY Interchangeable
INVARIANTS OneOperation QualificationStands ReplayAddsUp StandingExposureIsFound AuditStands
PROPERTIES DeletesOnlyItsOwn SilentWhileLimited
CHECK_DEADLOCK FALSE

\* Two coins of one correlation group over a day and a bit, two fills; a snapshot with
\* up to two things wrong; four listings, one excluded, scanned twice, one odd answer
\* of the exchange and one step of the clock; two judgements of candles over four
\* instants, one frame twice the others, answers up to two instants behind.
CONSTANTS
    Coins = {"btc", "eth"}
    Majors = {"btc", "eth"}
    Requests = {4}
    Loss = 12
    Gain = 5
    MaxOpenPos = 2
    MaxConcurrent = 2
    MaxTotal = 5
    MaxPerSymbol = 3
    MaxPerGroup = 4
    MaxInGroup = 2
    Equity0 = 100
    DailyLossPct = 10
    DrawdownPct = 15
    Cooldown = 2
    SymbolADay = 1
    TradesADay = 2
    SymbolStreak = 1
    GlobalStreak = 2
    MinNotional = 1
    TicksPerDay = 4
    MaxSelected = 2
    MaxClock = 4
    MaxFilled = 2
    MinRR = 30000
    MinEffRR = 32000
    MinStop = 40
    MaxStop = 300
    ExtremeMult = 2
    SoftScore = 8
    SoftRR = 36000
    SoftScale = 50
    MaxSpread = 25
    MaxSlip = 20
    MaxTotalCost = 60
    MaxFunding = 10
    MinLiquidity = 30
    MaxLatency = 2500
    MaxVolPenalty = 4000
    MinATR = 20
    MaxATR = 600
    MinScore = 6
    MaxAge = 5
    MaxOdd = 2
    Listings = 4
    TopVolume = 5
    Excluded = {4}
    MinVolume = 2
    WidestSpread = 2
    TopN = 2
    MaxActive = 1
    MinCap = 5
    MaxCap = 6
    EvidenceAge = 2
    StaleAge = 3
    ClockSkew = 1
    Frame = 2
    MaxMono = 6
    MaxScans = 2
    MaxSteps = 1
    MaxGone = 1
    RegimeFrame = 4
    SetupFrame = 2
    ExecutionFrame = 2
    Styles = {"guided", "legacy", "state"}
    MaxIntervals = 1
    MaxInstant = 4
    MaxBehind = 1
    MaxLag = 2
    MaxBuilds = 2
SPECIFICATION GatesSpec
INVARIANTS CapsHold PaceHolds AcceptedIsSafe DecisionIsFresh SelectionIsSound SignalStandsOnClosedCandles
CHECK_DEADLOCK FALSE

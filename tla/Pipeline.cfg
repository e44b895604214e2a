SPECIFICATION Spec
CONSTANTS
    Symbols = {btc, eth}
    MaxCandle = 3
    Quiet = {eth}
    SetupSpan = 2
    MaxOpen = 2
    MaxRun = 2
    MaxFills = 2
    MaxRejects = 2
    MaxCrash = 1
    LookupFaults = {"decision"}
INVARIANTS ExposureBounded DecidedOnce VerdictHasFill EpisodeRejectedOnce

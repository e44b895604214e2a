\* One worker process, started in the foreground or launched, and two operators
\* whose commands interleave; the campaign is continued once.
CONSTANTS
    Workers = {w1}
    Operators = {o1, o2}
    Foreground = {"foreground", "launched"}
    MaxRuns = 2
    None = None
SPECIFICATION FairSpec
INVARIANTS CauseMatchesEnd
PROPERTIES EndIsFinal StoppedCampaignHasNoWorker
CHECK_DEADLOCK FALSE

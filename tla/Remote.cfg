\* Every command, in every order the responses allow; any commit may fail and
\* the service may die anywhere.
CONSTANTS
    CommandKinds = {"PAUSE", "RESUME", "RECOVERY", "CONFIRM", "CANCEL", "QUERY", "NOISE"}
    MaxRuns = 2
    MaxUpdates = 3
SPECIFICATION Spec
INVARIANT ConfirmedOnce
PROPERTIES AnswersAreKept
CHECK_DEADLOCK FALSE

CONSTANTS
    Procs = {"runtime", "maintain"}
    MaxCycles = 3
    MaxRuns = 2
    MaxFaults = 1
    Batch = 1
    Recent = 1
    High = 2
    Low = 1
SPECIFICATION Spec
INVARIANT LedgerVerifies
CHECK_DEADLOCK FALSE

\* Two requests may wait in stop() at once, others come and go between them;
\* two processes maintain a store of two cycles, with one fault.  A campaign
\* that has ended with nothing to clean up leaves the store as it is.
CONSTANTS
    Requests = {q1, q2}
    Procs = {"runtime", "maintain"}
    MaxCycles = 2
    MaxRuns = 2
    MaxFaults = 1
    Batch = 1
    Recent = 1
    High = 2
    Low = 0
SPECIFICATION HostSpec
INVARIANT RunningIsTrue
PROPERTIES StopEnds RemovalIsBacked CleanupFinishes
CHECK_DEADLOCK FALSE

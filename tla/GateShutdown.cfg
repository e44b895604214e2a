\* The campaign may end, and the runner go, at any moment of an outage, which
\* may be over some day.
CONSTANTS
    BusyWriters = {"cycle", "pause", "final"}
    FailureClasses = {"TRANSIENT", "PERMANENT"}
    GraceExpires = TRUE
    CampaignEnds = TRUE
    HbThreshold = 1
SPECIFICATION FairSpec
INVARIANTS ReleasedOnlyQuiet
PROPERTIES ReaderProtocol GateReopens
CHECK_DEADLOCK FALSE

\* A permanent provider failure or a late read; every evidence writer may give up.
CONSTANTS
    BusyWriters = {"cycle", "reject", "heartbeat", "terminal", "position", "ownership", "decision", "lifecycle", "storage"}
    FailureClasses = {"PERMANENT"}
    GraceExpires = TRUE
    CampaignEnds = FALSE
    HbThreshold = 2
SPECIFICATION Spec

PROPERTIES FillsAreBacked OpensOnEvidence
CHECK_DEADLOCK FALSE

---------------------------- MODULE CampaignState ----------------------------
(***************************************************************************)
(* The campaign row as the Control Center and the remote control see it:   *)
(* its status, its active continuation, and what the commands they run in  *)
(* processes of their own do to both.  BurninCampaign has the full row.    *)
(***************************************************************************)
EXTENDS Integers

CONSTANT MaxRuns   \* bound: continuations of the campaign

ASSUME RunsAssumption == MaxRuns \in Nat \ {0}

VARIABLE campaign  \* campaign_status and active_run_id

Statuses == {"RUNNING", "PAUSED", "RECOVERY_REQUIRED"}
Campaigns == [status : Statuses, run : 1 .. MaxRuns]
Operations == {"pause", "resume"}

NextContinuation ==
    /\ campaign.run < MaxRuns
    /\ campaign' = [status |-> "RUNNING", run |-> campaign.run + 1]

\* status and _worker_verification decide whether the command is run; the
\* worker's state, drift and a second active campaign are inputs.
Allowed(op) ==
    IF op = "pause" THEN campaign.status = "RUNNING" ELSE campaign.status = "PAUSED"

\* burnin_cli looks at no status: pause writes PAUSED, resume opens the next
\* continuation unless a worker is alive, which is an input here.
CliEffect(op) ==
    IF op = "pause" THEN campaign' = [campaign EXCEPT !.status = "PAUSED"]
    ELSE NextContinuation

Expected(op) == IF op = "pause" THEN "PAUSED" ELSE "RUNNING"

\* A worker, the watchdog or an operator's own command line: none of them
\* holds the lease.
CampaignMoves ==
    \/ campaign.status = "RUNNING" /\ campaign' = [campaign EXCEPT !.status = "RECOVERY_REQUIRED"]
    \/ campaign.status # "RUNNING" /\ NextContinuation
=============================================================================

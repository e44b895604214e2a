---------------------------- MODULE RuntimeGate ----------------------------
(***************************************************************************)
(* The fail-closed execution gate of RuntimeOrchestrator                   *)
(* (src/alphaforge/runtime.py) in PAPER mode, attached to a campaign, with *)
(* a persistence engine and a reconciliation provider: the flags that      *)
(* _execution_reconciliation_blocked reads, and every task of the event    *)
(* loop that sets or clears one of them: reconciliation, scan, heartbeat,  *)
(* the campaign runner's resolver callbacks, startup and shutdown.         *)
(*                                                                         *)
(* One action is the code between two awaits.  `world` is foul while the   *)
(* provider may fail or hang and SQLite may stay BUSY beyond the bounded   *)
(* retries; in a fair world calls succeed.                                 *)
(***************************************************************************)
EXTENDS Naturals

CONSTANTS BusyWriters,     \* writer families whose bounded retries may run out
          FailureClasses,  \* classes provider_failures.py gives a failed read
          GraceExpires,    \* may an outage outlast its grace period?
          CampaignEnds,    \* may somebody else end the campaign?
          HbThreshold      \* _heartbeat_persistence_failure_threshold

Writers == {"cycle", "reject", "lifecycle", "position", "ownership", "decision",
            "heartbeat", "terminal", "pause", "storage", "final"}
Classes == {"TRANSIENT", "PERMANENT", "UNKNOWN"}

ASSUME BusyAssumption  == BusyWriters \subseteq Writers
ASSUME ClassAssumption == FailureClasses \subseteq Classes
ASSUME GraceAssumption == GraceExpires \in BOOLEAN /\ CampaignEnds \in BOOLEAN
ASSUME ThresholdAssumption == HbThreshold \in Nat \ {0}

VARIABLES
    \* --- the reader of the reconciliation provider
    pending, waiting, closed, threads, own,
    \* --- the orchestrator
    phase,      \* starting, operating, cancelling, draining, down
    stop,       \* _stop_event
    fatal,      \* _fatal_task_exception
    rec,        \* where the reconciliation task is
    scan,       \* where the market-scan task is
    gate,       \* the flags of _execution_reconciliation_blocked
    provider,   \* _provider_failure_class, _count, and outage clock running
    repaired,   \* the finding's signature is in _last_repair_signature
    rejectDegraded, \* metrics.reject_persistence_degraded
    hbStreak,   \* _heartbeat_persistence_failure_streak
    exposure,   \* pending orders or active positions
    unaccepted, \* has_unaccepted_read as _shutdown_tasks saw it
    runner,     \* the campaign runner: up, pausing (its resolver thread has
                \* paused the campaign and not yet said so), or gone
    \* --- what is durable
    committed,  \* status of the last committed reconciliation cycle
    campaign,   \* campaign_status
    final,      \* runtime_status of the snapshot that ends the run
    released,   \* the execution lease was released at shutdown
    \* --- the environment
    world       \* fair or foul

reader   == <<pending, waiting, closed, threads, own>>
control  == <<phase, stop, fatal>>
durable  == <<committed, campaign, final, released>>
counters == <<rejectDegraded, hbStreak>>
vars == <<reader, control, rec, scan, gate, provider, repaired, counters,
          exposure, unaccepted, runner, durable, world>>

Reader == INSTANCE SnapshotReader

Reasons == {"none", "EXCHANGE_STATE_UNKNOWN", "RECONCILIATION_PERSISTENCE_FAILED",
            "RESOLVER_PROVIDER_UNAVAILABLE", "FINDING", "REJECT_PERSISTENCE_FAILED",
            "LIFECYCLE_PERSISTENCE_FAILED", "PAPER_POSITION_PERSISTENCE_FAILED",
            "EXECUTION_OWNERSHIP_PERSISTENCE_BUSY", "STORAGE_PRESSURE",
            "PHASE7_BURNIN_PERSISTENCE_FAILURE",
            "SUSTAINED_HEARTBEAT_PERSISTENCE_FAILURE", "READ_UNACCEPTED_AT_SHUTDOWN"}
Statuses == {"UNKNOWN", "CLEAN", "DIRTY", "EXCHANGE_STATE_UNKNOWN", "PERSISTENCE_FAILED"}

FlagType == [storage : BOOLEAN, unhealthy : BOOLEAN, reason : Reasons,
             recovery : BOOLEAN, unknown : BOOLEAN, resolverDown : BOOLEAN,
             resolverPending : BOOLEAN, readOnly : {"UNKNOWN", "AVAILABLE", "UNAVAILABLE"},
             status : Statuses]
ProviderType == [class : Classes \cup {"none"}, count : 0..3, outage : BOOLEAN]

RuntimeTypeOK ==
    /\ phase \in {"starting", "operating", "cancelling", "draining", "down"}
    /\ stop \in BOOLEAN /\ fatal \in BOOLEAN
    /\ rec \in {"init", "idle", "reading", "finding", "incident"}
    /\ scan \in {"idle", "checking", "saving", "deciding", "opening"}
    /\ gate \in FlagType /\ provider \in ProviderType
    /\ repaired \in BOOLEAN /\ rejectDegraded \in BOOLEAN /\ exposure \in BOOLEAN
    /\ unaccepted \in BOOLEAN /\ released \in BOOLEAN
    /\ hbStreak \in 0..HbThreshold
    /\ committed \in Statuses
    /\ campaign \in {"RUNNING", "PAUSED", "RECOVERY_REQUIRED", "ENDED_ELSEWHERE"}
    /\ runner \in {"up", "pausing", "gone"}
    /\ final \in {"none", "CLEAN_SHUTDOWN", "RECOVERY_REQUIRED", "FAILED"}
    /\ world \in {"fair", "foul"}

TypeOK == Reader!ReaderTypeOK /\ RuntimeTypeOK

Init ==
    /\ Reader!Init
    /\ phase = "starting" /\ stop = FALSE /\ fatal = FALSE
    /\ rec = "init" /\ scan = "idle"
    /\ gate = [storage |-> FALSE, unhealthy |-> FALSE, reason |-> "none",
               recovery |-> FALSE, unknown |-> FALSE, resolverDown |-> FALSE,
               resolverPending |-> FALSE, readOnly |-> "UNKNOWN", status |-> "UNKNOWN"]
    /\ provider = [class |-> "none", count |-> 0, outage |-> FALSE]
    /\ repaired = FALSE /\ rejectDegraded = FALSE /\ hbStreak = 0
    /\ exposure = FALSE /\ unaccepted = FALSE /\ runner = "up"
    /\ committed = "UNKNOWN" /\ campaign = "RUNNING" /\ final = "none" /\ released = FALSE
    /\ world = "fair"

\* run_sqlite_write_with_retry and its siblings give up on this write.
Busy(writer) == world = "foul" /\ writer \in BusyWriters

\* Mutant: the gate forgets that a cycle is between its first flag and its commit.
BlockedIgnoringCycle ==
    \/ gate.storage \/ gate.reason # "none" \/ gate.recovery \/ gate.unknown
    \/ gate.resolverDown \/ gate.resolverPending \/ gate.readOnly = "UNAVAILABLE"
    \/ gate.status \in {"EXCHANGE_STATE_UNKNOWN", "DIRTY", "PERSISTENCE_FAILED"}

\* _execution_reconciliation_blocked
Blocked ==
    \/ gate.storage \/ gate.unhealthy \/ gate.reason # "none"
    \/ gate.recovery \/ gate.unknown
    \/ gate.resolverDown \/ gate.resolverPending
    \/ gate.readOnly = "UNAVAILABLE"
    \/ gate.status \in {"EXCHANGE_STATE_UNKNOWN", "DIRTY", "PERSISTENCE_FAILED"}

\* _mark_sqlite_persistence_recovery_required, and the same assignments in the
\* reject and lifecycle writers: the first reason is kept.
Recovery(g, why) ==
    [g EXCEPT !.recovery = TRUE, !.reason = IF @ = "none" THEN why ELSE @]

\* _persist_burnin_decision, _persist_burnin_periodic_metrics and
\* _finalize_burnin_run swallow a failure: it replaces the reason and does not
\* ask for recovery.
DecisionLost(g) == [g EXCEPT !.reason = "PHASE7_BURNIN_PERSISTENCE_FAILURE"]

-----------------------------------------------------------------------------
(* Reconciliation.                                                         *)

\* Mutant: the resolver's reason is not among them.
ClearableForgetting == {"EXCHANGE_STATE_UNKNOWN", "RECONCILIATION_PERSISTENCE_FAILED"}

\* Reasons a complete read may clear, unless the resolver is down.
Clearable == {"EXCHANGE_STATE_UNKNOWN", "RECONCILIATION_PERSISTENCE_FAILED",
              "RESOLVER_PROVIDER_UNAVAILABLE"}

\* The reason once the read ended: an incomplete read replaces whatever reason
\* was there, and a finding shows only when nothing else was wrong.
ReasonAfterRead(g, complete, found) ==
    LET observed == IF ~ complete THEN "EXCHANGE_STATE_UNKNOWN"
                    ELSE IF g.resolverDown THEN "RESOLVER_PROVIDER_UNAVAILABLE"
                    ELSE IF g.reason \in Clearable THEN "none"
                    ELSE g.reason
    IN IF observed = "none" /\ found # "nothing" THEN "FINDING" ELSE observed

StatusAfterRead(complete, reason) ==
    IF reason = "none" THEN "CLEAN"
    ELSE IF complete THEN "DIRTY" ELSE "EXCHANGE_STATE_UNKNOWN"

\* The flags between the end of the read and the commit of its evidence.
AfterRead(g, complete, found) ==
    LET reason == ReasonAfterRead(g, complete, found)
    IN [g EXCEPT !.readOnly = IF complete THEN "AVAILABLE" ELSE "UNAVAILABLE",
                 !.reason = reason,
                 !.unknown = /\ reason # "none"
                             /\ ~ complete \/ @ \/ provider.outage \/ g.resolverPending,
                 !.status = StatusAfterRead(complete, reason)]

\* The provider bookkeeping of an incomplete read; the count saturates at the
\* threshold of unknown failures.
Failed(class) ==
    [class |-> class,
     count |-> IF provider.count < 3 THEN provider.count + 1 ELSE 3,
     outage |-> provider.outage \/ class = "TRANSIENT"]

\* _pause_for_provider_failure: the campaign rows in one transaction, then
\* shutdown(); a BUSY transaction ends the reconciliation task instead.
Pause ==
    /\ stop' = TRUE
    /\ \/ /\ campaign' = IF campaign = "RUNNING" THEN "PAUSED" ELSE campaign
          /\ UNCHANGED fatal
       \/ /\ Busy("pause")
          /\ fatal' = TRUE
          /\ UNCHANGED campaign

NoPause == UNCHANGED <<stop, fatal, campaign>>

\* The escalation rules that follow a committed cycle.
Escalate(p) ==
    CASE p.class = "PERMANENT" -> Pause
      [] p.class = "UNKNOWN" /\ p.count >= 3 -> Pause
      [] p.class = "TRANSIENT" /\ p.outage -> NoPause \/ (GraceExpires /\ Pause)
      [] OTHER -> NoPause

\* persist_reconciliation_cycle gave up: everything stays shut, the cycle ends.
CycleCommitFailed(g, p) ==
    /\ Busy("cycle")
    /\ gate' = [g EXCEPT !.status = "PERSISTENCE_FAILED", !.unknown = TRUE,
                         !.reason = "RECONCILIATION_PERSISTENCE_FAILED"]
    /\ provider' = p
    /\ rec' = "idle"
    /\ NoPause
    /\ UNCHANGED <<committed, repaired>>

\* The evidence is committed; only now does the gate believe it.  A fail-closed
\* finding not reported before is remembered and then reported (an await).
CycleCommitted(g, p, found) ==
    LET clean == g.reason = "none"
        known == IF g.readOnly = "AVAILABLE"
                 THEN [class |-> "none", count |-> 0, outage |-> FALSE] ELSE p
        report == found = "orphan" /\ ~ repaired
    IN /\ gate' = [g EXCEPT !.unhealthy = FALSE,
                            !.resolverPending = @ /\ ~ clean]
       /\ committed' = g.status
       /\ provider' = known
       /\ IF clean THEN NoPause ELSE Escalate(known)
       /\ IF fatal' /\ ~ fatal
          THEN rec' = "idle" /\ UNCHANGED repaired
          ELSE /\ rec' = IF report THEN "finding" ELSE "idle"
               /\ repaired' = (repaired \/ report)

EndCycle(complete, class, found) ==
    LET g == AfterRead([gate EXCEPT !.unhealthy = TRUE], complete, found)
        p == IF complete THEN provider ELSE Failed(class)
    IN CycleCommitFailed(g, p) \/ CycleCommitted(g, p, found)

\* _reconcile_runtime_state starts: nothing is tradable until it commits.
MayReconcile == \/ phase = "starting" /\ rec = "init"
                \/ phase = "operating" /\ rec = "idle" /\ ~ stop

ReconcileBegin ==
    /\ MayReconcile
    /\ Reader!Begin
    /\ rec' = "reading"
    /\ gate' = [gate EXCEPT !.unhealthy = TRUE]
    /\ UNCHANGED <<control, scan, provider, repaired, counters, exposure, unaccepted,
                   durable, runner, world>>

\* An abandoned thread is still reading: the reader refuses, and the refusal is
\* an incomplete cycle of class UNKNOWN.
ReconcileRefused ==
    /\ MayReconcile
    /\ ~ Reader!MayBegin
    /\ EndCycle(FALSE, "UNKNOWN", "nothing")
    /\ UNCHANGED <<reader, phase, scan, counters, exposure, unaccepted, final, released,
                   runner, world>>

\* The read ends in time: complete, with or without findings, or failed.
ReconcileRead ==
    /\ rec = "reading"
    /\ Reader!Accept
    /\ \/ EndCycle(TRUE, "none", "nothing")
       \/ /\ world = "foul"
          /\ \/ \E found \in {"stale", "orphan"} : EndCycle(TRUE, "none", found)
             \/ \E class \in FailureClasses : EndCycle(FALSE, class, "nothing")
    /\ UNCHANGED <<phase, scan, counters, exposure, unaccepted, final, released, runner, world>>

\* The report of a fail-closed finding is persisted, or given up; then shutdown.
FindingReported ==
    /\ rec = "finding"
    /\ rec' = "idle"
    /\ stop' = TRUE
    /\ \/ UNCHANGED gate
       \/ /\ Busy("lifecycle")
          /\ gate' = Recovery(gate, "LIFECYCLE_PERSISTENCE_FAILED")
    /\ UNCHANGED <<reader, phase, fatal, scan, provider, repaired, counters, exposure,
                   unaccepted, durable, runner, world>>

\* asyncio.wait_for cancels a cycle that waits too long, for the provider or for
\* the report of a finding; the read stays behind, the flags say unknown.
ReconcileTimeout ==
    /\ world = "foul"
    /\ \/ rec = "reading" /\ Reader!Abandon
       \/ rec = "finding" /\ UNCHANGED reader
    /\ rec' = "incident"
    /\ gate' = [gate EXCEPT !.unknown = TRUE, !.readOnly = "UNAVAILABLE",
                            !.status = "EXCHANGE_STATE_UNKNOWN",
                            !.reason = "EXCHANGE_STATE_UNKNOWN"]
    /\ provider' = Failed("TRANSIENT")
    /\ UNCHANGED <<control, scan, repaired, counters, exposure, unaccepted, durable, runner, world>>

\* ... and, once the incident is reported or given up, so does the evidence.
TimeoutRecorded ==
    /\ rec = "incident"
    /\ rec' = "idle"
    /\ \E given_up \in {b \in BOOLEAN : b => Busy("lifecycle")} :
         LET g == IF given_up THEN Recovery(gate, "LIFECYCLE_PERSISTENCE_FAILED") ELSE gate
         IN \/ /\ Busy("cycle")
               /\ gate' = [g EXCEPT !.unhealthy = TRUE]
               /\ NoPause
               /\ UNCHANGED committed
            \/ /\ gate' = [g EXCEPT !.unhealthy = FALSE]
               /\ committed' = gate.status
               /\ NoPause \/ (GraceExpires /\ Pause)
    /\ UNCHANGED <<reader, phase, scan, provider, repaired, counters, exposure, unaccepted,
                   final, released, runner, world>>
-----------------------------------------------------------------------------
(* The scan task.  An iteration that began before stop still runs.         *)

\* _scan_once: positions the resolver closed are dropped, then the storage
\* check runs in a worker thread.
ScanBegin ==
    /\ phase = "operating" /\ scan = "idle" /\ ~ stop
    /\ scan' = "checking"
    /\ exposure' \in {FALSE, exposure}
    /\ UNCHANGED <<reader, control, rec, gate, provider, repaired, counters, unaccepted,
                   durable, runner, world>>

\* No pressure now; pressure once seen keeps the scan from going on.
StorageOk ==
    /\ phase = "operating" /\ scan = "checking"
    /\ scan' = IF gate.storage THEN "idle" ELSE "deciding"
    /\ UNCHANGED <<reader, control, rec, gate, provider, repaired, counters, exposure,
                   unaccepted, durable, runner, world>>

\* Pressure: fail closed, and the first time save a snapshot in a worker thread.
StoragePressure ==
    /\ phase = "operating" /\ scan = "checking" /\ world = "foul"
    /\ gate' = [gate EXCEPT !.storage = TRUE, !.recovery = TRUE,
                            !.reason = "STORAGE_PRESSURE"]
    /\ scan' = IF gate.storage THEN "idle" ELSE "saving"
    /\ UNCHANGED <<reader, control, rec, provider, repaired, counters, exposure, unaccepted,
                   durable, runner, world>>

\* Without exposure and with a clean, persisted state the run ends here.
StorageSaved ==
    /\ phase = "operating" /\ scan = "saving"
    /\ scan' = "idle"
    /\ \/ stop' = (stop \/ (~ exposure /\ ~ gate.unknown /\ gate.status = "CLEAN"))
       \/ /\ Busy("storage")
          /\ UNCHANGED stop
    /\ UNCHANGED <<reader, phase, fatal, rec, gate, provider, repaired, counters, exposure,
                   unaccepted, durable, runner, world>>

ScanEnd ==
    /\ phase = "operating" /\ scan = "deciding"
    /\ scan' = "idle"
    /\ UNCHANGED <<reader, control, rec, gate, provider, repaired, counters, exposure,
                   unaccepted, durable, runner, world>>

\* Mutant: any persisted reject declares the runtime recovered.
RejectPersistedRecovering ==
    /\ phase = "operating" /\ scan = "deciding"
    /\ rejectDegraded' = FALSE
    /\ gate' = [gate EXCEPT !.reason = "none", !.recovery = FALSE]
    /\ UNCHANGED <<reader, control, rec, scan, provider, repaired, hbStreak,
                   exposure, unaccepted, durable, runner, world>>

\* _persist_reject commits.  If rejects were degraded it takes the recovery flag
\* back, provided the reason is still the one rejects set.
RejectPersisted ==
    /\ phase = "operating" /\ scan = "deciding"
    /\ rejectDegraded' = FALSE
    /\ gate' = IF rejectDegraded /\ gate.reason = "REJECT_PERSISTENCE_FAILED"
               THEN [gate EXCEPT !.reason = "none", !.recovery = FALSE]
               ELSE gate
    /\ UNCHANGED <<reader, control, rec, scan, provider, repaired, hbStreak,
                   exposure, unaccepted, durable, runner, world>>

RejectBusy ==
    /\ phase = "operating" /\ scan = "deciding" /\ Busy("reject")
    /\ rejectDegraded' = TRUE
    /\ gate' = Recovery(gate, "REJECT_PERSISTENCE_FAILED")
    /\ UNCHANGED <<reader, control, rec, scan, provider, repaired, hbStreak,
                   exposure, unaccepted, durable, runner, world>>

\* A lifecycle event of the scan is given up; the scan goes on.
LifecycleBusy ==
    /\ phase = "operating" /\ scan \in {"deciding", "opening"} /\ Busy("lifecycle")
    /\ gate' = Recovery(gate, "LIFECYCLE_PERSISTENCE_FAILED")
    /\ UNCHANGED <<reader, control, rec, scan, provider, repaired, counters, exposure,
                   unaccepted, durable, runner, world>>

\* _execute gives up the lease write; the gate that follows cancels the order.
OwnershipBusy ==
    /\ phase = "operating" /\ scan = "deciding" /\ Busy("ownership")
    /\ gate' = Recovery(gate, "EXECUTION_OWNERSHIP_PERSISTENCE_BUSY")
    /\ UNCHANGED <<reader, control, rec, scan, provider, repaired, counters, exposure,
                   unaccepted, durable, runner, world>>

\* The kill switch, a refused lease or a fenced one raise out of the scan task.
ExecuteFatal ==
    /\ phase = "operating" /\ scan = "deciding" /\ world = "foul"
    /\ fatal' = TRUE /\ stop' = TRUE
    /\ scan' = "idle"
    /\ UNCHANGED <<reader, phase, rec, gate, provider, repaired, counters, exposure,
                   unaccepted, durable, runner, world>>

\* The gate is open and the position is persisted: the PAPER fill.
Fill ==
    /\ phase = "operating" /\ scan = "deciding"
    /\ ~ Blocked
    /\ scan' = "opening"
    /\ exposure' = TRUE
    /\ UNCHANGED <<reader, control, rec, gate, provider, repaired, counters, unaccepted,
                   durable, runner, world>>

\* Its events are emitted; the burn-in row of the accepted decision is written,
FillReported ==
    /\ phase = "operating" /\ scan = "opening"
    /\ scan' = "deciding"
    /\ UNCHANGED <<reader, control, rec, gate, provider, repaired, counters, exposure,
                   unaccepted, durable, runner, world>>

\* or its failure is logged and the fill stands without it.
DecisionBusy ==
    /\ phase = "operating" /\ scan = "opening" /\ Busy("decision")
    /\ gate' = DecisionLost(gate)
    /\ scan' = "deciding"
    /\ UNCHANGED <<reader, control, rec, provider, repaired, counters, exposure, unaccepted,
                   durable, runner, world>>

\* The position write is given up: no fill, recovery instead.
PositionBusy ==
    /\ phase = "operating" /\ scan = "deciding" /\ Busy("position")
    /\ ~ Blocked
    /\ gate' = Recovery(gate, "PAPER_POSITION_PERSISTENCE_FAILED")
    /\ UNCHANGED <<reader, control, rec, scan, provider, repaired, counters, exposure,
                   unaccepted, durable, runner, world>>
-----------------------------------------------------------------------------
(* The heartbeat task.                                                     *)

Sustained == "SUSTAINED_HEARTBEAT_PERSISTENCE_FAILURE"

\* _mark_heartbeat_persistence_recovery_required: the flags, then the campaign
\* transition; only when that commits may the runtime exit.
Terminalize ==
    /\ gate' = [gate EXCEPT !.recovery = TRUE, !.reason = Sustained]
    /\ \/ /\ campaign' = IF campaign = "RUNNING" THEN "RECOVERY_REQUIRED" ELSE campaign
          /\ stop' = TRUE
       \/ /\ Busy("terminal")
          /\ UNCHANGED <<campaign, stop>>

RetryArmed == gate.recovery /\ gate.reason = Sustained

HeartbeatRetry ==
    /\ phase = "operating" /\ ~ stop /\ RetryArmed
    /\ Terminalize
    /\ UNCHANGED <<reader, phase, fatal, rec, scan, provider, repaired, rejectDegraded,
                   hbStreak, exposure, unaccepted, committed, final, released, runner, world>>

HeartbeatSaved ==
    /\ phase = "operating" /\ ~ stop /\ ~ RetryArmed
    /\ hbStreak' = 0
    /\ UNCHANGED <<reader, control, rec, scan, gate, provider, repaired, rejectDegraded,
                   exposure, unaccepted, durable, runner, world>>

HeartbeatBusy ==
    /\ phase = "operating" /\ ~ stop /\ ~ RetryArmed /\ Busy("heartbeat")
    /\ hbStreak' = IF hbStreak < HbThreshold THEN hbStreak + 1 ELSE hbStreak
    /\ IF hbStreak + 1 >= HbThreshold
       THEN Terminalize
       ELSE UNCHANGED <<gate, campaign, stop>>
    /\ UNCHANGED <<reader, phase, fatal, rec, scan, provider, repaired, rejectDegraded,
                   exposure, unaccepted, committed, final, released, runner, world>>
-----------------------------------------------------------------------------
(* The campaign runner: its resolver reports to the runtime it is attached   *)
(* to, and its end cancels start().                                         *)

Attached == phase \in {"starting", "operating"} /\ runner = "up"

ResolverDown(g) ==
    [g EXCEPT !.resolverDown = TRUE, !.resolverPending = FALSE,
              !.reason = IF @ = "none" THEN "RESOLVER_PROVIDER_UNAVAILABLE" ELSE @]

ResolverFailed ==
    /\ Attached /\ world = "foul"
    /\ gate' = ResolverDown(gate)
    /\ UNCHANGED <<reader, control, rec, scan, provider, repaired, counters, exposure,
                   unaccepted, durable, runner, world>>

\* Mutant: the resolver's word is enough, no clean cycle is asked for.
ResolverRecoveredAtOnce ==
    /\ Attached /\ gate.resolverDown
    /\ gate' = [gate EXCEPT !.resolverDown = FALSE,
                            !.reason = IF @ = "RESOLVER_PROVIDER_UNAVAILABLE" THEN "none" ELSE @]
    /\ UNCHANGED <<reader, control, rec, scan, provider, repaired, counters, exposure,
                   unaccepted, durable, runner, world>>

ResolverRecovered ==
    /\ Attached /\ gate.resolverDown
    /\ gate' = [gate EXCEPT !.resolverDown = FALSE, !.resolverPending = TRUE]
    /\ UNCHANGED <<reader, control, rec, scan, provider, repaired, counters, exposure,
                   unaccepted, durable, runner, world>>

\* The campaign row changes under the runtime: the resolver's thread pauses it,
\* an operator's process pauses it, or the maintenance thread completes it.
CampaignEnded ==
    /\ CampaignEnds
    /\ Attached /\ campaign = "RUNNING"
    /\ campaign' = "ENDED_ELSEWHERE"
    /\ runner' \in {"up"} \cup {r \in {"pausing"} : world = "foul"}
    /\ UNCHANGED <<reader, control, rec, scan, gate, provider, repaired, counters, exposure,
                   unaccepted, committed, final, released, world>>

\* The resolver loop, back on the event loop, reports the failure and returns.
ResolverPaused ==
    /\ runner = "pausing"
    /\ runner' = "gone"
    /\ gate' = ResolverDown(gate)
    /\ UNCHANGED <<reader, control, rec, scan, provider, repaired, counters, exposure,
                   unaccepted, durable, world>>

\* The maintenance loop sees that the campaign no longer runs and returns.
MaintenanceEnds ==
    /\ runner \in {"up", "pausing"} /\ campaign # "RUNNING"
    /\ runner' = "gone"
    /\ UNCHANGED <<reader, control, rec, scan, gate, provider, repaired, counters, exposure,
                   unaccepted, durable, world>>
-----------------------------------------------------------------------------
(* Startup and shutdown.                                                   *)

\* The first cycle left no reason: the tasks start.
StartupDone ==
    /\ phase = "starting" /\ rec = "idle" /\ ~ fatal
    /\ gate.reason = "none"
    /\ phase' = "operating"
    /\ UNCHANGED <<reader, stop, fatal, rec, scan, gate, provider, repaired, counters,
                   exposure, unaccepted, durable, runner, world>>

\* It left one, or raised: start() ends, after a drain if a read is left over.
StartupBlocked ==
    /\ phase = "starting" /\ rec = "idle"
    /\ fatal \/ gate.reason # "none"
    /\ phase' = IF pending = "none" THEN "down" ELSE "cancelling"
    /\ final' = IF fatal THEN "none" ELSE "RECOVERY_REQUIRED"
    /\ fatal' = FALSE
    /\ UNCHANGED <<reader, stop, rec, scan, gate, provider, repaired, counters,
                   exposure, unaccepted, committed, campaign, released, runner, world>>

\* The runner cancels a start() that has not come up yet.
StartupCancelled ==
    /\ phase = "starting" /\ runner = "gone"
    /\ IF waiting THEN Reader!Abandon ELSE UNCHANGED reader
    /\ rec' = "idle"
    /\ phase' = IF pending = "none" THEN "down" ELSE "cancelling"
    /\ UNCHANGED <<stop, fatal, scan, gate, provider, repaired, counters, exposure, unaccepted,
                   durable, runner, world>>

\* A signal or an operator asks for a stop.
Shutdown ==
    /\ phase = "operating" /\ ~ stop
    /\ stop' = TRUE
    /\ UNCHANGED <<reader, phase, fatal, rec, scan, gate, provider, repaired, counters,
                   exposure, unaccepted, durable, runner, world>>

\* Mutant: the cancelled read is forgotten together with its task.
CancelTasksForgetting ==
    /\ phase = "operating" /\ (stop \/ runner = "gone")
    /\ phase' = "cancelling"
    /\ pending' = "none" /\ waiting' = FALSE /\ own' = FALSE
    /\ UNCHANGED <<closed, threads>>
    /\ rec' = "idle" /\ scan' = "idle"
    /\ UNCHANGED <<stop, fatal, gate, provider, repaired, counters, exposure, unaccepted,
                   durable, runner, world>>

\* start() wakes up or is cancelled by the runner: _shutdown_tasks cancels every
\* task wherever it waits ...
CancelTasks ==
    /\ phase = "operating" /\ (stop \/ runner = "gone")
    /\ phase' = "cancelling"
    /\ IF waiting THEN Reader!Abandon ELSE UNCHANGED reader
    /\ rec' = "idle" /\ scan' = "idle"
    /\ UNCHANGED <<stop, fatal, gate, provider, repaired, counters, exposure, unaccepted,
                   durable, runner, world>>

\* ... notes whether a read is unaccounted for, and closes the reader.
CloseReader ==
    /\ phase = "cancelling"
    /\ unaccepted' = (pending # "none")
    /\ Reader!CloseStart
    /\ phase' = "draining"
    /\ UNCHANGED <<stop, fatal, rec, scan, gate, provider, repaired, counters, exposure,
                   durable, runner, world>>

\* Mutant: a read that finished late counts as accounted for.
DrainedFlagsIgnoringLate(quiet) ==
    IF quiet THEN gate
    ELSE [gate EXCEPT !.recovery = TRUE, !.unknown = TRUE, !.readOnly = "UNAVAILABLE",
                      !.status = "EXCHANGE_STATE_UNKNOWN",
                      !.reason = "READ_UNACCEPTED_AT_SHUTDOWN"]

\* The flags after close() returned: only a shutdown that never lost sight of
\* a read is clean.
DrainedFlags(quiet) ==
    IF quiet /\ ~ unaccepted THEN gate
    ELSE [gate EXCEPT !.recovery = TRUE, !.unknown = TRUE, !.readOnly = "UNAVAILABLE",
                      !.status = "EXCHANGE_STATE_UNKNOWN",
                      !.reason = "READ_UNACCEPTED_AT_SHUTDOWN"]

\* The end of start(): the burn-in run's closing rows (a failure becomes the
\* reason), the closing snapshot (skipped when SQLite stays BUSY), then the
\* release of the lease.  A start() that never operated comes here with a read
\* left over, hence with recovery set: it only writes RECOVERY_REQUIRED.
Finish(g) ==
    /\ phase' = "down"
    /\ gate' = g \/ (Busy("decision") /\ gate' = DecisionLost(g))
    /\ \/ final' = IF fatal THEN "FAILED"
                   ELSE IF g.recovery THEN "RECOVERY_REQUIRED" ELSE "CLEAN_SHUTDOWN"
       \/ Busy("final") /\ UNCHANGED final
    /\ released' = (~ fatal /\ ~ g.recovery)

Drained ==
    /\ phase = "draining"
    /\ \/ Reader!CloseQuiescent /\ Finish(DrainedFlags(TRUE))
       \/ Reader!CloseTimeout /\ world = "foul" /\ Finish(DrainedFlags(FALSE))
    /\ UNCHANGED <<stop, fatal, rec, scan, provider, repaired, counters, exposure, unaccepted,
                   committed, campaign, runner, world>>
-----------------------------------------------------------------------------
\* A provider thread ends, early, late or after the runtime.
ProviderReturns ==
    /\ Reader!ThreadDone
    /\ UNCHANGED <<control, rec, scan, gate, provider, repaired, counters, exposure, unaccepted,
                   durable, runner, world>>

WorldTurns ==
    /\ phase # "down"
    /\ world' = IF world = "fair" THEN "foul" ELSE "fair"
    /\ UNCHANGED <<reader, control, rec, scan, gate, provider, repaired, counters, exposure,
                   unaccepted, runner, durable>>

Reconciliation ==
    \/ ReconcileBegin \/ ReconcileRefused \/ ReconcileRead \/ FindingReported
    \/ ReconcileTimeout \/ TimeoutRecorded
Scanning ==
    \/ ScanBegin \/ StorageOk \/ StoragePressure \/ StorageSaved \/ ScanEnd
    \/ RejectPersisted \/ RejectBusy \/ LifecycleBusy \/ OwnershipBusy \/ ExecuteFatal
    \/ Fill \/ FillReported \/ DecisionBusy \/ PositionBusy
Heartbeat == HeartbeatRetry \/ HeartbeatSaved \/ HeartbeatBusy
Lifespan ==
    \/ StartupDone \/ StartupBlocked \/ StartupCancelled \/ Shutdown
    \/ CancelTasks \/ CloseReader \/ Drained
Runner ==
    \/ ResolverFailed \/ ResolverRecovered \/ CampaignEnded \/ ResolverPaused
    \/ MaintenanceEnds

Next ==
    \/ Reconciliation \/ Scanning \/ Heartbeat \/ Runner \/ Lifespan
    \/ ProviderReturns \/ WorldTurns

Spec == Init /\ [][Next]_vars

\* The event loop keeps scheduling its tasks, the resolver and the maintenance
\* loop keep running, and a provider thread ends, if only by its socket timeout.
Fairness ==
    /\ WF_vars(ReconcileBegin \/ ReconcileRefused) /\ WF_vars(ReconcileRead)
    /\ WF_vars(FindingReported) /\ WF_vars(TimeoutRecorded)
    /\ WF_vars(HeartbeatRetry) /\ WF_vars(ResolverRecovered) /\ WF_vars(ProviderReturns)
    /\ WF_vars(ResolverPaused \/ MaintenanceEnds)
    /\ WF_vars(StartupDone \/ StartupBlocked \/ StartupCancelled)
    /\ WF_vars(CancelTasks) /\ WF_vars(CloseReader) /\ WF_vars(Drained)

FairSpec == Spec /\ Fairness
-----------------------------------------------------------------------------
\* A PAPER fill happens only with the last committed cycle CLEAN, no cycle in
\* progress, no read left behind and no outage running, and never after the
\* runtime itself paused its campaign or gave it up: what the comment before the
\* final gate check in _execute relies on.
FillIsBacked ==
    Fill => /\ committed = "CLEAN" /\ rec = "idle" /\ pending = "none"
            /\ ~ provider.outage /\ campaign \in {"RUNNING", "ENDED_ELSEWHERE"}
FillsAreBacked == [][FillIsBacked]_vars

RecoveryStays == gate.recovery /\ ~ rejectDegraded => gate'.recovery
Doubt == gate.unknown \/ gate.resolverDown \/ gate.resolverPending
DoubtEndsClean == Doubt /\ ~ Doubt' => rec = "reading" /\ committed' = "CLEAN"

\* The gate opens on evidence alone.  Doubt about the exchange or the resolver
\* ends only in the step that commits a CLEAN cycle of its own read; and nothing
\* takes the recovery flag back but a reject that had itself failed: no cycle,
\* heartbeat, resolver report or storage check does.
OpensOnEvidence == [][RecoveryStays /\ DoubtEndsClean]_vars

\* The lease is given back only by a run that left no provider thread, no
\* unaccounted read and no recovery behind.
ReleasedOnlyQuiet ==
    released => threads = 0 /\ ~ unaccepted /\ ~ gate.recovery /\ ~ fatal

\* The runtime drives the reader only through the reader's own protocol, so it
\* never has two provider threads and never acts on the result of a cycle it
\* cancelled (readonly_snapshot_reader.py, as the runtime uses it).
ReaderProtocol == Reader!Spec

\* Once the provider and SQLite stay well, a running runtime without sticky
\* damage opens its gate again, from whatever flags the bad time left behind.
Damaged ==
    \/ gate.recovery \/ gate.reason \in {"FINDING", "PHASE7_BURNIN_PERSISTENCE_FAILURE"}
    \/ stop \/ phase = "down"
GateReopens == <>[](world = "fair") => []<>(Damaged \/ ~ Blocked)
=============================================================================

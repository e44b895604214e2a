--------------------------- MODULE BurninCampaign ---------------------------
(***************************************************************************)
(* One PAPER burn-in campaign: its row and the rows of its continuations   *)
(* (src/alphaforge/burnin_campaign.py), the worker processes that run them *)
(* (BurnInCampaignRunner.run_foreground, burnin_cli "worker") and the      *)
(* operators' commands (burnin_cli.py, burnin_ops.py).                     *)
(*                                                                         *)
(* Everybody shares one SQLite file.  A transaction is one step when it    *)
(* takes the write lock before it reads (each command that bootstraps the  *)
(* schema first does: the bootstrap ends in an UPDATE).  The others read   *)
(* the campaign first and lock at their first INSERT, so their read and    *)
(* their write are two steps: the fields called hold.                      *)
(***************************************************************************)
EXTENDS Naturals

CONSTANTS Workers,    \* processes that can be started, each one once
          Operators,  \* command invocations that may be in progress together
          Foreground, \* commands in use that become the worker themselves
          MaxRuns,    \* bound on continuations
          None

ASSUME CampaignAssumption ==
    /\ MaxRuns \in Nat \ {0}
    /\ Foreground \subseteq {"foreground", "launched"}
    /\ None \notin Workers
    /\ None \notin Operators

VARIABLES db,      \* burnin_campaigns, burnin_runs (+ mapping), burnin_terminal_causes
          worker,  \* worker processes
          op,      \* commands in progress
          lock     \* the command whose open connection holds the write lock

vars == <<db, worker, op, lock>>

Runs == 1..MaxRuns
Live == {"STARTING", "RUNNING"}
Ended == {"FAILED", "RECOVERY_REQUIRED"}
RunStatuses == {"NONE", "PAUSED"} \cup Live \cup Ended
Statuses == {"CREATED", "PAUSED", "COMPLETED"} \cup Live \cup Ended

\* How a continuation is ended: what the caller of terminalize_active_campaign_run
\* asks for, and whether the worker's pid is cleared with it.
To(runStatus, status, clear) == [run |-> runStatus, status |-> status, clear |-> clear]
Outcome(how) ==
    CASE how = "failed"                    -> To("FAILED", "FAILED", TRUE)
      [] how = "attach"                    -> To("FAILED", "PAUSED", TRUE)
      [] how \in {"storage", "dead"}       -> To("RECOVERY_REQUIRED", "RECOVERY_REQUIRED", TRUE)
      [] how \in {"heartbeat", "watchdog"} -> To("RECOVERY_REQUIRED", "RECOVERY_REQUIRED", FALSE)
      [] how = "provider"                  -> To("PAUSED", "PAUSED", FALSE)
Hows == {"failed", "attach", "storage", "dead", "heartbeat", "watchdog", "provider"}
Causes == Hows \cup {"replaced", "none"}

Holds == [how : Hows \cup {"none"}, seen : 0..MaxRuns, moving : BOOLEAN]
NoHold == [how |-> "none", seen |-> 0, moving |-> FALSE]

WorkerPcs == {"none", "booting", "attached", "starting", "working", "raising",
              "returned", "failing", "leaving", "dead"}
Kinds == {"detached", "foreground", "launched"}
OpPcs == {"idle", "demote", "spawn", "record", "launch", "refused", "pid", "verify",
          "mark", "ending", "drill"}

\* The rows, the processes and the commands keep to these values.
TypeOK ==
    /\ db \in [status : Statuses, active : 0..MaxRuns, pid : Workers \cup {None},
               run : [Runs -> RunStatuses], cause : [Runs -> Causes]]
    /\ worker \in [Workers -> [pc : WorkerPcs, run : 0..MaxRuns,
                               kind : Kinds, hold : Holds]]
    /\ op \in [Operators -> [pc : OpPcs, run : 0..MaxRuns, worker : Workers \cup {None},
                             hold : Holds]]
    /\ lock \in Operators \cup {None}

\* A process that is not there (yet, or any more), and a command that is not.
Process(pc) == [pc |-> pc, run |-> 0, kind |-> "detached", hold |-> NoHold]
Idle == [pc |-> "idle", run |-> 0, worker |-> None, hold |-> NoHold]

\* create_campaign: a campaign without a continuation.
Init ==
    /\ db = [status |-> "CREATED", active |-> 0, pid |-> None,
             run |-> [n \in Runs |-> "NONE"], cause |-> [n \in Runs |-> "none"]]
    /\ worker = [w \in Workers |-> Process("none")]
    /\ op = [o \in Operators |-> Idle]
    /\ lock = None

\* process_is_alive of the process a worker_pid names.
Alive(w) == w # None /\ worker[w].pc \notin {"none", "dead"}

RunIs(n, statuses) == n # 0 /\ db.run[n] \in statuses
-----------------------------------------------------------------------------
(* terminalize_active_campaign_run, and who calls it *)

\* Its reads: the active continuation, and whether something is still moving.
Seen(how) == [how |-> how, seen |-> db.active,
              moving |-> db.status \in Live \/ RunIs(db.active, Live)]

\* Mutant: the UPDATE of the run rows lacks its status IN ('STARTING','RUNNING').
TerminalizedAlways(h) ==
    LET to == Outcome(h.how)
        target == {to.run, to.status} \cap Ended # {}
        hit == target => db.status \in Live
    IN  [db EXCEPT !.cause = [n \in Runs |-> IF n = h.seen /\ target /\ h.moving /\ db.cause[n] = "none"
                                             THEN h.how ELSE db.cause[n]],
                   !.run = [n \in Runs |-> IF n = h.seen THEN to.run ELSE db.run[n]],
                   !.status = IF hit THEN to.status ELSE @,
                   !.pid = IF hit /\ to.clear THEN None ELSE @]

\* Its writes: the first cause, the run's two rows, the campaign's row.
Terminalized(h) ==
    LET to == Outcome(h.how)
        target == {to.run, to.status} \cap Ended # {}
        hit == target => db.status \in Live
    IN  [db EXCEPT !.cause = [n \in Runs |-> IF n = h.seen /\ target /\ h.moving /\ db.cause[n] = "none"
                                             THEN h.how ELSE db.cause[n]],
                   !.run = [n \in Runs |-> IF n = h.seen /\ db.run[n] \in Live THEN to.run ELSE db.run[n]],
                   !.status = IF hit THEN to.status ELSE @,
                   !.pid = IF hit /\ to.clear THEN None ELSE @]

\* Both in one transaction that already holds the write lock.
Terminalize(how) == db' = Terminalized(Seen(how))
-----------------------------------------------------------------------------
(* start_or_resume_campaign *)

\* WORKER_SHUTDOWN_IN_PROGRESS unless the recorded worker is gone.
MayBegin == db.active < MaxRuns /\ ~Alive(db.pid)

\* Mutant: the replaced continuation gets no terminal cause.
BegunSilently(resume) ==
    LET n == db.active + 1
        replaced == resume /\ RunIs(db.active, {"RUNNING"})
    IN  [db EXCEPT !.run = [k \in Runs |-> IF k = n THEN "RUNNING"
                                           ELSE IF k = db.active /\ replaced
                                                THEN "RECOVERY_REQUIRED" ELSE db.run[k]],
                   !.status = "RUNNING", !.active = n]

\* The next continuation is RUNNING and active; a resume ends the one before,
\* if that was RUNNING.  The recorded pid stays.
Begun(resume) ==
    LET n == db.active + 1
        replaced == resume /\ RunIs(db.active, {"RUNNING"})
    IN  [db EXCEPT !.run = [k \in Runs |-> IF k = n THEN "RUNNING"
                                           ELSE IF k = db.active /\ replaced
                                                THEN "RECOVERY_REQUIRED" ELSE db.run[k]],
                   !.cause = [k \in Runs |-> IF k = db.active /\ replaced /\ db.cause[k] = "none"
                                             THEN "replaced" ELSE db.cause[k]],
                   !.status = "RUNNING", !.active = n]
-----------------------------------------------------------------------------
(* Operators' commands *)

Started(w, kind) == worker' = [worker EXCEPT ![w].pc = "booting", ![w].kind = kind]
OpAt(o, pc) == op[o].pc = pc
OpGoes(o, pc) == op' = [op EXCEPT ![o].pc = pc]
OpDone(o) == op' = [op EXCEPT ![o] = Idle]

\* burnin_cli start|resume --foreground, or burnin_ops launch without --detach: the
\* command becomes the worker.  Its pid is never recorded.
RunForeground(resume) ==
    /\ MayBegin
    /\ db' = Begun(resume)
    /\ \E w \in Workers :
          /\ worker[w].pc = "none"
          /\ \/ "foreground" \in Foreground /\ Started(w, "foreground")
             \/ /\ "launched" \in Foreground /\ db.status = "CREATED" /\ ~resume
                /\ Started(w, "launched")
    /\ UNCHANGED <<op, lock>>

\* burnin_cli start|resume --detach, to its first commit.
BeginDetached(o, resume) ==
    /\ OpAt(o, "idle") /\ MayBegin
    /\ db' = Begun(resume)
    /\ OpGoes(o, "demote")
    /\ UNCHANGED <<worker, lock>>

\* _launch_detached_worker: whatever continuation is active now is STARTING.
Demote(o) ==
    /\ OpAt(o, "demote")
    /\ db' = [db EXCEPT !.status = "STARTING",
                        !.run[db.active] = IF @ = "RUNNING" THEN "STARTING" ELSE @]
    /\ OpGoes(o, "spawn")
    /\ UNCHANGED <<worker, lock>>

Spawn(o) ==
    /\ OpAt(o, "spawn")
    /\ \E w \in Workers :
          /\ worker[w].pc = "none"
          /\ Started(w, "detached")
          /\ op' = [op EXCEPT ![o].pc = "record", ![o].worker = w]
    /\ UNCHANGED <<db, lock>>

\* 0.2 s later: an exited worker fails the campaign, a running one is recorded
\* if the campaign is still STARTING.
RecordPid(o) ==
    /\ OpAt(o, "record")
    /\ IF Alive(op[o].worker)
       THEN db' = [db EXCEPT !.pid = IF db.status = "STARTING" THEN op[o].worker ELSE @]
       ELSE Terminalize("failed")
    /\ OpDone(o)
    /\ UNCHANGED <<worker, lock>>

\* burnin_ops launch --detach: the first continuation of a new campaign, STARTING.
Launch(o) ==
    /\ OpAt(o, "idle") /\ db.status = "CREATED"
    /\ db' = [Begun(FALSE) EXCEPT !.status = "STARTING", !.run[1] = "STARTING"]
    /\ op' = [op EXCEPT ![o].pc = "launch", ![o].run = 1]
    /\ UNCHANGED <<worker, lock>>

\* _launch_worker: the active continuation must be attachable.
LaunchWorker(o) ==
    /\ OpAt(o, "launch")
    /\ IF RunIs(db.active, Live)
       THEN /\ \E w \in Workers :
                  /\ worker[w].pc = "none"
                  /\ Started(w, "detached")
                  /\ op' = [op EXCEPT ![o].pc = "pid", ![o].worker = w]
            /\ db' = db
       ELSE /\ Terminalize("attach")
            /\ OpGoes(o, "refused") /\ worker' = worker
    /\ UNCHANGED lock

\* _launch_worker's UPDATE of worker_pid has no guard.
LaunchPid(o) ==
    /\ OpAt(o, "pid")
    /\ db' = [db EXCEPT !.pid = op[o].worker]
    /\ OpGoes(o, "verify")
    /\ UNCHANGED <<worker, lock>>

\* verify_worker_attachment sees the worker it started, recorded and attached to
\* the active continuation.
Attached(o) ==
    /\ db.pid = op[o].worker /\ Alive(db.pid)
    /\ worker[db.pid].run = db.active

VerifyAttached(o) ==
    /\ OpAt(o, "verify") /\ Attached(o)
    /\ OpGoes(o, "mark")
    /\ UNCHANGED <<db, worker, lock>>

\* Mutant: the run rows are updated whatever their status.
MarkAttachedRunningAlways(o) ==
    /\ OpAt(o, "mark")
    /\ db' = [db EXCEPT !.status = IF @ = "STARTING" THEN "RUNNING" ELSE @,
                        !.run[op[o].run] = "RUNNING"]
    /\ OpDone(o)
    /\ UNCHANGED <<worker, lock>>

\* _mark_attached_running: three guarded UPDATEs, two of the launched run.
MarkAttachedRunning(o) ==
    /\ OpAt(o, "mark")
    /\ db' = [db EXCEPT !.status = IF @ = "STARTING" THEN "RUNNING" ELSE @,
                        !.run[op[o].run] = IF @ = "STARTING" THEN "RUNNING" ELSE @]
    /\ OpDone(o)
    /\ UNCHANGED <<worker, lock>>

\* The command is about to end the campaign's continuation: its reads.
OpReads(o, how) ==
    /\ op' = [op EXCEPT ![o].pc = "ending", ![o].hold = Seen(how)]
    /\ UNCHANGED <<db, worker, lock>>

\* The worker was refused, not spawned, exited or did not attach in time, or the
\* launcher raised or was interrupted: _mark_campaign_failed.
LaunchFails(o) ==
    op[o].pc \in {"launch", "refused", "pid", "verify", "mark"} /\ OpReads(o, "failed")

\* burnin_ops watch: cleanup_dead_worker.
WatchDead(o) ==
    /\ OpAt(o, "idle")
    /\ db.status \in Live /\ db.pid # None /\ ~Alive(db.pid)
    /\ Terminalize("dead")
    /\ UNCHANGED <<worker, op, lock>>

\* burnin_ops watch: any other failure the health check finds.
WatchUnhealthy(o) == OpAt(o, "idle") /\ db.status \in Live /\ OpReads(o, "watchdog")

OpEnds(o) ==
    /\ OpAt(o, "ending")
    /\ db' = Terminalized(op[o].hold)
    /\ OpDone(o)
    /\ UNCHANGED <<worker, lock>>

\* pause_campaign: only a RUNNING continuation is paused, the campaign always.
Pause ==
    /\ db' = [db EXCEPT !.status = "PAUSED",
                        !.run = [n \in Runs |-> IF n = db.active /\ db.run[n] = "RUNNING"
                                                THEN "PAUSED" ELSE db.run[n]]]
    /\ UNCHANGED <<worker, op, lock>>

\* burnin_ops resume allocates a continuation and starts nothing.
ResumeOnly ==
    /\ MayBegin
    /\ db' = Begun(TRUE)
    /\ UNCHANGED <<worker, op, lock>>

\* The command's process dies between two of its steps.
OpDies(o) == op[o].pc \notin {"idle", "drill"} /\ OpDone(o) /\ UNCHANGED <<db, worker, lock>>

\* burnin_ops recovery-drill, recover-runtime: _connect bootstraps the schema,
\* whose UPDATE opens a transaction that the command does not commit ...
DrillConnects(o) ==
    /\ OpAt(o, "idle")
    /\ lock' = o
    /\ OpGoes(o, "drill")
    /\ UNCHANGED <<db, worker>>

\* ... before _authoritative_recovery_exposure's init_db, which updates the same
\* file from a connection of its own, runs out of its busy timeout.
DrillProbeLocked(o) ==
    /\ OpAt(o, "drill") /\ lock = o
    /\ lock' = None
    /\ OpDone(o)
    /\ UNCHANGED <<db, worker>>
-----------------------------------------------------------------------------
(* The worker: BurnInCampaignRunner.run_foreground *)

Supervising == {"attached", "starting", "working"}
WorkerAt(w, pc) == worker[w].pc = pc
WorkerGoes(w, pc) == worker' = [worker EXCEPT ![w].pc = pc]
NotHolding(w) == worker[w].hold = NoHold

\* _attach_phase8_campaign, called by run_foreground and again by the runtime's
\* start: the continuation that is active now, if its identity matches.
Attach(w) ==
    /\ worker[w].pc \in {"booting", "attached"} /\ NotHolding(w)
    /\ RunIs(db.active, Live)
    /\ worker' = [worker EXCEPT ![w].run = db.active,
                                ![w].pc = IF @ = "booting" THEN "attached" ELSE "starting"]
    /\ UNCHANGED <<db, op, lock>>

\* ... else, or when configuration, provider or release drifted, it is failed.
AttachRefused(w) ==
    /\ worker[w].pc \in {"booting", "attached"} /\ NotHolding(w)
    /\ Terminalize("attach")
    /\ WorkerGoes(w, "raising")
    /\ UNCHANGED <<op, lock>>

\* mark_attached_campaign_operational.
Operational(w) ==
    /\ WorkerAt(w, "starting") /\ NotHolding(w)
    /\ IF db.active = worker[w].run /\ db.status \in Live /\ RunIs(db.active, {db.status})
       THEN /\ db' = [db EXCEPT !.status = "RUNNING", !.run[db.active] = "RUNNING"]
            /\ WorkerGoes(w, "working")
       ELSE db' = db /\ WorkerGoes(w, "raising")
    /\ UNCHANGED <<op, lock>>

\* Mutant: a PAUSED campaign does not stop the maintenance loop.
MaintenanceTickMissesPause(w, complete) ==
    /\ worker[w].pc \in Supervising
    /\ db' = [db EXCEPT !.status = IF complete /\ @ # "FAILED" THEN "COMPLETED" ELSE @]
    /\ complete \/ db'.status \notin Live \cup {"PAUSED"}
    /\ WorkerGoes(w, "returned")
    /\ UNCHANGED <<op, lock>>

\* _maintenance_loop: check_campaign_completion overwrites every status but
\* FAILED; the loop returns when the campaign is complete or no longer live.
MaintenanceTick(w, complete) ==
    /\ worker[w].pc \in Supervising
    /\ db' = [db EXCEPT !.status = IF complete /\ @ # "FAILED" THEN "COMPLETED" ELSE @]
    /\ complete \/ db'.status \notin Live
    /\ WorkerGoes(w, "returned")
    /\ UNCHANGED <<op, lock>>

\* The runtime's own task returns (a signal, a shutdown, storage pressure).
RuntimeExits(w) ==
    /\ worker[w].pc \in Supervising /\ NotHolding(w)
    /\ WorkerGoes(w, "returned")
    /\ UNCHANGED <<db, op, lock>>

\* A task returned: an unexpected end if the campaign is live, else the way out.
CheckReturn(w) ==
    /\ WorkerAt(w, "returned") /\ NotHolding(w)
    /\ WorkerGoes(w, IF db.status \in Live THEN "raising" ELSE "leaving")
    /\ UNCHANGED <<db, op, lock>>

\* A supervised task raises.
WorkerRaises(w) ==
    /\ worker[w].pc \in {"booting"} \cup Supervising /\ NotHolding(w)
    /\ WorkerGoes(w, "raising")
    /\ UNCHANGED <<db, op, lock>>

\* run_foreground's except: RUNTIME_SUPERVISION_FAILED or, after a controlled
\* storage exit, STORAGE_PRESSURE_RECOVERY_REQUIRED.
FailReads(w) ==
    /\ WorkerAt(w, "raising") /\ NotHolding(w)
    /\ IF db.status \in Live
       THEN \E how \in {"failed", "storage"} : worker' = [worker EXCEPT ![w].hold = Seen(how)]
       ELSE WorkerGoes(w, "failing")
    /\ UNCHANGED <<db, op, lock>>

\* _mark_heartbeat_persistence_recovery_required reads the campaign whatever its
\* status, pause_campaign_for_provider_failure only a live one.  The resolver's
\* thread may do the latter while the worker is already on its way out.
WorkerReads(w) ==
    /\ NotHolding(w)
    /\ \/ WorkerAt(w, "working") /\ worker' = [worker EXCEPT ![w].hold = Seen("heartbeat")]
       \/ /\ worker[w].pc \in Supervising \cup {"failing", "leaving"} /\ db.status \in Live
          /\ worker' = [worker EXCEPT ![w].hold = Seen("provider")]
    /\ UNCHANGED <<db, op, lock>>

WorkerEnds(w) ==
    /\ ~NotHolding(w) /\ Alive(w)
    /\ db' = Terminalized(worker[w].hold)
    /\ worker' = [worker EXCEPT ![w].hold = NoHold,
                                ![w].pc = IF @ = "raising" THEN "failing" ELSE @]
    /\ UNCHANGED <<op, lock>>

\* The except clause of burnin_ops launch, around a worker in the foreground.
LaunchRaises(w) ==
    /\ WorkerAt(w, "failing") /\ NotHolding(w) /\ worker[w].kind = "launched"
    /\ worker' = [worker EXCEPT ![w].pc = "leaving", ![w].hold = Seen("failed")]
    /\ UNCHANGED <<db, op, lock>>

\* burnin_cli "worker": the handler of an exception ends whatever continuation is
\* active now; a normal end clears the pid of a paused campaign if it is its own.
WorkerExits(w) ==
    /\ worker[w].pc \in {"failing", "leaving"} /\ NotHolding(w)
    /\ IF worker[w].kind # "detached" THEN db' = db
       ELSE IF WorkerAt(w, "failing") THEN Terminalize("failed")
       ELSE db' = [db EXCEPT !.pid = IF db.status = "PAUSED" /\ @ = w THEN None ELSE @]
    /\ worker' = [worker EXCEPT ![w] = Process("dead")]
    /\ UNCHANGED <<op, lock>>

Crash(w) ==
    /\ Alive(w)
    /\ worker' = [worker EXCEPT ![w] = Process("dead")]
    /\ UNCHANGED <<db, op, lock>>
-----------------------------------------------------------------------------
WorkerWrites(w) ==
    \/ Attach(w) \/ AttachRefused(w) \/ Operational(w) \/ WorkerEnds(w) \/ WorkerExits(w)
    \/ \E complete \in BOOLEAN : MaintenanceTick(w, complete)
WorkerThinks(w) ==
    \/ RuntimeExits(w) \/ CheckReturn(w) \/ WorkerRaises(w) \/ FailReads(w)
    \/ WorkerReads(w) \/ LaunchRaises(w) \/ Crash(w)
OpWrites(o) ==
    \/ \E resume \in BOOLEAN : BeginDetached(o, resume)
    \/ Demote(o) \/ RecordPid(o) \/ Launch(o) \/ LaunchWorker(o) \/ LaunchPid(o)
    \/ MarkAttachedRunning(o) \/ WatchDead(o) \/ OpEnds(o) \/ DrillConnects(o)
OpThinks(o) ==
    \/ Spawn(o) \/ VerifyAttached(o) \/ LaunchFails(o) \/ WatchUnhealthy(o) \/ OpDies(o)
    \/ DrillProbeLocked(o)

\* A write waits for the write lock; reads do not.
Next ==
    \/ /\ lock = None
       /\ \/ \E w \in Workers : WorkerWrites(w)
          \/ \E o \in Operators : OpWrites(o)
          \/ \E resume \in BOOLEAN : RunForeground(resume)
          \/ Pause \/ ResumeOnly
    \/ \E w \in Workers : WorkerThinks(w)
    \/ \E o \in Operators : OpThinks(o)

Spec == Init /\ [][Next]_vars

\* The event loop runs the maintenance loop, and a worker that is starting or on
\* its way out gets there while it can write.  That the campaign ever becomes
\* complete is not assumed.
Ticks(w) == lock = None /\ MaintenanceTick(w, FALSE)
Advances(w) ==
    \/ /\ lock = None
       /\ \/ Attach(w) \/ Operational(w) \/ WorkerEnds(w) \/ WorkerExits(w)
          \/ ~RunIs(db.active, Live) /\ AttachRefused(w)
    \/ CheckReturn(w) \/ FailReads(w)

FairSpec ==
    /\ Spec
    /\ \A w \in Workers : WF_vars(Ticks(w)) /\ WF_vars(Advances(w))
-----------------------------------------------------------------------------
(* Properties *)

EndedHasCause == \A n \in Runs : db.run[n] \in Ended => db.cause[n] # "none"
CausedIsOver == \A n \in Runs : db.cause[n] # "none" => db.run[n] \notin Live

\* Cause and end of a continuation agree, whichever of the worker, the watchdog,
\* the launcher or a resume ended it: one that FAILED or needs recovery has a
\* recorded terminal cause, and one with a terminal cause is over and not left
\* running, to be ended for a second reason.
CauseMatchesEnd == EndedHasCause /\ CausedIsOver

\* An ended or paused continuation is never reopened or ended again, and its
\* first terminal cause stays: late handlers of an old worker change neither.
EndIsFinal ==
    [][\A n \in Runs :
          /\ db.run[n] \in Ended \cup {"PAUSED"} => db'.run[n] = db.run[n]
          /\ db.cause[n] # "none" => db'.cause[n] = db.cause[n]]_vars

\* Once a campaign stays stopped, and nobody keeps the database locked, its workers
\* go away by themselves: pause, a watchdog and completion never signal them.
StoppedCampaignHasNoWorker ==
    <>[](db.status \notin Live /\ lock = None) => <>[](\A w \in Workers : ~Alive(w))
=============================================================================

--------------------------- MODULE RuntimeControl ---------------------------
(***************************************************************************)
(* The dashboard's runtime controls (src/alphaforge/dashboard/app.py, the  *)
(* four POST /runtime handlers) over RuntimeControlStore and               *)
(* RuntimeSupervisor (src/alphaforge/runtime_control.py).                  *)
(*                                                                         *)
(* Handlers, the supervisor and the runtime it starts share one event      *)
(* loop; the store's calls do not await.  A handler gives way only inside  *)
(* RuntimeSupervisor.stop, which waits for the runtime's task, so any      *)
(* other request may run between the two halves of a stop.  The control    *)
(* row outlives the process.                                               *)
(***************************************************************************)
EXTENDS Naturals

CONSTANT Requests   \* requests that may be inside stop() at the same time

VARIABLES row,       \* the runtime_control_state row
          inherited, \* its status was written by an earlier process
          task,      \* the supervisor's task is running: its mode, or "none"
          alive,     \* runtimes that have been started and have not ended
          asked,     \* what the running one was told: no, shutdown, cancelled
          handler    \* where each request is in stop()

controlVars == <<row, inherited, task, alive, asked, handler>>

Modes == {"PAPER", "LIVE"}
\* RUNNING is RUNNING_PAPER or RUNNING_LIVE: row.running has the mode.
Statuses == {"STOPPED", "STARTING", "RUNNING", "STOPPING", "ERROR", "KILL_SWITCH_ACTIVE"}

\* The control row and the supervisor's state keep to the values of VALID_MODES
\* and VALID_STATUSES, and no more runtimes end than were started.
ControlTypes ==
    /\ row \in [requested : Modes, running : Modes \cup {"none"}, kill : BOOLEAN,
                status : Statuses]
    /\ inherited \in BOOLEAN
    /\ task \in Modes \cup {"none"}
    /\ alive \in Nat
    /\ asked \in {"no", "shutdown", "cancelled"}
    /\ handler \in [Requests -> {"idle", "stop", "kill", "stopped", "killed"}]

ControlInit ==
    /\ row = [requested |-> "PAPER", running |-> "none", kill |-> FALSE, status |-> "STOPPED"]
    /\ inherited = FALSE
    /\ task = "none" /\ alive = 0 /\ asked = "no"
    /\ handler = [q \in Requests |-> "idle"]

IsRunning == task # "none"

\* RuntimeControlStore.set_status writes the status and the running mode.
SetStatus(r, status, mode) == [r EXCEPT !.status = status, !.running = mode]

\* RuntimeControlStore.set_kill_switch(True).
Killed(r) == [r EXCEPT !.kill = TRUE, !.status = "KILL_SWITCH_ACTIVE", !.running = "none"]
-----------------------------------------------------------------------------
\* RuntimeControlStore.set_requested_mode accepts the change.
MayChangeMode(mode, acknowledged, ready) ==
    /\ row.status \in {"STOPPED", "ERROR", "KILL_SWITCH_ACTIVE"}
    /\ row.running = "none"
    /\ mode = "LIVE" => acknowledged /\ ready

\* POST /runtime/mode; a refusal is written over the status.
SetMode ==
    /\ \E mode \in Modes, acknowledged, ready \in BOOLEAN :
         IF MayChangeMode(mode, acknowledged, ready)
         THEN row' = [row EXCEPT !.requested = mode] /\ UNCHANGED inherited
         ELSE row' = SetStatus(row, "ERROR", "none") /\ inherited' = FALSE
    /\ UNCHANGED <<task, alive, asked, handler>>

\* Mutant: a second start does not look for the first one's task.
StartTwice ==
    /\ ~ row.kill
    /\ row' = SetStatus(row, "RUNNING", row.requested)
    /\ inherited' = FALSE
    /\ task' = row.requested /\ alive' = alive + 1 /\ asked' = "no"
    /\ UNCHANGED handler

\* POST /runtime/start: the kill switch refuses, a running task is left alone,
\* otherwise the factory builds a runtime or fails.
Start ==
    /\ \/ /\ row.kill
          /\ row' = SetStatus(row, "KILL_SWITCH_ACTIVE", "none")
          /\ inherited' = FALSE
          /\ UNCHANGED <<task, alive, asked>>
       \/ /\ ~ row.kill /\ ~ IsRunning
          /\ row' = SetStatus(row, "RUNNING", row.requested)
          /\ inherited' = FALSE
          /\ task' = row.requested /\ alive' = alive + 1 /\ asked' = "no"
       \/ /\ ~ row.kill /\ ~ IsRunning
          /\ row' = SetStatus(row, "ERROR", "none")
          /\ inherited' = FALSE
          /\ UNCHANGED <<task, alive, asked>>
    /\ UNCHANGED handler

\* Mutant: stop() does not write STOPPING before it waits.
BeginStopSilently(q, r, stage) ==
    /\ handler[q] = "idle"
    /\ row' = r
    /\ inherited' = FALSE
    /\ asked' = IF asked = "no" THEN "shutdown" ELSE asked
    /\ handler' = [handler EXCEPT ![q] = stage]

\* RuntimeSupervisor.stop up to its await, on a running task.
BeginStop(q, r, stage) ==
    /\ handler[q] = "idle"
    /\ row' = SetStatus(r, "STOPPING", r.running)
    /\ inherited' = FALSE
    /\ asked' = IF asked = "no" THEN "shutdown" ELSE asked
    /\ handler' = [handler EXCEPT ![q] = stage]

\* POST /runtime/stop.
RequestStop(q) ==
    /\ \/ IsRunning /\ BeginStop(q, row, "stop")
       \/ /\ ~ IsRunning
          /\ row' = SetStatus(row, "STOPPED", "none")
          /\ inherited' = FALSE
          /\ UNCHANGED <<asked, handler>>
    /\ UNCHANGED <<task, alive>>

\* POST /runtime/kill-switch, on ...
KillOn(q) ==
    /\ \/ IsRunning /\ BeginStop(q, Killed(row), "kill")
       \/ /\ ~ IsRunning
          /\ row' = Killed(row)
          /\ inherited' = FALSE
          /\ UNCHANGED <<asked, handler>>
    /\ UNCHANGED <<task, alive>>

\* ... and off: the status a kill switch left becomes STOPPED, others stay.
KillOff ==
    /\ row' = [row EXCEPT !.kill = FALSE,
                          !.status = IF @ = "KILL_SWITCH_ACTIVE" THEN "STOPPED" ELSE @]
    /\ UNCHANGED <<inherited, task, alive, asked, handler>>
-----------------------------------------------------------------------------
\* The runtime's task ends; a request that waited for it goes on, or raises.
Ended(after) ==
    /\ task' = "none" /\ alive' = alive - 1 /\ asked' = "no"
    /\ handler' = [q \in Requests |->
                     IF handler[q] \in DOMAIN after THEN after[handler[q]] ELSE handler[q]]

Resumed == [stop |-> "stopped", kill |-> "killed"]
Raised  == [stop |-> "idle", kill |-> "idle"]

\* _run writes the outcome of a runtime that returned or raised.
RunEnds ==
    /\ IsRunning
    /\ row' \in {SetStatus(row, "STOPPED", "none"), SetStatus(row, "ERROR", "none")}
    /\ inherited' = FALSE
    /\ Ended(Resumed)

\* A cancelled runtime that does not swallow the cancellation: _run writes
\* nothing, and the handlers that wait raise.
RunCancelled ==
    /\ IsRunning /\ asked = "cancelled"
    /\ Ended(Raised)
    /\ UNCHANGED <<row, inherited>>

\* Mutant: the wait gives up without cancelling the task.
StopTimeoutShielded(q) ==
    /\ IsRunning
    /\ handler[q] \in {"stop", "kill"} /\ asked = "shutdown"
    /\ handler' = [handler EXCEPT ![q] = "idle"]
    /\ UNCHANGED <<row, inherited, task, alive, asked>>

\* asyncio.wait_for(task, 5) cancels the task and waits for that.
StopTimeout(q) ==
    /\ IsRunning
    /\ handler[q] \in {"stop", "kill"} /\ asked = "shutdown"
    /\ asked' = "cancelled"
    /\ UNCHANGED <<row, inherited, task, alive, handler>>

\* The second half of a stop: of /runtime/stop, or of the kill switch, which
\* then writes the kill switch once more.
FinishStop(q) ==
    /\ handler[q] \in {"stopped", "killed"}
    /\ row' = LET r == SetStatus(row, "STOPPED", "none")
              IN IF handler[q] = "killed" THEN Killed(r) ELSE r
    /\ inherited' = FALSE
    /\ handler' = [handler EXCEPT ![q] = "idle"]
    /\ UNCHANGED <<task, alive, asked>>

\* The dashboard process dies and comes back; the row is as it was.
Restart ==
    /\ inherited' = TRUE
    /\ task' = "none" /\ alive' = 0 /\ asked' = "no"
    /\ handler' = [q \in Requests |-> "idle"]
    /\ UNCHANGED row

ControlNext ==
    \/ SetMode \/ Start \/ KillOff \/ RunEnds \/ RunCancelled \/ Restart
    \/ \E q \in Requests : RequestStop(q) \/ KillOn(q) \/ StopTimeout(q) \/ FinishStop(q)

ControlSpec == ControlInit /\ [][ControlNext]_controlVars

\* wait_for's timer fires, and a cancelled runtime comes to its end.
ControlFairness ==
    /\ WF_controlVars(\E q \in Requests : StopTimeout(q))
    /\ WF_controlVars(asked = "cancelled" /\ (RunEnds \/ RunCancelled))
-----------------------------------------------------------------------------
OneRuntime == alive = IF IsRunning THEN 1 ELSE 0

\* However starts, stops, kill switches and timeouts overlap, the supervisor
\* never has a second runtime going beside the first and never loses sight of
\* one that still goes; and a RUNNING status that this process wrote is true: a
\* runtime of that mode is going, though a cancelled one ends without writing
\* its status.
RunningIsTrue ==
    /\ OneRuntime
    /\ row.status = "RUNNING" /\ ~ inherited => IsRunning /\ row.running = task

\* A runtime that was told to stop, by stop or by the kill switch, ends.
StopEnds == (asked # "no") ~> (asked = "no")
=============================================================================

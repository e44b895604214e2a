--------------------------- MODULE RuntimeRecovery ---------------------------
(***************************************************************************)
(* What a runtime learns of its predecessors before it operates: the       *)
(* evaluation of recovery (src/alphaforge/runtime_state.py), the start and *)
(* the end of a runtime that feed it (src/alphaforge/runtime.py) and the   *)
(* preflight that records verified recovery (burnin_ops.py).               *)
(*                                                                         *)
(* Everything a start knows of the past is the newest state row, the       *)
(* newest reconciliation event, the kill switch and the open paper         *)
(* positions; each is read by a statement of its own, and the account by a *)
(* slow call after them, while other runtimes and a preflight go on.  A    *)
(* runtime may die between any two steps.                                  *)
(*                                                                         *)
(* The tables positions and orders, which nothing here writes, and stale   *)
(* pending orders are left out, and so are LIVE (refused earlier) and the  *)
(* diagnostic mode.  Whether a campaign may be attached is BurninCampaign's.*)
(***************************************************************************)
EXTENDS Naturals

CONSTANTS Startups,   \* runtime startups: a restart is another one
          Nobody,     \* the writer of a row that stands for no process
          Hosted,     \* startups whose process process_is_alive need not recognise
          Campaigns, NoCampaign

ASSUME StartupsAssumption == Nobody \notin Startups /\ Hosted \subseteq Startups
ASSUME CampaignsAssumption == NoCampaign \notin Campaigns

VARIABLES stage,    \* where each startup is
          known,    \* what each startup is and has read
          latest,   \* the newest row of runtime_state_snapshots
          event,    \* the newest row of exchange_reconciliation_events
          switch,   \* runtime_control_state.kill_switch_active
          account,  \* whether the exchange account holds orders or positions
          paper,    \* startups that have an OPEN paper position
          preflight \* where a preflight is

recoveryVars == <<stage, known, latest, event, switch, account, paper, preflight>>

StartupModes == {"PAPER", "LIVE_PRECHECK"}
Scopes == Campaigns \cup {NoCampaign}
\* runtime_status, as far as clean_statuses tells it apart: "at work" stands for
\* STARTUP, OPERATING, RECOVERY_REQUIRED and the failures, "clean" for STOPPING,
\* CLEAN_SHUTDOWN and RECONCILED.  No row at all is as good as a clean one.
RowWords == {"at work", "clean"}
StateRows == [status : RowWords, by : Startups \cup {Nobody}, camp : Scopes]
Unclean(row) == row.status = "at work"

Gone == {"stopped", "refused", "crashed"}
StartupStages == Gone \cup {"down", "look", "count", "probe", "enter", "check",
                           "reconcile", "closing", "ready", "up", "stopping"}
\* No event is as good as one of an unknown state.
Events == [status : {"CLEAN", "DIRTY", "EXCHANGE_STATE_UNKNOWN"}, orphans : BOOLEAN]

\* before: the startups that had ended when this one began.  saw .. event: what
\* was read until the decision; blocked: it; empty: the account was seen empty;
\* held: _execution_reconciliation_blocked.
Knowledge == [mode : StartupModes, camp : Scopes, before : SUBSET Startups,
              saw : StateRows, held : BOOLEAN, positions : BOOLEAN, event : Events, kill : BOOLEAN,
              alive : BOOLEAN, blocked : BOOLEAN, empty : BOOLEAN]

NoRow == [status |-> "clean", by |-> Nobody, camp |-> NoCampaign]
NoEvent == [status |-> "EXCHANGE_STATE_UNKNOWN", orphans |-> FALSE]
Unaware == [mode |-> "PAPER", camp |-> NoCampaign, before |-> {}, saw |-> NoRow, held |-> FALSE,
            positions |-> FALSE, event |-> NoEvent, kill |-> FALSE, alive |-> FALSE,
            blocked |-> FALSE, empty |-> FALSE]

RecoveryTypes ==
    /\ stage \in [Startups -> StartupStages]
    /\ known \in [Startups -> Knowledge]
    /\ latest \in StateRows /\ event \in Events
    /\ switch \in BOOLEAN /\ account \in BOOLEAN
    /\ paper \subseteq Startups
    /\ preflight \in {"idle", "probe", "row"}

RecoveryInit ==
    /\ stage = [s \in Startups |-> "down"]
    /\ known = [s \in Startups |-> Unaware]
    /\ latest = NoRow /\ event = NoEvent
    /\ switch \in BOOLEAN /\ account \in BOOLEAN
    /\ paper = {}
    /\ preflight = "idle"

Enters(s, place) == stage' = [stage EXCEPT ![s] = place]
Learns(s, k) == known' = [known EXCEPT ![s] = k]
\* save_runtime_state_snapshot: rows are only ever added.
Writes(s, status) == latest' = [status |-> status, by |-> s, camp |-> known[s].camp]
Lives(s) == stage[s] \notin Gone \cup {"down"}
-----------------------------------------------------------------------------
(* A start.                                                                 *)

Launch(s) ==
    /\ stage[s] = "down"
    /\ Enters(s, "look")
    /\ \E mode \in StartupModes, camp \in Scopes :
         Learns(s, [Unaware EXCEPT !.mode = mode, !.camp = camp,
                                   !.before = {x \in Startups : stage[x] \in Gone}])
    /\ UNCHANGED <<latest, event, switch, account, paper, preflight>>

\* latest_runtime_state_snapshot.
ReadLatest(s) ==
    /\ stage[s] = "look"
    /\ Enters(s, "count")
    /\ Learns(s, [known[s] EXCEPT !.saw = latest])
    /\ UNCHANGED <<latest, event, switch, account, paper, preflight>>

\* Mutant: the positions of PAPER campaigns are not counted.
CountedWithoutPaper(s) == FALSE

\* PAPER positions are authoritative for PAPER only.
Counted(s) == known[s].mode = "PAPER" /\ paper # {}

\* Mutant: nobody asks for the process of the row.
AliveNotAsked(by) == {FALSE}

\* process_is_alive of the pid of a row, 0 for a row without a process.  A process
\* that runs counts as dead when it was created more than two minutes away from
\* the start of the runtime in it, or when its command line does not name the
\* campaign of the row: a dashboard that has been up for a while, say.  And the
\* pid of a dead one may be that of a host that still runs, or one given again.
process_is_alive(by) ==
    IF by = Nobody THEN {FALSE}
    ELSE IF Lives(by) /\ by \notin Hosted THEN {TRUE} ELSE BOOLEAN

\* The counts, the newest event, the kill switch, and the process of the row.
ReadExposure(s) ==
    /\ stage[s] = "count"
    /\ Enters(s, "probe")
    /\ \E alive \in process_is_alive(known[s].saw.by) :
         Learns(s, [known[s] EXCEPT !.positions = Counted(s), !.event = event, !.kill = switch,
                                    !.alive = alive])
    /\ UNCHANGED <<latest, event, switch, account, paper, preflight>>

\* What only a clean predecessor is not asked for.
Unsettled(k, answer) == k.event.status # "CLEAN" /\ answer # "empty"

\* Mutant: an unclean predecessor of the same campaign is no obstacle.
BlockedAnyCampaign(k, answer) ==
    \/ answer = "failed"
    \/ k.positions \/ k.kill \/ k.event.orphans \/ k.alive
    \/ Unclean(k.saw) /\ (k.mode = "LIVE_PRECHECK" \/ Unsettled(k, answer))

\* What evaluate_runtime_recovery decides.
Blocked(k, answer) ==
    \/ answer = "failed"
    \/ k.positions \/ k.kill \/ k.event.orphans \/ k.alive
    \/ /\ Unclean(k.saw)
       /\ \/ k.mode = "LIVE_PRECHECK"
          \/ k.camp # NoCampaign /\ k.saw.camp = k.camp
          \/ Unsettled(k, answer)

\* The probe of the account, made for an unclean predecessor only; "failed"
\* stands for a missing provider, an error and incomplete evidence alike.
Decided(k) == [k EXCEPT !.positions = FALSE, !.event = NoEvent, !.kill = FALSE, !.alive = FALSE]
Answer == IF account THEN "exposed" ELSE "empty"
Probe(s) ==
    /\ stage[s] = "probe"
    /\ Enters(s, "enter")
    /\ \E answer \in IF Unclean(known[s].saw) THEN {"failed", Answer} ELSE {"none"} :
         Learns(s, [Decided(known[s]) EXCEPT !.blocked = Blocked(known[s], answer)])
    /\ UNCHANGED <<latest, event, switch, account, paper, preflight>>

\* The STARTUP row is written whatever was decided.
Enter(s) ==
    /\ stage[s] = "enter"
    /\ Writes(s, "at work")
    /\ Enters(s, "check")
    /\ UNCHANGED <<known, event, switch, account, paper, preflight>>

MayStart(s) ==
    /\ stage[s] = "check" /\ ~ known[s].blocked /\ ~ switch
    /\ Enters(s, "reconcile")
    /\ UNCHANGED <<known, latest, event, switch, account, paper, preflight>>

\* A start that is blocked, finds the kill switch on or cannot reconcile.
Refuse(s) ==
    /\ \/ stage[s] = "check" /\ (known[s].blocked \/ switch)
       \/ stage[s] = "closing"
    /\ Writes(s, "at work")
    /\ Learns(s, Unaware)
    /\ Enters(s, "refused")
    /\ UNCHANGED <<event, switch, account, paper, preflight>>
-----------------------------------------------------------------------------
(* Reconciliation cycles, at the start and then periodically.               *)

\* persist_reconciliation_cycle: the event and the row are one transaction.
Commits(s, status) ==
    /\ event' = [status |-> status, orphans |-> status = "DIRTY"]
    /\ Writes(s, IF status = "CLEAN" THEN "clean" ELSE "at work")

\* One cycle: the account is read, or not; what was seen is committed, or not.
Cycle(s, clean, dirty, unknown) ==
    \/ /\ ~ account /\ Commits(s, "CLEAN")
       /\ Learns(s, [known[s] EXCEPT !.empty = TRUE, !.held = FALSE])
       /\ Enters(s, clean)
    \/ /\ account /\ Commits(s, "DIRTY")
       /\ Learns(s, [known[s] EXCEPT !.held = TRUE])
       /\ Enters(s, dirty)
    \/ /\ Commits(s, "EXCHANGE_STATE_UNKNOWN")
       /\ Learns(s, [known[s] EXCEPT !.held = TRUE])
       /\ Enters(s, unknown)
    \/ /\ UNCHANGED <<event, latest>>
       /\ Learns(s, [known[s] EXCEPT !.held = TRUE])
       /\ Enters(s, unknown)

\* Mutant: a start goes on when the exchange could not be read.
StartOnUnknown(s) ==
    /\ stage[s] = "reconcile"
    /\ Cycle(s, "ready", "closing", "ready")
    /\ UNCHANGED <<switch, account, paper, preflight>>

StartReconciled(s) ==
    /\ stage[s] = "reconcile"
    /\ Cycle(s, "ready", "closing", "closing")
    /\ UNCHANGED <<switch, account, paper, preflight>>

\* A finding shuts the runtime down; an unreadable exchange holds execution.
Reconciled(s) ==
    /\ stage[s] = "up"
    /\ Cycle(s, "up", "stopping", "up")
    /\ UNCHANGED <<switch, account, paper, preflight>>
-----------------------------------------------------------------------------
(* A runtime at work, and its end.                                          *)

Operate(s) ==
    /\ stage[s] = "ready"
    /\ Writes(s, "at work")
    /\ Enters(s, "up")
    /\ UNCHANGED <<known, event, switch, account, paper, preflight>>

\* OPERATING, or RECOVERY_REQUIRED while execution is held: both unclean.
Heartbeat(s) ==
    /\ stage[s] = "up"
    /\ Writes(s, "at work")
    /\ UNCHANGED <<stage, known, event, switch, account, paper, preflight>>

OpenPaper(s) ==
    /\ stage[s] = "up" /\ known[s].mode = "PAPER" /\ ~ known[s].held /\ ~ switch
    /\ paper' = paper \cup {s}
    /\ UNCHANGED <<stage, known, latest, event, switch, account, preflight>>

\* A shutdown is asked for, with a row of its own or without one.
EndBegins(s) ==
    /\ stage[s] = "up"
    /\ Enters(s, "stopping")
    /\ \/ UNCHANGED latest
       \/ \E status \in RowWords : Writes(s, status)
    /\ UNCHANGED <<known, event, switch, account, paper, preflight>>

\* The last row depends on how the runtime fared; a busy database skips it.
End(s) ==
    /\ stage[s] = "stopping"
    /\ Learns(s, Unaware)
    /\ Enters(s, "stopped")
    /\ \/ UNCHANGED latest
       \/ \E status \in RowWords : Writes(s, status)
    /\ UNCHANGED <<event, switch, account, paper, preflight>>

Die(s) ==
    /\ Lives(s)
    /\ Learns(s, Unaware)
    /\ Enters(s, "crashed")
    /\ UNCHANGED <<latest, event, switch, account, paper, preflight>>
-----------------------------------------------------------------------------
(* A preflight: of an unclean predecessor it records that the account is    *)
(* empty, as an event and then as a row of no process.                      *)

PreflightReads ==
    /\ preflight = "idle" /\ Unclean(latest)
    /\ preflight' = "probe"
    /\ UNCHANGED <<stage, known, latest, event, switch, account, paper>>

PreflightRecordsEvent ==
    /\ preflight = "probe" /\ ~ account
    /\ event' = [status |-> "CLEAN", orphans |-> FALSE]
    /\ preflight' = "row"
    /\ UNCHANGED <<stage, known, latest, switch, account, paper>>

PreflightRecordsRow ==
    /\ preflight = "row"
    /\ latest' = [status |-> "clean", by |-> Nobody, camp |-> NoCampaign]
    /\ preflight' = "idle"
    /\ UNCHANGED <<stage, known, event, switch, account, paper>>

\* It may die, and it gives up on an account that is not empty or not readable.
PreflightEnds ==
    /\ preflight # "idle"
    /\ preflight' = "idle"
    /\ UNCHANGED <<stage, known, latest, event, switch, account, paper>>

\* The operator's switch, the account's owner, the resolver.
Surroundings ==
    /\ \/ switch' = ~ switch /\ UNCHANGED <<account, paper>>
       \/ account' = ~ account /\ UNCHANGED <<switch, paper>>
       \/ \E x \in paper : paper' = paper \ {x} /\ UNCHANGED <<switch, account>>
    /\ UNCHANGED <<stage, known, latest, event, preflight>>

StartStep(s) ==
    \/ Launch(s) \/ ReadLatest(s) \/ ReadExposure(s) \/ Probe(s)
    \/ Enter(s) \/ MayStart(s) \/ Refuse(s) \/ StartReconciled(s) \/ Operate(s)
LifeStep(s) ==
    \/ Heartbeat(s) \/ Reconciled(s) \/ OpenPaper(s) \/ EndBegins(s) \/ End(s) \/ Die(s)
PreflightStep ==
    \/ PreflightReads \/ PreflightRecordsEvent \/ PreflightRecordsRow
    \/ PreflightEnds

RecoveryNext ==
    \/ \E s \in Startups : StartStep(s) \/ LifeStep(s)
    \/ PreflightStep
    \/ Surroundings

RecoverySpec == RecoveryInit /\ [][RecoveryNext]_recoveryVars
-----------------------------------------------------------------------------
(* Properties.                                                              *)

NothingIsInherited ==
    \A s \in Startups :
        stage[s] = "up" /\ known[s].mode = "PAPER" => paper \cap known[s].before = {}

\* A runtime operates only when it has itself seen the account empty and, as far
\* as process_is_alive can recognise it, the process whose row it found has ended
\* (a runtime in Hosted may still be at work); on an unclean row it goes on only
\* in PAPER and for another campaign than the one that left it
\* (evaluate_runtime_recovery, the startup reconciliation).  And a PAPER runtime
\* never operates beside a position that one before it left open, however that
\* one ended and whatever rows a preflight wrote over its last, although nothing
\* but the count of burnin_pending_position_outcomes tells of the position.
StartsOnEvidence ==
    /\ NothingIsInherited
    /\ \A s \in Startups :
         stage[s] = "up" =>
           /\ known[s].empty
           /\ known[s].saw.by \in Startups \ Hosted => ~ Lives(known[s].saw.by)
           /\ Unclean(known[s].saw) =>
                known[s].mode = "PAPER" /\ (known[s].camp = NoCampaign \/ known[s].saw.camp # known[s].camp)

\* "LIVE and LIVE_PRECHECK intentionally remain strict on every unclean
\* predecessor" (CHANGELOG.md): none operates after a runtime that crashed.
\* The code does not keep it, because the row of a periodic reconciliation is
\* one of the clean ones (clean_statuses).
LiveFollowsNoCrash ==
    \A s \in Startups :
        stage[s] = "up" /\ known[s].mode = "LIVE_PRECHECK" /\ known[s].saw.by # Nobody =>
          stage[known[s].saw.by] # "crashed"
=============================================================================

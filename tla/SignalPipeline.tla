------------------------------ MODULE SignalPipeline ------------------------------
(***************************************************************************)
(* The decision pipeline of a PAPER runtime attached to a burn-in          *)
(* campaign: a scan, the gates every candidate passes in order, the        *)
(* rejection or the simulated fill it ends with, and the rows and memory   *)
(* that keep a candle, a setup or an open position from being decided      *)
(* twice (RuntimeOrchestrator._scan_once, _process_symbol, _execute,       *)
(* _persist_reject, _sync_resolved_paper_positions).                       *)
(*                                                                         *)
(* One runtime scans at a time (ExecutionOwnership is about two of them).  *)
(* The resolver, in another thread or process, closes positions while the  *)
(* scan holds its own picture of them; the process may die between any two *)
(* transactions and come back as the same continuation or as the next one. *)
(* What a gate judges (alignment, geometry, costs, scores, portfolio caps) *)
(* is an input: the gate passes or rejects.  The execution gate            *)
(* (RuntimeGate), the kill switch (RuntimeControl) and symbol cooldowns    *)
(* may change between any two reads of them, so a test of one of them may  *)
(* go either way here.                                                     *)
(***************************************************************************)
EXTENDS Integers, FiniteSets

CONSTANTS
    Symbols,      \* the campaign's universe
    MaxCandle,    \* bound: execution candles of any symbol
    Quiet,        \* bound: symbols that see one candle only
    SetupSpan,    \* execution candles that share one closed setup candle
    MaxOpen,      \* max_concurrent_positions
    MaxRun,       \* bound: continuations of the campaign
    MaxFills,     \* bound: PAPER fills
    MaxRejects,   \* bound: persisted rejects
    MaxCrash,     \* bound: process deaths
    LookupFaults  \* lookups that may fail: "decision", "setup", "episode"

ASSUME PipelineAssumption ==
    /\ IsFiniteSet(Symbols)
    /\ MaxCandle \in Nat \ {0} /\ Quiet \subseteq Symbols /\ SetupSpan \in Nat \ {0}
    /\ MaxOpen \in Nat \ {0} /\ MaxRun \in Nat \ {0}
    /\ MaxFills \in Nat /\ MaxRejects \in Nat /\ MaxCrash \in Nat
    /\ LookupFaults \subseteq {"decision", "setup", "episode"}

VARIABLES
    market,    \* the last closed execution candle of every symbol
    run,       \* burnin_run_id: the continuation the runtime is attached to
    crashes,   \* process deaths so far
    latest,    \* _latest_execution_candle_by_market
    active,    \* _active_positions with _active_position_episode_ids; 0 is none
    accepted,  \* _accepted_setup_identities
    refused,   \* _canonical_setup_reject_ids
    trades,    \* burnin_pending_position_outcomes
    rejects,   \* the rows of a reject transaction
    verdicts,  \* observation and decision_evidence of an accepted decision
    scan       \* where the scan loop is

memory == <<latest, active, accepted, refused>>
rows == <<trades, rejects, verdicts>>
vars == <<market, run, crashes, memory, rows, scan>>

-----------------------------------------------------------------------------
(* Identities.                                                             *)

\* _setup_opportunity_identity: the closed setup candle an execution candle
\* falls under.
SetupOf(c) == c \div SetupSpan

\* _resolve_signal_id: a signal is its execution candle; a canonical setup
\* reject is decided under the identity of its setup instead.
CandleSignal(s, c) == [kind |-> "candle", sym |-> s, at |-> c]
SetupSignal(s, c) == [kind |-> "setup", sym |-> s, at |-> SetupOf(c)]
Signals == [kind : {"candle", "setup"}, sym : Symbols, at : 0 .. MaxCandle]

LifeStates == {"NONE", "SIGNAL_CREATED", "SIGNAL_REJECTED", "WAITING_ENTRY_ZONE",
               "ENTRY_TRIGGERED", "ORDER_PLACED", "POSITION_OPENED", "CANCELLED", "ERROR"}

\* CANONICAL_LIFECYCLE_TRANSITIONS and validate_transition, for the events
\* this pipeline emits.
Follows(old, new) ==
    CASE new = "SIGNAL_CREATED" -> old \in {"NONE", "SIGNAL_REJECTED", "CANCELLED", "ERROR"}
      [] new = "SIGNAL_REJECTED" -> old = "SIGNAL_CREATED"
      [] new = "WAITING_ENTRY_ZONE" -> old = "SIGNAL_CREATED"
      [] new = "ENTRY_TRIGGERED" -> old = "WAITING_ENTRY_ZONE"
      [] new = "ORDER_PLACED" -> old = "ENTRY_TRIGGERED"
      [] new = "POSITION_OPENED" -> old = "ORDER_PLACED"
      [] new = "CANCELLED" -> old \in {"SIGNAL_CREATED", "WAITING_ENTRY_ZONE",
                                       "ENTRY_TRIGGERED", "ORDER_PLACED", "POSITION_OPENED"}
      [] OTHER -> FALSE

\* _emit_lifecycle_event: an illegal event is recorded as ERROR.  A process
\* handles a signal once, so the state of the one in hand is all it needs.
Emit(old, event) == IF Follows(old, event) THEN event ELSE "ERROR"

-----------------------------------------------------------------------------
(* Rows.                                                                   *)

NoRow == [kind |-> "candle", sym |-> "NONE", at |-> 0, setup |-> 0, run |-> 0, episode |-> 0]
RejectRow(sig, c, episode) ==
    [kind |-> sig.kind, sym |-> sig.sym, at |-> sig.at, setup |-> SetupOf(c),
     run |-> run, episode |-> episode]
SignalOf(row) == [kind |-> row.kind, sym |-> row.sym, at |-> row.at]

OpenTrades == {t \in trades : t.open}
OpenIn(s) == {t \in OpenTrades : t.sym = s}

Idle == [pc |-> "idle", todo |-> {}, seen |-> [s \in Symbols |-> 0], sym |-> "NONE",
         row |-> NoRow, life |-> "NONE"]

NoMemory ==
    /\ latest' = [s \in Symbols |-> 0]
    /\ active' = [s \in Symbols |-> 0]
    /\ accepted' = {} /\ refused' = {}

Init ==
    /\ market = [s \in Symbols |-> 0]
    /\ run = 1 /\ crashes = 0
    /\ latest = [s \in Symbols |-> 0]
    /\ active = [s \in Symbols |-> 0]
    /\ accepted = {} /\ refused = {}
    /\ trades = {} /\ rejects = {} /\ verdicts = {}
    /\ scan = Idle

-----------------------------------------------------------------------------
(* The scan.                                                               *)

\* Mutant: the scan trusts its memory of the positions.
SyncedFromMemory == active

\* _sync_resolved_paper_positions: memory follows the campaign's OPEN rows.
Synced == [s \in Symbols |->
             IF OpenIn(s) = {} THEN 0 ELSE (CHOOSE t \in OpenIn(s) : TRUE).id]

ScanBegin ==
    /\ scan.pc = "idle"
    /\ active' = Synced
    /\ scan' = [scan EXCEPT !.pc = "scanning"]
    /\ UNCHANGED <<market, run, crashes, latest, accepted, refused, rows>>

\* The storage check or the kill switch ends a scan before it starts, and so
\* does a selection or an allocation cycle that could not be persisted.
ScanBlocked ==
    /\ scan.pc = "scanning"
    /\ scan' = Idle
    /\ UNCHANGED <<market, run, crashes, memory, rows>>

\* _allocate_selected_candidates weighs the selected candidates together and
\* attaches its verdict to each; all of them are processed.
Allocated(chosen) == [s \in Symbols |-> IF s \in chosen THEN market[s] ELSE 0]

\* The scanner's candidates were selected, enriched and allocated.
ScanSelected ==
    /\ scan.pc = "scanning"
    /\ \E chosen \in SUBSET Symbols :
          scan' = [scan EXCEPT !.pc = "next", !.todo = chosen, !.seen = Allocated(chosen)]
    /\ UNCHANGED <<market, run, crashes, memory, rows>>

ScanEnd ==
    /\ scan.pc = "next" /\ scan.todo = {}
    /\ scan' = Idle
    /\ UNCHANGED <<market, run, crashes, memory, rows>>

\* A candle that was handled in this process, or an older one, is skipped.
SkipReplayed(s) ==
    /\ scan.pc = "next" /\ s \in scan.todo
    /\ scan.seen[s] <= latest[s]
    /\ scan' = [scan EXCEPT !.todo = @ \ {s}, !.seen[s] = 0]
    /\ UNCHANGED <<market, run, crashes, memory, rows>>

\* Mutant: the position row does not count as a final decision.
RecordedByEvidence(s, c) ==
    \/ \E r \in rejects : r.run = run /\ SignalOf(r) = CandleSignal(s, c)
    \/ CandleSignal(s, c) \in {v.sig : v \in {w \in verdicts : w.run = run}}

\* _canonical_final_decision_recorded, for the continuation of the runtime.
Recorded(s, c) ==
    \/ \E r \in rejects : r.run = run /\ SignalOf(r) = CandleSignal(s, c)
    \/ CandleSignal(s, c) \in {v.sig : v \in {w \in verdicts : w.run = run}}
    \/ \E t \in trades : t.run = run /\ t.sym = s /\ t.candle = c

\* _setup_decision_recorded
SetupRefused(s, c) ==
    \/ <<s, SetupOf(c)>> \in refused
    \/ \E r \in rejects : r.run = run /\ SignalOf(r) = SetupSignal(s, c)
SetupAccepted(s, c) ==
    \/ <<s, SetupOf(c)>> \in accepted
    \/ \E v \in verdicts : v.run = run /\ v.sig.sym = s /\ SetupOf(v.sig.at) = SetupOf(c)

\* Mutant: only the runtime's own continuation is searched.
EpisodeRecordedInRun(s, c) ==
    \E r \in rejects : r.run = run /\ r.sym = s /\ r.setup = SetupOf(c) /\ r.episode = active[s]

\* _duplicate_position_reject_recorded: in any continuation of the campaign.
EpisodeRecorded(s, c) ==
    \E r \in rejects : r.sym = s /\ r.setup = SetupOf(c) /\ r.episode = active[s]

\* The symbol is done: its candle counts as handled whatever came of it.
Finish(s) ==
    /\ latest' = [latest EXCEPT ![s] = scan.seen[s]]
    /\ scan' = [scan EXCEPT !.pc = "next", !.todo = @ \ {s}, !.seen[s] = 0,
                  !.sym = "NONE", !.row = NoRow, !.life = "NONE"]

ProcessBegin(s) ==
    /\ scan.pc = "next" /\ s \in scan.todo
    /\ scan.seen[s] > latest[s]
    /\ ~Recorded(s, scan.seen[s])
    /\ scan' = [scan EXCEPT !.pc = "align", !.sym = s]
    /\ UNCHANGED <<market, run, crashes, memory, rows>>

\* The signal is decided already, or the lookup failed: fail closed.
ProcessSkipped(s) ==
    /\ scan.pc = "next" /\ s \in scan.todo
    /\ scan.seen[s] > latest[s]
    /\ Recorded(s, scan.seen[s]) \/ "decision" \in LookupFaults
    /\ Finish(s)
    /\ UNCHANGED <<market, run, crashes, active, accepted, refused, rows>>

-----------------------------------------------------------------------------
(* The gates of _process_symbol, in their order.                           *)

Sym == scan.sym
Candle == scan.seen[scan.sym]
Setup == <<Sym, SetupOf(Candle)>>

\* A reject transaction is about to be written; `created` is whether the
\* gate announced the signal first.
Refuse(sig, episode, created) ==
    /\ scan' = [scan EXCEPT !.pc = "reject", !.row = RejectRow(sig, Candle, episode),
                  !.life = IF created THEN Emit(@, "SIGNAL_CREATED") ELSE @]
    /\ UNCHANGED <<market, run, crashes, latest, active, accepted, rows>>

\* Multi-timeframe gate, setup NO_SETUP, INVALID or OVEREXTENDED: one
\* canonical reject per setup.
SetupGateRepeated ==
    /\ scan.pc = "align" /\ SetupRefused(Sym, Candle)
    /\ Finish(Sym)
    /\ refused' = refused \cup {Setup}
    /\ UNCHANGED <<market, run, crashes, active, accepted, rows>>
SetupGateRejects ==
    /\ scan.pc = "align"
    /\ ~SetupRefused(Sym, Candle) \/ ("setup" \in LookupFaults /\ Setup \notin refused)
    /\ refused' = refused \cup {Setup}
    /\ Refuse(SetupSignal(Sym, Candle), 0, TRUE)

\* Multi-timeframe gate otherwise, and the state-direction geometry gate.
AlignmentRejects ==
    /\ scan.pc = "align"
    /\ Refuse(CandleSignal(Sym, Candle), 0, TRUE)
    /\ UNCHANGED refused

\* Aligned, but this continuation accepted the setup before.
SetupSpent ==
    /\ scan.pc = "align" /\ SetupAccepted(Sym, Candle)
    /\ Finish(Sym)
    /\ accepted' = accepted \cup {Setup}
    /\ UNCHANGED <<market, run, crashes, active, refused, rows>>

Aligned ==
    /\ scan.pc = "align"
    /\ ~SetupAccepted(Sym, Candle) \/ ("setup" \in LookupFaults /\ Setup \notin accepted)
    /\ scan' = [scan EXCEPT !.pc = "risk"]
    /\ UNCHANGED <<market, run, crashes, memory, rows>>

\* Candidates without complete geometry end here; the ones that cannot even
\* be identified leave a diagnostic and no decision.
GeometryRejects ==
    /\ scan.pc = "risk"
    /\ Refuse(CandleSignal(Sym, Candle), 0, TRUE)
    /\ UNCHANGED refused
GeometryDiagnosed ==
    /\ scan.pc = "risk"
    /\ Finish(Sym)
    /\ UNCHANGED <<market, run, crashes, active, accepted, refused, rows>>

\* The executable stop of a guided candidate is unusable.
GuidedStopRejects ==
    /\ scan.pc = "risk"
    /\ Refuse(CandleSignal(Sym, Candle), 0, FALSE)
    /\ UNCHANGED refused

\* _evaluate_runtime_risk: the rules that read the pipeline's own state.
Exposed == Cardinality({s \in Symbols : active[s] # 0})
RiskFails == Exposed >= MaxOpen

\* Duplicate-position rejects are recorded once per setup and episode.
DuplicateRepeated ==
    /\ scan.pc = "risk" /\ ~RiskFails /\ active[Sym] # 0
    /\ EpisodeRecorded(Sym, Candle)
    /\ Finish(Sym)
    /\ UNCHANGED <<market, run, crashes, active, accepted, refused, rows>>
DuplicateRejects ==
    /\ scan.pc = "risk" /\ ~RiskFails /\ active[Sym] # 0
    /\ ~EpisodeRecorded(Sym, Candle) \/ "episode" \in LookupFaults
    /\ Refuse(CandleSignal(Sym, Candle), active[Sym], TRUE)
    /\ UNCHANGED refused

\* Another rule fails: the gate is shut, the symbol cools down, market data
\* is stale or thin, the kill switch is on.
RiskRejects ==
    /\ scan.pc = "risk"
    /\ Refuse(CandleSignal(Sym, Candle), 0, TRUE)
    /\ UNCHANGED refused

RiskPassed ==
    /\ scan.pc = "risk" /\ ~RiskFails /\ active[Sym] = 0
    /\ scan' = [scan EXCEPT !.pc = "score", !.life = Emit(@, "SIGNAL_CREATED")]
    /\ UNCHANGED <<market, run, crashes, latest, active, accepted, refused, rows>>

\* The gates behind the risk rules follow each other without an await; the
\* first one that says no rejects the announced signal.
Unconvinced ==
    /\ scan.pc = "score"
    /\ Refuse(CandleSignal(Sym, Candle), 0, FALSE)
    /\ UNCHANGED refused
PreScoreRejects == Unconvinced   \* kill switch, spread, slippage, funding
BrainRejects == Unconvinced      \* kill switch again, AIBrain.before_real_order
QualityRejects == Unconvinced    \* trade quality, execution safety
SizingRejects == Unconvinced     \* target policy, risk-based size, stop policy
AllocationRejects == Unconvinced \* joint allocation, portfolio risk

\* The brain raises: an ERROR event and no decision.
ScoreRaises ==
    /\ scan.pc = "score"
    /\ Finish(Sym)
    /\ UNCHANGED <<market, run, crashes, active, accepted, refused, rows>>

\* The setup counts as accepted before anything is executed.
Accept ==
    /\ scan.pc = "score"
    /\ accepted' = accepted \cup {Setup}
    /\ scan' = [scan EXCEPT !.pc = "execute",
                  !.life = Emit(Emit(@, "WAITING_ENTRY_ZONE"), "ENTRY_TRIGGERED")]
    /\ UNCHANGED <<market, run, crashes, latest, active, refused, rows>>

-----------------------------------------------------------------------------
(* _persist_reject: review, decision observation, pending label and the    *)
(* artefact of the reject in one transaction.                              *)

RejectPersisted ==
    /\ scan.pc = "reject" /\ Cardinality(rejects) < MaxRejects
    /\ rejects' = rejects \cup {scan.row}
    /\ Finish(Sym)
    /\ UNCHANGED <<market, run, crashes, active, accepted, refused, trades, verdicts>>

RejectBusy ==
    /\ scan.pc = "reject"
    /\ Finish(Sym)
    /\ UNCHANGED <<market, run, crashes, active, accepted, refused, rows>>

-----------------------------------------------------------------------------
(* _execute: the last check, the fill, then memory and the evidence.       *)

ExecuteBlocked ==
    /\ scan.pc = "execute"
    /\ Finish(Sym)
    /\ UNCHANGED <<market, run, crashes, active, accepted, refused, rows>>

Fills == Cardinality(trades)
Fill ==
    /\ scan.pc = "execute"
    /\ Fills < MaxFills
    /\ trades' = trades \cup {[id |-> Fills + 1, sym |-> Sym, candle |-> Candle,
                               run |-> run, open |-> TRUE]}
    /\ scan' = [scan EXCEPT !.pc = "opened", !.life = Emit(@, "ORDER_PLACED")]
    /\ UNCHANGED <<market, run, crashes, latest, active, accepted, refused, rejects, verdicts>>

\* Mutant: the caller goes on although the position was not persisted.
FillBusyIgnored ==
    /\ scan.pc = "execute"
    /\ scan' = [scan EXCEPT !.pc = "evidence"]
    /\ UNCHANGED <<market, run, crashes, memory, rows>>

FillBusy ==
    /\ scan.pc = "execute"
    /\ Finish(Sym)
    /\ UNCHANGED <<market, run, crashes, active, accepted, refused, rows>>

\* The runtime learns its position after the lifecycle awaits.
Opened ==
    /\ scan.pc = "opened"
    /\ active' = [active EXCEPT ![Sym] = Fills]
    /\ scan' = [scan EXCEPT !.pc = "evidence", !.life = Emit(@, "POSITION_OPENED")]
    /\ UNCHANGED <<market, run, crashes, latest, accepted, refused, rows>>

\* _persist_burnin_decision in its own transaction, which may be lost.
VerdictPersisted ==
    /\ scan.pc = "evidence"
    /\ verdicts' = verdicts \cup {[sig |-> CandleSignal(Sym, Candle), run |-> run]}
    /\ Finish(Sym)
    /\ UNCHANGED <<market, run, crashes, active, accepted, refused, trades, rejects>>
VerdictLost ==
    /\ scan.pc = "evidence"
    /\ Finish(Sym)
    /\ UNCHANGED <<market, run, crashes, active, accepted, refused, rows>>

-----------------------------------------------------------------------------
(* Everything else.                                                        *)

\* The process dies, or a fatal error such as a kill switch found inside
\* _execute ends it; the next one attaches to the same continuation or to a
\* new one.
Restart ==
    /\ crashes < MaxCrash
    /\ crashes' = crashes + 1
    /\ run' \in {run, run + 1} /\ run' <= MaxRun
    /\ NoMemory
    /\ scan' = Idle
    /\ UNCHANGED <<market, rows>>

\* resolve_position_closure, by the resolver or by an operator's worker.
ResolverCloses(t) ==
    /\ t.open
    /\ trades' = (trades \ {t}) \cup {[t EXCEPT !.open = FALSE]}
    /\ UNCHANGED <<market, run, crashes, memory, rejects, verdicts, scan>>

CandleCloses(s) ==
    /\ market[s] < IF s \in Quiet THEN 1 ELSE MaxCandle
    /\ market' = [market EXCEPT ![s] = @ + 1]
    /\ UNCHANGED <<run, crashes, memory, rows, scan>>

Gates ==
    \/ SetupGateRepeated \/ SetupGateRejects \/ AlignmentRejects \/ SetupSpent \/ Aligned
    \/ GeometryRejects \/ GeometryDiagnosed \/ GuidedStopRejects
    \/ DuplicateRepeated \/ DuplicateRejects \/ RiskRejects \/ RiskPassed
    \/ PreScoreRejects \/ BrainRejects \/ QualityRejects \/ SizingRejects
    \/ AllocationRejects \/ ScoreRaises \/ Accept
Writes ==
    \/ RejectPersisted \/ RejectBusy
    \/ ExecuteBlocked \/ Fill \/ FillBusy \/ Opened \/ VerdictPersisted \/ VerdictLost
Scan ==
    \/ ScanBegin \/ ScanBlocked \/ ScanSelected \/ ScanEnd
    \/ \E s \in Symbols : SkipReplayed(s) \/ ProcessBegin(s) \/ ProcessSkipped(s)
Environment ==
    \/ Restart
    \/ \E t \in trades : ResolverCloses(t)
    \/ \E s \in Symbols : CandleCloses(s)

Next == Scan \/ Gates \/ Writes \/ Environment

Spec == Init /\ [][Next]_vars

-----------------------------------------------------------------------------
(* Properties                                                              *)

Pcs == {"idle", "scanning", "next", "align", "risk", "reject", "score", "execute", "opened",
        "evidence"}
TradeRows == [id : 1 .. MaxFills, sym : Symbols, candle : 1 .. MaxCandle, run : 1 .. MaxRun,
              open : BOOLEAN]
RejectRows == [kind : {"candle", "setup"}, sym : Symbols, at : 0 .. MaxCandle,
               setup : 0 .. MaxCandle, run : 1 .. MaxRun, episode : 0 .. MaxFills]
Scans == [pc : Pcs, todo : SUBSET Symbols, seen : [Symbols -> 0 .. MaxCandle],
          sym : Symbols \cup {"NONE"}, row : RejectRows \cup {NoRow}, life : LifeStates]

\* Memory, rows and the scan's own state keep their shapes.
TypeOK ==
    /\ market \in [Symbols -> 0 .. MaxCandle] /\ latest \in [Symbols -> 0 .. MaxCandle]
    /\ run \in 1 .. MaxRun /\ crashes \in 0 .. MaxCrash
    /\ active \in [Symbols -> 0 .. MaxFills]
    /\ accepted \subseteq Symbols \X (0 .. MaxCandle)
    /\ refused \subseteq Symbols \X (0 .. MaxCandle)
    /\ trades \subseteq TradeRows /\ rejects \subseteq RejectRows
    /\ verdicts \subseteq [sig : Signals, run : 1 .. MaxRun]
    /\ scan \in Scans

\* A symbol never has two open positions and the account never more than
\* max_concurrent_positions, although the scan decides from its own memory,
\* the resolver closes rows under it and a crash may come between a fill and
\* the memory of it (_sync_resolved_paper_positions, _evaluate_runtime_risk).
ExposureBounded ==
    /\ Cardinality(OpenTrades) <= MaxOpen
    /\ \A t, u \in OpenTrades : t.sym = u.sym => t = u

\* One candle is decided once in a continuation: no two fills of it, and no
\* fill of a candle that was rejected, whatever restarts and lost evidence
\* come in between (_canonical_final_decision_recorded).
DecidedOnce ==
    /\ \A t, u \in trades : t.run = u.run /\ t.sym = u.sym /\ t.candle = u.candle => t.id = u.id
    /\ \A t \in trades, r \in rejects : r.run = t.run => SignalOf(r) # CandleSignal(t.sym, t.candle)

\* Evidence of an accepted decision always has the position it is about, and
\* is written at the end of a legal lifecycle: the two are separate
\* transactions, with retries that may run out and crashes between them
\* (_persist_burnin_decision after _execute).
VerdictHasFill ==
    /\ \A v \in verdicts : \E t \in trades :
          t.run = v.run /\ CandleSignal(t.sym, t.candle) = v.sig
    /\ scan.pc = "evidence" => scan.life = "POSITION_OPENED"

\* While one position is open, a setup contributes one duplicate-position
\* reject to the campaign, however many execution candles and restarts it
\* sees (_duplicate_position_reject_recorded).
EpisodeRejectedOnce ==
    \A q, r \in rejects :
        q.episode # 0 /\ q.episode = r.episode /\ q.sym = r.sym /\ q.setup = r.setup => q = r
=============================================================================

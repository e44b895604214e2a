------------------------------ MODULE BurninResolver ------------------------------
(***************************************************************************)
(* The forward-outcome resolver of a burn-in campaign: the ledger of PAPER *)
(* positions, the labels that judge rejected signals, and the resolver     *)
(* ticks that settle both against market candles (burnin_resolver.py,      *)
(* BurnInCampaignRunner.resolver_tick, expectancy_evidence.py).            *)
(*                                                                         *)
(* Several processes tick at once: the campaign's own runner and an        *)
(* operator's "worker --once".  A tick reads the open positions in one     *)
(* connection, asks the market-data provider and the position-management   *)
(* provider (no transaction is held meanwhile), and commits in a second    *)
(* one.  bootstrap_campaign_schema's UPDATE opens every writing            *)
(* transaction, so SQLite's write lock makes the second one atomic; inside *)
(* it the compare-and-swap on management_version and the claim token of a  *)
(* label cannot fail, and they are not modelled as steps.                  *)
(*                                                                         *)
(* Prices are favourable distances from the fill, in units of the initial  *)
(* risk grid: a LONG and a SHORT position are then the same position       *)
(* (`_hit` and the sign in every PnL expression mirror them).  A candle is *)
(* <<low, high>>, and time counts candles.                                 *)
(***************************************************************************)
EXTENDS Integers, FiniteSets, FiniteSetsExt

CONSTANTS
    Tickers,      \* processes that run resolver_tick
    Runner,       \* the one among them that belongs to the campaign
    Trades,       \* trade ids
    Labels,       \* reject decision ids
    Events,       \* management event ids
    Bars,         \* bound: candles of the modelled market
    Candles,      \* the shapes a candle may take
    Stop0,        \* initial stop of a position and of a label
    Target,       \* target of both
    Stops,        \* stops a management action may ask for
    Prices,       \* prices a management action may observe or execute at
    Quantity,     \* initial quantity
    EntryCost,    \* entry spread and fee of one unit
    ExitCost,     \* exit costs of one slice
    Horizon,      \* reject_forward_horizon_bars
    Evidence,     \* <<costs known, linked to its decision>> a row may start with
    MaxMissing,   \* bound: bars the provider may leave out of one answer
    MaxRows       \* bound: positions and rejected decisions of one behaviour

ASSUME ResolverAssumption ==
    /\ Runner \in Tickers
    /\ Trades \cap Labels = {}   \* evidence ids are prefixed "accepted:" and "reject:"
    /\ Bars \in Nat \ {0} /\ Horizon \in Nat \ {0}
    /\ MaxMissing \in Nat /\ MaxRows \in Nat /\ Quantity \in Nat \ {0} /\ EntryCost \in Nat /\ ExitCost \in Nat
    /\ Stop0 \in Int /\ Target \in Int /\ Stop0 < 0 /\ 0 < Target
    /\ Stops \subseteq Int /\ Prices \subseteq Int
    /\ Candles \subseteq Int \X Int
    /\ Evidence \subseteq BOOLEAN \X BOOLEAN

VARIABLES
    market,     \* the candle of every bar (chosen once, revealed by now)
    now,        \* bars that have closed
    pos,        \* burnin_pending_position_outcomes
    events,     \* burnin_position_management_events
    outcome,    \* burnin_trade_outcomes
    label,      \* burnin_pending_reject_labels, with its burnin_reject_outcomes row
    canonical,  \* canonical reject observations per reject decision
    expectancy, \* ids in expectancy_evidence
    tick        \* the tick each worker is in

ledger == <<pos, events, outcome, label, expectancy>>
resolverVars == <<market, now, ledger, canonical, tick>>

-----------------------------------------------------------------------------
(* Rows. *)

NoPosition ==
    [status |-> "NONE", at |-> 0, stop |-> Stop0, rem |-> 0, gross |-> 0, cost |-> 0,
     trailing |-> FALSE, costed |-> FALSE, linked |-> FALSE,
     reason |-> "NONE", exit |-> 0, price |-> 0]
NoEvent == [trade |-> "NONE", kind |-> "NONE", level |-> 0, seen |-> 0,
            qty |-> 0, gross |-> 0, cost |-> 0]
NoOutcome == [settled |-> FALSE, complete |-> FALSE, gross |-> 0, cost |-> 0, slices |-> 0]
NoLabel == [status |-> "NONE", at |-> 0, costed |-> FALSE, authoritative |-> FALSE,
            result |-> "NONE"]
NoTick == [pc |-> "idle", open |-> {}, due |-> {}, until |-> 0,
           missing |-> {}, bad |-> FALSE, actions |-> {}]

ResolverInit ==
    /\ market \in [1 .. Bars -> Candles]
    /\ now = 0
    /\ pos = [t \in Trades |-> NoPosition]
    /\ events = [e \in Events |-> NoEvent]
    /\ outcome = [t \in Trades |-> NoOutcome]
    /\ label = [l \in Labels |-> NoLabel]
    /\ canonical = [l \in Labels |-> 0]
    /\ expectancy = {}
    /\ tick = [w \in Tickers |-> NoTick]

-----------------------------------------------------------------------------
(* Candle windows (_hit, _normalize_candle_window, _window_complete).      *)

HitsStop(b, stop) == market[b][1] <= stop
HitsTarget(b) == market[b][2] >= Target
Hits(b, stop) == HitsStop(b, stop) \/ HitsTarget(b)

\* The bars a worker holds of the window (from, to]: what the provider
\* returned closed, inside the window, each bar once.
BarsSeen(w, from, to) == ((from + 1) .. to) \ tick[w].missing

\* First bar of a set of bars that reaches the stop or the target; 0 for none.
Terminal(bars, stop) ==
    LET hit == {b \in bars : Hits(b, stop)} IN IF hit = {} THEN 0 ELSE Min(hit)

\* Mutant: a window with a hole counts as complete.
WindowCompleteAnyGap(w, bars, from, last) == ~tick[w].bad

\* No malformed or conflicting candle, and no bar missing up to `last`.
WindowComplete(w, bars, from, last) ==
    /\ ~tick[w].bad
    /\ ((from + 1) .. last) \subseteq bars

-----------------------------------------------------------------------------
(* What the runtime writes.                                                *)

Room ==
    Cardinality({t \in Trades : pos[t].status # "NONE"})
        + Cardinality({l \in Labels : canonical[l] # 0}) < MaxRows

\* _persist_pending_paper_position: one OPEN row per trade id; the cost model
\* may lack evidence, and the accepted decision may not be linked uniquely.
PersistPosition(t) ==
    /\ Room /\ now < Bars
    /\ pos[t].status = "NONE"
    /\ \E ev \in Evidence :
          pos' = [pos EXCEPT ![t] = [NoPosition EXCEPT
                    !.status = "OPEN", !.at = now, !.rem = Quantity,
                    !.costed = ev[1], !.linked = ev[2]]]
    /\ UNCHANGED <<market, now, events, outcome, label, expectancy, canonical,
                   tick>>

\* A canonical REJECTED observation of the decision is stored; a second one
\* makes its identity ambiguous (_canonical_reject_identity_error).
PersistRejectObservation(l) ==
    /\ IF canonical[l] = 0 THEN Room ELSE canonical[l] = 1
    /\ canonical' = [canonical EXCEPT ![l] = @ + 1]
    /\ UNCHANGED <<market, now, ledger, tick>>

\* persist_pending_reject_label: only for a decision with one canonical
\* observation and complete geometry; INSERT OR IGNORE keeps the first row.
PersistRejectLabel(l) ==
    /\ now + Horizon <= Bars
    /\ canonical[l] = 1
    /\ label[l].status = "NONE"
    /\ \E ev \in Evidence :
          label' = [label EXCEPT ![l] = [NoLabel EXCEPT
                      !.status = "PENDING", !.at = now,
                      !.costed = ev[1], !.authoritative = ev[2]]]
    /\ UNCHANGED <<market, now, pos, events, outcome, expectancy, canonical,
                   tick>>

CandleCloses ==
    /\ now < Bars
    /\ now' = now + 1
    /\ UNCHANGED <<market, ledger, canonical, tick>>

-----------------------------------------------------------------------------
(* resolver_tick: read, ask the providers, commit, finish.                 *)

Due(l) == label[l].status = "PENDING" /\ label[l].at + Horizon <= now
OpenTrades == {t \in Trades : pos[t].status = "OPEN"}

TickRead(w) ==
    /\ tick[w].pc = "idle"
    /\ tick' = [tick EXCEPT ![w] = [NoTick EXCEPT
                  !.pc = "fetch", !.open = OpenTrades, !.due = {l \in Labels : Due(l)}]]
    /\ UNCHANGED <<market, now, ledger, canonical>>

\* An action the position-management provider may propose for a row it was shown.
Proposals(w) ==
    [trade : tick[w].open, id : Events, kind : {"TIGHTEN_STOP"}, level : Stops, seen : Prices]
    \cup [trade : tick[w].open, id : Events, kind : {"PARTIAL_EXIT", "PROTECTIVE_EXIT"},
          level : Prices, seen : {0}]
    \cup [trade : tick[w].open, id : Events, kind : {"ENABLE_TRAILING"}, level : {0}, seen : {0}]

\* The bars an answer may lack.
Gaps == {m \in SUBSET (1 .. now) : Cardinality(m) <= MaxMissing}

TickFetched(w) ==
    /\ tick[w].pc = "fetch"
    /\ \E missing \in Gaps, bad \in BOOLEAN,
          actions \in {{}} \cup {{a} : a \in Proposals(w)} :
          /\ bad \/ (tick[w].open = {} /\ tick[w].due = {}) => missing = {}
          /\ w # Runner => actions = {}
          /\ tick' = [tick EXCEPT ![w].pc = "commit", ![w].until = now,
                        ![w].missing = missing, ![w].bad = bad, ![w].actions = actions]
    /\ UNCHANGED <<market, now, ledger, canonical>>

-----------------------------------------------------------------------------
(* apply_position_management_action                                        *)

\* The event id was used before: with the same request it is a replay, with
\* another one a conflict.
Replayed(a) ==
    LET e == events[a.id] IN
    e.kind = a.kind /\ e.trade = a.trade /\ e.level = a.level /\ e.seen = a.seen

\* Mutant: the position's status is not read again inside the transaction.
ApplicableAnyStatus(a) ==
    /\ events[a.id] = NoEvent
    /\ pos[a.trade].status # "NONE"
    /\ CASE a.kind = "TIGHTEN_STOP" -> pos[a.trade].stop < a.level /\ a.level < a.seen
         [] a.kind = "ENABLE_TRAILING" -> ~pos[a.trade].trailing
         [] a.kind = "PARTIAL_EXIT" -> 1 < pos[a.trade].rem
         [] OTHER -> TRUE

Applicable(a) ==
    /\ events[a.id] = NoEvent
    /\ pos[a.trade].status = "OPEN"
    /\ CASE a.kind = "TIGHTEN_STOP" -> pos[a.trade].stop < a.level /\ a.level < a.seen
         [] a.kind = "ENABLE_TRAILING" -> ~pos[a.trade].trailing
         [] a.kind = "PARTIAL_EXIT" -> 1 < pos[a.trade].rem
         [] OTHER -> TRUE

\* Each cost component of a slice of one unit.
SliceCost == EntryCost + ExitCost

Tightened(p, a) == [p EXCEPT !.stop = a.level]
Trailing(p) == [p EXCEPT !.trailing = TRUE]
\* Mutant: the entry cost of the slice is left for the closure to charge again.
ReducedExitCostOnly(p, a) ==
    [p EXCEPT !.rem = @ - 1, !.gross = @ + a.level, !.cost = @ + ExitCost]
Reduced(p, a) == [p EXCEPT !.rem = @ - 1, !.gross = @ + a.level, !.cost = @ + SliceCost]

\* resolve_position_closure: what is left is sold at the exit price; the total
\* is the whole entry cost, the exits already paid and this exit.  `model` is
\* whether the closing slice carries complete costs.
Closed(p, reason, at, price, model) ==
    [p EXCEPT !.status = "CLOSED", !.reason = reason, !.exit = at, !.price = price,
              !.gross = @ + price * p.rem,
              !.cost = IF model THEN @ + EntryCost * p.rem + ExitCost ELSE @,
              !.rem = 0]

Managed(p, a, at) ==
    CASE a.kind = "TIGHTEN_STOP" -> Tightened(p, a)
      [] a.kind = "ENABLE_TRAILING" -> Trailing(p)
      [] a.kind = "PARTIAL_EXIT" -> Reduced(p, a)
      [] OTHER -> Closed(p, "PROTECTIVE", at, a.level, TRUE)

EventOf(a) ==
    [trade |-> a.trade, kind |-> a.kind, level |-> a.level, seen |-> a.seen,
     qty |-> IF a.kind = "PARTIAL_EXIT" THEN 1
             ELSE IF a.kind = "PROTECTIVE_EXIT" THEN pos[a.trade].rem ELSE 0,
     gross |-> IF a.kind = "PARTIAL_EXIT" THEN a.level
               ELSE IF a.kind = "PROTECTIVE_EXIT" THEN a.level * pos[a.trade].rem ELSE 0,
     cost |-> IF a.kind = "PARTIAL_EXIT" THEN SliceCost
              ELSE IF a.kind = "PROTECTIVE_EXIT" THEN EntryCost * pos[a.trade].rem + ExitCost
              ELSE 0]

\* The actions of a tick, when none of them raises.
Requested(w) == {a \in tick[w].actions : ~Replayed(a)}
Rejected(w) == \E a \in Requested(w) : ~Applicable(a)

ManagedPos(w) ==
    [t \in Trades |->
        IF \E a \in Requested(w) : a.trade = t
        THEN Managed(pos[t], CHOOSE a \in Requested(w) : a.trade = t, tick[w].until)
        ELSE pos[t]]
ManagedEvents(w) ==
    [e \in Events |->
        IF \E a \in Requested(w) : a.id = e
        THEN EventOf(CHOOSE a \in Requested(w) : a.id = e)
        ELSE events[e]]

-----------------------------------------------------------------------------
(* resolve_campaign_positions, after its management actions.               *)

PositionBars(w, t, p) ==
    IF t \in tick[w].open THEN BarsSeen(w, p.at, tick[w].until) ELSE {}

\* The candle that closes position p in this tick; 0 when it stays open.
ExitBar(w, t, p) ==
    LET bars == PositionBars(w, t, p)
        last == Terminal(bars, p.stop)
    IN  IF p.status = "OPEN" /\ last # 0 /\ WindowComplete(w, bars, p.at, last)
        THEN last ELSE 0

Ambiguous(b, stop) == HitsStop(b, stop) /\ HitsTarget(b)

Resolved(w, t, p) ==
    LET b == ExitBar(w, t, p) IN
    IF b = 0 THEN p
    ELSE Closed(p, IF Ambiguous(b, p.stop) THEN "AMBIGUOUS"
                   ELSE IF HitsStop(b, p.stop) THEN "SL_HIT" ELSE "TP_HIT",
                b, IF HitsStop(b, p.stop) THEN p.stop ELSE Target, p.costed)

\* Mutant: an exit whose candle reached both levels counts as evidence.
CompleteWhenCosted(p) == p.status = "CLOSED" /\ (p.costed \/ p.reason = "PROTECTIVE")

\* Evidence of a closed position is complete when every cost is known and the
\* exit is not ambiguous; a protective exit brings its own exit costs.
Complete(p) ==
    /\ p.status = "CLOSED" /\ p.reason # "AMBIGUOUS"
    /\ p.costed \/ p.reason = "PROTECTIVE"

\* persist_burnin_trade_outcome and record_expectancy_evidence for what closed.
OutcomeOf(p, slices) ==
    [settled |-> TRUE, complete |-> Complete(p), gross |-> p.gross, cost |-> p.cost,
     slices |-> slices]
PartialExits(ev, t) == {e \in Events : ev[e].trade = t /\ ev[e].kind = "PARTIAL_EXIT"}

-----------------------------------------------------------------------------
(* resolve_campaign_batch and evaluate_forward_outcome                     *)

LabelBars(w, l) == BarsSeen(w, label[l].at, label[l].at + Horizon)

ForwardLabel(b) ==
    IF b = 0 THEN "TIMEOUT"
    ELSE IF Ambiguous(b, Stop0) THEN "AMBIGUOUS"
    ELSE IF HitsTarget(b) THEN "TP_BEFORE_SL" ELSE "SL_BEFORE_TP"

\* Mutant: the window of a label is judged although bars of it are missing.
LabelledAnyWindow(w, l) ==
    LET bars == LabelBars(w, l)
        result == ForwardLabel(Terminal(bars, Stop0))
    IN  IF l \notin tick[w].due \/ label[l].status # "PENDING" \/ bars = {} THEN label[l]
        ELSE [label[l] EXCEPT !.result = result,
                !.status = IF label[l].costed THEN "RESOLVED" ELSE "FAILED"]

\* The label after the batch: FAILED when the decision lost its identity,
\* PENDING again while the window has a hole, settled otherwise.  The
\* batch uses the time of the read, so a label is due iff it was due then.
Labelled(w, l) ==
    LET bars == LabelBars(w, l)
        b == Terminal(bars, Stop0)
        whole == WindowComplete(w, bars, label[l].at,
                                IF b = 0 THEN label[l].at + Horizon ELSE b)
        result == ForwardLabel(b)
    IN  IF l \notin tick[w].due \/ label[l].status # "PENDING" THEN label[l]
        ELSE IF canonical[l] # 1 THEN [label[l] EXCEPT !.status = "FAILED"]
        ELSE IF bars = {} \/ ~whole THEN label[l]
        ELSE [label[l] EXCEPT
                !.result = result,
                !.status = IF result = "AMBIGUOUS" THEN "AMBIGUOUS"
                           ELSE IF label[l].costed THEN "RESOLVED" ELSE "FAILED"]

-----------------------------------------------------------------------------
(* The commit: one transaction for labels, management and positions.       *)

TickCommitted(w) ==
    /\ tick[w].pc = "commit" /\ ~Rejected(w)
    /\ LET closed == [t \in Trades |-> Resolved(w, t, ManagedPos(w)[t])]
           ev == ManagedEvents(w)
           judged == [l \in Labels |-> Labelled(w, l)]
           newly == {t \in Trades : pos[t].status = "OPEN" /\ closed[t].status = "CLOSED"}
           settled == {l \in Labels : label[l].status = "PENDING" /\ judged[l].status = "RESOLVED"}
       IN  /\ pos' = closed
           /\ events' = ev
           /\ label' = judged
           /\ outcome' = [t \in Trades |->
                IF t \in newly THEN OutcomeOf(closed[t], Cardinality(PartialExits(ev, t)))
                ELSE outcome[t]]
           /\ expectancy' = expectancy
                \cup {t \in newly : Complete(closed[t]) /\ closed[t].linked}
                \cup {l \in settled : judged[l].authoritative}
    /\ tick' = [tick EXCEPT ![w] = NoTick]
    /\ UNCHANGED <<market, now, canonical>>

\* A tick that raises writes nothing: the provider fails, a management action
\* is refused, the lock retries are exhausted or the process dies.
TickAborted(w) ==
    /\ tick[w].pc # "idle"
    /\ tick' = [tick EXCEPT ![w] = NoTick]
    /\ UNCHANGED <<market, now, ledger, canonical>>

ResolverNext ==
    \/ CandleCloses
    \/ \E t \in Trades : PersistPosition(t)
    \/ \E l \in Labels : PersistRejectObservation(l) \/ PersistRejectLabel(l)
    \/ \E w \in Tickers :
          TickRead(w) \/ TickFetched(w) \/ TickCommitted(w) \/ TickAborted(w)

ResolverSpec == ResolverInit /\ [][ResolverNext]_resolverVars

-----------------------------------------------------------------------------
(* Properties                                                              *)

PositionStatuses == {"NONE", "OPEN", "CLOSED"}

Reasons == {"NONE", "SL_HIT", "TP_HIT", "AMBIGUOUS", "PROTECTIVE"}
ActionKinds == {"TIGHTEN_STOP", "ENABLE_TRAILING", "PARTIAL_EXIT", "PROTECTIVE_EXIT"}
LabelStatuses == {"NONE", "PENDING", "RESOLVED", "AMBIGUOUS", "FAILED"}
Results == {"NONE", "TIMEOUT", "AMBIGUOUS", "TP_BEFORE_SL", "SL_BEFORE_TP"}

Positions ==
    [status : PositionStatuses, at : 0 .. Bars, stop : Int, rem : Nat, gross : Int, cost : Int,
     trailing : BOOLEAN, costed : BOOLEAN, linked : BOOLEAN,
     reason : Reasons, exit : 0 .. Bars, price : Int]
LabelRows ==
    [status : LabelStatuses, at : 0 .. Bars, costed : BOOLEAN, authoritative : BOOLEAN,
     result : Results]
Requests == [trade : Trades, id : Events, kind : ActionKinds, level : Int, seen : Int]
TickStates ==
    [pc : {"idle", "fetch", "commit"}, open : SUBSET Trades, due : SUBSET Labels,
     until : 0 .. Bars, missing : SUBSET (1 .. Bars), bad : BOOLEAN, actions : SUBSET Requests]

\* Every row keeps its shape, and what is left of a position is never negative:
\* the rows burnin_resolver.py reads back, and what a tick carries between its
\* two connections.
ResolverTypeOK ==
    /\ now \in 0 .. Bars
    /\ pos \in [Trades -> Positions]
    /\ canonical \in [Labels -> 0 .. 2]
    /\ label \in [Labels -> LabelRows]
    /\ tick \in [Tickers -> TickStates]

SlicesBalance ==
    \A t \in Trades : pos[t].status # "NONE" =>
        LET parts == PartialExits(events, t)
            sold == MapThenSumSet(LAMBDA e : events[e].qty, parts)
            won == MapThenSumSet(LAMBDA e : events[e].gross, parts)
            last == IF pos[t].status = "CLOSED" THEN Quantity - sold ELSE 0
        IN  /\ pos[t].rem + sold + last = Quantity
            /\ pos[t].gross = won + pos[t].price * last
            /\ outcome[t].settled <=> pos[t].status = "CLOSED"
            /\ outcome[t].settled => outcome[t].gross = pos[t].gross
            /\ outcome[t].complete =>
                  outcome[t].cost = EntryCost * Quantity + ExitCost * (Cardinality(parts) + 1)

ExpectancyIsComplete ==
    /\ \A t \in Trades : t \in expectancy <=>
          /\ pos[t].status = "CLOSED" /\ pos[t].linked
          /\ pos[t].cost = EntryCost * Quantity
                             + ExitCost * (Cardinality(PartialExits(events, t)) + 1)
          /\ pos[t].reason = "PROTECTIVE" \/ ~Ambiguous(pos[t].exit, pos[t].stop)
    /\ \A l \in Labels :
          l \in expectancy <=> label[l].status = "RESOLVED" /\ label[l].authoritative

\* The cash ledger balances at every step: what was sold in partial exits and
\* what remains make up the initial quantity, the realised PnL is the sum of
\* the slices, and a complete closure charges the entry once and every exit
\* once (apply_position_management_action and resolve_position_closure).
\* Expectancy learns a result exactly when it is complete: the position is
\* closed and linked to its decision, every cost of it is booked, and the
\* candle that closed it tells its stop from its target; nothing else enters,
\* and nothing that qualifies is lost (record_expectancy_evidence).
LedgerBalances == SlicesBalance /\ ExpectancyIsComplete

ExitAtFirstHit ==
    \A t \in Trades : pos[t].reason \in {"SL_HIT", "TP_HIT", "AMBIGUOUS"} =>
        pos[t].exit = Terminal((pos[t].at + 1) .. Bars, pos[t].stop)

LabelMatchesMarket ==
    \A l \in Labels : label[l].result # "NONE" =>
        label[l].result = ForwardLabel(Terminal((label[l].at + 1) .. (label[l].at + Horizon), Stop0))

\* Results are those of the market, whatever bars a provider's answers lacked
\* and whichever process settled them: a position closed by the market was
\* closed on the first candle after its entry that reached its stop or its
\* target (_window_complete), and a rejected signal's label is the one a reader
\* of the complete forward window would give (evaluate_forward_outcome).
ResultsMatchMarket == ExitAtFirstHit /\ LabelMatchesMarket

\* What was settled stays settled: two workers that settle from old reads, a
\* replayed event or a crashed tick never reopen or rewrite a closed position,
\* an outcome, a judged label or an event, never widen a stop and never take
\* an id out of the expectancy evidence.
SettledIsFinal ==
    [][/\ \A t \in Trades :
             /\ pos[t].status = "CLOSED" => pos'[t] = pos[t] /\ outcome'[t] = outcome[t]
             /\ pos[t].status = "OPEN" => pos'[t].stop >= pos[t].stop /\ pos'[t].rem <= pos[t].rem
       /\ \A e \in Events : events[e] # NoEvent => events'[e] = events[e]
       /\ \A l \in Labels :
             label[l].status \in {"RESOLVED", "AMBIGUOUS", "FAILED"} => label'[l] = label[l]
       /\ expectancy \subseteq expectancy']_resolverVars
=============================================================================

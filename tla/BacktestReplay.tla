---------------------------- MODULE BacktestReplay ----------------------------
(***************************************************************************)
(* The backtester (backtest_order.py): it walks through the candles of one *)
(* symbol after the other and decides on each candle.  A decision that     *)
(* buys is simulated to its end at once, over the candles that follow, and *)
(* its rows are appended before the next candle is looked at; so the       *)
(* replay's order is not the market's.  BacktestPortfolioState, the        *)
(* guardrail counters of recent_stats and the rescue counter are carried   *)
(* from candle to candle and from symbol to symbol.                        *)
(*                                                                         *)
(* What the market shows (whether the symbol selector, the scan, the cost  *)
(* check and the numeric limits reject, which candles touch the entry, the *)
(* stop and the target, what cash a closed trade nets) is chosen freely.   *)
(* The first two candles of a symbol, which are skipped, are left out.     *)
(***************************************************************************)
EXTENDS Integers, Sequences, FiniteSets

CONSTANTS
    Symbols,           \* number of symbols
    Candles,           \* candles of each symbol
    CandlesPerDay,
    MaxDayAccepts,     \* max_accepted_trades_per_day
    MaxSymbolDay,      \* max_symbol_trades_per_day
    MaxStopLosses,     \* max_consecutive_sl_pause
    MaxDayTrades,      \* max_daily_global_trades
    MaxLosses,         \* global_loss_streak_limit
    MaxRescues,        \* max_trades_per_day of the rescue
    MaxRescuesOpen,    \* max_concurrent_positions of the rescue
    MaxOpenPositions   \* max_open_positions of the portfolio

ASSUME ReplayAssumption ==
    /\ \A n \in {Symbols, Candles, CandlesPerDay} : n \in Nat \ {0}
    /\ \A n \in {MaxDayAccepts, MaxSymbolDay, MaxStopLosses, MaxDayTrades, MaxLosses,
                 MaxRescues, MaxRescuesOpen, MaxOpenPositions} : n \in Nat

VARIABLES
    symbol, candle,   \* where the replay is
    rows,             \* the lifecycle rows, in the order they are appended
    trades,           \* the trades, in the order they are simulated
    rejects,          \* the rejected records
    rejectionCounts,  \* their count by reason, summed
    folio,            \* BacktestPortfolioState
    recent,           \* recent_stats
    rescues           \* rescue_stats.accepted_count

replayVars == <<symbol, candle, rows, trades, rejects, rejectionCounts, folio, recent, rescues>>

DayOf(i) == (i - 1) \div CandlesPerDay
Days == {DayOf(i) : i \in 1 .. Candles}

ReplayInit ==
    /\ symbol = 1 /\ candle = 1
    /\ rows = <<>> /\ trades = <<>>
    /\ rejects = 0 /\ rejectionCounts = 0
    /\ folio = [cashComplete |-> TRUE, open |-> {}, pending |-> {}, losses |-> 0, dayTrades |-> [d \in Days |-> 0]]
    /\ recent = [stopLosses |-> 0, dayAccepts |-> [d \in Days |-> 0],
                 symbolDay |-> [s \in 1 .. Symbols |-> [d \in Days |-> 0]], openRows |-> 0]
    /\ rescues = 0

\* The two nested loops of main.
NextCandle ==
    /\ symbol <= Symbols
    /\ IF candle < Candles THEN candle' = candle + 1 /\ UNCHANGED symbol
                           ELSE candle' = 1 /\ symbol' = symbol + 1

LifecycleRow(state) == [symbol |-> symbol, candle |-> candle, state |-> state]
AppendRows(states) == rows' = rows \o [n \in 1 .. Len(states) |-> LifecycleRow(states[n])]
Here == <<symbol, candle>>
Today == DayOf(candle)

\* Mutant: the row that creates the signal is left out.
RejectUncreated(states) ==
    /\ AppendRows(<<states[Len(states)]>>)
    /\ rejects' = rejects + 1 /\ rejectionCounts' = rejectionCounts + 1
    /\ UNCHANGED <<trades, folio, recent, rescues>>

Reject(states) ==
    /\ AppendRows(states)
    /\ rejects' = rejects + 1 /\ rejectionCounts' = rejectionCounts + 1
    /\ UNCHANGED <<trades, folio, recent, rescues>>
-----------------------------------------------------------------------------
\* What the replay sees of a simulated trade.  cash: the sign of the net cash,
\* or "unknown" when the cost evidence is incomplete.
Trade(how, entry, exit, reason, cash) ==
    [symbol |-> symbol, candle |-> candle, how |-> how, entry |-> entry, exit |-> exit,
     reason |-> reason, cash |-> cash]

\* simulate_candidate: the entry is touched first at candle `entry'; from that
\* candle on, the first that touches the stop or the target ends the trade,
\* the stop before the target within one candle.
Exit(entry, touched) ==
    LET hits == {k \in entry .. Candles : touched[k] # {}}
        k    == CHOOSE x \in hits : \A y \in hits : x <= y
    IN  IF hits = {} THEN [at |-> Candles, reason |-> "TIMEOUT"]
        ELSE [at |-> k, reason |-> IF "stop" \in touched[k] THEN "SL_HIT" ELSE "TP_HIT"]

\* finalize: what the trade may net; at a target nothing tells zero from a gain.
CashOf(reason) ==
    {"loss", "unknown"} \cup (IF reason = "SL_HIT" THEN {} ELSE {"gain"})
                        \cup (IF reason = "TIMEOUT" THEN {"zero"} ELSE {})

\* What may become of a candidate of each candle; an entry order that is never
\* touched times out.
Fate(entry, at, reason, cash) == [entry |-> entry, exit |-> at, reason |-> reason, cash |-> cash]
Fates ==
    [c \in 1 .. Candles |->
        {Fate(0, 0, "ENTRY_TIMEOUT", "none")} \cup
        UNION {UNION {LET x == Exit(entry, touched)
                      IN  {Fate(entry, x.at, x.reason, cash) : cash \in CashOf(x.reason)} :
                      touched \in [entry .. Candles -> SUBSET {"stop", "target"}]} :
               entry \in c .. Candles}]
Simulated(how) == {Trade(how, f.entry, f.exit, f.reason, f.cash) : f \in Fates[candle]}

Filled(t) == t.entry # 0

\* The rows of an accepted candidate, after the row process_backtest_result wrote.
SimulatedRows(t) ==
    <<"SIGNAL_CREATED", "SIGNAL_CREATED", "SIGNAL_ACCEPTED", "WAITING_ENTRY_ZONE">> \o
    IF Filled(t) THEN <<"ENTRY_TRIGGERED", "ORDER_PLACED", "POSITION_OPENED", "POSITION_CLOSED">>
                 ELSE <<"ENTRY_TIMEOUT">>
-----------------------------------------------------------------------------
\* BacktestPortfolioState: mark_pending, then open_position, record_trade_count
\* and close_position, or cancel_pending.  An untouched rescue stays pending.
MarkPending(f, cancels) == [f EXCEPT !.pending = IF cancels THEN @ ELSE @ \cup {Here}]
OpenPosition(f) == [f EXCEPT !.open = @ \cup {Here}, !.dayTrades[Today] = @ + 1]

ClosePosition(f, t) ==
    LET complete == f.cashComplete /\ t.cash # "unknown"
    IN  [f EXCEPT !.open = @ \ {Here},
                  !.cashComplete = complete,
                  !.losses = IF ~complete THEN @
                             ELSE IF t.cash = "loss" \/ t.reason = "SL_HIT" THEN @ + 1
                             ELSE IF t.cash = "gain" \/ t.reason = "TP_HIT" THEN 0
                             ELSE @]
AccountedTrade(t) ==
    IF Filled(t) THEN ClosePosition(OpenPosition(folio), t) ELSE MarkPending(folio, t.how = "baseline")

\* evaluate_portfolio_risk, but for the numeric limits.
PortfolioRiskPasses ==
    /\ folio.cashComplete
    /\ Cardinality(folio.open) < MaxOpenPositions
    /\ folio.dayTrades[Today] < MaxDayTrades
    /\ folio.losses < MaxLosses

\* _guardrail_rejection_reason, but for the numeric guards.
GuardrailsPass ==
    /\ recent.stopLosses < MaxStopLosses
    /\ recent.dayAccepts[Today] < MaxDayAccepts
    /\ recent.symbolDay[symbol][Today] < MaxSymbolDay

\* _record_guardrail_acceptance
RecordAcceptance(r) == [r EXCEPT !.dayAccepts[Today] = @ + 1, !.symbolDay[symbol][Today] = @ + 1]

\* _update_recent_stats_after_close, and open_rows.
UpdateAfterClose(r, t) ==
    [r EXCEPT !.stopLosses = CASE t.reason = "SL_HIT" -> @ + 1 [] t.reason = "TP_HIT" -> 0 [] OTHER -> @,
              !.openRows = IF t.reason = "TIMEOUT" THEN @ + 1 ELSE @]

\* The trade is simulated, accounted and appended.
Buy(how) ==
    \E t \in Simulated(how) :
        /\ trades' = Append(trades, t)
        /\ AppendRows(SimulatedRows(t))
        /\ folio' = AccountedTrade(t)
        /\ recent' = UpdateAfterClose(IF how = "baseline" THEN RecordAcceptance(recent) ELSE recent, t)
        /\ rescues' = IF how = "rescue" THEN rescues + 1 ELSE rescues
        /\ UNCHANGED <<rejects, rejectionCounts>>
-----------------------------------------------------------------------------
\* The symbol selector finds the symbol not tradable on this candle.
SelectorRejects ==
    /\ NextCandle
    /\ Reject(<<"SYMBOL_REJECTED">>)

\* The rescue rules a refused candidate may be a case of.  Both have the same daily
\* limit, so one that is a case of both is judged as a short breakdown.
Rules == {"none", "short breakdown", "effective rr"}

\* _try_rescue: the short-breakdown rule asks only for its daily limit,
\* _rescue_acceptance_allowed also for the number of rows left open.
Rescuable(rule) ==
    /\ rule # "none" /\ rescues < MaxRescues
    /\ rule = "effective rr" => recent.openRows < MaxRescuesOpen

\* A candidate is refused with the row given, unless a rescue rule takes it.
RefuseOrRescue(state, rule) ==
    IF Rescuable(rule) THEN Buy("rescue") ELSE Reject(<<"SIGNAL_CREATED", state>>)

\* scan_symbol_backtest rejected: no aligned timeframes, the score, the shared
\* decision, or a disagreement of the decision and the order cycle.
ScanRejects(rule) ==
    /\ NextCandle
    /\ RefuseOrRescue("SIGNAL_REJECTED", rule)

\* _execution_reject_flags: the candidate is too expensive to execute.
ExecutionRejects(rule) ==
    /\ NextCandle
    /\ RefuseOrRescue("ORDER_REJECTED", rule)

\* The portfolio check or a guardrail refuses, for a reason above or a numeric one.
PortfolioOrGuardrailRejects ==
    /\ NextCandle
    /\ Reject(<<"SIGNAL_CREATED", "SIGNAL_REJECTED">>)

BaselineAccepts ==
    /\ NextCandle
    /\ PortfolioRiskPasses /\ GuardrailsPass
    /\ Buy("baseline")

ReplayNext ==
    \/ SelectorRejects \/ PortfolioOrGuardrailRejects \/ BaselineAccepts
    \/ \E rule \in Rules : ScanRejects(rule) \/ ExecutionRejects(rule)

ReplaySpec == ReplayInit /\ [][ReplayNext]_replayVars
-----------------------------------------------------------------------------
(* What is derived from the rows when the replay is over.                  *)

RejectedStates == {"SYMBOL_REJECTED", "SIGNAL_REJECTED", "ORDER_REJECTED"}
With(states) == {n \in DOMAIN rows : rows[n].state \in states}
Signals(states) == {<<rows[n].symbol, rows[n].candle>> : n \in With(states)}

\* _derive_backtest_counts
DerivedCounts ==
    LET candidates == Cardinality(Signals({"SIGNAL_CREATED", "SYMBOL_REJECTED"}))
        rejected   == Cardinality(With(RejectedStates))
        placed     == Signals({"ORDER_PLACED"})
    IN  [rejected     |-> rejected,
         accepted     |-> candidates - rejected,
         orders       |-> Cardinality(placed),
         notTriggered |-> Cardinality(Signals({"WAITING_ENTRY_ZONE"}) \ (Signals({"ENTRY_TRIGGERED"}) \cup placed))]

\* verify_export_integrity, but for the contents of single rows.
ExportIsSound ==
    /\ Cardinality(With(RejectedStates)) = rejects
    /\ Signals({"SYMBOL_REJECTED"}) \cap Signals({"SIGNAL_CREATED"}) = {}
    /\ \A s \in Signals({"SIGNAL_CREATED"}) :
          \E n \in DOMAIN rows : <<rows[n].symbol, rows[n].candle>> = s /\ rows[n].state # "SIGNAL_CREATED"
-----------------------------------------------------------------------------
(* Properties                                                              *)

\* The report's numbers are computed from the lifecycle rows, by subtraction,
\* and not from the decisions: they agree with the trades, the rejected records
\* and the rejection counters whatever the selector, the scan, the rescue rules
\* and the portfolio did on the way (_derive_backtest_counts,
\* verify_export_integrity).
ReplayAddsUp ==
    LET filled == {n \in DOMAIN trades : Filled(trades[n])}
    IN  /\ ExportIsSound
        /\ rejectionCounts = rejects
        /\ DerivedCounts = [rejected |-> rejects, accepted |-> Len(trades), orders |-> Cardinality(filled),
                            notTriggered |-> Len(trades) - Cardinality(filled)]
=============================================================================

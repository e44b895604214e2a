----------------------------- MODULE OrderDecision -----------------------------
(***************************************************************************)
(* May this candidate become an order?  One market snapshot is turned into *)
(* an execution context (build_execution_context), the context into a fill *)
(* price and an effective risk/reward (build_decision_rr_metrics), and the *)
(* candidate passes the quality gates (evaluate_trade_quality), the        *)
(* execution-safety gates (evaluate_execution_safety) and sizing.  The     *)
(* same snapshot is judged in BACKTEST, PAPER and LIVE_PRECHECK, as        *)
(* _build_mode_parity_evidence does.                                       *)
(*                                                                         *)
(* Feeds fail one field at a time: a value is missing, absent, not a       *)
(* number, zero or extreme, a label claims more or less than was measured. *)
(* A snapshot starts sound and up to MaxOdd things about it go wrong.      *)
(*                                                                         *)
(* Rates are whole basis points and the entry price is 10000, so a basis   *)
(* point is a unit of price.  Risk/reward is counted in 1/20000.           *)
(***************************************************************************)
EXTENDS Integers, Sequences

CONSTANTS
    MinRR, MinEffRR,          \* MIN_RR, MIN_EFFECTIVE_RR
    MinStop, MaxStop,         \* MIN_SL_PCT, MAX_SL_PCT
    ExtremeMult, SoftScore, SoftRR, SoftScale,   \* STOP_TOO_WIDE_*
    MaxSpread, MaxSlip, MaxTotalCost, MaxFunding,
    MinLiquidity, MaxLatency, MaxVolPenalty,
    MinATR, MaxATR, MinScore, MaxAge,
    MaxOdd                    \* bound: things wrong with one snapshot

ASSUME DecisionAssumption ==
    /\ {MinRR, MinEffRR, MinStop, MaxStop, ExtremeMult, SoftScore, SoftRR, SoftScale, MaxSpread,
        MaxSlip, MaxTotalCost, MaxFunding, MinLiquidity, MaxLatency, MaxVolPenalty, MinATR,
        MaxATR, MinScore, MaxAge, MaxOdd} \subseteq Nat
    /\ SoftScale <= 100

VARIABLES
    market,   \* the snapshot
    odd,      \* how many things are wrong with it
    verdict   \* of each mode, once decided

orderVars == <<market, odd, verdict>>

Modes == {"BACKTEST", "PAPER", "LIVE_PRECHECK"}
Fields == {"spread", "slip", "lat", "liq", "fund", "fee", "vol", "ob"}
Entry == 10000
RR == 20000

\* A key that is not there, a None, and a float that is not a number.
Absent == -77777
None == -88888
NaN == -99999
Given(x) == x \notin {Absent, None}
Number(x) == Given(x) /\ x # NaN
Known(x) == IF x = Absent THEN None ELSE x
Magnitude(x) == IF x = NaN THEN NaN ELSE IF x < 0 THEN -x ELSE x
AtLeast(x, low) == IF Number(x) /\ x < low THEN low ELSE x
AtMost(x, high) == IF Number(x) /\ x > high THEN high ELSE x
Over(x, limit) == Number(x) /\ x > limit
Under(x, limit) == Number(x) /\ x < limit
Or0(x) == IF Given(x) THEN x ELSE 0

-----------------------------------------------------------------------------
(* build_execution_context                                                 *)

Evidence(x, status) == [v |-> x, st |-> status]
Labelled(m, f, default) == IF m.st[f] = "DEFAULT" THEN default ELSE m.st[f]

\* normalize_pct_input: above 5% a rate is taken for percentage points.
NormalizePct(x) ==
    IF Magnitude(x) > 500 THEN Magnitude(x) \div 100 ELSE Magnitude(x)

\* The spread: the feed's, else the quote's.
RawSpread(m) == IF m.v["spread"] # Absent THEN m.v["spread"] ELSE Or0(m.quote)
SpreadEvidence(m) ==
    LET measured == (Given(m.v["spread"]) \/ Given(m.quote)) /\ RawSpread(m) # None
        status == IF measured THEN Labelled(m, "spread", "MEASURED") ELSE "UNAVAILABLE"
    IN  Evidence(IF status = "UNAVAILABLE" THEN None ELSE NormalizePct(RawSpread(m)), status)

\* _expected_slippage_pct: a twentieth of the recent range, at least a basis
\* point; 10 without candles.
RangeSlippage(m) == IF Given(m.range) THEN AtLeast((m.range * 5) \div 100, 1) ELSE 10
\* The value stays even when its status says that nothing is known.
SlippageEvidence(m) ==
    LET known == Given(m.v["slip"]) \/ Given(m.range)
    IN  Evidence(NormalizePct(IF m.v["slip"] = Absent THEN RangeSlippage(m) ELSE Or0(m.v["slip"])),
                 IF known THEN Labelled(m, "slip", "ESTIMATE") ELSE "UNAVAILABLE")

\* A measured acknowledgement replaces the assumed latency and its label.
LatencyEvidence(m) ==
    IF Given(m.ack) THEN Evidence(AtLeast(m.ack, 0), "MEASURED")
    ELSE Evidence(AtLeast(Known(m.v["lat"]), 0),
                  Labelled(m, "lat", IF Given(m.v["lat"]) THEN "ESTIMATE" ELSE "UNAVAILABLE"))

Plainly(m, f) ==
    Evidence(Known(m.v[f]), Labelled(m, f, IF Given(m.v[f]) THEN "MEASURED" ELSE "UNAVAILABLE"))
FundingEvidence(m) == Plainly(m, "fund")
ClampedEvidence(m, f, low, high) ==
    LET e == Plainly(m, f)
    IN  Evidence(IF f = "liq" /\ e.st = "UNAVAILABLE" THEN None ELSE AtLeast(AtMost(e.v, high), low),
                 e.st)
FeeEvidence(m) ==
    LET status == Labelled(m, "fee", IF Given(m.v["fee"]) THEN "CONFIGURED" ELSE "UNAVAILABLE")
    IN  IF ~Given(m.v["fee"]) \/ Under(m.v["fee"], 0) \/ status = "UNAVAILABLE"
        THEN Evidence(None, "UNAVAILABLE") ELSE Evidence(m.v["fee"], status)

\* _volatility_regime, by what the regime costs: low, normal or high.
RangePenalty(range) == IF range > 200 THEN 2400 ELSE IF range < 50 THEN 400 ELSE 0
VolatilityEvidence(m) ==
    LET status == Labelled(m, "vol", IF Given(m.range) THEN "MEASURED" ELSE "UNAVAILABLE")
        regime == IF Given(m.v["vol"]) THEN m.v["vol"]
                  ELSE IF Given(m.range) THEN RangePenalty(m.range) ELSE None
    IN  Evidence(IF status = "UNAVAILABLE" THEN None ELSE regime, status)

Context(m) ==
    [spread |-> SpreadEvidence(m), slip |-> SlippageEvidence(m), lat |-> LatencyEvidence(m),
     liq |-> ClampedEvidence(m, "liq", 0, 100), fund |-> FundingEvidence(m),
     fee |-> FeeEvidence(m), vol |-> VolatilityEvidence(m),
     ob |-> ClampedEvidence(m, "ob", -100, 100)]

-----------------------------------------------------------------------------
(* build_execution_cost_model and build_decision_rr_metrics                *)

VolatilityPenalty(c) == IF c.vol.v = None THEN 2000 ELSE c.vol.v
NotNumbers(c) == {f \in Fields \ {"vol", "ob"} : c[f].v = NaN}
TotalPenalty(c) ==
    50 * Or0(c.spread.v) + 60 * c.slip.v + 4 * Or0(c.lat.v) + 20 * Or0(c.fee.v)
    + 5 * Magnitude(Or0(c.fund.v)) + (IF Given(c.liq.v) THEN (100 - c.liq.v) * 120 ELSE 0)
    + VolatilityPenalty(c)

\* The part of the costs the fill price does not hold already: its own half of
\* the slippage is in it.
RemainingPenalty(c, filled) == TotalPenalty(c) - (IF filled THEN 30 * c.slip.v ELSE 0)

\* adverse_expected_fill_price, away from the entry by the slippage.
\* Mutant: PAPER has a slippage of its own even when none is configured.
PaperAlwaysSlips(m, c, mode) ==
    IF mode = "PAPER" THEN IF Given(m.paperSlip) THEN m.paperSlip ELSE 30 ELSE c.slip.v
FillSlippage(m, c, mode) ==
    IF mode = "PAPER" /\ Given(m.paperSlip) THEN AtLeast(m.paperSlip, 0) ELSE c.slip.v
Fill(m, slip) == IF m.side = "LONG" THEN Entry + slip ELSE Entry - slip
StopPrice(m) == IF m.side = "LONG" THEN Entry - m.stop ELSE Entry + m.stop
TargetPrice(m) == IF m.side = "LONG" THEN Entry + m.target ELSE Entry - m.target

\* executable_raw_rr, as a fraction.
Executable(m, fill) ==
    LET sign == IF m.side = "LONG" THEN 1 ELSE -1
        risk == sign * (fill - StopPrice(m))
        reward == sign * (TargetPrice(m) - fill)
    IN  IF risk <= 0 \/ reward <= 0 THEN [n |-> 0, d |-> 1] ELSE [n |-> reward * RR, d |-> risk]

Metrics(m, c, mode) ==
    LET slip == FillSlippage(m, c, mode)
        filled == slip # NaN
        gross == IF filled THEN Executable(m, Fill(m, slip)) ELSE [n |-> m.rr, d |-> 1]
    IN  [fill |-> IF filled THEN Fill(m, slip) ELSE None,
         nan |-> NotNumbers(c) # {},
         n |-> IF NotNumbers(c) # {} THEN 0
               ELSE AtLeast(gross.n - RemainingPenalty(c, filled) * gross.d, 0),
         d |-> gross.d]

\* effective_rr < limit; a value that is no number is not below anything.
BelowRR(met, limit) == ~met.nan /\ met.n < limit * met.d

-----------------------------------------------------------------------------
(* evaluate_trade_quality                                                  *)

\* build_stop_risk_metrics: the distance from the expected fill (or, in
\* BACKTEST without one, from the entry) as a fraction; d = 0 if unknown.
StopDistance(m, met, mode) ==
    LET from == IF Given(met.fill) THEN met.fill ELSE IF mode = "BACKTEST" THEN Entry ELSE 0
    IN  [n |-> Magnitude(from - StopPrice(m)) * 10000, d |-> from]

Bypassed(m, mode, gate) == mode = "BACKTEST" /\ gate \in m.disabled

IsWide(dist) == dist.d > 0 /\ dist.n > MaxStop * dist.d

\* evaluate_stop_risk_policy for a stop beyond MAX_SL_PCT.
StopTooWide(m, met, mode, dist) ==
    LET extreme == dist.n > MaxStop * ExtremeMult * dist.d
        eligible == m.score >= SoftScore /\ ~met.nan /\ ~BelowRR(met, SoftRR)
    IN  m.hard /\ (extreme \/ ~eligible) /\ ~Bypassed(m, mode, "STOP_TOO_WIDE")

\* Mutant: the quality gates read the context's normalised rate.
ContextRate(m, c, f) == Or0(c[f].v)

\* They read the feed's rate, and the context's only without one.
QualityRate(m, c, f) == IF Given(m.v[f]) THEN m.v[f] ELSE Or0(c[f].v)

\* The first reason whose condition holds; "" if none does.
FirstOf(gates) ==
    LET failed == {i \in DOMAIN gates : gates[i][1]}
    IN  IF failed = {} THEN "" ELSE gates[CHOOSE i \in failed : \A j \in failed : i <= j][2]

\* Score and expectancy are AIBrain's outside BACKTEST.
EarlyGates(m, c, met, mode) ==
    LET own == mode = "BACKTEST"
        dist == StopDistance(m, met, mode)
    IN  << <<own /\ m.score < MinScore /\ ~Bypassed(m, mode, "LOW_SCORE"), "LOW_SCORE">>,
           <<m.rr < MinRR /\ ~Bypassed(m, mode, "RR_TOO_LOW"), "RR_TOO_LOW">>,
           <<BelowRR(met, MinEffRR) /\ ~Bypassed(m, mode, "RR_TOO_LOW"), "LOW_EFFECTIVE_RR">>,
           <<own /\ ~Given(m.expectancy), "EXPECTANCY_MISSING">>,
           <<own /\ Under(m.expectancy, 0), "NEGATIVE_EXPECTANCY">>,
           <<m.chop, "CHOP_MARKET_BLOCK">>,
           <<~m.aligned /\ ~Bypassed(m, mode, "REGIME_MISMATCH"), "REGIME_MISMATCH">>,
           <<m.filter /\ m.rejectUnknown /\ (~Given(c.ob.v) \/ c.ob.st = "UNAVAILABLE"),
             "ORDERBOOK_CONTEXT_MISSING">>,
           <<m.filter /\ (Over(Magnitude(Or0(c.ob.v)), 89) \/ Over(m.spoof, 79)),
             "ORDERBOOK_RISK">>,
           <<Over(QualityRate(m, c, "slip"), MaxSlip), "SLIPPAGE_TOO_HIGH">>,
           <<dist.d = 0, "UNKNOWN_EXECUTION_CONTEXT">>,
           <<dist.d > 0 /\ dist.n < MinStop * dist.d, "STOP_TOO_TIGHT">>,
           <<IsWide(dist) /\ StopTooWide(m, met, mode, dist), "STOP_TOO_WIDE">> >>

\* The tail that a softened stop passes in a second round.
LateGates(m, c, mode) ==
    << <<Over(QualityRate(m, c, "spread"), MaxSpread), "SPREAD_TOO_HIGH">>,
       <<Over(QualityRate(m, c, "slip"), MaxSlip), "SLIPPAGE_TOO_HIGH">>,
       <<Under(m.atr, MinATR), "VOLATILITY_TOO_LOW">>,
       <<Over(m.atr, MaxATR), "VOLATILITY_TOO_HIGH">>,
       <<mode = "BACKTEST" /\ m.dayFull /\ ~Bypassed(m, mode, "DAILY_SYMBOL_TRADE_LIMIT"),
         "DAILY_SYMBOL_TRADE_LIMIT">> >>

Quality(m, c, met, mode) ==
    [why |-> FirstOf(EarlyGates(m, c, met, mode) \o LateGates(m, c, mode)),
     soft |-> IsWide(StopDistance(m, met, mode))]

-----------------------------------------------------------------------------
(* evaluate_execution_safety                                               *)

Critical(m, live) ==
    {"spread", "slip", "lat", "liq", "fund", "fee"}
    \cup (IF live THEN {"vol"} ELSE {}) \cup (IF m.filter THEN {"ob"} ELSE {})
Missing(m, c, live) ==
    {f \in Critical(m, live) :
       \/ c[f].v = None \/ c[f].st = "UNAVAILABLE"
       \/ live /\ f # "fee" /\ c[f].st # "MEASURED"}
Corrupt(c) == {f \in Fields \ {"vol"} : c[f].v = NaN}
FakeZeros(m, c, live) ==
    {f \in {"spread", "slip", "lat", "fund"} \cup (IF m.filter THEN {"ob"} ELSE {}) :
       live /\ c[f].v = 0 /\ c[f].st = "MEASURED" /\ f \notin m.verified}
ExplicitCost(c) ==
    LET part(f) == IF Number(c[f].v) THEN Magnitude(c[f].v) ELSE 0
    IN  part("spread") + part("slip") + part("fee") + part("fund")

\* The book leans strongly against the trade.
Adverse(m, imbalance) ==
    IF m.side = "LONG" THEN Under(imbalance, -89) ELSE Over(imbalance, 89)

\* evaluate_microstructure_authority, as LIVE modes require it: attributable
\* depth, imbalance, spoof and absorption evidence, fresh, and not against
\* the trade's side.
MicrostructureGates(m, c) ==
    << <<c.ob.v = NaN \/ Over(m.spoof, 100) \/ (Given(m.depth) /\ m.depth <= 0),
         "MICROSTRUCTURE_EVIDENCE_INVALID">>,
       <<\/ ~Number(c.ob.v) \/ c.ob.st # "MEASURED" \/ ~Number(m.spoof) \/ ~Given(m.depth)
         \/ ~Given(m.confirmed) \/ ~Given(m.absorbs) \/ ~Given(m.age),
         "MICROSTRUCTURE_CONTEXT_UNAVAILABLE">>,
       <<Under(m.age, 0), "MICROSTRUCTURE_TIMESTAMP_INVALID">>,
       <<Over(m.age, MaxAge), "STALE_MICROSTRUCTURE">>,
       <<Over(m.spoof, 79) /\ m.confirmed = 1, "SPOOF_RISK">>,
       <<Adverse(m, c.ob.v), "ADVERSE_ORDERBOOK_IMBALANCE">>,
       <<m.absorbs = 0, "ADVERSE_ABSORPTION">> >>

\* An effective RR that is too low, or no number.
PoorRR(met) == met.nan \/ BelowRR(met, MinEffRR)

CostGates(m, c, met, live) ==
    << <<(m.rejectUnknown /\ Missing(m, c, live) # {}) \/ Corrupt(c) # {},
         "EXECUTION_CONTEXT_UNAVAILABLE">>,
       <<FakeZeros(m, c, live) # {}, "INVALID_FAKE_ZERO">>,
       <<Over(c.spread.v, MaxSpread), "SPREAD_TOO_HIGH">>,
       <<Over(c.slip.v, MaxSlip), "SLIPPAGE_TOO_HIGH">>,
       <<ExplicitCost(c) > MaxTotalCost, "HIGH_TOTAL_COST">>,
       <<Under(c.liq.v, MinLiquidity), "THIN_LIQUIDITY">>,
       <<Over(c.lat.v, MaxLatency), "HIGH_LATENCY">>,
       <<VolatilityPenalty(c) > MaxVolPenalty, "EXCESSIVE_VOLATILITY">>,
       <<Number(c.fund.v) /\ Magnitude(c.fund.v) > MaxFunding, "FUNDING_TOO_HIGH">>,
       <<PoorRR(met), "LOW_EFFECTIVE_RR">> >>

\* In the order of priority of primary_reject_reason.
SafetyGates(m, c, met, live) ==
    (IF live THEN MicrostructureGates(m, c) ELSE << >>) \o CostGates(m, c, met, live)

\* The shared BACKTEST boundary names a low effective RR first.
Safety(m, c, met, mode) ==
    IF mode = "BACKTEST" /\ PoorRR(met) THEN "LOW_EFFECTIVE_RR"
    ELSE FirstOf(SafetyGates(m, c, met, mode = "LIVE_PRECHECK"))

-----------------------------------------------------------------------------
(* The decision, stage by stage (_evaluate_pre_submit, _process_symbol and *)
(* evaluate_signal_decision).                                              *)

\* build_order_candidate
BadLevels(m) == StopPrice(m) <= 0 \/ TargetPrice(m) <= 0
\* _project_precomputed_portfolio_allocation
Projected(m) == IF Given(m.allocated) THEN AtMost(m.notional, m.allocated) ELSE m.notional

\* scale_candidate_exposure
ScaledSize(n, soft) == IF soft THEN (n * SoftScale) \div 100 ELSE n

Verdict(why, size) == [why |-> why, size |-> IF why = "" THEN size ELSE 0]

\* What both procedures ask, in their order: levels, quality, safety, size.
Checked(m, mode, size) ==
    LET c == Context(m)
        met == Metrics(m, c, mode)
        quality == Quality(m, c, met, mode)
        safety == Safety(m, c, met, mode)
    IN  << <<BadLevels(m), "INVALID_LEVELS">>,
           <<quality.why # "", quality.why>>,
           <<safety # "", safety>>,
           <<size <= 0, "INVALID_ORIGINAL_NOTIONAL">> >>

SizeFor(m, mode, asked) ==
    LET c == Context(m)
    IN  IF Given(asked) THEN ScaledSize(asked, Quality(m, c, Metrics(m, c, mode), mode).soft) ELSE 0

Funded(m) == <<Given(m.allocated) /\ m.allocated <= 0, "NO_PORTFOLIO_CAPACITY">>

\* evaluate_signal_decision projects the allocation before anything else and
\* scales what is left.
JudgeBacktest(m) ==
    LET size == SizeFor(m, "BACKTEST", Projected(m))
    IN  Verdict(FirstOf(<<Funded(m)>> \o Checked(m, "BACKTEST", size)), size)

\* _evaluate_pre_submit and _process_symbol scale the request and cut it to the
\* allocation last.
JudgeRuntime(m, mode) ==
    LET size == SizeFor(m, mode, m.notional)
    IN  Verdict(FirstOf(<< <<~m.plan, "ORDER_PLAN_REJECTED">> >> \o Checked(m, mode, size)
                        \o <<Funded(m)>>),
                IF Given(m.allocated) THEN AtMost(size, m.allocated) ELSE size)

Judge(m, mode) == IF mode = "BACKTEST" THEN JudgeBacktest(m) ELSE JudgeRuntime(m, mode)

-----------------------------------------------------------------------------
Undecided == [mode \in Modes |-> Verdict("UNDECIDED", 0)]

\* A sound snapshot that every mode accepts.
Sound(side) ==
    [side |-> side, stop |-> 100, target |-> 300, rr |-> 3 * RR, score |-> 8, atr |-> 100,
     chop |-> FALSE, aligned |-> TRUE, expectancy |-> 1, plan |-> TRUE, dayFull |-> FALSE,
     v |-> [f \in Fields |->
              CASE f = "spread" -> 2 [] f = "slip" -> 4 [] f = "lat" -> 200 [] f = "liq" -> 90
                [] f = "fund" -> 2 [] f = "fee" -> 4 [] f = "vol" -> 0 [] f = "ob" -> 10],
     st |-> [f \in Fields |-> IF f = "fee" THEN "DEFAULT" ELSE "MEASURED"],
     verified |-> {}, quote |-> 2, range |-> 100, ack |-> None, paperSlip |-> None,
     spoof |-> 10, confirmed |-> 0, absorbs |-> 1, depth |-> 50, age |-> 1,
     filter |-> FALSE, rejectUnknown |-> TRUE, hard |-> TRUE, disabled |-> {},
     notional |-> 100, allocated |-> Absent]

OrderInit ==
    /\ market \in {Sound(side) : side \in {"LONG", "SHORT"}}
    /\ odd = 0
    /\ verdict = Undecided

GoesWrong(next) ==
    /\ verdict = Undecided /\ odd < MaxOdd
    /\ market' = next /\ market' # market
    /\ odd' = odd + 1
    /\ UNCHANGED verdict

\* A feed delivers another value, or none.
Values(f) ==
    {Absent, None, NaN, 0} \cup
    (CASE f = "spread" -> {MaxSpread, MaxSpread + 1, 600}
       [] f = "slip" -> {MaxSlip, MaxSlip + 1, 700}
       [] f = "lat" -> {-1, MaxLatency, MaxLatency + 1}
       [] f = "liq" -> {MinLiquidity, MinLiquidity - 1, 200}
       [] f = "fund" -> {-MaxFunding, -MaxFunding - 1, MaxFunding + 1}
       [] f = "fee" -> {-1, MaxTotalCost}
       [] f = "vol" -> {400, 2400, 5000, 2000}
       [] f = "ob" -> {-95, 95, 300})
Feed(f) ==
    \E x \in IF f = "vol" THEN Values(f) \ {NaN} ELSE Values(f) :
      GoesWrong([market EXCEPT !.v[f] = x])
\* A label claims something else, or a zero is vouched for.
Relabel(f) ==
    \/ \E status \in {"DEFAULT", "ESTIMATE", "UNAVAILABLE"} :
         GoesWrong([market EXCEPT !.st[f] = status])
    \/ GoesWrong([market EXCEPT !.verified = @ \cup {f}])
\* Quotes, candles, acknowledgements and the configured PAPER slippage.
Source ==
    \/ \E x \in {Absent, -30, 30, 600} : GoesWrong([market EXCEPT !.quote = x])
    \/ \E x \in {Absent, 40, 300, 600} : GoesWrong([market EXCEPT !.range = x])
    \/ \E x \in {0, 200, MaxLatency + 1} : GoesWrong([market EXCEPT !.ack = x])
    \/ \E x \in {-1, 0, 15} : GoesWrong([market EXCEPT !.paperSlip = x])
\* The plan's geometry and grades.
Plan ==
    \/ \E x \in {-100, MinStop - 1, MinStop, MaxStop, MaxStop + 50, MaxStop * 3, Entry} :
         \E t \in {300, 3 * MaxStop + 150, 9 * MaxStop} :
           GoesWrong([market EXCEPT !.stop = x, !.target = t])
    \/ \E x \in {0, 150, 182, 2 * Entry} : GoesWrong([market EXCEPT !.target = x])
    \/ \E x \in {1, SoftScore + 1} : GoesWrong([market EXCEPT !.score = x])
    \/ \E x \in {None, MinATR - 1, MaxATR + 1} : GoesWrong([market EXCEPT !.atr = x])
    \/ \E x \in {None, -1} : GoesWrong([market EXCEPT !.expectancy = x])
    \/ GoesWrong([market EXCEPT !.rr = MinRR - 1])
    \/ GoesWrong([market EXCEPT !.chop = TRUE])
    \/ GoesWrong([market EXCEPT !.aligned = FALSE])
    \/ GoesWrong([market EXCEPT !.plan = FALSE])
    \/ GoesWrong([market EXCEPT !.dayFull = TRUE])
\* The book's depth, spoofing and absorption evidence.
Microstructure ==
    \/ \E x \in {None, 85, 101} : GoesWrong([market EXCEPT !.spoof = x, !.confirmed = 1])
    \/ \E x \in {None, 1} : GoesWrong([market EXCEPT !.confirmed = x])
    \/ \E x \in {None, 0} : GoesWrong([market EXCEPT !.absorbs = x])
    \/ \E x \in {None, 0} : GoesWrong([market EXCEPT !.depth = x])
    \/ \E x \in {None, -1, MaxAge, MaxAge + 1} : GoesWrong([market EXCEPT !.age = x])
\* Configuration, size and allocation.
Configure ==
    \/ GoesWrong([market EXCEPT !.filter = TRUE])
    \/ GoesWrong([market EXCEPT !.rejectUnknown = FALSE])
    \/ GoesWrong([market EXCEPT !.hard = FALSE])
    \/ GoesWrong([market EXCEPT !.disabled =
                    {"LOW_SCORE", "RR_TOO_LOW", "REGIME_MISMATCH", "STOP_TOO_WIDE",
                     "DAILY_SYMBOL_TRADE_LIMIT"}])
    \/ \E x \in {None, 0} : GoesWrong([market EXCEPT !.notional = x])
    \/ \E x \in {0, 60} : GoesWrong([market EXCEPT !.allocated = x])

Decided ==
    /\ verdict = Undecided
    /\ verdict' = [mode \in Modes |-> Judge(market, mode)]
    /\ UNCHANGED <<market, odd>>

OrderNext ==
    \/ \E f \in Fields : Feed(f) \/ Relabel(f)
    \/ Source \/ Plan \/ Microstructure \/ Configure \/ Decided

OrderSpec == OrderInit /\ [][OrderNext]_orderVars

-----------------------------------------------------------------------------
(* Correctness, in terms of the snapshot itself.                           *)

\* A rate something is known of: it is there, if only in the quote, and its label
\* does not take it back.  What is not known is refused, or it is let through and
\* charged nothing (REJECT_UNKNOWN_EXECUTION_CONTEXT).
Knows(m, f) ==
    /\ m.st[f] # "UNAVAILABLE"
    /\ Number(m.v[f]) \/ (f = "spread" /\ m.v[f] = Absent /\ Given(m.quote))
Charged(m, f, x) == IF Knows(m, f) THEN x ELSE 0

\* What the market charges: the feed's rate, else what quotes and candles say.
TrueSpread(m) == IF Number(m.v["spread"]) THEN m.v["spread"] ELSE Magnitude(m.quote)
\* (A slippage delivered as None counts as zero, candles or not.)
TrueSlip(m) ==
    IF Number(m.v["slip"]) THEN m.v["slip"]
    ELSE IF m.v["slip"] = None THEN 0 ELSE RangeSlippage(m)
TrueLatency(m) == AtLeast(Or0(IF Given(m.ack) THEN m.ack ELSE m.v["lat"]), 0)
\* A score outside its scale counts as the end of the scale.
TrueLiquidity(m) == AtLeast(AtMost(m.v["liq"], 100), 0)
\* A wide quote without a feed is misread as percentage points.
Misread(m) == ~Given(m.v["spread"]) /\ Over(Magnitude(m.quote), 500)

\* How far past the entry the order is filled, and what it costs besides.
Late(m, mode) ==
    IF mode = "PAPER" /\ Given(m.paperSlip) THEN AtLeast(m.paperSlip, 0) ELSE TrueSlip(m)
Rest(m) ==
    50 * Charged(m, "spread", IF Misread(m) THEN 0 ELSE TrueSpread(m))
    + 30 * TrueSlip(m) + 4 * TrueLatency(m)
    + 20 * Charged(m, "fee", AtLeast(m.v["fee"], 0))
    + 5 * Magnitude(Or0(m.v["fund"]))
    + 120 * Charged(m, "liq", 100 - TrueLiquidity(m))

\* Enough is left of the reward when the fill comes TrueSlip (or the PAPER
\* model's slippage) late, the exit costs as much again, and spread, fee and
\* the rest are paid.
Pays(m, mode) ==
    LET late == Late(m, mode)
    IN  /\ m.stop + late > 0
        /\ (m.target - late) * RR >= (MinEffRR + Rest(m)) * (m.stop + late)

\* The stop, seen from the fill, is not too near; one too far is traded at a
\* reduced size, for a high score, and never when it is extreme.
StopIsBearable(m, mode, size) ==
    LET late == Late(m, mode)
        from == IF m.side = "LONG" THEN Entry + late ELSE Entry - late
        gap == (m.stop + late) * 10000
    IN  /\ gap >= MinStop * from
        /\ gap > MaxStop * from =>
             /\ size * 100 <= SoftScale * m.notional
             /\ m.hard /\ ~Bypassed(m, mode, "STOP_TOO_WIDE") =>
                  m.score >= SoftScore /\ gap <= MaxStop * ExtremeMult * from

\* LIVE trades on what was measured, recently, and not against the book.
LiveEvidence(m) ==
    /\ m.rejectUnknown =>
         /\ m.st["slip"] = "MEASURED"
         /\ \A f \in {"liq", "fund"} : m.st[f] \in {"MEASURED", "DEFAULT"}
         /\ m.st["lat"] = "MEASURED" \/ Given(m.ack)
    /\ m.age \in 0 .. MaxAge
    /\ m.absorbs = 1 /\ ~(m.spoof >= 80 /\ m.confirmed = 1)
    /\ IF m.side = "LONG" THEN m.v["ob"] > -90 ELSE m.v["ob"] < 90
    /\ m.v["slip"] = 0 /\ m.st["slip"] = "MEASURED" => "slip" \in m.verified

\* What an accepted snapshot is: every cost that matters is known (or the unknown is
\* let through) and within its limit, the trade still pays, and at this size it is
\* bearable and within the allocation.
IsSafe(m, mode, size) ==
    /\ \A f \in {"spread", "slip", "fund", "fee", "liq", "ob"} :
         m.v[f] = NaN => f \in {"spread", "fee", "liq"} /\ m.st[f] = "UNAVAILABLE"
    /\ m.rejectUnknown =>
         /\ \A f \in {"spread", "fund", "fee", "liq"} : Knows(m, f)
         /\ Given(m.v["slip"]) \/ Given(m.range)
         /\ m.st["slip"] # "UNAVAILABLE"
         /\ Given(m.ack) \/ Knows(m, "lat")
    /\ ~Over(m.v["spread"], MaxSpread)
    /\ Knows(m, "spread") => Misread(m) \/ TrueSpread(m) <= MaxSpread
    /\ TrueSlip(m) <= MaxSlip
    /\ Knows(m, "liq") => TrueLiquidity(m) >= MinLiquidity
    /\ ~m.chop /\ ~Under(m.atr, MinATR) /\ ~Over(m.atr, MaxATR)
    /\ Pays(m, mode)
    /\ StopIsBearable(m, mode, size)
    /\ size > 0 /\ size <= m.notional
    /\ Given(m.allocated) => size <= m.allocated
    /\ mode = "LIVE_PRECHECK" => LiveEvidence(m)

\* However the faults of a snapshot combine, a mode accepts it only if it is safe: the
\* costs are known and bearable from where the order would be filled, the stop and
\* the size too (evaluate_trade_quality and evaluate_execution_safety over
\* build_execution_context).  And nothing that PAPER's rehearsal refuses is
\* acceptable before a LIVE start: unless PAPER fills with a slippage model of its
\* own, LIVE_PRECHECK accepts a snapshot only if PAPER does, with the same size
\* (_build_mode_parity_evidence).
AcceptedIsSafe ==
    /\ verdict["LIVE_PRECHECK"].why = "" /\ ~Given(market.paperSlip) =>
         verdict["PAPER"] = verdict["LIVE_PRECHECK"]
    /\ \A mode \in Modes : verdict[mode].why = "" => IsSafe(market, mode, verdict[mode].size)
=============================================================================

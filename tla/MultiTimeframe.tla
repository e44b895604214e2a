---------------------------- MODULE MultiTimeframe ----------------------------
(***************************************************************************)
(* The closed-candle evidence of a PAPER signal (multi_timeframe.py): for   *)
(* one symbol the provider asks for the candles of three timeframes at      *)
(* once, keeps each answer for the interval it was asked in, and judges     *)
(* whether regime, setup and execution agree on a side; in guided mode it   *)
(* also makes the candidate from the setup's structure                      *)
(* (signal_geometry.py).                                                   *)
(*                                                                         *)
(* A candle is the last instant of its interval, where it closes, and an    *)
(* answer the last candle in it, -1 when it has none.  The direction of a   *)
(* window is chosen when it is judged: no two judgements are compared.      *)
(***************************************************************************)
EXTENDS Integers

CONSTANTS RegimeFrame, SetupFrame, ExecutionFrame,   \* instants in a candle of each layer
          Styles,       \* guided, legacy, state: which ways of judging are configured
          MaxIntervals, \* max_age_intervals
          MaxInstant,   \* bound: instants
          MaxBehind,    \* bound: how far a market row's stamp may lie back
          MaxLag,       \* bound: how late a closed candle may be published
          MaxBuilds     \* bound: judgements

Layers == {"regime", "setup", "execution"}
Length == [l \in Layers |-> CASE l = "regime" -> RegimeFrame [] l = "setup" -> SetupFrame [] OTHER -> ExecutionFrame]

ASSUME TimeframeAssumption ==
    /\ \A l \in Layers : Length[l] \in Nat \ {0}
    /\ Styles \subseteq {"guided", "legacy", "state"} /\ MaxIntervals \in Nat
    /\ MaxInstant \in Nat /\ MaxBehind \in Nat /\ MaxLag \in Nat /\ MaxBuilds \in Nat

Directed == {"LONG", "SHORT"}
Directions == Directed \cup {"NONE"}   \* NONE: neutral, overextended, malformed, too few rows, no quote
Support == 1
Resistance == 3
Levels == Support .. Resistance

VARIABLES
    style,     \* the configured way of judging
    instant,   \* the exchange's time
    klines,    \* _cache: the last candle kept per layer and interval, -2 for no entry
    flights,   \* requests under way: the build that waits for each, its layer and its decision
    build,     \* the judgement under way
    builds,    \* judgements begun
    signal     \* the last one's outcome

mtfVars == <<style, instant, klines, flights, build, builds, signal>>

NoSignal == [aligned |-> FALSE]
Resting == [phase |-> "resting", decision |-> 0, last |-> [l \in Layers |-> -1]]

MtfInit ==
    /\ style \in Styles
    /\ instant = 0
    /\ klines = [l \in Layers |-> [start \in 0 .. MaxInstant |-> -2]]
    /\ flights = {}
    /\ build = Resting
    /\ builds = 0
    /\ signal = NoSignal

\* An interval is known by its start; its candle closes in its last instant.
Start(l, at) == at - (at % Length[l])
LastClosed(l, at) == Start(l, at + 1) - 1

InstantPasses ==
    /\ instant < MaxInstant
    /\ instant' = instant + 1
    /\ UNCHANGED <<style, klines, flights, build, builds, signal>>

\* Mutant: the open candle of an answer is kept with the others.
ClosedByEverything(candle, l, decision) == candle

\* closed_candles: of an answer's candles those that closed by the decision are kept.
ClosedBy(candle, l, decision) == IF candle <= decision THEN candle ELSE LastClosed(l, decision)

\* Layers whose interval is known are answered at once, the others by requests of their own.
BuildBegins(decision) ==
    /\ build.phase = "resting" /\ builds < MaxBuilds
    /\ builds' = builds + 1
    /\ LET kept == [l \in Layers |-> klines[l][Start(l, decision)]] IN
       /\ build' = [phase |-> "fetching", decision |-> decision, last |-> kept]
       /\ flights' = flights \cup {[build |-> builds + 1, layer |-> l, decision |-> decision] :
                                       l \in {k \in Layers : kept[k] = -2}}
    /\ signal' = NoSignal
    /\ UNCHANGED <<style, instant, klines>>

Awaited(f) == build.phase = "fetching" /\ f.build = builds

\* An answer arrives, also for a build that another request has ended: it is kept for its interval.
KlinesArrive(f, candle) ==
    /\ f \in flights
    /\ LET last == ClosedBy(candle, f.layer, f.decision) IN
       /\ klines' = [klines EXCEPT ![f.layer][Start(f.layer, f.decision)] = last]
       /\ build' = IF Awaited(f) THEN [build EXCEPT !.last[f.layer] = last] ELSE build
    /\ flights' = flights \ {f}
    /\ UNCHANGED <<style, instant, builds, signal>>

\* What the exchange has published: the row of the open candle too, and closed ones late.
Published(l) == {Start(l, instant) + Length[l] - 1} \cup
                {Start(l, at) - 1 : at \in {i \in 0 .. instant : instant <= i + MaxLag}}

\* One failed request leaves the judgement without any candles; the others go on.
KlinesFail(f) ==
    /\ f \in flights
    /\ flights' = flights \ {f}
    /\ build' = IF Awaited(f) THEN Resting ELSE build
    /\ UNCHANGED <<style, instant, klines, builds, signal>>

\* build_mtf_candidate_context drops open candles once more, whoever handed them in.
Bounded == [l \in Layers |-> ClosedBy(build.last[l], l, build.decision)]

\* Mutant: a window is taken however old its last candle is.
FreshAnyAge(l) == Bounded[l] >= 0 /\ Bounded[l] <= build.decision

\* evaluate_mtf_alignment: a layer's evidence is there and recent, for the direction its window has.
Fresh(l) == /\ Bounded[l] >= 0 /\ Bounded[l] <= build.decision
            /\ build.decision - Bounded[l] <= MaxIntervals * Length[l]

\* Mutant: execution's trigger is enough, whichever side it is on.
AgreeOnTrigger(direction) == \A l \in Layers : direction[l] \in Directed

\* Guided: the regime has the side, the setup any phase of it, execution confirms it.  Legacy: all
\* three agree.  State: regime and setup agree and execution has some side.
Agree(direction) ==
    /\ \A l \in Layers : direction[l] \in Directed
    /\ style # "state" => direction["execution"] = direction["regime"]
    /\ style # "guided" => direction["setup"] = direction["regime"]

\* build_structural_geometry_with_diagnostics over the setup window's support and resistance.
Stop(side) == IF side = "LONG" THEN Support ELSE Resistance
Target(side) == IF side = "LONG" THEN Resistance ELSE Support
Drawable(side, entry) ==
    IF side = "LONG" THEN entry > Stop(side) /\ Target(side) > entry
                     ELSE Stop(side) > entry /\ entry > Target(side)

\* Guided, the entry is execution's last close; one outside the zone of the setup's last candle
\* ends like one beyond the stop or the target.
BuildEnds(direction, entry) ==
    LET aligned == /\ Agree(direction)
                   /\ \A l \in Layers : Fresh(l)
                   /\ style = "guided" => Drawable(direction["regime"], entry)
    IN
    /\ build.phase = "fetching" /\ \A f \in flights : ~Awaited(f)
    /\ signal' = IF aligned
                 THEN [aligned |-> TRUE, style |-> style, decision |-> build.decision, last |-> Bounded,
                       direction |-> direction, side |-> direction["regime"],
                       entry |-> IF style = "guided" THEN entry ELSE 0]
                 ELSE NoSignal
    /\ build' = Resting
    /\ UNCHANGED <<style, instant, klines, flights, builds>>

MtfNext ==
    \/ InstantPasses
    \/ \E decision \in 0 .. instant :
          instant <= decision + MaxBehind /\ BuildBegins(decision)
    \/ \E f \in flights :
          \/ \E candle \in Published(f.layer) : KlinesArrive(f, candle)
          \/ KlinesFail(f)
    \/ \E direction \in [Layers -> Directions], entry \in Levels : BuildEnds(direction, entry)

MtfSpec == MtfInit /\ [][MtfNext]_mtfVars

-----------------------------------------------------------------------------
\* What is kept for an interval had closed when it began, but for the interval's own candle.
KeptClosed == \A l \in Layers : \A start \in 0 .. MaxInstant : klines[l][start] < start + Length[l]

\* A signal's candles are closed and recent, its side is agreed on and its entry is between its levels.
SignalStands == signal.aligned =>
    /\ \A l \in Layers : /\ 0 <= signal.last[l] /\ signal.last[l] <= signal.decision
                         /\ signal.decision - signal.last[l] <= MaxIntervals * Length[l]
    /\ signal.side \in Directed /\ signal.direction["regime"] = signal.side
    /\ signal.style # "guided" => signal.direction["setup"] = signal.side
    /\ signal.style # "state" => signal.direction["execution"] = signal.side
    /\ signal.style = "guided" =>
          IF signal.side = "LONG" THEN Stop("LONG") < signal.entry /\ signal.entry < Target("LONG")
                                  ELSE Target("SHORT") < signal.entry /\ signal.entry < Stop("SHORT")

\* An answer that came late, for a build already over or with candles still open, may be kept, and
\* one asked for in an interval's last instant is kept with that interval's own candle, for earlier
\* decisions too; but no later candle is.  So an aligned signal rests, in every layer, on a candle closed by
\* its decision and no more than MaxIntervals before; its side is the one the configured layers
\* agree on; and a guided candidate's entry lies strictly between its stop and its target
\* (BinanceMTFProvider.build, closed_candles, evaluate_mtf_alignment).
SignalStandsOnClosedCandles == KeptClosed /\ SignalStands
=============================================================================

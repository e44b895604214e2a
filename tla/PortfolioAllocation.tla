--------------------------- MODULE PortfolioAllocation ---------------------------
(***************************************************************************)
(* Who may take how much of the PAPER account.  A scan allocates all its   *)
(* selected candidates at once (allocate_portfolio_candidates), then       *)
(* processes them one after the other: each is sized, cut to its           *)
(* allocation and judged again by evaluate_portfolio_risk, against the     *)
(* positions the runtime remembers and the campaign's persisted history    *)
(* (_paper_portfolio_risk_state).                                          *)
(*                                                                         *)
(* Between the allocation and a fill the clock runs on, the multi-timeframe*)
(* state may turn a candidate's side round, the resolver may close or cut  *)
(* a position, and the process may die with or without its cooldowns.      *)
(* Amounts are whole units of quote currency; gates of _process_symbol     *)
(* other than the account's may refuse any candidate.                      *)
(***************************************************************************)
EXTENDS Integers, Sequences, FiniteSets, SequencesExt

CONSTANTS
    Coins, Majors,   \* symbols, and those of one correlation group
    Requests,        \* notionals a candidate may ask for
    Loss, Gain,      \* what a closed trade may have cost or earned
    MaxOpenPos, MaxConcurrent, MaxTotal, MaxPerSymbol, MaxPerGroup, MaxInGroup,
    Equity0, DailyLossPct, DrawdownPct, Cooldown, SymbolADay, TradesADay,
    SymbolStreak, GlobalStreak, MinNotional,
    MaxSelected,     \* candidates the selector passes on
    TicksPerDay,     \* length of a day
    MaxClock, MaxFilled   \* bounds

ASSUME AllocationAssumption ==
    /\ IsFiniteSet(Coins) /\ Majors \subseteq Coins
    /\ Requests \subseteq Nat \ {0} /\ IsFiniteSet(Requests)
    /\ {MaxOpenPos, MaxConcurrent, MaxTotal, MaxPerSymbol, MaxPerGroup, MaxInGroup,
        Equity0, DailyLossPct, DrawdownPct, Cooldown, SymbolADay, TradesADay, SymbolStreak,
        GlobalStreak, MinNotional, Loss, Gain, MaxSelected, MaxClock, MaxFilled} \subseteq Nat
    /\ TicksPerDay \in Nat \ {0}

VARIABLES
    clock,
    ledger,    \* burnin_pending_position_outcomes, in order of entry
    closings,  \* burnin_trade_outcomes: indices into ledger, in order of closing
    held,      \* _active_positions and _active_position_sides
    cool,      \* _symbol_cooldown_until
    cycle      \* the scan: where it is, whom it still processes, what it decided

allocVars == <<clock, ledger, closings, held, cool, cycle>>

Sides == {"LONG", "SHORT"}
Position(s, side, n) == [sym |-> s, side |-> side, size |-> n]
Nothing == [s \in Coins |-> Position(s, "LONG", 0)]
Idle == [pc |-> "idle", at |-> 0, todo |-> {},
         order |-> Position(CHOOSE s \in Coins : TRUE, "LONG", 0)]

DayOf(t) == t \div TicksPerDay
\* correlation_group_for_symbol
GroupOf(s) == IF s \in Majors THEN "CRYPTO_MAJOR" ELSE "OTHER"
Least(a, b) == IF a <= b THEN a ELSE b
Most(a, b) == IF a >= b THEN a ELSE b

-----------------------------------------------------------------------------
(* The history the campaign's rows tell.                                   *)

IsOpen(row) == row.closed = 0
Entries(Test(_)) == {i \in DOMAIN ledger : Test(ledger[i])}
LastEntry(s) ==
    LET mine == {ledger[i].at : i \in Entries(LAMBDA r : r.sym = s)}
    IN  IF mine = {} THEN 0 ELSE CHOOSE t \in mine : \A u \in mine : u <= t

\* Mutant: the cooldown lives in the runtime's memory only.
CooldownForgotten(s) == 0

\* persisted_cooldown_until: the latest entry of the symbol, whatever became of it.
PersistedCooldown(s) == IF LastEntry(s) = 0 THEN 0 ELSE LastEntry(s) + Cooldown

\* Every accepted row must lie in the past, and every closed one must have a
\* complete outcome that lies in the past too.
Complete(now) ==
    /\ \A i \in DOMAIN ledger : ledger[i].at <= now
    /\ \A i \in DOMAIN ledger :
         ~IsOpen(ledger[i]) => ledger[i].ok /\ ledger[i].closed <= now

\* trades_today_global and trades_today_symbol, by the day of the entry.
TradesToday(s, now) ==
    LET today(r) == DayOf(r.at) = DayOf(now)
    IN  <<Cardinality(Entries(today)),
          Cardinality(Entries(LAMBDA r : today(r) /\ r.sym = s))>>

\* Equity, its peak, the day's profit and the loss streaks, closing by closing.
Streak(n, pnl) == IF pnl < 0 THEN n + 1 ELSE IF pnl > 0 THEN 0 ELSE n
Realized(s, now) ==
    LET after[n \in 0 .. Len(closings)] ==
          IF n = 0
          THEN [equity |-> Equity0, peak |-> Equity0, daily |-> 0, losses |-> 0, symLosses |-> 0]
          ELSE LET h == after[n - 1]
                   row == ledger[closings[n]]
               IN  [equity |-> h.equity + row.pnl, peak |-> Most(h.peak, h.equity + row.pnl),
                    daily |-> h.daily + IF DayOf(row.closed) = DayOf(now) THEN row.pnl ELSE 0,
                    losses |-> Streak(h.losses, row.pnl),
                    symLosses |-> IF row.sym = s THEN Streak(h.symLosses, row.pnl)
                                  ELSE h.symLosses]
    IN  after[Len(closings)]

-----------------------------------------------------------------------------
(* evaluate_portfolio_risk on a snapshot of positions.                     *)

\* snapshot_from_state: what the open positions add up to.  A book is a function
\* whose values are positions; only they matter.
Exposure(book, keys) == SumFunctionOnSet([k \in DOMAIN book |-> book[k].size], keys)
OfSymbol(book, s) == {k \in DOMAIN book : book[k].sym = s}
OfGroup(book, s, side) ==
    {k \in DOMAIN book : GroupOf(book[k].sym) = GroupOf(s) /\ book[k].side = side}

\* Notional that the caps leave for a position (the allocator's capacity).
Room(book, s, side) ==
    Least(MaxTotal - Exposure(book, DOMAIN book),
          Least(MaxPerSymbol - Exposure(book, OfSymbol(book, s)),
                MaxPerGroup - Exposure(book, OfGroup(book, s, side))))

\* Places that the position counts leave.
HasPlace(book, s, side) ==
    /\ Cardinality(DOMAIN book) < MaxOpenPos /\ Cardinality(DOMAIN book) < MaxConcurrent
    /\ Cardinality(OfGroup(book, s, side)) < MaxInGroup

\* The checks that no smaller size passes: evidence, losses, cooldown, pace,
\* streaks.
History(s, now) ==
    LET h == Realized(s, now)
        n == TradesToday(s, now)
        until == Most(cool[s], PersistedCooldown(s))
    IN  /\ Complete(now)
        /\ h.equity > 0
        /\ -h.daily * 100 < DailyLossPct * h.equity
        /\ (h.peak - h.equity) * 100 < DrawdownPct * h.peak
        /\ until <= now
        /\ n[2] < SymbolADay /\ n[1] < TradesADay
        /\ h.symLosses < SymbolStreak /\ h.losses < GlobalStreak

Accepted(book, c, now) ==
    /\ c.size > 0
    /\ HasPlace(book, c.sym, c.side)
    /\ c.size <= Room(book, c.sym, c.side)
    /\ History(c.sym, now)

\* Mutant: the account is judged when it is allocated and not again.
AllocationTrusted(book, c, now) == c.size > 0

\* The gate of _process_symbol, after sizing.
PassesPortfolio(book, c, now) == Accepted(book, c, now)

-----------------------------------------------------------------------------
(* allocate_portfolio_candidates: a greedy pass in order of preference.    *)

\* What one candidate is given on top of the book so far: nothing if a check
\* fails that size cannot mend, else its request cut to the room left, if
\* that passes the whole gate.
Offer(book, c, now) ==
    LET n == Most(0, Least(c.size, Room(book, c.sym, c.side)))
    IN  IF Accepted(book, [c EXCEPT !.size = n], now) THEN n ELSE 0

\* Mutant: offers made earlier in the pass are not counted.
GreedyAgainstBook(book, candidates, now) ==
    [i \in DOMAIN candidates |-> [candidates[i] EXCEPT !.size = Offer(book, candidates[i], now)]]

\* The positions of a book and the offers made so far.
With(book, given) ==
    [k \in ({"held"} \X DOMAIN book) \cup ({"offer"} \X {i \in DOMAIN given : given[i].size > 0}) |->
        IF k[1] = "held" THEN book[k[2]] ELSE given[k[2]]]

Greedy(book, candidates, now) ==
    LET given[n \in 0 .. Len(candidates)] ==
          IF n = 0 THEN << >>
          ELSE LET before == given[n - 1]
                   c == candidates[n]
               IN  Append(before, [c EXCEPT !.size = Offer(With(book, before), c, now)])
    IN  given[Len(candidates)]

\* What the runtime remembers to hold.
Book == [s \in {t \in Coins : held[t].size > 0} |-> held[s]]

-----------------------------------------------------------------------------
(* A scan.                                                                 *)

AllocInit ==
    /\ clock = 1
    /\ ledger = << >> /\ closings = << >>
    /\ held = Nothing
    /\ cool = [s \in Coins |-> 0]
    /\ cycle = Idle

\* _sync_resolved_paper_positions: memory follows the OPEN rows, and a symbol
\* whose position closed loses its cooldown with it.
OpenRow(s) == Entries(LAMBDA r : r.sym = s /\ IsOpen(r))
ScanBegin ==
    /\ cycle.pc = "idle" /\ Len(ledger) < MaxFilled
    /\ held' = [s \in Coins |->
                  IF OpenRow(s) = {} THEN Nothing[s]
                  ELSE LET r == ledger[CHOOSE i \in OpenRow(s) : TRUE]
                       IN  Position(s, r.side, r.left)]
    /\ cool' = [s \in Coins |-> IF held[s].size > 0 /\ OpenRow(s) = {} THEN 0 ELSE cool[s]]
    /\ cycle' = [Idle EXCEPT !.pc = "allocate", !.at = clock]
    /\ UNCHANGED <<clock, ledger, closings>>

\* The selected candidates, in the allocator's order of preference.
Candidates ==
    UNION {{[i \in DOMAIN order |-> Position(order[i], side[order[i]], ask[order[i]])]
            : order \in SetToSeqs(chosen), side \in [chosen -> Sides], ask \in [chosen -> Requests]}
           : chosen \in {set \in SUBSET Coins : Cardinality(set) \in 1 .. MaxSelected}}

\* _allocate_selected_candidates, at the selection's timestamp.  A candidate
\* that was given nothing will be refused; a cycle that cannot be persisted
\* ends the scan.
AllocateJointly ==
    \E wanted \in Candidates :
      LET given == Greedy(Book, wanted, cycle.at)
      IN  cycle' = [cycle EXCEPT
                      !.pc = "process", !.at = 0,
                      !.todo = {[sym |-> wanted[i].sym, asked |-> wanted[i].size,
                                 given |-> given[i].size]
                                : i \in {k \in DOMAIN wanted : given[k].size > 0}}]
Allocate ==
    /\ cycle.pc = "allocate"
    /\ AllocateJointly \/ cycle' = Idle
    /\ UNCHANGED <<clock, ledger, closings, held, cool>>

\* _evaluate_runtime_risk: the account's part of the early gate.
RuntimeRisk(s) ==
    /\ Cardinality({t \in Coins : held[t].size > 0}) < MaxConcurrent
    /\ clock >= cool[s]
    /\ held[s].size = 0

\* risk_based_candidate_exposure: the risk budget's notional (already cut by
\* drawdown, volatility and stop distance), cut to every cap; 0 rejects.
RiskBasedSize(raw, s, side) ==
    LET h == Realized(s, clock)
        n == Least(raw, Least(Room(Book, s, side), h.equity))
    IN  IF ~Complete(clock) \/ (h.peak - h.equity) * 100 >= DrawdownPct * h.peak \/ n < MinNotional
        THEN 0 ELSE n

\* scale_candidate_exposure: a stop that was too wide and was let through at
\* half the risk (rounded up to a whole unit).
Scaled(n, softened) == IF softened THEN (n + 1) \div 2 ELSE n

\* _process_symbol: the multi-timeframe state fixes the side (it may mirror
\* the candidate's geometry), the size is the request or risk-based
\* (paper_position_sizing_mode, which may change with a restart), scaled and
\* cut to the allocation, and the account judges the candidate again.
Decide(c) ==
    /\ cycle.pc = "process" /\ c \in cycle.todo
    /\ RuntimeRisk(c.sym)
    /\ \E side \in Sides, softened \in BOOLEAN :
       \E chosen \in {c.asked} \cup {RiskBasedSize(raw, c.sym, side) : raw \in Requests} :
         LET order == Position(c.sym, side, Least(Scaled(chosen, softened), c.given))
         IN  /\ chosen > 0
             /\ PassesPortfolio(Book, order, clock)
             /\ cycle' = [cycle EXCEPT !.pc = "submit", !.order = order, !.todo = @ \ {c}]
    /\ UNCHANGED <<clock, ledger, closings, held, cool>>

\* _execute: the final checks may still cancel, and the row may not be written.
Cancel ==
    /\ cycle.pc = "submit"
    /\ cycle' = [cycle EXCEPT !.pc = "process", !.order = Idle.order]
    /\ UNCHANGED <<clock, ledger, closings, held, cool>>

\* _persist_pending_paper_position
PersistPosition ==
    /\ cycle.pc = "submit" /\ Len(ledger) < MaxFilled
    /\ ledger' = Append(ledger, [sym |-> cycle.order.sym, side |-> cycle.order.side,
                                 left |-> cycle.order.size, at |-> clock,
                                 closed |-> 0, pnl |-> 0, ok |-> FALSE])
    /\ cycle' = [cycle EXCEPT !.pc = "opened"]
    /\ UNCHANGED <<clock, closings, held, cool>>

\* _execute, after its last await: the position is remembered.
RememberPosition ==
    /\ cycle.pc = "opened"
    /\ held' = [held EXCEPT ![cycle.order.sym] = cycle.order]
    /\ cool' = [cool EXCEPT ![cycle.order.sym] = clock + Cooldown]
    /\ cycle' = [cycle EXCEPT !.pc = "process", !.order = Idle.order]
    /\ UNCHANGED <<clock, ledger, closings>>

\* The scan is over: this or another gate refused the candidates still there.
ScanEnd ==
    /\ cycle.pc = "process"
    /\ cycle' = Idle
    /\ UNCHANGED <<clock, ledger, closings, held, cool>>

-----------------------------------------------------------------------------
(* What happens meanwhile.                                                 *)

\* The resolver closes a position; an outcome that lacks evidence (profit 0
\* here) makes the whole history incomplete.
Resolve(i) ==
    /\ IsOpen(ledger[i])
    /\ \E pnl \in {-Loss, 0, Gain} :
         ledger' = [ledger EXCEPT ![i].closed = clock, ![i].left = 0,
                                  ![i].pnl = pnl, ![i].ok = pnl # 0]
    /\ closings' = Append(closings, i)
    /\ UNCHANGED <<clock, held, cool, cycle>>

Tick ==
    /\ clock < MaxClock
    /\ clock' = clock + 1
    /\ UNCHANGED <<ledger, closings, held, cool, cycle>>

\* The process dies; cooldowns come back if the runtime's state was saved.
Restart ==
    /\ held' = Nothing
    /\ cool' = cool \/ cool' = [s \in Coins |-> 0]
    /\ cycle' = Idle
    /\ UNCHANGED <<clock, ledger, closings>>

AllocNext ==
    \/ ScanBegin \/ Allocate \/ Cancel \/ PersistPosition \/ RememberPosition \/ ScanEnd
    \/ \E c \in cycle.todo : Decide(c)
    \/ \E i \in DOMAIN ledger : Resolve(i)
    \/ Tick \/ Restart

AllocSpec == AllocInit /\ [][AllocNext]_allocVars

-----------------------------------------------------------------------------
(* Correctness.                                                            *)

OpenPositions ==
    [i \in {j \in DOMAIN ledger : IsOpen(ledger[j])} |->
        Position(ledger[i].sym, ledger[i].side, ledger[i].left)]

\* The open positions of a book are within every cap of the configuration.
WithinCaps(book) ==
    /\ Cardinality(DOMAIN book) <= MaxOpenPos /\ Cardinality(DOMAIN book) <= MaxConcurrent
    /\ Exposure(book, DOMAIN book) <= MaxTotal
    /\ \A s \in Coins : Exposure(book, OfSymbol(book, s)) <= MaxPerSymbol
    /\ \A s \in Coins, side \in Sides :
         /\ Exposure(book, OfGroup(book, s, side)) <= MaxPerGroup
         /\ Cardinality(OfGroup(book, s, side)) <= MaxInGroup

\* No day has more entries than its limits, in all and for a symbol, and two
\* entries of a symbol are a cooldown apart, across position closures (which
\* drop the cooldown in memory) and restarts (_paper_portfolio_risk_state).
PaceHolds ==
    \A i \in DOMAIN ledger :
      LET day(r) == DayOf(r.at) = DayOf(ledger[i].at)
      IN  /\ Cardinality(Entries(day)) <= TradesADay
          /\ Cardinality(Entries(LAMBDA r : day(r) /\ r.sym = ledger[i].sym)) <= SymbolADay
          /\ \A j \in 1 .. i - 1 :
               ledger[j].sym = ledger[i].sym => ledger[i].at >= ledger[j].at + Cooldown

OffersFit(book, wanted, given) ==
    LET taken == With(book, given)
    IN  /\ (\E i \in DOMAIN given : given[i].size > 0) => WithinCaps(taken)
        /\ \A i \in DOMAIN wanted :
             given[i].size < wanted[i].size =>
               \/ ~HasPlace(taken, wanted[i].sym, wanted[i].side)
               \/ Room(taken, wanted[i].sym, wanted[i].side) <= 0
               \/ ~History(wanted[i].sym, cycle.at)

\* Whatever the allocator promised, whichever way a candidate turned after it
\* and whatever a restart forgot, the campaign's open positions never exceed
\* a count or exposure cap (evaluate_portfolio_risk in _process_symbol).  And the
\* offers of one allocation can all be taken together with the positions held,
\* while a candidate that gets less than it asked for meets a full cap or count,
\* or a history no size can mend (allocate_portfolio_candidates).
CapsHold ==
    /\ WithinCaps(OpenPositions)
    /\ cycle.pc = "allocate" =>
         \A wanted \in Candidates : OffersFit(Book, wanted, Greedy(Book, wanted, cycle.at))
=============================================================================

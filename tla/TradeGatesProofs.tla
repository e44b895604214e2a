------------------------- MODULE TradeGatesProofs -------------------------
EXTENDS PortfolioAllocation, UniverseSelection, OrderDecision, SumLemmas,
        FiniteSetTheorems, SequenceTheorems, WellFoundedInduction, TLAPS

-----------------------------------------------------------------------------
(* The pace of entries.                                                     *)

\* Days follow one another.
LEMMA DaysAreOrdered ==
    ASSUME NEW a \in Nat, NEW b \in Nat, a <= b, AllocationAssumption
    PROVE  DayOf(a) \in Int /\ DayOf(a) <= DayOf(b)
<1> DEFINE k == TicksPerDay
<1>1. k \in Nat \ {0}
    BY DEF AllocationAssumption
<1>2. \A t \in Nat : /\ t \div k \in Int /\ t % k \in 0 .. k - 1
                     /\ t = k * (t \div k) + (t % k)
    BY <1>1
<1> DEFINE q == a \div k
           r == b \div k
<1>3. q \in Int /\ r \in Int /\ k * q <= a /\ b < k * r + k
    BY <1>1, <1>2
<1> HIDE DEF q, r, k
<1>4. k * q < k * r + k
    BY <1>1, <1>3
<1>5. ASSUME r < q PROVE FALSE
  <2>1. PICK d \in Nat : q = r + 1 + d
      BY <1>3, <1>5
  <2>2. k * q = k * r + k + k * d
      BY <1>1, <1>3, <2>1
  <2>3. k * d \in Nat
      BY <1>1, <2>1
  <2> QED BY <1>1, <1>3, <1>4, <2>2, <2>3
<1> QED BY <1>3, <1>5 DEF DayOf, q, r, k

\* The entries of a day, and those of a symbol among them.
DayRows(d) == {j \in DOMAIN ledger : DayOf(ledger[j].at) = d}
SymbolRows(d, s) == {j \in DOMAIN ledger : DayOf(ledger[j].at) = d /\ ledger[j].sym = s}

\* PaceHolds in these terms.
Paced ==
    \A i \in DOMAIN ledger :
        /\ Cardinality(DayRows(DayOf(ledger[i].at))) <= TradesADay
        /\ Cardinality(SymbolRows(DayOf(ledger[i].at), ledger[i].sym)) <= SymbolADay
        /\ \A j \in 1 .. i - 1 :
             ledger[j].sym = ledger[i].sym => ledger[i].at >= ledger[j].at + Cooldown

\* What a decision has found, and time does not undo: an entry of the symbol
\* now is one of a day with room, a cooldown after the others.
MayEnter(s) ==
    /\ Cardinality(DayRows(DayOf(clock))) < TradesADay
    /\ Cardinality(SymbolRows(DayOf(clock), s)) < SymbolADay
    /\ \A j \in DOMAIN ledger : ledger[j].sym = s => ledger[j].at + Cooldown <= clock

LedgerRow(T) == [sym : T, side : T, left : T, at : Nat \ {0}, closed : T, pnl : T, ok : T]

PaceShape ==
    /\ clock \in Nat \ {0}
    /\ \E T : ledger \in Seq(LedgerRow(T))
    /\ cool \in [Coins -> Nat]
    /\ DOMAIN cycle = {"pc", "at", "todo", "order"}
    /\ \A c \in cycle.todo : c.sym \in Coins
    /\ cycle.pc \in {"submit", "opened"} => cycle.order.sym \in Coins

PaceInv ==
    /\ PaceShape
    /\ \A i \in DOMAIN ledger : ledger[i].at <= clock
    /\ cycle.pc = "submit" => MayEnter(cycle.order.sym)
    /\ Paced

LEMMA PaceRestated == Paced => PaceHolds
    BY DEF Paced, PaceHolds, Entries, DayRows, SymbolRows

\* Rows are numbered, and there are finitely many of them.
LEMMA RowsAreNumbered ==
    ASSUME PaceShape
    PROVE  /\ Len(ledger) \in Nat /\ DOMAIN ledger = 1 .. Len(ledger)
           /\ IsFiniteSet(DOMAIN ledger)
           /\ \A i \in DOMAIN ledger : ledger[i].at \in Nat \ {0}
           /\ \A d : IsFiniteSet(DayRows(d)) /\ Cardinality(DayRows(d)) \in Nat
           /\ \A d, s : IsFiniteSet(SymbolRows(d, s)) /\ Cardinality(SymbolRows(d, s)) \in Nat
<1>1. PICK T : ledger \in Seq(LedgerRow(T))
    BY DEF PaceShape
<1>2. Len(ledger) \in Nat /\ DOMAIN ledger = 1 .. Len(ledger)
    BY <1>1
<1>3. IsFiniteSet(DOMAIN ledger)
    BY <1>2, UpTo
<1>4. \A i \in DOMAIN ledger : ledger[i] \in LedgerRow(T)
    BY <1>1
<1>5. \A i \in DOMAIN ledger : ledger[i].at \in Nat \ {0}
    BY <1>4 DEF LedgerRow
<1>6. \A d : IsFiniteSet(DayRows(d)) /\ Cardinality(DayRows(d)) \in Nat
  <2>1. \A d : DayRows(d) \subseteq DOMAIN ledger
      BY DEF DayRows
  <2> QED BY <1>3, <2>1, FS_Subset, FS_CardinalityType
<1>7. \A d, s : IsFiniteSet(SymbolRows(d, s)) /\ Cardinality(SymbolRows(d, s)) \in Nat
  <2>1. \A d, s : SymbolRows(d, s) \subseteq DOMAIN ledger
      BY DEF SymbolRows
  <2> QED BY <1>3, <2>1, FS_Subset, FS_CardinalityType
<1> QED BY <1>2, <1>3, <1>5, <1>6, <1>7

\* A history that passes shows a day with room and a cooldown that is over.
LEMMA HistoryAdmits ==
    ASSUME AllocationAssumption, PaceInv, NEW s \in Coins, History(s, clock)
    PROVE  MayEnter(s)
<1>0. /\ PaceShape /\ clock \in Nat /\ cool[s] \in Nat /\ Cooldown \in Nat
      /\ \A i \in DOMAIN ledger : ledger[i].at \in Nat \ {0} /\ ledger[i].at <= clock
    BY RowsAreNumbered DEF PaceInv, PaceShape, AllocationAssumption
<1>1. /\ Cardinality(DayRows(DayOf(clock))) < TradesADay
      /\ Cardinality(SymbolRows(DayOf(clock), s)) < SymbolADay
    BY DEF History, TradesToday, Entries, DayRows, SymbolRows
<1>2. Most(cool[s], PersistedCooldown(s)) <= clock
    BY DEF History
<1>3. ASSUME NEW j \in DOMAIN ledger, ledger[j].sym = s
      PROVE  ledger[j].at + Cooldown <= clock
  <2> DEFINE mine == {ledger[i].at : i \in {k \in DOMAIN ledger : ledger[k].sym = s}}
             ago == {clock - t : t \in mine}
             Less == {ss \in Nat \X Nat : ss[1] < ss[2]}
  <2>1. ledger[j].at \in mine /\ mine \subseteq Nat \ {0} /\ \A t \in mine : t <= clock
      BY <1>0, <1>3
  <2>2. ago \subseteq Nat /\ ago # {}
    <3> HIDE DEF mine
    <3> QED BY <1>0, <2>1
  <2>3. PICK x \in ago : \A y \in ago : ~ (<<y, x>> \in Less)
    <3>1. IsWellFoundedOn(Less, Nat)
        BY NatLessThanWellFounded, Zenon DEF OpToRel
    <3> HIDE DEF ago, Less
    <3> QED BY <2>2, <3>1, WFMin, Zenon
  <2>4. PICK t \in mine : x = clock - t
      OBVIOUS
  <2>5. ASSUME NEW u \in mine PROVE u <= t
    <3>1. clock - u \in ago
        OBVIOUS
    <3>2. clock - u \in Nat /\ x \in Nat /\ ~ (clock - u < x)
        BY <2>2, <2>3, <3>1
    <3> HIDE DEF mine, ago
    <3> QED BY <1>0, <2>1, <2>4, <3>2
  <2>6. LastEntry(s) = CHOOSE z \in mine : \A u \in mine : u <= z
    <3>1. LastEntry(s) = IF mine = {} THEN 0 ELSE CHOOSE z \in mine : \A u \in mine : u <= z
        BY DEF LastEntry, Entries
    <3> HIDE DEF mine
    <3> QED BY <2>1, <3>1
  <2>7. LastEntry(s) \in mine /\ \A u \in mine : u <= LastEntry(s)
    <3> HIDE DEF mine
    <3> QED BY <2>5, <2>6
  <2>8. LastEntry(s) \in Nat \ {0} /\ ledger[j].at <= LastEntry(s)
    <3> HIDE DEF mine
    <3> QED BY <2>1, <2>7
  <2>9. PersistedCooldown(s) = LastEntry(s) + Cooldown
      BY <2>8 DEF PersistedCooldown
  <2>10. LastEntry(s) + Cooldown <= clock
      BY <1>0, <1>2, <2>8, <2>9 DEF Most
  <2> QED BY <1>0, <1>3, <2>8, <2>10
<1> QED BY <1>1, <1>3 DEF MayEnter

\* What leaves the entries where and when they are keeps the pace.
LEMMA SameEntries ==
    ASSUME PaceInv, PaceShape', clock' = clock, DOMAIN ledger' = DOMAIN ledger,
           \A i \in DOMAIN ledger : ledger'[i].at = ledger[i].at /\ ledger'[i].sym = ledger[i].sym,
           cycle'.pc = "submit" => MayEnter(cycle'.order.sym)
    PROVE  PaceInv'
<1>1. /\ \A d : DayRows(d)' = DayRows(d)
      /\ \A d, s : SymbolRows(d, s)' = SymbolRows(d, s)
    BY DEF DayRows, SymbolRows
<1>2. \A s : MayEnter(s)' <=> MayEnter(s)
    BY <1>1 DEF MayEnter
<1>3. Paced'
  <2>1. /\ Paced /\ DOMAIN ledger = 1 .. Len(ledger) /\ Len(ledger) \in Nat
      BY RowsAreNumbered DEF PaceInv
  <2>2. ASSUME NEW i \in DOMAIN ledger
        PROVE  /\ Cardinality(DayRows(DayOf(ledger[i].at))') <= TradesADay
               /\ Cardinality(SymbolRows(DayOf(ledger[i].at), ledger[i].sym)') <= SymbolADay
               /\ \A j \in 1 .. i - 1 :
                    ledger'[j].sym = ledger'[i].sym => ledger'[i].at >= ledger'[j].at + Cooldown
    <3>1. \A j \in 1 .. i - 1 : j \in DOMAIN ledger
        BY <2>1, <2>2
    <3>2. ledger'[i].at = ledger[i].at /\ ledger'[i].sym = ledger[i].sym
        BY <2>2
    <3>3. /\ DayRows(DayOf(ledger[i].at))' = DayRows(DayOf(ledger[i].at))
          /\ SymbolRows(DayOf(ledger[i].at), ledger[i].sym)'
             = SymbolRows(DayOf(ledger[i].at), ledger[i].sym)
        BY <1>1, <3>2
    <3> QED BY <2>1, <2>2, <3>1, <3>2, <3>3 DEF Paced
  <2> QED BY <2>2 DEF Paced, DayRows, SymbolRows
<1>4. \A i \in DOMAIN ledger' : ledger'[i].at <= clock'
    BY DEF PaceInv
<1> QED BY <1>2, <1>3, <1>4 DEF PaceInv

\* Entries may hold more kinds of values than they do.
LEMMA EntriesWiden ==
    ASSUME NEW S, NEW T, S \subseteq T, NEW q \in Seq(LedgerRow(S))
    PROVE  q \in Seq(LedgerRow(T))
<1>1. LedgerRow(S) \subseteq LedgerRow(T)
    BY DEF LedgerRow
<1> HIDE DEF LedgerRow
<1> QED BY <1>1

\* The steps of a scan that neither enter a position nor decide on one.
LEMMA QuietStepsKeepPace ==
    ASSUME AllocationAssumption, PaceInv,
           ScanBegin \/ Allocate \/ Cancel \/ RememberPosition \/ ScanEnd \/ Restart
    PROVE  PaceInv'
<1>1. UNCHANGED <<clock, ledger>> /\ PaceShape
    BY DEF PaceInv, ScanBegin, Allocate, Cancel, RememberPosition, ScanEnd, Restart
<1>2. /\ DOMAIN cycle' = {"pc", "at", "todo", "order"}
      /\ cycle'.pc \notin {"submit", "opened"}
  <2>1. CASE Allocate /\ AllocateJointly
    <3>1. PICK t : cycle' = [cycle EXCEPT !.pc = "process", !.at = 0, !.todo = t]
        BY <2>1 DEF AllocateJointly
    <3> QED BY <1>1, <3>1 DEF PaceShape
  <2>2. CASE ScanBegin
      BY <2>2 DEF ScanBegin, Idle
  <2>3. CASE cycle' = Idle
      BY <2>3 DEF Idle
  <2>4. CASE Cancel
      BY <1>1, <2>4 DEF Cancel, PaceShape
  <2>5. CASE RememberPosition
      BY <1>1, <2>5 DEF RememberPosition, PaceShape
  <2> QED BY <2>1, <2>2, <2>3, <2>4, <2>5 DEF Allocate, ScanEnd, Restart
<1>3. cool' \in [Coins -> Nat]
  <2>1. cool \in [Coins -> Nat] /\ clock \in Nat /\ Cooldown \in Nat
      BY <1>1 DEF PaceShape, AllocationAssumption
  <2>2. CASE ScanBegin
      BY <2>1, <2>2 DEF ScanBegin
  <2>3. CASE RememberPosition
    <3>1. clock + Cooldown \in Nat
        BY <2>1
    <3> QED BY <2>1, <2>3, <3>1 DEF RememberPosition
  <2>4. CASE Restart
      BY <2>1, <2>4 DEF Restart
  <2>5. CASE Allocate \/ Cancel \/ ScanEnd
      BY <2>1, <2>5 DEF Allocate, Cancel, ScanEnd
  <2> QED BY <2>2, <2>3, <2>4, <2>5
<1>4. \A c \in cycle'.todo : c.sym \in Coins
  <2>1. CASE Allocate /\ AllocateJointly
    <3>1. PICK wanted \in Candidates :
            \A c \in cycle'.todo : \E k \in DOMAIN wanted : c.sym = wanted[k].sym
      <4> DEFINE Granted(wanted) == Greedy(Book, wanted, cycle.at)
                 Todo(wanted) == {[sym |-> wanted[k].sym, asked |-> wanted[k].size,
                                   given |-> Granted(wanted)[k].size]
                                  : k \in {n \in DOMAIN wanted : Granted(wanted)[n].size > 0}}
      <4>1. PICK wanted \in Candidates :
              cycle' = [cycle EXCEPT !.pc = "process", !.at = 0, !.todo = Todo(wanted)]
          BY <2>1, Zenon DEF AllocateJointly
      <4> HIDE DEF Todo, Granted
      <4>2. cycle'.todo = Todo(wanted)
          BY <1>1, <4>1 DEF PaceShape
      <4> USE DEF Todo
      <4>3. \A c \in cycle'.todo : \E k \in DOMAIN wanted : c.sym = wanted[k].sym
          BY <4>2
      <4> QED BY <4>3
    <3>2. \A k \in DOMAIN wanted : wanted[k].sym \in Coins
      <4>1. PICK chosen \in SUBSET Coins :
              \E order \in SetToSeqs(chosen), side \in [chosen -> Sides], ask \in [chosen -> Requests] :
                wanted = [k \in DOMAIN order |-> Position(order[k], side[order[k]], ask[order[k]])]
          BY <3>1 DEF Candidates
      <4>2. PICK order \in SetToSeqs(chosen) :
              /\ DOMAIN wanted = DOMAIN order
              /\ \A k \in DOMAIN order : wanted[k].sym = order[k]
          BY <4>1 DEF Position
      <4>3. \A k \in DOMAIN order : order[k] \in chosen
          BY <4>2 DEF SetToSeqs
      <4> QED BY <4>1, <4>2, <4>3
    <3> QED BY <3>1, <3>2
  <2>2. CASE ScanBegin \/ cycle' = Idle
    <3>1. ScanBegin => cycle'.todo = {}
        BY DEF ScanBegin, Idle
    <3>2. cycle' = Idle => cycle'.todo = {}
        BY DEF Idle
    <3> QED BY <2>2, <3>1, <3>2
  <2>3. CASE Cancel \/ RememberPosition
      BY <1>1, <2>3 DEF PaceShape, Cancel, RememberPosition
  <2> QED BY <2>1, <2>2, <2>3 DEF Allocate, ScanEnd, Restart
<1>5. PaceShape'
    BY <1>1, <1>2, <1>3, <1>4 DEF PaceShape
<1> QED BY <1>1, <1>2, <1>5, SameEntries

\* A decision has read the history of its symbol.
LEMMA DecisionsKeepPace ==
    ASSUME AllocationAssumption, PaceInv, NEW c \in cycle.todo, Decide(c)
    PROVE  PaceInv'
<1>1. PaceShape /\ c.sym \in Coins /\ UNCHANGED <<clock, ledger, cool>>
    BY DEF PaceInv, PaceShape, Decide
<1>2. PICK order : /\ order.sym = c.sym /\ PassesPortfolio(Book, order, clock)
                   /\ cycle' = [cycle EXCEPT !.pc = "submit", !.order = order, !.todo = @ \ {c}]
    BY DEF Decide, Position
<1>3. cycle'.order.sym = c.sym /\ cycle'.pc = "submit" /\ cycle'.todo \subseteq cycle.todo
      /\ DOMAIN cycle' = DOMAIN cycle
    BY <1>1, <1>2 DEF PaceShape
<1>4. PaceShape'
    BY <1>1, <1>3 DEF PaceShape
<1>5. MayEnter(cycle'.order.sym)
    BY <1>1, <1>2, <1>3, HistoryAdmits DEF PassesPortfolio, Accepted
<1> QED BY <1>1, <1>4, <1>5, SameEntries

\* A closing leaves the entry it closes where it is.
LEMMA ClosingsKeepPace ==
    ASSUME AllocationAssumption, PaceInv, NEW i \in DOMAIN ledger, Resolve(i)
    PROVE  PaceInv'
<1>1. PaceShape /\ UNCHANGED <<clock, cool, cycle>>
    BY DEF PaceInv, Resolve
<1>2. PICK T : ledger \in Seq(LedgerRow(T))
    BY <1>1 DEF PaceShape
<1>3. PICK pnl : ledger' = [ledger EXCEPT ![i].closed = clock, ![i].left = 0,
                                          ![i].pnl = pnl, ![i].ok = pnl # 0]
    BY DEF Resolve
<1>4. PICK T2 : /\ ledger \in Seq(LedgerRow(T2))
                /\ clock \in T2 /\ 0 \in T2 /\ pnl \in T2 /\ (pnl # 0) \in T2
  <2> DEFINE U == T \cup {clock, 0, pnl, pnl # 0}
  <2>1. T \subseteq U /\ clock \in U /\ 0 \in U /\ pnl \in U /\ (pnl # 0) \in U
      OBVIOUS
  <2> HIDE DEF U
  <2>2. ledger \in Seq(LedgerRow(U))
      BY <1>2, <2>1, EntriesWiden
  <2> QED BY <2>1, <2>2
<1>5. DOMAIN ledger = 1 .. Len(ledger) /\ Len(ledger) \in Nat
    BY <1>4
<1>6. \A k \in DOMAIN ledger : ledger[k] \in LedgerRow(T2)
    BY <1>4, <1>5, ElementOfSeq
<1>7. ledger' = [ledger EXCEPT ![i] =
                   [sym |-> ledger[i].sym, side |-> ledger[i].side, left |-> 0, at |-> ledger[i].at,
                    closed |-> clock, pnl |-> pnl, ok |-> pnl # 0]]
  <2> DEFINE r1 == [ledger[i] EXCEPT !.closed = clock]
             r2 == [r1 EXCEPT !.left = 0]
             r3 == [r2 EXCEPT !.pnl = pnl]
             r4 == [r3 EXCEPT !.ok = pnl # 0]
             l1 == [ledger EXCEPT ![i] = r1]
             l2 == [l1 EXCEPT ![i] = r2]
             l3 == [l2 EXCEPT ![i] = r3]
  <2> HIDE DEF r1, r2, r3, r4
  <2>1. r4 = [sym |-> ledger[i].sym, side |-> ledger[i].side, left |-> 0, at |-> ledger[i].at,
              closed |-> clock, pnl |-> pnl, ok |-> pnl # 0]
    <3>1. PICK a, b, c, d, e, f, g : ledger[i] = [sym |-> a, side |-> b, left |-> c, at |-> d,
                                                  closed |-> e, pnl |-> f, ok |-> g]
        BY <1>6 DEF LedgerRow
    <3>2. r1 = [sym |-> a, side |-> b, left |-> c, at |-> d, closed |-> clock, pnl |-> f, ok |-> g]
        BY <3>1 DEF r1
    <3>3. r2 = [sym |-> a, side |-> b, left |-> 0, at |-> d, closed |-> clock, pnl |-> f, ok |-> g]
        BY <3>2 DEF r2
    <3>4. r3 = [sym |-> a, side |-> b, left |-> 0, at |-> d, closed |-> clock, pnl |-> pnl, ok |-> g]
        BY <3>3 DEF r3
    <3> QED BY <3>1, <3>4 DEF r4
  <2>2. /\ l1[i] = r1 /\ l1 = [ledger EXCEPT ![i].closed = clock]
      BY DEF r1
  <2> HIDE DEF l1
  <2>3. /\ l2[i] = r2 /\ l2 = [l1 EXCEPT ![i].left = 0]
      BY <2>2 DEF r2, l1
  <2> HIDE DEF l2
  <2>4. /\ l3[i] = r3 /\ l3 = [l2 EXCEPT ![i].pnl = pnl]
      BY <2>3 DEF r3, l2, l1
  <2> HIDE DEF l3
  <2>5. ledger' = [l3 EXCEPT ![i].ok = pnl # 0]
      BY <1>3, <2>2, <2>3, <2>4
  <2>6. ledger' = [l3 EXCEPT ![i] = r4]
      BY <2>4, <2>5 DEF r4
  <2>7. ledger' = [ledger EXCEPT ![i] = r4]
      BY <2>6 DEF l1, l2, l3
  <2> QED BY <2>1, <2>7
<1>8. /\ DOMAIN ledger' = DOMAIN ledger
      /\ \A k \in DOMAIN ledger : k # i => ledger'[k] = ledger[k]
      /\ ledger'[i] \in LedgerRow(T2) /\ ledger'[i].at = ledger[i].at /\ ledger'[i].sym = ledger[i].sym
    BY <1>4, <1>6, <1>7 DEF LedgerRow
<1>9. ledger' \in Seq(LedgerRow(T2))
    BY <1>4, <1>5, <1>7, <1>8, ExceptSeq
<1>10. PaceShape'
    BY <1>1, <1>9 DEF PaceShape
<1>11. \A k \in DOMAIN ledger : ledger'[k].at = ledger[k].at /\ ledger'[k].sym = ledger[k].sym
    BY <1>8
<1>12. cycle'.pc = "submit" => MayEnter(cycle'.order.sym)
    BY <1>1 DEF PaceInv
<1> QED BY <1>1, <1>8, <1>10, <1>11, <1>12, SameEntries

\* A set that gains at most one element.
LEMMA OneMore ==
    ASSUME NEW A, NEW B, NEW x, IsFiniteSet(B), A \subseteq B \cup {x}
    PROVE  Cardinality(A) \in Nat /\ Cardinality(A) <= Cardinality(B) + 1
<1>1. /\ IsFiniteSet(B \cup {x}) /\ Cardinality(B) \in Nat
      /\ Cardinality(B \cup {x}) <= Cardinality(B) + 1
    BY FS_AddElement, FS_CardinalityType
<1>2. Cardinality(A) <= Cardinality(B \cup {x}) /\ IsFiniteSet(A)
    BY <1>1, FS_Subset
<1>3. Cardinality(A) \in Nat /\ Cardinality(B \cup {x}) \in Nat
    BY <1>1, <1>2, FS_CardinalityType
<1> QED BY <1>1, <1>2, <1>3

\* The entry is one the history of its symbol had room for, and the last.
LEMMA EntriesKeepPace ==
    ASSUME AllocationAssumption, PaceInv, PersistPosition
    PROVE  PaceInv'
<1> DEFINE row == [sym |-> cycle.order.sym, side |-> cycle.order.side, left |-> cycle.order.size,
                   at |-> clock, closed |-> 0, pnl |-> 0, ok |-> FALSE]
<1>a. PICK n : n = Len(ledger)
    OBVIOUS
<1>b. PICK s : s = cycle.order.sym
    OBVIOUS
<1>c. clock' = clock /\ cool' = cool /\ clock \in Nat \ {0} /\ clock <= clock
    BY DEF PaceInv, PaceShape, PersistPosition
<1>d. \A i \in DOMAIN ledger : ledger[i].at <= clock
    BY DEF PaceInv
<1>1. /\ PaceShape /\ Paced /\ MayEnter(s) /\ s \in Coins
      /\ ledger' = Append(ledger, row)
      /\ DOMAIN cycle' = DOMAIN cycle /\ cycle'.pc = "opened"
      /\ cycle'.todo = cycle.todo /\ cycle'.order = cycle.order
    BY <1>b DEF PaceInv, PaceShape, PersistPosition
<1>2. PICK S : ledger \in Seq(LedgerRow(S))
    BY <1>1 DEF PaceShape
<1>3. PICK T : ledger \in Seq(LedgerRow(T)) /\ row \in LedgerRow(T)
  <2> DEFINE U == S \cup {cycle.order.sym, cycle.order.side, cycle.order.size, 0, FALSE}
  <2>1. S \subseteq U
      OBVIOUS
  <2>2. row \in LedgerRow(U)
      BY <1>c DEF LedgerRow
  <2> HIDE DEF U, row
  <2>3. ledger \in Seq(LedgerRow(U))
      BY <1>2, <2>1, EntriesWiden
  <2> QED BY <2>2, <2>3
<1>4. row.at = clock /\ row.sym = s
    BY <1>b
<1> HIDE DEF row
<1>5. /\ n \in Nat /\ DOMAIN ledger = 1 .. n
      /\ \A i \in DOMAIN ledger : ledger[i].at \in Nat
      /\ \A d : IsFiniteSet(DayRows(d)) /\ Cardinality(DayRows(d)) \in Nat
      /\ \A d, c : IsFiniteSet(SymbolRows(d, c)) /\ Cardinality(SymbolRows(d, c)) \in Nat
    BY <1>a, <1>1, RowsAreNumbered
<1>6. /\ ledger' \in Seq(LedgerRow(T)) /\ Len(ledger') = n + 1 /\ ledger'[n + 1] = row
      /\ \A i \in 1 .. n : ledger'[i] = ledger[i]
    BY <1>a, <1>1, <1>3, <1>5, AppendProperties
<1>7. PaceShape'
  <2>1. \E U : ledger' \in Seq(LedgerRow(U))
      BY <1>6
  <2> QED BY <1>b, <1>c, <1>1, <2>1 DEF PaceShape
<1>8. DOMAIN ledger' = DOMAIN ledger \cup {n + 1} /\ n + 1 \notin DOMAIN ledger
  <2>1. DOMAIN ledger' = 1 .. n + 1
      BY <1>6
  <2>2. n \in Nat
      BY <1>5
  <2>3. 1 .. n + 1 = (1 .. n) \cup {n + 1} /\ n + 1 \notin 1 .. n
      BY <2>2
  <2> QED BY <1>5, <2>1, <2>3
<1>9. /\ \A i \in DOMAIN ledger : ledger'[i] = ledger[i]
      /\ ledger'[n + 1].at = clock /\ ledger'[n + 1].sym = s
    BY <1>4, <1>5, <1>6
<1>10. \A i \in DOMAIN ledger' : ledger'[i].at <= clock'
  <2>1. \A i \in DOMAIN ledger : ledger'[i].at <= clock
      BY <1>d, <1>9
  <2> QED BY <1>c, <1>8, <1>9, <2>1
<1>11. \A d : /\ DayRows(d)' \subseteq DayRows(d) \cup {n + 1}
              /\ d # DayOf(clock) => DayRows(d)' = DayRows(d)
    BY <1>8, <1>9 DEF DayRows
<1>12. \A d, c : /\ SymbolRows(d, c)' \subseteq SymbolRows(d, c) \cup {n + 1}
                 /\ d # DayOf(clock) \/ c # s => SymbolRows(d, c)' = SymbolRows(d, c)
    BY <1>8, <1>9 DEF SymbolRows
<1>13. TradesADay \in Nat /\ SymbolADay \in Nat /\ Cooldown \in Nat
    BY DEF AllocationAssumption
<1>14. PICK today : today = DayOf(clock)
    OBVIOUS
<1>15. /\ Cardinality(DayRows(today)') <= TradesADay
       /\ Cardinality(SymbolRows(today, s)') <= SymbolADay
  <2>1. /\ Cardinality(DayRows(today)) < TradesADay
        /\ Cardinality(SymbolRows(today, s)) < SymbolADay
      BY <1>1, <1>14 DEF MayEnter
  <2> DEFINE D == DayRows(today)
             D2 == DayRows(today)'
             E == SymbolRows(today, s)
             E2 == SymbolRows(today, s)'
  <2>2. /\ D2 \subseteq D \cup {n + 1} /\ E2 \subseteq E \cup {n + 1}
        /\ IsFiniteSet(D) /\ IsFiniteSet(E) /\ Cardinality(D) \in Nat /\ Cardinality(E) \in Nat
        /\ Cardinality(D) < TradesADay /\ Cardinality(E) < SymbolADay
      BY <1>5, <1>11, <1>12, <2>1
  <2> HIDE DEF D, D2, E, E2
  <2>3. Cardinality(D2) \in Nat /\ Cardinality(D2) <= Cardinality(D) + 1
      BY <2>2, OneMore
  <2>4. Cardinality(E2) \in Nat /\ Cardinality(E2) <= Cardinality(E) + 1
      BY <2>2, OneMore
  <2> QED BY <1>13, <2>2, <2>3, <2>4 DEF D2, E2
<1>16. Paced'
  <2>1. ASSUME NEW i \in DOMAIN ledger', NEW d, d = DayOf(ledger'[i].at),
               NEW c, c = ledger'[i].sym
        PROVE  /\ Cardinality(DayRows(d)') <= TradesADay
               /\ Cardinality(SymbolRows(d, c)') <= SymbolADay
    <3>1. CASE i = n + 1
      <4>1. d = today /\ c = s
          BY <1>9, <1>14, <2>1, <3>1
      <4> QED BY <1>15, <4>1
    <3>2. CASE i # n + 1
      <4>1. i \in DOMAIN ledger /\ ledger'[i] = ledger[i]
          BY <1>8, <1>9, <2>1, <3>2
      <4>2. /\ Cardinality(DayRows(d)) <= TradesADay
            /\ Cardinality(SymbolRows(d, c)) <= SymbolADay
          BY <1>1, <2>1, <4>1 DEF Paced
      <4>3. Cardinality(DayRows(d)') <= TradesADay
          BY <1>11, <1>14, <1>15, <4>2
      <4>4. Cardinality(SymbolRows(d, c)') <= SymbolADay
          BY <1>12, <1>14, <1>15, <4>2
      <4> QED BY <4>3, <4>4
    <3> QED BY <3>1, <3>2
  <2>2. ASSUME NEW i, i \in DOMAIN ledger', NEW j, j \in 1 .. i - 1, ledger'[j].sym = ledger'[i].sym
        PROVE  ledger'[i].at >= ledger'[j].at + Cooldown
    <3>1. n \in Nat /\ DOMAIN ledger = 1 .. n
        BY <1>5
    <3>2. i \in (1 .. n) \cup {n + 1}
        BY <1>8, <2>2, <3>1
    <3>3. j \in 1 .. n
      <4>1. n \in Nat
          BY <3>1
      <4>2. i \in Nat /\ i <= n + 1
          BY <3>2, <4>1
      <4>3. j \in 1 .. i - 1
          BY <2>2
      <4> QED BY <4>1, <4>2, <4>3
    <3>4. j \in DOMAIN ledger /\ ledger'[j] = ledger[j]
        BY <1>9, <3>1, <3>3
    <3>5. CASE i = n + 1
      <4>1. ledger[j].sym = s /\ ledger'[i].at = clock
          BY <1>9, <2>2, <3>4, <3>5
      <4>2. ledger[j].at + Cooldown <= clock
          BY <1>1, <3>4, <4>1 DEF MayEnter
      <4> QED BY <1>5, <1>c, <1>13, <3>4, <4>1, <4>2
    <3>6. CASE i # n + 1
      <4>1. i \in DOMAIN ledger /\ ledger'[i] = ledger[i]
          BY <1>8, <1>9, <2>2, <3>6
      <4> QED BY <1>1, <2>2, <3>4, <4>1 DEF Paced
    <3> QED BY <3>5, <3>6
  <2> QED
    <3>1. ASSUME NEW i \in DOMAIN ledger'
          PROVE  /\ (Cardinality(DayRows(DayOf(ledger[i].at))) <= TradesADay)'
                 /\ (Cardinality(SymbolRows(DayOf(ledger[i].at), ledger[i].sym)) <= SymbolADay)'
      <4>1. PICK d, c : d = DayOf(ledger'[i].at) /\ c = ledger'[i].sym
          BY Zenon
      <4>2. /\ Cardinality(DayRows(d)') <= TradesADay
            /\ Cardinality(SymbolRows(d, c)') <= SymbolADay
          BY <2>1, <3>1, <4>1
      <4> QED BY <4>1, <4>2 DEF DayRows, SymbolRows
    <3> QED BY <2>2, <3>1 DEF Paced
<1> QED BY <1>1, <1>7, <1>10, <1>16 DEF PaceInv

\* With the day, the entries of the day are gone; a cooldown that is over stays over.
LEMMA TimeKeepsPace ==
    ASSUME AllocationAssumption, PaceInv, Tick
    PROVE  PaceInv'
<1>1. /\ PaceShape /\ Paced /\ UNCHANGED <<ledger, cool, cycle>> /\ clock' = clock + 1
      /\ clock \in Nat \ {0} /\ \A i \in DOMAIN ledger : ledger[i].at <= clock
    BY DEF PaceInv, PaceShape, Tick
<1>2. /\ PaceShape'
      /\ \A i \in DOMAIN ledger' : ledger'[i].at <= clock'
  <2>1. PaceShape'
    <3>1. clock' \in Nat \ {0}
        BY <1>1
    <3>2. UNCHANGED <<ledger, cool, cycle>>
        BY <1>1
    <3> QED BY <1>1, <3>1, <3>2, Zenon DEF PaceShape
  <2>2. \A i \in DOMAIN ledger : ledger[i].at \in Nat
      BY <1>1, RowsAreNumbered
  <2>3. \A i \in DOMAIN ledger' : ledger'[i].at <= clock'
      BY <1>1, <2>2
  <2> QED BY <2>1, <2>3
<1>3. Paced'
    BY <1>1 DEF Paced, DayRows, SymbolRows
<1>4. ASSUME cycle.pc = "submit" PROVE MayEnter(cycle.order.sym)'
  <2>1. PICK s, d, e : s = cycle.order.sym /\ d = DayOf(clock) /\ e = DayOf(clock + 1)
      OBVIOUS
  <2>2. /\ Cardinality(DayRows(d)) < TradesADay
        /\ Cardinality(SymbolRows(d, s)) < SymbolADay
        /\ \A j \in DOMAIN ledger : ledger[j].sym = s => ledger[j].at + Cooldown <= clock
      BY <1>4, <2>1 DEF PaceInv, MayEnter
  <2>3. /\ Cardinality(DayRows(e)) < TradesADay
        /\ Cardinality(SymbolRows(e, s)) < SymbolADay
    <3>1. CASE d = e
        BY <2>2, <3>1
    <3>2. CASE d # e
      <4>1. d \in Int /\ e \in Int /\ d < e
          BY <1>1, <2>1, <3>2, DaysAreOrdered
      <4>2. \A i \in DOMAIN ledger : DayOf(ledger[i].at) # e
        <5> SUFFICES ASSUME NEW i \in DOMAIN ledger PROVE DayOf(ledger[i].at) # e
            OBVIOUS
        <5>1. ledger[i].at \in Nat /\ ledger[i].at <= clock /\ clock \in Nat
            BY <1>1, RowsAreNumbered
        <5>2. DayOf(ledger[i].at) \in Int /\ DayOf(ledger[i].at) <= d
            BY <2>1, <5>1, DaysAreOrdered
        <5> QED BY <4>1, <5>2
      <4>3. DayRows(e) = {} /\ SymbolRows(e, s) = {}
          BY <4>2 DEF DayRows, SymbolRows
      <4>4. /\ Cardinality(DayRows(d)) \in Nat /\ Cardinality(SymbolRows(d, s)) \in Nat
            /\ TradesADay \in Nat /\ SymbolADay \in Nat
          BY <1>1, RowsAreNumbered DEF AllocationAssumption
      <4> QED BY <2>2, <4>3, <4>4, FS_EmptySet
    <3> QED BY <3>1, <3>2
  <2>4. \A j \in DOMAIN ledger : ledger[j].sym = s => ledger[j].at + Cooldown <= clock + 1
    <3>1. \A j \in DOMAIN ledger : ledger[j].at \in Nat
        BY <1>1, RowsAreNumbered
    <3>2. Cooldown \in Nat
        BY DEF AllocationAssumption
    <3> QED BY <1>1, <2>2, <3>1, <3>2
  <2> QED BY <1>1, <2>1, <2>3, <2>4 DEF MayEnter, DayRows, SymbolRows
<1> QED BY <1>1, <1>2, <1>3, <1>4 DEF PaceInv

\* No day has more entries than its limits, in all and for a symbol, and two
\* entries of a symbol are a cooldown apart: the campaign's rows keep the pace
\* whatever the runtime forgets (_paper_portfolio_risk_state).
THEOREM PaceIsKept == AllocSpec => []PaceHolds
<1>1. AllocInit => PaceInv
  <2> SUFFICES ASSUME AllocInit PROVE PaceInv
      OBVIOUS
  <2>1. clock = 1 /\ ledger = << >> /\ cool = [s \in Coins |-> 0] /\ cycle = Idle
      BY DEF AllocInit
  <2>2. \E T : ledger \in Seq(LedgerRow(T))
      BY <2>1, EmptySeq
  <2>3. DOMAIN ledger = {}
      BY <2>1
  <2>4. DOMAIN cycle = {"pc", "at", "todo", "order"} /\ cycle.pc = "idle" /\ cycle.todo = {}
      BY <2>1 DEF Idle
  <2>5. PaceShape
      BY <2>1, <2>2, <2>4 DEF PaceShape
  <2> QED BY <2>3, <2>4, <2>5 DEF PaceInv, Paced
<1>2. PaceInv /\ [AllocNext]_allocVars => PaceInv'
  <2> SUFFICES ASSUME PaceInv, [AllocNext]_allocVars PROVE PaceInv'
      OBVIOUS
  <2> USE AllocationAssumption
  <2>1. CASE \E c \in cycle.todo : Decide(c)
      BY <2>1, DecisionsKeepPace
  <2>2. CASE \E i \in DOMAIN ledger : Resolve(i)
      BY <2>2, ClosingsKeepPace
  <2>3. CASE UNCHANGED allocVars
      BY <2>3 DEF allocVars, PaceInv, PaceShape, Paced, MayEnter, DayRows, SymbolRows
  <2> QED BY <2>1, <2>2, <2>3, QuietStepsKeepPace, EntriesKeepPace, TimeKeepsPace DEF AllocNext
<1>3. PaceInv => PaceHolds
    BY PaceRestated DEF PaceInv
<1> QED BY <1>1, <1>2, <1>3, PTL DEF AllocSpec

-----------------------------------------------------------------------------
(* The caps of the account.  What is open fits, position by position, in    *)
(* what the runtime remembers while it judges; a book that fits in another  *)
(* adds up to no more and leaves no less room; and a position that the room *)
(* and the places admit may be added.  The allocator adds its offers in the *)
(* same way, one after the other.                                           *)

\* A book of finitely many positions of natural sizes.
IsBook(b) == IsFiniteSet(DOMAIN b) /\ \A k \in DOMAIN b : b[k].size \in Nat
Amounts(b) == [k \in DOMAIN b |-> b[k].size]

\* The exposure of some positions is the sum of their sizes.
LEMMA ExposureIs ==
    ASSUME NEW b, IsBook(b), NEW T \in SUBSET DOMAIN b
    PROVE  /\ IsFiniteSet(T) /\ Cardinality(T) \in Nat
           /\ Exposure(b, T) = SumOf(Amounts(b), T) /\ Exposure(b, T) \in Nat
<1>1. IsFiniteSet(T)
    BY FS_Subset DEF IsBook
<1>2. Amounts(b) \in [DOMAIN b -> Nat] /\ Amounts(b) \in [DOMAIN b -> Int]
    BY DEF IsBook, Amounts
<1>3. Exposure(b, T) = SumFunctionOnSet(Amounts(b), T)
    BY DEF Exposure, Amounts
<1>4. SumFunctionOnSet(Amounts(b), T) = SumOf(Amounts(b), T)
    BY <1>1, <1>2, LibrarySum
<1>5. SumOf(Amounts(b), T) \in Nat
    BY <1>1, <1>2, SumIsNat
<1>6. Cardinality(T) \in Nat
    BY <1>1, FS_CardinalityType
<1> QED BY <1>1, <1>3, <1>4, <1>5, <1>6

\* The positions of one book are, one to one, positions of another, no larger there.
Fits(a, m, b) ==
    /\ \A k \in DOMAIN a : /\ m[k] \in DOMAIN b
                           /\ a[k].sym = b[m[k]].sym /\ a[k].side = b[m[k]].side
                           /\ a[k].size <= b[m[k]].size
    /\ \A k, l \in DOMAIN a : m[k] = m[l] => k = l

\* A part of a book that fits in a part of another adds up to no more.
LEMMA PartFits ==
    ASSUME NEW a, NEW b, NEW m, IsBook(a), IsBook(b), Fits(a, m, b),
           NEW T \in SUBSET DOMAIN a, NEW U \in SUBSET DOMAIN b, \A k \in T : m[k] \in U
    PROVE  Exposure(a, T) <= Exposure(b, U) /\ Cardinality(T) <= Cardinality(U)
<1>1. /\ IsFiniteSet(T) /\ IsFiniteSet(U)
      /\ Exposure(a, T) = SumOf(Amounts(a), T) /\ Exposure(b, U) = SumOf(Amounts(b), U)
    BY ExposureIs
<1>2. Amounts(a) \in [DOMAIN a -> Nat] /\ Amounts(b) \in [DOMAIN b -> Nat]
    BY DEF IsBook, Amounts
<1>3. \A k \in T : m[k] \in U /\ Amounts(a)[k] <= Amounts(b)[m[k]]
    BY DEF Fits, Amounts
<1>4. \A k, l \in T : m[k] = m[l] => k = l
    BY DEF Fits
<1>5. SumOf(Amounts(a), T) <= SumOf(Amounts(b), U)
    BY <1>1, <1>2, <1>3, <1>4, SumInjects
<1>6. Cardinality(T) <= Cardinality(U)
    BY <1>1, <1>3, <1>4, CountInjects
<1> QED BY <1>1, <1>5, <1>6

\* The same for whole books, symbols and groups.
LEMMA BooksFit ==
    ASSUME NEW a, NEW b, NEW m, IsBook(a), IsBook(b), Fits(a, m, b)
    PROVE  /\ Exposure(a, DOMAIN a) <= Exposure(b, DOMAIN b)
           /\ Cardinality(DOMAIN a) <= Cardinality(DOMAIN b)
           /\ \A s : Exposure(a, OfSymbol(a, s)) <= Exposure(b, OfSymbol(b, s))
           /\ \A s, side : /\ Exposure(a, OfGroup(a, s, side)) <= Exposure(b, OfGroup(b, s, side))
                           /\ Cardinality(OfGroup(a, s, side)) <= Cardinality(OfGroup(b, s, side))
<1>1. \A k \in DOMAIN a : m[k] \in DOMAIN b /\ a[k].sym = b[m[k]].sym /\ a[k].side = b[m[k]].side
    BY DEF Fits
<1>2. Exposure(a, DOMAIN a) <= Exposure(b, DOMAIN b) /\ Cardinality(DOMAIN a) <= Cardinality(DOMAIN b)
    BY <1>1, PartFits
<1>3. ASSUME NEW s PROVE Exposure(a, OfSymbol(a, s)) <= Exposure(b, OfSymbol(b, s))
  <2>1. OfSymbol(a, s) \in SUBSET DOMAIN a /\ OfSymbol(b, s) \in SUBSET DOMAIN b
      BY DEF OfSymbol
  <2>2. \A k \in OfSymbol(a, s) : m[k] \in OfSymbol(b, s)
      BY <1>1 DEF OfSymbol
  <2> QED BY <2>1, <2>2, PartFits
<1>4. ASSUME NEW s, NEW side
      PROVE  /\ Exposure(a, OfGroup(a, s, side)) <= Exposure(b, OfGroup(b, s, side))
             /\ Cardinality(OfGroup(a, s, side)) <= Cardinality(OfGroup(b, s, side))
  <2>1. OfGroup(a, s, side) \in SUBSET DOMAIN a /\ OfGroup(b, s, side) \in SUBSET DOMAIN b
      BY DEF OfGroup
  <2>2. \A k \in OfGroup(a, s, side) : m[k] \in OfGroup(b, s, side)
      BY <1>1 DEF OfGroup
  <2> QED BY <2>1, <2>2, PartFits
<1> QED BY <1>2, <1>3, <1>4

\* What a book adds up to are natural numbers.
LEMMA BookTypes ==
    ASSUME NEW b, IsBook(b)
    PROVE  /\ Exposure(b, DOMAIN b) \in Nat /\ Cardinality(DOMAIN b) \in Nat
           /\ \A s : Exposure(b, OfSymbol(b, s)) \in Nat
           /\ \A s, side : /\ Exposure(b, OfGroup(b, s, side)) \in Nat
                           /\ Cardinality(OfGroup(b, s, side)) \in Nat
<1>1. \A s : OfSymbol(b, s) \in SUBSET DOMAIN b
    BY DEF OfSymbol
<1>2. \A s, side : OfGroup(b, s, side) \in SUBSET DOMAIN b
    BY DEF OfGroup
<1>3. DOMAIN b \in SUBSET DOMAIN b
    OBVIOUS
<1> QED BY <1>1, <1>2, <1>3, ExposureIs

Limits == {MaxOpenPos, MaxConcurrent, MaxTotal, MaxPerSymbol, MaxPerGroup, MaxInGroup} \subseteq Nat

\* A book that fits in another leaves at least as much.
LEMMA SmallerBook ==
    ASSUME Limits, NEW a, NEW b, NEW m, IsBook(a), IsBook(b), Fits(a, m, b)
    PROVE  /\ WithinCaps(b) => WithinCaps(a)
           /\ \A s, side : /\ Room(a, s, side) \in Int /\ Room(b, s, side) \in Int
                           /\ Room(b, s, side) <= Room(a, s, side)
                           /\ HasPlace(b, s, side) => HasPlace(a, s, side)
<1>1. /\ Exposure(a, DOMAIN a) \in Nat /\ Cardinality(DOMAIN a) \in Nat
      /\ Exposure(b, DOMAIN b) \in Nat /\ Cardinality(DOMAIN b) \in Nat
      /\ Exposure(a, DOMAIN a) <= Exposure(b, DOMAIN b)
      /\ Cardinality(DOMAIN a) <= Cardinality(DOMAIN b)
    BY BookTypes, BooksFit
<1>2. ASSUME NEW s
      PROVE  /\ Exposure(a, OfSymbol(a, s)) \in Nat /\ Exposure(b, OfSymbol(b, s)) \in Nat
             /\ Exposure(a, OfSymbol(a, s)) <= Exposure(b, OfSymbol(b, s))
    BY BookTypes, BooksFit
<1>3. ASSUME NEW s, NEW side
      PROVE  /\ Exposure(a, OfGroup(a, s, side)) \in Nat /\ Exposure(b, OfGroup(b, s, side)) \in Nat
             /\ Exposure(a, OfGroup(a, s, side)) <= Exposure(b, OfGroup(b, s, side))
             /\ Cardinality(OfGroup(a, s, side)) \in Nat /\ Cardinality(OfGroup(b, s, side)) \in Nat
             /\ Cardinality(OfGroup(a, s, side)) <= Cardinality(OfGroup(b, s, side))
    BY BookTypes, BooksFit
<1>4. /\ MaxOpenPos \in Nat /\ MaxConcurrent \in Nat /\ MaxTotal \in Nat
      /\ MaxPerSymbol \in Nat /\ MaxPerGroup \in Nat /\ MaxInGroup \in Nat
    BY DEF Limits
<1>5. ASSUME WithinCaps(b) PROVE WithinCaps(a)
  <2>1. /\ Cardinality(DOMAIN a) <= MaxOpenPos /\ Cardinality(DOMAIN a) <= MaxConcurrent
        /\ Exposure(a, DOMAIN a) <= MaxTotal
      BY <1>1, <1>4, <1>5 DEF WithinCaps
  <2>2. ASSUME NEW s \in Coins PROVE Exposure(a, OfSymbol(a, s)) <= MaxPerSymbol
    <3>1. Exposure(b, OfSymbol(b, s)) <= MaxPerSymbol
        BY <1>5 DEF WithinCaps
    <3> QED BY <1>2, <1>4, <3>1
  <2>3. ASSUME NEW s \in Coins, NEW side \in Sides
        PROVE  /\ Exposure(a, OfGroup(a, s, side)) <= MaxPerGroup
               /\ Cardinality(OfGroup(a, s, side)) <= MaxInGroup
    <3>1. /\ Exposure(b, OfGroup(b, s, side)) <= MaxPerGroup
          /\ Cardinality(OfGroup(b, s, side)) <= MaxInGroup
        BY <1>5 DEF WithinCaps
    <3> QED BY <1>3, <1>4, <3>1
  <2> QED BY <2>1, <2>2, <2>3 DEF WithinCaps
<1>6. ASSUME NEW s, NEW side
      PROVE  /\ Room(a, s, side) \in Int /\ Room(b, s, side) \in Int
             /\ Room(b, s, side) <= Room(a, s, side)
  <2> DEFINE x1 == Exposure(a, DOMAIN a)
             x2 == Exposure(a, OfSymbol(a, s))
             x3 == Exposure(a, OfGroup(a, s, side))
             y1 == Exposure(b, DOMAIN b)
             y2 == Exposure(b, OfSymbol(b, s))
             y3 == Exposure(b, OfGroup(b, s, side))
  <2>1. /\ x1 \in Nat /\ x2 \in Nat /\ x3 \in Nat /\ y1 \in Nat /\ y2 \in Nat /\ y3 \in Nat
        /\ x1 <= y1 /\ x2 <= y2 /\ x3 <= y3
      BY <1>1, <1>2, <1>3
  <2>2. /\ Room(a, s, side) = Least(MaxTotal - x1, Least(MaxPerSymbol - x2, MaxPerGroup - x3))
        /\ Room(b, s, side) = Least(MaxTotal - y1, Least(MaxPerSymbol - y2, MaxPerGroup - y3))
      BY DEF Room
  <2> HIDE DEF x1, x2, x3, y1, y2, y3
  <2> QED BY <1>4, <2>1, <2>2 DEF Least
<1>7. ASSUME NEW s, NEW side, HasPlace(b, s, side) PROVE HasPlace(a, s, side)
    BY <1>1, <1>3, <1>4, <1>7 DEF HasPlace
<1> QED BY <1>5, <1>6, <1>7

\* A book with one more position.
Grows(b, k, p, g) ==
    /\ k \notin DOMAIN b /\ DOMAIN g = DOMAIN b \cup {k}
    /\ g[k] = p /\ \A j \in DOMAIN b : g[j] = b[j]

\* What one more position adds to a part of a book.
LEMMA GrownPart ==
    ASSUME NEW b, NEW k, NEW p, NEW g, IsBook(b), p.size \in Nat, Grows(b, k, p, g),
           NEW T \in SUBSET DOMAIN b
    PROVE  /\ IsBook(g)
           /\ Exposure(g, T) = Exposure(b, T) /\ Exposure(b, T) \in Nat
           /\ Exposure(g, T \cup {k}) = Exposure(b, T) + p.size
           /\ Cardinality(T) \in Nat /\ Cardinality(T \cup {k}) = Cardinality(T) + 1
<1>1. IsBook(g)
  <2>1. IsFiniteSet(DOMAIN g)
    <3>1. IsFiniteSet(DOMAIN b)
        BY DEF IsBook
    <3>2. IsFiniteSet(DOMAIN b \cup {k})
        BY <3>1, FS_AddElement
    <3> QED BY <3>2 DEF Grows
  <2>2. \A j \in DOMAIN g : g[j].size \in Nat
      BY DEF Grows, IsBook
  <2> QED BY <2>1, <2>2 DEF IsBook
<1>2. T \in SUBSET DOMAIN g /\ T \cup {k} \in SUBSET DOMAIN g /\ k \in DOMAIN g /\ k \notin T
    BY DEF Grows
<1>3. /\ IsFiniteSet(T) /\ Cardinality(T) \in Nat
      /\ Exposure(b, T) = SumOf(Amounts(b), T) /\ Exposure(b, T) \in Nat
    BY ExposureIs
<1>4. /\ Exposure(g, T) = SumOf(Amounts(g), T)
      /\ Exposure(g, T \cup {k}) = SumOf(Amounts(g), T \cup {k})
    BY <1>1, <1>2, ExposureIs
<1>5. SumOf(Amounts(g), T) = SumOf(Amounts(b), T)
  <2>1. \A j \in T : Amounts(g)[j] = Amounts(b)[j]
      BY DEF Grows, Amounts
  <2> QED BY <2>1, SumSame
<1>6. SumOf(Amounts(g), T \cup {k}) = SumOf(Amounts(g), T) + p.size
  <2>1. Amounts(g) \in [DOMAIN g -> Int]
      BY <1>1 DEF IsBook, Amounts
  <2>2. Amounts(g)[k] = p.size
      BY <1>2 DEF Grows, Amounts
  <2>3. SumOf(Amounts(g), T \cup {k}) = SumOf(Amounts(g), T) + Amounts(g)[k]
      BY <1>2, <1>3, <2>1, SumAdds
  <2> QED BY <2>2, <2>3
<1>7. Cardinality(T \cup {k}) = Cardinality(T) + 1
    BY <1>2, <1>3, FS_AddElement
<1> QED BY <1>1, <1>3, <1>4, <1>5, <1>6, <1>7

\* A position that the caps and counts admit may be taken, and uses up its size.
LEMMA GrownBook ==
    ASSUME Limits, NEW b, NEW k, NEW p, NEW g, IsBook(b), p.size \in Nat, Grows(b, k, p, g)
    PROVE  /\ IsBook(g) /\ Fits(b, [j \in DOMAIN b |-> j], g)
           /\ Room(g, p.sym, p.side) = Room(b, p.sym, p.side) - p.size
           /\ WithinCaps(b) /\ HasPlace(b, p.sym, p.side) /\ p.size <= Room(b, p.sym, p.side)
              => WithinCaps(g)
<1> DEFINE n == p.size
<1>1. IsBook(g) /\ n \in Nat
    BY GrownPart
<1>2. Fits(b, [j \in DOMAIN b |-> j], g)
    BY DEF Fits, Grows, IsBook
<1>3. /\ DOMAIN g = DOMAIN b \cup {k}
      /\ Exposure(g, DOMAIN g) = Exposure(b, DOMAIN b) + n /\ Exposure(b, DOMAIN b) \in Nat
      /\ Cardinality(DOMAIN g) = Cardinality(DOMAIN b) + 1 /\ Cardinality(DOMAIN b) \in Nat
  <2>1. DOMAIN g = DOMAIN b \cup {k}
      BY DEF Grows
  <2>2. DOMAIN b \in SUBSET DOMAIN b
      OBVIOUS
  <2> QED BY <2>1, <2>2, GrownPart
<1>4. ASSUME NEW s
      PROVE  /\ Exposure(b, OfSymbol(b, s)) \in Nat
             /\ s = p.sym => Exposure(g, OfSymbol(g, s)) = Exposure(b, OfSymbol(b, s)) + n
             /\ s # p.sym => Exposure(g, OfSymbol(g, s)) = Exposure(b, OfSymbol(b, s))
  <2>1. OfSymbol(b, s) \in SUBSET DOMAIN b
      BY DEF OfSymbol
  <2>2. s = p.sym => OfSymbol(g, s) = OfSymbol(b, s) \cup {k}
      BY DEF OfSymbol, Grows
  <2>3. s # p.sym => OfSymbol(g, s) = OfSymbol(b, s)
      BY DEF OfSymbol, Grows
  <2>4. /\ Exposure(b, OfSymbol(b, s)) \in Nat
        /\ Exposure(g, OfSymbol(b, s)) = Exposure(b, OfSymbol(b, s))
        /\ Exposure(g, OfSymbol(b, s) \cup {k}) = Exposure(b, OfSymbol(b, s)) + n
      BY <2>1, GrownPart
  <2> HIDE DEF n
  <2> QED BY <2>2, <2>3, <2>4
<1>5. ASSUME NEW s, NEW side
      PROVE  /\ Exposure(b, OfGroup(b, s, side)) \in Nat
             /\ Cardinality(OfGroup(b, s, side)) \in Nat
             /\ \/ /\ OfGroup(b, s, side) = OfGroup(b, p.sym, p.side)
                   /\ Exposure(g, OfGroup(g, s, side)) = Exposure(b, OfGroup(b, s, side)) + n
                   /\ Cardinality(OfGroup(g, s, side)) = Cardinality(OfGroup(b, s, side)) + 1
                \/ /\ ~(s = p.sym /\ side = p.side)
                   /\ Exposure(g, OfGroup(g, s, side)) = Exposure(b, OfGroup(b, s, side))
                   /\ Cardinality(OfGroup(g, s, side)) = Cardinality(OfGroup(b, s, side))
  <2>1. OfGroup(b, s, side) \in SUBSET DOMAIN b
      BY DEF OfGroup
  <2> DEFINE same == GroupOf(p.sym) = GroupOf(s) /\ p.side = side
  <2>2. same => /\ OfGroup(g, s, side) = OfGroup(b, s, side) \cup {k}
                /\ OfGroup(b, s, side) = OfGroup(b, p.sym, p.side)
      BY DEF OfGroup, Grows
  <2>3. ~same => OfGroup(g, s, side) = OfGroup(b, s, side) /\ ~(s = p.sym /\ side = p.side)
      BY DEF OfGroup, Grows
  <2>4. /\ Exposure(b, OfGroup(b, s, side)) \in Nat /\ Cardinality(OfGroup(b, s, side)) \in Nat
        /\ Exposure(g, OfGroup(b, s, side)) = Exposure(b, OfGroup(b, s, side))
        /\ Exposure(g, OfGroup(b, s, side) \cup {k}) = Exposure(b, OfGroup(b, s, side)) + n
        /\ Cardinality(OfGroup(b, s, side) \cup {k}) = Cardinality(OfGroup(b, s, side)) + 1
    <3>1. PICK T \in SUBSET DOMAIN b : T = OfGroup(b, s, side)
        BY <2>1
    <3>2. /\ Exposure(b, T) \in Nat /\ Cardinality(T) \in Nat
          /\ Exposure(g, T) = Exposure(b, T)
          /\ Exposure(g, T \cup {k}) = Exposure(b, T) + n
          /\ Cardinality(T \cup {k}) = Cardinality(T) + 1
        BY GrownPart
    <3> QED BY <3>1, <3>2
  <2>5. CASE same
    <3>1. OfGroup(g, s, side) = OfGroup(b, s, side) \cup {k}
        BY <2>2, <2>5
    <3>2. OfGroup(b, s, side) = OfGroup(b, p.sym, p.side)
        BY <2>2, <2>5
    <3> HIDE DEF same, n
    <3> QED BY <2>4, <3>1, <3>2, Zenon
  <2>6. CASE ~same
    <3>1. OfGroup(g, s, side) = OfGroup(b, s, side) /\ ~(s = p.sym /\ side = p.side)
        BY <2>3, <2>6
    <3> HIDE DEF same, n
    <3> QED BY <2>4, <3>1, Zenon
  <2> QED BY <2>5, <2>6
<1>6. /\ MaxOpenPos \in Nat /\ MaxConcurrent \in Nat /\ MaxTotal \in Nat
      /\ MaxPerSymbol \in Nat /\ MaxPerGroup \in Nat /\ MaxInGroup \in Nat
    BY DEF Limits
<1> DEFINE y1 == Exposure(b, DOMAIN b)
           y2 == Exposure(b, OfSymbol(b, p.sym))
           y3 == Exposure(b, OfGroup(b, p.sym, p.side))
<1>7. y1 \in Nat /\ y2 \in Nat /\ y3 \in Nat
    BY <1>3, <1>4, <1>5
<1>8. Room(b, p.sym, p.side) = Least(MaxTotal - y1, Least(MaxPerSymbol - y2, MaxPerGroup - y3))
    BY DEF Room
<1>9. Room(g, p.sym, p.side)
        = Least(MaxTotal - (y1 + n), Least(MaxPerSymbol - (y2 + n), MaxPerGroup - (y3 + n)))
  <2>1. /\ Exposure(g, DOMAIN g) = y1 + n /\ Exposure(g, OfSymbol(g, p.sym)) = y2 + n
        /\ Exposure(g, OfGroup(g, p.sym, p.side)) = y3 + n
      BY <1>3, <1>4, <1>5
  <2> QED BY <2>1 DEF Room
<1> HIDE DEF n, y1, y2, y3
<1>10. Room(g, p.sym, p.side) = Room(b, p.sym, p.side) - n
    BY <1>1, <1>6, <1>7, <1>8, <1>9 DEF Least
<1>11. ASSUME WithinCaps(b), HasPlace(b, p.sym, p.side), n <= Room(b, p.sym, p.side)
       PROVE  WithinCaps(g)
  <2>1. y1 + n <= MaxTotal /\ y2 + n <= MaxPerSymbol /\ y3 + n <= MaxPerGroup
      BY <1>1, <1>6, <1>7, <1>8, <1>11 DEF Least
  <2>2. /\ Cardinality(DOMAIN g) <= MaxOpenPos /\ Cardinality(DOMAIN g) <= MaxConcurrent
        /\ Exposure(g, DOMAIN g) <= MaxTotal
      BY <1>3, <1>6, <1>11, <2>1 DEF HasPlace, y1
  <2>3. ASSUME NEW s \in Coins PROVE Exposure(g, OfSymbol(g, s)) <= MaxPerSymbol
    <3>1. CASE s = p.sym
        BY <1>4, <2>1, <3>1 DEF y2
    <3>2. CASE s # p.sym
      <4>1. Exposure(b, OfSymbol(b, s)) <= MaxPerSymbol
          BY <1>11 DEF WithinCaps
      <4> QED BY <1>4, <3>2, <4>1
    <3> QED BY <3>1, <3>2
  <2>4. ASSUME NEW s \in Coins, NEW side \in Sides
        PROVE  /\ Exposure(g, OfGroup(g, s, side)) <= MaxPerGroup
               /\ Cardinality(OfGroup(g, s, side)) <= MaxInGroup
    <3>1. CASE /\ OfGroup(b, s, side) = OfGroup(b, p.sym, p.side)
               /\ Exposure(g, OfGroup(g, s, side)) = Exposure(b, OfGroup(b, s, side)) + n
               /\ Cardinality(OfGroup(g, s, side)) = Cardinality(OfGroup(b, s, side)) + 1
      <4>1. Cardinality(OfGroup(b, p.sym, p.side)) < MaxInGroup
          BY <1>11 DEF HasPlace
      <4>2. Cardinality(OfGroup(b, s, side)) \in Nat
          BY <1>5
      <4>3. Exposure(g, OfGroup(g, s, side)) = y3 + n
          BY <3>1 DEF y3
      <4>4. Cardinality(OfGroup(g, s, side)) <= MaxInGroup
          BY <1>6, <3>1, <4>1, <4>2
      <4> QED BY <2>1, <4>3, <4>4
    <3>2. CASE /\ Exposure(g, OfGroup(g, s, side)) = Exposure(b, OfGroup(b, s, side))
               /\ Cardinality(OfGroup(g, s, side)) = Cardinality(OfGroup(b, s, side))
        BY <1>11, <3>2 DEF WithinCaps
    <3> QED BY <1>5, <3>1, <3>2
  <2> QED BY <2>2, <2>3, <2>4 DEF WithinCaps
<1> QED BY <1>1, <1>2, <1>10, <1>11 DEF n

Amount == [sym : Coins, side : Sides, size : Nat]

\* What meets a candidate that gets less than it asked for.
Blocked(b, c, now) ==
    \/ ~HasPlace(b, c.sym, c.side)
    \/ Room(b, c.sym, c.side) <= 0
    \/ ~History(c.sym, now)

\* The room that a book leaves is a number.
LEMMA RoomIsInt ==
    ASSUME Limits, NEW b, IsBook(b), NEW s, NEW side
    PROVE  Room(b, s, side) \in Int
<1> DEFINE m == [k \in DOMAIN b |-> k]
<1>1. Fits(b, m, b)
    BY DEF Fits, IsBook
<1> HIDE DEF m
<1> QED BY <1>1, SmallerBook

\* An offer fits in the room there is; one that is cut uses it up or is nothing.
LEMMA OfferMeans ==
    ASSUME Limits, NEW b, IsBook(b), NEW c \in Amount, c.size > 0, NEW now
    PROVE  /\ Offer(b, c, now) \in Nat /\ Offer(b, c, now) <= c.size
           /\ Offer(b, c, now) > 0 => /\ HasPlace(b, c.sym, c.side)
                                      /\ Offer(b, c, now) <= Room(b, c.sym, c.side)
           /\ Offer(b, c, now) < c.size => \/ Offer(b, c, now) = Room(b, c.sym, c.side)
                                           \/ Blocked(b, c, now)
<1> DEFINE room == Room(b, c.sym, c.side)
           n == Most(0, Least(c.size, room))
           d == [c EXCEPT !.size = n]
<1>1. room \in Int /\ c.size \in Nat
    BY RoomIsInt DEF Amount
<1>2. /\ d.size = n /\ d.sym = c.sym /\ d.side = c.side
    BY DEF Amount
<1>3. Accepted(b, d, now) <=> /\ n > 0 /\ HasPlace(b, c.sym, c.side) /\ n <= room
                              /\ History(c.sym, now)
  <2> HIDE DEF n, d
  <2> QED BY <1>2 DEF Accepted
<1>4. Offer(b, c, now) = IF Accepted(b, d, now) THEN n ELSE 0
    BY DEF Offer
<1> HIDE DEF d
<1>5. Offer(b, c, now) = IF n > 0 /\ HasPlace(b, c.sym, c.side) /\ n <= room /\ History(c.sym, now)
                         THEN n ELSE 0
    BY <1>3, <1>4
<1>6. /\ n \in Nat /\ n <= c.size
      /\ n < c.size => (n = 0 /\ room <= 0) \/ n = room
      /\ n > 0 => n <= room
      /\ n = 0 => room <= 0
  <2> HIDE DEF room
  <2> QED BY <1>1 DEF Most, Least
<1> HIDE DEF n, room
<1>7. CASE n > 0 /\ HasPlace(b, c.sym, c.side) /\ n <= room /\ History(c.sym, now)
  <2>1. Offer(b, c, now) = n
      BY <1>5, <1>7
  <2> QED BY <1>1, <1>6, <1>7, <2>1 DEF room
<1>8. CASE ~(n > 0 /\ HasPlace(b, c.sym, c.side) /\ n <= room /\ History(c.sym, now))
  <2>1. Offer(b, c, now) = 0
      BY <1>5, <1>8
  <2>2. Blocked(b, c, now)
      BY <1>1, <1>6, <1>8 DEF Blocked, room
  <2> QED BY <1>1, <2>1, <2>2
<1> QED BY <1>7, <1>8

\* Who is blocked stays blocked as a book grows.
LEMMA StillBlocked ==
    ASSUME Limits, NEW a, NEW b, NEW m, IsBook(a), IsBook(b), Fits(a, m, b),
           NEW c, NEW now, Blocked(a, c, now)
    PROVE  Blocked(b, c, now)
<1>1. /\ Room(a, c.sym, c.side) \in Int /\ Room(b, c.sym, c.side) \in Int
      /\ Room(b, c.sym, c.side) <= Room(a, c.sym, c.side)
      /\ HasPlace(b, c.sym, c.side) => HasPlace(a, c.sym, c.side)
    BY SmallerBook
<1> QED BY <1>1 DEF Blocked

-----------------------------------------------------------------------------
\* Nobody has been made an offer yet.
LEMMA WithNothing ==
    ASSUME Limits, NEW b, IsBook(b)
    PROVE  /\ IsBook(With(b, << >>))
           /\ WithinCaps(b) => WithinCaps(With(b, << >>))
<1> DEFINE a == With(b, << >>)
           m == [k \in DOMAIN a |-> k[2]]
<1>1. DOMAIN a = {"held"} \X DOMAIN b
    BY DEF With
<1>2. \A k \in DOMAIN a : a[k] = b[k[2]]
    BY DEF With
<1>3. \A k \in {"held"} \X DOMAIN b : k = <<"held", k[2]>> /\ k[2] \in DOMAIN b
    OBVIOUS
<1> HIDE DEF a
<1>4. \A k \in DOMAIN a : m[k] = k[2] /\ m[k] \in DOMAIN b
    BY <1>1, <1>3
<1>5. \A k, l \in DOMAIN a : m[k] = m[l] => k = l
  <2> SUFFICES ASSUME NEW k \in DOMAIN a, NEW l \in DOMAIN a, m[k] = m[l] PROVE k = l
      OBVIOUS
  <2>1. k[2] = l[2]
      BY <1>4
  <2>2. k = <<"held", k[2]>> /\ l = <<"held", l[2]>>
      BY <1>1, <1>3
  <2> QED BY <2>1, <2>2
<1> HIDE DEF m
<1>6. IsFiniteSet(DOMAIN a)
  <2>1. IsFiniteSet(DOMAIN b)
      BY DEF IsBook
  <2> QED BY <1>4, <1>5, <2>1, CountInjects
<1>7. IsBook(a) /\ Fits(a, m, b)
  <2>1. \A k \in DOMAIN a : b[k[2]].size \in Nat /\ k[2] \in DOMAIN b
      BY <1>4 DEF IsBook
  <2>2. IsBook(a)
      BY <1>2, <1>6, <2>1 DEF IsBook
  <2>3. \A k \in DOMAIN a : /\ m[k] \in DOMAIN b
                            /\ a[k].sym = b[m[k]].sym /\ a[k].side = b[m[k]].side
                            /\ a[k].size <= b[m[k]].size
      BY <1>2, <1>4, <2>1
  <2> QED BY <1>5, <2>2, <2>3 DEF Fits
<1> QED BY <1>7, SmallerBook DEF a

OfferKeys(x) == {"offer"} \X {i \in DOMAIN x : x[i].size > 0}

\* One more offer is one more position, unless it is nothing.
LEMMA WithOneMore ==
    ASSUME NEW b, NEW x \in Seq(Amount), NEW p \in Amount, NEW n \in Nat, n = Len(x)
    PROVE  /\ p.size = 0 => With(b, Append(x, p)) = With(b, x)
           /\ p.size > 0 => Grows(With(b, x), <<"offer", n + 1>>, p, With(b, Append(x, p)))
<1> DEFINE y == Append(x, p)
           kept == {"held"} \X DOMAIN b
           val(z, k) == IF k[1] = "held" THEN b[k[2]] ELSE z[k[2]]
<1>1. /\ DOMAIN x = 1 .. n /\ DOMAIN y = 1 .. n + 1
      /\ \A i \in 1 .. n : y[i] = x[i]
      /\ y[n + 1] = p
    OBVIOUS
<1>2. \A z : With(b, z) = [k \in kept \cup OfferKeys(z) |-> val(z, k)]
    BY DEF With, OfferKeys
<1> HIDE DEF y
<1>3. \A k \in OfferKeys(x) : k[1] = "offer" /\ k[2] \in 1 .. n
    BY <1>1 DEF OfferKeys
<1>4. \A k \in kept \cup OfferKeys(x) : val(y, k) = val(x, k)
  <2>1. \A k \in kept : val(y, k) = val(x, k)
      OBVIOUS
  <2>2. \A k \in OfferKeys(x) : val(y, k) = val(x, k)
      BY <1>1, <1>3
  <2> QED BY <2>1, <2>2
<1>5. ASSUME p.size = 0 PROVE With(b, y) = With(b, x)
  <2>1. {i \in DOMAIN y : y[i].size > 0} = {i \in DOMAIN x : x[i].size > 0}
      BY <1>1, <1>5
  <2>2. OfferKeys(y) = OfferKeys(x)
      BY <2>1 DEF OfferKeys
  <2> HIDE DEF kept, val
  <2>3. With(b, y) = [k \in kept \cup OfferKeys(x) |-> val(y, k)]
      BY <1>2, <2>2
  <2>4. With(b, x) = [k \in kept \cup OfferKeys(x) |-> val(x, k)]
      BY <1>2
  <2> QED BY <1>4, <2>3, <2>4
<1>6. ASSUME p.size > 0 PROVE Grows(With(b, x), <<"offer", n + 1>>, p, With(b, y))
  <2> DEFINE new == <<"offer", n + 1>>
  <2>1. {i \in DOMAIN y : y[i].size > 0} = {i \in DOMAIN x : x[i].size > 0} \cup {n + 1}
      BY <1>1, <1>6
  <2>2. OfferKeys(y) = OfferKeys(x) \cup {new}
      BY <2>1 DEF OfferKeys
  <2>3. new \notin kept /\ new \notin OfferKeys(x)
    <3>1. n + 1 \notin 1 .. n
        OBVIOUS
    <3>2. \A k \in kept : k[1] = "held"
        OBVIOUS
    <3>3. new[1] = "offer" /\ new[2] = n + 1
        OBVIOUS
    <3> HIDE DEF new, kept
    <3> QED BY <1>3, <3>1, <3>2, <3>3
  <2>4. val(y, new) = p
      BY <1>1
  <2> HIDE DEF kept, val, new
  <2>5. With(b, x) = [k \in kept \cup OfferKeys(x) |-> val(x, k)]
      BY <1>2
  <2>6. With(b, y) = [k \in kept \cup OfferKeys(y) |-> val(y, k)]
      BY <1>2
  <2>7. DOMAIN With(b, x) = kept \cup OfferKeys(x) /\ DOMAIN With(b, y) = kept \cup OfferKeys(y)
      BY <2>5, <2>6
  <2>8. With(b, y)[new] = p
      BY <2>2, <2>4, <2>6
  <2>9. \A k \in DOMAIN With(b, x) : With(b, y)[k] = With(b, x)[k]
      BY <1>4, <2>2, <2>5, <2>6
  <2>10. Grows(With(b, x), new, p, With(b, y))
      BY <2>2, <2>3, <2>7, <2>8, <2>9 DEF Grows
  <2> QED BY <2>10 DEF new
<1> QED BY <1>5, <1>6 DEF y

\* The offers once one more candidate has got its own.
NextGiven(x, b, c, now) == Append(x, [c EXCEPT !.size = Offer(With(b, x), c, now)])

GivenAt(g, n, b, w, now) == IF n = 0 THEN << >> ELSE NextGiven(g[n - 1], b, w[n], now)

IsPass(g, b, w, now) == g = [n \in 0 .. Len(w) |-> GivenAt(g, n, b, w, now)]

\* The pass of the allocator exists, candidate by candidate.
LEMMA GreedyExists ==
    ASSUME NEW b, NEW w, Len(w) \in Nat, NEW now
    PROVE  \E g : IsPass(g, b, w, now)
<1> DEFINE Upto(m, g) == \A n \in 0 .. m : g[n] = GivenAt(g, n, b, w, now)
           bad == {m \in 0 .. Len(w) : ~\E g : Upto(m, g)}
<1>1. bad = {}
  <2> SUFFICES ASSUME bad # {} PROVE FALSE
      OBVIOUS
  <2>1. PICK m \in bad : \A k \in bad : m <= k
    <3>1. bad \subseteq Nat
        OBVIOUS
    <3> HIDE DEF bad
    <3> QED BY <3>1, LeastOf
  <2>2. m # 0
    <3> DEFINE g == [n \in 0 .. 0 |-> << >>]
    <3>1. Upto(0, g)
        BY DEF GivenAt
    <3> QED BY <2>1, <3>1
  <2>3. m - 1 \in 0 .. Len(w) /\ m - 1 < m /\ m \in Nat
      BY <2>1, <2>2
  <2>4. m - 1 \notin bad
    <3> HIDE DEF bad
    <3>1. m - 1 \in bad => m <= m - 1
        BY <2>1
    <3> QED BY <2>3, <3>1
  <2>5. PICK h : Upto(m - 1, h)
      BY <2>3, <2>4
  <2> DEFINE g == [n \in 0 .. m |-> IF n = m THEN GivenAt(h, m, b, w, now) ELSE h[n]]
  <2>6. \A n \in 0 .. m - 1 : g[n] = h[n]
      BY <2>3
  <2>7. g[m] = GivenAt(h, m, b, w, now)
      BY <2>3
  <2> HIDE DEF g
  <2>8. ASSUME NEW n \in 0 .. m PROVE GivenAt(g, n, b, w, now) = GivenAt(h, n, b, w, now)
    <3>1. CASE n = 0
        BY <3>1 DEF GivenAt
    <3>2. CASE n # 0
      <4>1. n - 1 \in 0 .. m - 1
          BY <2>3, <3>2
      <4>2. g[n - 1] = h[n - 1]
          BY <2>6, <4>1
      <4> QED BY <4>2 DEF GivenAt
    <3> QED BY <3>1, <3>2
  <2>9. ASSUME NEW n \in 0 .. m PROVE g[n] = GivenAt(g, n, b, w, now)
    <3>1. CASE n = m
        BY <2>7, <2>8, <3>1
    <3>2. CASE n # m
      <4>1. n \in 0 .. m - 1
          BY <2>3, <3>2
      <4>2. g[n] = h[n] /\ h[n] = GivenAt(h, n, b, w, now)
          BY <2>5, <2>6, <4>1
      <4> QED BY <2>8, <4>2
    <3> QED BY <3>1, <3>2
  <2>10. Upto(m, g)
      BY <2>9
  <2> HIDE DEF Upto
  <2> QED BY <2>1, <2>10
<1>2. Len(w) \in 0 .. Len(w)
    OBVIOUS
<1> HIDE DEF Upto
<1>3. PICK g : Upto(Len(w), g)
    BY <1>1, <1>2
<1> DEFINE f == [n \in 0 .. Len(w) |-> g[n]]
<1>4. \A n \in 0 .. Len(w) : f[n] = g[n]
    OBVIOUS
<1> HIDE DEF f
<1>5. \A n \in 0 .. Len(w) : GivenAt(f, n, b, w, now) = GivenAt(g, n, b, w, now)
  <2> SUFFICES ASSUME NEW n \in 0 .. Len(w)
               PROVE  GivenAt(f, n, b, w, now) = GivenAt(g, n, b, w, now)
      OBVIOUS
  <2>1. CASE n = 0
      BY <2>1 DEF GivenAt
  <2>2. CASE n # 0
    <3>1. n - 1 \in 0 .. Len(w)
        BY <2>2
    <3>2. f[n - 1] = g[n - 1]
        BY <1>4, <3>1
    <3> QED BY <3>2 DEF GivenAt
  <2> QED BY <2>1, <2>2
<1>6. \A n \in 0 .. Len(w) : g[n] = GivenAt(g, n, b, w, now)
    BY <1>3 DEF Upto
<1>7. \A n \in 0 .. Len(w) : g[n] = GivenAt(f, n, b, w, now)
    BY <1>5, <1>6
<1>8. f = [n \in 0 .. Len(w) |-> GivenAt(f, n, b, w, now)]
  <2>1. f = [n \in 0 .. Len(w) |-> g[n]]
      BY DEF f
  <2> QED BY <1>7, <2>1
<1> QED BY <1>8 DEF IsPass

\* What each candidate of a pass adds.
PassIs(g, b, w, now) ==
    /\ g[0] = << >>
    /\ \A n \in 1 .. Len(w) : g[n] = NextGiven(g[n - 1], b, w[n], now)

\* The allocator's result is the last stage of such a pass.
LEMMA GreedyIs ==
    ASSUME NEW b, NEW w, Len(w) \in Nat, NEW now
    PROVE  \E g : Greedy(b, w, now) = g[Len(w)] /\ PassIs(g, b, w, now)
<1> DEFINE step(g) == [n \in 0 .. Len(w) |-> GivenAt(g, n, b, w, now)]
           given == CHOOSE g : g = step(g)
<1>1. Greedy(b, w, now) = given[Len(w)]
    BY DEF Greedy, GivenAt, NextGiven
<1>2. \E g : g = step(g)
  <2>1. PICK g : IsPass(g, b, w, now)
      BY GreedyExists
  <2>2. g = step(g)
      BY <2>1 DEF IsPass
  <2> HIDE DEF step
  <2> QED BY <2>2
<1> HIDE DEF step
<1>3. given = step(given)
    BY <1>2
<1> HIDE DEF given
<1>4. \A n \in 0 .. Len(w) : given[n] = GivenAt(given, n, b, w, now)
  <2> DEFINE f == [n \in 0 .. Len(w) |-> GivenAt(given, n, b, w, now)]
  <2>1. given = f
      BY <1>3 DEF step
  <2>2. \A n \in 0 .. Len(w) : f[n] = GivenAt(given, n, b, w, now)
      OBVIOUS
  <2> HIDE DEF f
  <2> QED BY <2>1, <2>2
<1>5. 0 \in 0 .. Len(w) /\ \A n \in 1 .. Len(w) : n \in 0 .. Len(w) /\ n # 0
    OBVIOUS
<1>6. given[0] = << >>
    BY <1>4, <1>5 DEF GivenAt
<1>7. \A n \in 1 .. Len(w) : given[n] = NextGiven(given[n - 1], b, w[n], now)
    BY <1>4, <1>5 DEF GivenAt
<1>8. PassIs(given, b, w, now)
    BY <1>6, <1>7 DEF PassIs
<1> QED BY <1>1, <1>8

\* What the offers to the first n candidates are.
OfferedUpto(x, n, b, w, now) ==
    /\ x \in Seq(Amount) /\ Len(x) = n
    /\ \A i \in 1 .. n : x[i].size <= w[i].size
    /\ IsBook(With(b, x)) /\ WithinCaps(With(b, x))
    /\ \A i \in 1 .. n : x[i].size < w[i].size => Blocked(With(b, x), w[i], now)

\* The next offer keeps what the offers before it are.
LEMMA OneMoreOffer ==
    ASSUME Limits, NEW b, NEW w \in Seq(Amount), \A i \in DOMAIN w : w[i].size > 0, NEW now,
           NEW n \in 1 .. Len(w), NEW x, OfferedUpto(x, n - 1, b, w, now)
    PROVE  OfferedUpto(NextGiven(x, b, w[n], now), n, b, w, now)
<1> DEFINE t == With(b, x)
           c == w[n]
           o == Offer(t, c, now)
           p == [c EXCEPT !.size = o]
           y == Append(x, p)
<1>1. /\ c \in Amount /\ c.size > 0 /\ n \in Nat /\ n - 1 \in Nat /\ (n - 1) + 1 = n
      /\ x \in Seq(Amount) /\ Len(x) = n - 1 /\ IsBook(t) /\ WithinCaps(t)
    BY DEF OfferedUpto
<1>2. /\ o \in Nat /\ o <= c.size
      /\ o > 0 => HasPlace(t, c.sym, c.side) /\ o <= Room(t, c.sym, c.side)
      /\ o < c.size => o = Room(t, c.sym, c.side) \/ Blocked(t, c, now)
  <2> HIDE DEF t, c
  <2> QED BY <1>1, OfferMeans
<1>3. NextGiven(x, b, w[n], now) = y
    BY DEF NextGiven
<1> HIDE DEF o, c
<1>4. p \in Amount /\ p.size = o /\ p.sym = c.sym /\ p.side = c.side
    BY <1>1, <1>2 DEF Amount
<1> HIDE DEF p
<1>5. y \in Seq(Amount) /\ Len(y) = n /\ y[n] = p /\ \A i \in 1 .. n - 1 : y[i] = x[i]
    BY <1>1, <1>4
<1>6. /\ p.size = 0 => With(b, y) = t
      /\ p.size > 0 => Grows(t, <<"offer", n>>, p, With(b, y))
  <2>1. /\ p.size = 0 => With(b, Append(x, p)) = With(b, x)
        /\ p.size > 0 => Grows(With(b, x), <<"offer", (n - 1) + 1>>, p, With(b, Append(x, p)))
      BY <1>1, <1>4, WithOneMore
  <2> QED BY <1>1, <2>1
<1> HIDE DEF y
<1> DEFINE u == With(b, y)
<1>7. /\ IsBook(u) /\ WithinCaps(u)
      /\ \A d : Blocked(t, d, now) => Blocked(u, d, now)
      /\ o > 0 /\ o = Room(t, c.sym, c.side) => Room(u, c.sym, c.side) = 0
  <2> HIDE DEF t, u
  <2>1. CASE p.size = 0
    <3>1. u = t
        BY <1>6, <2>1 DEF u
    <3> QED BY <1>1, <1>4, <2>1, <3>1
  <2>2. CASE p.size # 0
    <3>1. p.size > 0 /\ p.size \in Nat
        BY <1>2, <1>4, <2>2
    <3>2. Grows(t, <<"offer", n>>, p, u)
        BY <1>6, <3>1 DEF u
    <3>3. /\ IsBook(u) /\ Fits(t, [j \in DOMAIN t |-> j], u)
          /\ Room(u, p.sym, p.side) = Room(t, p.sym, p.side) - p.size
          /\ WithinCaps(t) /\ HasPlace(t, p.sym, p.side) /\ p.size <= Room(t, p.sym, p.side)
             => WithinCaps(u)
        BY <1>1, <3>1, <3>2, GrownBook
    <3>4. WithinCaps(u)
        BY <1>1, <1>2, <1>4, <3>1, <3>3
    <3>5. \A d : Blocked(t, d, now) => Blocked(u, d, now)
        BY <1>1, <3>3, StillBlocked
    <3>6. o = Room(t, c.sym, c.side) => Room(u, c.sym, c.side) = 0
        BY <1>2, <1>4, <3>3
    <3> QED BY <3>3, <3>4, <3>5, <3>6
  <2> QED BY <2>1, <2>2
<1>8. ASSUME o < c.size PROVE Blocked(u, c, now)
  <2>1. CASE Blocked(t, c, now)
      BY <1>7, <2>1
  <2>2. CASE ~Blocked(t, c, now)
    <3>1. o = Room(t, c.sym, c.side)
        BY <1>2, <1>8, <2>2
    <3>2. o # 0
        BY <1>2, <2>2, <3>1 DEF Blocked
    <3>3. Room(u, c.sym, c.side) = 0
        BY <1>2, <1>7, <3>1, <3>2
    <3> QED BY <3>3 DEF Blocked
  <2> QED BY <2>1, <2>2
<1> HIDE DEF t, u
<1>9. ASSUME NEW i \in 1 .. n
      PROVE  y[i].size <= w[i].size /\ (y[i].size < w[i].size => Blocked(u, w[i], now))
  <2>1. CASE i = n
      BY <1>2, <1>4, <1>5, <1>8, <2>1 DEF c
  <2>2. CASE i # n
    <3>1. i \in 1 .. n - 1
        BY <1>1, <2>2
    <3>2. x[i].size <= w[i].size /\ (x[i].size < w[i].size => Blocked(t, w[i], now))
        BY <3>1 DEF OfferedUpto, t
    <3> QED BY <1>5, <1>7, <3>1, <3>2
  <2> QED BY <2>1, <2>2
<1>10. OfferedUpto(y, n, b, w, now)
    BY <1>5, <1>7, <1>9 DEF OfferedUpto, u
<1> QED BY <1>3, <1>10

\* The offers of one allocation can all be taken, on top of a book within the caps.
LEMMA OffersAreTakeable ==
    ASSUME Limits, NEW b, IsBook(b), WithinCaps(b),
           NEW w \in Seq(Amount), \A i \in DOMAIN w : w[i].size > 0, NEW now
    PROVE  OfferedUpto(Greedy(b, w, now), Len(w), b, w, now)
<1>1. Len(w) \in Nat
    OBVIOUS
<1>2. PICK g : Greedy(b, w, now) = g[Len(w)] /\ PassIs(g, b, w, now)
    BY <1>1, GreedyIs
<1> DEFINE bad == {n \in 0 .. Len(w) : ~OfferedUpto(g[n], n, b, w, now)}
<1>3. bad = {}
  <2> SUFFICES ASSUME bad # {} PROVE FALSE
      OBVIOUS
  <2>1. PICK n \in bad : \A k \in bad : n <= k
    <3>1. bad \subseteq Nat
        BY <1>1
    <3> HIDE DEF bad
    <3> QED BY <3>1, LeastOf
  <2>2. n \in 0 .. Len(w) /\ ~OfferedUpto(g[n], n, b, w, now)
      BY <2>1
  <2>3. n # 0
    <3>1. IsBook(With(b, << >>)) /\ WithinCaps(With(b, << >>))
        BY WithNothing
    <3>2. OfferedUpto(<< >>, 0, b, w, now)
        BY <3>1 DEF OfferedUpto
    <3> QED BY <1>2, <2>2, <3>2 DEF PassIs
  <2>4. n \in 1 .. Len(w) /\ n - 1 \in 0 .. Len(w) /\ n - 1 < n
      BY <1>1, <2>2, <2>3
  <2>5. n - 1 \notin bad
      BY <2>1, <2>4
  <2>6. OfferedUpto(g[n - 1], n - 1, b, w, now)
      BY <2>4, <2>5
  <2>7. OfferedUpto(NextGiven(g[n - 1], b, w[n], now), n, b, w, now)
      BY <2>4, <2>6, OneMoreOffer
  <2>8. OfferedUpto(g[n], n, b, w, now)
      BY <1>2, <2>4, <2>7 DEF PassIs
  <2> QED BY <2>2, <2>8
<1>4. OfferedUpto(g[Len(w)], Len(w), b, w, now)
    BY <1>1, <1>3
<1> QED BY <1>2, <1>4

\* The candidates of a scan are positions of a size.
LEMMA CandidatesAre ==
    ASSUME IsFiniteSet(Coins), Requests \subseteq Nat \ {0}, NEW w \in Candidates
    PROVE  w \in Seq(Amount) /\ \A i \in DOMAIN w : w[i].size > 0
<1>1. PICK chosen \in SUBSET Coins :
        \E order \in SetToSeqs(chosen), side \in [chosen -> Sides], ask \in [chosen -> Requests] :
          w = [i \in DOMAIN order |-> Position(order[i], side[order[i]], ask[order[i]])]
    BY DEF Candidates
<1>2. PICK order \in SetToSeqs(chosen), side \in [chosen -> Sides], ask \in [chosen -> Requests] :
        w = [i \in DOMAIN order |-> Position(order[i], side[order[i]], ask[order[i]])]
    BY <1>1
<1>3. IsFiniteSet(chosen) /\ Cardinality(chosen) \in Nat
    BY FS_Subset, FS_CardinalityType
<1>4. DOMAIN order = 1 .. Cardinality(chosen) /\ \A i \in DOMAIN order : order[i] \in chosen
    BY DEF SetToSeqs
<1>5. \A i \in DOMAIN order : w[i] \in Amount /\ w[i].size > 0
  <2> SUFFICES ASSUME NEW i \in DOMAIN order PROVE w[i] \in Amount /\ w[i].size > 0
      OBVIOUS
  <2>1. order[i] \in Coins /\ side[order[i]] \in Sides /\ ask[order[i]] \in Nat \ {0}
      BY <1>4
  <2>2. w[i] = [sym |-> order[i], side |-> side[order[i]], size |-> ask[order[i]]]
      BY <1>2 DEF Position
  <2> QED BY <2>1, <2>2 DEF Amount
<1>6. DOMAIN w = DOMAIN order /\ w = [i \in DOMAIN order |-> w[i]]
    BY <1>2
<1>7. PICK n \in Nat : DOMAIN order = 1 .. n
    BY <1>3, <1>4
<1>8. w \in [1 .. n -> Amount]
    BY <1>5, <1>6, <1>7
<1>9. w \in Seq(Amount)
    BY <1>8, SeqDef
<1>10. \A i \in DOMAIN w : w[i].size > 0
    BY <1>5, <1>6
<1> QED BY <1>9, <1>10

\* The offers of any scan fit in what the runtime remembers.
LEMMA OffersDoFit ==
    ASSUME AllocationAssumption, IsBook(Book), WithinCaps(Book), NEW w \in Candidates
    PROVE  OffersFit(Book, w, Greedy(Book, w, cycle.at))
<1>1. Limits /\ IsFiniteSet(Coins) /\ Requests \subseteq Nat \ {0}
    BY DEF AllocationAssumption, Limits
<1>2. w \in Seq(Amount) /\ \A i \in DOMAIN w : w[i].size > 0
    BY <1>1, CandidatesAre
<1> DEFINE x == Greedy(Book, w, cycle.at)
<1>3. OfferedUpto(x, Len(w), Book, w, cycle.at)
    BY <1>1, <1>2, OffersAreTakeable
<1> HIDE DEF x
<1>4. DOMAIN w = 1 .. Len(w)
    BY <1>2
<1>5. OffersFit(Book, w, x)
    BY <1>3, <1>4 DEF OffersFit, OfferedUpto, Blocked
<1> QED BY <1>5 DEF x

\* A row of the campaign's ledger.
EntryRow == [sym : Coins, side : Sides, left : Nat, at : Nat, closed : Nat, pnl : Int, ok : BOOLEAN]
Wish == [sym : Coins, asked : Nat, given : Nat]

OpenRows == {i \in DOMAIN ledger : IsOpen(ledger[i])}

\* The runtime remembers every open position, but for the one just written.
Remembered ==
    \A i \in OpenRows :
      \/ held[ledger[i].sym] = OpenPositions[i]
      \/ cycle.pc = "opened" /\ ledger[i].sym = cycle.order.sym

CapsShape ==
    /\ clock \in Nat \ {0}
    /\ ledger \in Seq(EntryRow)
    /\ closings \in Seq(Nat) /\ \A n \in DOMAIN closings : closings[n] \in DOMAIN ledger
    /\ held \in [Coins -> Amount] /\ \A s \in Coins : held[s].sym = s
    /\ DOMAIN cycle = {"pc", "at", "todo", "order"}
    /\ cycle.pc \in {"idle", "allocate", "process", "submit", "opened"}
    /\ cycle.todo \subseteq Wish
    /\ cycle.pc \in {"submit", "opened"} => cycle.order \in Amount /\ cycle.order.size > 0

CapsInv ==
    /\ CapsShape
    /\ \A i \in OpenRows : ledger[i].left > 0
    /\ \A i, j \in OpenRows : ledger[i].sym = ledger[j].sym => i = j
    /\ WithinCaps(OpenPositions)
    /\ cycle.pc # "idle" => Remembered
    /\ cycle.pc = "opened" =>
         \A i \in OpenRows : ledger[i].sym = cycle.order.sym => OpenPositions[i] = cycle.order
    /\ cycle.pc = "allocate" => WithinCaps(Book)
    /\ cycle.pc = "submit" => /\ held[cycle.order.sym].size = 0
                              /\ HasPlace(Book, cycle.order.sym, cycle.order.side)
                              /\ cycle.order.size <= Room(Book, cycle.order.sym, cycle.order.side)

\* What the caps need to know of the constants.
LEMMA ConstantsAre ==
    ASSUME AllocationAssumption
    PROVE  /\ Limits /\ IsFiniteSet(Coins) /\ Requests \subseteq Nat \ {0}
           /\ Cooldown \in Nat /\ Loss \in Int /\ Gain \in Int
    BY DEF AllocationAssumption, Limits

\* The rows of the ledger are numbered and of their type.
LEMMA RowsAre ==
    ASSUME CapsShape
    PROVE  /\ Len(ledger) \in Nat /\ DOMAIN ledger = 1 .. Len(ledger)
           /\ IsFiniteSet(DOMAIN ledger)
           /\ \A i \in DOMAIN ledger : ledger[i] \in EntryRow
<1>1. ledger \in Seq(EntryRow)
    BY DEF CapsShape
<1> HIDE DEF EntryRow
<1>2. Len(ledger) \in Nat /\ DOMAIN ledger = 1 .. Len(ledger)
    BY <1>1
<1>3. IsFiniteSet(DOMAIN ledger)
    BY <1>2, UpTo
<1> QED BY <1>1, <1>2, <1>3

\* What is open is a book.
LEMMA OpenBook ==
    ASSUME CapsShape
    PROVE  /\ IsBook(OpenPositions) /\ DOMAIN OpenPositions = OpenRows
           /\ \A i \in OpenRows : /\ OpenPositions[i] \in Amount
                                  /\ OpenPositions[i].sym = ledger[i].sym
                                  /\ OpenPositions[i].side = ledger[i].side
                                  /\ OpenPositions[i].size = ledger[i].left
<1>1. DOMAIN OpenPositions = OpenRows
    BY DEF OpenPositions, OpenRows
<1>2. ASSUME NEW i \in OpenRows
      PROVE  /\ OpenPositions[i] \in Amount /\ OpenPositions[i].sym = ledger[i].sym
             /\ OpenPositions[i].side = ledger[i].side /\ OpenPositions[i].size = ledger[i].left
  <2>1. ledger[i] \in EntryRow
      BY RowsAre DEF OpenRows
  <2>2. OpenPositions[i] = [sym |-> ledger[i].sym, side |-> ledger[i].side, size |-> ledger[i].left]
      BY DEF OpenPositions, OpenRows, Position
  <2> QED BY <2>1, <2>2 DEF EntryRow, Amount
<1>3. IsFiniteSet(OpenRows)
    BY RowsAre, FS_Subset DEF OpenRows
<1>4. IsBook(OpenPositions)
    BY <1>1, <1>2, <1>3 DEF IsBook, Amount
<1> QED BY <1>1, <1>2, <1>4

\* What the runtime remembers is a book.
LEMMA HeldBook ==
    ASSUME CapsShape, IsFiniteSet(Coins)
    PROVE  /\ IsBook(Book) /\ DOMAIN Book = {s \in Coins : held[s].size > 0}
           /\ \A s \in DOMAIN Book : Book[s] = held[s] /\ held[s].sym = s
<1>1. DOMAIN Book = {s \in Coins : held[s].size > 0} /\ \A s \in DOMAIN Book : Book[s] = held[s]
    BY DEF Book
<1>2. \A s \in Coins : held[s] \in Amount /\ held[s].sym = s
    BY DEF CapsShape
<1>3. IsFiniteSet(DOMAIN Book)
    BY <1>1, FS_Subset
<1>4. \A s \in DOMAIN Book : Book[s].size \in Nat
    BY <1>1, <1>2 DEF Amount
<1> QED BY <1>1, <1>2, <1>3, <1>4 DEF IsBook

\* What is open fits in what is remembered.
LEMMA OpenFitsHeld ==
    ASSUME CapsInv, Remembered, IsFiniteSet(Coins), cycle.pc # "opened"
    PROVE  Fits(OpenPositions, [i \in OpenRows |-> ledger[i].sym], Book)
<1> DEFINE m == [i \in OpenRows |-> ledger[i].sym]
<1>1. CapsShape
    BY DEF CapsInv
<1>2. ASSUME NEW i \in OpenRows
      PROVE  /\ m[i] \in DOMAIN Book /\ Book[m[i]] = OpenPositions[i]
             /\ OpenPositions[i].size \in Nat
  <2>1. held[ledger[i].sym] = OpenPositions[i]
      BY DEF Remembered
  <2>2. OpenPositions[i].size > 0 /\ OpenPositions[i] \in Amount /\ OpenPositions[i].sym = ledger[i].sym
      BY <1>1, OpenBook DEF CapsInv
  <2>3. ledger[i].sym \in Coins
      BY <2>2 DEF Amount
  <2>4. ledger[i].sym \in DOMAIN Book
      BY <1>1, <2>1, <2>2, <2>3, HeldBook
  <2>5. Book[ledger[i].sym] = OpenPositions[i]
      BY <1>1, <2>1, <2>4, HeldBook
  <2> QED BY <2>2, <2>4, <2>5 DEF Amount
<1>3. \A i, j \in OpenRows : m[i] = m[j] => i = j
    BY DEF CapsInv
<1>4. DOMAIN OpenPositions = OpenRows
    BY <1>1, OpenBook
<1> HIDE DEF m
<1>5. \A i \in OpenRows : /\ OpenPositions[i].sym = Book[m[i]].sym
                          /\ OpenPositions[i].side = Book[m[i]].side
                          /\ OpenPositions[i].size <= Book[m[i]].size
    BY <1>2
<1>6. Fits(OpenPositions, m, Book)
    BY <1>2, <1>3, <1>4, <1>5 DEF Fits
<1> QED BY <1>6 DEF m

-----------------------------------------------------------------------------
\* A step that leaves the rows and the memory alone and decides nothing.
LEMMA SameBooks ==
    ASSUME CapsInv, UNCHANGED <<ledger, closings, held>>, clock' \in Nat \ {0},
           DOMAIN cycle' = {"pc", "at", "todo", "order"}, cycle'.todo \subseteq Wish,
           \/ cycle'.pc = "idle"
           \/ cycle'.pc = "process" /\ cycle.pc \in {"allocate", "process", "submit"}
    PROVE  CapsInv'
<1>1. CapsShape'
    BY DEF CapsInv, CapsShape
<1>2. OpenRows' = OpenRows /\ OpenPositions' = OpenPositions
    BY DEF OpenRows, OpenPositions
<1>3. WithinCaps(OpenPositions)'
    BY <1>2 DEF CapsInv
<1>4. (cycle.pc # "idle" => Remembered)'
    BY <1>2 DEF CapsInv, Remembered
<1> QED BY <1>1, <1>2, <1>3, <1>4 DEF CapsInv

\* The memory is rebuilt from the open rows.
LEMMA ScansKeepCaps ==
    ASSUME AllocationAssumption, CapsInv, ScanBegin
    PROVE  CapsInv'
<1>1. /\ CapsShape /\ CapsShape' /\ Limits /\ IsFiniteSet(Coins)
      /\ UNCHANGED <<clock, ledger, closings>>
      /\ cycle'.pc = "allocate"
  <2>1. /\ CapsShape /\ UNCHANGED <<clock, ledger, closings>> /\ Limits /\ IsFiniteSet(Coins)
      BY ConstantsAre DEF CapsInv, ScanBegin
  <2>2. cycle'.pc = "allocate" /\ cycle'.todo = {} /\ DOMAIN cycle' = {"pc", "at", "todo", "order"}
      BY DEF ScanBegin, Idle
  <2>3. ASSUME NEW s \in Coins
        PROVE  held'[s] \in Amount /\ held'[s].sym = s
    <3>1. CASE OpenRow(s) = {}
      <4>1. held'[s] = [sym |-> s, side |-> "LONG", size |-> 0]
          BY <3>1 DEF ScanBegin, Nothing, Position
      <4> QED BY <4>1 DEF Amount, Sides
    <3>2. CASE OpenRow(s) # {}
      <4> DEFINE i == CHOOSE j \in OpenRow(s) : TRUE
      <4>1. i \in OpenRow(s)
          BY <3>2
      <4>2. held'[s] = [sym |-> s, side |-> ledger[i].side, size |-> ledger[i].left]
          BY <3>2 DEF ScanBegin, Position
      <4> HIDE DEF i
      <4>3. ledger[i] \in EntryRow
          BY <2>1, <4>1, RowsAre DEF OpenRow, Entries
      <4> QED BY <4>2, <4>3 DEF Amount, EntryRow
    <3> QED BY <3>1, <3>2
  <2>4. held' \in [Coins -> Amount]
    <3>1. held' = [s \in Coins |-> held'[s]]
        BY DEF ScanBegin
    <3> QED BY <2>3, <3>1
  <2>5. CapsShape'
      BY <2>1, <2>2, <2>3, <2>4 DEF CapsShape
  <2> QED BY <2>1, <2>2, <2>5
<1>2. OpenRows' = OpenRows /\ OpenPositions' = OpenPositions
    BY <1>1 DEF OpenRows, OpenPositions
<1>3. ASSUME NEW s \in Coins, OpenRow(s) # {}
      PROVE  \E i \in OpenRows : ledger[i].sym = s /\ held'[s] = OpenPositions[i]
  <2> DEFINE i == CHOOSE j \in OpenRow(s) : TRUE
  <2>1. i \in OpenRow(s)
      BY <1>3
  <2>2. held'[s] = [sym |-> s, side |-> ledger[i].side, size |-> ledger[i].left]
      BY <1>3 DEF ScanBegin, Position
  <2> HIDE DEF i
  <2>3. i \in OpenRows /\ ledger[i].sym = s
      BY <2>1 DEF OpenRow, OpenRows, Entries
  <2>4. OpenPositions[i] = [sym |-> ledger[i].sym, side |-> ledger[i].side, size |-> ledger[i].left]
      BY <2>3 DEF OpenPositions, OpenRows, Position
  <2> QED BY <2>2, <2>3, <2>4
<1>4. Remembered'
  <2> SUFFICES ASSUME NEW i \in OpenRows PROVE held'[ledger[i].sym] = OpenPositions[i]
      BY <1>1, <1>2 DEF Remembered
  <2>1. ledger[i].sym \in Coins
      BY <1>1, RowsAre DEF OpenRows, EntryRow
  <2>2. OpenRow(ledger[i].sym) # {}
      BY DEF OpenRow, OpenRows, Entries
  <2>3. PICK j \in OpenRows : ledger[j].sym = ledger[i].sym /\ held'[ledger[i].sym] = OpenPositions[j]
      BY <1>3, <2>1, <2>2
  <2>4. j = i
      BY <2>3 DEF CapsInv
  <2> QED BY <2>3, <2>4
<1>5. WithinCaps(Book)'
  <2> DEFINE B == Book'
             row(s) == CHOOSE i \in OpenRows : ledger[i].sym = s /\ held'[s] = OpenPositions[i]
             m == [s \in DOMAIN B |-> row(s)]
  <2>1. /\ IsBook(B) /\ DOMAIN B = {s \in Coins : held'[s].size > 0}
        /\ \A s \in DOMAIN B : B[s] = held'[s] /\ held'[s].sym = s
    <3>1. B = [s \in {t \in Coins : held'[t].size > 0} |-> held'[s]]
        BY DEF Book
    <3> HIDE DEF B
    <3>2. \A s \in Coins : held'[s] \in Amount /\ held'[s].sym = s
        BY <1>1 DEF CapsShape
    <3>3. DOMAIN B = {s \in Coins : held'[s].size > 0} /\ \A s \in DOMAIN B : B[s] = held'[s]
        BY <3>1
    <3>4. IsFiniteSet(DOMAIN B)
        BY <1>1, <3>3, FS_Subset
    <3>5. \A s \in DOMAIN B : B[s].size \in Nat
        BY <3>2, <3>3 DEF Amount
    <3> QED BY <3>2, <3>3, <3>4, <3>5 DEF IsBook
  <2> HIDE DEF B
  <2>2. ASSUME NEW s \in DOMAIN B
        PROVE  row(s) \in OpenRows /\ ledger[row(s)].sym = s /\ B[s] = OpenPositions[row(s)]
    <3>1. s \in Coins /\ held'[s].size > 0 /\ B[s] = held'[s]
        BY <2>1
    <3>2. OpenRow(s) # {}
      <4>1. OpenRow(s) = {} => held'[s].size = 0
          BY <3>1 DEF ScanBegin, Nothing, Position
      <4> QED BY <3>1, <4>1
    <3>3. \E i \in OpenRows : ledger[i].sym = s /\ held'[s] = OpenPositions[i]
        BY <1>3, <3>1, <3>2
    <3> QED BY <3>1, <3>3
  <2> HIDE DEF row
  <2>3. \A s \in DOMAIN B : m[s] = row(s)
      OBVIOUS
  <2> HIDE DEF m
  <2>4. IsBook(OpenPositions) /\ DOMAIN OpenPositions = OpenRows
      BY <1>1, OpenBook
  <2>5. \A s \in DOMAIN B : B[s].size \in Nat
      BY <2>1 DEF IsBook
  <2>6. Fits(B, m, OpenPositions)
    <3>1. \A s, t \in DOMAIN B : m[s] = m[t] => s = t
        BY <2>2, <2>3
    <3> QED BY <2>2, <2>3, <2>4, <2>5, <3>1 DEF Fits
  <2>7. WithinCaps(OpenPositions)
      BY DEF CapsInv
  <2>8. WithinCaps(B)
      BY <1>1, <2>1, <2>4, <2>6, <2>7, SmallerBook
  <2> QED BY <2>8 DEF B
<1>6. WithinCaps(OpenPositions)'
    BY <1>2 DEF CapsInv
<1>7. (\A i \in OpenRows : ledger[i].left > 0)' /\ (\A i, j \in OpenRows : ledger[i].sym = ledger[j].sym => i = j)'
    BY <1>1, <1>2 DEF CapsInv
<1> QED BY <1>1, <1>4, <1>5, <1>6, <1>7 DEF CapsInv

History0 == [equity |-> Equity0, peak |-> Equity0, daily |-> 0, losses |-> 0, symLosses |-> 0]
Histories == [equity : Int, peak : Int, daily : Int, losses : Nat, symLosses : Nat]

\* What one closing adds to the history.
Closing(h, row, s, now) ==
    [equity |-> h.equity + row.pnl, peak |-> Most(h.peak, h.equity + row.pnl),
     daily |-> h.daily + IF DayOf(row.closed) = DayOf(now) THEN row.pnl ELSE 0,
     losses |-> Streak(h.losses, row.pnl),
     symLosses |-> IF row.sym = s THEN Streak(h.symLosses, row.pnl) ELSE h.symLosses]

\* A closing leaves a history a history.
LEMMA ClosingAdds ==
    ASSUME NEW h \in Histories, NEW row, row.pnl \in Int, NEW s, NEW now
    PROVE  Closing(h, row, s, now) \in Histories
<1>1. /\ h.equity \in Int /\ h.peak \in Int /\ h.daily \in Int
      /\ h.losses \in Nat /\ h.symLosses \in Nat
    BY DEF Histories
<1>2. /\ h.equity + row.pnl \in Int /\ Most(h.peak, h.equity + row.pnl) \in Int
      /\ Streak(h.losses, row.pnl) \in Nat /\ Streak(h.symLosses, row.pnl) \in Nat
    BY <1>1 DEF Most, Streak
<1>3. h.daily + (IF DayOf(row.closed) = DayOf(now) THEN row.pnl ELSE 0) \in Int
    BY <1>1
<1> QED BY <1>1, <1>2, <1>3 DEF Histories, Closing

IsHistory(g, s, now) ==
    g = [n \in 0 .. Len(closings) |-> IF n = 0 THEN History0
                                      ELSE Closing(g[n - 1], ledger[closings[n]], s, now)]

\* The history of the closings exists, closing by closing.
LEMMA HistoryExists ==
    ASSUME CapsShape, Equity0 \in Int, NEW s, NEW now
    PROVE  \E g : IsHistory(g, s, now)
<1> DEFINE N == Len(closings)
           F == [p \in (1 .. N) \X Histories |-> Closing(p[2], ledger[closings[p[1]]], s, now)]
<1>1. N \in Nat /\ \A n \in 1 .. N : ledger[closings[n]].pnl \in Int
  <2>1. closings \in Seq(Nat) /\ \A n \in DOMAIN closings : closings[n] \in DOMAIN ledger
      BY DEF CapsShape
  <2>2. N \in Nat /\ DOMAIN closings = 1 .. N
      BY <2>1
  <2>3. \A i \in DOMAIN ledger : ledger[i].pnl \in Int
      BY RowsAre DEF EntryRow
  <2> HIDE DEF N
  <2> QED BY <2>1, <2>2, <2>3
<1> HIDE DEF N
<1>2. F \in [(1 .. N) \X Histories -> Histories]
  <2>1. ASSUME NEW p \in (1 .. N) \X Histories
        PROVE  Closing(p[2], ledger[closings[p[1]]], s, now) \in Histories
      BY <1>1, ClosingAdds
  <2> QED BY <2>1
<1>3. History0 \in Histories
    BY DEF History0, Histories
<1>4. \A n \in 1 .. N, h \in Histories : F[<<n, h>>] = Closing(h, ledger[closings[n]], s, now)
    OBVIOUS
<1> HIDE DEF F
<1>5. PICK g \in [0 .. N -> Histories] : Steps(g, N, History0, F)
    BY <1>1, <1>2, <1>3, StepsExist
<1> USE DEF Steps
<1>6. ASSUME NEW n \in 0 .. N
      PROVE  g[n] = IF n = 0 THEN History0 ELSE Closing(g[n - 1], ledger[closings[n]], s, now)
  <2>1. CASE n = 0
      BY <1>5, <2>1
  <2>2. CASE n # 0
    <3>1. n \in 1 .. N /\ n - 1 \in 0 .. N
        BY <1>1, <2>2
    <3>2. g[n - 1] \in Histories
        BY <3>1
    <3>3. g[n] = F[<<n, g[n - 1]>>]
        BY <1>5, <3>1
    <3> QED BY <1>4, <2>2, <3>1, <3>2, <3>3
  <2> QED BY <2>1, <2>2
<1>7. g = [n \in 0 .. N |-> g[n]]
    OBVIOUS
<1>8. g = [n \in 0 .. N |-> IF n = 0 THEN History0 ELSE Closing(g[n - 1], ledger[closings[n]], s, now)]
    BY <1>6, <1>7
<1> QED BY <1>8 DEF IsHistory, N

\* The history of an account is one of integers.
LEMMA RealizedIs ==
    ASSUME CapsShape, Equity0 \in Int, NEW s, NEW now
    PROVE  Realized(s, now) \in Histories
<1> DEFINE N == Len(closings)
           step(g) == [n \in 0 .. N |-> IF n = 0 THEN History0
                                        ELSE Closing(g[n - 1], ledger[closings[n]], s, now)]
           after == CHOOSE g : g = step(g)
<1>1. Realized(s, now) = after[N]
    BY DEF Realized, History0, Closing
<1>2. PICK g : IsHistory(g, s, now)
    BY HistoryExists
<1>3. g = step(g)
    BY <1>2 DEF IsHistory
<1> HIDE DEF step
<1>4. after = step(after)
    BY <1>3
<1> HIDE DEF after
<1>5. N \in Nat /\ \A n \in 1 .. N : ledger[closings[n]].pnl \in Int
  <2>1. closings \in Seq(Nat) /\ \A n \in DOMAIN closings : closings[n] \in DOMAIN ledger
      BY DEF CapsShape
  <2>2. N \in Nat /\ DOMAIN closings = 1 .. N
      BY <2>1
  <2>3. \A i \in DOMAIN ledger : ledger[i].pnl \in Int
      BY RowsAre DEF EntryRow
  <2> HIDE DEF N
  <2> QED BY <2>1, <2>2, <2>3
<1> HIDE DEF N
<1>6. ASSUME NEW n \in 0 .. N
      PROVE  after[n] = IF n = 0 THEN History0 ELSE Closing(after[n - 1], ledger[closings[n]], s, now)
  <2> DEFINE v(k) == IF k = 0 THEN History0 ELSE Closing(after[k - 1], ledger[closings[k]], s, now)
             f == [k \in 0 .. N |-> v(k)]
  <2>1. after = f
      BY <1>4 DEF step
  <2> HIDE DEF v
  <2>2. f[n] = v(n)
      OBVIOUS
  <2> HIDE DEF f
  <2> QED BY <2>1, <2>2 DEF v
<1> DEFINE bad == {n \in 0 .. N : after[n] \notin Histories}
<1>7. bad = {}
  <2> SUFFICES ASSUME bad # {} PROVE FALSE
      OBVIOUS
  <2>1. PICK n \in bad : \A k \in bad : n <= k
    <3>1. bad \subseteq Nat
        OBVIOUS
    <3> HIDE DEF bad
    <3> QED BY <3>1, LeastOf
  <2>2. n \in 0 .. N /\ after[n] \notin Histories
      BY <2>1
  <2>3. n # 0
    <3>1. History0 \in Histories
        BY DEF History0, Histories
    <3> QED BY <1>6, <2>2, <3>1
  <2>4. n \in 1 .. N /\ n - 1 \in 0 .. N /\ n - 1 < n
      BY <1>5, <2>2, <2>3
  <2>5. n - 1 \notin bad
    <3> HIDE DEF bad
    <3>1. n - 1 \in bad => n <= n - 1
        BY <2>1
    <3> QED BY <2>4, <3>1
  <2>6. after[n - 1] \in Histories
      BY <2>4, <2>5
  <2>7. Closing(after[n - 1], ledger[closings[n]], s, now) \in Histories
      BY <1>5, <2>4, <2>6, ClosingAdds
  <2> QED BY <1>6, <2>2, <2>3, <2>7
<1>8. after[N] \in Histories
    BY <1>5, <1>7
<1> QED BY <1>1, <1>8 DEF N

-----------------------------------------------------------------------------
\* A decision has judged the order against what is remembered.
LEMMA DecisionsKeepCaps ==
    ASSUME AllocationAssumption, CapsInv, NEW c \in cycle.todo, Decide(c)
    PROVE  CapsInv'
<1>1. /\ CapsShape /\ UNCHANGED <<clock, ledger, closings, held>> /\ cycle.pc = "process"
      /\ c \in Wish /\ held[c.sym].size = 0
    BY DEF CapsInv, CapsShape, Decide, RuntimeRisk
<1>2. /\ Limits /\ IsFiniteSet(Coins) /\ Requests \subseteq Nat \ {0} /\ Equity0 \in Int
      /\ IsBook(Book)
    BY <1>1, ConstantsAre, HeldBook DEF AllocationAssumption
<1>3. PICK side \in Sides, softened \in BOOLEAN :
        \E chosen \in {c.asked} \cup {RiskBasedSize(raw, c.sym, side) : raw \in Requests} :
          LET order == Position(c.sym, side, Least(Scaled(chosen, softened), c.given))
          IN  /\ chosen > 0
              /\ PassesPortfolio(Book, order, clock)
              /\ cycle' = [cycle EXCEPT !.pc = "submit", !.order = order, !.todo = @ \ {c}]
    BY DEF Decide
<1>4. PICK chosen \in {c.asked} \cup {RiskBasedSize(raw, c.sym, side) : raw \in Requests} :
        LET order == Position(c.sym, side, Least(Scaled(chosen, softened), c.given))
        IN  /\ chosen > 0
            /\ PassesPortfolio(Book, order, clock)
            /\ cycle' = [cycle EXCEPT !.pc = "submit", !.order = order, !.todo = @ \ {c}]
    BY <1>3
<1> DEFINE size == Least(Scaled(chosen, softened), c.given)
           order == Position(c.sym, side, size)
<1>5. PassesPortfolio(Book, order, clock)
    BY <1>4
<1>6. cycle' = [cycle EXCEPT !.pc = "submit", !.order = order, !.todo = @ \ {c}]
    BY <1>4
<1>7. size \in Int
  <2>1. chosen \in Int
    <3>1. ASSUME NEW raw \in Requests PROVE RiskBasedSize(raw, c.sym, side) \in Int
      <4>1. raw \in Int
          BY <1>2
      <4>2. Room(Book, c.sym, side) \in Int
          BY <1>2, RoomIsInt
      <4>3. Realized(c.sym, clock).equity \in Int
          BY <1>1, <1>2, RealizedIs DEF Histories
      <4> QED BY <4>1, <4>2, <4>3 DEF RiskBasedSize, Least
    <3>2. c.asked \in Int
        BY <1>1 DEF Wish
    <3> QED BY <3>1, <3>2
  <2>2. c.given \in Int
      BY <1>1 DEF Wish
  <2>3. Scaled(chosen, softened) \in Int
      BY <2>1 DEF Scaled
  <2> QED BY <2>2, <2>3 DEF Least
<1> HIDE DEF size
<1>8. /\ order.sym = c.sym /\ order.side = side /\ order.size = size
      /\ order = [sym |-> c.sym, side |-> side, size |-> size]
    BY DEF Position
<1> HIDE DEF order
<1>9. /\ order.size > 0 /\ HasPlace(Book, order.sym, order.side)
      /\ order.size <= Room(Book, order.sym, order.side)
    BY <1>5 DEF PassesPortfolio, Accepted
<1>10. order \in Amount
  <2>1. size \in Nat
      BY <1>7, <1>8, <1>9
  <2>2. c.sym \in Coins
      BY <1>1 DEF Wish
  <2> QED BY <1>8, <2>1, <2>2 DEF Amount
<1>11. /\ DOMAIN cycle' = {"pc", "at", "todo", "order"}
       /\ cycle'.pc = "submit" /\ cycle'.order = order /\ cycle'.todo \subseteq cycle.todo
  <2>1. DOMAIN cycle = {"pc", "at", "todo", "order"}
      BY <1>1 DEF CapsShape
  <2> QED BY <1>6, <2>1
<1>12. CapsShape'
    BY <1>1, <1>9, <1>10, <1>11 DEF CapsShape
<1>13. OpenRows' = OpenRows /\ OpenPositions' = OpenPositions /\ Book' = Book
    BY <1>1 DEF OpenRows, OpenPositions, Book
<1>14. Remembered'
  <2>1. Remembered
      BY <1>1 DEF CapsInv
  <2> QED BY <1>1, <1>11, <1>13, <2>1 DEF Remembered
<1>15. WithinCaps(OpenPositions)'
    BY <1>13 DEF CapsInv
<1>16. /\ held[order.sym].size = 0
       /\ HasPlace(Book, order.sym, order.side)' /\ Room(Book, order.sym, order.side)' = Room(Book, order.sym, order.side)
    BY <1>1, <1>8, <1>9, <1>13
<1> QED
    BY <1>1, <1>9, <1>11, <1>12, <1>13, <1>14, <1>15, <1>16 DEF CapsInv

\* Nothing is remembered.
LEMMA NothingIs == Nothing \in [Coins -> Amount] /\ \A s \in Coins : Nothing[s].sym = s
<1>1. "LONG" \in Sides /\ 0 \in Nat
    BY DEF Sides
<1>2. ASSUME NEW s \in Coins PROVE Nothing[s] \in Amount /\ Nothing[s].sym = s
  <2>1. Nothing[s] = [sym |-> s, side |-> "LONG", size |-> 0]
      BY DEF Nothing, Position
  <2> QED BY <1>1, <2>1 DEF Amount
<1>3. Nothing = [s \in Coins |-> Nothing[s]]
    BY DEF Nothing
<1> QED BY <1>2, <1>3

\* A number above the others.
LEMMA NextNumber ==
    ASSUME NEW n \in Nat
    PROVE  1 .. n + 1 = (1 .. n) \cup {n + 1} /\ n + 1 \notin 1 .. n
    OBVIOUS

\* The steps that leave the open rows alone and are not about one order.
LEMMA QuietStepsKeepCaps ==
    ASSUME AllocationAssumption, CapsInv, Allocate \/ Cancel \/ ScanEnd \/ Restart \/ Tick
    PROVE  CapsInv'
<1>1. CapsShape
    BY DEF CapsInv
<1>2. CASE Allocate /\ AllocateJointly
  <2>1. UNCHANGED <<clock, ledger, closings, held>> /\ cycle.pc = "allocate"
      BY <1>2 DEF Allocate
  <2> DEFINE given(w) == Greedy(Book, w, cycle.at)
             Todo(w) == {[sym |-> w[i].sym, asked |-> w[i].size, given |-> given(w)[i].size]
                         : i \in {k \in DOMAIN w : given(w)[k].size > 0}}
  <2>2. PICK w \in Candidates :
          cycle' = [cycle EXCEPT !.pc = "process", !.at = 0, !.todo = Todo(w)]
      BY <1>2, Zenon DEF AllocateJointly
  <2>3. Todo(w) \subseteq Wish
    <3>1. w \in Seq(Amount) /\ \A i \in DOMAIN w : w[i].size > 0
        BY ConstantsAre, CandidatesAre
    <3>2. given(w) \in Seq(Amount) /\ Len(given(w)) = Len(w)
      <4>1. Limits /\ IsBook(Book) /\ WithinCaps(Book)
          BY <1>1, <2>1, ConstantsAre, HeldBook DEF CapsInv
      <4>2. OfferedUpto(Greedy(Book, w, cycle.at), Len(w), Book, w, cycle.at)
          BY <3>1, <4>1, OffersAreTakeable
      <4> QED BY <4>2 DEF OfferedUpto
    <3> HIDE DEF given
    <3>3. \A k \in DOMAIN w : w[k] \in Amount /\ given(w)[k] \in Amount
      <4>1. PICK x : x = given(w)
          OBVIOUS
      <4>2. x \in Seq(Amount) /\ Len(x) = Len(w)
          BY <3>2, <4>1
      <4>3. DOMAIN x = DOMAIN w
          BY <3>1, <4>2
      <4>4. \A k \in DOMAIN w : w[k] \in Amount /\ x[k] \in Amount
        <5>1. DOMAIN w = 1 .. Len(w) /\ DOMAIN x = 1 .. Len(x)
            BY <3>1, <4>2
        <5> QED BY <3>1, <4>2, <4>3, <5>1, ElementOfSeq
      <4> QED BY <4>1, <4>4
    <3> QED BY <3>3 DEF Amount, Wish
  <2> HIDE DEF Todo
  <2>4. /\ DOMAIN cycle' = {"pc", "at", "todo", "order"}
        /\ cycle'.pc = "process" /\ cycle'.todo = Todo(w)
      BY <1>1, <2>2 DEF CapsShape
  <2>5. clock' \in Nat \ {0}
      BY <1>1, <2>1 DEF CapsShape
  <2> QED BY <2>1, <2>3, <2>4, <2>5, SameBooks
<1>3. Idle.pc = "idle" /\ Idle.todo = {} /\ DOMAIN Idle = {"pc", "at", "todo", "order"}
    BY DEF Idle
<1>4. CASE (Allocate \/ ScanEnd) /\ cycle' = Idle
  <2>1. UNCHANGED <<clock, ledger, closings, held>>
      BY <1>4 DEF Allocate, ScanEnd
  <2>2. clock' \in Nat \ {0}
      BY <1>1, <2>1 DEF CapsShape
  <2> QED BY <1>3, <1>4, <2>1, <2>2, SameBooks
<1>5. CASE Cancel
  <2>1. UNCHANGED <<clock, ledger, closings, held>> /\ cycle.pc = "submit"
      BY <1>5 DEF Cancel
  <2>2. /\ DOMAIN cycle' = {"pc", "at", "todo", "order"}
        /\ cycle'.pc = "process" /\ cycle'.todo = cycle.todo
      BY <1>1, <1>5 DEF Cancel, CapsShape
  <2>3. clock' \in Nat \ {0} /\ cycle'.todo \subseteq Wish
      BY <1>1, <2>1, <2>2 DEF CapsShape
  <2> QED BY <2>1, <2>2, <2>3, SameBooks
<1>6. CASE Tick
  <2>1. UNCHANGED <<ledger, closings, held, cycle>> /\ clock' \in Nat \ {0}
      BY <1>1, <1>6 DEF Tick, CapsShape
  <2>2. OpenRows' = OpenRows /\ OpenPositions' = OpenPositions /\ Book' = Book
      BY <2>1 DEF OpenRows, OpenPositions, Book
  <2>3. CapsShape'
      BY <1>1, <2>1 DEF CapsShape
  <2>4. WithinCaps(OpenPositions)' /\ WithinCaps(Book)' = WithinCaps(Book)
      BY <2>2 DEF CapsInv
  <2>5. HasPlace(Book, cycle.order.sym, cycle.order.side)' = HasPlace(Book, cycle.order.sym, cycle.order.side)
        /\ Room(Book, cycle.order.sym, cycle.order.side)' = Room(Book, cycle.order.sym, cycle.order.side)
      BY <2>1, <2>2
  <2>6. Remembered' = Remembered
      BY <2>1, <2>2 DEF Remembered
  <2> QED BY <2>1, <2>2, <2>3, <2>4, <2>5, <2>6 DEF CapsInv
<1>7. CASE Restart
  <2>1. UNCHANGED <<clock, ledger, closings>> /\ held' = Nothing /\ cycle' = Idle
      BY <1>7 DEF Restart
  <2>2. held' \in [Coins -> Amount] /\ \A s \in Coins : held'[s].sym = s
      BY <2>1, NothingIs
  <2>3. CapsShape'
      BY <1>1, <1>3, <2>1, <2>2 DEF CapsShape
  <2>4. OpenRows' = OpenRows /\ OpenPositions' = OpenPositions
      BY <2>1 DEF OpenRows, OpenPositions
  <2>5. WithinCaps(OpenPositions)'
      BY <2>4 DEF CapsInv
  <2> QED BY <1>3, <2>1, <2>3, <2>4, <2>5 DEF CapsInv
<1> QED BY <1>2, <1>4, <1>5, <1>6, <1>7 DEF Allocate, ScanEnd

\* An order that fits in what is remembered fits in what is open.
LEMMA EntriesKeepCaps ==
    ASSUME AllocationAssumption, CapsInv, PersistPosition
    PROVE  CapsInv'
<1> DEFINE o == cycle.order
           n == Len(ledger)
           row == [sym |-> o.sym, side |-> o.side, left |-> o.size,
                   at |-> clock, closed |-> 0, pnl |-> 0, ok |-> FALSE]
<1>1. /\ CapsShape /\ cycle.pc = "submit" /\ ledger' = Append(ledger, row)
      /\ cycle' = [cycle EXCEPT !.pc = "opened"] /\ UNCHANGED <<clock, closings, held>>
    BY DEF CapsInv, PersistPosition
<1>2. Limits /\ IsFiniteSet(Coins)
    BY ConstantsAre
<1>3. /\ o \in Amount /\ o.size > 0 /\ held[o.sym].size = 0
      /\ HasPlace(Book, o.sym, o.side) /\ o.size <= Room(Book, o.sym, o.side)
      /\ Remembered /\ WithinCaps(OpenPositions)
    BY <1>1 DEF CapsInv, CapsShape
<1>4. /\ n \in Nat /\ DOMAIN ledger = 1 .. n /\ ledger \in Seq(EntryRow)
      /\ \A i \in DOMAIN ledger : ledger[i] \in EntryRow
    BY <1>1, RowsAre DEF CapsShape
<1>5. row \in EntryRow /\ IsOpen(row) /\ row.sym = o.sym /\ row.left = o.size
  <2>1. o.sym \in Coins /\ o.side \in Sides /\ o.size \in Nat /\ clock \in Nat
      BY <1>1, <1>3 DEF Amount, CapsShape
  <2> QED BY <2>1 DEF EntryRow, IsOpen
<1>6. Position(row.sym, row.side, row.left) = o
    BY <1>3 DEF Position, Amount
<1> HIDE DEF row, n, o
<1>7. /\ ledger' \in Seq(EntryRow) /\ DOMAIN ledger' = 1 .. n + 1 /\ ledger'[n + 1] = row
      /\ \A i \in 1 .. n : ledger'[i] = ledger[i]
    BY <1>1, <1>4, <1>5, AppendProperties DEF n
<1>8. /\ DOMAIN ledger' = DOMAIN ledger \cup {n + 1} /\ n + 1 \notin DOMAIN ledger
      /\ \A i \in DOMAIN ledger : ledger'[i] = ledger[i]
  <2>1. 1 .. n + 1 = (1 .. n) \cup {n + 1} /\ n + 1 \notin 1 .. n
      BY <1>4, NextNumber
  <2> QED BY <1>4, <1>7, <2>1
<1>9. CapsShape'
  <2>1. /\ DOMAIN cycle' = {"pc", "at", "todo", "order"} /\ cycle'.pc = "opened"
        /\ cycle'.todo = cycle.todo /\ cycle'.order = o
      BY <1>1 DEF CapsShape, o
  <2>2. \A k \in DOMAIN closings : closings[k] \in DOMAIN ledger'
      BY <1>1, <1>8 DEF CapsShape
  <2> QED BY <1>1, <1>3, <1>7, <2>1, <2>2 DEF CapsShape
<1>10. OpenRows' = OpenRows \cup {n + 1} /\ n + 1 \notin OpenRows
    BY <1>5, <1>7, <1>8 DEF OpenRows
<1>11. Grows(OpenPositions, n + 1, o, OpenPositions')
  <2>1. DOMAIN OpenPositions = OpenRows /\ DOMAIN OpenPositions' = OpenRows'
      BY DEF OpenPositions, OpenRows
  <2>2. OpenPositions'[n + 1] = o
    <3>1. n + 1 \in {j \in DOMAIN ledger' : IsOpen(ledger'[j])}
        BY <1>10 DEF OpenRows
    <3>2. OpenPositions'[n + 1] = Position(ledger'[n + 1].sym, ledger'[n + 1].side, ledger'[n + 1].left)
        BY <3>1 DEF OpenPositions
    <3> QED BY <1>6, <1>7, <3>2
  <2>3. \A i \in OpenRows : OpenPositions'[i] = OpenPositions[i]
    <3> SUFFICES ASSUME NEW i \in OpenRows PROVE OpenPositions'[i] = OpenPositions[i]
        OBVIOUS
    <3>1. i \in DOMAIN ledger /\ IsOpen(ledger[i]) /\ ledger'[i] = ledger[i] /\ i \in DOMAIN ledger'
        BY <1>8 DEF OpenRows
    <3>2. OpenPositions[i] = Position(ledger[i].sym, ledger[i].side, ledger[i].left)
        BY <3>1 DEF OpenPositions
    <3>3. OpenPositions'[i] = Position(ledger'[i].sym, ledger'[i].side, ledger'[i].left)
        BY <3>1 DEF OpenPositions
    <3> QED BY <3>1, <3>2, <3>3
  <2> QED BY <1>10, <2>1, <2>2, <2>3 DEF Grows
<1>12. WithinCaps(OpenPositions')
  <2>1. /\ IsBook(OpenPositions) /\ IsBook(Book)
        /\ Fits(OpenPositions, [i \in OpenRows |-> ledger[i].sym], Book)
      BY <1>1, <1>2, <1>3, OpenBook, HeldBook, OpenFitsHeld
  <2>2. /\ Room(OpenPositions, o.sym, o.side) \in Int /\ Room(Book, o.sym, o.side) \in Int
        /\ Room(Book, o.sym, o.side) <= Room(OpenPositions, o.sym, o.side)
        /\ HasPlace(OpenPositions, o.sym, o.side)
      BY <1>2, <1>3, <2>1, SmallerBook
  <2>3. o.size \in Nat /\ o.size <= Room(OpenPositions, o.sym, o.side)
      BY <1>3, <2>2 DEF Amount
  <2> QED BY <1>2, <1>3, <1>11, <2>1, <2>2, <2>3, GrownBook
<1>13. \A i \in OpenRows : ledger[i].sym # o.sym
  <2> SUFFICES ASSUME NEW i \in OpenRows, ledger[i].sym = o.sym PROVE FALSE
      OBVIOUS
  <2>1. held[o.sym] = OpenPositions[i]
      BY <1>1, <1>3 DEF Remembered
  <2>2. OpenPositions[i].size > 0
      BY <1>1, OpenBook DEF CapsInv
  <2> QED BY <1>3, <2>1, <2>2
<1>14. cycle'.pc = "opened" /\ cycle'.order = o
    BY <1>1 DEF CapsShape, o
<1>15. (\A i \in OpenRows : ledger[i].left > 0)'
  <2>1. \A i \in OpenRows : ledger'[i].left > 0
      BY <1>8 DEF CapsInv, OpenRows
  <2> QED BY <1>3, <1>5, <1>7, <1>10, <2>1
<1>16. (\A i, j \in OpenRows : ledger[i].sym = ledger[j].sym => i = j)'
  <2>1. \A i \in OpenRows : ledger'[i] = ledger[i]
      BY <1>8 DEF OpenRows
  <2>2. \A i, j \in OpenRows : ledger[i].sym = ledger[j].sym => i = j
      BY DEF CapsInv
  <2>3. ledger'[n + 1].sym = o.sym
      BY <1>5, <1>7
  <2> QED BY <1>10, <1>13, <2>1, <2>2, <2>3
<1>17. Remembered'
  <2> SUFFICES ASSUME NEW i \in OpenRows'
               PROVE  \/ held'[ledger'[i].sym] = OpenPositions'[i]
                      \/ cycle'.pc = "opened" /\ ledger'[i].sym = cycle'.order.sym
      BY DEF Remembered
  <2>1. CASE i = n + 1
      BY <1>5, <1>7, <1>14, <2>1
  <2>2. CASE i \in OpenRows
    <3>1. held[ledger[i].sym] = OpenPositions[i]
        BY <1>1, <1>3, <2>2 DEF Remembered
    <3>2. ledger'[i] = ledger[i] /\ OpenPositions'[i] = OpenPositions[i]
      <4>1. DOMAIN OpenPositions = OpenRows
          BY DEF OpenPositions, OpenRows
      <4> QED BY <1>8, <1>11, <2>2, <4>1 DEF OpenRows, Grows
    <3> QED BY <1>1, <3>1, <3>2
  <2> QED BY <1>10, <2>1, <2>2
<1>18. (\A i \in OpenRows : ledger[i].sym = cycle.order.sym => OpenPositions[i] = cycle.order)'
  <2>1. \A i \in OpenRows : ledger'[i].sym # o.sym
      BY <1>8, <1>13 DEF OpenRows
  <2>2. OpenPositions'[n + 1] = o
      BY <1>11 DEF Grows
  <2> QED BY <1>10, <1>14, <2>1, <2>2
<1> QED BY <1>9, <1>12, <1>14, <1>15, <1>16, <1>17, <1>18 DEF CapsInv

\* The position just written is remembered, and nothing else forgotten.
LEMMA MemoriesKeepCaps ==
    ASSUME AllocationAssumption, CapsInv, RememberPosition
    PROVE  CapsInv'
<1>1. /\ CapsShape /\ cycle.pc = "opened" /\ held' = [held EXCEPT ![cycle.order.sym] = cycle.order]
      /\ cycle' = [cycle EXCEPT !.pc = "process", !.order = Idle.order]
      /\ UNCHANGED <<clock, ledger, closings>>
    BY DEF CapsInv, RememberPosition
<1>2. cycle.order \in Amount /\ cycle.order.sym \in Coins
    BY <1>1 DEF CapsShape, Amount
<1>3. /\ DOMAIN cycle' = {"pc", "at", "todo", "order"} /\ cycle'.pc = "process"
      /\ cycle'.todo = cycle.todo
    BY <1>1 DEF CapsShape
<1>4. CapsShape'
  <2>1. held' \in [Coins -> Amount] /\ \A s \in Coins : held'[s].sym = s
      BY <1>1, <1>2 DEF CapsShape
  <2> QED BY <1>1, <1>3, <2>1 DEF CapsShape
<1>5. OpenRows' = OpenRows /\ OpenPositions' = OpenPositions
    BY <1>1 DEF OpenRows, OpenPositions
<1>6. Remembered'
  <2> SUFFICES ASSUME NEW i \in OpenRows PROVE held'[ledger[i].sym] = OpenPositions[i]
      BY <1>1, <1>5 DEF Remembered
  <2>1. ledger[i].sym \in Coins /\ held \in [Coins -> Amount]
      BY <1>1, RowsAre DEF OpenRows, EntryRow, CapsShape
  <2>2. CASE ledger[i].sym = cycle.order.sym
    <3>1. OpenPositions[i] = cycle.order
        BY <1>1, <2>2 DEF CapsInv
    <3> QED BY <1>1, <2>1, <2>2, <3>1
  <2>3. CASE ledger[i].sym # cycle.order.sym
    <3>1. held[ledger[i].sym] = OpenPositions[i]
        BY <1>1, <2>3 DEF CapsInv, Remembered
    <3> QED BY <1>1, <2>1, <2>3, <3>1
  <2> QED BY <2>2, <2>3
<1>7. WithinCaps(OpenPositions)'
    BY <1>5 DEF CapsInv
<1> QED BY <1>1, <1>3, <1>4, <1>5, <1>6, <1>7 DEF CapsInv

\* A closing takes a position away.
LEMMA ClosingsKeepCaps ==
    ASSUME AllocationAssumption, CapsInv, NEW i \in DOMAIN ledger, Resolve(i)
    PROVE  CapsInv'
<1>1. /\ CapsShape /\ UNCHANGED <<clock, held, cycle>> /\ closings' = Append(closings, i)
      /\ Limits
    BY ConstantsAre DEF CapsInv, Resolve
<1>2. PICK pnl \in {-Loss, 0, Gain} :
        ledger' = [ledger EXCEPT ![i].closed = clock, ![i].left = 0,
                                 ![i].pnl = pnl, ![i].ok = pnl # 0]
    BY DEF Resolve
<1>3. pnl \in Int /\ clock \in Nat \ {0}
    BY <1>1, ConstantsAre DEF CapsShape
<1>4. /\ Len(ledger) \in Nat /\ DOMAIN ledger = 1 .. Len(ledger) /\ ledger \in Seq(EntryRow)
      /\ \A j \in DOMAIN ledger : ledger[j] \in EntryRow
    BY <1>1, RowsAre DEF CapsShape
<1> DEFINE row == [ledger[i] EXCEPT !.closed = clock, !.left = 0, !.pnl = pnl, !.ok = pnl # 0]
<1>5. row \in EntryRow /\ row.closed = clock
    BY <1>3, <1>4 DEF EntryRow
<1>6. ledger' = [ledger EXCEPT ![i] = row]
  <2>1. DOMAIN ledger' = DOMAIN ledger /\ \A j \in DOMAIN ledger : j # i => ledger'[j] = ledger[j]
      BY <1>2
  <2>2. ledger'[i] = row
      BY <1>2
  <2> HIDE DEF row
  <2>3. ledger' = [j \in DOMAIN ledger |-> ledger'[j]]
      BY <1>2
  <2> QED BY <2>1, <2>2, <2>3
<1> HIDE DEF row
<1>7. /\ DOMAIN ledger' = DOMAIN ledger /\ ledger' \in Seq(EntryRow)
      /\ \A j \in DOMAIN ledger : j # i => ledger'[j] = ledger[j]
      /\ ~IsOpen(ledger'[i])
  <2>1. DOMAIN ledger' = DOMAIN ledger /\ ledger'[i] = row
      BY <1>6
  <2>2. ledger' \in Seq(EntryRow)
      BY <1>4, <1>5, <1>6
  <2>3. ~IsOpen(row)
      BY <1>3, <1>5 DEF IsOpen
  <2> QED BY <1>6, <2>1, <2>2, <2>3
<1>8. CapsShape'
  <2>1. closings' \in Seq(Nat) /\ \A n \in DOMAIN closings' : closings'[n] \in DOMAIN ledger'
    <3>1. closings \in Seq(Nat) /\ \A n \in DOMAIN closings : closings[n] \in DOMAIN ledger
        BY <1>1 DEF CapsShape
    <3>2. i \in Nat
      <4>1. PICK n \in Nat : DOMAIN ledger = 1 .. n
          BY <1>4
      <4>2. i \in 1 .. n
          BY <4>1
      <4> QED BY <4>2
    <3>3. PICK k \in Nat : k = Len(closings)
        BY <3>1
    <3>4. /\ Len(closings') = k + 1 /\ closings' \in Seq(Nat)
          /\ closings'[k + 1] = i
          /\ \A n \in 1 .. k : closings'[n] = closings[n]
        BY <1>1, <3>1, <3>2, <3>3, AppendProperties
    <3>5. DOMAIN closings = 1 .. k /\ DOMAIN closings' = (1 .. k) \cup {k + 1}
      <4>1. DOMAIN closings = 1 .. k /\ DOMAIN closings' = 1 .. k + 1
          BY <3>1, <3>3, <3>4
      <4> QED BY <4>1, NextNumber
    <3> QED BY <1>7, <3>1, <3>4, <3>5
  <2> QED BY <1>1, <1>7, <2>1 DEF CapsShape
<1>9. /\ OpenRows' = OpenRows \ {i}
      /\ \A j \in OpenRows' : ledger'[j] = ledger[j] /\ OpenPositions'[j] = OpenPositions[j]
  <2>1. OpenRows' = OpenRows \ {i}
      BY <1>7 DEF OpenRows
  <2> SUFFICES ASSUME NEW j \in OpenRows'
               PROVE  ledger'[j] = ledger[j] /\ OpenPositions'[j] = OpenPositions[j]
      BY <2>1
  <2>2. j # i /\ j \in DOMAIN ledger /\ IsOpen(ledger[j]) /\ ledger'[j] = ledger[j]
      BY <1>7, <2>1 DEF OpenRows
  <2>3. OpenPositions[j] = Position(ledger[j].sym, ledger[j].side, ledger[j].left)
      BY <2>2 DEF OpenPositions
  <2>4. OpenPositions'[j] = Position(ledger'[j].sym, ledger'[j].side, ledger'[j].left)
      BY <1>7, <2>2 DEF OpenPositions
  <2> QED BY <2>2, <2>3, <2>4
<1>10. WithinCaps(OpenPositions')
  <2> DEFINE m == [j \in OpenRows' |-> j]
             a == OpenPositions
             b == OpenPositions'
  <2>1. IsBook(a) /\ DOMAIN a = OpenRows
      BY <1>1, OpenBook
  <2>2. DOMAIN b = OpenRows'
      BY DEF OpenPositions, OpenRows
  <2> HIDE DEF a, b
  <2>3. OpenRows' \subseteq OpenRows /\ \A j \in OpenRows' : b[j] = a[j] /\ m[j] = j
      BY <1>9 DEF a, b
  <2> HIDE DEF m
  <2>4. IsBook(b)
    <3>1. IsFiniteSet(OpenRows')
        BY <2>1, <2>3, FS_Subset DEF IsBook
    <3> QED BY <2>1, <2>2, <2>3, <3>1 DEF IsBook
  <2>5. Fits(b, m, a)
    <3>1. \A j \in DOMAIN b : b[j].size <= a[m[j]].size
        BY <2>1, <2>2, <2>3 DEF IsBook
    <3> QED BY <2>1, <2>2, <2>3, <3>1 DEF Fits
  <2>6. WithinCaps(a)
      BY DEF CapsInv, a
  <2>7. WithinCaps(b)
      BY <1>1, <2>1, <2>4, <2>5, <2>6, SmallerBook
  <2> QED BY <2>7 DEF b
<1>11. Book' = Book
    BY <1>1 DEF Book
<1>12. WithinCaps(Book)' = WithinCaps(Book)
    BY <1>11
<1>13. /\ HasPlace(Book, cycle.order.sym, cycle.order.side)' = HasPlace(Book, cycle.order.sym, cycle.order.side)
       /\ Room(Book, cycle.order.sym, cycle.order.side)' = Room(Book, cycle.order.sym, cycle.order.side)
    BY <1>1, <1>11
<1>14. Remembered => Remembered'
    BY <1>1, <1>9 DEF Remembered
<1>15. /\ (\A j \in OpenRows : ledger[j].left > 0)'
       /\ (\A j, k \in OpenRows : ledger[j].sym = ledger[k].sym => j = k)'
    BY <1>9 DEF CapsInv
<1>16. cycle.pc = "opened" =>
         (\A j \in OpenRows : ledger[j].sym = cycle.order.sym => OpenPositions[j] = cycle.order)'
    BY <1>1, <1>9 DEF CapsInv
<1> QED BY <1>1, <1>8, <1>10, <1>12, <1>13, <1>14, <1>15, <1>16 DEF CapsInv

\* At the start nothing is open.
LEMMA CapsStart == ASSUME AllocationAssumption, AllocInit PROVE CapsInv
<1>1. /\ clock = 1 /\ ledger = << >> /\ closings = << >> /\ held = Nothing /\ cycle = Idle
    BY DEF AllocInit
<1>2. DOMAIN cycle = {"pc", "at", "todo", "order"} /\ cycle.pc = "idle" /\ cycle.todo = {}
    BY <1>1 DEF Idle
<1>3. held \in [Coins -> Amount] /\ \A s \in Coins : held[s].sym = s
    BY <1>1, NothingIs
<1>4. CapsShape
    BY <1>1, <1>2, <1>3 DEF CapsShape
<1>5. OpenRows = {}
    BY <1>1 DEF OpenRows
<1>6. WithinCaps(OpenPositions)
  <2> DEFINE b == OpenPositions
  <2>1. IsBook(b) /\ DOMAIN b = {} /\ Limits
      BY <1>4, <1>5, OpenBook, ConstantsAre
  <2> HIDE DEF b
  <2>2. \A s, side : OfSymbol(b, s) = {} /\ OfGroup(b, s, side) = {}
      BY <2>1 DEF OfSymbol, OfGroup
  <2>3. Exposure(b, {}) = 0 /\ Cardinality({}) = 0
    <3>1. Exposure(b, {}) = SumOf(Amounts(b), {})
        BY <2>1, ExposureIs
    <3>2. Amounts(b) \in [{} -> Int]
        BY <2>1 DEF Amounts
    <3>3. SumOf(Amounts(b), {}) = 0
        BY <3>2, FS_EmptySet, SumUnfolds
    <3> QED BY <3>1, <3>3, FS_EmptySet
  <2>4. WithinCaps(b)
    <3>1. /\ 0 <= MaxOpenPos /\ 0 <= MaxConcurrent /\ 0 <= MaxTotal
          /\ 0 <= MaxPerSymbol /\ 0 <= MaxPerGroup /\ 0 <= MaxInGroup
        BY <2>1 DEF Limits
    <3>2. DOMAIN b = {} /\ Exposure(b, DOMAIN b) = 0 /\ Cardinality(DOMAIN b) = 0
        BY <2>1, <2>3
    <3>3. \A s, side : /\ Exposure(b, OfSymbol(b, s)) = 0 /\ Exposure(b, OfGroup(b, s, side)) = 0
                       /\ Cardinality(OfGroup(b, s, side)) = 0
        BY <2>2, <2>3
    <3> QED BY <3>1, <3>2, <3>3 DEF WithinCaps
  <2> QED BY <2>4 DEF b
<1> QED BY <1>2, <1>4, <1>5, <1>6 DEF CapsInv
\* Whatever the allocator promised, whichever way a candidate turned after it and
\* whatever a restart forgot, the open positions never exceed a count or exposure
\* cap, and the offers of an allocation can all be taken together
\* (evaluate_portfolio_risk in _process_symbol, allocate_portfolio_candidates).
THEOREM CapsAreKept == AllocSpec => []CapsHold
<1>1. AllocInit => CapsInv
    BY AllocationAssumption, CapsStart
<1>2. CapsInv /\ [AllocNext]_allocVars => CapsInv'
  <2> SUFFICES ASSUME CapsInv, [AllocNext]_allocVars PROVE CapsInv'
      OBVIOUS
  <2> USE AllocationAssumption
  <2>1. CASE \E c \in cycle.todo : Decide(c)
      BY <2>1, DecisionsKeepCaps
  <2>2. CASE \E i \in DOMAIN ledger : Resolve(i)
      BY <2>2, ClosingsKeepCaps
  <2>3. CASE UNCHANGED allocVars
    <3>1. UNCHANGED <<clock, ledger, closings, held, cycle>>
        BY <2>3 DEF allocVars
    <3>2. OpenRows' = OpenRows /\ OpenPositions' = OpenPositions /\ Book' = Book
        BY <3>1 DEF OpenRows, OpenPositions, Book
    <3>3. WithinCaps(OpenPositions)' = WithinCaps(OpenPositions) /\ WithinCaps(Book)' = WithinCaps(Book)
        BY <3>2
    <3>4. /\ HasPlace(Book, cycle.order.sym, cycle.order.side)' = HasPlace(Book, cycle.order.sym, cycle.order.side)
          /\ Room(Book, cycle.order.sym, cycle.order.side)' = Room(Book, cycle.order.sym, cycle.order.side)
        BY <3>1, <3>2
    <3>5. Remembered' = Remembered /\ CapsShape' = CapsShape
        BY <3>1, <3>2 DEF Remembered, CapsShape
    <3> QED BY <3>1, <3>2, <3>3, <3>4, <3>5 DEF CapsInv
  <2> QED BY <2>1, <2>2, <2>3, QuietStepsKeepCaps, ScansKeepCaps, EntriesKeepCaps, MemoriesKeepCaps
          DEF AllocNext
<1>3. CapsInv => CapsHold
  <2> SUFFICES ASSUME CapsInv PROVE CapsHold
      OBVIOUS
  <2>1. WithinCaps(OpenPositions) /\ CapsShape /\ (cycle.pc = "allocate" => WithinCaps(Book))
      BY DEF CapsInv
  <2>2. IsBook(Book)
      BY <2>1, AllocationAssumption, ConstantsAre, HeldBook
  <2> QED BY <2>1, <2>2, AllocationAssumption, OffersDoFit DEF CapsHold
<1> QED BY <1>1, <1>2, <1>3, PTL DEF AllocSpec

-----------------------------------------------------------------------------
(* The evidence a symbol is judged on.                                      *)

\* A reading that was stamped by the wall clock when it had been set back n times.
Stamped(at, read, n) == at \in Int /\ read \in Int /\ n \in Nat /\ at = read - 2 * n

\* The two clocks differ by what the wall clock was set back; so do the two times of
\* each reading; and unless it was set back, what is cached for a candle is that candle.
FreshInv ==
    /\ Stamped(wall, mono, steps)
    /\ DOMAIN scan = {"pc", "n", "rows", "at", "read", "steps", "todo", "turn"}
    /\ Stamped(scan.at, scan.read, scan.steps)
    /\ DOMAIN snapshot = {"has", "rows", "at", "read", "steps"}
    /\ Stamped(snapshot.at, snapshot.read, snapshot.steps)
    /\ steps = 0 => \A s \in DOMAIN geometry : geometry[s].bucket = geometry[s].candle
    /\ DecisionIsFresh

LEMMA FreshStarts ==
    ASSUME UniverseAssumption, UniverseInit
    PROVE  FreshInv
<1>1. Frame \in Nat /\ StaleAge \in Nat
    BY DEF UniverseAssumption
<1>2. Stamped(wall, mono, steps)
    BY <1>1 DEF UniverseInit, Stamped
<1>3. /\ DOMAIN scan = {"pc", "n", "rows", "at", "read", "steps", "todo", "turn"}
      /\ Stamped(scan.at, scan.read, scan.steps) /\ scan.pc = "idle"
    BY DEF UniverseInit, AtRest, Stamped
<1>4. /\ DOMAIN snapshot = {"has", "rows", "at", "read", "steps"}
      /\ Stamped(snapshot.at, snapshot.read, snapshot.steps)
    BY DEF UniverseInit, Uncached, Stamped
<1>5. DOMAIN geometry = {}
    BY DEF UniverseInit
<1>6. used.age = 0
    BY DEF UniverseInit
<1> QED BY <1>1, <1>2, <1>3, <1>4, <1>5, <1>6 DEF FreshInv, DecisionIsFresh

\* A new scan has a stamped reading, and nothing to process yet.
LEMMA ScansAreStamped ==
    ASSUME FreshInv, ScanFromCache \/ ScanUnavailable \/ ScanFetched
    PROVE  FreshInv'
<1>1. UNCHANGED <<mono, wall, steps, geometry, used>>
    BY DEF ScanFromCache, ScanUnavailable, ScanFetched, clocks
<1>2. /\ DOMAIN scan' = {"pc", "n", "rows", "at", "read", "steps", "todo", "turn"}
      /\ scan'.pc = "select"
      /\ Stamped(scan'.at, scan'.read, scan'.steps)
      /\ DOMAIN snapshot' = {"has", "rows", "at", "read", "steps"}
      /\ Stamped(snapshot'.at, snapshot'.read, snapshot'.steps)
  <2>1. CASE ScanFromCache
      BY <2>1 DEF ScanFromCache, FromCache, Rows, Quiet, AtRest, FreshInv
  <2>2. CASE ScanUnavailable
    <3>1. Stamped(0, 0, 0)
        BY DEF Stamped
    <3> QED BY <2>2, <3>1 DEF ScanUnavailable, Uncached, Rows, Quiet, AtRest, FreshInv
  <2>3. CASE ScanFetched
    <3>1. PICK rows :
            /\ snapshot' = [has |-> StaleAge > 0, rows |-> rows, at |-> wall, read |-> mono,
                            steps |-> steps]
            /\ scan' = [Rows(rows, wall, mono, steps) EXCEPT !.n = @ + 1]
        BY <2>3, Zenon DEF ScanFetched
    <3>2. /\ DOMAIN snapshot' = {"has", "rows", "at", "read", "steps"}
          /\ snapshot'.at = wall /\ snapshot'.read = mono /\ snapshot'.steps = steps
        BY <3>1
    <3>3. /\ DOMAIN scan' = {"pc", "n", "rows", "at", "read", "steps", "todo", "turn"}
          /\ scan'.pc = "select"
          /\ scan'.at = wall /\ scan'.read = mono /\ scan'.steps = steps
        BY <3>1 DEF Rows, Quiet, AtRest
    <3> QED BY <3>2, <3>3 DEF FreshInv
  <2> QED BY <2>1, <2>2, <2>3
<1> QED BY <1>1, <1>2 DEF FreshInv, DecisionIsFresh

\* Every symbol gets the candle that its look-up found, which is the last one closed
\* while the clocks agree.
LEMMA CandlesAreCurrent ==
    ASSUME FreshInv, Enrich
    PROVE  FreshInv'
<1>1. UNCHANGED <<mono, wall, steps, snapshot, used>>
    BY DEF Enrich, clocks
<1> DEFINE sym(i) == scan.todo[i].d.row.sym
           now == [bucket |-> Bucket(wall), candle |-> Bucket(mono)]
<1>2. PICK answered :
        LET candle(s) == IF s \in answered THEN now.candle
                         ELSE IF CachedGeometry(s) THEN geometry[s].candle ELSE -2
        IN  /\ geometry' = [s \in answered \cup DOMAIN geometry |->
                             IF s \in answered THEN now ELSE geometry[s]]
            /\ scan' = [scan EXCEPT !.pc = "process",
                        !.todo = [i \in DOMAIN scan.todo |->
                                    [sym |-> sym(i), candle |-> candle(sym(i)),
                                     due |-> Bucket(mono)]]]
    BY Zenon DEF Enrich
<1> HIDE DEF sym
<1>3. ASSUME steps = 0
      PROVE  /\ Bucket(wall) = Bucket(mono)
             /\ \A s \in DOMAIN geometry : geometry[s].bucket = geometry[s].candle
  <2>1. wall = mono
      BY <1>3 DEF FreshInv, Stamped
  <2> QED BY <1>3, <2>1 DEF FreshInv
<1>4. ASSUME steps = 0
      PROVE  \A s \in DOMAIN geometry' : geometry'[s].bucket = geometry'[s].candle
    BY <1>2, <1>3, <1>4
<1>5. /\ DOMAIN scan' = DOMAIN scan /\ scan'.at = scan.at /\ scan'.read = scan.read
      /\ scan'.steps = scan.steps
    BY <1>2 DEF FreshInv
<1>6. ASSUME steps = 0, NEW i \in DOMAIN scan'.todo
      PROVE  scan'.todo[i].candle \in {-2} \cup {scan'.todo[i].due}
    BY <1>2, <1>3, <1>6 DEF FreshInv, CachedGeometry
<1> QED BY <1>1, <1>4, <1>5, <1>6 DEF FreshInv, DecisionIsFresh

\* A symbol is judged only while the wall clock says its quotes are recent; it tells
\* their age unless it was set back since.
LEMMA QuotesAreRecent ==
    ASSUME UniverseAssumption, FreshInv, Process
    PROVE  FreshInv'
<1>1. UNCHANGED <<mono, wall, steps, snapshot, geometry>> /\ scan.pc = "process"
    BY DEF Process, clocks
<1>2. /\ DOMAIN scan' = DOMAIN scan /\ scan'.at = scan.at /\ scan'.read = scan.read
      /\ scan'.steps = scan.steps
      /\ scan'.todo = scan.todo \/ scan'.todo = << >>
    BY DEF Process, FreshInv
<1>3. ~used'.stepped => used'.age <= StaleAge
  <2>1. CASE used' = used
      BY <2>1 DEF FreshInv, DecisionIsFresh
  <2>2. CASE TimeIsRight /\ used' = [age |-> mono - scan.read, stepped |-> steps # scan.steps]
    <3>1. SUFFICES ASSUME steps = scan.steps PROVE mono - scan.read <= StaleAge
        BY <2>2
    <3>2. /\ wall = mono - 2 * steps /\ scan.at = scan.read - 2 * scan.steps
          /\ {wall, mono, steps, scan.at, scan.read} \subseteq Int
        BY DEF FreshInv, Stamped
    <3>3. wall - scan.at <= StaleAge /\ StaleAge \in Nat
        BY <2>2 DEF TimeIsRight, UniverseAssumption
    <3> QED BY <3>1, <3>2, <3>3
  <2> QED BY <2>1, <2>2, Zenon DEF Process
<1>4. steps' = 0 /\ scan'.pc = "process" =>
        \A i \in DOMAIN scan'.todo : scan'.todo[i].candle \in {-2} \cup {scan'.todo[i].due}
  <2>1. scan'.todo = << >> => DOMAIN scan'.todo = {}
      OBVIOUS
  <2> QED BY <1>1, <1>2, <2>1 DEF FreshInv, DecisionIsFresh
<1> QED BY <1>1, <1>2, <1>3, <1>4 DEF FreshInv, DecisionIsFresh

\* A symbol is judged on quotes no older than stale_market_data_sec and, while
\* the clocks agree, on the last closed candle (_load_cached_binance_snapshot,
\* _cached_binance_kline_geometry, _evaluate_market_timestamp).
THEOREM FreshEvidence == UniverseSpec => []DecisionIsFresh
<1>1. UniverseInit => FreshInv
    BY FreshStarts, UniverseAssumption
<1>2. FreshInv /\ [UniverseNext]_universeVars => FreshInv'
  <2> SUFFICES ASSUME FreshInv, [UniverseNext]_universeVars PROVE FreshInv'
      OBVIOUS
  <2>1. CASE Elapse
    <3>1. Stamped(wall, mono, steps)'
        BY <2>1 DEF Elapse, FreshInv, Stamped
    <3> QED BY <2>1, <3>1 DEF Elapse, FreshInv, DecisionIsFresh
  <2>2. CASE StepBack
    <3>1. Stamped(wall, mono, steps)' /\ steps' # 0
        BY <2>2 DEF StepBack, FreshInv, Stamped
    <3> QED BY <2>2, <3>1 DEF StepBack, FreshInv, DecisionIsFresh
  <2>3. CASE Select \/ SelectionNotStored \/ SelectionConflicts \/ LoseCandidates
    <3>1. UNCHANGED <<mono, wall, steps, snapshot, geometry, used>>
        BY <2>3 DEF Select, SelectionNotStored, SelectionConflicts, LoseCandidates, clocks
    <3>2. /\ DOMAIN scan' = DOMAIN scan
          /\ Stamped(scan'.at, scan'.read, scan'.steps)
          /\ scan' = scan \/ scan'.pc # "process"
      <4>1. CASE Select
          BY <4>1 DEF Select, FreshInv
      <4>2. CASE SelectionNotStored \/ SelectionConflicts
        <5>1. Stamped(0, 0, 0)
            BY DEF Stamped
        <5> QED BY <4>2, <5>1 DEF SelectionNotStored, SelectionConflicts, Quiet, AtRest, FreshInv
      <4>3. CASE LoseCandidates
          BY <4>3 DEF LoseCandidates, FreshInv
      <4> QED BY <2>3, <4>1, <4>2, <4>3
    <3> QED BY <3>1, <3>2 DEF FreshInv, DecisionIsFresh
  <2>4. CASE UNCHANGED universeVars
      BY <2>4 DEF universeVars, FreshInv, DecisionIsFresh
  <2> QED BY <2>1, <2>2, <2>3, <2>4, ScansAreStamped, CandlesAreCurrent, QuotesAreRecent,
             UniverseAssumption DEF UniverseNext
<1>3. FreshInv => DecisionIsFresh
    BY DEF FreshInv
<1> QED BY <1>1, <1>2, <1>3, PTL DEF UniverseSpec

-----------------------------------------------------------------------------
(* The selection of symbols.                                                *)

\* InOrder lists each member at its place.
LEMMA InOrderIs ==
    ASSUME NEW S, IsFiniteSet(S), NEW R, StrictOrder(S, R)
    PROVE  /\ Cardinality(S) \in Nat
           /\ InOrder(S, R) \in [1 .. Cardinality(S) -> S]
           /\ \A n \in 1 .. Cardinality(S) : Cardinality(AheadOf(S, R, InOrder(S, R)[n])) = n - 1
           /\ \A i \in S : \E n \in 1 .. Cardinality(S) : InOrder(S, R)[n] = i
           /\ \A n, m \in 1 .. Cardinality(S) : InOrder(S, R)[n] = InOrder(S, R)[m] => n = m
<1> DEFINE N == Cardinality(S)
           at(n) == CHOOSE i \in S : Cardinality(AheadOf(S, R, i)) = n - 1
<1>1. N \in Nat /\ \A i \in S : Cardinality(AheadOf(S, R, i)) \in 0 .. N - 1
    BY PlacesDiffer
<1>2. InOrder(S, R) = [n \in 1 .. N |-> at(n)]
    BY DEF InOrder, AheadOf
<1>3. \A n \in 1 .. N : at(n) \in S /\ Cardinality(AheadOf(S, R, at(n))) = n - 1
    BY PlacesAreTaken
<1> HIDE DEF at
<1>4. ASSUME NEW i \in S PROVE \E n \in 1 .. N : InOrder(S, R)[n] = i
  <2> DEFINE n == Cardinality(AheadOf(S, R, i)) + 1
  <2>1. n \in 1 .. N /\ n - 1 = Cardinality(AheadOf(S, R, i))
      BY <1>1
  <2>2. at(n) = i
      BY <1>3, <2>1, PlacesAreTaken
  <2> QED BY <1>2, <2>1, <2>2
<1>5. InOrder(S, R) \in [1 .. N -> S]
    BY <1>2, <1>3
<1>6. \A n \in 1 .. N : Cardinality(AheadOf(S, R, InOrder(S, R)[n])) = n - 1
    BY <1>2, <1>3
<1> QED BY <1>1, <1>4, <1>5, <1>6

\* A row of a listed symbol, and what its facts may be.
SymbolRow == [sym : Names, kind : 0 .. MidOnly]
Measures == Nat \cup {Gone, Bad}
StatusLabels == {"MEASURED", "UNAVAILABLE", "STALE", "INVALID"}

\* What an oddity may be about, and what it may say.
Sensible(f, v) ==
    \/ f \in {"wellNamed", "quoted", "trading", "perpetual", "complete", "timed"} /\ v = FALSE
    \/ f \in {"vol", "spread", "vola", "slip", "liq", "funding", "cap"} /\ v \in Measures
    \/ f = "status" /\ v \in StatusLabels
    \/ f = "late" /\ v \in {"future", "old"}
    \/ f \in {"slipStatus", "fundingStatus"} /\ v = "STALE"
    \/ f = "capAge" /\ v \in {"none", "future", "old"}

\* Every oddity listed is one of these.
LEMMA OdditiesAreSensible ==
    ASSUME UniverseAssumption, NEW k \in DOMAIN Oddities
    PROVE  Sensible(Oddities[k][1], Oddities[k][2])
<1>1. /\ Gone \in Measures /\ Bad \in Measures /\ MinVolume - 1 \in Measures
      /\ WidestSpread + 1 \in Measures /\ \A n \in {0, 1, 2, 4, 5} : n \in Measures
      /\ MinCap - 1 \in Measures /\ MaxCap + 1 \in Measures
    BY DEF UniverseAssumption, Measures, Gone, Bad
<1>2. DOMAIN Oddities = 1 .. 38
    BY DEF Oddities
<1>3. CASE k \in 1 .. 6
  <2>1. Oddities[k][1] \in {"wellNamed", "quoted", "trading", "perpetual", "complete", "timed"}
      BY <1>3 DEF Oddities
  <2>2. Oddities[k][2] = FALSE
    <3>1. Oddities[1][2] = FALSE /\ Oddities[2][2] = FALSE /\ Oddities[3][2] = FALSE
        BY DEF Oddities
    <3>2. Oddities[4][2] = FALSE /\ Oddities[5][2] = FALSE /\ Oddities[6][2] = FALSE
        BY DEF Oddities
    <3> QED BY <1>3, <3>1, <3>2
  <2> QED BY <2>1, <2>2 DEF Sensible
<1>4. CASE k \in 7 .. 15
    BY <1>1, <1>4 DEF Oddities, Sensible
<1>5. CASE k \in 16 .. 20
    BY <1>5 DEF Oddities, Sensible, StatusLabels
<1>6. CASE k \in 21 .. 27
    BY <1>1, <1>6 DEF Oddities, Sensible
<1>7. CASE k \in 28 .. 35
    BY <1>1, <1>7 DEF Oddities, Sensible
<1>8. CASE k \in 36 .. 38
    BY <1>8 DEF Oddities, Sensible
<1> QED BY <1>2, <1>3, <1>4, <1>5, <1>6, <1>7, <1>8

\* The facts of a row.
FactsShape(x, s) ==
    /\ x.sym = s /\ x.src \in {0, 1}
    /\ x.vol \in Measures /\ x.spread \in Measures /\ x.vola \in Measures
    /\ x.slip \in Measures /\ x.liq \in Measures /\ x.funding \in Measures /\ x.cap \in Measures
    /\ x.wellNamed \in BOOLEAN
    /\ \A m \in RequiredMetrics : x.status[m] \in StatusLabels /\ x.late[m] \in {"untimed", "future", "old"}
    /\ x.capAge \in {"none", "fresh", "future", "old"}

\* What a row says is of this shape, whatever is odd about it.
LEMMA FactsAre ==
    ASSUME UniverseAssumption, NEW r \in SymbolRow
    PROVE  FactsShape(Facts(r), r.sym)
<1> DEFINE row == PlainRow(r.sym)
           f == Oddities[r.kind][1]
           v == Oddities[r.kind][2]
<1>1. /\ Gone \in Measures /\ Bad \in Measures /\ WidestSpread + 1 \in Measures
      /\ \A n \in {0, 1, 2, 4, 5, 7} : n \in Measures
    BY DEF UniverseAssumption, Measures, Gone, Bad
<1>2. Volume(r.sym) \in Measures
  <2>1. r.sym \in Nat /\ r.sym <= Listings /\ TopVolume \in Nat /\ Listings \in Nat /\ TopVolume > Listings
      BY DEF SymbolRow, Names, UniverseAssumption
  <2>2. r.sym \div 2 \in Nat /\ r.sym \div 2 <= r.sym
      BY <2>1
  <2> QED BY <2>1, <2>2 DEF Volume, Measures
<1>3. FactsShape(row, r.sym)
    BY <1>1, <1>2 DEF FactsShape, PlainRow, RequiredMetrics, StatusLabels
<1>8. /\ DOMAIN row = {"sym", "src", "wellNamed", "quoted", "trading", "perpetual", "complete", "timed",
                       "vol", "spread", "vola", "status", "late", "slip", "slipStatus", "liq",
                       "funding", "fundingStatus", "cap", "capAge"}
      /\ DOMAIN row.status = RequiredMetrics /\ DOMAIN row.late = RequiredMetrics
    BY DEF PlainRow
<1>4. CASE r.kind = 0
    BY <1>3, <1>4 DEF Facts
<1>7. MidOnly = 39 /\ DOMAIN Oddities = 1 .. 38
    BY DEF MidOnly, Oddities
<1>5. CASE r.kind = MidOnly
  <2>2. Facts(r) = [row EXCEPT !.src = 1, !.vol = 0, !.spread = Gone, !.vola = Gone,
                               !.funding = Gone, !.liq = 5, !.cap = Gone]
      BY <1>5, <1>7 DEF Facts
  <2> QED BY <1>1, <1>3, <2>2 DEF FactsShape, PlainRow
<1>6. CASE r.kind \in DOMAIN Oddities
  <2>1. Sensible(f, v) /\ Facts(r) = Altered(row, f, v)
      BY <1>6, <1>7, OdditiesAreSensible DEF Facts
  <2> HIDE DEF f, v, row
  <2>2. CASE f \in {"wellNamed", "quoted", "trading", "perpetual", "complete", "timed"} /\ v = FALSE
    <3>1. Facts(r) = [row EXCEPT ![f] = v]
        BY <2>1, <2>2 DEF Altered
    <3>2. CASE f = "wellNamed"
        BY <1>3, <1>8, <2>2, <3>1, <3>2 DEF FactsShape
    <3>3. CASE f # "wellNamed"
        BY <1>3, <1>8, <2>2, <3>1, <3>3 DEF FactsShape
    <3> QED BY <3>2, <3>3
  <2>3. CASE f \in {"vol", "spread", "vola", "slip", "liq", "funding", "cap"} /\ v \in Measures
    <3>1. Facts(r) = [row EXCEPT ![f] = v]
        BY <2>1, <2>3 DEF Altered
    <3> QED BY <1>3, <1>8, <2>3, <3>1 DEF FactsShape
  <2>4. CASE f = "status" /\ v \in StatusLabels
    <3>1. Facts(r) = [row EXCEPT !.status.spread = v]
        BY <2>1, <2>4 DEF Altered
    <3> QED BY <1>3, <1>8, <2>4, <3>1 DEF FactsShape, RequiredMetrics
  <2>5. CASE f = "late" /\ v \in {"future", "old"}
    <3>1. Facts(r) = [row EXCEPT !.late.vol = v]
        BY <2>1, <2>5 DEF Altered
    <3> QED BY <1>3, <1>8, <2>5, <3>1 DEF FactsShape, RequiredMetrics
  <2>6. CASE f = "slipStatus"
    <3>1. Facts(r) = [row EXCEPT !.slipStatus = v, !.slip = WidestSpread + 1]
        BY <2>1, <2>6 DEF Altered
    <3> QED BY <1>1, <1>3, <1>8, <3>1 DEF FactsShape
  <2>7. CASE f = "capAge" /\ v \in {"none", "future", "old"}
    <3>1. Facts(r) = [row EXCEPT ![f] = v]
        BY <2>1, <2>7 DEF Altered
    <3> QED BY <1>1, <1>3, <1>8, <2>7, <3>1 DEF FactsShape
  <2>9. CASE f = "fundingStatus"
    <3>1. Facts(r) = [row EXCEPT !.fundingStatus = v, !.funding = 2]
        BY <2>1, <2>9 DEF Altered
    <3> QED BY <1>1, <1>3, <1>8, <3>1 DEF FactsShape
  <2> QED BY <2>1, <2>2, <2>3, <2>4, <2>5, <2>6, <2>7, <2>9 DEF Sensible
<1> QED BY <1>4, <1>5, <1>6, <1>7 DEF SymbolRow

\* Tuples of six numbers are ordered.
SixNumbers == [1 .. 6 -> Int]

LEMMA TuplesAreOrdered ==
    ASSUME NEW k \in SixNumbers, NEW l \in SixNumbers, NEW m \in SixNumbers
    PROVE  /\ ~Lower(k, k)
           /\ Lower(k, l) /\ Lower(l, m) => Lower(k, m)
           /\ k = l \/ Lower(k, l) \/ Lower(l, k)
<1>1. ~Lower(k, k)
    BY DEF Lower, SixNumbers
<1>2. ASSUME Lower(k, l), Lower(l, m) PROVE Lower(k, m)
  <2>1. PICK a \in 1 .. 6 : k[a] < l[a] /\ \A i \in 1 .. a - 1 : k[i] = l[i]
      BY <1>2 DEF Lower
  <2>2. PICK b \in 1 .. 6 : l[b] < m[b] /\ \A i \in 1 .. b - 1 : l[i] = m[i]
      BY <1>2 DEF Lower
  <2>3. \A i \in 1 .. 6 : k[i] \in Int /\ l[i] \in Int /\ m[i] \in Int
      BY DEF SixNumbers
  <2>4. CASE a <= b
    <3>1. k[a] < m[a] /\ \A i \in 1 .. a - 1 : k[i] = m[i]
        BY <2>1, <2>2, <2>3, <2>4
    <3> QED BY <3>1 DEF Lower
  <2>5. CASE b < a
    <3>1. k[b] < m[b] /\ \A i \in 1 .. b - 1 : k[i] = m[i]
        BY <2>1, <2>2, <2>3, <2>5
    <3> QED BY <3>1 DEF Lower
  <2> QED BY <2>4, <2>5
<1>3. ASSUME k # l PROVE Lower(k, l) \/ Lower(l, k)
  <2> DEFINE differ == {i \in 1 .. 6 : k[i] # l[i]}
  <2>1. differ \subseteq Nat /\ differ # {}
      BY <1>3 DEF SixNumbers
  <2>2. PICK i \in differ : \A j \in differ : i <= j
    <3> HIDE DEF differ
    <3> QED BY <2>1, LeastOf
  <2>3. \A j \in 1 .. i - 1 : k[j] = l[j]
      BY <2>2
  <2>4. k[i] \in Int /\ l[i] \in Int /\ k[i] # l[i] /\ i \in 1 .. 6
      BY <2>2 DEF SixNumbers
  <2> QED BY <2>3, <2>4 DEF Lower
<1> QED BY <1>1, <1>2, <1>3

\* A row that was judged, and one that was ranked.
StateNames == {"ELIGIBLE", "INELIGIBLE", "INVALID", "STALE", "UNAVAILABLE"}
IsJudged(x) == x.row \in SymbolRow /\ x.state \in StateNames
IsRanked(x) == IsJudged(x.d) /\ x.rank \in Nat

\* What decisions are sorted by are numbers, and tell their rows apart.
LEMMA KeysAre ==
    ASSUME UniverseAssumption, NEW x, IsRanked(x)
    PROVE  /\ SortKey(x) \in SixNumbers
           /\ SortKey(x)[3] = x.d.row.sym /\ SortKey(x)[6] = x.d.row.kind
<1>1. Alphabetical(x.d.state) \in Int
  <2>1. \E n \in DOMAIN States : States[n] = x.d.state
      BY DEF IsRanked, IsJudged, StateNames, States
  <2>2. Alphabetical(x.d.state) \in DOMAIN States
      BY <2>1 DEF Alphabetical
  <2> QED BY <2>2 DEF States
<1>2. x.d.row.sym \in Int /\ x.d.row.kind \in Int /\ x.rank \in Int /\ x.d.row \in SymbolRow
    BY DEF IsRanked, IsJudged, SymbolRow, Names, MidOnly, Oddities
<1>3. Facts(x.d.row).src \in Int
    BY <1>2, FactsAre DEF FactsShape
<1>4. (IF x.rank = 0 THEN 1 ELSE 0) \in Int
    OBVIOUS
<1> QED BY <1>1, <1>2, <1>3, <1>4 DEF SortKey, SixNumbers

Canonical(ranked) == {p \in (DOMAIN ranked) \X (DOMAIN ranked) : Precedes(ranked, p[1], p[2])}

\* The canonical order is one.
LEMMA CanonicalIsStrict ==
    ASSUME UniverseAssumption, NEW d, DOMAIN d \subseteq Nat, \A i \in DOMAIN d : IsRanked(d[i])
    PROVE  StrictOrder(DOMAIN d, Canonical(d))
<1>1. \A i \in DOMAIN d : SortKey(d[i]) \in SixNumbers
    BY KeysAre
<1>2. \A i, j \in DOMAIN d : <<i, j>> \in Canonical(d) <=>
         Lower(SortKey(d[i]), SortKey(d[j])) \/ (SortKey(d[i]) = SortKey(d[j]) /\ i < j)
    BY DEF Canonical, Precedes
<1>3. \A i \in DOMAIN d : <<i, i>> \notin Canonical(d)
    BY <1>1, <1>2, TuplesAreOrdered
<1>4. ASSUME NEW i \in DOMAIN d, NEW j \in DOMAIN d, NEW k \in DOMAIN d,
             <<i, j>> \in Canonical(d), <<j, k>> \in Canonical(d)
      PROVE  <<i, k>> \in Canonical(d)
    BY <1>1, <1>2, <1>4, TuplesAreOrdered
<1>5. ASSUME NEW i \in DOMAIN d, NEW j \in DOMAIN d
      PROVE  i = j \/ <<i, j>> \in Canonical(d) \/ <<j, i>> \in Canonical(d)
    BY <1>1, <1>2, TuplesAreOrdered
<1> QED BY <1>3, <1>4, <1>5 DEF StrictOrder

\* Checks that can only speak against a row, and none of them does.
Opposing(c) == c.to \in StateNames \ {"ELIGIBLE"}
Stated(checks) ==
    /\ \E T : checks \in Seq(T)
    /\ \A i \in DOMAIN checks : Opposing(checks[i])
AllPassed(checks) == \A i \in DOMAIN checks : ~checks[i].when

\* Lists of checks add up.
LEMMA CheckAfterCheck ==
    ASSUME NEW a, NEW b, Stated(a), Stated(b)
    PROVE  Stated(a \o b) /\ (AllPassed(a \o b) <=> AllPassed(a) /\ AllPassed(b))
<1>1. PICK S : a \in Seq(S)
    BY DEF Stated
<1>2. PICK T : b \in Seq(T)
    BY DEF Stated
<1> DEFINE U == S \cup T
<1>3. a \in Seq(U) /\ b \in Seq(U)
    BY <1>1, <1>2
<1> HIDE DEF U
<1>4. a \o b \in Seq(U) /\ Len(a \o b) = Len(a) + Len(b)
    BY <1>3
<1>5. \A i \in 1 .. Len(a) : (a \o b)[i] = a[i]
    BY <1>3
<1>6. \A i \in 1 .. Len(b) : (a \o b)[Len(a) + i] = b[i]
    BY <1>3
<1>7. \A i \in DOMAIN (a \o b) :
         \/ i \in DOMAIN a /\ (a \o b)[i] = a[i]
         \/ i - Len(a) \in DOMAIN b /\ (a \o b)[i] = b[i - Len(a)]
    BY <1>3, <1>4
<1>8. Stated(a \o b)
    BY <1>4, <1>7 DEF Stated
<1>9. ASSUME AllPassed(a \o b) PROVE AllPassed(a) /\ AllPassed(b)
  <2>1. \A i \in DOMAIN a : i \in DOMAIN (a \o b) /\ (a \o b)[i] = a[i]
      BY <1>3, <1>4, <1>5
  <2>2. \A i \in DOMAIN b : Len(a) + i \in DOMAIN (a \o b) /\ (a \o b)[Len(a) + i] = b[i]
      BY <1>3, <1>4, <1>6
  <2> QED BY <1>9, <2>1, <2>2 DEF AllPassed
<1>10. ASSUME AllPassed(a), AllPassed(b) PROVE AllPassed(a \o b)
    BY <1>7, <1>10 DEF AllPassed
<1> QED BY <1>8, <1>9, <1>10

\* Lists of a few checks.
LEMMA TwoChecks ==
    ASSUME NEW a1, NEW a2,
           Opposing(a1), Opposing(a2)
    PROVE  LET s == <<a1, a2>>
           IN  /\ Stated(s)
               /\ AllPassed(s) <=> ~a1.when /\ ~a2.when
<1> DEFINE s == <<a1, a2>>
<1>1. s \in Seq({a1, a2})
    OBVIOUS
<1>2. AllPassed(s) <=> ~a1.when /\ ~a2.when
    BY DEF AllPassed
<1>3. \A i \in DOMAIN s : Opposing(s[i])
    OBVIOUS
<1> QED BY <1>1, <1>2, <1>3 DEF Stated

LEMMA FourChecks ==
    ASSUME NEW a1, NEW a2, NEW a3, NEW a4,
           Opposing(a1), Opposing(a2), Opposing(a3), Opposing(a4)
    PROVE  LET s == <<a1, a2, a3, a4>>
           IN  /\ Stated(s)
               /\ AllPassed(s) <=> ~a1.when /\ ~a2.when /\ ~a3.when /\ ~a4.when
<1> DEFINE s == <<a1, a2, a3, a4>>
<1>1. s \in Seq({a1, a2, a3, a4})
    OBVIOUS
<1>2. AllPassed(s) <=> ~a1.when /\ ~a2.when /\ ~a3.when /\ ~a4.when
    BY DEF AllPassed
<1>3. \A i \in DOMAIN s : Opposing(s[i])
    OBVIOUS
<1> QED BY <1>1, <1>2, <1>3 DEF Stated

LEMMA SevenChecks ==
    ASSUME NEW a1, NEW a2, NEW a3, NEW a4, NEW a5, NEW a6, NEW a7,
           Opposing(a1), Opposing(a2), Opposing(a3), Opposing(a4), Opposing(a5), Opposing(a6),
           Opposing(a7)
    PROVE  LET s == <<a1, a2, a3, a4, a5, a6, a7>>
           IN  /\ Stated(s)
               /\ AllPassed(s) <=> ~a1.when /\ ~a2.when /\ ~a3.when /\ ~a4.when /\ ~a5.when /\
                                   ~a6.when /\ ~a7.when
<1> DEFINE s == <<a1, a2, a3, a4, a5, a6, a7>>
<1>1. s \in Seq({a1, a2, a3, a4, a5, a6, a7})
    OBVIOUS
<1>2. AllPassed(s) <=> ~a1.when /\ ~a2.when /\ ~a3.when /\ ~a4.when /\ ~a5.when /\ ~a6.when /\
                       ~a7.when
    BY DEF AllPassed
<1>3. \A i \in DOMAIN s : Opposing(s[i])
    OBVIOUS
<1> QED BY <1>1, <1>2, <1>3 DEF Stated

LEMMA EightChecks ==
    ASSUME NEW a1, NEW a2, NEW a3, NEW a4, NEW a5, NEW a6, NEW a7, NEW a8,
           Opposing(a1), Opposing(a2), Opposing(a3), Opposing(a4), Opposing(a5), Opposing(a6),
           Opposing(a7), Opposing(a8)
    PROVE  LET s == <<a1, a2, a3, a4, a5, a6, a7, a8>>
           IN  /\ Stated(s)
               /\ AllPassed(s) <=> ~a1.when /\ ~a2.when /\ ~a3.when /\ ~a4.when /\ ~a5.when /\
                                   ~a6.when /\ ~a7.when /\ ~a8.when
<1> DEFINE s == <<a1, a2, a3, a4, a5, a6, a7, a8>>
<1>1. s \in Seq({a1, a2, a3, a4, a5, a6, a7, a8})
    OBVIOUS
<1>2. AllPassed(s) <=> ~a1.when /\ ~a2.when /\ ~a3.when /\ ~a4.when /\ ~a5.when /\ ~a6.when /\
                       ~a7.when /\ ~a8.when
    BY DEF AllPassed
<1>3. \A i \in DOMAIN s : Opposing(s[i])
    OBVIOUS
<1> QED BY <1>1, <1>2, <1>3 DEF Stated

\* The three kinds of checks.
LEMMA ChecksAre ==
    ASSUME NEW when, NEW why, NEW state \in StateNames \ {"ELIGIBLE"}
    PROVE  /\ Opposing(Forced(when, why, state)) /\ Forced(when, why, state).when = when
           /\ Opposing(Mildly(when, why, state)) /\ Mildly(when, why, state).when = when
           /\ Opposing(Limited(when, why)) /\ Limited(when, why).when = when
    BY DEF Opposing, Forced, Mildly, Limited, StateNames

\* What passing the checks of a metric means.
LEMMA MetricChecksAre ==
    ASSUME NEW row, NEW x
    PROVE  /\ Stated(MetricChecks(row, x))
           /\ AllPassed(MetricChecks(row, x)) <=>
                /\ row[x] # Gone /\ row[x] # Bad
                /\ IsNumber(row[x]) => row.status[x] \notin {"UNAVAILABLE", "STALE", "INVALID"}
                /\ row.late[x] \notin {"future", "old"}
<1> DEFINE c1 == Mildly(row[x] = Gone, <<x, "UNAVAILABLE">>, "UNAVAILABLE")
           c2 == Forced(row[x] = Bad, <<x, "INVALID">>, "INVALID")
           c3 == Mildly(IsNumber(row[x]) /\ row.status[x] = "UNAVAILABLE", <<x, "UNAVAILABLE_STATUS">>, "UNAVAILABLE")
           c4 == Forced(IsNumber(row[x]) /\ row.status[x] = "STALE", <<x, "STALE">>, "STALE")
           c5 == Forced(IsNumber(row[x]) /\ row.status[x] = "INVALID", <<x, "INVALID_STATUS">>, "INVALID")
           c6 == Forced(row.late[x] = "future", <<x, "INVALID_TIMESTAMP">>, "INVALID")
           c7 == Forced(row.late[x] = "old", <<x, "STALE">>, "STALE")
<1>1. /\ Opposing(c1) /\ Opposing(c2) /\ Opposing(c3) /\ Opposing(c4)
      /\ Opposing(c5) /\ Opposing(c6) /\ Opposing(c7)
    BY DEF Opposing, Forced, Mildly, StateNames
<1>2. /\ c1.when = (row[x] = Gone) /\ c2.when = (row[x] = Bad)
      /\ c3.when = (IsNumber(row[x]) /\ row.status[x] = "UNAVAILABLE")
      /\ c4.when = (IsNumber(row[x]) /\ row.status[x] = "STALE")
      /\ c5.when = (IsNumber(row[x]) /\ row.status[x] = "INVALID")
      /\ c6.when = (row.late[x] = "future") /\ c7.when = (row.late[x] = "old")
    BY DEF Forced, Mildly
<1>3. MetricChecks(row, x) = <<c1, c2, c3, c4, c5, c6, c7>>
    BY DEF MetricChecks
<1> HIDE DEF c1, c2, c3, c4, c5, c6, c7
<1>4. /\ Stated(MetricChecks(row, x))
      /\ AllPassed(MetricChecks(row, x)) <=> ~c1.when /\ ~c2.when /\ ~c3.when /\ ~c4.when /\ ~c5.when /\ ~c6.when /\ ~c7.when
    BY <1>1, <1>3, SevenChecks
<1> QED BY <1>2, <1>4

\* What passing the checks of the instrument means.
LEMMA IdentityChecksAre ==
    ASSUME NEW row, NEW age
    PROVE  /\ Stated(IdentityChecks(row, age))
           /\ AllPassed(IdentityChecks(row, age)) <=>
                /\ row.sym \notin Excluded
                /\ row.quoted /\ row.trading /\ row.perpetual /\ row.complete /\ row.timed
                /\ ~(age < -Future) /\ ~(age > EvidenceAge)
<1> DEFINE c1 == Forced(row.sym \in Excluded, "EXPLICITLY_EXCLUDED", "INELIGIBLE")
           c2 == Forced(~row.quoted, "QUOTE_ASSET_MISMATCH", "INELIGIBLE")
           c3 == Forced(~row.trading, "INSTRUMENT_NOT_TRADING", "INELIGIBLE")
           c4 == Forced(~row.perpetual, "INELIGIBLE_INSTRUMENT_TYPE", "INELIGIBLE")
           c5 == Forced(~row.complete, "INCOMPLETE_CANDIDATE_SNAPSHOT", "UNAVAILABLE")
           c6 == Forced(~row.timed, "MARKET_EVIDENCE_UNAVAILABLE", "UNAVAILABLE")
           c7 == Forced(row.timed /\ age < -Future, "INVALID_FUTURE_TIMESTAMP", "INVALID")
           c8 == Forced(row.timed /\ age > EvidenceAge, "MARKET_EVIDENCE_STALE", "STALE")
<1>1. /\ Opposing(c1) /\ Opposing(c2) /\ Opposing(c3) /\ Opposing(c4)
      /\ Opposing(c5) /\ Opposing(c6) /\ Opposing(c7) /\ Opposing(c8)
    BY DEF Opposing, Forced, StateNames
<1>2. /\ c1.when = (row.sym \in Excluded) /\ c2.when = (~row.quoted) /\ c3.when = (~row.trading)
      /\ c4.when = (~row.perpetual) /\ c5.when = (~row.complete) /\ c6.when = (~row.timed)
      /\ c7.when = (row.timed /\ age < -Future) /\ c8.when = (row.timed /\ age > EvidenceAge)
    BY DEF Forced
<1>3. IdentityChecks(row, age) = <<c1, c2, c3, c4, c5, c6, c7, c8>>
    BY DEF IdentityChecks
<1> HIDE DEF c1, c2, c3, c4, c5, c6, c7, c8
<1>4. /\ Stated(IdentityChecks(row, age))
      /\ AllPassed(IdentityChecks(row, age)) <=> /\ ~c1.when /\ ~c2.when /\ ~c3.when /\ ~c4.when
                                                /\ ~c5.when /\ ~c6.when /\ ~c7.when /\ ~c8.when
    BY <1>1, <1>3, EightChecks
<1> QED BY <1>2, <1>4

\* What passing the limits means.
LEMMA LimitChecksAre ==
    ASSUME NEW row
    PROVE  /\ Stated(LimitChecks(row))
           /\ AllPassed(LimitChecks(row)) <=>
                /\ ~Below(row.vol, MinVolume) /\ ~Above(row.spread, WidestSpread)
                /\ row.slipStatus = "" => row.slip # Bad /\ ~Above(row.slip, WidestSpread)
                /\ row.liq # Bad /\ ~Below(row.liq, 3) /\ ~Above(row.liq, 10)
                /\ row.fundingStatus = "MEASURED" => row.funding # Bad /\ ~Above(row.funding, 1)
<1> DEFINE c1 == Limited(Below(row.vol, MinVolume), "BELOW_MIN_VOLUME_24H")
           c2 == Limited(Above(row.spread, WidestSpread), "UNSAFE_SPREAD")
           c3 == Forced(row.slipStatus = "" /\ row.slip = Bad, "SLIPPAGE_INVALID", "INVALID")
           c4 == Limited(row.slipStatus = "" /\ Above(row.slip, WidestSpread), "UNSAFE_EXPECTED_SLIPPAGE")
           c5 == Forced(row.liq = Bad \/ Above(row.liq, 10), "LIQUIDITY_SCORE_INVALID", "INVALID")
           c6 == Limited(Below(row.liq, 3), "LOW_LIQUIDITY")
           c7 == Forced(row.fundingStatus = "MEASURED" /\ row.funding = Bad, "FUNDING_INVALID", "INVALID")
           c8 == Limited(row.fundingStatus = "MEASURED" /\ Above(row.funding, 1), "FUNDING_ANOMALY")
<1>1. /\ Opposing(c1) /\ Opposing(c2) /\ Opposing(c3) /\ Opposing(c4)
      /\ Opposing(c5) /\ Opposing(c6) /\ Opposing(c7) /\ Opposing(c8)
    BY DEF Opposing, Forced, Limited, StateNames
<1>2. /\ c1.when = Below(row.vol, MinVolume) /\ c2.when = Above(row.spread, WidestSpread)
      /\ c3.when = (row.slipStatus = "" /\ row.slip = Bad)
      /\ c4.when = (row.slipStatus = "" /\ Above(row.slip, WidestSpread))
      /\ c5.when = (row.liq = Bad \/ Above(row.liq, 10)) /\ c6.when = Below(row.liq, 3)
      /\ c7.when = (row.fundingStatus = "MEASURED" /\ row.funding = Bad)
      /\ c8.when = (row.fundingStatus = "MEASURED" /\ Above(row.funding, 1))
    BY DEF Forced, Limited
<1>3. LimitChecks(row) = <<c1, c2, c3, c4, c5, c6, c7, c8>>
    BY DEF LimitChecks
<1> HIDE DEF c1, c2, c3, c4, c5, c6, c7, c8
<1>4. /\ Stated(LimitChecks(row))
      /\ AllPassed(LimitChecks(row)) <=> /\ ~c1.when /\ ~c2.when /\ ~c3.when /\ ~c4.when
                                        /\ ~c5.when /\ ~c6.when /\ ~c7.when /\ ~c8.when
    BY <1>1, <1>3, EightChecks
<1> QED BY <1>2, <1>4

\* What passing the checks of the market cap means.
LEMMA CapChecksAre ==
    ASSUME NEW row
    PROVE  /\ Stated(CapChecks(row))
           /\ AllPassed(CapChecks(row)) <=>
                (CapWanted => /\ row.cap # Gone /\ row.cap # Bad
                              /\ row.capAge \notin {"none", "future", "old"}
                              /\ CapCurrent(row) => ~CapTooLow(row) /\ ~CapTooHigh(row))
<1> DEFINE c1 == Mildly(CapUnknown(row), <<"cap", "UNAVAILABLE">>, "UNAVAILABLE")
           c2 == Forced(~CapUnknown(row) /\ row.cap = Bad, <<"cap", "INVALID">>, "INVALID")
           c3 == Forced(CapStated(row) /\ row.capAge = "future", <<"cap", "INVALID_FUTURE_TIMESTAMP">>, "INVALID")
           c4 == Forced(CapStated(row) /\ row.capAge = "old", <<"cap", "STALE">>, "STALE")
           l1 == Limited(CapCurrent(row) /\ CapTooLow(row), "BELOW_MIN_MARKET_CAP")
           l2 == Limited(CapCurrent(row) /\ CapTooHigh(row), "ABOVE_MAX_MARKET_CAP")
           evidence == CapEvidenceChecks(row)
           limits == CapLimitChecks(row)
<1>1. /\ Opposing(c1) /\ Opposing(c2) /\ Opposing(c3) /\ Opposing(c4)
      /\ Opposing(l1) /\ Opposing(l2)
    BY DEF Opposing, Forced, Mildly, Limited, StateNames
<1>2. /\ c1.when = CapUnknown(row) /\ c2.when = (~CapUnknown(row) /\ row.cap = Bad)
      /\ c3.when = (CapStated(row) /\ row.capAge = "future")
      /\ c4.when = (CapStated(row) /\ row.capAge = "old")
      /\ l1.when = (CapCurrent(row) /\ CapTooLow(row))
      /\ l2.when = (CapCurrent(row) /\ CapTooHigh(row))
    BY DEF Forced, Mildly, Limited
<1>3. evidence = <<c1, c2, c3, c4>> /\ limits = <<l1, l2>>
    BY DEF CapEvidenceChecks, CapLimitChecks
<1>4. CapChecks(row) = IF CapWanted THEN evidence \o limits ELSE << >>
    BY DEF CapChecks
<1> HIDE DEF c1, c2, c3, c4, l1, l2, evidence, limits
<1>5. /\ Stated(evidence) /\ (AllPassed(evidence) <=> ~c1.when /\ ~c2.when /\ ~c3.when /\ ~c4.when)
      /\ Stated(limits) /\ (AllPassed(limits) <=> ~l1.when /\ ~l2.when)
    BY <1>1, <1>3, FourChecks, TwoChecks
<1>6. Stated(evidence \o limits) /\ (AllPassed(evidence \o limits) <=> AllPassed(evidence) /\ AllPassed(limits))
    BY <1>5, CheckAfterCheck
<1>7. AllPassed(evidence) <=> /\ row.cap # Gone /\ row.cap # Bad
                              /\ row.capAge \notin {"none", "future", "old"}
    BY <1>2, <1>5 DEF CapUnknown, CapStated
<1>8. AllPassed(limits) <=> (CapCurrent(row) => ~CapTooLow(row) /\ ~CapTooHigh(row))
    BY <1>2, <1>5
<1>9. Stated(<< >>) /\ AllPassed(<< >>)
    BY DEF Stated, AllPassed
<1> QED BY <1>4, <1>6, <1>7, <1>8, <1>9

\* What a check leaves of a state.
Left(v, c) == IF c.when THEN Worsened(v, c) ELSE v

\* A check leaves a row eligible if it was and the check is passed, and only then.
LEMMA ChecksWorsen ==
    ASSUME NEW v \in StateNames, NEW c, Opposing(c)
    PROVE  /\ Left(v, c) \in StateNames
           /\ Left(v, c) = "ELIGIBLE" <=> v = "ELIGIBLE" /\ ~c.when
    BY DEF Left, Worsened, Opposing, StateNames

\* The states a row is in as its checks are made.
IsVerdict(g, checks) ==
    g = [n \in 0 .. Len(checks) |-> IF n = 0 THEN "ELIGIBLE" ELSE Left(g[n - 1], checks[n])]

\* The state after each check exists.
LEMMA VerdictExists ==
    ASSUME NEW checks, Stated(checks)
    PROVE  \E g : IsVerdict(g, checks)
<1> DEFINE N == Len(checks)
           F == [p \in (1 .. N) \X StateNames |-> Left(p[2], checks[p[1]])]
<1>1. N \in Nat /\ \A n \in 1 .. N : Opposing(checks[n])
    BY DEF Stated
<1> HIDE DEF N
<1>2. F \in [(1 .. N) \X StateNames -> StateNames]
    BY <1>1, ChecksWorsen
<1>3. "ELIGIBLE" \in StateNames
    BY DEF StateNames
<1>4. \A n \in 1 .. N, v \in StateNames : F[<<n, v>>] = Left(v, checks[n])
    OBVIOUS
<1> HIDE DEF F
<1>5. PICK g \in [0 .. N -> StateNames] : Steps(g, N, "ELIGIBLE", F)
    BY <1>1, <1>2, <1>3, StepsExist
<1> USE DEF Steps
<1>6. ASSUME NEW n \in 0 .. N
      PROVE  g[n] = IF n = 0 THEN "ELIGIBLE" ELSE Left(g[n - 1], checks[n])
  <2>1. CASE n = 0
      BY <1>5, <2>1
  <2>2. CASE n # 0
    <3>1. n \in 1 .. N /\ n - 1 \in 0 .. N
        BY <1>1, <2>2
    <3>2. g[n - 1] \in StateNames
        BY <3>1
    <3>3. g[n] = F[<<n, g[n - 1]>>]
        BY <1>5, <3>1
    <3> QED BY <1>4, <2>2, <3>1, <3>2, <3>3
  <2> QED BY <2>1, <2>2
<1>7. g = [n \in 0 .. N |-> g[n]]
    OBVIOUS
<1>8. g = [n \in 0 .. N |-> IF n = 0 THEN "ELIGIBLE" ELSE Left(g[n - 1], checks[n])]
    BY <1>6, <1>7
<1> QED BY <1>8 DEF IsVerdict, N

\* The state of a row is one of the states, and it is eligible just if no check
\* speaks against it.
LEMMA JudgedIs ==
    ASSUME NEW r, NEW age, Stated(Checks(Facts(r), age))
    PROVE  /\ Judged(r, age).row = r
           /\ Judged(r, age).state \in StateNames
           /\ Judged(r, age).state = "ELIGIBLE" <=>
                Facts(r).wellNamed /\ AllPassed(Checks(Facts(r), age))
<1> DEFINE checks == Checks(Facts(r), age)
           N == Len(checks)
           step(g) == [n \in 0 .. N |-> IF n = 0 THEN "ELIGIBLE" ELSE Left(g[n - 1], checks[n])]
           after == CHOOSE g : g = step(g)
<1>1. /\ Judged(r, age).row = r
      /\ Judged(r, age).state = IF ~Facts(r).wellNamed THEN "INVALID" ELSE after[N]
    BY DEF Judged, Left
<1>2. PICK g : IsVerdict(g, checks)
    BY VerdictExists
<1>3. g = step(g)
    BY <1>2 DEF IsVerdict
<1>4. N \in Nat /\ \A n \in 1 .. N : Opposing(checks[n])
    BY DEF Stated
<1>5. AllPassed(checks) <=> \A n \in 1 .. N : ~checks[n].when
    BY DEF Stated, AllPassed
<1> HIDE DEF step
<1>6. after = step(after)
    BY <1>3
<1> HIDE DEF after, N, checks
<1>7. ASSUME NEW n \in 0 .. N
      PROVE  after[n] = IF n = 0 THEN "ELIGIBLE" ELSE Left(after[n - 1], checks[n])
  <2> DEFINE v(k) == IF k = 0 THEN "ELIGIBLE" ELSE Left(after[k - 1], checks[k])
             f == [k \in 0 .. N |-> v(k)]
  <2>1. after = f
      BY <1>6 DEF step
  <2> HIDE DEF v
  <2>2. f[n] = v(n)
      OBVIOUS
  <2> HIDE DEF f
  <2> QED BY <2>1, <2>2 DEF v
<1> DEFINE Right(n) == /\ after[n] \in StateNames
                       /\ after[n] = "ELIGIBLE" <=> \A k \in 1 .. n : ~checks[k].when
           bad == {n \in 0 .. N : ~Right(n)}
<1>8. bad = {}
  <2> SUFFICES ASSUME bad # {} PROVE FALSE
      OBVIOUS
  <2>1. PICK n \in bad : \A k \in bad : n <= k
    <3>1. bad \subseteq Nat
        OBVIOUS
    <3> HIDE DEF bad
    <3> QED BY <3>1, LeastOf
  <2>2. n \in 0 .. N /\ ~Right(n)
      BY <2>1
  <2>3. n # 0
    <3>1. Right(0)
        BY <1>4, <1>7 DEF StateNames
    <3> QED BY <2>2, <3>1
  <2>4. n \in 1 .. N /\ n - 1 \in 0 .. N /\ n - 1 < n
      BY <1>4, <2>2, <2>3
  <2>5. n - 1 \notin bad
    <3> HIDE DEF bad
    <3>1. n - 1 \in bad => n <= n - 1
        BY <2>1
    <3> QED BY <2>4, <3>1
  <2>6. Right(n - 1)
      BY <2>4, <2>5
  <2>7. after[n] = Left(after[n - 1], checks[n])
      BY <1>7, <2>2, <2>3
  <2>8. /\ after[n] \in StateNames
        /\ after[n] = "ELIGIBLE" <=> after[n - 1] = "ELIGIBLE" /\ ~checks[n].when
      BY <1>4, <2>4, <2>6, <2>7, ChecksWorsen
  <2>9. after[n] = "ELIGIBLE" <=> \A k \in 1 .. n : ~checks[k].when
      BY <2>4, <2>6, <2>8
  <2> QED BY <2>2, <2>8, <2>9
<1>9. Right(N)
    BY <1>4, <1>8
<1> QED BY <1>1, <1>5, <1>9 DEF StateNames, checks

\* All checks of a row are of this kind.
LEMMA AllStated ==
    ASSUME NEW row, NEW age
    PROVE  /\ Stated(Checks(row, age))
           /\ AllPassed(Checks(row, age)) <=>
                /\ AllPassed(IdentityChecks(row, age)) /\ AllPassed(LimitChecks(row))
                /\ AllPassed(CapChecks(row))
                /\ \A x \in RequiredMetrics : AllPassed(MetricChecks(row, x))
<1> DEFINE a == IdentityChecks(row, age)
           b == MetricChecks(row, "vol")
           c == MetricChecks(row, "spread")
           d == MetricChecks(row, "vola")
           e == LimitChecks(row)
           f == CapChecks(row)
<1>1. Stated(a) /\ Stated(b) /\ Stated(c) /\ Stated(d) /\ Stated(e) /\ Stated(f)
    BY IdentityChecksAre, MetricChecksAre, LimitChecksAre, CapChecksAre
<1>2. Checks(row, age) = a \o b \o c \o d \o e \o f
    BY DEF Checks
<1> HIDE DEF a, b, c, d, e, f
<1>3. Stated(a \o b) /\ (AllPassed(a \o b) <=> AllPassed(a) /\ AllPassed(b))
    BY <1>1, CheckAfterCheck
<1>4. Stated(a \o b \o c) /\ (AllPassed(a \o b \o c) <=> AllPassed(a \o b) /\ AllPassed(c))
    BY <1>1, <1>3, CheckAfterCheck
<1>5. Stated(a \o b \o c \o d) /\ (AllPassed(a \o b \o c \o d) <=> AllPassed(a \o b \o c) /\ AllPassed(d))
    BY <1>1, <1>4, CheckAfterCheck
<1>6. /\ Stated(a \o b \o c \o d \o e)
      /\ AllPassed(a \o b \o c \o d \o e) <=> AllPassed(a \o b \o c \o d) /\ AllPassed(e)
    BY <1>1, <1>5, CheckAfterCheck
<1>7. /\ Stated(a \o b \o c \o d \o e \o f)
      /\ AllPassed(a \o b \o c \o d \o e \o f) <=> AllPassed(a \o b \o c \o d \o e) /\ AllPassed(f)
    BY <1>1, <1>6, CheckAfterCheck
<1>8. AllPassed(Checks(row, age)) <=> /\ AllPassed(a) /\ AllPassed(b) /\ AllPassed(c)
                                     /\ AllPassed(d) /\ AllPassed(e) /\ AllPassed(f)
    BY <1>2, <1>3, <1>4, <1>5, <1>6, <1>7
<1> QED BY <1>2, <1>7, <1>8 DEF a, b, c, d, e, f, RequiredMetrics

\* What a limit means for a number.
LEMMA LimitsMean ==
    ASSUME NEW x \in Measures, NEW limit \in Int
    PROVE  /\ x \in Int
           /\ IsNumber(x) <=> x # Gone /\ x # Bad
           /\ IsNumber(x) => (~Below(x, limit) <=> x >= limit) /\ (~Above(x, limit) <=> x <= limit)
           /\ ~IsNumber(x) => ~Below(x, limit) /\ ~Above(x, limit)
    BY DEF Measures, Gone, Bad, IsNumber, Below, Above

\* The time of a row's evidence is the time it is judged at, or not long before.
InTime(age) == ~(age < -Future) /\ ~(age > EvidenceAge)

\* The limits of a row's market cap.
LEMMA CapMeans ==
    ASSUME UniverseAssumption, NEW r \in SymbolRow, NEW row, row = Facts(r)
    PROVE  AllPassed(CapChecks(row)) <=>
             (CapWanted => /\ row.cap \notin {Gone, Bad} /\ row.capAge = "fresh"
                           /\ MinCap # Gone => row.cap >= MinCap
                           /\ MaxCap # Gone => row.cap <= MaxCap)
<1>1. row.cap \in Measures /\ row.capAge \in {"none", "fresh", "future", "old"}
    BY FactsAre DEF FactsShape
<1>2. MinCap \in Int /\ MaxCap \in Int
    BY DEF UniverseAssumption, Gone
<1>3. ASSUME row.cap \notin {Gone, Bad}, row.capAge = "fresh"
      PROVE  /\ CapCurrent(row)
             /\ ~CapTooLow(row) <=> (MinCap # Gone => row.cap >= MinCap)
             /\ ~CapTooHigh(row) <=> (MaxCap # Gone => row.cap <= MaxCap)
  <2>1. CapCurrent(row)
      BY <1>3 DEF CapCurrent, CapStated, CapUnknown
  <2>2. IsNumber(row.cap)
      BY <1>1, <1>2, <1>3, LimitsMean
  <2>3. (~Below(row.cap, MinCap) <=> row.cap >= MinCap) /\ (~Above(row.cap, MaxCap) <=> row.cap <= MaxCap)
      BY <1>1, <1>2, <2>2, LimitsMean
  <2> QED BY <2>1, <2>3 DEF CapTooLow, CapTooHigh
<1>4. AllPassed(CapChecks(row)) <=>
        (CapWanted => /\ row.cap # Gone /\ row.cap # Bad
                      /\ row.capAge \notin {"none", "future", "old"}
                      /\ CapCurrent(row) => ~CapTooLow(row) /\ ~CapTooHigh(row))
    BY CapChecksAre
<1> QED BY <1>1, <1>3, <1>4

\* No check speaks against a row just if it may be traded and is in time.
LEMMA TradableIsPassed ==
    ASSUME UniverseAssumption, NEW r \in SymbolRow, NEW age, NEW row, row = Facts(r)
    PROVE  row.wellNamed /\ AllPassed(Checks(row, age)) <=> Tradable(row) /\ InTime(age)
<1> DEFINE Identified == /\ row.sym \notin Excluded
                         /\ row.quoted /\ row.trading /\ row.perpetual /\ row.complete /\ row.timed
           Measured == \A x \in RequiredMetrics :
                          IsNumber(row[x]) /\ row.status[x] = "MEASURED" /\ row.late[x] = "untimed"
           Slips == row.slipStatus = "" => row.slip = Gone \/ (row.slip # Bad /\ row.slip <= WidestSpread)
           Deep == row.liq = Gone \/ (row.liq # Bad /\ row.liq >= 3 /\ row.liq <= 10)
           Funds == row.fundingStatus = "MEASURED" => row.funding = Gone \/ (row.funding # Bad /\ row.funding <= 1)
           Within == row.vol >= MinVolume /\ row.spread <= WidestSpread /\ Slips /\ Deep /\ Funds
           Capped == CapWanted => /\ row.cap \notin {Gone, Bad} /\ row.capAge = "fresh"
                                  /\ MinCap # Gone => row.cap >= MinCap
                                  /\ MaxCap # Gone => row.cap <= MaxCap
<1>1. FactsShape(row, r.sym)
    BY FactsAre
<1>2. Tradable(row) <=> row.wellNamed /\ Identified /\ Measured /\ Within /\ Capped
    BY DEF Tradable
<1>3. AllPassed(Checks(row, age)) <=>
         /\ AllPassed(IdentityChecks(row, age)) /\ AllPassed(LimitChecks(row))
         /\ AllPassed(CapChecks(row))
         /\ \A x \in RequiredMetrics : AllPassed(MetricChecks(row, x))
    BY AllStated
<1>4. AllPassed(IdentityChecks(row, age)) <=> Identified /\ InTime(age)
    BY IdentityChecksAre DEF InTime
<1>5. (\A x \in RequiredMetrics : AllPassed(MetricChecks(row, x))) <=> Measured
  <2> SUFFICES ASSUME NEW x \in RequiredMetrics
               PROVE  AllPassed(MetricChecks(row, x)) <=>
                        IsNumber(row[x]) /\ row.status[x] = "MEASURED" /\ row.late[x] = "untimed"
      OBVIOUS
  <2>1. row[x] \in Measures /\ row.status[x] \in StatusLabels /\ row.late[x] \in {"untimed", "future", "old"}
      BY <1>1 DEF FactsShape, RequiredMetrics
  <2>2. IsNumber(row[x]) <=> row[x] # Gone /\ row[x] # Bad
      BY <2>1 DEF Measures, IsNumber, Gone, Bad
  <2>3. AllPassed(MetricChecks(row, x)) <=>
          /\ row[x] # Gone /\ row[x] # Bad
          /\ IsNumber(row[x]) => row.status[x] \notin {"UNAVAILABLE", "STALE", "INVALID"}
          /\ row.late[x] \notin {"future", "old"}
      BY MetricChecksAre
  <2> QED BY <2>1, <2>2, <2>3 DEF StatusLabels
<1>6. ASSUME Measured PROVE AllPassed(LimitChecks(row)) <=> Within
  <2>1. /\ MinVolume \in Int /\ WidestSpread \in Int /\ 3 \in Int /\ 10 \in Int /\ 1 \in Int
        /\ row.vol \in Measures /\ row.spread \in Measures /\ row.slip \in Measures
        /\ row.liq \in Measures /\ row.funding \in Measures
        /\ Gone # Bad
      BY <1>1 DEF UniverseAssumption, FactsShape, Gone, Bad
  <2>2. (~Below(row.vol, MinVolume) <=> row.vol >= MinVolume)
        /\ (~Above(row.spread, WidestSpread) <=> row.spread <= WidestSpread)
    <3>1. IsNumber(row.vol) /\ IsNumber(row.spread)
        BY <1>6 DEF RequiredMetrics
    <3> QED BY <2>1, <3>1, LimitsMean
  <2>3. row.slip # Bad /\ ~Above(row.slip, WidestSpread) <=>
           row.slip = Gone \/ (row.slip # Bad /\ row.slip <= WidestSpread)
      BY <2>1, LimitsMean
  <2>4. row.liq # Bad /\ ~Below(row.liq, 3) /\ ~Above(row.liq, 10) <=> Deep
      BY <2>1, LimitsMean
  <2>5. row.funding # Bad /\ ~Above(row.funding, 1) <=>
           row.funding = Gone \/ (row.funding # Bad /\ row.funding <= 1)
      BY <2>1, LimitsMean
  <2>6. AllPassed(LimitChecks(row)) <=>
           /\ ~Below(row.vol, MinVolume) /\ ~Above(row.spread, WidestSpread)
           /\ row.slipStatus = "" => row.slip # Bad /\ ~Above(row.slip, WidestSpread)
           /\ row.liq # Bad /\ ~Below(row.liq, 3) /\ ~Above(row.liq, 10)
           /\ row.fundingStatus = "MEASURED" => row.funding # Bad /\ ~Above(row.funding, 1)
      BY LimitChecksAre
  <2> HIDE DEF Deep
  <2> QED BY <2>2, <2>3, <2>4, <2>5, <2>6
<1>7. AllPassed(CapChecks(row)) <=> Capped
    BY CapMeans
<1> HIDE DEF Identified, Measured, Within, Capped
<1> QED BY <1>2, <1>3, <1>4, <1>5, <1>6, <1>7

\* A row is eligible just if it may be traded and is in time.
LEMMA EligibleIsTradable ==
    ASSUME UniverseAssumption, NEW r \in SymbolRow, NEW age
    PROVE  Judged(r, age).state = "ELIGIBLE" <=> Tradable(Facts(r)) /\ InTime(age)
<1>1. Judged(r, age).state = "ELIGIBLE" <=> Facts(r).wellNamed /\ AllPassed(Checks(Facts(r), age))
    BY AllStated, JudgedIs
<1> QED BY <1>1, TradableIsPassed

\* The largest number of a finite set is one of them.
LEMMA LargestIs ==
    ASSUME NEW S, IsFiniteSet(S), S \subseteq Int, NEW d, S # {}
    PROVE  Largest(S, d) \in S
<1> DEFINE R == {p \in S \X S : p[1] > p[2]}
<1>1. \A x, y \in S : <<x, y>> \in R <=> x > y
    OBVIOUS
<1>2. StrictOrder(S, R)
  <2> HIDE DEF R
  <2> QED BY <1>1 DEF StrictOrder
<1>3. PICK x \in S : AheadOf(S, R, x) = {}
  <2> HIDE DEF R
  <2> QED BY <1>2, SomebodyIsFirst
<1>4. \A y \in S : x >= y
  <2> HIDE DEF R
  <2>1. \A y \in S : <<y, x>> \notin R
      BY <1>3 DEF AheadOf
  <2>2. \A y \in S : ~(y > x)
      BY <1>1, <2>1
  <2> QED BY <2>2
<1> QED BY <1>4 DEF Largest

\* The score of a row that may be traded is a number.
LEMMA ScoreIs ==
    ASSUME UniverseAssumption, NEW row, NEW s, FactsShape(row, s), NEW maxVol \in Nat, NEW maxVola \in Nat
    PROVE  Score(row, maxVol, maxVola) \in Int
<1>1. /\ row.vol \in Int /\ row.spread \in Int /\ row.vola \in Int /\ row.slip \in Int /\ row.liq \in Int
    BY DEF FactsShape, Measures, Gone, Bad
<1>2. WidestSpread \in Nat \ {0}
    BY DEF UniverseAssumption
<1> DEFINE volume == IF maxVol = 0 THEN 40 ELSE (40 * row.vol) \div maxVol
           tight  == 30 - (30 * row.spread) \div WidestSpread
           liquid == IF row.liq = Gone THEN 0 ELSE (15 * row.liq) \div 10
           vola   == IF maxVola = 0 THEN 0 ELSE (15 * row.vola) \div maxVola
           slip   == IF row.slip = Gone \/ row.slipStatus # "" THEN 15
                     ELSE (20 * row.slip) \div WidestSpread
           unsure == (IF row.liq = Gone THEN 5 ELSE 0)
                     + (IF row.funding = Gone \/ row.fundingStatus # "MEASURED" THEN 3 ELSE 0)
           trend  == IF row.vola >= 2 THEN 10 ELSE 5 * row.vola
           regime == trend - 5
           sum    == volume + tight + liquid + vola + regime - slip - unsure
<1>3. volume \in Int
    BY <1>1
<1>4. tight \in Int
    BY <1>1, <1>2
<1>5. liquid \in Int
    BY <1>1
<1>6. vola \in Int
    BY <1>1
<1>7. slip \in Int
  <2> DEFINE share == (20 * row.slip) \div WidestSpread
  <2>1. share \in Int
      BY <1>1, <1>2
  <2>2. slip = 15 \/ slip = share
      OBVIOUS
  <2> HIDE DEF share, slip
  <2> QED BY <2>1, <2>2
<1>8. unsure \in Int
    OBVIOUS
<1>9. regime \in Int
    BY <1>1
<1>10. Score(row, maxVol, maxVola) = Largest({0, sum}, 0)
    BY DEF Score
<1> HIDE DEF volume, tight, liquid, vola, slip, unsure, regime
<1>11. sum \in Int
    BY <1>3, <1>4, <1>5, <1>6, <1>7, <1>8, <1>9
<1> HIDE DEF sum
<1>12. IsFiniteSet({0, sum})
  <2>1. IsFiniteSet({0}) /\ {0, sum} = {0} \cup {sum}
      BY FS_Singleton
  <2> QED BY <2>1, FS_AddElement
<1>13. Largest({0, sum}, 0) \in {0, sum}
    BY <1>11, <1>12, LargestIs
<1> QED BY <1>10, <1>11, <1>13

\* A list of decisions on rows, as each stage of the selection hands it on.
DecisionParts == {"row", "state", "why"}

AreDecisions(j) ==
    /\ IsFiniteSet(DOMAIN j) /\ DOMAIN j \subseteq Nat
    /\ \A i \in DOMAIN j :
          /\ DOMAIN j[i] = DecisionParts /\ IsJudged(j[i])
          /\ j[i].state = "ELIGIBLE" => Tradable(Facts(j[i].row))
\* No symbol is eligible twice.
Alone(j) == \A i, k \in EligibleAt(j) : j[i].row.sym = j[k].row.sym => i = k

\* A demoted row keeps all but its state.
LEMMA DemotedIs ==
    ASSUME NEW d, DOMAIN d = DecisionParts, NEW why
    PROVE  /\ DOMAIN Demote(d, why) = DecisionParts
           /\ Demote(d, why).row = d.row /\ Demote(d, why).state = "INELIGIBLE"
    BY DEF Demote, DecisionParts

\* A stage that demotes some of the rows, for one reason,
Demotes(j, e, out, why) ==
    /\ DOMAIN e = DOMAIN j
    /\ \A i \in DOMAIN j : e[i] = IF i \in out THEN Demote(j[i], why) ELSE j[i]

\* hands on decisions, and makes nothing eligible.
LEMMA StageIs ==
    ASSUME NEW j, AreDecisions(j), NEW e, NEW out, NEW why, Demotes(j, e, out, why)
    PROVE  /\ AreDecisions(e) /\ EligibleAt(e) = EligibleAt(j) \ out
           /\ \A i \in DOMAIN j : e[i].row = j[i].row
           /\ Alone(j) => Alone(e)
<1>1. \A i \in DOMAIN j : DOMAIN j[i] = DecisionParts /\ IsJudged(j[i])
    BY DEF AreDecisions
<1>2. ASSUME NEW i \in DOMAIN j
      PROVE  /\ DOMAIN e[i] = DecisionParts /\ e[i].row = j[i].row
             /\ i \in out => e[i].state = "INELIGIBLE"
             /\ i \notin out => e[i].state = j[i].state
    BY <1>1, DemotedIs DEF Demotes
<1>3. EligibleAt(e) = EligibleAt(j) \ out
    BY <1>2 DEF EligibleAt, Demotes
<1>4. AreDecisions(e)
    BY <1>1, <1>2 DEF AreDecisions, IsJudged, StateNames, Demotes
<1>5. Alone(j) => Alone(e)
    BY <1>2, <1>3 DEF Alone, EligibleAt
<1> QED BY <1>2, <1>3, <1>4, <1>5

\* Judging rows gives decisions on them: a row is eligible just if it may be traded
\* and is in time.
LEMMA JudgedAre ==
    ASSUME UniverseAssumption, NEW rows \in Seq(SymbolRow), NEW age
    PROVE  LET j == [i \in DOMAIN rows |-> Judged(rows[i], age)]
           IN  /\ AreDecisions(j) /\ \A i \in DOMAIN rows : j[i].row = rows[i]
               /\ \A i \in DOMAIN rows : i \in EligibleAt(j) <=> Tradable(Facts(rows[i])) /\ InTime(age)
<1> DEFINE j == [i \in DOMAIN rows |-> Judged(rows[i], age)]
<1>1. Len(rows) \in Nat /\ DOMAIN rows = 1 .. Len(rows) /\ \A i \in DOMAIN rows : rows[i] \in SymbolRow
    OBVIOUS
<1>2. ASSUME NEW i \in DOMAIN rows
      PROVE  /\ DOMAIN j[i] = DecisionParts /\ IsJudged(j[i]) /\ j[i].row = rows[i]
             /\ j[i].state = "ELIGIBLE" <=> Tradable(Facts(rows[i])) /\ InTime(age)
  <2>1. j[i] = Judged(rows[i], age)
      OBVIOUS
  <2> HIDE DEF j
  <2>2. Stated(Checks(Facts(rows[i]), age))
      BY AllStated
  <2>3. DOMAIN Judged(rows[i], age) = DecisionParts
      BY DEF Judged, DecisionParts
  <2>4. Judged(rows[i], age).row = rows[i] /\ Judged(rows[i], age).state \in StateNames
      BY <2>2, JudgedIs
  <2>5. Judged(rows[i], age).state = "ELIGIBLE" <=> Tradable(Facts(rows[i])) /\ InTime(age)
      BY <1>1, EligibleIsTradable
  <2> QED BY <1>1, <2>1, <2>3, <2>4, <2>5 DEF IsJudged
<1>3. IsFiniteSet(DOMAIN rows) /\ DOMAIN rows \subseteq Nat
  <2>1. IsFiniteSet(1 .. Len(rows))
      BY <1>1, UpTo
  <2> QED BY <1>1, <2>1
<1> QED BY <1>2, <1>3 DEF AreDecisions, EligibleAt

\* Of two rows of a symbol one is the better.
LEMMA OneBeats ==
    ASSUME UniverseAssumption, NEW j, AreDecisions(j), NEW i \in DOMAIN j, NEW k \in DOMAIN j,
           i # k, j[i].row.sym = j[k].row.sym
    PROVE  Beats(j, i, k) \/ Beats(j, k, i)
<1> DEFINE r == j[i].row
           q == j[k].row
           a == Facts(r)
           b == Facts(q)
<1>1. r \in SymbolRow /\ q \in SymbolRow /\ i \in Nat /\ k \in Nat
    BY DEF AreDecisions, IsJudged
<1>2. r.kind \in Int /\ q.kind \in Int /\ (r.kind = q.kind => r = q)
    BY <1>1 DEF SymbolRow, MidOnly, Oddities
<1>3. FactsShape(a, r.sym) /\ FactsShape(b, q.sym)
    BY <1>1, FactsAre
<1> HIDE DEF r, q, a, b
<1>4. /\ a.vol \in Int /\ b.vol \in Int /\ a.spread \in Int /\ b.spread \in Int
      /\ a.src \in Int /\ b.src \in Int
    BY <1>3 DEF FactsShape, Measures, Gone, Bad
<1>5. Better(r, q) \/ Better(q, r) \/ r = q
    BY <1>2, <1>4 DEF Better, a, b
<1> QED BY <1>1, <1>5 DEF Beats, r, q

\* The rows of a symbol are in order of their quality.
Rivals(j, s) == {k \in EligibleAt(j) : j[k].row.sym = s}
ByQuality(j, s) == {p \in Rivals(j, s) \X Rivals(j, s) : Beats(j, p[1], p[2])}

LEMMA ByQualityIsStrict ==
    ASSUME UniverseAssumption, NEW j, AreDecisions(j), NEW s
    PROVE  IsFiniteSet(Rivals(j, s)) /\ StrictOrder(Rivals(j, s), ByQuality(j, s))
<1> DEFINE S == Rivals(j, s)
           fact == [i \in S |-> Facts(j[i].row)]
<1>1. IsFiniteSet(S)
    BY FS_Subset DEF Rivals, EligibleAt, AreDecisions
<1>2. ASSUME NEW i \in S
      PROVE  /\ i \in DOMAIN j /\ i \in Nat /\ j[i].row.sym = s /\ j[i].row.kind \in Int
             /\ fact[i].vol \in Int /\ fact[i].spread \in Int /\ fact[i].src \in Int
  <2>1. i \in DOMAIN j /\ i \in Nat /\ j[i].row \in SymbolRow /\ j[i].row.sym = s
      BY DEF Rivals, EligibleAt, AreDecisions, IsJudged
  <2>2. j[i].row.kind \in Int
      BY <2>1 DEF SymbolRow, MidOnly, Oddities
  <2>3. FactsShape(fact[i], j[i].row.sym)
      BY <2>1, FactsAre
  <2> QED BY <2>1, <2>2, <2>3 DEF FactsShape, Measures, Gone, Bad
<1>3. \A i, k \in S : <<i, k>> \in ByQuality(j, s) <=> Beats(j, i, k)
    BY DEF ByQuality
<1>4. \A i, k \in S : j[i].row = j[k].row => fact[i] = fact[k]
    BY Zenon
<1>5. ASSUME NEW i \in S, NEW k \in S
      PROVE  Beats(j, i, k) <=>
               \/ fact[i].vol > fact[k].vol
               \/ fact[i].vol = fact[k].vol /\ fact[i].spread < fact[k].spread
               \/ fact[i].vol = fact[k].vol /\ fact[i].spread = fact[k].spread /\ fact[i].src < fact[k].src
               \/ /\ fact[i].vol = fact[k].vol /\ fact[i].spread = fact[k].spread
                  /\ fact[i].src = fact[k].src /\ j[i].row.kind < j[k].row.kind
               \/ j[i].row = j[k].row /\ i < k
  <2>1. fact[i] = Facts(j[i].row) /\ fact[k] = Facts(j[k].row)
      OBVIOUS
  <2> QED BY <2>1 DEF Beats, Better
<1>6. \A i, k \in S : i # k => Beats(j, i, k) \/ Beats(j, k, i)
    BY <1>2, OneBeats
<1> HIDE DEF S, fact
<1>7. \A i \in S : ~Beats(j, i, i)
    BY <1>2, <1>5
<1>8. ASSUME NEW x \in S, NEW y \in S, NEW z \in S, Beats(j, x, y), Beats(j, y, z)
      PROVE  Beats(j, x, z)
  <2>1. CASE j[x].row = j[y].row /\ x < y
    <3>1. CASE j[y].row = j[z].row /\ y < z
        BY <1>2, <1>5, <2>1, <3>1
    <3>2. CASE ~(j[y].row = j[z].row /\ y < z)
        BY <1>4, <1>5, <1>8, <2>1, <3>2
    <3> QED BY <3>1, <3>2
  <2>2. CASE ~(j[x].row = j[y].row /\ x < y)
    <3>1. CASE j[y].row = j[z].row /\ y < z
        BY <1>4, <1>5, <1>8, <2>2, <3>1
    <3>2. CASE ~(j[y].row = j[z].row /\ y < z)
        BY <1>2, <1>5, <1>8, <2>2, <3>2
    <3> QED BY <3>1, <3>2
  <2> QED BY <2>1, <2>2
<1>9. StrictOrder(S, ByQuality(j, s))
    BY <1>3, <1>6, <1>7, <1>8 DEF StrictOrder
<1> QED BY <1>1, <1>9 DEF S

\* After duplicates are demoted no symbol is eligible twice, and each that was
\* eligible still is.
LEMMA DeduplicatedIs ==
    ASSUME UniverseAssumption, NEW j, AreDecisions(j)
    PROVE  LET e == Deduplicated(j)
           IN  /\ DOMAIN e = DOMAIN j /\ AreDecisions(e) /\ Alone(e)
               /\ \A i \in DOMAIN j : e[i].row = j[i].row
               /\ EligibleAt(e) \subseteq EligibleAt(j)
               /\ \A i \in EligibleAt(j) : \E k \in EligibleAt(e) : j[k].row.sym = j[i].row.sym
<1> DEFINE e == Deduplicated(j)
           rivals(i) == {k \in EligibleAt(j) \ {i} : j[k].row.sym = j[i].row.sym}
           out == {i \in EligibleAt(j) : \E k \in rivals(i) : Beats(j, k, i)}
           why == "DUPLICATE_SYMBOL_LOWER_QUALITY"
<1>1. Demotes(j, e, out, why)
    BY DEF Deduplicated, Demotes
<1> HIDE DEF e, out, why
<1>2. /\ AreDecisions(e) /\ EligibleAt(e) = EligibleAt(j) \ out
      /\ \A i \in DOMAIN j : e[i].row = j[i].row
    BY <1>1, StageIs
<1>3. ASSUME NEW i \in EligibleAt(e), NEW k \in EligibleAt(e), e[i].row.sym = e[k].row.sym, i # k
      PROVE  FALSE
  <2>1. i \in EligibleAt(j) \ out /\ k \in EligibleAt(j) \ out /\ j[i].row.sym = j[k].row.sym
      BY <1>2, <1>3 DEF EligibleAt
  <2>2. i \in DOMAIN j /\ k \in DOMAIN j
      BY <2>1 DEF EligibleAt
  <2>3. Beats(j, i, k) \/ Beats(j, k, i)
      BY <1>3, <2>1, <2>2, OneBeats
  <2>4. i \in rivals(k) /\ k \in rivals(i)
      BY <1>3, <2>1
  <2> QED BY <2>1, <2>3, <2>4 DEF out
<1>4. ASSUME NEW i \in EligibleAt(j)
      PROVE  \E k \in EligibleAt(e) : j[k].row.sym = j[i].row.sym
  <2> DEFINE sym == j[i].row.sym
             S == Rivals(j, sym)
  <2>1. i \in S /\ IsFiniteSet(S) /\ StrictOrder(S, ByQuality(j, sym))
      BY ByQualityIsStrict DEF Rivals
  <2>2. PICK k \in S : AheadOf(S, ByQuality(j, sym), k) = {}
    <3> HIDE DEF S
    <3> QED BY <2>1, SomebodyIsFirst
  <2>3. \A h \in S : ~Beats(j, h, k)
    <3>1. \A h \in S : <<h, k>> \notin ByQuality(j, sym)
        BY <2>2 DEF AheadOf
    <3> QED BY <3>1 DEF ByQuality
  <2>4. k \in EligibleAt(j) /\ j[k].row.sym = sym
      BY DEF Rivals
  <2>5. k \notin out
      BY <2>3, <2>4 DEF out, Rivals
  <2> QED BY <1>2, <2>4, <2>5
<1> QED BY <1>1, <1>2, <1>3, <1>4 DEF Alone, Demotes, e

\* The measures of the eligible rows are numbers.
LEMMA EligibleIsMeasured ==
    ASSUME UniverseAssumption, NEW j, AreDecisions(j), NEW i \in EligibleAt(j)
    PROVE  /\ i \in DOMAIN j /\ j[i].row \in SymbolRow /\ j[i].row.sym \in Int
           /\ FactsShape(Facts(j[i].row), j[i].row.sym)
           /\ Facts(j[i].row).vol \in Nat /\ Facts(j[i].row).vola \in Nat
<1>1. i \in DOMAIN j /\ j[i].row \in SymbolRow /\ Tradable(Facts(j[i].row))
    BY DEF EligibleAt, AreDecisions, IsJudged
<1>2. j[i].row.sym \in Int
    BY <1>1 DEF SymbolRow, Names
<1>3. FactsShape(Facts(j[i].row), j[i].row.sym)
    BY <1>1, FactsAre
<1>4. Facts(j[i].row).vol \in Measures /\ Facts(j[i].row).vola \in Measures
    BY <1>3 DEF FactsShape
<1>5. Facts(j[i].row).vol >= 0 /\ Facts(j[i].row).vola >= 0
    BY <1>1 DEF Tradable, RequiredMetrics, IsNumber
<1>6. Facts(j[i].row).vol \in Nat /\ Facts(j[i].row).vola \in Nat
    BY <1>4, <1>5 DEF Measures, Gone, Bad
<1> QED BY <1>1, <1>2, <1>3, <1>6

\* The first n of more are no fewer than n.
LEMMA FirstOnes ==
    ASSUME NEW S, IsFiniteSet(S), NEW R, StrictOrder(S, R), NEW n \in Nat, n <= Cardinality(S)
    PROVE  LET first == {i \in S : Cardinality(AheadOf(S, R, i)) < n}
           IN  IsFiniteSet(first) /\ Cardinality(first) \in Nat /\ Cardinality(first) >= n
<1> DEFINE first == {i \in S : Cardinality(AheadOf(S, R, i)) < n}
           at == [m \in 1 .. n |-> CHOOSE i \in S : Cardinality(AheadOf(S, R, i)) = m - 1]
<1>1. IsFiniteSet(first) /\ Cardinality(first) \in Nat /\ Cardinality(S) \in Nat
    BY FS_Subset, FS_CardinalityType
<1>2. ASSUME NEW m \in 1 .. n PROVE at[m] \in S /\ Cardinality(AheadOf(S, R, at[m])) = m - 1
  <2>1. m \in 1 .. Cardinality(S)
      BY <1>1
  <2>2. \E i \in S : Cardinality(AheadOf(S, R, i)) = m - 1
      BY <2>1, PlacesAreTaken
  <2> QED BY <2>2
<1> HIDE DEF at
<1>3. \A m \in 1 .. n : at[m] \in first
    BY <1>2
<1>4. \A m, k \in 1 .. n : at[m] = at[k] => m = k
    BY <1>2
<1>5. Cardinality(1 .. n) = n
    BY UpTo
<1> HIDE DEF first
<1>6. Cardinality(1 .. n) <= Cardinality(first)
    BY <1>1, <1>3, <1>4, CountInjects
<1> QED BY <1>1, <1>5, <1>6 DEF first

\* The largest by volume are decisions on the same rows, and where any is left out
\* there are as many as may be.
LEMMA TopByVolumeIs ==
    ASSUME UniverseAssumption, NEW j, AreDecisions(j), Alone(j)
    PROVE  LET e == TopByVolume(j)
           IN  /\ DOMAIN e = DOMAIN j /\ AreDecisions(e) /\ Alone(e)
               /\ \A i \in DOMAIN j : e[i].row = j[i].row
               /\ EligibleAt(e) \subseteq EligibleAt(j)
               /\ EligibleAt(e) # EligibleAt(j) => Cardinality(EligibleAt(e)) >= TopN
<1> DEFINE e == TopByVolume(j)
           in  == EligibleAt(j)
           vol == [i \in in |-> Facts(j[i].row).vol]
           ahead(i) == {k \in in : \/ vol[k] > vol[i]
                                   \/ vol[k] = vol[i] /\ j[k].row.sym < j[i].row.sym}
           out == {i \in in : Cardinality(ahead(i)) >= TopN}
           why == "OUTSIDE_TOP_N_VOLUME"
           R == {p \in in \X in : \/ vol[p[1]] > vol[p[2]]
                                  \/ vol[p[1]] = vol[p[2]] /\ j[p[1]].row.sym < j[p[2]].row.sym}
<1>1. Demotes(j, e, out, why)
    BY DEF TopByVolume, Demotes
<1>3. IsFiniteSet(in)
    BY FS_Subset DEF EligibleAt, AreDecisions
<1>4. \A i \in in : vol[i] \in Int /\ j[i].row.sym \in Int
    BY EligibleIsMeasured
<1>5. \A i, k \in in : j[i].row.sym = j[k].row.sym => i = k
    BY DEF Alone
<1>6. \A i \in in : ahead(i) = AheadOf(in, R, i)
    BY DEF AheadOf
<1>7. \A i, k \in in : <<i, k>> \in R <=>
         vol[i] > vol[k] \/ (vol[i] = vol[k] /\ j[i].row.sym < j[k].row.sym)
    OBVIOUS
<1>8. \A i \in in : i \in out <=> Cardinality(ahead(i)) >= TopN
    OBVIOUS
<1>16. out \subseteq in
    OBVIOUS
<1> HIDE DEF e, out, why, in, vol, ahead, R
<1>2. /\ AreDecisions(e) /\ (Alone(j) => Alone(e)) /\ EligibleAt(e) = in \ out
      /\ \A i \in DOMAIN j : e[i].row = j[i].row
    BY <1>1, StageIs DEF in
<1>9. StrictOrder(in, R)
  <2>1. \A i \in in : <<i, i>> \notin R
      BY <1>4, <1>7
  <2>2. ASSUME NEW x \in in, NEW y \in in, NEW z \in in, <<x, y>> \in R, <<y, z>> \in R
        PROVE  <<x, z>> \in R
      BY <1>4, <1>7, <2>2
  <2>3. ASSUME NEW x \in in, NEW y \in in PROVE x = y \/ <<x, y>> \in R \/ <<y, x>> \in R
    <3>1. vol[x] \in Int /\ vol[y] \in Int /\ j[x].row.sym \in Int /\ j[y].row.sym \in Int
        BY <1>4
    <3>2. j[x].row.sym = j[y].row.sym => x = y
        BY <1>5
    <3>3. \/ x = y
          \/ vol[x] > vol[y] \/ (vol[x] = vol[y] /\ j[x].row.sym < j[y].row.sym)
          \/ vol[y] > vol[x] \/ (vol[y] = vol[x] /\ j[y].row.sym < j[x].row.sym)
        BY <3>1, <3>2
    <3> QED BY <1>7, <3>3
  <2> QED BY <2>1, <2>2, <2>3 DEF StrictOrder
<1>10. TopN \in Nat /\ Cardinality(in) \in Nat
    BY <1>3, FS_CardinalityType DEF UniverseAssumption
<1>11. \A i \in in : Cardinality(AheadOf(in, R, i)) \in 0 .. Cardinality(in) - 1
    BY <1>3, <1>9, PlacesDiffer
<1> DEFINE first == {i \in in : Cardinality(AheadOf(in, R, i)) < TopN}
<1>12. in \ out = first
  <2>1. \A i \in in : i \notin out <=> Cardinality(AheadOf(in, R, i)) < TopN
      BY <1>6, <1>8, <1>10, <1>11
  <2> QED BY <2>1
<1>13. ASSUME in \ out # in PROVE Cardinality(first) >= TopN
  <2>1. PICK i \in in : i \in out
      BY <1>13
  <2>2. Cardinality(AheadOf(in, R, i)) >= TopN
      BY <1>6, <1>8, <2>1
  <2>3. TopN <= Cardinality(in)
      BY <1>10, <1>11, <2>2
  <2> QED BY <1>3, <1>9, <1>10, <2>3, FirstOnes
<1>14. EligibleAt(e) # in => Cardinality(EligibleAt(e)) >= TopN
  <2> HIDE DEF first
  <2> QED BY <1>2, <1>12, <1>13
<1>15. EligibleAt(e) \subseteq in
    BY <1>2
<1> QED BY <1>1, <1>2, <1>14, <1>15 DEF Demotes, e, in

\* How Ranked orders the eligible rows.
MostVolume(j) == Largest({Facts(j[i].row).vol : i \in EligibleAt(j)}, 1)
MostVolatile(j) == Largest({Facts(j[i].row).vola : i \in EligibleAt(j)}, 1)
ScoreAt(j, i) == Score(Facts(j[i].row), MostVolume(j), MostVolatile(j))
Leads(j) ==
    {p \in EligibleAt(j) \X EligibleAt(j) :
        \/ ScoreAt(j, p[1]) > ScoreAt(j, p[2])
        \/ ScoreAt(j, p[1]) = ScoreAt(j, p[2]) /\ j[p[1]].row.sym < j[p[2]].row.sym}
RankAt(j, i) == 1 + Cardinality(AheadOf(EligibleAt(j), Leads(j), i))
IsChosen(j, i) == i \in EligibleAt(j) /\ RankAt(j, i) <= MaxActive
RankedAt(j, i) ==
    [d |-> IF i \in EligibleAt(j) /\ RankAt(j, i) > MaxActive
           THEN [j[i] EXCEPT !.why = Append(@, "RANKED_BELOW_MAX_ACTIVE")]
           ELSE j[i],
     rank |-> IF i \in EligibleAt(j) THEN RankAt(j, i) ELSE 0,
     selected |-> IsChosen(j, i)]

\* Ranked, with its definitions written out.
LEMMA RankedUnfolds ==
    ASSUME NEW j
    PROVE  DOMAIN Ranked(j) = DOMAIN j /\ \A i \in DOMAIN j : Ranked(j)[i] = RankedAt(j, i)
<1> DEFINE in     == EligibleAt(j)
           facts  == [i \in in |-> Facts(j[i].row)]
           maxVol == Largest({facts[i].vol : i \in in}, 1)
           maxVola == Largest({facts[i].vola : i \in in}, 1)
           score  == [i \in in |-> Score(facts[i], maxVol, maxVola)]
           ahead(i) == {k \in in : \/ score[k] > score[i]
                                   \/ score[k] = score[i] /\ j[k].row.sym < j[i].row.sym}
           rank(i) == 1 + Cardinality(ahead(i))
           given(i) ==
             [d |-> IF i \in in /\ rank(i) > MaxActive
                    THEN [j[i] EXCEPT !.why = Append(@, "RANKED_BELOW_MAX_ACTIVE")]
                    ELSE j[i],
              rank |-> IF i \in in THEN rank(i) ELSE 0,
              selected |-> i \in in /\ rank(i) <= MaxActive]
<1>1. Ranked(j) = [i \in DOMAIN j |-> given(i)]
    BY DEF Ranked
<1> HIDE DEF given
<1>2. DOMAIN Ranked(j) = DOMAIN j /\ \A i \in DOMAIN j : Ranked(j)[i] = given(i)
    BY <1>1
<1>3. maxVol = MostVolume(j) /\ maxVola = MostVolatile(j)
  <2>1. {facts[i].vol : i \in in} = {Facts(j[i].row).vol : i \in in}
      OBVIOUS
  <2>2. {facts[i].vola : i \in in} = {Facts(j[i].row).vola : i \in in}
      OBVIOUS
  <2> QED BY <2>1, <2>2 DEF MostVolume, MostVolatile
<1> HIDE DEF maxVol, maxVola
<1>4. \A i \in in : score[i] = ScoreAt(j, i)
    BY <1>3 DEF ScoreAt
<1> HIDE DEF score, facts
<1>5. ASSUME NEW i \in in PROVE ahead(i) = AheadOf(in, Leads(j), i)
    BY <1>4 DEF Leads, AheadOf
<1> HIDE DEF ahead
<1>6. \A i \in in : rank(i) = RankAt(j, i)
    BY <1>5 DEF RankAt
<1> HIDE DEF rank
<1>7. ASSUME NEW i \in DOMAIN j PROVE given(i) = RankedAt(j, i)
  <2>1. CASE i \in in
      BY <1>6, <2>1 DEF given, RankedAt, IsChosen
  <2>2. CASE i \notin in
      BY <2>2 DEF given, RankedAt, IsChosen
  <2> QED BY <2>1, <2>2
<1> QED BY <1>2, <1>7

\* Eligible rows are ranked one after the other.
LEMMA LeadsIsStrict ==
    ASSUME UniverseAssumption, NEW j, AreDecisions(j), Alone(j)
    PROVE  IsFiniteSet(EligibleAt(j)) /\ StrictOrder(EligibleAt(j), Leads(j))
<1> DEFINE in == EligibleAt(j)
<1>1. IsFiniteSet(in)
    BY FS_Subset DEF EligibleAt, AreDecisions
<1>2. MostVolume(j) \in Nat /\ MostVolatile(j) \in Nat
  <2> DEFINE V == [i \in in |-> Facts(j[i].row).vol]
             W == [i \in in |-> Facts(j[i].row).vola]
  <2>1. \A i \in in : V[i] \in Nat /\ W[i] \in Nat
      BY EligibleIsMeasured
  <2>2. DOMAIN V = in /\ DOMAIN W = in
      OBVIOUS
  <2>3. MostVolume(j) = Largest({V[i] : i \in in}, 1) /\ MostVolatile(j) = Largest({W[i] : i \in in}, 1)
    <3>1. {Facts(j[i].row).vol : i \in in} = {V[i] : i \in in}
        OBVIOUS
    <3>2. {Facts(j[i].row).vola : i \in in} = {W[i] : i \in in}
        OBVIOUS
    <3> QED BY <3>1, <3>2 DEF MostVolume, MostVolatile
  <2> HIDE DEF V, W, in
  <2>4. IsFiniteSet({V[i] : i \in in}) /\ IsFiniteSet({W[i] : i \in in})
      BY <1>1, <2>2, ImageIsFinite
  <2>5. {V[i] : i \in in} \subseteq Nat /\ {W[i] : i \in in} \subseteq Nat
      BY <2>1
  <2>6. ASSUME NEW S, IsFiniteSet(S), S \subseteq Nat PROVE Largest(S, 1) \in Nat
    <3>1. CASE S = {}
        BY <3>1 DEF Largest
    <3>2. CASE S # {}
      <4>1. S \subseteq Int
          BY <2>6
      <4> QED BY <2>6, <3>2, <4>1, LargestIs
    <3> QED BY <3>1, <3>2
  <2> QED BY <2>3, <2>4, <2>5, <2>6
<1>3. ASSUME NEW i \in in PROVE ScoreAt(j, i) \in Int /\ j[i].row.sym \in Int
  <2>1. FactsShape(Facts(j[i].row), j[i].row.sym) /\ j[i].row.sym \in Int
      BY EligibleIsMeasured
  <2> QED BY <1>2, <2>1, ScoreIs DEF ScoreAt
<1>4. \A i, k \in in : j[i].row.sym = j[k].row.sym => i = k
    BY DEF Alone
<1>5. \A i, k \in in : <<i, k>> \in Leads(j) <=>
         \/ ScoreAt(j, i) > ScoreAt(j, k)
         \/ ScoreAt(j, i) = ScoreAt(j, k) /\ j[i].row.sym < j[k].row.sym
    BY DEF Leads
<1> HIDE DEF in
<1>6. \A i \in in : <<i, i>> \notin Leads(j)
    BY <1>3, <1>5
<1>7. ASSUME NEW x \in in, NEW y \in in, NEW z \in in, <<x, y>> \in Leads(j), <<y, z>> \in Leads(j)
      PROVE  <<x, z>> \in Leads(j)
    BY <1>3, <1>5, <1>7
<1>8. ASSUME NEW x \in in, NEW y \in in
      PROVE  x = y \/ <<x, y>> \in Leads(j) \/ <<y, x>> \in Leads(j)
    BY <1>3, <1>4, <1>5
<1>9. StrictOrder(in, Leads(j))
    BY <1>6, <1>7, <1>8 DEF StrictOrder
<1> QED BY <1>1, <1>9 DEF in

\* What ranking leaves of the decisions, and whom it selects.
RanksOf(j, k) ==
    /\ DOMAIN k = DOMAIN j
    /\ \A i \in DOMAIN j :
          /\ IsRanked(k[i])
          /\ k[i].d.row = j[i].row /\ k[i].d.state = j[i].state
          /\ k[i].selected \in BOOLEAN
          /\ k[i].selected => i \in EligibleAt(j) /\ k[i].rank \in 1 .. MaxActive
    /\ \A i, h \in DOMAIN j : k[i].selected /\ k[h].selected /\ k[i].rank = k[h].rank => i = h
    /\ (\E i \in EligibleAt(j) : ~k[i].selected) \/ Cardinality(EligibleAt(j)) >= MaxActive
         => Cardinality({i \in DOMAIN j : k[i].selected}) >= MaxActive

LEMMA RankedIs ==
    ASSUME UniverseAssumption, NEW j, AreDecisions(j), Alone(j)
    PROVE  RanksOf(j, Ranked(j))
<1> DEFINE k == Ranked(j)
           in == EligibleAt(j)
<1>1. DOMAIN k = DOMAIN j /\ \A i \in DOMAIN j : k[i] = RankedAt(j, i)
    BY RankedUnfolds
<1>2. IsFiniteSet(in) /\ StrictOrder(in, Leads(j))
    BY LeadsIsStrict
<1>3. MaxActive \in Nat \ {0}
    BY DEF UniverseAssumption
<1> HIDE DEF k
<1>4. \A i \in in : RankAt(j, i) \in Nat \ {0}
  <2> HIDE DEF in
  <2>1. Cardinality(in) \in Nat /\ \A i \in in : Cardinality(AheadOf(in, Leads(j), i)) \in 0 .. Cardinality(in) - 1
      BY <1>2, PlacesDiffer
  <2> QED BY <2>1 DEF RankAt, in
<1>5. ASSUME NEW i \in DOMAIN j
      PROVE  /\ IsRanked(k[i])
             /\ k[i].d.row = j[i].row /\ k[i].d.state = j[i].state
             /\ k[i].selected \in BOOLEAN
             /\ k[i].selected <=> i \in in /\ RankAt(j, i) <= MaxActive
             /\ i \in in => k[i].rank = RankAt(j, i)
  <2>1. DOMAIN j[i] = DecisionParts /\ IsJudged(j[i])
      BY DEF AreDecisions
  <2>0. k[i] = RankedAt(j, i)
      BY <1>1
  <2>5. k[i].selected \in BOOLEAN /\ (k[i].selected <=> i \in in /\ RankAt(j, i) <= MaxActive)
    <3>1. k[i].selected = IsChosen(j, i)
        BY <2>0 DEF RankedAt
    <3>2. IsChosen(j, i) \in BOOLEAN
        BY DEF IsChosen
    <3> QED BY <3>1, <3>2 DEF IsChosen
  <2>2. /\ k[i].rank = (IF i \in in THEN RankAt(j, i) ELSE 0)
        /\ k[i].d = IF i \in in /\ RankAt(j, i) > MaxActive
                    THEN [j[i] EXCEPT !.why = Append(@, "RANKED_BELOW_MAX_ACTIVE")] ELSE j[i]
      BY <2>0 DEF RankedAt
  <2>3. k[i].d.row = j[i].row /\ k[i].d.state = j[i].state
      BY <2>1, <2>2 DEF DecisionParts
  <2>4. k[i].rank \in Nat
      BY <1>4, <2>2
  <2> QED BY <2>1, <2>2, <2>3, <2>4, <2>5 DEF IsRanked, IsJudged
<1>6. \A i \in DOMAIN j : k[i].selected => i \in in /\ k[i].rank \in 1 .. MaxActive
    BY <1>3, <1>4, <1>5
<1>7. ASSUME NEW i \in in, NEW h \in in, RankAt(j, i) = RankAt(j, h) PROVE i = h
  <2> HIDE DEF in
  <2>1. Cardinality(AheadOf(in, Leads(j), i)) \in Nat /\ Cardinality(AheadOf(in, Leads(j), h)) \in Nat
      BY <1>2, PlacesDiffer
  <2>2. Cardinality(AheadOf(in, Leads(j), i)) = Cardinality(AheadOf(in, Leads(j), h))
      BY <1>7, <2>1 DEF RankAt, in
  <2> QED BY <1>2, <2>2, PlacesAreTaken
<1>8. \A i, h \in DOMAIN j : k[i].selected /\ k[h].selected /\ k[i].rank = k[h].rank => i = h
    BY <1>5, <1>7
<1>9. ASSUME (\E i \in in : ~k[i].selected) \/ Cardinality(in) >= MaxActive
      PROVE  Cardinality({i \in DOMAIN j : k[i].selected}) >= MaxActive
  <2>1. Cardinality(in) \in Nat /\ \A i \in in : Cardinality(AheadOf(in, Leads(j), i)) \in 0 .. Cardinality(in) - 1
    <3> HIDE DEF in
    <3> QED BY <1>2, PlacesDiffer
  <2>2. \A i \in in : RankAt(j, i) = 1 + Cardinality(AheadOf(in, Leads(j), i))
      BY DEF RankAt
  <2>3. in \subseteq DOMAIN j
      BY DEF EligibleAt
  <2>4. \A i \in in : k[i].selected <=> Cardinality(AheadOf(in, Leads(j), i)) < MaxActive
      BY <1>3, <1>5, <2>1, <2>2, <2>3
  <2>5. MaxActive <= Cardinality(in)
      BY <1>3, <1>9, <2>1, <2>4
  <2>6. {i \in DOMAIN j : k[i].selected} = {i \in in : Cardinality(AheadOf(in, Leads(j), i)) < MaxActive}
      BY <1>6, <2>3, <2>4
  <2> HIDE DEF in
  <2> QED BY <1>2, <1>3, <2>5, <2>6, FirstOnes
<1> QED BY <1>1, <1>5, <1>6, <1>8, <1>9 DEF k, RanksOf

JudgedRows(rows, age) == [i \in DOMAIN rows |-> Judged(rows[i], age)]
Shortlist(rows, age) == TopByVolume(Deduplicated(JudgedRows(rows, age)))

\* The eligible rows before they are ranked: one that may be traded is missing only
\* for another of its symbol, or where there are enough.
LEMMA ShortlistIs ==
    ASSUME UniverseAssumption, NEW rows \in Seq(SymbolRow), NEW age
    PROVE  LET j == Shortlist(rows, age)
           IN  /\ DOMAIN j = DOMAIN rows /\ AreDecisions(j) /\ Alone(j)
               /\ \A i \in DOMAIN rows : j[i].row = rows[i]
               /\ EligibleAt(j) # {} => InTime(age)
               /\ \A i \in DOMAIN rows : Tradable(Facts(rows[i])) /\ InTime(age) =>
                    \/ \E k \in EligibleAt(j) : j[k].row.sym = rows[i].sym
                    \/ Cardinality(EligibleAt(j)) >= MaxActive
<1> DEFINE a == JudgedRows(rows, age)
           b == Deduplicated(a)
           j == TopByVolume(b)
<1>1. /\ DOMAIN a = DOMAIN rows /\ AreDecisions(a) /\ \A i \in DOMAIN rows : a[i].row = rows[i]
      /\ \A i \in DOMAIN rows : i \in EligibleAt(a) <=> Tradable(Facts(rows[i])) /\ InTime(age)
    BY JudgedAre DEF JudgedRows
<1>2. Shortlist(rows, age) = j
    BY DEF Shortlist
<1> HIDE DEF a
<1>3. /\ DOMAIN b = DOMAIN rows /\ AreDecisions(b) /\ Alone(b)
      /\ \A i \in DOMAIN rows : b[i].row = rows[i]
      /\ EligibleAt(b) \subseteq EligibleAt(a)
      /\ \A i \in EligibleAt(a) : \E k \in EligibleAt(b) : a[k].row.sym = a[i].row.sym
    BY <1>1, DeduplicatedIs
<1> HIDE DEF b
<1>4. /\ DOMAIN j = DOMAIN rows /\ AreDecisions(j) /\ Alone(j)
      /\ \A i \in DOMAIN rows : j[i].row = rows[i]
      /\ EligibleAt(j) \subseteq EligibleAt(b)
      /\ EligibleAt(j) # EligibleAt(b) => Cardinality(EligibleAt(j)) >= TopN
    BY <1>3, TopByVolumeIs
<1> HIDE DEF j
<1>5. EligibleAt(a) \subseteq DOMAIN rows
    BY <1>1 DEF EligibleAt
<1>6. EligibleAt(j) # {} => InTime(age)
    BY <1>1, <1>3, <1>4, <1>5
<1>7. ASSUME NEW i \in DOMAIN rows, i \in EligibleAt(a), ~(Cardinality(EligibleAt(j)) >= MaxActive)
      PROVE  \E k \in EligibleAt(j) : j[k].row.sym = rows[i].sym
  <2>1. PICK k \in EligibleAt(b) : a[k].row.sym = a[i].row.sym
      BY <1>3, <1>7
  <2>2. TopN \in Nat /\ MaxActive \in Nat /\ MaxActive <= TopN /\ Cardinality(EligibleAt(j)) \in Nat
    <3>1. IsFiniteSet(EligibleAt(j))
        BY <1>4, FS_Subset DEF EligibleAt, AreDecisions
    <3> QED BY <3>1, FS_CardinalityType DEF UniverseAssumption
  <2>3. k \in EligibleAt(j)
      BY <1>4, <1>7, <2>2
  <2>4. k \in DOMAIN rows
      BY <1>3, <1>5
  <2>5. j[k].row = rows[k] /\ a[k].row = rows[k] /\ a[i].row = rows[i]
      BY <1>1, <1>4, <2>4
  <2>6. j[k].row.sym = rows[i].sym
      BY <2>1, <2>5
  <2> QED BY <2>3, <2>6
<1> QED BY <1>1, <1>2, <1>4, <1>6, <1>7

\* Sorting decisions puts each at one place.
Places(d) == InOrder(DOMAIN d, Canonical(d))

LEMMA CanonicalOrderIs ==
    ASSUME UniverseAssumption, NEW N \in Nat, NEW d, DOMAIN d = 1 .. N, \A i \in DOMAIN d : IsRanked(d[i])
    PROVE  /\ Places(d) \in Bijection(1 .. N, 1 .. N)
           /\ \A n \in 1 .. N : Cardinality(AheadOf(1 .. N, Canonical(d), Places(d)[n])) = n - 1
           /\ DOMAIN InCanonicalOrder(d) = 1 .. N
           /\ \A n \in 1 .. N : InCanonicalOrder(d)[n] = d[Places(d)[n]]
<1>1. IsFiniteSet(1 .. N) /\ Cardinality(1 .. N) = N
    BY UpTo
<1>2. StrictOrder(1 .. N, Canonical(d))
  <2>1. DOMAIN d \subseteq Nat
      OBVIOUS
  <2>2. StrictOrder(DOMAIN d, Canonical(d))
      BY <2>1, CanonicalIsStrict
  <2> QED BY <2>2
<1>3. /\ Places(d) \in [1 .. N -> 1 .. N]
      /\ \A n \in 1 .. N : Cardinality(AheadOf(1 .. N, Canonical(d), Places(d)[n])) = n - 1
      /\ \A i \in 1 .. N : \E n \in 1 .. N : Places(d)[n] = i
      /\ \A n, m \in 1 .. N : Places(d)[n] = Places(d)[m] => n = m
  <2> DEFINE S == 1 .. N
             T == InOrder(S, Canonical(d))
  <2>1. Places(d) = T
      BY DEF Places
  <2>2. /\ T \in [1 .. N -> 1 .. N]
        /\ \A n \in 1 .. N : Cardinality(AheadOf(1 .. N, Canonical(d), T[n])) = n - 1
        /\ \A i \in 1 .. N : \E n \in 1 .. N : T[n] = i
        /\ \A n, m \in 1 .. N : T[n] = T[m] => n = m
    <3>1. IsFiniteSet(S) /\ StrictOrder(S, Canonical(d)) /\ Cardinality(S) = N
        BY <1>1, <1>2
    <3> HIDE DEF S
    <3>2. /\ T \in [1 .. Cardinality(S) -> S]
          /\ \A n \in 1 .. Cardinality(S) : Cardinality(AheadOf(S, Canonical(d), T[n])) = n - 1
          /\ \A i \in S : \E n \in 1 .. Cardinality(S) : T[n] = i
          /\ \A n, m \in 1 .. Cardinality(S) : T[n] = T[m] => n = m
        BY <3>1, InOrderIs
    <3> HIDE DEF T
    <3> QED BY <3>1, <3>2 DEF S
  <2> HIDE DEF T
  <2> QED BY <2>1, <2>2
<1>4. Places(d) \in Bijection(1 .. N, 1 .. N)
    BY <1>3 DEF Bijection, Injection, Surjection, IsInjective
<1>5. InCanonicalOrder(d) = [n \in DOMAIN d |-> d[Places(d)[n]]]
    BY DEF InCanonicalOrder, Places, Canonical
<1> QED BY <1>3, <1>4, <1>5

\* What is decided of rows of an age is what the property asks of a stored cycle.
SoundDecisions(decisions, age) ==
    LET all == ToSet(decisions)
        in  == {x \in all : x.selected}
    IN  /\ \A x \in in : Tradable(Facts(x.d.row))
        /\ \A x, y \in in : x.d.row.sym = y.d.row.sym => x = y
        /\ Cardinality(in) <= MaxActive
        /\ in # {} => InTime(age)
        /\ \A x \in all \ in : Tradable(Facts(x.d.row)) /\ InTime(age) => Crowded(x, in)

\* Every selection is sound.
LEMMA SelectionIs ==
    ASSUME UniverseAssumption, NEW rows \in Seq(SymbolRow), NEW age
    PROVE  SoundDecisions(build_selected_universe(rows, age), age)
<1> DEFINE j == Shortlist(rows, age)
           k == Ranked(j)
           B == build_selected_universe(rows, age)
           N == Len(rows)
           all == ToSet(B)
           in  == {x \in all : x.selected}
<1>1. N \in Nat /\ DOMAIN rows = 1 .. N
    OBVIOUS
<1>2. B = InCanonicalOrder(k)
    BY DEF build_selected_universe, Shortlist, JudgedRows
<1> HIDE DEF B, N
<1>3. /\ DOMAIN j = 1 .. N /\ AreDecisions(j) /\ Alone(j)
      /\ \A i \in 1 .. N : j[i].row = rows[i]
      /\ EligibleAt(j) # {} => InTime(age)
      /\ \A i \in 1 .. N : Tradable(Facts(rows[i])) /\ InTime(age) =>
           \/ \E h \in EligibleAt(j) : j[h].row.sym = rows[i].sym
           \/ Cardinality(EligibleAt(j)) >= MaxActive
    BY <1>1, ShortlistIs
<1> HIDE DEF j
<1>4. /\ DOMAIN k = 1 .. N
      /\ \A i \in 1 .. N :
            /\ IsRanked(k[i]) /\ k[i].d.row = j[i].row /\ k[i].d.state = j[i].state
            /\ k[i].selected \in BOOLEAN
            /\ k[i].selected => i \in EligibleAt(j) /\ k[i].rank \in 1 .. MaxActive
      /\ \A i, h \in 1 .. N : k[i].selected /\ k[h].selected /\ k[i].rank = k[h].rank => i = h
      /\ (\E i \in EligibleAt(j) : ~k[i].selected) \/ Cardinality(EligibleAt(j)) >= MaxActive
           => Cardinality({i \in 1 .. N : k[i].selected}) >= MaxActive
  <2>1. RanksOf(j, k)
      BY <1>3, RankedIs
  <2> HIDE DEF k
  <2> QED BY <1>3, <2>1 DEF RanksOf
<1> HIDE DEF k
<1>5. all = {k[i] : i \in 1 .. N}
  <2>4. DOMAIN k = 1 .. N /\ \A i \in DOMAIN k : IsRanked(k[i])
      BY <1>4
  <2>5. /\ DOMAIN InCanonicalOrder(k) = 1 .. N /\ Places(k) \in Bijection(1 .. N, 1 .. N)
        /\ \A n \in 1 .. N : InCanonicalOrder(k)[n] = k[Places(k)[n]]
      BY <1>1, <2>4, CanonicalOrderIs
  <2>1. /\ DOMAIN B = 1 .. N /\ Places(k) \in Bijection(1 .. N, 1 .. N)
        /\ \A n \in 1 .. N : B[n] = k[Places(k)[n]]
      BY <1>2, <2>5
  <2>2. all = {B[n] : n \in 1 .. N}
      BY <2>1 DEF ToSet
  <2>3. /\ \A n \in 1 .. N : Places(k)[n] \in 1 .. N
        /\ \A i \in 1 .. N : \E n \in 1 .. N : Places(k)[n] = i
      BY <2>1 DEF Bijection, Injection, Surjection
  <2>6. ASSUME NEW n \in 1 .. N PROVE B[n] \in {k[i] : i \in 1 .. N}
    <3>1. Places(k)[n] \in 1 .. N /\ B[n] = k[Places(k)[n]]
        BY <2>1, <2>3
    <3> QED BY <3>1
  <2>7. ASSUME NEW i \in 1 .. N PROVE k[i] \in {B[n] : n \in 1 .. N}
    <3>1. PICK n \in 1 .. N : Places(k)[n] = i
        BY <2>3
    <3>2. B[n] = k[i]
        BY <2>1, <3>1
    <3> QED BY <3>2
  <2> QED BY <2>2, <2>6, <2>7
<1> HIDE DEF all
<1>6. ASSUME NEW x \in in
      PROVE  \E i \in EligibleAt(j) : i \in 1 .. N /\ x = k[i] /\ k[i].selected
  <2>1. x \in all /\ x.selected
      OBVIOUS
  <2>2. PICK i \in 1 .. N : x = k[i]
      BY <1>5, <2>1
  <2>3. k[i].selected
      BY <2>1, <2>2
  <2> QED BY <1>4, <2>2, <2>3
<1>7. \A x \in in : Tradable(Facts(x.d.row))
  <2> SUFFICES ASSUME NEW x \in in PROVE Tradable(Facts(x.d.row))
      OBVIOUS
  <2>1. PICK i \in EligibleAt(j) : i \in 1 .. N /\ x = k[i]
      BY <1>6
  <2>2. x.d.row = j[i].row
      BY <1>4, <2>1
  <2>3. Tradable(Facts(j[i].row))
      BY <1>3 DEF EligibleAt, AreDecisions
  <2> QED BY <2>2, <2>3
<1>8. \A x, y \in in : x.d.row.sym = y.d.row.sym => x = y
  <2> SUFFICES ASSUME NEW x \in in, NEW y \in in, x.d.row.sym = y.d.row.sym PROVE x = y
      OBVIOUS
  <2>1. PICK i \in EligibleAt(j) : i \in 1 .. N /\ x = k[i]
      BY <1>6
  <2>2. PICK h \in EligibleAt(j) : h \in 1 .. N /\ y = k[h]
      BY <1>6
  <2>4. x.d.row = j[i].row /\ y.d.row = j[h].row
      BY <1>4, <2>1, <2>2
  <2> HIDE DEF in
  <2>3. j[i].row.sym = j[h].row.sym
      BY <2>4
  <2> QED BY <1>3, <2>1, <2>2, <2>3 DEF Alone
<1>9. IsFiniteSet(in) /\ Cardinality(in) \in Nat /\ Cardinality(in) <= MaxActive
  <2> DEFINE m == [x \in in |-> x.rank]
  <2>1. ASSUME NEW x \in in, NEW y \in in, x.rank = y.rank PROVE x = y
    <3>1. PICK i \in EligibleAt(j) : i \in 1 .. N /\ x = k[i] /\ k[i].selected
        BY <1>6
    <3>2. PICK h \in EligibleAt(j) : h \in 1 .. N /\ y = k[h] /\ k[h].selected
        BY <1>6
    <3> HIDE DEF in
    <3>3. k[i].rank = k[h].rank
        BY <2>1, <3>1, <3>2
    <3> QED BY <1>4, <3>1, <3>2, <3>3
  <2>2. ASSUME NEW x \in in PROVE x.rank \in 1 .. MaxActive
    <3>1. PICK i \in EligibleAt(j) : i \in 1 .. N /\ x = k[i] /\ k[i].selected
        BY <1>6
    <3> HIDE DEF in
    <3> QED BY <1>4, <3>1
  <2> HIDE DEF in
  <2>3. MaxActive \in Nat
      BY DEF UniverseAssumption
  <2>4. IsFiniteSet(1 .. MaxActive) /\ Cardinality(1 .. MaxActive) = MaxActive
      BY <2>3, UpTo
  <2>5. \A x \in in : m[x] \in 1 .. MaxActive
      BY <2>2
  <2>6. \A x, y \in in : m[x] = m[y] => x = y
      BY <2>1
  <2> HIDE DEF m
  <2>7. /\ IsFiniteSet(in) /\ Cardinality(in) \in Nat
        /\ Cardinality(in) <= Cardinality(1 .. MaxActive)
      BY <2>4, <2>5, <2>6, CountInjects
  <2> QED BY <2>4, <2>7
<1>10. ASSUME in # {} PROVE InTime(age)
  <2>1. PICK x \in in : TRUE
      BY <1>10
  <2>2. EligibleAt(j) # {}
      BY <1>6
  <2> QED BY <1>3, <2>2
<1> DEFINE kept == {i \in 1 .. N : k[i].selected}
<1>11. Cardinality(kept) <= Cardinality(in)
  <2>1. \A i \in kept : k[i] \in in
      BY <1>5
  <2>2. ASSUME NEW i \in kept, NEW h \in kept, k[i] = k[h] PROVE i = h
    <3>1. k[i].rank = k[h].rank
        BY <2>2
    <3> QED BY <1>4, <3>1
  <2> HIDE DEF in, kept
  <2> QED BY <1>9, <2>1, <2>2, CountInjects
<1>12. ASSUME Cardinality(kept) >= MaxActive PROVE Cardinality(in) = MaxActive
  <2>1. IsFiniteSet(kept)
    <3>1. IsFiniteSet(1 .. N)
        BY <1>1, UpTo
    <3> QED BY <3>1, FS_Subset
  <2>2. Cardinality(kept) \in Nat /\ MaxActive \in Nat
      BY <2>1, FS_CardinalityType DEF UniverseAssumption
  <2> HIDE DEF in, kept
  <2> QED BY <1>9, <1>11, <1>12, <2>2
<1>13. ASSUME NEW x \in all \ in, Tradable(Facts(x.d.row)), InTime(age)
       PROVE  Crowded(x, in)
  <2>1. PICK i \in 1 .. N : x = k[i]
      BY <1>5
  <2>2. x.d.row = rows[i]
      BY <1>3, <1>4, <2>1
  <2>3. CASE Cardinality(EligibleAt(j)) >= MaxActive
    <3>1. Cardinality(in) = MaxActive
        BY <1>4, <1>12, <2>3
    <3> QED BY <3>1 DEF Crowded
  <2>4. CASE \E h \in EligibleAt(j) : j[h].row.sym = rows[i].sym
    <3>1. PICK h \in EligibleAt(j) : j[h].row.sym = rows[i].sym
        BY <2>4
    <3>2. h \in 1 .. N
        BY <1>3 DEF EligibleAt
    <3>3. CASE k[h].selected
      <4>1. k[h] \in in
          BY <1>5, <3>2, <3>3
      <4>2. k[h].d.row.sym = x.d.row.sym
        <5>1. k[h].d.row = j[h].row
            BY <1>4, <3>2
        <5> QED BY <2>2, <3>1, <5>1
      <4> HIDE DEF in
      <4> QED BY <4>1, <4>2 DEF Crowded
    <3>4. CASE ~k[h].selected
      <4>1. Cardinality(in) = MaxActive
          BY <1>4, <1>12, <3>4
      <4> QED BY <4>1 DEF Crowded
    <3> QED BY <3>3, <3>4
  <2> QED BY <1>3, <1>13, <2>2, <2>3, <2>4
<1> QED BY <1>7, <1>8, <1>9, <1>10, <1>13 DEF SoundDecisions, B, all

\* Two lists with the same rows, each as often.
SameRows(a, b) ==
    \A r \in SymbolRow : Cardinality({i \in DOMAIN a : a[i] = r}) = Cardinality({i \in DOMAIN b : b[i] = r})

\* p carries one list into the other, and equal rows in the order they came.
Carries(p, a, b) ==
    /\ p \in Bijection(DOMAIN a, DOMAIN b)
    /\ \A i \in DOMAIN a : b[p[i]] = a[i]
    /\ \A i, h \in DOMAIN a : a[i] = a[h] => (i < h <=> p[i] < p[h])

\* Lists of the same rows carry into each other.
LEMMA Matching ==
    ASSUME NEW a \in Seq(SymbolRow), NEW b \in Seq(SymbolRow), SameRows(a, b)
    PROVE  \E p : Carries(p, a, b)
<1> DEFINE A(r) == {i \in DOMAIN a : a[i] = r}
           B(r) == {i \in DOMAIN b : b[i] = r}
           place(S, i) == Cardinality(AheadOf(S, Earlier(S), i))
           p == [i \in DOMAIN a |-> CHOOSE k \in B(a[i]) : place(B(a[i]), k) = place(A(a[i]), i)]
<1>1. /\ \A i \in DOMAIN a : a[i] \in SymbolRow
      /\ \A i \in DOMAIN b : b[i] \in SymbolRow
    OBVIOUS
<1>2. IsFiniteSet(DOMAIN a) /\ IsFiniteSet(DOMAIN b) /\ DOMAIN a \subseteq Nat /\ DOMAIN b \subseteq Nat
  <2>1. Len(a) \in Nat /\ DOMAIN a = 1 .. Len(a) /\ Len(b) \in Nat /\ DOMAIN b = 1 .. Len(b)
      OBVIOUS
  <2>2. IsFiniteSet(1 .. Len(a)) /\ IsFiniteSet(1 .. Len(b))
      BY <2>1, UpTo
  <2> QED BY <2>1, <2>2
<1>3. ASSUME NEW r \in SymbolRow
      PROVE  /\ A(r) \subseteq Nat /\ B(r) \subseteq Nat
             /\ IsFiniteSet(A(r)) /\ StrictOrder(A(r), Earlier(A(r)))
             /\ IsFiniteSet(B(r)) /\ StrictOrder(B(r), Earlier(B(r)))
             /\ Cardinality(A(r)) = Cardinality(B(r)) /\ Cardinality(A(r)) \in Nat
  <2>1. /\ A(r) \subseteq DOMAIN a /\ B(r) \subseteq DOMAIN b
        /\ Cardinality(A(r)) = Cardinality(B(r))
      BY DEF SameRows
  <2> HIDE DEF A, B
  <2>2. IsFiniteSet(A(r)) /\ IsFiniteSet(B(r))
      BY <1>2, <2>1, FS_Subset
  <2>3. A(r) \subseteq Nat /\ B(r) \subseteq Nat
      BY <1>2, <2>1
  <2>4. StrictOrder(A(r), Earlier(A(r))) /\ StrictOrder(B(r), Earlier(B(r)))
      BY <2>3, EarlierIsStrict
  <2>5. Cardinality(A(r)) \in Nat
      BY <2>2, FS_CardinalityType
  <2> QED BY <2>1, <2>2, <2>3, <2>4, <2>5
<1>4. \A i \in DOMAIN a : i \in A(a[i])
    OBVIOUS
<1>5. \A i \in DOMAIN b : i \in B(b[i])
    OBVIOUS
<1>6. \A r, i : (i \in A(r) <=> i \in DOMAIN a /\ a[i] = r) /\ (i \in B(r) <=> i \in DOMAIN b /\ b[i] = r)
    OBVIOUS
<1> HIDE DEF A, B
<1>7. ASSUME NEW r \in SymbolRow, NEW i \in A(r)
      PROVE  \E k \in B(r) : place(B(r), k) = place(A(r), i)
  <2>1. place(A(r), i) \in 0 .. Cardinality(A(r)) - 1
      BY <1>3, PlacesDiffer
  <2> DEFINE n == place(A(r), i) + 1
  <2>2. n \in 1 .. Cardinality(B(r)) /\ n - 1 = place(A(r), i)
      BY <1>3, <2>1
  <2>3. \E k \in B(r) : place(B(r), k) = n - 1
    <3> HIDE DEF n
    <3> QED BY <1>3, <2>2, PlacesAreTaken
  <2> QED BY <2>2, <2>3
<1>8. ASSUME NEW r \in SymbolRow, NEW k \in B(r)
      PROVE  \E i \in A(r) : place(B(r), k) = place(A(r), i)
  <2>1. place(B(r), k) \in 0 .. Cardinality(B(r)) - 1
      BY <1>3, PlacesDiffer
  <2> DEFINE n == place(B(r), k) + 1
  <2>2. n \in 1 .. Cardinality(A(r)) /\ n - 1 = place(B(r), k)
      BY <1>3, <2>1
  <2>3. \E i \in A(r) : place(A(r), i) = n - 1
    <3> HIDE DEF n
    <3> QED BY <1>3, <2>2, PlacesAreTaken
  <2> QED BY <2>2, <2>3
<1>9. ASSUME NEW i \in DOMAIN a
      PROVE  p[i] \in B(a[i]) /\ place(B(a[i]), p[i]) = place(A(a[i]), i)
  <2>1. \E k \in B(a[i]) : place(B(a[i]), k) = place(A(a[i]), i)
      BY <1>1, <1>4, <1>7
  <2>2. p[i] = CHOOSE k \in B(a[i]) : place(B(a[i]), k) = place(A(a[i]), i)
      OBVIOUS
  <2> HIDE DEF p, place
  <2> QED BY <2>1, <2>2
<1>10. DOMAIN p = DOMAIN a /\ p = [i \in DOMAIN a |-> p[i]]
    OBVIOUS
<1> HIDE DEF p
<1>11. \A i \in DOMAIN a : p[i] \in DOMAIN b /\ b[p[i]] = a[i]
    BY <1>6, <1>9
<1>12. ASSUME NEW i \in DOMAIN a, NEW h \in DOMAIN a, p[i] = p[h] PROVE i = h
  <2>1. a[i] = a[h]
      BY <1>11, <1>12
  <2>2. i \in A(a[i]) /\ h \in A(a[i]) /\ a[i] \in SymbolRow
      BY <1>1, <1>4, <2>1
  <2>3. place(A(a[i]), i) = place(A(a[i]), h)
      BY <1>9, <1>12, <2>1
  <2> QED BY <1>3, <2>2, <2>3, PlacesAreTaken
<1>13. ASSUME NEW k \in DOMAIN b PROVE \E i \in DOMAIN a : p[i] = k
  <2>1. k \in B(b[k]) /\ b[k] \in SymbolRow
      BY <1>1, <1>5
  <2>2. PICK i \in A(b[k]) : place(B(b[k]), k) = place(A(b[k]), i)
      BY <1>8, <2>1
  <2>3. i \in DOMAIN a /\ a[i] = b[k]
      BY <1>6, <2>2
  <2>4. p[i] \in B(b[k]) /\ place(B(b[k]), p[i]) = place(B(b[k]), k)
      BY <1>9, <2>2, <2>3
  <2>5. p[i] = k
      BY <1>3, <2>1, <2>4, PlacesAreTaken
  <2> QED BY <2>3, <2>5
<1>14. p \in Bijection(DOMAIN a, DOMAIN b)
  <2>1. p \in [DOMAIN a -> DOMAIN b]
      BY <1>10, <1>11
  <2> QED BY <1>12, <1>13, <2>1 DEF Bijection, Injection, Surjection, IsInjective
<1>15. ASSUME NEW i \in DOMAIN a, NEW h \in DOMAIN a, a[i] = a[h], i < h PROVE p[i] < p[h]
  <2> DEFINE r == a[i]
  <2>1. i \in A(r) /\ h \in A(r) /\ r \in SymbolRow
      BY <1>1, <1>4, <1>15
  <2>2. p[i] \in B(r) /\ p[h] \in B(r)
      BY <1>9, <1>15
  <2>3. place(A(r), i) < place(A(r), h)
    <3>1. <<i, h>> \in Earlier(A(r))
        BY <1>15, <2>1 DEF Earlier
    <3> HIDE DEF r
    <3> QED BY <1>3, <2>1, <3>1, PlacesDiffer
  <2>4. place(B(r), p[i]) < place(B(r), p[h])
      BY <1>9, <1>15, <2>3
  <2>5. ASSUME p[h] < p[i] PROVE FALSE
    <3>1. <<p[h], p[i]>> \in Earlier(B(r))
        BY <2>2, <2>5 DEF Earlier
    <3> HIDE DEF r
    <3>2. place(B(r), p[h]) < place(B(r), p[i])
        BY <1>3, <2>1, <2>2, <3>1, PlacesDiffer
    <3>3. place(B(r), p[h]) \in Nat /\ place(B(r), p[i]) \in Nat
        BY <1>3, <2>1, <2>2, PlacesAreCounts
    <3> QED BY <2>4, <3>2, <3>3
  <2>6. p[h] # p[i]
      BY <1>2, <1>12, <1>15
  <2>7. p[h] \in Nat /\ p[i] \in Nat
      BY <1>2, <1>11
  <2> QED BY <2>5, <2>6, <2>7
<1>16. ASSUME NEW i \in DOMAIN a, NEW h \in DOMAIN a, a[i] = a[h], p[i] < p[h] PROVE i < h
  <2>1. i \in Nat /\ h \in Nat /\ p[i] \in Nat /\ p[h] \in Nat
      BY <1>2, <1>11
  <2>2. ~(h < i)
      BY <1>15, <1>16, <2>1
  <2>3. i # h
      BY <1>16, <2>1
  <2> QED BY <2>1, <2>2, <2>3
<1> QED BY <1>11, <1>14, <1>15, <1>16 DEF Carries

\* p carries one list of decisions into the other, equal rows in the order they came.
Corresponds(p, j, l) ==
    /\ p \in Bijection(DOMAIN j, DOMAIN l)
    /\ \A i \in DOMAIN j : l[p[i]] = j[i]
    /\ \A i, h \in DOMAIN j : j[i].row = j[h].row => (i < h <=> p[i] < p[h])

\* Judging keeps the correspondence.
LEMMA JudgedCorresponds ==
    ASSUME NEW a, NEW b, NEW age, NEW p, Carries(p, a, b)
    PROVE  Corresponds(p, JudgedRows(a, age), JudgedRows(b, age))
<1> DEFINE j == JudgedRows(a, age)
           l == JudgedRows(b, age)
<1>1. /\ DOMAIN j = DOMAIN a /\ DOMAIN l = DOMAIN b
      /\ \A i \in DOMAIN a : j[i] = Judged(a[i], age)
      /\ \A i \in DOMAIN b : l[i] = Judged(b[i], age)
    BY DEF JudgedRows
<1>2. \A r : Judged(r, age).row = r
    BY AllStated, JudgedIs
<1> HIDE DEF j, l
<1>3. p \in Bijection(DOMAIN a, DOMAIN b) /\ \A i \in DOMAIN a : p[i] \in DOMAIN b /\ b[p[i]] = a[i]
    BY BijectionIs DEF Carries
<1>4. \A i \in DOMAIN a : l[p[i]] = j[i] /\ j[i].row = a[i]
    BY <1>1, <1>2, <1>3
<1>5. \A i, h \in DOMAIN a : a[i] = a[h] => (i < h <=> p[i] < p[h])
    BY DEF Carries
<1>6. Corresponds(p, j, l)
    BY <1>1, <1>3, <1>4, <1>5 DEF Corresponds
<1> QED BY <1>6 DEF j, l

\* What corresponds is eligible together.
LEMMA EligibleCorresponds ==
    ASSUME NEW j, NEW l, NEW p, Corresponds(p, j, l)
    PROVE  /\ \A i \in DOMAIN j : p[i] \in DOMAIN l /\ l[p[i]] = j[i]
           /\ \A i \in DOMAIN j : i \in EligibleAt(j) <=> p[i] \in EligibleAt(l)
           /\ \A k \in DOMAIN l : \E i \in DOMAIN j : p[i] = k
           /\ \A i, h \in DOMAIN j : p[i] = p[h] => i = h
<1>1. /\ \A i \in DOMAIN j : p[i] \in DOMAIN l
      /\ \A k \in DOMAIN l : \E i \in DOMAIN j : p[i] = k
      /\ \A i, h \in DOMAIN j : p[i] = p[h] => i = h
    BY BijectionIs DEF Corresponds
<1>2. \A i \in DOMAIN j : l[p[i]] = j[i]
    BY DEF Corresponds
<1> QED BY <1>1, <1>2 DEF EligibleAt

\* A stage that demotes what corresponds keeps the correspondence.
LEMMA StageCorresponds ==
    ASSUME NEW j, NEW l, NEW p, Corresponds(p, j, l), NEW e, NEW f,
           DOMAIN e = DOMAIN j, DOMAIN f = DOMAIN l,
           \A i \in DOMAIN j : e[i].row = j[i].row,
           \A i \in DOMAIN j : f[p[i]] = e[i]
    PROVE  Corresponds(p, e, f)
    BY DEF Corresponds

\* So does demoting duplicates,
LEMMA DeduplicatedCorresponds ==
    ASSUME NEW j, NEW l, NEW p, Corresponds(p, j, l), \A i \in DOMAIN j : DOMAIN j[i] = DecisionParts
    PROVE  Corresponds(p, Deduplicated(j), Deduplicated(l))
<1> DEFINE rivalsJ(i) == {k \in EligibleAt(j) \ {i} : j[k].row.sym = j[i].row.sym}
           rivalsL(i) == {k \in EligibleAt(l) \ {i} : l[k].row.sym = l[i].row.sym}
           outJ(i) == i \in EligibleAt(j) /\ \E k \in rivalsJ(i) : Beats(j, k, i)
           outL(i) == i \in EligibleAt(l) /\ \E k \in rivalsL(i) : Beats(l, k, i)
           why == "DUPLICATE_SYMBOL_LOWER_QUALITY"
           e == Deduplicated(j)
           f == Deduplicated(l)
<1>1. /\ DOMAIN e = DOMAIN j /\ DOMAIN f = DOMAIN l
      /\ \A i \in DOMAIN j : e[i] = IF outJ(i) THEN Demote(j[i], why) ELSE j[i]
      /\ \A i \in DOMAIN l : f[i] = IF outL(i) THEN Demote(l[i], why) ELSE l[i]
    BY DEF Deduplicated
<1> HIDE DEF e, f, why
<1>2. /\ \A i \in DOMAIN j : p[i] \in DOMAIN l /\ l[p[i]] = j[i]
      /\ \A i \in DOMAIN j : i \in EligibleAt(j) <=> p[i] \in EligibleAt(l)
      /\ \A k \in DOMAIN l : \E i \in DOMAIN j : p[i] = k
      /\ \A i, h \in DOMAIN j : p[i] = p[h] => i = h
    BY EligibleCorresponds
<1>3. EligibleAt(j) \subseteq DOMAIN j /\ EligibleAt(l) \subseteq DOMAIN l
    BY DEF EligibleAt
<1>4. ASSUME NEW i \in DOMAIN j, NEW k \in DOMAIN j
      PROVE  Beats(j, k, i) <=> Beats(l, p[k], p[i])
  <2>1. j[k].row = j[i].row => (k < i <=> p[k] < p[i])
      BY DEF Corresponds
  <2>2. l[p[k]] = j[k] /\ l[p[i]] = j[i]
      BY <1>2
  <2> QED BY <2>1, <2>2 DEF Beats
<1>5. ASSUME NEW i \in DOMAIN j, NEW k \in DOMAIN j
      PROVE  k \in rivalsJ(i) <=> p[k] \in rivalsL(p[i])
    BY <1>2
<1> HIDE DEF rivalsJ, rivalsL
<1>6. ASSUME NEW i \in DOMAIN j
      PROVE  (\E k \in rivalsJ(i) : Beats(j, k, i)) <=> (\E k \in rivalsL(p[i]) : Beats(l, k, p[i]))
  <2>1. rivalsJ(i) \subseteq DOMAIN j /\ rivalsL(p[i]) \subseteq DOMAIN l
      BY <1>3 DEF rivalsJ, rivalsL
  <2>2. ASSUME NEW k \in rivalsJ(i), Beats(j, k, i) PROVE \E g \in rivalsL(p[i]) : Beats(l, g, p[i])
    <3>1. k \in DOMAIN j
        BY <2>1
    <3>2. p[k] \in rivalsL(p[i]) /\ Beats(l, p[k], p[i])
        BY <1>4, <1>5, <2>2, <3>1
    <3> QED BY <3>2
  <2>3. ASSUME NEW g \in rivalsL(p[i]), Beats(l, g, p[i]) PROVE \E k \in rivalsJ(i) : Beats(j, k, i)
    <3>1. PICK k \in DOMAIN j : p[k] = g
        BY <1>2, <2>1
    <3>2. k \in rivalsJ(i) /\ Beats(j, k, i)
        BY <1>4, <1>5, <2>3, <3>1
    <3> QED BY <3>2
  <2> QED BY <2>2, <2>3
<1>7. \A i \in DOMAIN j : outJ(i) <=> outL(p[i])
    BY <1>2, <1>6
<1> HIDE DEF outJ, outL
<1>8. \A i \in DOMAIN j : f[p[i]] = e[i]
    BY <1>1, <1>2, <1>7
<1>9. \A i \in DOMAIN j : e[i].row = j[i].row
    BY <1>1, DemotedIs
<1> QED BY <1>1, <1>8, <1>9, StageCorresponds DEF e, f

\* and keeping the largest by volume.
LEMMA TopByVolumeCorresponds ==
    ASSUME NEW j, NEW l, NEW p, Corresponds(p, j, l), \A i \in DOMAIN j : DOMAIN j[i] = DecisionParts,
           IsFiniteSet(DOMAIN j)
    PROVE  Corresponds(p, TopByVolume(j), TopByVolume(l))
<1> DEFINE vol(g) == [i \in EligibleAt(g) |-> Facts(g[i].row).vol]
           ahead(g, i) == {k \in EligibleAt(g) :
                             \/ vol(g)[k] > vol(g)[i]
                             \/ vol(g)[k] = vol(g)[i] /\ g[k].row.sym < g[i].row.sym}
           out(g, i) == i \in EligibleAt(g) /\ Cardinality(ahead(g, i)) >= TopN
           why == "OUTSIDE_TOP_N_VOLUME"
           e == TopByVolume(j)
           f == TopByVolume(l)
<1>1. /\ DOMAIN e = DOMAIN j /\ DOMAIN f = DOMAIN l
      /\ \A i \in DOMAIN j : e[i] = IF out(j, i) THEN Demote(j[i], why) ELSE j[i]
      /\ \A i \in DOMAIN l : f[i] = IF out(l, i) THEN Demote(l[i], why) ELSE l[i]
    BY DEF TopByVolume
<1> HIDE DEF e, f, why
<1>2. /\ \A i \in DOMAIN j : p[i] \in DOMAIN l /\ l[p[i]] = j[i]
      /\ \A i \in DOMAIN j : i \in EligibleAt(j) <=> p[i] \in EligibleAt(l)
      /\ \A k \in DOMAIN l : \E i \in DOMAIN j : p[i] = k
    BY EligibleCorresponds
<1>3. EligibleAt(j) \subseteq DOMAIN j /\ EligibleAt(l) \subseteq DOMAIN l
    BY DEF EligibleAt
<1>4. ASSUME NEW i \in EligibleAt(j)
      PROVE  Cardinality(ahead(j, i)) = Cardinality(ahead(l, p[i]))
  <2>1. p[i] \in EligibleAt(l) /\ i \in DOMAIN j
      BY <1>2, <1>3
  <2>2. \A k \in EligibleAt(j) : vol(j)[k] = vol(l)[p[k]] /\ j[k].row = l[p[k]].row
      BY <1>2, <1>3
  <2>3. \A k \in DOMAIN j : k \in ahead(j, i) <=> p[k] \in ahead(l, p[i])
    <3> HIDE DEF vol
    <3> QED BY <1>2, <1>3, <2>1, <2>2
  <2>4. ahead(j, i) \in SUBSET DOMAIN j /\ ahead(l, p[i]) \in SUBSET DOMAIN l
      BY <1>3
  <2>5. p \in Bijection(DOMAIN j, DOMAIN l)
      BY DEF Corresponds
  <2> HIDE DEF ahead
  <2> QED BY <2>3, <2>4, <2>5, CountSame
<1> HIDE DEF ahead
<1>5. \A i \in DOMAIN j : out(j, i) <=> out(l, p[i])
    BY <1>2, <1>4
<1> HIDE DEF out
<1>6. \A i \in DOMAIN j : f[p[i]] = e[i]
    BY <1>1, <1>2, <1>5
<1>7. \A i \in DOMAIN j : e[i].row = j[i].row
    BY <1>1, DemotedIs
<1> QED BY <1>1, <1>6, <1>7, StageCorresponds DEF e, f

\* What corresponds has the same rank.
LEMMA RankCorresponds ==
    ASSUME NEW j, NEW l, NEW p, Corresponds(p, j, l), IsFiniteSet(DOMAIN j)
    PROVE  \A i \in DOMAIN j : RankedAt(j, i) = RankedAt(l, p[i])
<1>2. /\ \A i \in DOMAIN j : p[i] \in DOMAIN l /\ l[p[i]] = j[i]
      /\ \A i \in DOMAIN j : i \in EligibleAt(j) <=> p[i] \in EligibleAt(l)
      /\ \A k \in DOMAIN l : \E i \in DOMAIN j : p[i] = k
    BY EligibleCorresponds
<1>3. EligibleAt(j) \subseteq DOMAIN j /\ EligibleAt(l) \subseteq DOMAIN l
    BY DEF EligibleAt
<1>4. MostVolume(j) = MostVolume(l) /\ MostVolatile(j) = MostVolatile(l)
  <2>1. {Facts(j[i].row).vol : i \in EligibleAt(j)} = {Facts(l[i].row).vol : i \in EligibleAt(l)}
      BY <1>2, <1>3
  <2>2. {Facts(j[i].row).vola : i \in EligibleAt(j)} = {Facts(l[i].row).vola : i \in EligibleAt(l)}
      BY <1>2, <1>3
  <2> QED BY <2>1, <2>2 DEF MostVolume, MostVolatile
<1>5. \A i \in EligibleAt(j) : ScoreAt(j, i) = ScoreAt(l, p[i])
    BY <1>2, <1>3, <1>4 DEF ScoreAt
<1>6. ASSUME NEW i \in EligibleAt(j) PROVE RankAt(j, i) = RankAt(l, p[i])
  <2> DEFINE U == AheadOf(EligibleAt(j), Leads(j), i)
             V == AheadOf(EligibleAt(l), Leads(l), p[i])
  <2>1. p[i] \in EligibleAt(l) /\ i \in DOMAIN j
      BY <1>2, <1>3
  <2>2. ASSUME NEW k \in EligibleAt(j)
        PROVE  <<k, i>> \in Leads(j) <=> <<p[k], p[i]>> \in Leads(l)
    <3>1. p[k] \in EligibleAt(l)
        BY <1>2, <1>3
    <3>2. ScoreAt(j, i) = ScoreAt(l, p[i]) /\ ScoreAt(j, k) = ScoreAt(l, p[k])
        BY <1>5
    <3>3. l[p[i]] = j[i] /\ l[p[k]] = j[k]
        BY <1>2, <1>3
    <3> QED BY <2>1, <3>1, <3>2, <3>3 DEF Leads
  <2>3. ASSUME NEW k \in DOMAIN j PROVE k \in U <=> p[k] \in V
    <3>1. k \in U <=> k \in EligibleAt(j) /\ <<k, i>> \in Leads(j)
        BY DEF AheadOf
    <3>2. p[k] \in V <=> p[k] \in EligibleAt(l) /\ <<p[k], p[i]>> \in Leads(l)
        BY DEF AheadOf
    <3> QED BY <1>2, <2>2, <3>1, <3>2
  <2>4. U \in SUBSET DOMAIN j /\ V \in SUBSET DOMAIN l
      BY <1>3 DEF AheadOf
  <2>5. p \in Bijection(DOMAIN j, DOMAIN l)
      BY DEF Corresponds
  <2> HIDE DEF U, V
  <2>6. Cardinality(U) = Cardinality(V)
      BY <2>3, <2>4, <2>5, CountSame
  <2> QED BY <2>6 DEF RankAt, U, V
<1> SUFFICES ASSUME NEW i \in DOMAIN j PROVE RankedAt(j, i) = RankedAt(l, p[i])
    OBVIOUS
<1>7. l[p[i]] = j[i] /\ (i \in EligibleAt(j) <=> p[i] \in EligibleAt(l))
    BY <1>2
<1>8. CASE i \in EligibleAt(j)
    BY <1>6, <1>7, <1>8 DEF RankedAt, IsChosen
<1>9. CASE i \notin EligibleAt(j)
    BY <1>7, <1>9 DEF RankedAt, IsChosen
<1> QED BY <1>8, <1>9

\* Lists of ranked decisions that correspond.
Rearranges(p, N, k, m) ==
    /\ p \in Bijection(1 .. N, 1 .. N)
    /\ DOMAIN k = 1 .. N /\ DOMAIN m = 1 .. N /\ \A i \in 1 .. N : IsRanked(k[i])
    /\ \A i \in 1 .. N : m[p[i]] = k[i]
    /\ \A i, h \in 1 .. N : k[i].d.row = k[h].d.row => (i < h <=> p[i] < p[h])

\* They are sorted into the same.
LEMMA SortedCorresponds ==
    ASSUME UniverseAssumption, NEW N \in Nat, NEW k, NEW m, NEW p, Rearranges(p, N, k, m)
    PROVE  InCanonicalOrder(k) = InCanonicalOrder(m)
<1> DEFINE S == 1 .. N
<1>0. /\ p \in Bijection(S, S) /\ S \subseteq Nat
      /\ DOMAIN k = S /\ DOMAIN m = S /\ \A i \in S : IsRanked(k[i])
      /\ \A i \in S : m[p[i]] = k[i]
      /\ \A i, h \in S : k[i].d.row = k[h].d.row => (i < h <=> p[i] < p[h])
    BY DEF Rearranges
<1> HIDE DEF S
<1>1. /\ \A i \in S : p[i] \in S
      /\ \A i, h \in S : p[i] = p[h] => i = h
      /\ \A g \in S : \E i \in S : p[i] = g
    BY <1>0, BijectionIs
<1>2. \A i \in S : IsRanked(m[i])
    BY <1>0, <1>1
<1>3. ASSUME NEW i \in S, NEW h \in S
      PROVE  <<i, h>> \in Canonical(k) <=> <<p[i], p[h]>> \in Canonical(m)
  <2>1. m[p[i]] = k[i] /\ m[p[h]] = k[h] /\ p[i] \in S /\ p[h] \in S
      BY <1>0, <1>1
  <2>2. SortKey(k[i]) = SortKey(k[h]) => k[i].d.row = k[h].d.row
    <3>1. /\ SortKey(k[i])[3] = k[i].d.row.sym /\ SortKey(k[i])[6] = k[i].d.row.kind
          /\ SortKey(k[h])[3] = k[h].d.row.sym /\ SortKey(k[h])[6] = k[h].d.row.kind
        BY <1>0, KeysAre
    <3>2. k[i].d.row \in SymbolRow /\ k[h].d.row \in SymbolRow
        BY <1>0 DEF IsRanked, IsJudged
    <3>3. SortKey(k[i]) = SortKey(k[h]) =>
             k[i].d.row.sym = k[h].d.row.sym /\ k[i].d.row.kind = k[h].d.row.kind
        BY <3>1
    <3> DEFINE r == k[i].d.row
               q == k[h].d.row
    <3> HIDE DEF r, q
    <3>4. r.sym = q.sym /\ r.kind = q.kind /\ r \in SymbolRow /\ q \in SymbolRow => r = q
        BY DEF SymbolRow
    <3> QED BY <3>2, <3>3, <3>4 DEF r, q
  <2>3. SortKey(k[i]) = SortKey(k[h]) => (i < h <=> p[i] < p[h])
      BY <1>0, <2>2
  <2>4. <<i, h>> \in Canonical(k) <=>
            Lower(SortKey(k[i]), SortKey(k[h])) \/ (SortKey(k[i]) = SortKey(k[h]) /\ i < h)
      BY <1>0 DEF Canonical, Precedes
  <2>5. <<p[i], p[h]>> \in Canonical(m) <=>
            Lower(SortKey(k[i]), SortKey(k[h])) \/ (SortKey(k[i]) = SortKey(k[h]) /\ p[i] < p[h])
      BY <1>0, <2>1 DEF Canonical, Precedes
  <2> QED BY <2>3, <2>4, <2>5
<1>4. /\ Places(k) \in Bijection(S, S) /\ DOMAIN InCanonicalOrder(k) = S
      /\ \A n \in S : Cardinality(AheadOf(S, Canonical(k), Places(k)[n])) = n - 1
      /\ \A n \in S : InCanonicalOrder(k)[n] = k[Places(k)[n]]
  <2>1. DOMAIN k = 1 .. N /\ \A i \in DOMAIN k : IsRanked(k[i])
      BY <1>0 DEF S
  <2> QED BY <2>1, CanonicalOrderIs DEF S
<1>5. /\ Places(m) \in Bijection(S, S) /\ DOMAIN InCanonicalOrder(m) = S
      /\ \A n \in S : Cardinality(AheadOf(S, Canonical(m), Places(m)[n])) = n - 1
      /\ \A n \in S : InCanonicalOrder(m)[n] = m[Places(m)[n]]
  <2>1. DOMAIN m = 1 .. N /\ \A i \in DOMAIN m : IsRanked(m[i])
      BY <1>0, <1>2 DEF S
  <2> QED BY <2>1, CanonicalOrderIs DEF S
<1>6. IsFiniteSet(S) /\ StrictOrder(S, Canonical(m))
  <2>1. DOMAIN m \subseteq Nat /\ \A i \in DOMAIN m : IsRanked(m[i])
      BY <1>0, <1>2
  <2>2. StrictOrder(DOMAIN m, Canonical(m))
      BY <2>1, CanonicalIsStrict
  <2>3. IsFiniteSet(S)
      BY UpTo DEF S
  <2> QED BY <1>0, <2>2, <2>3
<1>7. ASSUME NEW i \in S
      PROVE  Cardinality(AheadOf(S, Canonical(k), i)) = Cardinality(AheadOf(S, Canonical(m), p[i]))
  <2> DEFINE U == AheadOf(S, Canonical(k), i)
             V == AheadOf(S, Canonical(m), p[i])
  <2>1. \A h \in S : h \in U <=> p[h] \in V
      BY <1>1, <1>3 DEF AheadOf
  <2>2. U \in SUBSET S /\ V \in SUBSET S /\ IsFiniteSet(S) /\ p \in Bijection(S, S)
      BY <1>0, <1>6 DEF AheadOf
  <2> HIDE DEF U, V
  <2>3. Cardinality(U) = Cardinality(V)
      BY <2>1, <2>2, CountSame
  <2> QED BY <2>3 DEF U, V
<1>8. ASSUME NEW n \in S PROVE InCanonicalOrder(k)[n] = InCanonicalOrder(m)[n]
  <2> DEFINE x == Places(k)[n]
             y == Places(m)[n]
  <2>1. x \in S /\ y \in S
      BY <1>4, <1>5, BijectionIs
  <2>2. Cardinality(AheadOf(S, Canonical(k), x)) = n - 1 /\ Cardinality(AheadOf(S, Canonical(m), y)) = n - 1
      BY <1>4, <1>5
  <2> HIDE DEF x, y
  <2>3. p[x] \in S /\ m[p[x]] = k[x]
      BY <1>0, <1>1, <2>1
  <2>4. Cardinality(AheadOf(S, Canonical(m), p[x])) = n - 1
      BY <1>7, <2>1, <2>2
  <2>5. p[x] = y
      BY <1>6, <2>1, <2>2, <2>3, <2>4, PlacesAreTaken
  <2> QED BY <1>4, <1>5, <2>3, <2>5 DEF x, y
<1>9. /\ InCanonicalOrder(k) = [n \in S |-> InCanonicalOrder(k)[n]]
      /\ InCanonicalOrder(m) = [n \in S |-> InCanonicalOrder(m)[n]]
    BY <1>0 DEF InCanonicalOrder
<1> QED BY <1>8, <1>9

\* The selection depends on the rows and on their age, and not on the order the
\* rows arrived in (build_selected_universe): the sort by content, the tie between
\* duplicates and the ranks are all decided by the rows.
THEOREM ArrivalDoesNotMatter ==
    ASSUME UniverseAssumption, NEW a \in Seq(SymbolRow), NEW b \in Seq(SymbolRow), SameRows(a, b), NEW age
    PROVE  build_selected_universe(a, age) = build_selected_universe(b, age)
<1> DEFINE N == Len(a)
           j0 == JudgedRows(a, age)
           l0 == JudgedRows(b, age)
           j1 == Deduplicated(j0)
           l1 == Deduplicated(l0)
           j == TopByVolume(j1)
           l == TopByVolume(l1)
           k == Ranked(j)
           m == Ranked(l)
<1>1. PICK p : Carries(p, a, b)
    BY Matching
<1>2. N \in Nat /\ DOMAIN a = 1 .. N /\ IsFiniteSet(1 .. N) /\ Cardinality(1 .. N) = N
  <2>1. N \in Nat /\ DOMAIN a = 1 .. N
      OBVIOUS
  <2> HIDE DEF N
  <2> QED BY <2>1, UpTo
<1>3. DOMAIN b = 1 .. N
  <2>1. p \in Bijection(DOMAIN a, DOMAIN b)
      BY <1>1 DEF Carries
  <2>2. ExistsBijection(1 .. N, DOMAIN b)
      BY <1>2, <2>1 DEF ExistsBijection
  <2>3. Cardinality(DOMAIN b) = N
      BY <1>2, <2>2, FS_Bijection
  <2> DEFINE M == Len(b)
  <2>4. M \in Nat /\ DOMAIN b = 1 .. M
      OBVIOUS
  <2> HIDE DEF M
  <2>5. Cardinality(1 .. M) = M
      BY <2>4, UpTo
  <2> QED BY <2>3, <2>4, <2>5
<1>4. /\ build_selected_universe(a, age) = InCanonicalOrder(k)
      /\ build_selected_universe(b, age) = InCanonicalOrder(m)
    BY DEF build_selected_universe, JudgedRows
<1>5. j = Shortlist(a, age) /\ l = Shortlist(b, age)
    BY DEF Shortlist
<1>6. DOMAIN j0 = 1 .. N /\ AreDecisions(j0)
    BY <1>2, JudgedAre DEF JudgedRows
<1>7. Corresponds(p, j0, l0)
    BY <1>1, JudgedCorresponds
<1> HIDE DEF N, j0, l0
<1>8. DOMAIN j1 = 1 .. N /\ AreDecisions(j1)
    BY <1>6, DeduplicatedIs
<1>9. Corresponds(p, j1, l1)
  <2>1. \A i \in DOMAIN j0 : DOMAIN j0[i] = DecisionParts
      BY <1>6 DEF AreDecisions
  <2> QED BY <1>7, <2>1, DeduplicatedCorresponds
<1> HIDE DEF j1, l1
<1>10. Corresponds(p, j, l)
  <2>1. IsFiniteSet(DOMAIN j1) /\ \A i \in DOMAIN j1 : DOMAIN j1[i] = DecisionParts
      BY <1>8 DEF AreDecisions
  <2> QED BY <1>9, <2>1, TopByVolumeCorresponds
<1>11. /\ DOMAIN j = 1 .. N /\ AreDecisions(j) /\ Alone(j)
       /\ DOMAIN l = 1 .. N
    BY <1>2, <1>3, <1>5, ShortlistIs
<1> HIDE DEF j, l
<1>12. /\ DOMAIN k = 1 .. N /\ DOMAIN m = 1 .. N
       /\ \A i \in 1 .. N : k[i] = RankedAt(j, i) /\ m[i] = RankedAt(l, i)
    BY <1>11, RankedUnfolds
<1>13. \A i \in 1 .. N : IsRanked(k[i]) /\ k[i].d.row = j[i].row
  <2>1. \A i \in DOMAIN j : IsRanked(Ranked(j)[i]) /\ Ranked(j)[i].d.row = j[i].row
      BY <1>11, RankedIs DEF RanksOf
  <2> QED BY <1>11, <2>1
<1> HIDE DEF k, m
<1>14. p \in Bijection(1 .. N, 1 .. N) /\ \A i \in 1 .. N : p[i] \in 1 .. N
    BY <1>10, <1>11, BijectionIs DEF Corresponds
<1>15. \A i \in 1 .. N : RankedAt(j, i) = RankedAt(l, p[i])
    BY <1>2, <1>10, <1>11, RankCorresponds
<1>16. \A i \in 1 .. N : m[p[i]] = k[i]
    BY <1>12, <1>14, <1>15
<1>17. \A i, h \in 1 .. N : k[i].d.row = k[h].d.row => (i < h <=> p[i] < p[h])
    BY <1>10, <1>11, <1>13 DEF Corresponds
<1>19. Rearranges(p, N, k, m)
    BY <1>12, <1>13, <1>14, <1>16, <1>17 DEF Rearranges
<1>18. InCanonicalOrder(k) = InCanonicalOrder(m)
    BY <1>2, <1>19, SortedCorresponds
<1> QED BY <1>4, <1>18

\* The places of a row among decisions, and among the rows given.
Deciding(B, r) == {n \in DOMAIN B : B[n].d.row = r}
PlacesOf(rows, r) == {i \in DOMAIN rows : rows[i] = r}

\* A selection decides on the rows it was given, each as often as it was given.
LEMMA RowsAreCounted ==
    ASSUME UniverseAssumption, NEW rows \in Seq(SymbolRow), NEW age, NEW r
    PROVE  LET B == build_selected_universe(rows, age)
               U == Deciding(B, r)
               V == PlacesOf(rows, r)
           IN  Cardinality(U) = Cardinality(V) /\ (V # {} => U # {})
<1> DEFINE N == Len(rows)
           j == Shortlist(rows, age)
           k == Ranked(j)
           B == build_selected_universe(rows, age)
           S == 1 .. N
           U == Deciding(B, r)
           V == PlacesOf(rows, r)
<1>1. N \in Nat /\ DOMAIN rows = S
    OBVIOUS
<1>2. B = InCanonicalOrder(k)
    BY DEF build_selected_universe, Shortlist, JudgedRows
<1> HIDE DEF N, B
<1>3. DOMAIN j = S /\ AreDecisions(j) /\ Alone(j) /\ \A i \in S : j[i].row = rows[i]
    BY <1>1, ShortlistIs
<1> HIDE DEF j
<1>4. DOMAIN k = S /\ \A i \in DOMAIN k : IsRanked(k[i]) /\ k[i].d.row = j[i].row
  <2>1. RanksOf(j, k)
      BY <1>3, RankedIs
  <2> HIDE DEF k
  <2> QED BY <1>3, <2>1 DEF RanksOf
<1> HIDE DEF k
<1>5. /\ Places(k) \in Bijection(S, S) /\ DOMAIN InCanonicalOrder(k) = S
      /\ \A n \in S : InCanonicalOrder(k)[n] = k[Places(k)[n]]
    BY <1>1, <1>4, CanonicalOrderIs
<1>6. IsFiniteSet(S)
    BY <1>1, UpTo
<1> HIDE DEF S
<1>7. /\ \A n \in S : Places(k)[n] \in S
      /\ \A i \in S : \E n \in S : Places(k)[n] = i
    BY <1>5, BijectionIs
<1>8. \A n \in S : B[n].d.row = rows[Places(k)[n]]
    BY <1>2, <1>3, <1>4, <1>5, <1>7
<1>9. U \in SUBSET S /\ V \in SUBSET S /\ \A n \in S : n \in U <=> Places(k)[n] \in V
    BY <1>1, <1>2, <1>5, <1>7, <1>8 DEF Deciding, PlacesOf
<1> HIDE DEF U, V
<1>10. Cardinality(U) = Cardinality(V)
    BY <1>5, <1>6, <1>9, CountSame
<1>11. V # {} => U # {}
    BY <1>7, <1>9
<1> QED BY <1>10, <1>11 DEF U, V, B
Times(B, r) == Cardinality(Deciding(B, r))

\* The rows a selection decided on.
RowsDecided(B) ==
    {[row |-> x.d.row, times |-> Times(B, x.d.row)] : x \in ToSet(B)}

\* Selections that decided on the same rows did so equally often,
LEMMA DecidedOn ==
    ASSUME NEW A, NEW B, RowsDecided(A) = RowsDecided(B), NEW r, NEW n \in DOMAIN A, A[n].d.row = r
    PROVE  Times(A, r) = Times(B, r)
<1>1. A[n] \in ToSet(A)
    BY DEF ToSet
<1>2. [row |-> r, times |-> Times(A, r)] \in RowsDecided(A)
    BY <1>1 DEF RowsDecided
<1>3. PICK x \in ToSet(B) : [row |-> r, times |-> Times(A, r)] = [row |-> x.d.row, times |-> Times(B, x.d.row)]
    BY <1>2 DEF RowsDecided
<1>4. r = x.d.row /\ Times(A, r) = Times(B, x.d.row)
    BY <1>3
<1> QED BY <1>4

\* and are the same selection.
LEMMA SameDecided ==
    ASSUME UniverseAssumption, NEW a \in Seq(SymbolRow), NEW b \in Seq(SymbolRow), NEW age,
           RowsDecided(build_selected_universe(a, age)) = RowsDecided(build_selected_universe(b, age))
    PROVE  build_selected_universe(a, age) = build_selected_universe(b, age)
<1> DEFINE A == build_selected_universe(a, age)
           B == build_selected_universe(b, age)
<1>1. \A r : /\ Times(A, r) = Cardinality(PlacesOf(a, r)) /\ (PlacesOf(a, r) # {} => Deciding(A, r) # {})
             /\ Times(B, r) = Cardinality(PlacesOf(b, r)) /\ (PlacesOf(b, r) # {} => Deciding(B, r) # {})
    BY RowsAreCounted DEF Times
<1> HIDE DEF A, B
<1>3. ASSUME NEW r PROVE Times(A, r) = Times(B, r)
  <2>1. RowsDecided(A) = RowsDecided(B)
      BY DEF A, B
  <2>2. CASE Deciding(A, r) # {}
    <3>1. PICK n \in DOMAIN A : A[n].d.row = r
        BY <2>2 DEF Deciding
    <3> QED BY <2>1, <3>1, DecidedOn
  <2>3. CASE Deciding(B, r) # {}
    <3>1. PICK n \in DOMAIN B : B[n].d.row = r
        BY <2>3 DEF Deciding
    <3>2. Times(B, r) = Times(A, r)
        BY <2>1, <3>1, DecidedOn
    <3> QED BY <3>2
  <2>4. CASE Deciding(A, r) = {} /\ Deciding(B, r) = {}
      BY <2>4 DEF Times
  <2> QED BY <2>2, <2>3, <2>4
<1>4. SameRows(a, b)
  <2>1. \A r : Cardinality(PlacesOf(a, r)) = Cardinality(PlacesOf(b, r))
      BY <1>1, <1>3
  <2> QED BY <2>1, Zenon DEF SameRows, PlacesOf
<1> QED BY <1>4, ArrivalDoesNotMatter

\* A stored cycle is the selection from some rows at some time.
IsCycle(c) ==
    /\ DOMAIN c = {"id", "whole"}
    /\ \E w, at \in Int : \E rows \in Seq(SymbolRow) : c.id = <<w, at, build_selected_universe(rows, w - at)>>

\* Cycles that are selections from rows are all that the property asks.
LEMMA CyclesAreSound ==
    ASSUME UniverseAssumption, \A c \in stored : IsCycle(c)
    PROVE  SelectionIsSound
<1>1. ASSUME NEW c \in stored, NEW d \in stored, c.id[1] = d.id[1], c.id[2] = d.id[2], RowsOf(c) = RowsOf(d)
      PROVE  c.id = d.id
  <2>1. PICK w, at \in Int : \E a \in Seq(SymbolRow) : c.id = <<w, at, build_selected_universe(a, w - at)>>
      BY DEF IsCycle
  <2>2. PICK v, then \in Int : \E b \in Seq(SymbolRow) : d.id = <<v, then, build_selected_universe(b, v - then)>>
      BY DEF IsCycle
  <2>8. PICK a \in Seq(SymbolRow) : c.id = <<w, at, build_selected_universe(a, w - at)>>
      BY <2>1
  <2>9. PICK b \in Seq(SymbolRow) : d.id = <<v, then, build_selected_universe(b, v - then)>>
      BY <2>2
  <2>3. w = v /\ at = then
      BY <1>1, <2>8, <2>9
  <2> DEFINE A == build_selected_universe(a, w - at)
             B == build_selected_universe(b, w - at)
  <2>4. c.id = <<w, at, A>> /\ d.id = <<w, at, B>>
      BY <2>3, <2>8, <2>9
  <2> HIDE DEF A, B
  <2>5. DecisionsOf(c) = A /\ DecisionsOf(d) = B
      BY <2>4 DEF DecisionsOf
  <2>6. RowsDecided(A) = RowsDecided(B)
    <3>1. \A x : RowsOf(x) = RowsDecided(DecisionsOf(x))
        BY Zenon DEF RowsOf, RowsDecided, Times, Deciding
    <3> QED BY <1>1, <2>5, <3>1
  <2>7. A = B
      BY <2>6, SameDecided DEF A, B
  <2> QED BY <2>4, <2>7
<1>2. Reproducible
    BY <1>1 DEF Reproducible
<1>3. ASSUME NEW c \in stored
      PROVE  LET age == c.id[1] - c.id[2]
             IN  SoundDecisions(DecisionsOf(c), age) /\ (Current(c) <=> InTime(age))
  <2>1. PICK w, at \in Int : \E rows \in Seq(SymbolRow) : c.id = <<w, at, build_selected_universe(rows, w - at)>>
      BY DEF IsCycle
  <2>3. PICK rows \in Seq(SymbolRow) : c.id = <<w, at, build_selected_universe(rows, w - at)>>
      BY <2>1
  <2>2. DecisionsOf(c) = build_selected_universe(rows, w - at) /\ c.id[1] - c.id[2] = w - at
      BY <2>3 DEF DecisionsOf
  <2>4. SoundDecisions(DecisionsOf(c), c.id[1] - c.id[2])
      BY <2>2, SelectionIs
  <2>5. w - at \in Int /\ EvidenceAge \in Int /\ -Future \in Int
      BY <2>1 DEF UniverseAssumption, Future
  <2>6. Current(c) <=> InTime(c.id[1] - c.id[2])
      BY <2>2, <2>5 DEF Current, InTime
  <2> QED BY <2>4, <2>6
<1>4. ASSUME NEW c \in stored
      PROVE  LET all == ToSet(DecisionsOf(c))
                 in  == {x \in all : x.selected}
             IN  /\ \A x \in in : Tradable(Facts(x.d.row))
                 /\ \A x, y \in in : x.d.row.sym = y.d.row.sym => x = y
                 /\ Cardinality(in) <= MaxActive
                 /\ in # {} => Current(c)
                 /\ \A x \in all \ in : Tradable(Facts(x.d.row)) /\ Current(c) => Crowded(x, in)
    BY <1>3 DEF SoundDecisions
<1> QED BY <1>2, <1>4 DEF SelectionIsSound

ScanParts == {"pc", "n", "rows", "at", "read", "steps", "todo", "turn"}

\* Rows are read and cached as they are listed, and every cycle selects from such rows.
SelectionInv ==
    /\ wall \in Int
    /\ DOMAIN scan = ScanParts /\ scan.rows \in Seq(SymbolRow) /\ scan.at \in Int
    /\ DOMAIN snapshot = {"has", "rows", "at", "read", "steps"} /\ snapshot.rows \in Seq(SymbolRow)
    /\ snapshot.at \in Int
    /\ \A c \in stored : IsCycle(c)

\* The exchange answers with rows,
LEMMA AnswersAreRows ==
    ASSUME UniverseAssumption
    PROVE  Payloads \subseteq Seq(SymbolRow)
<1>1. Listings \in Nat /\ Names = 1 .. Listings
    BY DEF UniverseAssumption, Names
<1>2. MidOnly = 39 /\ DOMAIN Oddities = 1 .. 38
    BY DEF MidOnly, Oddities
<1>3. \A s \in Names, k \in 0 .. MidOnly : Row(s, k) \in SymbolRow
    BY DEF Row, SymbolRow
<1>4. Plain \in Seq(SymbolRow) /\ Len(Plain) = Listings /\ DOMAIN Plain = Names
  <2>1. Plain \in [1 .. Listings -> SymbolRow]
      BY <1>1, <1>2, <1>3 DEF Plain
  <2> HIDE DEF Plain
  <2>2. Plain \in Seq(SymbolRow)
    <3>1. \E n \in Nat : Plain \in [1 .. n -> SymbolRow]
        BY <1>1, <2>1, Zenon
    <3>2. \E T \in {[1 .. n -> SymbolRow] : n \in Nat} : Plain \in T
        BY <3>1, Zenon
    <3>3. Seq(SymbolRow) = UNION {[1 .. n -> SymbolRow] : n \in Nat}
        BY SeqDef, Zenon
    <3> QED BY <3>2, <3>3, Zenon
  <2>3. DOMAIN Plain = 1 .. Listings /\ Len(Plain) = Listings
      BY <1>1, <2>1, <2>2
  <2> QED BY <1>1, <2>2, <2>3
<1>5. ASSUME NEW s \in Names PROVE RemoveAt(Plain, s) \in Seq(SymbolRow)
  <2>1. s \in 1 .. Len(Plain) /\ Len(Plain) \in Nat
      BY <1>1, <1>4
  <2>2. SubSeq(Plain, 1, s - 1) \in Seq(SymbolRow)
      BY <1>4, <2>1, SMTT(30)
  <2>3. SubSeq(Plain, s + 1, Len(Plain)) \in Seq(SymbolRow)
      BY <1>4, <2>1, SMTT(30)
  <2>4. RemoveAt(Plain, s) = SubSeq(Plain, 1, s - 1) \o SubSeq(Plain, s + 1, Len(Plain))
      BY Zenon DEF RemoveAt
  <2> DEFINE u == SubSeq(Plain, 1, s - 1)
             v == SubSeq(Plain, s + 1, Len(Plain))
  <2> HIDE DEF u, v
  <2>5. u \in Seq(SymbolRow) /\ v \in Seq(SymbolRow)
      BY <2>2, <2>3 DEF u, v
  <2>6. u \o v \in Seq(SymbolRow)
      BY <2>5
  <2> QED BY <2>4, <2>6, Zenon DEF u, v
<1>6. ASSUME NEW s \in Names, NEW k \in DOMAIN Oddities PROVE [Plain EXCEPT ![s] = Row(s, k)] \in Seq(SymbolRow)
  <2>1. Row(s, k) \in SymbolRow
      BY <1>2, <1>3
  <2> QED BY <1>4, <2>1
<1>7. ASSUME NEW s \in Names, NEW k \in 0 .. MidOnly PROVE Append(Plain, Row(s, k)) \in Seq(SymbolRow)
    BY <1>3, <1>4
<1>8. ASSUME NEW rows \in Payloads PROVE rows \in Seq(SymbolRow)
  <2>1. CASE rows = Plain
      BY <1>4, <2>1
  <2>2. CASE rows # Plain
    <3>1. PICK s \in Names :
            rows \in {RemoveAt(Plain, s)} \cup
                     {[Plain EXCEPT ![s] = Row(s, k)] : k \in DOMAIN Oddities} \cup
                     {Append(Plain, Row(s, k)) : k \in 0 .. MidOnly}
        BY <2>2 DEF Payloads
    <3>2. CASE rows = RemoveAt(Plain, s)
        BY <1>5, <3>2
    <3>3. CASE \E k \in DOMAIN Oddities : rows = [Plain EXCEPT ![s] = Row(s, k)]
        BY <1>6, <3>3
    <3>4. CASE \E k \in 0 .. MidOnly : rows = Append(Plain, Row(s, k))
        BY <1>7, <3>4
    <3> QED BY <3>1, <3>2, <3>3, <3>4
  <2> QED BY <2>1, <2>2
<1> QED BY <1>8

\* and they arrive as rows.
LEMMA ArrivalsAreRows ==
    ASSUME NEW rows \in Seq(SymbolRow)
    PROVE  Arrivals(rows) \subseteq Seq(SymbolRow)
<1> DEFINE N == Len(rows)
<1>1. N \in Nat /\ DOMAIN rows = 1 .. N /\ \A i \in 1 .. N : rows[i] \in SymbolRow
    OBVIOUS
<1>2. Reverse(rows) \in Seq(SymbolRow)
  <2>1. \A i \in 1 .. N : N - i + 1 \in 1 .. N
      BY <1>1
  <2>2. Reverse(rows) \in [1 .. N -> SymbolRow]
      BY <1>1, <2>1 DEF Reverse
  <2> QED BY <1>1, <2>2
<1> HIDE DEF N
<1>3. FirstOfEach(rows) \in Seq(SymbolRow)
  <2> DEFINE first == {i \in DOMAIN rows : \A j \in 1 .. i - 1 : rows[j].sym # rows[i].sym}
             kept == Ascending(first)
  <2>1. first \subseteq DOMAIN rows
      OBVIOUS
  <2>2. FirstOfEach(rows) = [i \in DOMAIN kept |-> rows[kept[i]]]
      BY DEF FirstOfEach
  <2> HIDE DEF first
  <2>3. IsFiniteSet(first) /\ first \subseteq Nat
    <3>1. IsFiniteSet(1 .. N)
        BY <1>1, UpTo
    <3> QED BY <1>1, <2>1, <3>1, FS_Subset
  <2>4. kept = InOrder(first, Earlier(first))
      BY DEF Ascending, Earlier
  <2>5. StrictOrder(first, Earlier(first))
      BY <2>3, EarlierIsStrict
  <2> HIDE DEF kept
  <2>6. Cardinality(first) \in Nat /\ kept \in [1 .. Cardinality(first) -> first]
      BY <2>3, <2>4, <2>5, InOrderIs
  <2> DEFINE M == Cardinality(first)
             seen == [i \in 1 .. M |-> rows[kept[i]]]
  <2>7. FirstOfEach(rows) = seen
      BY <2>2, <2>6
  <2>8. M \in Nat /\ \A i \in 1 .. M : rows[kept[i]] \in SymbolRow
      BY <1>1, <2>1, <2>6
  <2> HIDE DEF M
  <2>9. seen \in Seq(SymbolRow)
      BY <2>8
  <2> QED BY <2>7, <2>9
<1> QED BY <1>2, <1>3 DEF Arrivals

\* The invariant holds at the start, and every step keeps it.
LEMMA SelectionStarts ==
    ASSUME UniverseAssumption, UniverseInit
    PROVE  SelectionInv
    BY DEF UniverseAssumption, UniverseInit, SelectionInv, AtRest, Uncached, ScanParts

LEMMA ScansKeepRows ==
    ASSUME UniverseAssumption, SelectionInv, ScanFromCache \/ ScanUnavailable \/ ScanFetched
    PROVE  SelectionInv'
<1>1. stored' = stored /\ wall' = wall /\ wall \in Int
    BY DEF ScanFromCache, ScanUnavailable, ScanFetched, clocks, SelectionInv
<1>2. /\ DOMAIN scan' = ScanParts /\ scan'.rows \in Seq(SymbolRow) /\ scan'.at \in Int
      /\ DOMAIN snapshot' = {"has", "rows", "at", "read", "steps"} /\ snapshot'.rows \in Seq(SymbolRow)
      /\ snapshot'.at \in Int
  <2>1. CASE ScanFromCache
      BY <2>1 DEF ScanFromCache, FromCache, Rows, Quiet, AtRest, SelectionInv, ScanParts
  <2>2. CASE ScanUnavailable
      BY <1>1, <2>2 DEF ScanUnavailable, Uncached, Rows, Quiet, AtRest, ScanParts
  <2>3. CASE ScanFetched
    <3>1. PICK rows \in IF scan.n = 0 /\ mono = Frame THEN Payloads ELSE {Plain} :
            /\ snapshot' = [has |-> StaleAge > 0, rows |-> rows, at |-> wall, read |-> mono,
                            steps |-> steps]
            /\ scan' = [Rows(rows, wall, mono, steps) EXCEPT !.n = @ + 1]
        BY <2>3, Zenon DEF ScanFetched
    <3>2. rows \in Payloads
        BY DEF Payloads
    <3>3. rows \in Seq(SymbolRow)
        BY <3>2, AnswersAreRows
    <3>4. /\ DOMAIN snapshot' = {"has", "rows", "at", "read", "steps"} /\ snapshot'.rows = rows
          /\ snapshot'.at = wall
        BY <3>1
    <3>5. DOMAIN scan' = ScanParts /\ scan'.rows = rows /\ scan'.at = wall
        BY <3>1 DEF Rows, Quiet, AtRest, ScanParts
    <3> QED BY <1>1, <3>3, <3>4, <3>5
  <2> QED BY <2>1, <2>2, <2>3
<1> QED BY <1>1, <1>2 DEF SelectionInv

LEMMA SelectKeepsCycles ==
    ASSUME SelectionInv, Select
    PROVE  SelectionInv'
<1>1. PICK rows \in Arrivals(scan.rows) :
        LET decisions == build_selected_universe(rows, wall - scan.at)
        IN  /\ persist_universe_selection(CycleId(decisions))
            /\ scan' = [scan EXCEPT !.pc = IF SelectedOf(decisions) = <<>> THEN "idle" ELSE "enrich",
                                    !.todo = SelectedOf(decisions), !.rows = <<>>]
    BY Zenon DEF Select
<1> DEFINE decisions == build_selected_universe(rows, wall - scan.at)
           new == [id |-> CycleId(decisions), whole |-> TRUE]
<1>2. rows \in Seq(SymbolRow)
    BY ArrivalsAreRows DEF SelectionInv
<1>3. IsCycle(new)
  <2>1. new.id = <<wall, scan.at, build_selected_universe(rows, wall - scan.at)>>
      BY DEF CycleId
  <2>2. DOMAIN new = {"id", "whole"}
      OBVIOUS
  <2>3. wall \in Int /\ scan.at \in Int
      BY DEF SelectionInv
  <2> HIDE DEF new
  <2> QED BY <1>2, <2>1, <2>2, <2>3 DEF IsCycle
<1>4. persist_universe_selection(CycleId(decisions))
    BY <1>1
<1>5. scan' = [scan EXCEPT !.pc = IF SelectedOf(decisions) = <<>> THEN "idle" ELSE "enrich",
                           !.todo = SelectedOf(decisions), !.rows = <<>>]
    BY <1>1
<1> HIDE DEF decisions
<1>6. stored' \subseteq stored \cup {new}
    BY <1>4 DEF persist_universe_selection
<1>7. \A c \in stored' : IsCycle(c)
  <2> HIDE DEF new
  <2> QED BY <1>3, <1>6 DEF SelectionInv
<1>8. DOMAIN scan' = ScanParts /\ scan'.rows = <<>> /\ scan'.at = scan.at
    BY <1>5 DEF SelectionInv, ScanParts
<1>9. snapshot' = snapshot /\ wall' = wall
    BY DEF Select, clocks
<1> QED BY <1>7, <1>8, <1>9 DEF SelectionInv

LEMMA LossKeepsCycles ==
    ASSUME SelectionInv, LoseCandidates
    PROVE  SelectionInv'
<1>1. PICK c \in stored : stored' = (stored \ {c}) \cup {[c EXCEPT !.whole = FALSE]}
    BY DEF LoseCandidates
<1>2. IsCycle(c)
    BY DEF SelectionInv
<1> DEFINE lost == [c EXCEPT !.whole = FALSE]
<1>3. lost.id = c.id /\ DOMAIN lost = DOMAIN c
    BY <1>2 DEF IsCycle
<1>4. IsCycle(lost)
  <2> HIDE DEF lost
  <2> QED BY <1>2, <1>3 DEF IsCycle
<1> HIDE DEF lost
<1>5. \A d \in stored' : IsCycle(d)
    BY <1>1, <1>4 DEF SelectionInv, lost
<1> QED BY <1>5 DEF LoseCandidates, SelectionInv, clocks

\* Every symbol selected may be traded, on measured and current evidence within
\* every limit, those of the market cap where configured included, once and within
\* max_active; a row that may be traded and was judged in time is left out only for a
\* place taken by another, of its symbol or where all are taken; and the same rows judged at the same time give the
\* same cycle (_candidate_base_decision, build_selected_universe,
\* persist_universe_selection).
THEOREM SoundSelections == UniverseSpec => []SelectionIsSound
<1>1. UniverseInit => SelectionInv
    BY SelectionStarts, UniverseAssumption
<1>2. SelectionInv /\ [UniverseNext]_universeVars => SelectionInv'
  <2> SUFFICES ASSUME SelectionInv, [UniverseNext]_universeVars PROVE SelectionInv'
      OBVIOUS
  <2>1. CASE Elapse \/ StepBack
    <3>1. UNCHANGED <<snapshot, scan, stored>>
        BY <2>1 DEF Elapse, StepBack
    <3>2. wall' \in Int
        BY <2>1 DEF Elapse, StepBack, SelectionInv
    <3> QED BY <3>1, <3>2 DEF SelectionInv
  <2>4. CASE Enrich \/ Process
    <3>1. UNCHANGED <<wall, snapshot, stored>>
        BY <2>4 DEF Enrich, Process, clocks
    <3>2. DOMAIN scan' = ScanParts /\ scan'.rows = scan.rows /\ scan'.at = scan.at
      <4>2. CASE Enrich
          BY <4>2 DEF Enrich, SelectionInv, ScanParts
      <4>3. CASE Process
          BY <4>3 DEF Process, SelectionInv, ScanParts
      <4> QED BY <2>4, <4>2, <4>3
    <3> QED BY <3>1, <3>2 DEF SelectionInv
  <2>2. CASE SelectionNotStored \/ SelectionConflicts
    <3>1. UNCHANGED <<wall, snapshot, stored>>
        BY <2>2 DEF SelectionNotStored, SelectionConflicts, clocks
    <3>2. DOMAIN scan' = ScanParts /\ scan'.rows = <<>> /\ scan'.at = 0
        BY <2>2 DEF SelectionNotStored, SelectionConflicts, Quiet, AtRest, ScanParts
    <3> QED BY <3>1, <3>2 DEF SelectionInv
  <2>3. CASE UNCHANGED universeVars
      BY <2>3 DEF universeVars, SelectionInv
  <2> QED BY <2>1, <2>2, <2>3, <2>4, ScansKeepRows, SelectKeepsCycles, LossKeepsCycles,
             UniverseAssumption DEF UniverseNext
<1>3. SelectionInv => SelectionIsSound
    BY CyclesAreSound, UniverseAssumption DEF SelectionInv
<1> QED BY <1>1, <1>2, <1>3, PTL DEF UniverseSpec

-----------------------------------------------------------------------------
(* An order that passes its gates.                                          *)

\* Nothing was found against it.
Clean(why) == why = ""

\* A gate that holds has a name, and a list of such gates.
Proper(gate) == gate[1] => gate[2] # ""
Named(gates) ==
    /\ \E T : gates \in Seq(T)
    /\ \A i \in DOMAIN gates : Proper(gates[i])
Passes(gates) == \A i \in DOMAIN gates : ~gates[i][1]

\* No gate is named exactly if none holds.
LEMMA NoneNamed ==
    ASSUME NEW gates, Named(gates)
    PROVE  Clean(FirstOf(gates)) <=> Passes(gates)
<1> DEFINE failed == {i \in DOMAIN gates : gates[i][1]}
           first == CHOOSE i \in failed : \A j \in failed : i <= j
<1>1. CASE failed = {}
    BY <1>1 DEF FirstOf, Passes, Clean
<1>2. CASE failed # {}
  <2>1. DOMAIN gates \subseteq Nat
    <3>1. PICK T : gates \in Seq(T)
        BY DEF Named
    <3> QED BY <3>1
  <2>2. \E i \in failed : \A j \in failed : i <= j
      BY <1>2, <2>1, LeastOf
  <2>3. first \in failed
      BY <2>2
  <2>4. FirstOf(gates) = gates[first][2]
      BY <1>2 DEF FirstOf
  <2> QED BY <1>2, <2>3, <2>4 DEF Named, Proper, Passes, Clean
<1> QED BY <1>1, <1>2

LEMMA OneAfterTheOther ==
    ASSUME NEW a, NEW b, Named(a), Named(b)
    PROVE  Named(a \o b) /\ (Passes(a \o b) <=> Passes(a) /\ Passes(b))
<1>1. PICK S : a \in Seq(S)
    BY DEF Named
<1>2. PICK T : b \in Seq(T)
    BY DEF Named
<1> DEFINE U == S \cup T
<1>3. a \in Seq(U) /\ b \in Seq(U)
    BY <1>1, <1>2
<1> HIDE DEF U
<1>4. a \o b \in Seq(U) /\ Len(a \o b) = Len(a) + Len(b)
    BY <1>3
<1>5. \A i \in 1 .. Len(a) : (a \o b)[i] = a[i]
    BY <1>3
<1>6. \A i \in 1 .. Len(b) : (a \o b)[Len(a) + i] = b[i]
    BY <1>3
<1>7. \A i \in DOMAIN (a \o b) :
         \/ i \in DOMAIN a /\ (a \o b)[i] = a[i]
         \/ i - Len(a) \in DOMAIN b /\ (a \o b)[i] = b[i - Len(a)]
    BY <1>3, <1>4
<1>8. Named(a \o b)
    BY <1>4, <1>7 DEF Named
<1>9. Passes(a) /\ Passes(b) => Passes(a \o b)
    BY <1>7 DEF Passes
<1>10. ASSUME Passes(a \o b) PROVE Passes(a) /\ Passes(b)
  <2>1. Passes(a)
    <3>1. \A i \in DOMAIN a : i \in DOMAIN (a \o b) /\ (a \o b)[i] = a[i]
        BY <1>3, <1>4, <1>5
    <3> QED BY <1>10, <3>1 DEF Passes
  <2>2. Passes(b)
    <3>1. \A i \in DOMAIN b : Len(a) + i \in DOMAIN (a \o b) /\ (a \o b)[Len(a) + i] = b[i]
        BY <1>3, <1>4, <1>6
    <3> QED BY <1>10, <3>1 DEF Passes
  <2> QED BY <2>1, <2>2
<1> QED BY <1>8, <1>9, <1>10

\* Lists of a few gates.
LEMMA OneGate ==
    ASSUME NEW a1,
           Proper(a1)
    PROVE  LET g == <<a1>>
           IN  /\ Named(g)
               /\ Passes(g) <=> ~a1[1]
<1> DEFINE g == <<a1>>
<1>1. g \in Seq({a1})
    OBVIOUS
<1>2. Passes(g) <=> ~a1[1]
    BY DEF Passes
<1>3. \A i \in DOMAIN g : Proper(g[i])
    OBVIOUS
<1> QED BY <1>1, <1>2, <1>3 DEF Named

LEMMA FourGates ==
    ASSUME NEW a1, NEW a2, NEW a3, NEW a4,
           Proper(a1), Proper(a2), Proper(a3), Proper(a4)
    PROVE  LET g == <<a1, a2, a3, a4>>
           IN  /\ Named(g)
               /\ Passes(g) <=> ~a1[1] /\ ~a2[1] /\ ~a3[1] /\ ~a4[1]
<1> DEFINE g == <<a1, a2, a3, a4>>
<1>1. g \in Seq({a1, a2, a3, a4})
    OBVIOUS
<1>2. Passes(g) <=> ~a1[1] /\ ~a2[1] /\ ~a3[1] /\ ~a4[1]
    BY DEF Passes
<1>3. \A i \in DOMAIN g : Proper(g[i])
    OBVIOUS
<1> QED BY <1>1, <1>2, <1>3 DEF Named

LEMMA FiveGates ==
    ASSUME NEW a1, NEW a2, NEW a3, NEW a4, NEW a5,
           Proper(a1), Proper(a2), Proper(a3), Proper(a4), Proper(a5)
    PROVE  LET g == <<a1, a2, a3, a4, a5>>
           IN  /\ Named(g)
               /\ Passes(g) <=> ~a1[1] /\ ~a2[1] /\ ~a3[1] /\ ~a4[1] /\ ~a5[1]
<1> DEFINE g == <<a1, a2, a3, a4, a5>>
<1>1. g \in Seq({a1, a2, a3, a4, a5})
    OBVIOUS
<1>2. Passes(g) <=> ~a1[1] /\ ~a2[1] /\ ~a3[1] /\ ~a4[1] /\ ~a5[1]
    BY DEF Passes
<1>3. \A i \in DOMAIN g : Proper(g[i])
    OBVIOUS
<1> QED BY <1>1, <1>2, <1>3 DEF Named

LEMMA SevenGates ==
    ASSUME NEW a1, NEW a2, NEW a3, NEW a4, NEW a5, NEW a6, NEW a7,
           Proper(a1), Proper(a2), Proper(a3), Proper(a4), Proper(a5), Proper(a6),
           Proper(a7)
    PROVE  LET g == <<a1, a2, a3, a4, a5, a6, a7>>
           IN  /\ Named(g)
               /\ Passes(g) <=> ~a1[1] /\ ~a2[1] /\ ~a3[1] /\ ~a4[1] /\ ~a5[1] /\ ~a6[1] /\
                                  ~a7[1]
<1> DEFINE g == <<a1, a2, a3, a4, a5, a6, a7>>
<1>1. g \in Seq({a1, a2, a3, a4, a5, a6, a7})
    OBVIOUS
<1>2. Passes(g) <=> ~a1[1] /\ ~a2[1] /\ ~a3[1] /\ ~a4[1] /\ ~a5[1] /\ ~a6[1] /\ ~a7[1]
    BY DEF Passes
<1>3. \A i \in DOMAIN g : Proper(g[i])
    OBVIOUS
<1> QED BY <1>1, <1>2, <1>3 DEF Named

LEMMA TenGates ==
    ASSUME NEW a1, NEW a2, NEW a3, NEW a4, NEW a5, NEW a6, NEW a7, NEW a8, NEW a9, NEW a10,
           Proper(a1), Proper(a2), Proper(a3), Proper(a4), Proper(a5), Proper(a6),
           Proper(a7), Proper(a8), Proper(a9), Proper(a10)
    PROVE  LET g == <<a1, a2, a3, a4, a5, a6, a7, a8, a9, a10>>
           IN  /\ Named(g)
               /\ Passes(g) <=> ~a1[1] /\ ~a2[1] /\ ~a3[1] /\ ~a4[1] /\ ~a5[1] /\ ~a6[1] /\
                                  ~a7[1] /\ ~a8[1] /\ ~a9[1] /\ ~a10[1]
<1> DEFINE g == <<a1, a2, a3, a4, a5, a6, a7, a8, a9, a10>>
<1>1. g \in Seq({a1, a2, a3, a4, a5, a6, a7, a8, a9, a10})
    OBVIOUS
<1>2. Passes(g) <=> ~a1[1] /\ ~a2[1] /\ ~a3[1] /\ ~a4[1] /\ ~a5[1] /\ ~a6[1] /\ ~a7[1] /\
                       ~a8[1] /\ ~a9[1] /\ ~a10[1]
    BY DEF Passes
<1>3. \A i \in DOMAIN g : Proper(g[i])
    OBVIOUS
<1> QED BY <1>1, <1>2, <1>3 DEF Named

LEMMA ThirteenGates ==
    ASSUME NEW a1, NEW a2, NEW a3, NEW a4, NEW a5, NEW a6, NEW a7, NEW a8, NEW a9, NEW a10,
           NEW a11, NEW a12, NEW a13,
           Proper(a1), Proper(a2), Proper(a3), Proper(a4), Proper(a5), Proper(a6),
           Proper(a7), Proper(a8), Proper(a9), Proper(a10), Proper(a11), Proper(a12),
           Proper(a13)
    PROVE  LET g == <<a1, a2, a3, a4, a5, a6, a7, a8, a9, a10, a11, a12, a13>>
           IN  /\ Named(g)
               /\ Passes(g) <=> ~a1[1] /\ ~a2[1] /\ ~a3[1] /\ ~a4[1] /\ ~a5[1] /\ ~a6[1] /\
                                  ~a7[1] /\ ~a8[1] /\ ~a9[1] /\ ~a10[1] /\ ~a11[1] /\
                                  ~a12[1] /\ ~a13[1]
<1> DEFINE g == <<a1, a2, a3, a4, a5, a6, a7, a8, a9, a10, a11, a12, a13>>
<1>1. g \in Seq({a1, a2, a3, a4, a5, a6, a7, a8, a9, a10, a11, a12, a13})
    OBVIOUS
<1>2. Passes(g) <=> ~a1[1] /\ ~a2[1] /\ ~a3[1] /\ ~a4[1] /\ ~a5[1] /\ ~a6[1] /\ ~a7[1] /\
                       ~a8[1] /\ ~a9[1] /\ ~a10[1] /\ ~a11[1] /\ ~a12[1] /\ ~a13[1]
    BY DEF Passes
<1>3. \A i \in DOMAIN g : Proper(g[i])
    OBVIOUS
<1> QED BY <1>1, <1>2, <1>3 DEF Named

\* The lists of the decision.
LEMMA EarlyList ==
    ASSUME NEW m, NEW c, NEW met, NEW mode
    PROVE  LET g == EarlyGates(m, c, met, mode)
           IN  /\ Named(g)
               /\ Passes(g) <=> ~g[1][1] /\ ~g[2][1] /\ ~g[3][1] /\ ~g[4][1] /\ ~g[5][1] /\
                                  ~g[6][1] /\ ~g[7][1] /\ ~g[8][1] /\ ~g[9][1] /\
                                  ~g[10][1] /\ ~g[11][1] /\ ~g[12][1] /\ ~g[13][1]
<1> DEFINE g == EarlyGates(m, c, met, mode)
<1>1. Proper(g[1]) /\ Proper(g[2]) /\ Proper(g[3]) /\ Proper(g[4]) /\ Proper(g[5]) /\
      Proper(g[6]) /\ Proper(g[7]) /\ Proper(g[8]) /\ Proper(g[9]) /\ Proper(g[10]) /\
      Proper(g[11]) /\ Proper(g[12]) /\ Proper(g[13])
    BY DEF Proper, EarlyGates
<1>2. g = <<g[1], g[2], g[3], g[4], g[5], g[6], g[7], g[8], g[9], g[10], g[11], g[12], g[13]>>
    BY DEF EarlyGates
<1> HIDE DEF g
<1> QED BY <1>1, <1>2, ThirteenGates DEF g

LEMMA LateList ==
    ASSUME NEW m, NEW c, NEW mode
    PROVE  LET g == LateGates(m, c, mode)
           IN  /\ Named(g)
               /\ Passes(g) <=> ~g[1][1] /\ ~g[2][1] /\ ~g[3][1] /\ ~g[4][1] /\ ~g[5][1]
<1> DEFINE g == LateGates(m, c, mode)
<1>1. Proper(g[1]) /\ Proper(g[2]) /\ Proper(g[3]) /\ Proper(g[4]) /\ Proper(g[5])
    BY DEF Proper, LateGates
<1>2. g = <<g[1], g[2], g[3], g[4], g[5]>>
    BY DEF LateGates
<1> HIDE DEF g
<1> QED BY <1>1, <1>2, FiveGates DEF g

LEMMA BookList ==
    ASSUME NEW m, NEW c
    PROVE  LET g == MicrostructureGates(m, c)
           IN  /\ Named(g)
               /\ Passes(g) <=> ~g[1][1] /\ ~g[2][1] /\ ~g[3][1] /\ ~g[4][1] /\ ~g[5][1] /\
                                  ~g[6][1] /\ ~g[7][1]
<1> DEFINE g == MicrostructureGates(m, c)
<1>1. Proper(g[1]) /\ Proper(g[2]) /\ Proper(g[3]) /\ Proper(g[4]) /\ Proper(g[5]) /\
      Proper(g[6]) /\ Proper(g[7])
    BY DEF Proper, MicrostructureGates
<1>2. g = <<g[1], g[2], g[3], g[4], g[5], g[6], g[7]>>
    BY DEF MicrostructureGates
<1> HIDE DEF g
<1> QED BY <1>1, <1>2, SevenGates DEF g

LEMMA CostList ==
    ASSUME NEW m, NEW c, NEW met, NEW live
    PROVE  LET g == CostGates(m, c, met, live)
           IN  /\ Named(g)
               /\ Passes(g) <=> ~g[1][1] /\ ~g[2][1] /\ ~g[3][1] /\ ~g[4][1] /\ ~g[5][1] /\
                                  ~g[6][1] /\ ~g[7][1] /\ ~g[8][1] /\ ~g[9][1] /\ ~g[10][1]
<1> DEFINE g == CostGates(m, c, met, live)
<1>1. Proper(g[1]) /\ Proper(g[2]) /\ Proper(g[3]) /\ Proper(g[4]) /\ Proper(g[5]) /\
      Proper(g[6]) /\ Proper(g[7]) /\ Proper(g[8]) /\ Proper(g[9]) /\ Proper(g[10])
    BY DEF Proper, CostGates
<1>2. g = <<g[1], g[2], g[3], g[4], g[5], g[6], g[7], g[8], g[9], g[10]>>
    BY DEF CostGates
<1> HIDE DEF g
<1> QED BY <1>1, <1>2, TenGates DEF g

LEMMA StageList ==
    ASSUME NEW m, NEW mode, NEW size
    PROVE  LET g == Checked(m, mode, size)
           IN  /\ Named(g)
               /\ Passes(g) <=> ~g[1][1] /\ ~g[2][1] /\ ~g[3][1] /\ ~g[4][1]
<1> DEFINE g == Checked(m, mode, size)
<1>1. Proper(g[1]) /\ Proper(g[2]) /\ Proper(g[3]) /\ Proper(g[4])
    BY DEF Proper, Checked
<1>2. g = <<g[1], g[2], g[3], g[4]>>
    BY DEF Checked
<1> HIDE DEF g
<1> QED BY <1>1, <1>2, FourGates DEF g

LEMMA QualityMeans ==
    ASSUME NEW m, NEW c, NEW met, NEW mode
    PROVE  LET dist == StopDistance(m, met, mode)
           IN  Clean(Quality(m, c, met, mode).why) =>
                 /\ ~m.chop
                 /\ ~Over(QualityRate(m, c, "slip"), MaxSlip)
                 /\ ~Over(QualityRate(m, c, "spread"), MaxSpread)
                 /\ ~Under(m.atr, MinATR) /\ ~Over(m.atr, MaxATR)
                 /\ dist.d # 0 /\ ~(dist.d > 0 /\ dist.n < MinStop * dist.d)
                 /\ ~(IsWide(dist) /\ StopTooWide(m, met, mode, dist))
<1> SUFFICES ASSUME Clean(Quality(m, c, met, mode).why)
             PROVE  LET dist == StopDistance(m, met, mode)
                    IN  /\ ~m.chop
                        /\ ~Over(QualityRate(m, c, "slip"), MaxSlip)
                        /\ ~Over(QualityRate(m, c, "spread"), MaxSpread)
                        /\ ~Under(m.atr, MinATR) /\ ~Over(m.atr, MaxATR)
                        /\ dist.d # 0 /\ ~(dist.d > 0 /\ dist.n < MinStop * dist.d)
                        /\ ~(IsWide(dist) /\ StopTooWide(m, met, mode, dist))
    OBVIOUS
<1> DEFINE early == EarlyGates(m, c, met, mode)
           late == LateGates(m, c, mode)
<1>1. Named(early) /\ Named(late)
    BY EarlyList, LateList
<1>2. Clean(FirstOf(early \o late))
    BY DEF Quality
<1>3. Passes(early) /\ Passes(late)
    BY <1>1, <1>2, NoneNamed, OneAfterTheOther
<1>4. /\ ~early[6][1] /\ ~early[10][1] /\ ~early[11][1] /\ ~early[12][1] /\ ~early[13][1]
      /\ ~late[1][1] /\ ~late[3][1] /\ ~late[4][1]
    BY <1>3, EarlyList, LateList
<1>5. LET dist == StopDistance(m, met, mode)
      IN  /\ ~m.chop
          /\ ~Over(QualityRate(m, c, "slip"), MaxSlip)
          /\ dist.d # 0 /\ ~(dist.d > 0 /\ dist.n < MinStop * dist.d)
          /\ ~(IsWide(dist) /\ StopTooWide(m, met, mode, dist))
    BY <1>4 DEF EarlyGates
<1>6. /\ ~Over(QualityRate(m, c, "spread"), MaxSpread)
      /\ ~Under(m.atr, MinATR) /\ ~Over(m.atr, MaxATR)
    BY <1>4 DEF LateGates
<1> QED BY <1>5, <1>6

LEMMA SafetyLists ==
    ASSUME NEW m, NEW c, NEW met, NEW live
    PROVE  LET gates == SafetyGates(m, c, met, live)
           IN  Clean(FirstOf(gates)) <=>
                 /\ live => Passes(MicrostructureGates(m, c))
                 /\ Passes(CostGates(m, c, met, live))
<1> DEFINE none == << >>
<1>1. Named(none) /\ Passes(none)
  <2>1. none \in Seq({}) /\ DOMAIN none = {}
      OBVIOUS
  <2> QED BY <2>1 DEF Named, Passes
<1>2. Named(MicrostructureGates(m, c)) /\ Named(CostGates(m, c, met, live))
    BY BookList, CostList
<1> HIDE DEF none
<1>3. SafetyGates(m, c, met, live) =
        (IF live THEN MicrostructureGates(m, c) ELSE none) \o CostGates(m, c, met, live)
    BY DEF SafetyGates, none
<1> DEFINE book == MicrostructureGates(m, c)
           cost == CostGates(m, c, met, live)
           gates == SafetyGates(m, c, met, live)
<1>4. ASSUME live PROVE Clean(FirstOf(gates)) <=> Passes(book) /\ Passes(cost)
  <2>1. gates = book \o cost
      BY <1>3, <1>4
  <2> HIDE DEF book, cost, gates
  <2>2. Named(gates) /\ (Passes(gates) <=> Passes(book) /\ Passes(cost))
      BY <1>2, <2>1, OneAfterTheOther DEF book, cost
  <2> QED BY <2>2, NoneNamed
<1>5. ASSUME ~live PROVE Clean(FirstOf(gates)) <=> Passes(cost)
  <2>1. gates = none \o cost
      BY <1>3, <1>5
  <2> HIDE DEF book, cost, gates
  <2>2. Named(gates) /\ (Passes(gates) <=> Passes(none) /\ Passes(cost))
      BY <1>1, <1>2, <2>1, OneAfterTheOther DEF cost
  <2> QED BY <1>1, <2>2, NoneNamed
<1> QED BY <1>4, <1>5

LEMMA SafetyMeans ==
    ASSUME NEW m, NEW c, NEW met, NEW mode, Clean(Safety(m, c, met, mode))
    PROVE  /\ \A f \in Fields \ {"vol"} : c[f].v # NaN
           /\ m.rejectUnknown =>
                \A f \in {"spread", "slip", "lat", "liq", "fund", "fee"} :
                  /\ c[f].v # None /\ c[f].st # "UNAVAILABLE"
                  /\ mode = "LIVE_PRECHECK" /\ f # "fee" => c[f].st = "MEASURED"
           /\ ~Under(c.liq.v, MinLiquidity)
           /\ ~PoorRR(met)
           /\ mode = "LIVE_PRECHECK" =>
                /\ \A f \in {"spread", "slip", "lat", "fund"} :
                     c[f].v = 0 /\ c[f].st = "MEASURED" => f \in m.verified
                /\ Number(c.ob.v) /\ Number(m.spoof)
                /\ Given(m.confirmed) /\ Given(m.absorbs) /\ Given(m.age)
                /\ ~Under(m.age, 0) /\ ~Over(m.age, MaxAge)
                /\ ~(Over(m.spoof, 79) /\ m.confirmed = 1)
                /\ ~Adverse(m, c.ob.v) /\ m.absorbs # 0
<1> DEFINE live == mode = "LIVE_PRECHECK"
           cost == CostGates(m, c, met, live)
           book == MicrostructureGates(m, c)
<1>1. Clean(FirstOf(SafetyGates(m, c, met, live)))
    BY DEF Safety, Clean
<1>2. (live => Passes(book)) /\ Passes(cost)
    BY <1>1, SafetyLists
<1>3. ~cost[1][1] /\ ~cost[2][1] /\ ~cost[6][1] /\ ~cost[10][1]
    BY <1>2, CostList
<1>4. /\ ~(m.rejectUnknown /\ Missing(m, c, live) # {}) /\ Corrupt(c) = {}
      /\ FakeZeros(m, c, live) = {} /\ ~Under(c.liq.v, MinLiquidity) /\ ~PoorRR(met)
    BY <1>3 DEF CostGates
<1>5. ASSUME live
      PROVE  /\ Number(c.ob.v) /\ Number(m.spoof)
             /\ Given(m.confirmed) /\ Given(m.absorbs) /\ Given(m.age)
             /\ ~Under(m.age, 0) /\ ~Over(m.age, MaxAge)
             /\ ~(Over(m.spoof, 79) /\ m.confirmed = 1)
             /\ ~Adverse(m, c.ob.v) /\ m.absorbs # 0
  <2>1. /\ ~book[2][1] /\ ~book[3][1] /\ ~book[4][1] /\ ~book[5][1] /\ ~book[6][1]
        /\ ~book[7][1]
      BY <1>2, <1>5, BookList
  <2> QED BY <2>1 DEF MicrostructureGates
<1>6. \A f \in Fields \ {"vol"} : c[f].v # NaN
    BY <1>4 DEF Corrupt
<1>7. ASSUME m.rejectUnknown
      PROVE  \A f \in {"spread", "slip", "lat", "liq", "fund", "fee"} :
               /\ c[f].v # None /\ c[f].st # "UNAVAILABLE"
               /\ live /\ f # "fee" => c[f].st = "MEASURED"
    BY <1>4, <1>7 DEF Missing, Critical
<1>8. live => \A f \in {"spread", "slip", "lat", "fund"} :
                c[f].v = 0 /\ c[f].st = "MEASURED" => f \in m.verified
    BY <1>4 DEF FakeZeros
<1> QED BY <1>4, <1>5, <1>6, <1>7, <1>8

-----------------------------------------------------------------------------
(* What a snapshot holds, and what its context makes of it.                 *)

Labels == {"DEFAULT", "ESTIMATE", "UNAVAILABLE", "MEASURED"}
Fed(m) ==
    /\ m.v \in [Fields -> Int] /\ m.st \in [Fields -> Labels]
    /\ m.quote \in Int
    /\ m.quote # Absent => m.quote >= -10000 /\ m.quote <= 10000
    /\ m.range \in Int
    /\ m.range # Absent => m.range >= 0 /\ m.range <= 10000
    /\ m.ack \in {None} \cup Nat
    /\ m.paperSlip \in Int
    /\ m.paperSlip # None => m.paperSlip >= -1 /\ m.paperSlip <= 500
Typed(m) ==
    /\ m.side \in {"LONG", "SHORT"} /\ m.stop \in Int /\ m.target \in Int
    /\ m.score \in Int /\ m.atr \in Int /\ m.spoof \in Int
    /\ m.absorbs \in {None, 0, 1} /\ m.age \in Int \ {NaN}
    /\ m.notional \in {None} \cup Nat /\ m.allocated \in {Absent} \cup Nat

\* Spreads and slippages are not negative, and a volatility regime is no number.
Plausible(m) ==
    /\ m.v["spread"] \in Nat \cup {Absent, None, NaN}
    /\ m.v["slip"] \in Nat \cup {Absent, None, NaN}
    /\ m.v["vol"] \in Nat \cup {Absent, None}

\* A rate above 5 % is read as percentage points, and so are limits above it
\* not kept; an effective RR of zero is every trade's.
ReadableLimits == MaxSlip <= 500 /\ MaxSpread <= 500 /\ MinEffRR > 0

\* A number is none of the marks, and the marks are told apart.
LEMMA Marks ==
    /\ \A x \in Int : x >= -10000 => /\ Given(x) /\ Number(x) /\ Or0(x) = x
                                     /\ x # NaN /\ x # Absent /\ x # None
    /\ ~Given(Absent) /\ ~Given(None) /\ Given(NaN)
    /\ ~Number(Absent) /\ ~Number(None) /\ ~Number(NaN)
    /\ Or0(Absent) = 0 /\ Or0(None) = 0 /\ Or0(NaN) = NaN
    /\ Absent # None /\ Absent # NaN /\ None # NaN
    /\ Absent \in Int /\ None \in Int /\ NaN \in Int
<1>1. Absent # None /\ Absent # NaN /\ None # NaN /\ Absent \in Int /\ None \in Int /\ NaN \in Int
    BY SMT DEF Absent, None, NaN
<1>2. \A x \in Int : x >= -10000 => x # NaN /\ x # Absent /\ x # None
    BY SMT DEF Absent, None, NaN
<1> QED BY <1>1, <1>2, SMT DEF Given, Number, Or0

LEMMA Sizes ==
    /\ \A x \in Nat : Magnitude(x) = x
    /\ \A x \in Int : x >= -10000 /\ x <= 10000 =>
                        Magnitude(x) \in Nat /\ Magnitude(x) <= 10000
    /\ Magnitude(NaN) = NaN
BY SMT DEF Magnitude, NaN

LEMMA Normal ==
    /\ \A x \in Nat : x <= 500 => NormalizePct(x) = x
    /\ NormalizePct(NaN) = NaN
    /\ \A x \in Int : x >= -10000 /\ x <= 10000 =>
         LET a == Magnitude(x)
         IN  /\ NormalizePct(x) \in Nat /\ NormalizePct(x) <= a
             /\ a <= 500 => NormalizePct(x) = a
<1>1. \A a \in Nat : a \div 100 \in Nat /\ a \div 100 <= a
    BY SMT
<1>2. ~(NaN > 500)
    BY SMT DEF NaN
<1> QED BY <1>1, <1>2, Sizes, SMT DEF NormalizePct

LEMMA SlipIsCharged ==
    ASSUME NEW m, Fed(m), Plausible(m), ReadableLimits,
           Context(m).slip.v # NaN, ~Over(QualityRate(m, Context(m), "slip"), MaxSlip)
    PROVE  /\ Context(m).slip.v = TrueSlip(m) /\ TrueSlip(m) \in Nat
           /\ TrueSlip(m) <= MaxSlip /\ m.v["slip"] # NaN
           /\ Context(m).slip.st # "UNAVAILABLE" =>
                /\ Given(m.v["slip"]) \/ Given(m.range)
                /\ m.st["slip"] # "UNAVAILABLE"
           /\ Context(m).slip.st = "MEASURED" => m.st["slip"] = "MEASURED"
           /\ Given(m.v["slip"]) /\ m.st["slip"] = "MEASURED" => Context(m).slip.st = "MEASURED"
<1> DEFINE x == m.v["slip"]
           e == SlippageEvidence(m)
<1>1. Context(m).slip = e
    BY DEF Context
<1>2. /\ m.range \in Int
      /\ m.range # Absent => m.range >= 0 /\ m.range <= 10000
    BY DEF Fed
<1>3. m.st["slip"] \in Labels
    BY DEF Fed, Fields
<1>4. x \in Nat \cup {Absent, None, NaN}
    BY DEF Plausible
<1>5. RangeSlippage(m) \in Nat /\ RangeSlippage(m) <= 500
  <2>1. CASE Given(m.range)
    <3>1. m.range \in Nat /\ m.range <= 10000
        BY <1>2, <2>1, Marks
    <3>2. (m.range * 5) \div 100 \in Nat /\ (m.range * 5) \div 100 <= 500
        BY <3>1, SMT
    <3> QED BY <2>1, <3>2, SMT DEF RangeSlippage, AtLeast
  <2>2. CASE ~Given(m.range)
      BY <2>2, SMT DEF RangeSlippage
  <2> QED BY <2>1, <2>2
<1>6. e.v = NormalizePct(IF x = Absent THEN RangeSlippage(m) ELSE Or0(x))
    BY DEF SlippageEvidence, Evidence
<1>7. /\ e.st # "UNAVAILABLE" => (Given(x) \/ Given(m.range)) /\ m.st["slip"] # "UNAVAILABLE"
      /\ e.st = "MEASURED" => m.st["slip"] = "MEASURED"
      /\ Given(x) /\ m.st["slip"] = "MEASURED" => e.st = "MEASURED"
    BY <1>3 DEF SlippageEvidence, Evidence, Labelled, Labels
<1>8. MaxSlip \in Nat /\ MaxSlip <= 500
    BY DecisionAssumption DEF ReadableLimits
<1>9. e.v = TrueSlip(m) /\ TrueSlip(m) \in Nat /\ TrueSlip(m) <= MaxSlip /\ x # NaN
  <2>1. CASE x = Absent
    <3>1. e.v = RangeSlippage(m)
        BY <1>5, <1>6, <2>1, Normal
    <3>2. QualityRate(m, Context(m), "slip") = RangeSlippage(m)
        BY <1>1, <1>5, <2>1, <3>1, Marks DEF QualityRate
    <3>3. RangeSlippage(m) <= MaxSlip
        BY <1>5, <1>8, <3>2, Marks DEF Over
    <3> QED BY <1>5, <2>1, <3>1, <3>3, Marks DEF TrueSlip
  <2>2. CASE x = None
    <3>1. e.v = 0
        BY <1>6, <2>2, Marks, Normal
    <3> QED BY <1>8, <2>2, <3>1, Marks DEF TrueSlip
  <2>3. CASE x = NaN
      BY <1>1, <1>6, <2>3, Marks, Normal
  <2>4. CASE x \in Nat
    <3>1. Number(x) /\ Given(x) /\ x # Absent /\ x # NaN /\ Or0(x) = x
        BY <2>4, Marks
    <3>2. QualityRate(m, Context(m), "slip") = x
        BY <3>1 DEF QualityRate
    <3>3. x <= MaxSlip
        BY <1>8, <2>4, <3>1, <3>2 DEF Over
    <3>4. e.v = x
        BY <1>6, <1>8, <2>4, <3>1, <3>3, Normal
    <3> QED BY <2>4, <3>1, <3>3, <3>4 DEF TrueSlip
  <2> QED BY <1>4, <2>1, <2>2, <2>3, <2>4
<1> QED BY <1>1, <1>7, <1>9

\* The spread: what is known of it is charged, and within its limit.
LEMMA SpreadIsCharged ==
    ASSUME NEW m, Fed(m), Plausible(m), ReadableLimits,
           Context(m).spread.v # NaN, ~Over(QualityRate(m, Context(m), "spread"), MaxSpread)
    PROVE  LET x == Context(m).spread
           IN  /\ Or0(x.v) \in Nat
               /\ Charged(m, "spread", IF Misread(m) THEN 0 ELSE TrueSpread(m)) \in Nat
               /\ Charged(m, "spread", IF Misread(m) THEN 0 ELSE TrueSpread(m)) <= Or0(x.v)
               /\ ~Over(m.v["spread"], MaxSpread)
               /\ Knows(m, "spread") => Misread(m) \/ TrueSpread(m) <= MaxSpread
               /\ m.v["spread"] = NaN => m.st["spread"] = "UNAVAILABLE"
               /\ x.v # None /\ x.st # "UNAVAILABLE" => Knows(m, "spread")
<1> DEFINE x == m.v["spread"]
           e == SpreadEvidence(m)
<1>1. Context(m).spread = e
    BY DEF Context
<1>2. /\ m.quote \in Int
      /\ m.quote # Absent => m.quote >= -10000 /\ m.quote <= 10000
    BY DEF Fed
<1>3. x \in Nat \cup {Absent, None, NaN}
    BY DEF Plausible
<1>4. MaxSpread \in Nat /\ MaxSpread <= 500
    BY DecisionAssumption DEF ReadableLimits
<1>5. CASE ~((Given(x) \/ Given(m.quote)) /\ RawSpread(m) # None)
  <2>1. e.v = None /\ e.st = "UNAVAILABLE"
      BY <1>5 DEF SpreadEvidence, Evidence
  <2>2. ~Number(x) /\ x # NaN
      BY <1>3, <1>5, Marks DEF RawSpread
  <2>3. ~Knows(m, "spread")
      BY <1>2, <1>5, <2>2, Marks DEF Knows, RawSpread
  <2> QED BY <1>1, <2>1, <2>2, <2>3, Marks DEF Charged, Over
<1>6. CASE (Given(x) \/ Given(m.quote)) /\ RawSpread(m) # None /\ m.st["spread"] = "UNAVAILABLE"
  <2>1. e.v = None /\ e.st = "UNAVAILABLE"
      BY <1>6 DEF SpreadEvidence, Evidence, Labelled
  <2>2. ~Knows(m, "spread")
      BY <1>6 DEF Knows
  <2>3. ~Over(x, MaxSpread)
      BY DEF QualityRate, Over, Number
  <2> QED BY <1>1, <1>6, <2>1, <2>2, <2>3, Marks DEF Charged
<1>7. CASE (Given(x) \/ Given(m.quote)) /\ RawSpread(m) # None /\ m.st["spread"] # "UNAVAILABLE"
  <2>1. e.v = NormalizePct(RawSpread(m))
      BY <1>7 DEF SpreadEvidence, Evidence, Labelled
  <2>2. CASE x \in Nat
    <3>1. Number(x) /\ Given(x) /\ x # Absent /\ x # NaN /\ Or0(x) = x
        BY <2>2, Marks
    <3>2. x <= MaxSpread /\ ~Over(x, MaxSpread)
        BY <1>4, <2>2, <3>1 DEF QualityRate, Over
    <3>3. RawSpread(m) = x
        BY <3>1 DEF RawSpread
    <3>4. e.v = x
        BY <1>4, <2>1, <2>2, <3>2, <3>3, Normal
    <3>5. TrueSpread(m) = x /\ Knows(m, "spread") /\ ~Misread(m)
        BY <1>7, <3>1 DEF TrueSpread, Knows, Misread
    <3> QED BY <1>1, <2>2, <3>1, <3>2, <3>4, <3>5 DEF Charged
  <2>3. CASE x = Absent
    <3>1. ~Number(x) /\ x # NaN /\ ~Given(x)
        BY <2>3, Marks
    <3>2. Given(m.quote) /\ m.quote \in Int /\ m.quote >= -10000 /\ m.quote <= 10000
        BY <1>2, <1>7, <3>1, Marks
    <3>3. RawSpread(m) = m.quote /\ Number(m.quote)
        BY <2>3, <3>2, Marks DEF RawSpread
    <3>4. TrueSpread(m) = Magnitude(m.quote) /\ TrueSpread(m) \in Nat
        BY <3>1, <3>2, Sizes DEF TrueSpread
    <3>5. Knows(m, "spread") /\ (Misread(m) <=> TrueSpread(m) > 500)
        BY <1>7, <2>3, <3>1, <3>2, <3>4, Marks DEF Knows, Misread, Over
    <3>6. /\ e.v \in Nat /\ e.v <= TrueSpread(m) /\ Or0(e.v) = e.v /\ Number(e.v)
          /\ TrueSpread(m) <= 500 => e.v = TrueSpread(m)
        BY <2>1, <3>2, <3>3, <3>4, Normal, Marks
    <3>7. e.v <= MaxSpread
        BY <1>1, <1>4, <3>1, <3>6 DEF QualityRate, Over
    <3>8. ~Over(x, MaxSpread)
        BY <3>1 DEF Over
    <3> QED BY <1>1, <1>4, <3>1, <3>4, <3>5, <3>6, <3>7, <3>8 DEF Charged
  <2>4. CASE x = NaN
      BY <1>1, <2>1, <2>4, Marks, Normal DEF RawSpread
  <2>5. CASE x = None
      BY <1>7, <2>5, Marks DEF RawSpread
  <2> QED BY <1>3, <2>2, <2>3, <2>4, <2>5
<1> QED BY <1>5, <1>6, <1>7


LEMMA LatencyIsCharged ==
    ASSUME NEW m, Fed(m), Context(m).lat.v # NaN
    PROVE  /\ Or0(Context(m).lat.v) = TrueLatency(m) /\ TrueLatency(m) \in Nat
           /\ Context(m).lat.v # None /\ Context(m).lat.st # "UNAVAILABLE" =>
                Given(m.ack) \/ Knows(m, "lat")
           /\ Context(m).lat.st = "MEASURED" => m.st["lat"] = "MEASURED" \/ Given(m.ack)
<1> DEFINE x == m.v["lat"]
           e == LatencyEvidence(m)
<1>1. Context(m).lat = e
    BY DEF Context
<1>2. x \in Int /\ m.st["lat"] \in Labels /\ m.ack \in {None} \cup Nat
    BY DEF Fed, Fields
<1>3. CASE Given(m.ack)
  <2>1. m.ack \in Nat
      BY <1>2, <1>3, Marks
  <2>2. e.v = m.ack
      BY <1>3, <2>1, Marks DEF LatencyEvidence, Evidence, AtLeast
  <2>3. TrueLatency(m) = m.ack
      BY <1>3, <2>1, Marks DEF TrueLatency, AtLeast
  <2> QED BY <1>1, <1>3, <2>1, <2>2, <2>3, Marks
<1>4. CASE ~Given(m.ack)
  <2>1. e.v = AtLeast(Known(x), 0)
      BY <1>4 DEF LatencyEvidence, Evidence
  <2>2. e.st = Labelled(m, "lat", IF Given(x) THEN "ESTIMATE" ELSE "UNAVAILABLE")
      BY <1>4 DEF LatencyEvidence, Evidence
  <2>3. TrueLatency(m) = AtLeast(Or0(x), 0)
      BY <1>4 DEF TrueLatency
  <2>4. CASE ~Given(x)
    <3>1. e.v = None /\ TrueLatency(m) = 0
        BY <2>1, <2>3, <2>4, Marks DEF Known, AtLeast, Or0, Given
    <3> QED BY <1>1, <1>2, <2>2, <2>4, <3>1, Marks DEF Labelled, Labels
  <2>5. CASE x = NaN
      BY <1>1, <2>1, <2>5, Marks DEF Known, AtLeast
  <2>6. CASE Number(x)
    <3>1. Given(x) /\ x # Absent /\ x # None /\ Or0(x) = x /\ Known(x) = x
        BY <2>6, Marks DEF Number, Given, Or0, Known
    <3>2. e.v = AtLeast(x, 0) /\ TrueLatency(m) = AtLeast(x, 0)
        BY <2>1, <2>3, <3>1
    <3>3. AtLeast(x, 0) \in Nat
        BY <1>2, <2>6 DEF AtLeast
    <3>4. e.st = "MEASURED" => m.st["lat"] = "MEASURED"
        BY <2>2, <3>1 DEF Labelled
    <3>5. e.st # "UNAVAILABLE" => Knows(m, "lat")
        BY <1>2, <2>2, <2>6, <3>1 DEF Labelled, Labels, Knows
    <3> QED BY <1>1, <3>2, <3>3, <3>4, <3>5, Marks
  <2> QED BY <2>4, <2>5, <2>6 DEF Number
<1> QED BY <1>3, <1>4

LEMMA FeeIsCharged ==
    ASSUME NEW m, Fed(m), Context(m).fee.v # NaN
    PROVE  /\ Or0(Context(m).fee.v) = Charged(m, "fee", AtLeast(m.v["fee"], 0))
           /\ Or0(Context(m).fee.v) \in Nat
           /\ m.v["fee"] = NaN => m.st["fee"] = "UNAVAILABLE"
           /\ Context(m).fee.v # None => Knows(m, "fee")
<1> DEFINE x == m.v["fee"]
           e == FeeEvidence(m)
           status == Labelled(m, "fee", IF Given(x) THEN "CONFIGURED" ELSE "UNAVAILABLE")
<1>1. Context(m).fee = e
    BY DEF Context
<1>2. x \in Int /\ m.st["fee"] \in Labels
    BY DEF Fed, Fields
<1>3. e.v = IF ~Given(x) \/ Under(x, 0) \/ status = "UNAVAILABLE" THEN None ELSE x
    BY DEF FeeEvidence, Evidence
<1>4. CASE ~Given(x)
    BY <1>1, <1>3, <1>4, Marks DEF Charged, Knows, Number
<1>5. CASE x = NaN
  <2>1. m.st["fee"] = "UNAVAILABLE"
      BY <1>1, <1>2, <1>3, <1>5, Marks DEF Under, Labelled, Labels
  <2>2. e.v = None
      BY <1>3, <1>5, <2>1, Marks DEF Labelled
  <2> QED BY <1>1, <2>1, <2>2, Marks DEF Charged, Knows
<1>6. CASE Number(x)
  <2>1. Given(x) /\ x # NaN /\ Or0(x) = x
      BY <1>6 DEF Number, Or0
  <2>2. status = "UNAVAILABLE" <=> m.st["fee"] = "UNAVAILABLE"
      BY <1>2, <2>1 DEF Labelled, Labels
  <2>3. Knows(m, "fee") <=> m.st["fee"] # "UNAVAILABLE"
      BY <1>6 DEF Knows
  <2>4. CASE m.st["fee"] = "UNAVAILABLE"
    <3>1. e.v = None
        BY <1>3, <2>2, <2>4
    <3> QED BY <1>1, <2>1, <2>3, <2>4, <3>1, Marks DEF Charged
  <2>5. CASE m.st["fee"] # "UNAVAILABLE" /\ x < 0
    <3>1. e.v = None
        BY <1>3, <1>6, <2>5 DEF Under
    <3>2. AtLeast(x, 0) = 0
        BY <1>6, <2>5 DEF AtLeast
    <3> QED BY <1>1, <2>1, <2>3, <2>5, <3>1, <3>2, Marks DEF Charged
  <2>6. CASE m.st["fee"] # "UNAVAILABLE" /\ ~(x < 0)
    <3>1. e.v = x
        BY <1>3, <2>1, <2>2, <2>6 DEF Under
    <3>2. AtLeast(x, 0) = x /\ x \in Nat
        BY <1>2, <2>6 DEF AtLeast
    <3> QED BY <1>1, <2>1, <2>3, <2>6, <3>1, <3>2 DEF Charged
  <2> QED BY <2>4, <2>5, <2>6
<1> QED BY <1>4, <1>5, <1>6 DEF Number

LEMMA FundingIsCharged ==
    ASSUME NEW m, Fed(m), Context(m).fund.v # NaN
    PROVE  /\ Magnitude(Or0(Context(m).fund.v)) = Magnitude(Or0(m.v["fund"]))
           /\ Magnitude(Or0(Context(m).fund.v)) \in Nat
           /\ m.v["fund"] # NaN
           /\ Context(m).fund.v # None /\ Context(m).fund.st # "UNAVAILABLE" => Knows(m, "fund")
           /\ Context(m).fund.st = "MEASURED" => m.st["fund"] \in {"MEASURED", "DEFAULT"}
<1> DEFINE x == m.v["fund"]
           e == FundingEvidence(m)
<1>1. Context(m).fund = e
    BY DEF Context
<1>2. x \in Int /\ m.st["fund"] \in Labels
    BY DEF Fed, Fields
<1>3. /\ e.v = Known(x)
      /\ e.st = Labelled(m, "fund", IF Given(x) THEN "MEASURED" ELSE "UNAVAILABLE")
    BY DEF FundingEvidence, Plainly, Evidence
<1>4. x # NaN /\ Or0(e.v) = Or0(x) /\ (e.v # None => Number(x))
    BY <1>1, <1>3, Marks DEF Known, Or0, Given, Number
<1>5. Or0(x) \in Int /\ Or0(x) # NaN
    BY <1>2, <1>4, Marks DEF Or0
<1>6. Magnitude(Or0(x)) \in Nat
    BY <1>5, SMT DEF Magnitude
<1>7. e.st = "MEASURED" => m.st["fund"] \in {"MEASURED", "DEFAULT"}
    BY <1>3 DEF Labelled
<1>8. e.v # None /\ e.st # "UNAVAILABLE" => Knows(m, "fund")
    BY <1>2, <1>3, <1>4 DEF Knows, Labelled, Labels, Number
<1> QED BY <1>1, <1>4, <1>6, <1>7, <1>8

LEMMA LiquidityIsCharged ==
    ASSUME NEW m, Fed(m), Context(m).liq.v # NaN
    PROVE  LET e == Context(m).liq
               charge == IF Given(e.v) THEN (100 - e.v) * 120 ELSE 0
           IN  /\ charge = 120 * Charged(m, "liq", 100 - TrueLiquidity(m))
               /\ charge \in Nat
               /\ m.v["liq"] = NaN => m.st["liq"] = "UNAVAILABLE"
               /\ Knows(m, "liq") => TrueLiquidity(m) = e.v /\ Number(e.v)
               /\ e.v # None /\ e.st # "UNAVAILABLE" => Knows(m, "liq")
               /\ e.st = "MEASURED" => m.st["liq"] \in {"MEASURED", "DEFAULT"}
<1> DEFINE x == m.v["liq"]
           e == ClampedEvidence(m, "liq", 0, 100)
           status == Labelled(m, "liq", IF Given(x) THEN "MEASURED" ELSE "UNAVAILABLE")
<1>1. Context(m).liq = e
    BY DEF Context
<1>2. x \in Int /\ m.st["liq"] \in Labels
    BY DEF Fed, Fields
<1>3. /\ e.v = IF status = "UNAVAILABLE" THEN None ELSE AtLeast(AtMost(Known(x), 100), 0)
      /\ e.st = status
    BY DEF ClampedEvidence, Plainly, Evidence
<1>4. e.st = "MEASURED" => m.st["liq"] \in {"MEASURED", "DEFAULT"}
    BY <1>3 DEF Labelled
<1>5. CASE ~Given(x)
  <2>1. e.v = None
      BY <1>3, <1>5, Marks DEF AtLeast, AtMost, Known, Given
  <2>2. ~Knows(m, "liq") /\ x # NaN
      BY <1>5, Marks DEF Knows, Number
  <2> QED BY <1>1, <1>4, <2>1, <2>2, Marks DEF Charged
<1>6. CASE x = NaN
  <2>1. m.st["liq"] = "UNAVAILABLE"
      BY <1>1, <1>2, <1>3, <1>6, Marks DEF Labelled, Labels, AtLeast, AtMost, Known
  <2>2. e.v = None /\ ~Knows(m, "liq")
      BY <1>3, <2>1 DEF Labelled, Knows
  <2> QED BY <1>1, <1>4, <2>1, <2>2, Marks DEF Charged
<1>7. CASE Number(x)
  <2>1. Given(x) /\ x # NaN /\ Known(x) = x
      BY <1>7, Marks DEF Number, Given, Known
  <2>2. status = "UNAVAILABLE" <=> m.st["liq"] = "UNAVAILABLE"
      BY <1>2, <2>1 DEF Labelled, Labels
  <2>3. Knows(m, "liq") <=> m.st["liq"] # "UNAVAILABLE"
      BY <1>7 DEF Knows
  <2>4. Number(100)
      BY Marks
  <2>5. AtMost(x, 100) \in Int /\ AtMost(x, 100) <= 100 /\ Number(AtMost(x, 100))
      BY <1>2, <1>7, <2>4 DEF AtMost
  <2>6. TrueLiquidity(m) \in Nat /\ TrueLiquidity(m) <= 100
      BY <2>5 DEF TrueLiquidity, AtLeast
  <2>7. Number(TrueLiquidity(m)) /\ Given(TrueLiquidity(m)) /\ TrueLiquidity(m) # None
      BY <2>6, Marks
  <2>8. CASE m.st["liq"] = "UNAVAILABLE"
    <3>1. e.v = None
        BY <1>3, <2>2, <2>8
    <3> QED BY <1>1, <1>4, <2>1, <2>3, <2>8, <3>1, Marks DEF Charged
  <2>9. CASE m.st["liq"] # "UNAVAILABLE"
    <3>1. e.v = TrueLiquidity(m)
        BY <1>3, <2>1, <2>2, <2>9 DEF TrueLiquidity
    <3> QED BY <1>1, <1>4, <2>1, <2>3, <2>6, <2>7, <2>9, <3>1 DEF Charged
  <2> QED BY <2>8, <2>9
<1> QED BY <1>5, <1>6, <1>7 DEF Number

LEMMA RegimeIsCharged ==
    ASSUME NEW m, Fed(m), Plausible(m)
    PROVE  VolatilityPenalty(Context(m)) \in Nat
<1>1. Context(m).vol = VolatilityEvidence(m)
    BY DEF Context
<1>2. m.v["vol"] \in Nat \cup {Absent, None}
    BY DEF Plausible
<1>3. RangePenalty(m.range) \in Nat
    BY DEF RangePenalty
<1>4. VolatilityEvidence(m).v \in Nat \cup {None}
    BY <1>2, <1>3, Marks DEF VolatilityEvidence, Evidence, Given
<1> QED BY <1>1, <1>4 DEF VolatilityPenalty

LEMMA BookIsKept ==
    ASSUME NEW m, Fed(m)
    PROVE  LET x == Context(m).ob.v
           IN  /\ x # NaN => m.v["ob"] # NaN
               /\ Number(x) =>
                    /\ m.v["ob"] > -90 \/ x < -89
                    /\ m.v["ob"] < 90 \/ x > 89
<1> DEFINE x == m.v["ob"]
           e == ClampedEvidence(m, "ob", -100, 100)
<1>1. Context(m).ob = e
    BY DEF Context
<1>2. x \in Int
    BY DEF Fed, Fields
<1>3. e.v = AtLeast(AtMost(Known(x), 100), -100)
    BY DEF ClampedEvidence, Plainly, Evidence
<1>4. CASE ~Number(x)
  <2>1. e.v \in {NaN, None} /\ (x = NaN => e.v = NaN)
      BY <1>3, <1>4, Marks DEF AtLeast, AtMost, Known, Number, Given
  <2> QED BY <1>1, <2>1, Marks
<1>5. CASE Number(x)
  <2>1. Known(x) = x /\ x # NaN
      BY <1>5, Marks DEF Known, Number, Given
  <2>2. AtMost(x, 100) = IF x > 100 THEN 100 ELSE x
      BY <1>5, <2>1 DEF AtMost
  <2>3. e.v = IF x > 100 THEN 100 ELSE IF x < -100 THEN -100 ELSE x
      BY <1>2, <1>3, <1>5, <2>1, <2>2, Marks DEF AtLeast
  <2> QED BY <1>1, <1>2, <2>1, <2>3
<1> QED BY <1>4, <1>5


\* Everything that is known is charged: what a passing effective RR leaves.
NoNaN(c) == \A f \in Fields \ {"vol"} : c[f].v # NaN

LEMMA FillIsLate ==
    ASSUME NEW m, Fed(m), NEW mode, NEW c, ReadableLimits,
           c.slip.v = TrueSlip(m), TrueSlip(m) \in Nat, TrueSlip(m) <= MaxSlip
    PROVE  /\ FillSlippage(m, c, mode) = Late(m, mode)
           /\ Late(m, mode) \in Nat /\ Late(m, mode) <= 500 /\ Late(m, mode) # NaN
<1>1. MaxSlip \in Nat /\ MaxSlip <= 500
    BY DecisionAssumption DEF ReadableLimits
<1>2. CASE mode = "PAPER" /\ Given(m.paperSlip)
  <2>1. m.paperSlip \in Int /\ m.paperSlip >= -1 /\ m.paperSlip <= 500
      BY <1>2, Marks DEF Fed
  <2>2. AtLeast(m.paperSlip, 0) \in Nat /\ AtLeast(m.paperSlip, 0) <= 500
      BY <2>1, Marks DEF AtLeast
  <2> QED BY <1>2, <2>2, Marks DEF FillSlippage, Late
<1>3. CASE ~(mode = "PAPER" /\ Given(m.paperSlip))
    BY <1>1, <1>3, Marks DEF FillSlippage, Late
<1> QED BY <1>2, <1>3

LEMMA RestIsCharged ==
    ASSUME NEW m, Fed(m), Plausible(m), ReadableLimits, NoNaN(Context(m)),
           ~Over(QualityRate(m, Context(m), "slip"), MaxSlip),
           ~Over(QualityRate(m, Context(m), "spread"), MaxSpread)
    PROVE  /\ RemainingPenalty(Context(m), TRUE) \in Nat /\ Rest(m) \in Nat
           /\ RemainingPenalty(Context(m), TRUE) >= Rest(m)
<1> DEFINE c == Context(m)
           spread == Or0(c.spread.v)
           spread0 == Charged(m, "spread", IF Misread(m) THEN 0 ELSE TrueSpread(m))
           lat == Or0(c.lat.v)
           fee == Or0(c.fee.v)
           fund == Magnitude(Or0(c.fund.v))
           liq == IF Given(c.liq.v) THEN (100 - c.liq.v) * 120 ELSE 0
           liq0 == Charged(m, "liq", 100 - TrueLiquidity(m))
           vol == VolatilityPenalty(c)
<1> HIDE DEF c
<1>1. /\ c.spread.v # NaN /\ c.slip.v # NaN /\ c.lat.v # NaN /\ c.fee.v # NaN
      /\ c.fund.v # NaN /\ c.liq.v # NaN
    BY DEF NoNaN, Fields, c
<1>2. spread \in Nat /\ spread0 \in Nat /\ spread0 <= spread
    BY <1>1, SpreadIsCharged DEF c
<1>3. c.slip.v = TrueSlip(m) /\ TrueSlip(m) \in Nat
    BY <1>1, SlipIsCharged DEF c
<1>4. lat = TrueLatency(m) /\ lat \in Nat
    BY <1>1, LatencyIsCharged DEF c
<1>5. fee = Charged(m, "fee", AtLeast(m.v["fee"], 0)) /\ fee \in Nat
    BY <1>1, FeeIsCharged DEF c
<1>6. fund = Magnitude(Or0(m.v["fund"])) /\ fund \in Nat
    BY <1>1, FundingIsCharged DEF c
<1>7. liq = 120 * liq0 /\ liq \in Nat
    BY <1>1, LiquidityIsCharged DEF c
<1>8. vol \in Nat
    BY RegimeIsCharged DEF c
<1>9. TotalPenalty(c) =
        50 * spread + 60 * TrueSlip(m) + 4 * lat + 20 * fee + 5 * fund + liq + vol
    BY <1>3 DEF TotalPenalty
<1>10. RemainingPenalty(c, TRUE) = TotalPenalty(c) - 30 * TrueSlip(m)
    BY <1>3 DEF RemainingPenalty
<1>11. Rest(m) = 50 * spread0 + 30 * TrueSlip(m) + 4 * lat + 20 * fee + 5 * fund + liq
    BY <1>4, <1>5, <1>6, <1>7 DEF Rest
<1> HIDE DEF spread, spread0, lat, fee, fund, liq, liq0, vol
<1> DEFINE s == 50 * spread
           s0 == 50 * spread0
           p == 30 * TrueSlip(m)
           l == 4 * lat
           f == 20 * fee
           u == 5 * fund
<1>12. /\ s \in Nat /\ s0 \in Nat /\ s0 <= s /\ p \in Nat /\ l \in Nat /\ f \in Nat /\ u \in Nat
       /\ 60 * TrueSlip(m) = p + p
    BY <1>2, <1>3, <1>4, <1>5, <1>6, SMT
<1> DEFINE same == l + f + u + liq
<1>13. /\ TotalPenalty(c) = s + (p + p) + same + vol
       /\ RemainingPenalty(c, TRUE) = (s + (p + p) + same + vol) - p
       /\ Rest(m) = s0 + p + same
  <2> HIDE DEF spread, spread0, lat, fee, fund, liq, liq0, vol
  <2>1. s + (p + p) + l + f + u + liq + vol = s + (p + p) + same + vol
      BY <1>7, <1>8, <1>12, SMT
  <2>2. s0 + p + l + f + u + liq = s0 + p + same
      BY <1>7, <1>12, SMT
  <2> QED BY <1>9, <1>10, <1>11, <1>12, <2>1, <2>2
<1>14. same \in Nat
    BY <1>7, <1>12
<1> HIDE DEF s, s0, p, l, f, u, same
<1>15. (s + (p + p) + same + vol) - p = s + p + same + vol
    BY <1>8, <1>12, <1>14, SMT
<1>16. s + p + same + vol \in Nat /\ s0 + p + same \in Nat /\ s + p + same + vol >= s0 + p + same
    BY <1>8, <1>12, <1>14, SMT
<1> QED BY <1>13, <1>15, <1>16 DEF c

\* A product keeps the order of its first factor.
LEMMA Products ==
    ASSUME NEW a \in Nat, NEW b \in Nat, NEW k \in Nat, a >= b
    PROVE  a * k \in Nat /\ b * k \in Nat /\ a * k >= b * k
<1>1. (a - b) * k \in Nat /\ a * k \in Nat /\ b * k \in Nat
    BY SMT
<1>2. a * k = (a - b) * k + b * k
    BY SMT
<1> QED BY <1>1, <1>2, SMT

LEMMA StillPays ==
    ASSUME NEW m, Fed(m), Plausible(m), ReadableLimits, NEW mode,
           m.side \in {"LONG", "SHORT"}, m.stop \in Int, m.target \in Int,
           NoNaN(Context(m)),
           ~Over(QualityRate(m, Context(m), "slip"), MaxSlip),
           ~Over(QualityRate(m, Context(m), "spread"), MaxSpread),
           ~PoorRR(Metrics(m, Context(m), mode))
    PROVE  /\ Pays(m, mode)
           /\ Metrics(m, Context(m), mode).fill = Fill(m, Late(m, mode))
<1> DEFINE c == Context(m)
           late == Late(m, mode)
           met == Metrics(m, c, mode)
           rem == RemainingPenalty(c, TRUE)
           risk == m.stop + late
           reward == m.target - late
           gross == Executable(m, Fill(m, late))
<1> HIDE DEF c
<1>1. c.slip.v = TrueSlip(m) /\ TrueSlip(m) \in Nat /\ TrueSlip(m) <= MaxSlip
    BY SlipIsCharged DEF NoNaN, Fields, c
<1>2. FillSlippage(m, c, mode) = late /\ late \in Nat /\ late # NaN
    BY <1>1, FillIsLate
<1>3. rem \in Nat /\ Rest(m) \in Nat /\ rem >= Rest(m)
    BY RestIsCharged DEF c
<1> HIDE DEF late, rem
<1>4. /\ met.fill = Fill(m, late)
      /\ met.nan = (NotNumbers(c) # {})
      /\ met.n = IF NotNumbers(c) # {} THEN 0 ELSE AtLeast(gross.n - rem * gross.d, 0)
      /\ met.d = gross.d
    BY <1>2 DEF Metrics, rem
<1>5. gross = IF risk <= 0 \/ reward <= 0 THEN [n |-> 0, d |-> 1]
              ELSE [n |-> reward * RR, d |-> risk]
  <2> DEFINE sign == IF m.side = "LONG" THEN 1 ELSE -1
             lost == sign * (Fill(m, late) - StopPrice(m))
             won == sign * (TargetPrice(m) - Fill(m, late))
  <2>1. gross = IF lost <= 0 \/ won <= 0 THEN [n |-> 0, d |-> 1]
                ELSE [n |-> won * RR, d |-> lost]
      BY DEF Executable
  <2>2. CASE m.side = "LONG"
    <3>1. sign = 1 /\ Fill(m, late) = Entry + late /\ StopPrice(m) = Entry - m.stop
          /\ TargetPrice(m) = Entry + m.target
        BY <2>2 DEF Fill, StopPrice, TargetPrice
    <3>2. /\ 1 * ((Entry + late) - (Entry - m.stop)) = risk
          /\ 1 * ((Entry + m.target) - (Entry + late)) = reward
        BY <1>2, SMT DEF Entry
    <3> HIDE DEF sign, risk, reward
    <3>3. lost = risk /\ won = reward
        BY <3>1, <3>2
    <3> HIDE DEF lost, won, gross
    <3> QED BY <2>1, <3>3
  <2>3. CASE m.side = "SHORT"
    <3>1. sign = -1 /\ Fill(m, late) = Entry - late /\ StopPrice(m) = Entry + m.stop
          /\ TargetPrice(m) = Entry - m.target
        BY <2>3 DEF Fill, StopPrice, TargetPrice
    <3>2. /\ (-1) * ((Entry - late) - (Entry + m.stop)) = risk
          /\ (-1) * ((Entry - m.target) - (Entry - late)) = reward
        BY <1>2, SMT DEF Entry
    <3> HIDE DEF sign, risk, reward
    <3>3. lost = risk /\ won = reward
        BY <3>1, <3>2
    <3> HIDE DEF lost, won, gross
    <3> QED BY <2>1, <3>3
  <2> QED BY <2>2, <2>3
<1>6. MinEffRR \in Nat /\ MinEffRR > 0
    BY DecisionAssumption DEF ReadableLimits
<1>7. ~met.nan /\ ~(met.n < MinEffRR * met.d)
    BY DEF PoorRR, BelowRR, c
<1>8. met.n = AtLeast(gross.n - rem * gross.d, 0)
    BY <1>4, <1>7
<1>9. risk \in Int /\ reward \in Int
    BY <1>2
<1> HIDE DEF met, gross, risk, reward
<1>10. risk > 0 /\ reward > 0
  <2>1. SUFFICES ASSUME risk <= 0 \/ reward <= 0 PROVE FALSE
      BY <1>9
  <2>2. gross.n = 0 /\ gross.d = 1
      BY <1>5, <2>1
  <2>3. met.n = AtLeast(0 - rem, 0) /\ met.d = 1
      BY <1>3, <1>4, <1>8, <2>2
  <2>4. met.n \in Int /\ met.n <= 0
      BY <1>3, <2>3 DEF AtLeast
  <2> QED BY <1>6, <1>7, <2>3, <2>4
<1>11. gross.n = reward * RR /\ gross.d = risk
    BY <1>5, <1>9, <1>10
<1>12. /\ reward * RR \in Nat /\ rem * risk \in Nat /\ Rest(m) * risk \in Nat
       /\ rem * risk >= Rest(m) * risk /\ MinEffRR * risk \in Nat /\ MinEffRR * risk > 0
  <2>1. risk \in Nat /\ reward \in Nat /\ RR \in Nat
      BY <1>9, <1>10 DEF RR
  <2>2. MinEffRR * risk >= 1 * risk
      BY <1>6, <2>1, Products
  <2> QED BY <1>3, <1>6, <1>10, <2>1, <2>2, Products
<1>13. met.n = AtLeast(reward * RR - rem * risk, 0) /\ met.d = risk
    BY <1>4, <1>8, <1>11
<1>14. reward * RR - rem * risk >= MinEffRR * risk
  <2> DEFINE left == reward * RR - rem * risk
             need == MinEffRR * risk
  <2>1. left \in Int /\ need \in Int /\ need > 0
      BY <1>12
  <2>2. met.n = AtLeast(left, 0) /\ ~(met.n < need)
      BY <1>7, <1>13
  <2> HIDE DEF left, need
  <2>3. left >= need
      BY <2>1, <2>2 DEF AtLeast
  <2> QED BY <2>3 DEF left, need
<1>15. (MinEffRR + Rest(m)) * risk = MinEffRR * risk + Rest(m) * risk
    BY <1>3, <1>6, <1>9, SMT
<1>16. reward * RR >= (MinEffRR + Rest(m)) * risk
    BY <1>12, <1>14, <1>15
<1> QED BY <1>4, <1>10, <1>16 DEF Pays, late, risk, reward, met, c


-----------------------------------------------------------------------------
(* The stop and the size.                                                   *)

LEMMA StopMeans ==
    ASSUME NEW m, NEW mode, NEW met, NEW size,
           m.side \in {"LONG", "SHORT"}, m.stop \in Int,
           Late(m, mode) \in Nat, Late(m, mode) <= 500, m.stop + Late(m, mode) > 0,
           met.fill = Fill(m, Late(m, mode)),
           LET dist == StopDistance(m, met, mode)
           IN  /\ dist.d # 0 /\ ~(dist.d > 0 /\ dist.n < MinStop * dist.d)
               /\ ~(IsWide(dist) /\ StopTooWide(m, met, mode, dist))
               /\ IsWide(dist) => size * 100 <= SoftScale * m.notional
    PROVE  StopIsBearable(m, mode, size)
<1> DEFINE late == Late(m, mode)
           from == IF m.side = "LONG" THEN Entry + late ELSE Entry - late
           gap == (m.stop + late) * 10000
           dist == StopDistance(m, met, mode)
<1>1. Fill(m, late) = from /\ from \in Int /\ from > 0 /\ from >= -10000
    BY DEF Fill, Entry
<1>2. dist.d = from /\ dist.n = Magnitude(from - StopPrice(m)) * 10000
    BY <1>1, Marks DEF StopDistance
<1>3. MinStop \in Nat /\ MaxStop \in Nat /\ MinStop * from \in Nat
  <2>1. MinStop \in Nat /\ MaxStop \in Nat /\ from \in Nat
      BY <1>1, DecisionAssumption
  <2> QED BY <2>1, Products
<1>4. gap = dist.n
  <2> DEFINE risk == m.stop + late
  <2>1. from - StopPrice(m) \in {risk, -risk} /\ risk \in Nat
      BY SMT DEF StopPrice, Entry
  <2>2. Magnitude(from - StopPrice(m)) \in {risk, NaN}
      BY <2>1, SMT DEF Magnitude
  <2>3. Magnitude(from - StopPrice(m)) # NaN
    <3>1. SUFFICES ASSUME Magnitude(from - StopPrice(m)) = NaN PROVE FALSE
        OBVIOUS
    <3>2. dist.n = NaN * 10000
        BY <1>2, <3>1
    <3>3. dist.n < 0
        BY <3>2, SMT DEF NaN
    <3>4. dist.d > 0 /\ dist.n < MinStop * dist.d
        BY <1>1, <1>2, <1>3, <3>2, <3>3, SMT DEF NaN
    <3> QED BY <3>4
  <2> QED BY <1>2, <2>2, <2>3
<1>5. gap >= MinStop * from
  <2>1. gap \in Int
      OBVIOUS
  <2> QED BY <1>1, <1>2, <1>3, <1>4, <2>1
<1>6. gap > MaxStop * from => IsWide(dist)
    BY <1>1, <1>2, <1>4 DEF IsWide
<1>7. ASSUME IsWide(dist), m.hard, ~Bypassed(m, mode, "STOP_TOO_WIDE")
      PROVE  m.score >= SoftScore /\ ~(gap > MaxStop * ExtremeMult * from)
    BY <1>2, <1>4, <1>7 DEF StopTooWide
<1>8. MaxStop * ExtremeMult * from \in Int /\ gap \in Int
    BY <1>1, DecisionAssumption, SMT
<1>9. gap > MaxStop * from =>
        /\ size * 100 <= SoftScale * m.notional
        /\ m.hard /\ ~Bypassed(m, mode, "STOP_TOO_WIDE") =>
             m.score >= SoftScore /\ gap <= MaxStop * ExtremeMult * from
    BY <1>6, <1>7, <1>8
<1> QED BY <1>5, <1>9 DEF StopIsBearable

LEMMA ScaledIs ==
    ASSUME NEW n \in Nat, NEW soft \in BOOLEAN
    PROVE  /\ ScaledSize(n, soft) \in Nat /\ ScaledSize(n, soft) <= n
           /\ soft => ScaledSize(n, soft) * 100 <= SoftScale * n
<1>1. SoftScale \in Nat /\ SoftScale <= 100
    BY DecisionAssumption
<1>2. 100 * n >= SoftScale * n /\ SoftScale * n \in Nat
    BY <1>1, Products
<1>3. n * SoftScale = SoftScale * n
    BY <1>1, SMT
<1>4. \A k \in Nat : /\ k \div 100 \in Nat /\ (k \div 100) * 100 <= k
                     /\ k <= 100 * n => k \div 100 <= n
    BY SMT
<1> QED BY <1>2, <1>3, <1>4 DEF ScaledSize

LEMMA QualitySoft ==
    ASSUME NEW m, NEW c, NEW met, NEW mode
    PROVE  /\ Quality(m, c, met, mode).soft = IsWide(StopDistance(m, met, mode))
           /\ Quality(m, c, met, mode).soft \in BOOLEAN
BY DEF Quality, IsWide

\* An accepted snapshot passed every stage, at a size within the request and
\* the allocation.
LEMMA StagesPassed ==
    ASSUME NEW m, NEW mode, NEW size, Passes(Checked(m, mode, size))
    PROVE  LET c == Context(m)
               met == Metrics(m, c, mode)
           IN  Clean(Quality(m, c, met, mode).why) /\ Clean(Safety(m, c, met, mode)) /\ ~(size <= 0)
<1> DEFINE g == Checked(m, mode, size)
<1>1. ~g[2][1] /\ ~g[3][1] /\ ~g[4][1]
    BY StageList
<1> QED BY <1>1 DEF Checked, Clean

LEMMA FundedList ==
    ASSUME NEW m
    PROVE  Named(<<Funded(m)>>) /\ (Passes(<<Funded(m)>>) <=> ~(Given(m.allocated) /\ m.allocated <= 0))
<1>1. Proper(Funded(m))
    BY DEF Proper, Funded
<1>2. Funded(m)[1] <=> Given(m.allocated) /\ m.allocated <= 0
    BY DEF Funded
<1> QED BY <1>1, <1>2, OneGate

LEMMA PlanList ==
    ASSUME NEW m
    PROVE  Named(<< <<~m.plan, "ORDER_PLAN_REJECTED">> >>)
<1> DEFINE gate == <<~m.plan, "ORDER_PLAN_REJECTED">>
<1>1. Proper(gate)
    BY DEF Proper
<1> HIDE DEF gate
<1>2. Named(<<gate>>)
    BY <1>1, OneGate
<1> QED BY <1>2 DEF gate

Sized(m, mode, size) ==
    /\ size \in Nat /\ size > 0 /\ m.notional \in Nat /\ size <= m.notional
    /\ Given(m.allocated) => size <= m.allocated
    /\ Quality(m, Context(m), Metrics(m, Context(m), mode), mode).soft =>
         size * 100 <= SoftScale * m.notional

LEMMA RightSize ==
    ASSUME NEW m, m.notional \in {None} \cup Nat, m.allocated \in {Absent} \cup Nat,
           NEW mode, NEW n \in {None} \cup Nat,
           n # None => m.notional \in Nat /\ n <= m.notional,
           ~(SizeFor(m, mode, n) <= 0)
    PROVE  LET size == SizeFor(m, mode, n)
           IN  /\ n \in Nat /\ size \in Nat /\ size > 0 /\ size <= n /\ m.notional \in Nat
               /\ Quality(m, Context(m), Metrics(m, Context(m), mode), mode).soft =>
                    size * 100 <= SoftScale * m.notional
<1> DEFINE soft == Quality(m, Context(m), Metrics(m, Context(m), mode), mode).soft
           size == SizeFor(m, mode, n)
<1>1. size = IF Given(n) THEN ScaledSize(n, soft) ELSE 0
    BY DEF SizeFor
<1>2. soft \in BOOLEAN
    BY QualitySoft
<1> HIDE DEF soft
<1>3. n \in Nat /\ Given(n)
  <2>1. SUFFICES ASSUME n = None PROVE FALSE
      BY Marks
  <2>2. size = 0
      BY <1>1, <2>1, Marks
  <2> QED BY <2>2
<1>4. /\ size \in Nat /\ size <= n
      /\ soft => size * 100 <= SoftScale * n
    BY <1>1, <1>2, <1>3, ScaledIs
<1>5. n <= m.notional /\ m.notional \in Nat
    BY <1>3, Marks
<1>6. SoftScale * n <= SoftScale * m.notional /\ SoftScale * n \in Nat /\ SoftScale * m.notional \in Nat
  <2>1. SoftScale \in Nat
      BY DecisionAssumption
  <2>2. m.notional * SoftScale >= n * SoftScale
      BY <1>3, <1>5, <2>1, Products
  <2> QED BY <1>3, <1>5, <2>1, <2>2, SMT
<1>7. soft => size * 100 <= SoftScale * m.notional
  <2>1. size * 100 \in Nat
      BY <1>4
  <2> QED BY <1>4, <1>6, <2>1
<1> QED BY <1>3, <1>4, <1>5, <1>7 DEF soft


LEMMA VerdictIs ==
    ASSUME NEW why, NEW size
    PROVE  /\ Verdict(why, size).why = why
           /\ Clean(why) => Verdict(why, size).size = size
           /\ \A other : Clean(why) /\ Clean(other) => Verdict(why, size) = Verdict(other, size)
BY DEF Verdict, Clean

LEMMA JudgedBacktest ==
    ASSUME NEW m, m.notional \in {None} \cup Nat, m.allocated \in {Absent} \cup Nat,
           Clean(JudgeBacktest(m).why)
    PROVE  LET c == Context(m)
               met == Metrics(m, c, "BACKTEST")
           IN  /\ Clean(Quality(m, c, met, "BACKTEST").why)
               /\ Clean(Safety(m, c, met, "BACKTEST"))
               /\ Sized(m, "BACKTEST", JudgeBacktest(m).size)
<1> DEFINE n == Projected(m)
           size == SizeFor(m, "BACKTEST", n)
           funded == <<Funded(m)>>
           checked == Checked(m, "BACKTEST", size)
<1>1. JudgeBacktest(m) = Verdict(FirstOf(funded \o checked), size)
    BY DEF JudgeBacktest
<1>2. Clean(FirstOf(funded \o checked)) /\ JudgeBacktest(m).size = size
    BY <1>1, VerdictIs
<1>3. Named(funded) /\ Named(checked)
    BY FundedList, StageList
<1> HIDE DEF funded, checked, size
<1>4. Passes(funded) /\ Passes(checked)
    BY <1>2, <1>3, OneAfterTheOther, NoneNamed
<1>5. ~(Given(m.allocated) /\ m.allocated <= 0)
    BY <1>4, FundedList DEF funded
<1>6. ~(size <= 0)
    BY <1>4, StagesPassed DEF checked
<1>7. /\ n \in {None} \cup Nat
      /\ n # None => /\ m.notional \in Nat /\ n <= m.notional
                     /\ Given(m.allocated) => n <= m.allocated
  <2>1. CASE ~Given(m.allocated)
      BY <2>1 DEF Projected
  <2>2. CASE Given(m.allocated) /\ m.notional = None
    <3>1. n = None
        BY <2>2, Marks DEF Projected, AtMost
    <3> QED BY <3>1
  <2>3. CASE Given(m.allocated) /\ m.notional \in Nat
    <3>1. m.allocated \in Nat /\ Number(m.notional)
        BY <2>3, Marks
    <3>2. n = IF m.notional > m.allocated THEN m.allocated ELSE m.notional
        BY <2>3, <3>1 DEF Projected, AtMost
    <3> QED BY <2>3, <3>1, <3>2
  <2> QED BY <2>1, <2>2, <2>3
<1>8. /\ n \in Nat /\ size \in Nat /\ size > 0 /\ size <= n /\ m.notional \in Nat
      /\ Quality(m, Context(m), Metrics(m, Context(m), "BACKTEST"), "BACKTEST").soft =>
           size * 100 <= SoftScale * m.notional
    BY <1>6, <1>7, RightSize DEF size
<1>9. n # None
    BY <1>8, Marks
<1>10. Given(m.allocated) => m.allocated \in Nat
    BY Marks
<1> HIDE DEF n
<1>11. Sized(m, "BACKTEST", size)
    BY <1>7, <1>8, <1>9, <1>10 DEF Sized
<1> QED BY <1>2, <1>4, <1>11, StagesPassed DEF checked

LEMMA JudgedRuntime ==
    ASSUME NEW m, m.notional \in {None} \cup Nat, m.allocated \in {Absent} \cup Nat, NEW mode,
           Clean(JudgeRuntime(m, mode).why)
    PROVE  LET c == Context(m)
               met == Metrics(m, c, mode)
           IN  /\ Clean(Quality(m, c, met, mode).why) /\ Clean(Safety(m, c, met, mode))
               /\ Sized(m, mode, JudgeRuntime(m, mode).size)
<1> DEFINE size == SizeFor(m, mode, m.notional)
           plan == << <<~m.plan, "ORDER_PLAN_REJECTED">> >>
           checked == Checked(m, mode, size)
           funded == <<Funded(m)>>
           cut == IF Given(m.allocated) THEN AtMost(size, m.allocated) ELSE size
<1>1. JudgeRuntime(m, mode) = Verdict(FirstOf((plan \o checked) \o funded), cut)
    BY DEF JudgeRuntime
<1>2. Clean(FirstOf((plan \o checked) \o funded)) /\ JudgeRuntime(m, mode).size = cut
    BY <1>1, VerdictIs
<1>3. Named(plan) /\ Named(checked) /\ Named(funded)
    BY PlanList, FundedList, StageList
<1> HIDE DEF plan, funded, checked, size
<1>4. Passes(checked) /\ Passes(funded)
  <2>1. Named(plan \o checked)
      BY <1>3, OneAfterTheOther
  <2>2. Passes((plan \o checked) \o funded)
      BY <1>2, <1>3, <2>1, OneAfterTheOther, NoneNamed
  <2>3. Passes(plan \o checked) /\ Passes(funded)
      BY <1>3, <2>1, <2>2, OneAfterTheOther
  <2> QED BY <1>3, <2>3, OneAfterTheOther
<1>5. ~(Given(m.allocated) /\ m.allocated <= 0)
    BY <1>4, FundedList DEF funded
<1>6. ~(size <= 0)
    BY <1>4, StagesPassed DEF checked
<1>7. m.notional # None => m.notional \in Nat /\ m.notional <= m.notional
    OBVIOUS
<1>8. /\ size \in Nat /\ size > 0 /\ size <= m.notional /\ m.notional \in Nat
      /\ Quality(m, Context(m), Metrics(m, Context(m), mode), mode).soft =>
           size * 100 <= SoftScale * m.notional
    BY <1>6, <1>7, RightSize DEF size
<1>9. /\ cut \in Nat /\ cut > 0 /\ cut <= size
      /\ Given(m.allocated) => cut <= m.allocated
  <2>1. CASE ~Given(m.allocated)
      BY <1>8, <2>1
  <2>2. CASE Given(m.allocated)
    <3>1. m.allocated \in Nat /\ m.allocated > 0 /\ Number(size)
        BY <1>5, <1>8, <2>2, Marks
    <3>2. cut = IF size > m.allocated THEN m.allocated ELSE size
        BY <2>2, <3>1 DEF AtMost
    <3> QED BY <1>8, <2>2, <3>1, <3>2
  <2> QED BY <2>1, <2>2
<1> HIDE DEF cut
<1>10. SoftScale * m.notional \in Nat
    BY <1>8, DecisionAssumption, Products
<1>11. Sized(m, mode, cut)
    BY <1>8, <1>9, <1>10 DEF Sized
<1> QED BY <1>2, <1>4, <1>11, StagesPassed DEF checked

LEMMA JudgedMeans ==
    ASSUME NEW m, m.notional \in {None} \cup Nat, m.allocated \in {Absent} \cup Nat, NEW mode,
           Clean(Judge(m, mode).why)
    PROVE  LET c == Context(m)
               met == Metrics(m, c, mode)
           IN  /\ Clean(Quality(m, c, met, mode).why) /\ Clean(Safety(m, c, met, mode))
               /\ Sized(m, mode, Judge(m, mode).size)
BY JudgedBacktest, JudgedRuntime DEF Judge

\* PAPER and LIVE compute the same of a snapshot and ask the same, but LIVE more.
LEMMA SameRehearsal ==
    ASSUME NEW m, ~Given(m.paperSlip), Clean(JudgeRuntime(m, "LIVE_PRECHECK").why)
    PROVE  JudgeRuntime(m, "PAPER") = JudgeRuntime(m, "LIVE_PRECHECK")
<1> DEFINE live == "LIVE_PRECHECK"
           c == Context(m)
           met == Metrics(m, c, live)
           size == SizeFor(m, live, m.notional)
           plan == << <<~m.plan, "ORDER_PLAN_REJECTED">> >>
           funded == <<Funded(m)>>
           cut == IF Given(m.allocated) THEN AtMost(size, m.allocated) ELSE size
           Gates(mode) == (plan \o Checked(m, mode, size)) \o funded
<1>1. Metrics(m, c, "PAPER") = met
  <2>1. FillSlippage(m, c, "PAPER") = FillSlippage(m, c, live)
      BY DEF FillSlippage
  <2> QED BY <2>1 DEF Metrics
<1>2. Quality(m, c, met, "PAPER") = Quality(m, c, met, live)
  <2>1. StopDistance(m, met, "PAPER") = StopDistance(m, met, live)
      BY DEF StopDistance
  <2>2. \A gate : Bypassed(m, "PAPER", gate) = Bypassed(m, live, gate)
      BY DEF Bypassed
  <2>3. \A dist : StopTooWide(m, met, "PAPER", dist) = StopTooWide(m, met, live, dist)
      BY <2>2 DEF StopTooWide
  <2>4. EarlyGates(m, c, met, "PAPER") = EarlyGates(m, c, met, live)
    <3> DEFINE dist == StopDistance(m, met, live)
    <3>1. ("PAPER" = "BACKTEST") = (live = "BACKTEST")
        OBVIOUS
    <3> QED BY <2>1, <2>2, <2>3, <3>1 DEF EarlyGates
  <2>5. LateGates(m, c, "PAPER") = LateGates(m, c, live)
      BY <2>2 DEF LateGates
  <2> QED BY <2>1, <2>4, <2>5 DEF Quality
<1>3. SizeFor(m, "PAPER", m.notional) = size
    BY <1>1, <1>2 DEF SizeFor
<1>4. JudgeRuntime(m, live) = Verdict(FirstOf(Gates(live)), cut)
    BY DEF JudgeRuntime
<1>5. JudgeRuntime(m, "PAPER") = Verdict(FirstOf(Gates("PAPER")), cut)
    BY <1>3 DEF JudgeRuntime
<1>6. \A mode : Named(plan) /\ Named(Checked(m, mode, size)) /\ Named(funded)
    BY PlanList, FundedList, StageList
<1>7. Clean(FirstOf(Gates(live)))
    BY <1>4, VerdictIs
<1> HIDE DEF plan, funded, size, cut
<1>8. \A mode : /\ Named(Gates(mode))
                /\ Clean(FirstOf(Gates(mode))) <=>
                     Passes(plan) /\ Passes(Checked(m, mode, size)) /\ Passes(funded)
  <2>1. TAKE mode
  <2> DEFINE checked == Checked(m, mode, size)
  <2>2. Named(plan) /\ Named(checked) /\ Named(funded)
      BY <1>6
  <2> HIDE DEF checked
  <2>3. Named(plan \o checked) /\ (Passes(plan \o checked) <=> Passes(plan) /\ Passes(checked))
      BY <2>2, OneAfterTheOther
  <2>4. /\ Named((plan \o checked) \o funded)
        /\ Passes((plan \o checked) \o funded) <=>
             Passes(plan \o checked) /\ Passes(funded)
      BY <2>2, <2>3, OneAfterTheOther
  <2> QED BY <2>3, <2>4, NoneNamed DEF checked
<1>9. Passes(plan) /\ Passes(Checked(m, live, size)) /\ Passes(funded)
    BY <1>7, <1>8
<1>10. Clean(Safety(m, c, met, "PAPER"))
  <2>1. Clean(Safety(m, c, met, live))
      BY <1>9, StagesPassed
  <2>2. Clean(FirstOf(SafetyGates(m, c, met, TRUE)))
      BY <2>1 DEF Safety, Clean
  <2> DEFINE strict == CostGates(m, c, met, TRUE)
             lax == CostGates(m, c, met, FALSE)
  <2>3. Passes(strict)
      BY <2>2, SafetyLists
  <2>4. /\ ~strict[1][1] /\ ~strict[3][1] /\ ~strict[4][1] /\ ~strict[5][1] /\ ~strict[6][1]
        /\ ~strict[7][1] /\ ~strict[8][1] /\ ~strict[9][1] /\ ~strict[10][1]
      BY <2>3, CostList
  <2>5. Missing(m, c, FALSE) \subseteq Missing(m, c, TRUE)
      BY DEF Missing, Critical
  <2>6. FakeZeros(m, c, FALSE) = {}
      BY DEF FakeZeros
  <2>7. ~lax[1][1] /\ ~lax[2][1]
      BY <2>4, <2>5, <2>6 DEF CostGates
  <2>8. /\ ~lax[3][1] /\ ~lax[4][1] /\ ~lax[5][1] /\ ~lax[6][1]
        /\ ~lax[7][1] /\ ~lax[8][1] /\ ~lax[9][1] /\ ~lax[10][1]
      BY <2>4 DEF CostGates
  <2>9. Passes(lax)
      BY <2>7, <2>8, CostList
  <2>10. Clean(FirstOf(SafetyGates(m, c, met, FALSE)))
      BY <2>9, SafetyLists
  <2> QED BY <2>10 DEF Safety, Clean
<1>11. Passes(Checked(m, "PAPER", size))
  <2> DEFINE strict == Checked(m, live, size)
             lax == Checked(m, "PAPER", size)
  <2>1. ~strict[1][1] /\ ~strict[2][1] /\ ~strict[4][1]
      BY <1>9, StageList
  <2>2. ~lax[1][1] /\ ~lax[4][1]
      BY <2>1 DEF Checked
  <2>3. Clean(Quality(m, c, met, "PAPER").why)
      BY <1>2, <1>9, StagesPassed
  <2>4. ~lax[2][1] /\ ~lax[3][1]
      BY <1>1, <1>10, <2>3 DEF Checked, Clean
  <2> QED BY <2>2, <2>4, StageList
<1>12. Clean(FirstOf(Gates("PAPER")))
    BY <1>8, <1>9, <1>11
<1> QED BY <1>4, <1>5, <1>7, <1>12, VerdictIs


-----------------------------------------------------------------------------
(* Only safe orders.                                                        *)

LEMMA LiveMeans ==
    ASSUME NEW m, Fed(m), Plausible(m), Typed(m), ReadableLimits,
           NoNaN(Context(m)), ~Over(QualityRate(m, Context(m), "slip"), MaxSlip),
           NEW met, Clean(Safety(m, Context(m), met, "LIVE_PRECHECK"))
    PROVE  LiveEvidence(m)
<1> DEFINE c == Context(m)
<1> HIDE DEF c
<1>1. /\ m.rejectUnknown =>
           \A f \in {"spread", "slip", "lat", "liq", "fund", "fee"} : f # "fee" => c[f].st = "MEASURED"
      /\ c["slip"].v = 0 /\ c["slip"].st = "MEASURED" => "slip" \in m.verified
      /\ Number(c.ob.v) /\ Number(m.spoof)
      /\ Given(m.confirmed) /\ Given(m.absorbs) /\ Given(m.age)
      /\ ~Under(m.age, 0) /\ ~Over(m.age, MaxAge)
      /\ ~(Over(m.spoof, 79) /\ m.confirmed = 1)
      /\ ~Adverse(m, c.ob.v) /\ m.absorbs # 0
    BY SafetyMeans DEF c
<1>2. c.slip.v # NaN /\ c.lat.v # NaN /\ c.liq.v # NaN /\ c.fund.v # NaN /\ c.ob.v # NaN
    BY DEF NoNaN, Fields, c
<1>3. m.rejectUnknown =>
        /\ m.st["slip"] = "MEASURED"
        /\ \A f \in {"liq", "fund"} : m.st[f] \in {"MEASURED", "DEFAULT"}
        /\ m.st["lat"] = "MEASURED" \/ Given(m.ack)
  <2>1. SUFFICES ASSUME m.rejectUnknown
                 PROVE  /\ m.st["slip"] = "MEASURED"
                        /\ m.st["liq"] \in {"MEASURED", "DEFAULT"}
                        /\ m.st["fund"] \in {"MEASURED", "DEFAULT"}
                        /\ m.st["lat"] = "MEASURED" \/ Given(m.ack)
      OBVIOUS
  <2>2. /\ c.slip.st = "MEASURED" /\ c.liq.st = "MEASURED" /\ c.fund.st = "MEASURED"
        /\ c.lat.st = "MEASURED"
      BY <1>1, <2>1
  <2>3. m.st["slip"] = "MEASURED"
      BY <1>2, <2>2, SlipIsCharged DEF c
  <2>4. m.st["liq"] \in {"MEASURED", "DEFAULT"}
      BY <1>2, <2>2, LiquidityIsCharged DEF c
  <2>5. m.st["fund"] \in {"MEASURED", "DEFAULT"}
      BY <1>2, <2>2, FundingIsCharged DEF c
  <2>6. m.st["lat"] = "MEASURED" \/ Given(m.ack)
      BY <1>2, <2>2, LatencyIsCharged DEF c
  <2> QED BY <2>3, <2>4, <2>5, <2>6
<1>4. m.age \in 0 .. MaxAge
  <2>1. m.age \in Int /\ Number(m.age)
      BY <1>1 DEF Typed, Number
  <2>2. MaxAge \in Nat
      BY DecisionAssumption
  <2> QED BY <1>1, <2>1, <2>2 DEF Under, Over
<1>5. m.absorbs = 1 /\ ~(m.spoof >= 80 /\ m.confirmed = 1)
  <2>1. m.absorbs \in {None, 0, 1} /\ m.spoof \in Int
      BY DEF Typed
  <2> QED BY <1>1, <2>1, Marks DEF Over
<1>6. IF m.side = "LONG" THEN m.v["ob"] > -90 ELSE m.v["ob"] < 90
  <2>1. /\ m.v["ob"] > -90 \/ c.ob.v < -89
        /\ m.v["ob"] < 90 \/ c.ob.v > 89
      BY <1>1, BookIsKept DEF c
  <2>2. CASE m.side = "LONG"
    <3>1. ~Under(c.ob.v, -89)
        BY <1>1, <2>2 DEF Adverse
    <3> QED BY <1>1, <2>1, <2>2, <3>1 DEF Under
  <2>3. CASE m.side # "LONG"
    <3>1. ~Over(c.ob.v, 89)
        BY <1>1, <2>3 DEF Adverse
    <3> QED BY <1>1, <2>1, <2>3, <3>1 DEF Over
  <2> QED BY <2>2, <2>3
<1>7. m.v["slip"] = 0 /\ m.st["slip"] = "MEASURED" => "slip" \in m.verified
  <2>1. SUFFICES ASSUME m.v["slip"] = 0, m.st["slip"] = "MEASURED"
                 PROVE  c.slip.v = 0 /\ c.slip.st = "MEASURED"
      BY <1>1
  <2>2. Given(m.v["slip"]) /\ Number(m.v["slip"])
      BY <2>1, Marks
  <2>3. TrueSlip(m) = 0
      BY <2>1, <2>2 DEF TrueSlip
  <2> QED BY <1>2, <2>1, <2>2, <2>3, SlipIsCharged DEF c
<1> QED BY <1>1, <1>3, <1>4, <1>5, <1>6, <1>7 DEF LiveEvidence

LEMMA AcceptedMeans ==
    ASSUME NEW m, Fed(m), Plausible(m), Typed(m), ReadableLimits, NEW mode \in Modes,
           Clean(Judge(m, mode).why)
    PROVE  IsSafe(m, mode, Judge(m, mode).size)
<1> DEFINE c == Context(m)
           met == Metrics(m, c, mode)
           dist == StopDistance(m, met, mode)
           size == Judge(m, mode).size
           quality == Quality(m, c, met, mode)
<1>1. Clean(quality.why) /\ Clean(Safety(m, c, met, mode)) /\ Sized(m, mode, size)
  <2>1. m.notional \in {None} \cup Nat /\ m.allocated \in {Absent} \cup Nat
      BY DEF Typed
  <2> QED BY <2>1, JudgedMeans
<1>2. /\ ~m.chop
      /\ ~Over(QualityRate(m, c, "slip"), MaxSlip)
      /\ ~Over(QualityRate(m, c, "spread"), MaxSpread)
      /\ ~Under(m.atr, MinATR) /\ ~Over(m.atr, MaxATR)
      /\ dist.d # 0 /\ ~(dist.d > 0 /\ dist.n < MinStop * dist.d)
      /\ ~(IsWide(dist) /\ StopTooWide(m, met, mode, dist))
    BY <1>1, QualityMeans
<1>3. /\ NoNaN(c)
      /\ m.rejectUnknown =>
           \A f \in {"spread", "slip", "lat", "liq", "fund", "fee"} :
             c[f].v # None /\ c[f].st # "UNAVAILABLE"
      /\ ~Under(c.liq.v, MinLiquidity) /\ ~PoorRR(met)
  <2>1. Clean(Safety(m, c, met, mode))
      BY <1>1
  <2> HIDE DEF c, met
  <2> QED BY <2>1, SafetyMeans DEF NoNaN
<1>4. m.side \in {"LONG", "SHORT"} /\ m.stop \in Int /\ m.target \in Int
    BY DEF Typed
<1>5. Pays(m, mode) /\ met.fill = Fill(m, Late(m, mode))
    BY <1>2, <1>3, <1>4, StillPays
<1> HIDE DEF c, size
<1>6. /\ c.spread.v # NaN /\ c.slip.v # NaN /\ c.lat.v # NaN /\ c.fee.v # NaN
      /\ c.fund.v # NaN /\ c.liq.v # NaN /\ c.ob.v # NaN
    BY <1>3 DEF NoNaN, Fields
<1>7. /\ c.slip.v = TrueSlip(m) /\ TrueSlip(m) \in Nat /\ TrueSlip(m) <= MaxSlip
      /\ m.v["slip"] # NaN
      /\ c.slip.st # "UNAVAILABLE" =>
           (Given(m.v["slip"]) \/ Given(m.range)) /\ m.st["slip"] # "UNAVAILABLE"
    BY <1>2, <1>6, SlipIsCharged DEF c
<1>8. /\ ~Over(m.v["spread"], MaxSpread)
      /\ Knows(m, "spread") => Misread(m) \/ TrueSpread(m) <= MaxSpread
      /\ m.v["spread"] = NaN => m.st["spread"] = "UNAVAILABLE"
      /\ c.spread.v # None /\ c.spread.st # "UNAVAILABLE" => Knows(m, "spread")
    BY <1>2, <1>6, SpreadIsCharged DEF c
<1>9. /\ m.v["fee"] = NaN => m.st["fee"] = "UNAVAILABLE"
      /\ c.fee.v # None => Knows(m, "fee")
    BY <1>6, FeeIsCharged DEF c
<1>10. /\ m.v["fund"] # NaN
       /\ c.fund.v # None /\ c.fund.st # "UNAVAILABLE" => Knows(m, "fund")
    BY <1>6, FundingIsCharged DEF c
<1>11. /\ m.v["liq"] = NaN => m.st["liq"] = "UNAVAILABLE"
       /\ Knows(m, "liq") => TrueLiquidity(m) = c.liq.v /\ Number(c.liq.v)
       /\ c.liq.v # None /\ c.liq.st # "UNAVAILABLE" => Knows(m, "liq")
    BY <1>6, LiquidityIsCharged DEF c
<1>12. c.lat.v # None /\ c.lat.st # "UNAVAILABLE" => Given(m.ack) \/ Knows(m, "lat")
    BY <1>6, LatencyIsCharged DEF c
<1>13. m.v["ob"] # NaN
    BY <1>6, BookIsKept DEF c
<1>14. \A f \in {"spread", "slip", "fund", "fee", "liq", "ob"} :
         m.v[f] = NaN => f \in {"spread", "fee", "liq"} /\ m.st[f] = "UNAVAILABLE"
    BY <1>7, <1>8, <1>9, <1>10, <1>11, <1>13
<1>15. m.rejectUnknown =>
         /\ \A f \in {"spread", "fund", "fee", "liq"} : Knows(m, f)
         /\ Given(m.v["slip"]) \/ Given(m.range)
         /\ m.st["slip"] # "UNAVAILABLE"
         /\ Given(m.ack) \/ Knows(m, "lat")
  <2>1. SUFFICES ASSUME m.rejectUnknown
                 PROVE  /\ Knows(m, "spread") /\ Knows(m, "fund") /\ Knows(m, "fee")
                        /\ Knows(m, "liq")
                        /\ Given(m.v["slip"]) \/ Given(m.range)
                        /\ m.st["slip"] # "UNAVAILABLE"
                        /\ Given(m.ack) \/ Knows(m, "lat")
      OBVIOUS
  <2>2. /\ c.spread.v # None /\ c.spread.st # "UNAVAILABLE" /\ c.slip.st # "UNAVAILABLE"
        /\ c.lat.v # None /\ c.lat.st # "UNAVAILABLE" /\ c.liq.v # None
        /\ c.liq.st # "UNAVAILABLE" /\ c.fund.v # None /\ c.fund.st # "UNAVAILABLE"
        /\ c.fee.v # None
      BY <1>3, <2>1
  <2> QED BY <1>7, <1>8, <1>9, <1>10, <1>11, <1>12, <2>2
<1>16. Knows(m, "liq") => TrueLiquidity(m) >= MinLiquidity
  <2>1. SUFFICES ASSUME Knows(m, "liq") PROVE ~(c.liq.v < MinLiquidity) /\ c.liq.v \in Int
    <3>1. MinLiquidity \in Nat
        BY DecisionAssumption
    <3> QED BY <1>11, <3>1
  <2>2. c.liq.v \in Int
    <3>1. m.v["liq"] \in Int /\ Number(m.v["liq"])
        BY <2>1 DEF Fed, Fields, Knows
    <3>2. TrueLiquidity(m) \in Int
        BY <3>1 DEF TrueLiquidity, AtLeast, AtMost
    <3> QED BY <1>11, <2>1, <3>2
  <2> QED BY <1>3, <1>11, <2>1, <2>2 DEF Under
<1>17. StopIsBearable(m, mode, size)
  <2>1. FillSlippage(m, c, mode) = Late(m, mode) /\ Late(m, mode) \in Nat /\ Late(m, mode) <= 500
      BY <1>7, FillIsLate
  <2>2. m.stop + Late(m, mode) > 0
      BY <1>5 DEF Pays
  <2>3. IsWide(dist) => size * 100 <= SoftScale * m.notional
    <3>1. quality.soft = IsWide(dist)
        BY QualitySoft
    <3> QED BY <1>1, <3>1 DEF Sized, c
  <2> HIDE DEF met
  <2> QED BY <1>2, <1>4, <1>5, <2>1, <2>2, <2>3, StopMeans
<1>18. size > 0 /\ size <= m.notional /\ (Given(m.allocated) => size <= m.allocated)
    BY <1>1 DEF Sized
<1>19. mode = "LIVE_PRECHECK" => LiveEvidence(m)
  <2> HIDE DEF met
  <2>1. Clean(Safety(m, c, met, mode))
      BY <1>1
  <2> QED BY <1>2, <1>3, <2>1, LiveMeans DEF c
<1> QED BY <1>2, <1>5, <1>7, <1>8, <1>14, <1>15, <1>16, <1>17, <1>18, <1>19 DEF IsSafe, size


\* A snapshot, key by key: faults change its values, never what they are.
Keys ==
    {"side", "stop", "target", "rr", "score", "atr", "chop", "aligned", "expectancy", "plan",
     "dayFull", "v", "st", "verified", "quote", "range", "ack", "paperSlip", "spoof",
     "confirmed", "absorbs", "depth", "age", "filter", "rejectUnknown", "hard", "disabled",
     "notional", "allocated"}
MayBe(k, x) ==
    /\ k = "side" => x \in {"LONG", "SHORT"}
    /\ k \in {"stop", "target", "score", "atr", "spoof", "quote", "range", "paperSlip"} => x \in Int
    /\ k = "v" => /\ x \in [Fields -> Int]
                  /\ x["spread"] \in Nat \cup {Absent, None, NaN}
                  /\ x["slip"] \in Nat \cup {Absent, None, NaN}
                  /\ x["vol"] \in Nat \cup {Absent, None}
    /\ k = "st" => x \in [Fields -> Labels]
    /\ k = "quote" /\ x # Absent => x >= -10000 /\ x <= 10000
    /\ k = "range" /\ x # Absent => x >= 0 /\ x <= 10000
    /\ k = "ack" => x \in {None} \cup Nat
    /\ k = "paperSlip" /\ x # None => x >= -1 /\ x <= 500
    /\ k = "absorbs" => x \in {None, 0, 1}
    /\ k = "age" => x \in Int \ {NaN}
    /\ k = "notional" => x \in {None} \cup Nat
    /\ k = "allocated" => x \in {Absent} \cup Nat
Snapshot(m) ==
    /\ DOMAIN m = Keys /\ m = [k \in Keys |-> m[k]]
    /\ \A k \in Keys : MayBe(k, m[k])

LEMMA SnapshotMeans ==
    ASSUME NEW m, Snapshot(m)
    PROVE  Fed(m) /\ Plausible(m) /\ Typed(m)
<1>1. /\ MayBe("side", m.side) /\ MayBe("stop", m.stop) /\ MayBe("target", m.target)
      /\ MayBe("score", m.score) /\ MayBe("atr", m.atr) /\ MayBe("spoof", m.spoof)
      /\ MayBe("quote", m.quote) /\ MayBe("range", m.range) /\ MayBe("paperSlip", m.paperSlip)
      /\ MayBe("v", m.v) /\ MayBe("st", m.st) /\ MayBe("ack", m.ack)
      /\ MayBe("absorbs", m.absorbs) /\ MayBe("age", m.age)
      /\ MayBe("notional", m.notional) /\ MayBe("allocated", m.allocated)
    BY DEF Snapshot, Keys
<1>2. Fed(m)
  <2>1. m.v \in [Fields -> Int] /\ m.st \in [Fields -> Labels]
      BY <1>1 DEF MayBe
  <2>2. m.quote \in Int /\ (m.quote # Absent => m.quote >= -10000 /\ m.quote <= 10000)
      BY <1>1 DEF MayBe
  <2>3. m.range \in Int /\ (m.range # Absent => m.range >= 0 /\ m.range <= 10000)
      BY <1>1 DEF MayBe
  <2>4. m.ack \in {None} \cup Nat
      BY <1>1 DEF MayBe
  <2>5. m.paperSlip \in Int /\ (m.paperSlip # None => m.paperSlip >= -1 /\ m.paperSlip <= 500)
      BY <1>1 DEF MayBe
  <2> QED BY <2>1, <2>2, <2>3, <2>4, <2>5 DEF Fed
<1>3. Plausible(m)
    BY <1>1 DEF MayBe, Plausible
<1>4. Typed(m)
  <2>1. m.side \in {"LONG", "SHORT"}
      BY <1>1 DEF MayBe
  <2>2. m.stop \in Int /\ m.target \in Int /\ m.score \in Int /\ m.atr \in Int /\ m.spoof \in Int
      BY <1>1 DEF MayBe
  <2>3. m.absorbs \in {None, 0, 1} /\ m.age \in Int \ {NaN}
      BY <1>1 DEF MayBe
  <2>4. m.notional \in {None} \cup Nat /\ m.allocated \in {Absent} \cup Nat
      BY <1>1 DEF MayBe
  <2> QED BY <2>1, <2>2, <2>3, <2>4 DEF Typed
<1> QED BY <1>2, <1>3, <1>4

LEMMA Replaced ==
    ASSUME NEW m, Snapshot(m), NEW k \in Keys, NEW x, MayBe(k, x)
    PROVE  Snapshot([m EXCEPT ![k] = x])
<1> DEFINE n == [m EXCEPT ![k] = x]
<1>1. m = [j \in Keys |-> m[j]] /\ DOMAIN m = Keys
    BY DEF Snapshot
<1>2. DOMAIN n = Keys /\ n = [j \in Keys |-> n[j]]
    BY <1>1
<1>3. \A j \in Keys : n[j] = IF j = k THEN x ELSE m[j]
    BY <1>1
<1> HIDE DEF n
<1> QED BY <1>2, <1>3 DEF Snapshot

LEMMA SoundIsOne ==
    ASSUME NEW side \in {"LONG", "SHORT"}
    PROVE  Snapshot(Sound(side))
<1> DEFINE m == Sound(side)
<1>1. DOMAIN m = Keys /\ m = [k \in Keys |-> m[k]]
    BY DEF Sound, Keys
<1>2. m.v \in [Fields -> Int] /\ m.v["spread"] = 2 /\ m.v["slip"] = 4 /\ m.v["vol"] = 0
    BY DEF Sound, Fields
<1>3. m.st \in [Fields -> Labels]
    BY DEF Sound, Fields, Labels
<1>4. MayBe("v", m.v) /\ MayBe("st", m.st)
    BY <1>2, <1>3 DEF MayBe
<1>5. /\ MayBe("side", m.side) /\ MayBe("stop", m.stop) /\ MayBe("target", m.target)
      /\ MayBe("score", m.score) /\ MayBe("atr", m.atr) /\ MayBe("spoof", m.spoof)
      /\ MayBe("quote", m.quote) /\ MayBe("range", m.range)
      /\ MayBe("absorbs", m.absorbs)
      /\ MayBe("notional", m.notional)
    BY DEF Sound, MayBe
<1>6. MayBe("paperSlip", m.paperSlip) /\ MayBe("ack", m.ack) /\ MayBe("age", m.age)
      /\ MayBe("allocated", m.allocated)
    BY Marks DEF Sound, MayBe
<1>7. /\ MayBe("rr", m.rr) /\ MayBe("chop", m.chop) /\ MayBe("aligned", m.aligned)
      /\ MayBe("expectancy", m.expectancy) /\ MayBe("plan", m.plan)
      /\ MayBe("dayFull", m.dayFull) /\ MayBe("verified", m.verified)
      /\ MayBe("confirmed", m.confirmed) /\ MayBe("depth", m.depth)
      /\ MayBe("filter", m.filter) /\ MayBe("rejectUnknown", m.rejectUnknown)
      /\ MayBe("hard", m.hard) /\ MayBe("disabled", m.disabled)
    BY DEF MayBe
<1> HIDE DEF m
<1>8. \A k \in Keys : MayBe(k, m[k])
    BY <1>4, <1>5, <1>6, <1>7 DEF Keys
<1> QED BY <1>1, <1>8 DEF Snapshot, m

\* No value that a feed may deliver is out of place.
LEMMA FeedIsPlausible ==
    ASSUME NEW m, Snapshot(m), NEW f \in Fields,
           NEW x \in (IF f = "vol" THEN Values(f) \ {NaN} ELSE Values(f))
    PROVE  Snapshot([m EXCEPT !.v[f] = x])
<1>1. MayBe("v", m.v)
    BY DEF Snapshot, Keys
<1>2. {MaxSpread, MaxSlip, MaxLatency, MinLiquidity, MaxFunding, MaxTotalCost} \subseteq Nat
    BY DecisionAssumption
<1>3. /\ x \in Int
      /\ f \in {"spread", "slip"} => x \in Nat \cup {Absent, None, NaN}
      /\ f = "vol" => x \in Nat \cup {Absent, None}
  <2>1. x \in Values(f) /\ (f = "vol" => x # NaN)
      OBVIOUS
  <2>2. CASE f = "spread"
      BY <1>2, <2>1, <2>2, Marks DEF Values
  <2>3. CASE f = "slip"
      BY <1>2, <2>1, <2>3, Marks DEF Values
  <2>4. CASE f = "lat"
      BY <1>2, <2>1, <2>4, Marks DEF Values
  <2>5. CASE f = "liq"
      BY <1>2, <2>1, <2>5, Marks DEF Values
  <2>6. CASE f = "fund"
      BY <1>2, <2>1, <2>6, Marks DEF Values
  <2>7. CASE f = "fee"
      BY <1>2, <2>1, <2>7, Marks DEF Values
  <2>8. CASE f = "vol"
      BY <1>2, <2>1, <2>8, Marks DEF Values
  <2>9. CASE f = "ob"
      BY <1>2, <2>1, <2>9, Marks DEF Values
  <2> QED BY <2>2, <2>3, <2>4, <2>5, <2>6, <2>7, <2>8, <2>9 DEF Fields
<1> DEFINE w == [m.v EXCEPT ![f] = x]
<1>4. m.v \in [Fields -> Int]
    BY <1>1 DEF MayBe
<1>5. w \in [Fields -> Int] /\ \A g \in Fields : w[g] = IF g = f THEN x ELSE m.v[g]
    BY <1>3, <1>4
<1>6. MayBe("v", w)
  <2> HIDE DEF w
  <2>1. /\ w["spread"] \in Nat \cup {Absent, None, NaN}
        /\ w["slip"] \in Nat \cup {Absent, None, NaN}
        /\ w["vol"] \in Nat \cup {Absent, None}
      BY <1>1, <1>3, <1>5 DEF MayBe, Fields
  <2> QED BY <1>5, <2>1 DEF MayBe
<1>7. [m EXCEPT !.v[f] = x] = [m EXCEPT !["v"] = w]
    OBVIOUS
<1>8. "v" \in Keys
    BY DEF Keys
<1> HIDE DEF w
<1> QED BY <1>6, <1>7, <1>8, Replaced


\* The snapshot is one, and a verdict is that of the snapshot as it stands.
DecisionInv ==
    /\ Snapshot(market)
    /\ verdict = Undecided \/ verdict = [mode \in Modes |-> Judge(market, mode)]

LEMMA FaultsKeep ==
    ASSUME NEW next, Snapshot(next), GoesWrong(next)
    PROVE  DecisionInv'
BY DEF GoesWrong, DecisionInv

LEMMA OneFault ==
    ASSUME Snapshot(market), NEW k \in Keys, NEW x, MayBe(k, x), GoesWrong([market EXCEPT ![k] = x])
    PROVE  DecisionInv'
<1>1. Snapshot([market EXCEPT ![k] = x])
    BY Replaced
<1> QED BY <1>1, FaultsKeep

LEMMA RelabelKeeps ==
    ASSUME Snapshot(market), NEW f \in Fields, Relabel(f)
    PROVE  DecisionInv'
<1>1. CASE \E status \in {"DEFAULT", "ESTIMATE", "UNAVAILABLE"} :
             GoesWrong([market EXCEPT !.st[f] = status])
  <2>1. PICK status \in {"DEFAULT", "ESTIMATE", "UNAVAILABLE"} :
          GoesWrong([market EXCEPT !.st[f] = status])
      BY <1>1
  <2> DEFINE w == [market.st EXCEPT ![f] = status]
  <2>2. market.st \in [Fields -> Labels]
    <3>1. MayBe("st", market.st)
        BY DEF Snapshot, Keys
    <3> QED BY <3>1 DEF MayBe
  <2>3. w \in [Fields -> Labels]
      BY <2>2 DEF Labels
  <2>4. [market EXCEPT !.st[f] = status] = [market EXCEPT !["st"] = w]
      OBVIOUS
  <2> HIDE DEF w
  <2>5. MayBe("st", w)
      BY <2>3 DEF MayBe
  <2>6. "st" \in Keys
      BY DEF Keys
  <2>7. GoesWrong([market EXCEPT !["st"] = w])
      BY <2>1, <2>4
  <2> QED BY <2>5, <2>6, <2>7, OneFault
<1>2. CASE GoesWrong([market EXCEPT !.verified = @ \cup {f}])
  <2> DEFINE w == market.verified \cup {f}
  <2>1. [market EXCEPT !.verified = @ \cup {f}] = [market EXCEPT !["verified"] = w]
      OBVIOUS
  <2>2. "verified" \in Keys /\ MayBe("verified", w)
      BY DEF Keys, MayBe
  <2>3. GoesWrong([market EXCEPT !["verified"] = w])
      BY <1>2, <2>1
  <2> QED BY <2>2, <2>3, OneFault
<1> QED BY <1>1, <1>2 DEF Relabel

LEMMA SourceKeeps ==
    ASSUME Snapshot(market), Source
    PROVE  DecisionInv'
<1>1. ASSUME NEW x \in {Absent, -30, 30, 600}, GoesWrong([market EXCEPT !.quote = x])
      PROVE  DecisionInv'
  <2>1. "quote" \in Keys /\ MayBe("quote", x)
      BY Marks DEF Keys, MayBe
  <2> QED BY <1>1, <2>1, OneFault
<1>2. ASSUME NEW x \in {Absent, 40, 300, 600}, GoesWrong([market EXCEPT !.range = x])
      PROVE  DecisionInv'
  <2>1. "range" \in Keys /\ MayBe("range", x)
      BY Marks DEF Keys, MayBe
  <2> QED BY <1>2, <2>1, OneFault
<1>3. ASSUME NEW x \in {0, 200, MaxLatency + 1}, GoesWrong([market EXCEPT !.ack = x])
      PROVE  DecisionInv'
  <2>1. "ack" \in Keys /\ MayBe("ack", x)
      BY DecisionAssumption DEF Keys, MayBe
  <2> QED BY <1>3, <2>1, OneFault
<1>4. ASSUME NEW x \in {-1, 0, 15}, GoesWrong([market EXCEPT !.paperSlip = x])
      PROVE  DecisionInv'
  <2>1. "paperSlip" \in Keys /\ MayBe("paperSlip", x)
      BY Marks DEF Keys, MayBe
  <2> QED BY <1>4, <2>1, OneFault
<1> QED BY <1>1, <1>2, <1>3, <1>4 DEF Source

LEMMA PlanKeeps ==
    ASSUME Snapshot(market), Plan
    PROVE  DecisionInv'
<1> DEFINE stops == {-100, MinStop - 1, MinStop, MaxStop, MaxStop + 50, MaxStop * 3, Entry}
           targets == {300, 3 * MaxStop + 150, 9 * MaxStop}
<1>1. ASSUME NEW x \in stops, NEW t \in targets,
             GoesWrong([market EXCEPT !.stop = x, !.target = t])
      PROVE  DecisionInv'
  <2>1. x \in Int /\ t \in Int
      BY DecisionAssumption, SMT DEF Entry
  <2>2. "stop" \in Keys /\ MayBe("stop", x) /\ "target" \in Keys /\ MayBe("target", t)
      BY <2>1 DEF Keys, MayBe
  <2> DEFINE n == [market EXCEPT !["stop"] = x]
  <2>3. Snapshot(n)
      BY <2>2, Replaced
  <2>4. [market EXCEPT !.stop = x, !.target = t] = [n EXCEPT !["target"] = t]
      OBVIOUS
  <2> HIDE DEF n
  <2>5. Snapshot([n EXCEPT !["target"] = t])
      BY <2>2, <2>3, Replaced
  <2> QED BY <1>1, <2>4, <2>5, FaultsKeep
<1>2. ASSUME NEW x \in {0, 150, 182, 2 * Entry}, GoesWrong([market EXCEPT !.target = x])
      PROVE  DecisionInv'
  <2>1. "target" \in Keys /\ MayBe("target", x)
      BY DEF Keys, MayBe, Entry
  <2> QED BY <1>2, <2>1, OneFault
<1>3. ASSUME NEW x \in {1, SoftScore + 1}, GoesWrong([market EXCEPT !.score = x])
      PROVE  DecisionInv'
  <2>1. "score" \in Keys /\ MayBe("score", x)
      BY DecisionAssumption DEF Keys, MayBe
  <2> QED BY <1>3, <2>1, OneFault
<1>4. ASSUME NEW x \in {None, MinATR - 1, MaxATR + 1}, GoesWrong([market EXCEPT !.atr = x])
      PROVE  DecisionInv'
  <2>1. "atr" \in Keys /\ MayBe("atr", x)
      BY DecisionAssumption, Marks DEF Keys, MayBe
  <2> QED BY <1>4, <2>1, OneFault
<1>5. ASSUME NEW x, NEW k \in {"expectancy", "rr", "chop", "aligned", "plan", "dayFull"},
             GoesWrong([market EXCEPT ![k] = x])
      PROVE  DecisionInv'
  <2>1. k \in Keys /\ MayBe(k, x)
      BY DEF Keys, MayBe
  <2> QED BY <1>5, <2>1, OneFault
<1>6. CASE \/ \E x \in {None, -1} : GoesWrong([market EXCEPT !.expectancy = x])
           \/ GoesWrong([market EXCEPT !.rr = MinRR - 1])
           \/ GoesWrong([market EXCEPT !.chop = TRUE])
           \/ GoesWrong([market EXCEPT !.aligned = FALSE])
           \/ GoesWrong([market EXCEPT !.plan = FALSE])
           \/ GoesWrong([market EXCEPT !.dayFull = TRUE])
    BY <1>5, <1>6
<1>7. CASE \E x \in stops : \E t \in targets : GoesWrong([market EXCEPT !.stop = x, !.target = t])
  <2> HIDE DEF stops, targets
  <2>1. PICK x \in stops, t \in targets : GoesWrong([market EXCEPT !.stop = x, !.target = t])
      BY <1>7
  <2> QED BY <1>1, <2>1
<1>8. CASE \/ \E x \in {0, 150, 182, 2 * Entry} : GoesWrong([market EXCEPT !.target = x])
           \/ \E x \in {1, SoftScore + 1} : GoesWrong([market EXCEPT !.score = x])
           \/ \E x \in {None, MinATR - 1, MaxATR + 1} : GoesWrong([market EXCEPT !.atr = x])
    BY <1>2, <1>3, <1>4, <1>8
<1> QED BY <1>6, <1>7, <1>8 DEF Plan

LEMMA MicrostructureKeeps ==
    ASSUME Snapshot(market), Microstructure
    PROVE  DecisionInv'
<1>1. ASSUME NEW x \in {None, 85, 101}, GoesWrong([market EXCEPT !.spoof = x, !.confirmed = 1])
      PROVE  DecisionInv'
  <2>1. "spoof" \in Keys /\ MayBe("spoof", x) /\ "confirmed" \in Keys /\ MayBe("confirmed", 1)
      BY Marks DEF Keys, MayBe
  <2> DEFINE n == [market EXCEPT !["spoof"] = x]
  <2>2. Snapshot(n)
      BY <2>1, Replaced
  <2>3. [market EXCEPT !.spoof = x, !.confirmed = 1] = [n EXCEPT !["confirmed"] = 1]
      OBVIOUS
  <2> HIDE DEF n
  <2>4. Snapshot([n EXCEPT !["confirmed"] = 1])
      BY <2>1, <2>2, Replaced
  <2> QED BY <1>1, <2>3, <2>4, FaultsKeep
<1>2. ASSUME NEW x \in {None, 0}, GoesWrong([market EXCEPT !.absorbs = x])
      PROVE  DecisionInv'
  <2>1. "absorbs" \in Keys /\ MayBe("absorbs", x)
      BY DEF Keys, MayBe
  <2> QED BY <1>2, <2>1, OneFault
<1>3. ASSUME NEW x \in {None, -1, MaxAge, MaxAge + 1}, GoesWrong([market EXCEPT !.age = x])
      PROVE  DecisionInv'
  <2>1. "age" \in Keys /\ MayBe("age", x)
      BY DecisionAssumption, Marks DEF Keys, MayBe
  <2> QED BY <1>3, <2>1, OneFault
<1>4. ASSUME NEW x, NEW k \in {"confirmed", "depth"}, GoesWrong([market EXCEPT ![k] = x])
      PROVE  DecisionInv'
  <2>1. k \in Keys /\ MayBe(k, x)
      BY DEF Keys, MayBe
  <2> QED BY <1>4, <2>1, OneFault
<1> QED BY <1>1, <1>2, <1>3, <1>4 DEF Microstructure

LEMMA ConfigureKeeps ==
    ASSUME Snapshot(market), Configure
    PROVE  DecisionInv'
<1>1. ASSUME NEW x \in {None, 0}, GoesWrong([market EXCEPT !.notional = x])
      PROVE  DecisionInv'
  <2>1. "notional" \in Keys /\ MayBe("notional", x)
      BY DEF Keys, MayBe
  <2> QED BY <1>1, <2>1, OneFault
<1>2. ASSUME NEW x \in {0, 60}, GoesWrong([market EXCEPT !.allocated = x])
      PROVE  DecisionInv'
  <2>1. "allocated" \in Keys /\ MayBe("allocated", x)
      BY DEF Keys, MayBe
  <2> QED BY <1>2, <2>1, OneFault
<1>3. ASSUME NEW x, NEW k \in {"filter", "rejectUnknown", "hard", "disabled"},
             GoesWrong([market EXCEPT ![k] = x])
      PROVE  DecisionInv'
  <2>1. k \in Keys /\ MayBe(k, x)
      BY DEF Keys, MayBe
  <2> QED BY <1>3, <2>1, OneFault
<1> QED BY <1>1, <1>2, <1>3 DEF Configure

LEMMA DecisionInductive == OrderSpec => []DecisionInv
<1>1. OrderInit => DecisionInv
    BY SoundIsOne DEF OrderInit, DecisionInv
<1>2. DecisionInv /\ [OrderNext]_orderVars => DecisionInv'
  <2> SUFFICES ASSUME DecisionInv, [OrderNext]_orderVars PROVE DecisionInv'
      OBVIOUS
  <2> USE DEF DecisionInv
  <2>1. ASSUME NEW f \in Fields, Feed(f) PROVE DecisionInv'
    <3>1. PICK x \in (IF f = "vol" THEN Values(f) \ {NaN} ELSE Values(f)) :
            GoesWrong([market EXCEPT !.v[f] = x])
        BY <2>1 DEF Feed
    <3>2. Snapshot([market EXCEPT !.v[f] = x])
        BY FeedIsPlausible
    <3> QED BY <3>1, <3>2, FaultsKeep
  <2>2. ASSUME NEW f \in Fields, Relabel(f) PROVE DecisionInv'
      BY <2>2, RelabelKeeps
  <2>3. CASE Source
      BY <2>3, SourceKeeps
  <2>4. CASE Plan
      BY <2>4, PlanKeeps
  <2>5. CASE Microstructure
      BY <2>5, MicrostructureKeeps
  <2>6. CASE Configure
      BY <2>6, ConfigureKeeps
  <2>7. CASE Decided
      BY <2>7 DEF Decided
  <2>8. CASE UNCHANGED orderVars
      BY <2>8 DEF orderVars
  <2> QED BY <2>1, <2>2, <2>3, <2>4, <2>5, <2>6, <2>7, <2>8 DEF OrderNext
<1> QED BY <1>1, <1>2, PTL DEF OrderSpec

\* However the faults of a snapshot combine, a mode accepts it only if it is safe,
\* whatever the limits are - so long as they can be kept at all.
THEOREM OnlySafeOrders ==
    ASSUME ReadableLimits
    PROVE  OrderSpec => []AcceptedIsSafe
<1>1. DecisionInv => AcceptedIsSafe
  <2> SUFFICES ASSUME DecisionInv PROVE AcceptedIsSafe
      OBVIOUS
  <2>1. Fed(market) /\ Plausible(market) /\ Typed(market)
      BY SnapshotMeans DEF DecisionInv
  <2>2. CASE verdict = Undecided
    <3>1. \A mode \in Modes : ~Clean(verdict[mode].why)
        BY <2>2 DEF Undecided, Verdict, Clean
    <3> QED BY <3>1 DEF AcceptedIsSafe, Clean, Modes
  <2>3. CASE verdict = [mode \in Modes |-> Judge(market, mode)]
    <3>1. ASSUME NEW mode \in Modes, Clean(verdict[mode].why)
          PROVE  IsSafe(market, mode, verdict[mode].size)
        BY <2>1, <2>3, <3>1, AcceptedMeans
    <3>2. ASSUME Clean(verdict["LIVE_PRECHECK"].why), ~Given(market.paperSlip)
          PROVE  verdict["PAPER"] = verdict["LIVE_PRECHECK"]
      <4>1. /\ verdict["PAPER"] = JudgeRuntime(market, "PAPER")
            /\ verdict["LIVE_PRECHECK"] = JudgeRuntime(market, "LIVE_PRECHECK")
          BY <2>3 DEF Judge, Modes
      <4> QED BY <3>2, <4>1, SameRehearsal
    <3> QED BY <3>1, <3>2 DEF AcceptedIsSafe, Clean
  <2> QED BY <2>2, <2>3 DEF DecisionInv
<1> QED BY <1>1, DecisionInductive, PTL
=============================================================================

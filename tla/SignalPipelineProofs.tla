-------------------------- MODULE SignalPipelineProofs --------------------------
(***************************************************************************)
(* Proofs about SignalPipeline for every set of symbols, span of a setup,  *)
(* position limit and bound, and for lookups that fail or not; and about   *)
(* MultiTimeframe for every length of its frames, age and bound.           *)
(***************************************************************************)
EXTENDS SignalPipeline, MultiTimeframe, FiniteSetTheorems, TLAPS

InProcess == {"align", "risk", "reject", "score", "execute", "opened", "evidence"}
Undecided == {"align", "risk", "reject", "score", "execute"}

\* The candidate in hand is one the scan has selected and not finished, and a
\* reject on its way has a row.
Progress ==
    /\ scan.pc \in InProcess => Sym \in scan.todo /\ Candle > 0
    /\ scan.pc = "reject" => scan.row \in RejectRows

\* A setup candle is not after the execution candle it belongs to.
LEMMA SetupOfType ==
    ASSUME NEW c \in 0 .. MaxCandle
    PROVE  SetupOf(c) \in 0 .. MaxCandle
<1>1. c \in Nat /\ SetupSpan \in Nat \ {0} /\ MaxCandle \in Nat
    BY PipelineAssumption
<1> DEFINE q == c \div SetupSpan
<1>2. q \in Nat /\ c = SetupSpan * q + (c % SetupSpan) /\ c % SetupSpan \in Nat
    BY <1>1
<1>3. q <= SetupSpan * q
    BY <1>1, <1>2
<1>4. q <= c
    BY <1>1, <1>2, <1>3
<1> QED
    BY <1>1, <1>2, <1>4 DEF SetupOf

\* The signal is done: what _process_symbol leaves behind on every way out.
LEMMA FinishEffect ==
    ASSUME TypeOK, NEW s \in Symbols, Finish(s)
    PROVE  /\ scan' \in Scans /\ latest' \in [Symbols -> 0 .. MaxCandle]
           /\ scan'.pc = "next" /\ scan'.life = "NONE"
<1>1. scan \in Scans /\ latest \in [Symbols -> 0 .. MaxCandle]
    BY DEF TypeOK
<1>2. scan.seen[s] \in 0 .. MaxCandle /\ 0 \in 0 .. MaxCandle
    BY <1>1, PipelineAssumption DEF Scans
<1>3. [scan.seen EXCEPT ![s] = 0] \in [Symbols -> 0 .. MaxCandle]
    BY <1>1, <1>2 DEF Scans
<1>4. scan' = [scan EXCEPT !.pc = "next", !.todo = scan.todo \ {s},
                 !.seen = [scan.seen EXCEPT ![s] = 0], !.sym = "NONE", !.row = NoRow, !.life = "NONE"]
    BY <1>1 DEF Finish, Scans
<1>5. scan' \in Scans /\ scan'.pc = "next" /\ scan'.life = "NONE"
    BY <1>1, <1>3, <1>4 DEF Scans, Pcs, LifeStates
<1> QED
    BY <1>1, <1>2, <1>5 DEF Finish

\* The candidate in hand has a symbol, a candle and a setup.
LEMMA InHand ==
    ASSUME TypeOK, Progress, scan.pc \in InProcess
    PROVE  /\ Sym \in Symbols /\ Sym \in scan.todo
           /\ Candle \in 1 .. MaxCandle /\ SetupOf(Candle) \in 0 .. MaxCandle
           /\ Setup \in Symbols \X (0 .. MaxCandle)
<1>1. Sym \in Symbols /\ Sym \in scan.todo
    BY DEF Progress, TypeOK, Scans
<1>2. Candle \in 1 .. MaxCandle
    BY <1>1, PipelineAssumption DEF Progress, TypeOK, Scans, Candle, Sym
<1>3. SetupOf(Candle) \in 0 .. MaxCandle
    BY <1>2, SetupOfType
<1> QED
    BY <1>1, <1>2, <1>3 DEF Setup

\* A gate says no: the rows are not touched yet, the reject is on its way.
Refuses ==
    /\ scan.pc \in {"align", "risk", "score"}
    /\ \E sig \in {CandleSignal(Sym, Candle), SetupSignal(Sym, Candle)},
          episode \in {0, active[Sym]}, created \in BOOLEAN :
          /\ Refuse(sig, episode, created)
          /\ episode # 0 => ~EpisodeRecorded(Sym, Candle) \/ "episode" \in LookupFaults
    /\ refused' \in {refused, refused \cup {Setup}}

\* A signal is passed over, given up or decided without a row.
Passes ==
    /\ scan.pc \in {"next", "align", "risk", "reject", "score", "execute", "evidence"}
    /\ \E s \in scan.todo : Finish(s)
    /\ UNCHANGED <<market, run, crashes, active, rows>>
    /\ scan.pc \in InProcess => accepted' \in {accepted, accepted \cup {Setup}}
                                /\ refused' \in {refused, refused \cup {Setup}}
    /\ scan.pc \notin InProcess => UNCHANGED <<accepted, refused>>

\* The steps of the pipeline, by what they do to rows and memory.
LEMMA Kinds ==
    ASSUME TypeOK, Progress, Next
    PROVE  \/ ScanBegin \/ ScanBlocked \/ ScanSelected \/ ScanEnd
           \/ \E s \in Symbols : SkipReplayed(s) \/ ProcessBegin(s)
           \/ Passes \/ Refuses
           \/ Aligned \/ RiskPassed \/ Accept
           \/ RejectPersisted \/ Fill \/ Opened \/ VerdictPersisted
           \/ Environment
<1>1. scan.pc \in InProcess => Sym \in scan.todo
    BY DEF Progress
<1>2. ASSUME NEW s \in Symbols, ProcessSkipped(s) PROVE Passes
    BY <1>2 DEF ProcessSkipped, Passes, InProcess
<1>3. CASE SetupGateRepeated \/ SetupSpent \/ GeometryDiagnosed \/ DuplicateRepeated \/ ScoreRaises
    BY <1>1, <1>3 DEF SetupGateRepeated, SetupSpent, GeometryDiagnosed, DuplicateRepeated, ScoreRaises,
                      Passes, InProcess
<1>4. CASE RejectBusy \/ ExecuteBlocked \/ FillBusy \/ VerdictLost
    BY <1>1, <1>4 DEF RejectBusy, ExecuteBlocked, FillBusy, VerdictLost, Passes, InProcess
<1>5. CASE SetupGateRejects \/ AlignmentRejects \/ GeometryRejects \/ GuidedStopRejects \/ RiskRejects
    BY <1>5 DEF SetupGateRejects, AlignmentRejects, GeometryRejects, GuidedStopRejects, RiskRejects, Refuses
<1>6. CASE DuplicateRejects
    BY <1>6 DEF DuplicateRejects, Refuses
<1>7. CASE Unconvinced
    BY <1>7 DEF Unconvinced, Refuses
<1>8. CASE Scan
    BY <1>2, <1>8 DEF Scan
<1>9. CASE Gates
    BY <1>3, <1>5, <1>6, <1>7, <1>9 DEF Gates, PreScoreRejects, BrainRejects, QualityRejects,
                                        SizingRejects, AllocationRejects
<1>10. CASE Writes
    BY <1>4, <1>10 DEF Writes
<1> QED
    BY <1>8, <1>9, <1>10 DEF Next

\* A reject on its way carries the identity of the candidate in hand.
LEMMA RefusesEffect ==
    ASSUME TypeOK, Progress, Refuses
    PROVE  /\ scan' \in Scans /\ scan'.pc = "reject"
           /\ scan'.sym = Sym /\ scan'.seen = scan.seen /\ scan'.todo = scan.todo
           /\ scan'.row \in RejectRows
           /\ \E sig \in {CandleSignal(Sym, Candle), SetupSignal(Sym, Candle)}, episode \in {0, active[Sym]} :
                 /\ scan'.row = RejectRow(sig, Candle, episode)
                 /\ episode # 0 => ~EpisodeRecorded(Sym, Candle) \/ "episode" \in LookupFaults
           /\ UNCHANGED <<market, run, crashes, latest, active, accepted, rows>>
           /\ refused' \in {refused, refused \cup {Setup}}
<1>1. /\ Sym \in Symbols /\ Candle \in 1 .. MaxCandle /\ SetupOf(Candle) \in 0 .. MaxCandle
      /\ active[Sym] \in 0 .. MaxFills /\ run \in 1 .. MaxRun /\ scan \in Scans
    BY InHand DEF Refuses, InProcess, TypeOK
<1>2. PICK sig \in {CandleSignal(Sym, Candle), SetupSignal(Sym, Candle)},
           episode \in {0, active[Sym]}, created \in BOOLEAN :
             /\ Refuse(sig, episode, created)
             /\ episode # 0 => ~EpisodeRecorded(Sym, Candle) \/ "episode" \in LookupFaults
    BY DEF Refuses
<1>3. RejectRow(sig, Candle, episode) \in RejectRows
    BY <1>1, PipelineAssumption DEF RejectRow, RejectRows, CandleSignal, SetupSignal
<1>4. \A old, event \in LifeStates : Emit(old, event) \in LifeStates
    BY DEF Emit, LifeStates
<1>5. PICK life \in LifeStates :
        scan' = [scan EXCEPT !.pc = "reject", !.row = RejectRow(sig, Candle, episode), !.life = life]
    <2>1. scan.life \in LifeStates /\ "SIGNAL_CREATED" \in LifeStates
        BY <1>1 DEF Scans, LifeStates
    <2>2. (IF created THEN Emit(scan.life, "SIGNAL_CREATED") ELSE scan.life) \in LifeStates
        BY <1>4, <2>1
    <2> QED
        BY <1>2, <2>2 DEF Refuse
<1>6. /\ scan' \in Scans /\ scan'.pc = "reject" /\ scan'.row = RejectRow(sig, Candle, episode)
      /\ scan'.sym = Sym /\ scan'.seen = scan.seen /\ scan'.todo = scan.todo
    BY <1>1, <1>3, <1>5 DEF Scans, Pcs, Sym
<1>7. UNCHANGED <<market, run, crashes, latest, active, accepted, rows>>
    BY <1>2 DEF Refuse
<1> QED
    BY <1>2, <1>3, <1>6, <1>7 DEF Refuses

\* A step along the gates moves the program counter and the lifecycle only.
LEMMA MoveEffect ==
    ASSUME TypeOK, NEW pc \in Pcs, NEW life \in LifeStates,
           scan' = [scan EXCEPT !.pc = pc, !.life = life]
    PROVE  /\ scan' \in Scans /\ scan'.pc = pc /\ scan'.life = life
           /\ scan'.sym = scan.sym /\ scan'.seen = scan.seen /\ scan'.todo = scan.todo
           /\ scan'.row = scan.row
BY DEF TypeOK, Scans

\* The lifecycle of a signal that is filled.
LEMMA Lifecycle ==
    /\ Emit("NONE", "SIGNAL_CREATED") = "SIGNAL_CREATED"
    /\ Emit("SIGNAL_CREATED", "WAITING_ENTRY_ZONE") = "WAITING_ENTRY_ZONE"
    /\ Emit("WAITING_ENTRY_ZONE", "ENTRY_TRIGGERED") = "ENTRY_TRIGGERED"
    /\ Emit("ENTRY_TRIGGERED", "ORDER_PLACED") = "ORDER_PLACED"
    /\ Emit("ORDER_PLACED", "POSITION_OPENED") = "POSITION_OPENED"
    /\ \A old, event \in LifeStates : Emit(old, event) \in LifeStates
BY DEF Emit, Follows, LifeStates

\* What a step on the way to a fill does to the scan.
LEMMA WayEffect ==
    ASSUME TypeOK
    PROVE  /\ Aligned => scan.pc = "align" /\ scan' \in Scans /\ scan'.pc = "risk" /\ scan'.life = scan.life
           /\ RiskPassed => scan.pc = "risk" /\ scan' \in Scans /\ scan'.pc = "score"
                            /\ scan'.life = Emit(scan.life, "SIGNAL_CREATED")
           /\ Accept => scan.pc = "score" /\ scan' \in Scans /\ scan'.pc = "execute"
                        /\ scan'.life = Emit(Emit(scan.life, "WAITING_ENTRY_ZONE"), "ENTRY_TRIGGERED")
           /\ Fill => scan.pc = "execute" /\ scan' \in Scans /\ scan'.pc = "opened"
                      /\ scan'.life = Emit(scan.life, "ORDER_PLACED")
           /\ Opened => scan.pc = "opened" /\ scan' \in Scans /\ scan'.pc = "evidence"
                        /\ scan'.life = Emit(scan.life, "POSITION_OPENED")
           /\ Aligned \/ RiskPassed \/ Accept \/ Fill \/ Opened =>
                scan'.sym = scan.sym /\ scan'.seen = scan.seen /\ scan'.todo = scan.todo
<1>1. scan \in Scans /\ scan.life \in LifeStates
    BY DEF TypeOK, Scans
<1>2. {"SIGNAL_CREATED", "WAITING_ENTRY_ZONE", "ENTRY_TRIGGERED", "ORDER_PLACED", "POSITION_OPENED"}
        \subseteq LifeStates
    BY DEF LifeStates
<1>3. {"risk", "score", "execute", "opened", "evidence"} \subseteq Pcs
    BY DEF Pcs
<1>4. CASE Aligned
    <2>1. scan' = [scan EXCEPT !.pc = "risk", !.life = scan.life]
        BY <1>1, <1>4 DEF Aligned, Scans
    <2> QED
        BY <1>1, <1>3, <1>4, <2>1, MoveEffect DEF Aligned, RiskPassed, Accept, Fill, Opened
<1>5. CASE RiskPassed
    BY <1>1, <1>2, <1>3, <1>5, MoveEffect, Lifecycle DEF Aligned, RiskPassed, Accept, Fill, Opened
<1>6. CASE Accept
    BY <1>1, <1>2, <1>3, <1>6, MoveEffect, Lifecycle DEF Aligned, RiskPassed, Accept, Fill, Opened
<1>7. CASE Fill
    BY <1>1, <1>2, <1>3, <1>7, MoveEffect, Lifecycle DEF Aligned, RiskPassed, Accept, Fill, Opened
<1>8. CASE Opened
    BY <1>1, <1>2, <1>3, <1>8, MoveEffect, Lifecycle DEF Aligned, RiskPassed, Accept, Fill, Opened
<1> QED
    BY <1>4, <1>5, <1>6, <1>7, <1>8

\* What the loop around the candidates does to the scan.
LEMMA LoopEffect ==
    ASSUME TypeOK
    PROVE  /\ Idle \in Scans
           /\ ScanBegin => scan.pc = "idle" /\ scan' \in Scans /\ scan'.pc = "scanning" /\ scan'.life = scan.life
           /\ ScanSelected => scan' \in Scans /\ scan'.pc = "next" /\ scan'.life = scan.life
           /\ \A s \in Symbols :
                /\ SkipReplayed(s) => scan' \in Scans /\ scan'.pc = "next" /\ scan'.life = scan.life
                /\ ProcessBegin(s) => /\ scan' \in Scans /\ scan'.pc = "align" /\ scan'.life = scan.life
                                      /\ scan'.sym = s /\ scan'.seen = scan.seen /\ scan'.todo = scan.todo
                                      /\ s \in scan.todo /\ scan.seen[s] > 0
<1>1. scan \in Scans /\ 0 \in 0 .. MaxCandle
    BY PipelineAssumption DEF TypeOK
<1>2. Idle \in Scans
    <2>1. [s \in Symbols |-> 0] \in [Symbols -> 0 .. MaxCandle]
        BY <1>1
    <2>2. {} \in SUBSET Symbols /\ "idle" \in Pcs /\ "NONE" \in LifeStates
        BY DEF Pcs, LifeStates
    <2> QED
        BY <2>1, <2>2 DEF Idle, Scans
<1>3. ASSUME ScanBegin
      PROVE  scan.pc = "idle" /\ scan' \in Scans /\ scan'.pc = "scanning" /\ scan'.life = scan.life
    BY <1>1, <1>3 DEF ScanBegin, Scans, Pcs
<1>4. ASSUME ScanSelected PROVE scan' \in Scans /\ scan'.pc = "next" /\ scan'.life = scan.life
    <2>1. PICK chosen \in SUBSET Symbols :
            scan' = [scan EXCEPT !.pc = "next", !.todo = chosen, !.seen = Allocated(chosen)]
        BY <1>4 DEF ScanSelected
    <2>2. Allocated(chosen) \in [Symbols -> 0 .. MaxCandle]
        <3>1. \A s \in Symbols : market[s] \in 0 .. MaxCandle
            BY DEF TypeOK
        <3> QED
            BY <1>1, <3>1 DEF Allocated
    <2> QED
        BY <1>1, <2>1, <2>2 DEF Scans, Pcs
<1>5. ASSUME NEW s \in Symbols, SkipReplayed(s)
      PROVE  scan' \in Scans /\ scan'.pc = "next" /\ scan'.life = scan.life
    <2>1. scan' = [scan EXCEPT !.todo = scan.todo \ {s}, !.seen = [scan.seen EXCEPT ![s] = 0]]
        BY <1>1, <1>5 DEF SkipReplayed, Scans
    <2>2. [scan.seen EXCEPT ![s] = 0] \in [Symbols -> 0 .. MaxCandle]
        BY <1>1 DEF Scans
    <2> QED
        BY <1>1, <1>5, <2>1, <2>2 DEF Scans, SkipReplayed
<1>6. ASSUME NEW s \in Symbols, ProcessBegin(s)
      PROVE  /\ scan' \in Scans /\ scan'.pc = "align" /\ scan'.life = scan.life
             /\ scan'.sym = s /\ scan'.seen = scan.seen /\ scan'.todo = scan.todo
             /\ s \in scan.todo /\ scan.seen[s] > 0
    <2>1. scan' = [scan EXCEPT !.pc = "align", !.sym = s] /\ s \in scan.todo /\ scan.seen[s] > latest[s]
        BY <1>6 DEF ProcessBegin
    <2>2. scan.seen[s] \in 0 .. MaxCandle /\ latest[s] \in 0 .. MaxCandle
        BY <1>1 DEF TypeOK, Scans
    <2>3. scan.seen[s] > 0
        BY <2>1, <2>2, PipelineAssumption
    <2> QED
        BY <1>1, <2>1, <2>3 DEF Scans, Pcs
<1> QED
    BY <1>2, <1>3, <1>4, <1>5, <1>6

-----------------------------------------------------------------------------
(* The position rows.                                                      *)

\* Rows are numbered in the order of their fills and never deleted.
Counted ==
    /\ IsFiniteSet(trades) /\ Fills <= MaxFills
    /\ \A t \in trades : t.id \in 1 .. Fills
    /\ \A t, u \in trades : t.id = u.id => t = u

NewTrade == [id |-> Fills + 1, sym |-> Sym, candle |-> Candle, run |-> run, open |-> TRUE]
SameKey(t, u) == t.id = u.id /\ t.sym = u.sym /\ t.candle = u.candle /\ t.run = u.run

\* A fill adds one row, with a number of its own.
LEMMA FillRows ==
    ASSUME TypeOK, Progress, Counted, Fill
    PROVE  /\ NewTrade \in TradeRows /\ NewTrade \notin trades
           /\ trades' = trades \cup {NewTrade}
           /\ Fills' = Fills + 1 /\ Counted'
<1>1. Fills \in Nat /\ Fills < MaxFills /\ MaxFills \in Nat /\ trades' = trades \cup {NewTrade}
    BY FS_CardinalityType, PipelineAssumption DEF Counted, Fills, Fill, NewTrade
<1>2. NewTrade.id = Fills + 1 /\ NewTrade \notin trades
    BY <1>1 DEF Counted, NewTrade
<1>3. Sym \in Symbols /\ Candle \in 1 .. MaxCandle /\ run \in 1 .. MaxRun
    BY InHand DEF Fill, InProcess, TypeOK
<1>4. NewTrade \in TradeRows
    BY <1>1, <1>3 DEF NewTrade, TradeRows
<1>5. IsFiniteSet(trades') /\ Fills' = Fills + 1
    BY <1>1, <1>2, FS_AddElement DEF Counted, Fills
<1>6. \A t \in trades' : t.id \in 1 .. Fills'
    BY <1>1, <1>2, <1>5 DEF Counted
<1>7. \A t, u \in trades' : t.id = u.id => t = u
    BY <1>1, <1>2 DEF Counted
<1> QED
    BY <1>1, <1>2, <1>4, <1>5, <1>6, <1>7 DEF Counted

\* The resolver closes one row and changes nothing else about it.
LEMMA CloseRows ==
    ASSUME TypeOK, Counted, NEW t \in trades, ResolverCloses(t)
    PROVE  /\ trades' \subseteq TradeRows /\ Fills' = Fills /\ Counted'
           /\ OpenTrades' = OpenTrades \ {t}
           /\ \A x \in trades' : \E y \in trades : SameKey(x, y)
           /\ \A y \in trades : \E x \in trades' : SameKey(x, y)
<1> DEFINE closed == [t EXCEPT !.open = FALSE]
<1>1. t \in TradeRows /\ trades \subseteq TradeRows /\ t.open = TRUE
    BY DEF TypeOK, ResolverCloses, TradeRows
<1>2. closed \in TradeRows /\ SameKey(closed, t) /\ closed.open = FALSE
    BY <1>1 DEF TradeRows, SameKey
<1>3. trades' = (trades \ {t}) \cup {closed}
    BY DEF ResolverCloses
<1>4. closed \notin trades
    BY <1>1, <1>2 DEF Counted, SameKey
<1>5. IsFiniteSet(trades') /\ Fills' = Fills
    <2>1. IsFiniteSet(trades \ {t}) /\ Cardinality(trades \ {t}) = Cardinality(trades) - 1
        BY FS_RemoveElement DEF Counted
    <2>2. IsFiniteSet(trades') /\ Cardinality(trades') = Cardinality(trades \ {t}) + 1
        BY <1>3, <1>4, <2>1, FS_AddElement
    <2>3. Cardinality(trades) \in Nat
        BY FS_CardinalityType DEF Counted
    <2> QED
        BY <2>1, <2>2, <2>3 DEF Fills
<1>6. \A x \in trades' : x.id \in 1 .. Fills'
    BY <1>2, <1>3, <1>5 DEF Counted, SameKey
<1>7. \A x, y \in trades' : x.id = y.id => x = y
    <2>1. \A x \in trades \ {t} : x.id # closed.id
        BY <1>2 DEF Counted, SameKey
    <2>2. \A x, y \in trades \ {t} : x.id = y.id => x = y
        BY DEF Counted
    <2> HIDE DEF closed
    <2> QED
        BY <1>3, <2>1, <2>2
<1>8. \A x \in trades' : \E y \in trades : SameKey(x, y)
    BY <1>2, <1>3 DEF SameKey
<1>9. \A y \in trades : \E x \in trades' : SameKey(x, y)
    <2> SUFFICES ASSUME NEW y \in trades PROVE \E x \in trades' : SameKey(x, y)
        OBVIOUS
    <2>1. CASE y = t
        BY <1>2, <1>3, <2>1
    <2>2. CASE y # t
        BY <1>3, <2>2 DEF SameKey
    <2> QED
        BY <2>1, <2>2
<1>10. OpenTrades' = OpenTrades \ {t}
    <2>1. OpenTrades' = {x \in trades' : x.open}
        BY DEF OpenTrades
    <2>2. ASSUME NEW x \in OpenTrades' PROVE x \in OpenTrades \ {t}
        <3>1. x \in trades' /\ x.open /\ x # closed
            BY <1>2, <2>1, <2>2
        <3> QED
            BY <1>3, <3>1 DEF OpenTrades
    <2>3. ASSUME NEW x \in OpenTrades \ {t} PROVE x \in OpenTrades'
        <3>1. x \in trades /\ x # t /\ x.open
            BY <2>3 DEF OpenTrades
        <3> QED
            BY <1>3, <2>1, <3>1
    <2> QED
        BY <2>2, <2>3
<1>11. trades' \subseteq TradeRows
    BY <1>1, <1>2, <1>3
<1> QED
    BY <1>5, <1>6, <1>7, <1>8, <1>9, <1>10, <1>11 DEF Counted

\* The memory a scan begins with names the OPEN rows.
LEMMA SyncedType == ASSUME TypeOK PROVE Synced \in [Symbols -> 0 .. MaxFills]
<1>1. ASSUME NEW s \in Symbols, OpenIn(s) # {} PROVE (CHOOSE t \in OpenIn(s) : TRUE).id \in 1 .. MaxFills
    <2>1. (CHOOSE t \in OpenIn(s) : TRUE) \in OpenIn(s)
        BY <1>1
    <2>2. OpenIn(s) \subseteq TradeRows
        BY DEF OpenIn, OpenTrades, TypeOK
    <2> QED
        BY <2>1, <2>2 DEF TradeRows
<1> QED
    BY <1>1, PipelineAssumption DEF Synced

-----------------------------------------------------------------------------
(* Types.                                                                  *)

Base == TypeOK /\ Progress /\ Counted

\* Every step keeps the types, the candidate in hand and the numbering.
LEMMA StepBase == Base /\ Next => Base'
<1> SUFFICES ASSUME Base, Next PROVE Base'
    OBVIOUS
<1> USE DEF Base
<1>1. ASSUME UNCHANGED trades PROVE Counted'
    BY <1>1 DEF Counted, Fills
<1>2. CASE ScanBegin
    <2>1. active' \in [Symbols -> 0 .. MaxFills]
        BY <1>2, SyncedType DEF ScanBegin
    <2>2. Progress'
        BY <1>2, LoopEffect DEF Progress, InProcess
    <2> QED
        BY <1>1, <1>2, <2>1, <2>2, LoopEffect DEF ScanBegin, TypeOK, rows
<1>3. CASE ScanBlocked \/ ScanEnd
    <2>1. scan' = Idle /\ scan'.pc = "idle"
        BY <1>3 DEF ScanBlocked, ScanEnd, Idle
    <2>2. Progress'
        BY <2>1 DEF Progress, InProcess
    <2> QED
        BY <1>1, <1>3, <2>1, <2>2, LoopEffect DEF ScanBlocked, ScanEnd, TypeOK, rows, memory
<1>4. CASE ScanSelected
    <2>1. Progress'
        BY <1>4, LoopEffect DEF Progress, InProcess
    <2> QED
        BY <1>1, <1>4, <2>1, LoopEffect DEF ScanSelected, TypeOK, rows, memory
<1>5. ASSUME NEW s \in Symbols, SkipReplayed(s) PROVE Base'
    <2>1. Progress'
        BY <1>5, LoopEffect DEF Progress, InProcess
    <2> QED
        BY <1>1, <1>5, <2>1, LoopEffect DEF SkipReplayed, TypeOK, rows, memory
<1>6. ASSUME NEW s \in Symbols, ProcessBegin(s) PROVE Base'
    <2>1. Progress'
        BY <1>6, LoopEffect DEF Progress, Sym, Candle
    <2> QED
        BY <1>1, <1>6, <2>1, LoopEffect DEF ProcessBegin, TypeOK, rows, memory
<1>7. CASE Passes
    <2>1. PICK s \in scan.todo : Finish(s)
        BY <1>7 DEF Passes
    <2>2. s \in Symbols
        BY DEF TypeOK, Scans
    <2>3. Progress'
        BY <2>1, <2>2, FinishEffect DEF Progress, InProcess
    <2>4. accepted' \subseteq Symbols \X (0 .. MaxCandle) /\ refused' \subseteq Symbols \X (0 .. MaxCandle)
        BY <1>7, InHand DEF Passes, TypeOK
    <2> QED
        BY <1>1, <1>7, <2>1, <2>2, <2>3, <2>4, FinishEffect DEF Passes, TypeOK, rows
<1>8. CASE Refuses
    <2>1. scan.pc \in InProcess
        BY <1>8 DEF Refuses, InProcess
    <2>2. Progress'
        BY <1>8, <2>1, RefusesEffect DEF Progress, Sym, Candle
    <2>3. refused' \subseteq Symbols \X (0 .. MaxCandle)
        BY <1>8, <2>1, RefusesEffect, InHand DEF TypeOK
    <2> QED
        BY <1>1, <1>8, <2>2, <2>3, RefusesEffect DEF TypeOK, rows
<1>9. CASE Aligned \/ RiskPassed \/ Accept
    <2>1. scan.pc \in InProcess
        BY <1>9 DEF Aligned, RiskPassed, Accept, InProcess
    <2>2. Progress'
        BY <1>9, <2>1, WayEffect DEF Progress, Sym, Candle
    <2>3. accepted' \subseteq Symbols \X (0 .. MaxCandle)
        BY <1>9, <2>1, InHand DEF Aligned, RiskPassed, Accept, TypeOK, memory
    <2> QED
        BY <1>1, <1>9, <2>2, <2>3, WayEffect DEF Aligned, RiskPassed, Accept, TypeOK, rows, memory
<1>10. CASE RejectPersisted
    <2>0. scan.row \in RejectRows
        BY <1>10 DEF RejectPersisted, Progress
    <2>1. Sym \in Symbols
        BY <1>10, InHand DEF RejectPersisted, InProcess
    <2>2. Progress'
        BY <1>10, <2>1, FinishEffect DEF RejectPersisted, Progress, InProcess
    <2>3. rejects' \subseteq RejectRows
        BY <1>10, <2>0 DEF RejectPersisted, TypeOK
    <2> QED
        BY <1>1, <1>10, <2>1, <2>2, <2>3, FinishEffect DEF RejectPersisted, TypeOK
<1>11. CASE Fill
    <2>1. Progress'
        BY <1>11, WayEffect DEF Progress, InProcess, Sym, Candle, Fill
    <2>2. trades' \subseteq TradeRows /\ Counted'
        BY <1>11, FillRows DEF TypeOK
    <2> QED
        BY <1>11, <2>1, <2>2, WayEffect DEF Fill, TypeOK
<1>12. CASE Opened
    <2>1. Progress'
        BY <1>12, WayEffect DEF Progress, InProcess, Sym, Candle
    <2>2. Fills \in 0 .. MaxFills
        BY FS_CardinalityType, PipelineAssumption DEF Counted, Fills
    <2>3. active' \in [Symbols -> 0 .. MaxFills]
        BY <1>12, <2>2 DEF Opened, TypeOK
    <2> QED
        BY <1>1, <1>12, <2>1, <2>3, WayEffect DEF Opened, TypeOK, rows
<1>13. CASE VerdictPersisted
    <2>1. Sym \in Symbols /\ Candle \in 1 .. MaxCandle
        BY <1>13, InHand DEF VerdictPersisted, InProcess
    <2>2. Progress'
        BY <1>13, <2>1, FinishEffect DEF VerdictPersisted, Progress, InProcess
    <2>3. [sig |-> CandleSignal(Sym, Candle), run |-> run] \in [sig : Signals, run : 1 .. MaxRun]
        BY <2>1, PipelineAssumption DEF CandleSignal, Signals, TypeOK
    <2> QED
        BY <1>1, <1>13, <2>1, <2>2, <2>3, FinishEffect DEF VerdictPersisted, TypeOK
<1>14. CASE Restart
    <2>1. scan' = Idle /\ scan'.pc = "idle"
        BY <1>14 DEF Restart, Idle
    <2>2. /\ latest' \in [Symbols -> 0 .. MaxCandle] /\ active' \in [Symbols -> 0 .. MaxFills]
          /\ accepted' = {} /\ refused' = {}
        BY <1>14, PipelineAssumption DEF Restart, NoMemory
    <2>3. run' \in 1 .. MaxRun /\ crashes' \in 0 .. MaxCrash
        BY <1>14, PipelineAssumption DEF Restart, TypeOK
    <2> QED
        BY <1>1, <1>14, <2>1, <2>2, <2>3, LoopEffect DEF Restart, TypeOK, Progress, InProcess, rows
<1>15. ASSUME NEW t \in trades, ResolverCloses(t) PROVE Base'
    <2>1. Progress'
        BY <1>15 DEF ResolverCloses, Progress, Sym, Candle
    <2> QED
        BY <1>15, <2>1, CloseRows DEF ResolverCloses, TypeOK, memory
<1>16. ASSUME NEW s \in Symbols, CandleCloses(s) PROVE Base'
    <2>1. Progress'
        BY <1>16 DEF CandleCloses, Progress, Sym, Candle
    <2>2. market' \in [Symbols -> 0 .. MaxCandle]
        BY <1>16, PipelineAssumption DEF CandleCloses, TypeOK
    <2> QED
        BY <1>1, <1>16, <2>1, <2>2 DEF CandleCloses, TypeOK, memory, rows
<1> QED
    BY <1>2, <1>3, <1>4, <1>5, <1>6, <1>7, <1>8, <1>9, <1>10, <1>11, <1>12, <1>13, <1>14, <1>15, <1>16,
       Kinds DEF Environment

-----------------------------------------------------------------------------
(* Decisions.                                                              *)

IsOf(t, r, s, c) == t.run = r /\ t.sym = s /\ t.candle = c

\* Until it is decided, nothing is recorded of the candle in hand.
Free ==
    scan.pc \in Undecided =>
        /\ \A t \in trades : ~IsOf(t, run, Sym, Candle)
        /\ \A r \in rejects : r.run = run => SignalOf(r) # CandleSignal(Sym, Candle)

\* A reject on its way is about the candle in hand or about its setup.
RowOK ==
    scan.pc = "reject" =>
        scan.row.run = run /\ (scan.row.kind = "setup" \/ SignalOf(scan.row) = CandleSignal(Sym, Candle))

\* Behind the fill, the position is there and the lifecycle has kept step.
Bought == scan.pc \in {"opened", "evidence"} => \E t \in trades : IsOf(t, run, Sym, Candle)
LifeOK ==
    /\ scan.pc \in {"idle", "scanning", "next", "align", "risk"} => scan.life = "NONE"
    /\ scan.pc = "score" => scan.life = "SIGNAL_CREATED"
    /\ scan.pc = "execute" => scan.life = "ENTRY_TRIGGERED"
    /\ scan.pc = "opened" => scan.life = "ORDER_PLACED"
    /\ scan.pc = "evidence" => scan.life = "POSITION_OPENED"

VerdictBacked ==
    \A v \in verdicts : \E t \in trades : t.run = v.run /\ CandleSignal(t.sym, t.candle) = v.sig

Decisions == Free /\ RowOK /\ Bought /\ DecidedOnce /\ VerdictBacked

\* The lifecycle keeps step with the gates.
LEMMA StepLife == Base /\ LifeOK /\ Next => LifeOK'
<1> SUFFICES ASSUME Base, LifeOK, Next PROVE LifeOK'
    OBVIOUS
<1> USE DEF Base
<1>1. CASE ScanBegin \/ ScanSelected
    <2>1. scan.life = "NONE"
        BY <1>1 DEF LifeOK, ScanBegin, ScanSelected
    <2> QED
        BY <1>1, <2>1, LoopEffect DEF LifeOK
<1>2. CASE ScanBlocked \/ ScanEnd \/ Restart
    <2>1. scan'.pc = "idle" /\ scan'.life = "NONE"
        BY <1>2 DEF ScanBlocked, ScanEnd, Restart, Idle
    <2> QED
        BY <2>1 DEF LifeOK
<1>3. ASSUME NEW s \in Symbols, SkipReplayed(s) \/ ProcessBegin(s) PROVE LifeOK'
    <2>1. scan.life = "NONE"
        BY <1>3 DEF LifeOK, SkipReplayed, ProcessBegin
    <2> QED
        BY <1>3, <2>1, LoopEffect DEF LifeOK
<1>4. CASE Passes
    <2>1. \E s \in Symbols : Finish(s)
        BY <1>4 DEF Passes, TypeOK, Scans
    <2> QED
        BY <2>1, FinishEffect DEF LifeOK
<1>5. CASE Refuses
    BY <1>5, RefusesEffect DEF LifeOK
<1>6. CASE Aligned \/ RiskPassed \/ Accept
    BY <1>6, WayEffect, Lifecycle DEF LifeOK
<1>7. CASE Fill \/ Opened
    BY <1>7, WayEffect, Lifecycle DEF LifeOK
<1>8. CASE RejectPersisted \/ VerdictPersisted
    <2>1. Sym \in Symbols
        BY <1>8, InHand DEF RejectPersisted, VerdictPersisted, InProcess
    <2> QED
        BY <1>8, <2>1, FinishEffect DEF LifeOK, RejectPersisted, VerdictPersisted
<1>9. ASSUME NEW t \in trades, ResolverCloses(t) PROVE LifeOK'
    BY <1>9 DEF ResolverCloses, LifeOK
<1>10. ASSUME NEW s \in Symbols, CandleCloses(s) PROVE LifeOK'
    BY <1>10 DEF CandleCloses, LifeOK
<1> QED
    BY <1>1, <1>2, <1>3, <1>4, <1>5, <1>6, <1>7, <1>8, <1>9, <1>10, Kinds DEF Environment

\* Every step decides the candle in hand at most once.
LEMMA StepDecisions == Base /\ Decisions /\ Next => Decisions'
<1> SUFFICES ASSUME Base, Decisions, Next PROVE Decisions'
    OBVIOUS
<1> USE DEF Base, Decisions
<1>1. ASSUME UNCHANGED <<rejects, verdicts, trades>> PROVE DecidedOnce' /\ VerdictBacked'
    BY <1>1 DEF DecidedOnce, VerdictBacked
<1>2. ASSUME scan'.pc \notin InProcess PROVE Free' /\ RowOK' /\ Bought'
    BY <1>2 DEF InProcess, Undecided, Free, RowOK, Bought
<1>3. CASE ScanBegin \/ ScanSelected
    <2>1. scan'.pc \notin InProcess
        BY <1>3, LoopEffect DEF InProcess
    <2> QED
        BY <1>1, <1>2, <1>3, <2>1 DEF ScanBegin, ScanSelected, rows
<1>4. CASE ScanBlocked \/ ScanEnd \/ Restart
    <2>1. scan'.pc \notin InProcess
        BY <1>4 DEF ScanBlocked, ScanEnd, Restart, Idle, InProcess
    <2> QED
        BY <1>1, <1>2, <1>4, <2>1 DEF ScanBlocked, ScanEnd, Restart, rows
<1>5. ASSUME NEW s \in Symbols, SkipReplayed(s) PROVE Decisions'
    <2>1. scan'.pc \notin InProcess
        BY <1>5, LoopEffect DEF InProcess
    <2> QED
        BY <1>1, <1>2, <1>5, <2>1 DEF SkipReplayed, rows
<1>6. ASSUME NEW s \in Symbols, ProcessBegin(s) PROVE Decisions'
    <2>1. /\ scan'.pc = "align" /\ Sym' = s /\ Candle' = scan.seen[s]
          /\ UNCHANGED <<run, trades, rejects, verdicts>> /\ ~Recorded(s, scan.seen[s])
        BY <1>6, LoopEffect DEF Sym, Candle, ProcessBegin, rows
    <2>2. Free'
        BY <2>1 DEF Free, Recorded, IsOf
    <2> QED
        BY <1>1, <2>1, <2>2 DEF RowOK, Bought
<1>7. CASE Passes
    <2>1. \E s \in Symbols : Finish(s)
        BY <1>7 DEF Passes, TypeOK, Scans
    <2>2. scan'.pc \notin InProcess
        BY <2>1, FinishEffect DEF InProcess
    <2> QED
        BY <1>1, <1>2, <1>7, <2>2 DEF Passes, rows
<1>8. ASSUME scan.pc \in Undecided, UNCHANGED <<run, trades, rejects, verdicts>>,
             scan'.sym = scan.sym, scan'.seen = scan.seen
      PROVE  Free' /\ Sym' = Sym /\ Candle' = Candle
    BY <1>8 DEF Free, Sym, Candle
<1>9. CASE Refuses
    <2>1. /\ Free' /\ Sym' = Sym /\ Candle' = Candle /\ UNCHANGED <<run, trades, rejects, verdicts>>
          /\ scan'.pc = "reject"
        BY <1>8, <1>9, RefusesEffect DEF Refuses, Undecided, rows, Sym
    <2>2. PICK sig \in {CandleSignal(Sym, Candle), SetupSignal(Sym, Candle)}, episode \in {0, active[Sym]} :
            scan'.row = RejectRow(sig, Candle, episode)
        BY <1>9, RefusesEffect
    <2>3. scan'.row.run = run
        BY <2>2 DEF RejectRow
    <2>4. scan'.row.kind = "setup" \/ SignalOf(scan'.row) = CandleSignal(Sym, Candle)
        BY <2>2 DEF RejectRow, SignalOf, CandleSignal, SetupSignal
    <2>5. RowOK'
        BY <2>1, <2>3, <2>4 DEF RowOK, SignalOf, CandleSignal
    <2> QED
        BY <1>1, <2>1, <2>5 DEF Bought
<1>10. CASE Aligned \/ RiskPassed \/ Accept
    <2>1. scan.pc \in Undecided /\ UNCHANGED <<run, trades, rejects, verdicts>>
        BY <1>10 DEF Aligned, RiskPassed, Accept, Undecided, rows
    <2>2. scan'.sym = scan.sym /\ scan'.seen = scan.seen /\ scan'.pc \in {"risk", "score", "execute"}
        BY <1>10, WayEffect
    <2>3. Free'
        BY <1>8, <2>1, <2>2
    <2> QED
        BY <1>1, <2>1, <2>2, <2>3 DEF RowOK, Bought
<1>11. CASE RejectPersisted
    <2>1. Sym \in Symbols
        BY <1>11, InHand DEF RejectPersisted, InProcess
    <2>2. scan'.pc \notin InProcess
        BY <1>11, <2>1, FinishEffect DEF RejectPersisted, InProcess
    <2>3. /\ rejects' = rejects \cup {scan.row} /\ UNCHANGED <<trades, verdicts>>
          /\ scan.pc = "reject" /\ scan.row.run = run
          /\ scan.row.kind = "setup" \/ SignalOf(scan.row) = CandleSignal(Sym, Candle)
        BY <1>11 DEF RejectPersisted, RowOK
    <2>4. ASSUME NEW t \in trades, t.run = scan.row.run
          PROVE  SignalOf(scan.row) # CandleSignal(t.sym, t.candle)
        <3>1. CASE scan.row.kind = "setup"
            BY <3>1 DEF SignalOf, CandleSignal
        <3>2. CASE SignalOf(scan.row) = CandleSignal(Sym, Candle)
            <4>1. ~IsOf(t, run, Sym, Candle)
                BY <2>3 DEF Free, Undecided
            <4> QED
                BY <2>3, <2>4, <3>2, <4>1 DEF IsOf, CandleSignal
        <3> QED
            BY <2>3, <3>1, <3>2
    <2>5. DecidedOnce'
        BY <2>3, <2>4 DEF DecidedOnce
    <2>6. VerdictBacked'
        BY <2>3 DEF VerdictBacked
    <2> QED
        BY <1>2, <2>2, <2>5, <2>6
<1>12. CASE Fill
    <2>1. /\ trades' = trades \cup {NewTrade} /\ UNCHANGED <<rejects, verdicts, run>>
          /\ scan'.pc = "opened" /\ Sym' = Sym /\ Candle' = Candle /\ scan.pc = "execute"
        BY <1>12, FillRows, WayEffect DEF Fill, Sym, Candle
    <2>2. IsOf(NewTrade, run, Sym, Candle)
        BY DEF NewTrade, IsOf
    <2>3. Bought' /\ Free' /\ RowOK'
        BY <2>1, <2>2 DEF Bought, Free, Undecided, RowOK
    <2>4. \A t \in trades : ~IsOf(t, run, Sym, Candle)
        BY <2>1 DEF Free, Undecided
    <2>5. \A r \in rejects : r.run = run => SignalOf(r) # CandleSignal(Sym, Candle)
        BY <2>1 DEF Free, Undecided
    <2>6. DecidedOnce'
        <3>1. \A t, u \in trades' : t.run = u.run /\ t.sym = u.sym /\ t.candle = u.candle => t.id = u.id
            BY <2>1, <2>2, <2>4 DEF DecidedOnce, IsOf
        <3>2. \A t \in trades', r \in rejects' :
                r.run = t.run => SignalOf(r) # CandleSignal(t.sym, t.candle)
            BY <2>1, <2>2, <2>5 DEF DecidedOnce, IsOf
        <3> QED
            BY <3>1, <3>2 DEF DecidedOnce, SignalOf, CandleSignal
    <2>7. VerdictBacked'
        BY <2>1 DEF VerdictBacked
    <2> QED
        BY <2>3, <2>6, <2>7
<1>13. CASE Opened
    <2>1. /\ scan.pc = "opened" /\ scan'.pc = "evidence" /\ Sym' = Sym /\ Candle' = Candle
          /\ UNCHANGED <<run, trades, rejects, verdicts>>
        BY <1>13, WayEffect DEF Opened, rows, Sym, Candle
    <2>2. Bought' /\ Free' /\ RowOK'
        BY <2>1 DEF Bought, Free, Undecided, RowOK
    <2> QED
        BY <1>1, <2>1, <2>2
<1>14. CASE VerdictPersisted
    <2>1. Sym \in Symbols
        BY <1>14, InHand DEF VerdictPersisted, InProcess
    <2>2. scan'.pc \notin InProcess
        BY <1>14, <2>1, FinishEffect DEF VerdictPersisted, InProcess
    <2>3. PICK t \in trades : IsOf(t, run, Sym, Candle)
        BY <1>14 DEF VerdictPersisted, Bought
    <2>4. VerdictBacked'
        BY <1>14, <2>3 DEF VerdictPersisted, VerdictBacked, IsOf
    <2>5. DecidedOnce'
        BY <1>14 DEF VerdictPersisted, DecidedOnce
    <2> QED
        BY <1>2, <2>2, <2>4, <2>5
<1>15. ASSUME NEW t \in trades, ResolverCloses(t) PROVE Decisions'
    <2>1. /\ \A x \in trades' : \E y \in trades : SameKey(x, y)
          /\ \A y \in trades : \E x \in trades' : SameKey(x, y)
          /\ UNCHANGED <<run, rejects, verdicts, scan>>
        BY <1>15, CloseRows DEF ResolverCloses
    <2>2. Sym' = Sym /\ Candle' = Candle
        BY <2>1 DEF Sym, Candle
    <2>3. Free' /\ RowOK'
        BY <2>1, <2>2 DEF Free, RowOK, SameKey, IsOf
    <2>4. Bought'
        BY <2>1, <2>2 DEF Bought, SameKey, IsOf
    <2>5. DecidedOnce'
        BY <2>1 DEF DecidedOnce, SameKey
    <2>6. VerdictBacked'
        BY <2>1 DEF VerdictBacked, SameKey
    <2> QED
        BY <2>3, <2>4, <2>5, <2>6
<1>16. ASSUME NEW s \in Symbols, CandleCloses(s) PROVE Decisions'
    <2>1. UNCHANGED <<run, trades, rejects, verdicts, scan>>
        BY <1>16 DEF CandleCloses, rows
    <2> QED
        BY <1>1, <2>1 DEF Free, RowOK, Bought, Sym, Candle
<1> QED
    BY <1>3, <1>4, <1>5, <1>6, <1>7, <1>9, <1>10, <1>11, <1>12, <1>13, <1>14, <1>15, <1>16, Kinds
       DEF Environment

-----------------------------------------------------------------------------
(* Exposure.                                                               *)

\* While a scan goes on, memory names every OPEN row, except the one that was
\* just filled and is about to be remembered.
Known ==
    scan.pc # "idle" =>
        \A t \in OpenTrades : active[t.sym] = t.id \/ (scan.pc = "opened" /\ t.sym = Sym /\ t.id = Fills)

\* A candidate that passed the risk rules still has room when it is filled.
Room ==
    /\ scan.pc \in {"score", "execute", "opened"} => active[Sym] = 0
    /\ scan.pc \in {"score", "execute"} => Exposed < MaxOpen

Exposure == Known /\ Room /\ ExposureBounded

\* Memory that names every OPEN row counts at least as many symbols.
LEMMA OpenWithinExposed ==
    ASSUME Base, ExposureBounded, \A t \in OpenTrades : active[t.sym] = t.id
    PROVE  IsFiniteSet(OpenTrades) /\ Cardinality(OpenTrades) <= Exposed /\ Exposed \in Nat
<1> DEFINE held == {s \in Symbols : active[s] # 0}
<1>1. IsFiniteSet(held)
    BY PipelineAssumption, FS_Subset
<1>2. \A t \in OpenTrades : t.sym \in held
    BY DEF Base, Counted, TypeOK, OpenTrades, TradeRows
<1> DEFINE symOf == [t \in OpenTrades |-> t.sym]
<1>3. symOf \in Injection(OpenTrades, held)
    <2>1. symOf \in [OpenTrades -> held]
        BY <1>2
    <2>2. \A t, u \in OpenTrades : symOf[t] = symOf[u] => t = u
        BY DEF ExposureBounded
    <2> HIDE DEF symOf, held
    <2> QED
        BY <2>1, <2>2 DEF Injection, IsInjective
<1> HIDE DEF symOf
<1>4. IsFiniteSet(OpenTrades) /\ Cardinality(OpenTrades) <= Cardinality(held)
    BY <1>1, <1>3, FS_Injection
<1>5. Cardinality(held) \in Nat
    BY <1>1, FS_CardinalityType
<1> QED
    BY <1>4, <1>5 DEF Exposed

\* Every step keeps the account within its limit.
LEMMA StepExposure == Base /\ Exposure /\ Next => Exposure'
<1> SUFFICES ASSUME Base, Exposure, Next PROVE Exposure'
    OBVIOUS
<1> USE DEF Base, Exposure
<1>1. ASSUME UNCHANGED trades PROVE ExposureBounded' /\ OpenTrades' = OpenTrades /\ Fills' = Fills
    BY <1>1 DEF ExposureBounded, OpenTrades, Fills
<1>2. ASSUME UNCHANGED <<trades, active>>, scan.pc \notin {"idle", "opened"},
             scan'.pc \notin {"score", "execute", "opened"}
      PROVE  Exposure'
    BY <1>1, <1>2 DEF Known, Room
<1>3. CASE ScanBegin
    <2>1. scan'.pc = "scanning" /\ active' = Synced /\ UNCHANGED trades
        BY <1>3, LoopEffect DEF ScanBegin, rows
    <2>2. ASSUME NEW t \in OpenTrades PROVE Synced[t.sym] = t.id
        <3>1. t \in OpenIn(t.sym) /\ t.sym \in Symbols
            BY DEF OpenIn, OpenTrades, TypeOK, TradeRows
        <3>2. (CHOOSE u \in OpenIn(t.sym) : TRUE) \in OpenIn(t.sym)
            BY <3>1
        <3>3. (CHOOSE u \in OpenIn(t.sym) : TRUE) = t
            BY <3>1, <3>2 DEF OpenIn, ExposureBounded
        <3> QED
            BY <3>1, <3>3 DEF Synced
    <2> QED
        BY <1>1, <2>1, <2>2 DEF Known, Room
<1>4. CASE ScanBlocked \/ ScanEnd \/ Restart
    <2>1. scan'.pc = "idle" /\ UNCHANGED trades
        BY <1>4 DEF ScanBlocked, ScanEnd, Restart, Idle, rows
    <2> QED
        BY <1>1, <2>1 DEF Known, Room
<1>5. CASE ScanSelected
    BY <1>2, <1>5, LoopEffect DEF ScanSelected, rows, memory
<1>6. ASSUME NEW s \in Symbols, SkipReplayed(s) \/ ProcessBegin(s) PROVE Exposure'
    BY <1>2, <1>6, LoopEffect DEF SkipReplayed, ProcessBegin, rows, memory
<1>7. CASE Passes
    <2>1. PICK s \in Symbols : Finish(s) /\ s \in scan.todo
        BY <1>7 DEF Passes, TypeOK, Scans
    <2>2. scan'.pc = "next" /\ UNCHANGED <<trades, active>>
        BY <1>7, <2>1, FinishEffect DEF Passes, rows
    <2>3. scan.pc \notin {"idle", "opened"}
        BY <1>7 DEF Passes
    <2> QED
        BY <1>2, <2>2, <2>3
<1>8. CASE Refuses
    BY <1>2, <1>8, RefusesEffect DEF Refuses, rows
<1>9. CASE Aligned
    BY <1>2, <1>9, WayEffect DEF Aligned, rows, memory
<1>10. CASE RiskPassed
    <2>1. /\ scan.pc = "risk" /\ scan'.pc = "score" /\ Sym' = Sym /\ UNCHANGED <<trades, active>>
          /\ ~RiskFails /\ active[Sym] = 0
        BY <1>10, WayEffect DEF RiskPassed, rows, Sym
    <2>2. Exposed' = Exposed /\ Exposed < MaxOpen
        <3>1. \A t \in OpenTrades : active[t.sym] = t.id
            BY <2>1 DEF Known
        <3>2. Exposed \in Nat
            BY <3>1, OpenWithinExposed
        <3> QED
            BY <2>1, <3>2, PipelineAssumption DEF RiskFails, Exposed
    <2> QED
        BY <1>1, <2>1, <2>2 DEF Known, Room
<1>11. CASE Accept
    <2>1. scan.pc = "score" /\ scan'.pc = "execute" /\ Sym' = Sym /\ UNCHANGED <<trades, active>>
        BY <1>11, WayEffect DEF Accept, rows, Sym
    <2>2. Exposed' = Exposed
        BY <2>1 DEF Exposed
    <2> QED
        BY <1>1, <2>1, <2>2 DEF Known, Room
<1>12. CASE RejectPersisted \/ VerdictPersisted
    <2>1. Sym \in Symbols
        BY <1>12, InHand DEF RejectPersisted, VerdictPersisted, InProcess
    <2> QED
        BY <1>2, <1>12, <2>1, FinishEffect DEF RejectPersisted, VerdictPersisted
<1>13. CASE Fill
    <2>1. /\ scan.pc = "execute" /\ scan'.pc = "opened" /\ Sym' = Sym /\ UNCHANGED active
          /\ trades' = trades \cup {NewTrade} /\ Fills' = Fills + 1
        BY <1>13, WayEffect, FillRows DEF Fill, Sym
    <2>2. NewTrade.open /\ NewTrade.sym = Sym /\ NewTrade.id = Fills + 1
        BY DEF NewTrade
    <2>3. OpenTrades' = OpenTrades \cup {NewTrade}
        BY <2>1, <2>2 DEF OpenTrades
    <2>4. \A t \in OpenTrades : active[t.sym] = t.id
        BY <2>1 DEF Known
    <2>5. Cardinality(OpenTrades) < MaxOpen /\ IsFiniteSet(OpenTrades) /\ Cardinality(OpenTrades) \in Nat
        BY <2>1, <2>4, OpenWithinExposed, FS_CardinalityType, PipelineAssumption DEF Room
    <2>6. Cardinality(OpenTrades') <= MaxOpen
        <3>1. Cardinality(OpenTrades \cup {NewTrade}) =
                  IF NewTrade \in OpenTrades THEN Cardinality(OpenTrades) ELSE Cardinality(OpenTrades) + 1
            BY <2>5, FS_AddElement
        <3>2. MaxOpen \in Nat
            BY PipelineAssumption
        <3> QED
            BY <2>3, <2>5, <3>1, <3>2
    <2>7. \A t \in OpenTrades : t.sym # Sym
        BY <2>1, <2>4 DEF Room, OpenTrades, TypeOK, TradeRows
    <2>8. ExposureBounded'
        <3>1. \A t, u \in OpenTrades' : t.sym = u.sym => t = u
            BY <2>2, <2>3, <2>7 DEF ExposureBounded
        <3> QED
            BY <2>6, <3>1 DEF ExposureBounded
    <2>9. Known'
        BY <2>1, <2>2, <2>3, <2>4 DEF Known
    <2> QED
        BY <2>1, <2>8, <2>9 DEF Room
<1>14. CASE Opened
    <2>1. /\ scan.pc = "opened" /\ scan'.pc = "evidence" /\ UNCHANGED trades
          /\ active' = [active EXCEPT ![Sym] = Fills]
        BY <1>14, WayEffect DEF Opened, rows
    <2>2. active \in [Symbols -> 0 .. MaxFills] /\ Sym \in Symbols
        BY <2>1, InHand DEF TypeOK, InProcess
    <2>3. ASSUME NEW t \in OpenTrades PROVE active'[t.sym] = t.id
        <3>1. t.id # 0 /\ t.sym \in Symbols
            BY DEF OpenTrades, TypeOK, TradeRows
        <3>2. CASE t.sym = Sym
            BY <2>1, <2>2, <3>1, <3>2 DEF Known, Room
        <3>3. CASE t.sym # Sym
            BY <2>1, <2>2, <3>1, <3>3 DEF Known
        <3> QED
            BY <3>2, <3>3
    <2> QED
        BY <1>1, <2>1, <2>3 DEF Known, Room
<1>15. ASSUME NEW t \in trades, ResolverCloses(t) PROVE Exposure'
    <2>1. OpenTrades' = OpenTrades \ {t} /\ Fills' = Fills /\ UNCHANGED <<scan, active>>
        BY <1>15, CloseRows DEF ResolverCloses, memory
    <2>2. Known' /\ Room'
        <3>1. Sym' = Sym /\ Exposed' = Exposed
            BY <2>1 DEF Sym, Exposed
        <3> QED
            BY <2>1, <3>1 DEF Known, Room
    <2>3. IsFiniteSet(OpenTrades)
        BY FS_Subset DEF Counted, OpenTrades
    <2>4. /\ Cardinality(OpenTrades') <= Cardinality(OpenTrades)
          /\ Cardinality(OpenTrades) \in Nat /\ Cardinality(OpenTrades') \in Nat
        <3>1. Cardinality(OpenTrades) \in Nat
            BY <2>3, FS_CardinalityType
        <3>2. /\ IsFiniteSet(OpenTrades \ {t})
              /\ Cardinality(OpenTrades \ {t}) =
                   IF t \in OpenTrades THEN Cardinality(OpenTrades) - 1 ELSE Cardinality(OpenTrades)
            BY <2>3, FS_RemoveElement
        <3>3. Cardinality(OpenTrades \ {t}) \in Nat
            BY <3>2, FS_CardinalityType
        <3> QED
            BY <2>1, <3>1, <3>2, <3>3
    <2>5. ExposureBounded'
        BY <2>1, <2>4, PipelineAssumption DEF ExposureBounded
    <2> QED
        BY <2>2, <2>5
<1>16. ASSUME NEW s \in Symbols, CandleCloses(s) PROVE Exposure'
    <2>1. UNCHANGED <<trades, active, scan>>
        BY <1>16 DEF CandleCloses, rows, memory
    <2> QED
        BY <1>1, <2>1 DEF Known, Room, Sym, Exposed
<1> QED
    BY <1>3, <1>4, <1>5, <1>6, <1>7, <1>8, <1>9, <1>10, <1>11, <1>12, <1>13, <1>14, <1>15, <1>16, Kinds
       DEF Environment

-----------------------------------------------------------------------------
(* Duplicate-position rejects.                                             *)

SameEpisode(q, r) == q.episode = r.episode /\ q.sym = r.sym /\ q.setup = r.setup

\* A duplicate-position reject on its way is the first of its episode.
EpisodeFree ==
    scan.pc = "reject" /\ scan.row.episode # 0 => \A r \in rejects : ~SameEpisode(scan.row, r)

Episodes == EpisodeFree /\ EpisodeRejectedOnce

\* With a lookup that answers, no episode is counted twice.
LEMMA StepEpisodes ==
    ASSUME Base, Episodes, Next, "episode" \notin LookupFaults
    PROVE  Episodes'
<1> USE DEF Base, Episodes
<1>1. ASSUME UNCHANGED rejects, scan'.pc # "reject" PROVE Episodes'
    BY <1>1 DEF EpisodeFree, EpisodeRejectedOnce
<1>2. ASSUME UNCHANGED <<rejects, scan>> PROVE Episodes'
    BY <1>2 DEF EpisodeFree, EpisodeRejectedOnce
<1>3. CASE ScanBegin \/ ScanSelected
    BY <1>1, <1>3, LoopEffect DEF ScanBegin, ScanSelected, rows
<1>4. CASE ScanBlocked \/ ScanEnd \/ Restart
    <2>1. scan'.pc = "idle"
        BY <1>4 DEF ScanBlocked, ScanEnd, Restart, Idle
    <2> QED
        BY <1>1, <1>4, <2>1 DEF ScanBlocked, ScanEnd, Restart, rows
<1>5. ASSUME NEW s \in Symbols, SkipReplayed(s) \/ ProcessBegin(s) PROVE Episodes'
    BY <1>1, <1>5, LoopEffect DEF SkipReplayed, ProcessBegin, rows
<1>6. CASE Passes
    <2>1. \E s \in Symbols : Finish(s)
        BY <1>6 DEF Passes, TypeOK, Scans
    <2> QED
        BY <1>1, <1>6, <2>1, FinishEffect DEF Passes, rows
<1>7. CASE Refuses
    <2>1. PICK sig \in {CandleSignal(Sym, Candle), SetupSignal(Sym, Candle)}, episode \in {0, active[Sym]} :
            /\ scan'.row = RejectRow(sig, Candle, episode)
            /\ episode # 0 => ~EpisodeRecorded(Sym, Candle)
        BY <1>7, RefusesEffect
    <2>2. scan'.row.episode = episode /\ scan'.row.sym = Sym /\ scan'.row.setup = SetupOf(Candle)
        BY <2>1 DEF RejectRow, CandleSignal, SetupSignal
    <2>3. UNCHANGED rejects
        BY <1>7, RefusesEffect DEF rows
    <2>4. EpisodeFree'
        BY <2>1, <2>2, <2>3 DEF EpisodeFree, EpisodeRecorded, SameEpisode
    <2> QED
        BY <2>3, <2>4 DEF EpisodeRejectedOnce
<1>8. CASE Aligned \/ RiskPassed \/ Accept \/ Fill \/ Opened
    <2>1. scan'.pc # "reject" /\ UNCHANGED rejects
        BY <1>8, WayEffect DEF Aligned, RiskPassed, Accept, Fill, Opened, rows
    <2> QED
        BY <1>1, <2>1
<1>9. CASE RejectPersisted
    <2>1. Sym \in Symbols
        BY <1>9, InHand DEF RejectPersisted, InProcess
    <2>2. scan'.pc = "next"
        BY <1>9, <2>1, FinishEffect DEF RejectPersisted
    <2>3. rejects' = rejects \cup {scan.row} /\ scan.pc = "reject"
        BY <1>9 DEF RejectPersisted
    <2>4. ASSUME NEW q \in rejects', NEW r \in rejects', q.episode # 0, SameEpisode(q, r) PROVE q = r
        BY <2>3, <2>4 DEF EpisodeFree, EpisodeRejectedOnce, SameEpisode
    <2> QED
        BY <2>2, <2>4 DEF EpisodeFree, EpisodeRejectedOnce, SameEpisode
<1>10. CASE VerdictPersisted
    <2>1. Sym \in Symbols
        BY <1>10, InHand DEF VerdictPersisted, InProcess
    <2> QED
        BY <1>1, <1>10, <2>1, FinishEffect DEF VerdictPersisted
<1>11. ASSUME NEW t \in trades, ResolverCloses(t) PROVE Episodes'
    BY <1>2, <1>11 DEF ResolverCloses
<1>12. ASSUME NEW s \in Symbols, CandleCloses(s) PROVE Episodes'
    BY <1>2, <1>12 DEF CandleCloses, rows
<1> QED
    BY <1>3, <1>4, <1>5, <1>6, <1>7, <1>8, <1>9, <1>10, <1>11, <1>12, Kinds DEF Environment

-----------------------------------------------------------------------------
(* Theorems.                                                               *)

\* Everything holds in a runtime that has not scanned yet.
LEMMA InitAll == Init => Base /\ Decisions /\ LifeOK /\ Exposure /\ Episodes
<1> SUFFICES ASSUME Init PROVE Base /\ Decisions /\ LifeOK /\ Exposure /\ Episodes
    OBVIOUS
<1>1. scan = Idle /\ scan.pc = "idle" /\ scan.life = "NONE" /\ trades = {} /\ rejects = {} /\ verdicts = {}
    BY DEF Init, Idle
<1>2. Counted
    BY <1>1, FS_EmptySet, PipelineAssumption DEF Counted, Fills
<1>3. scan \in Scans
    <2>1. [s \in Symbols |-> 0] \in [Symbols -> 0 .. MaxCandle]
        BY PipelineAssumption
    <2>2. {} \in SUBSET Symbols /\ "idle" \in Pcs /\ "NONE" \in LifeStates
        BY DEF Pcs, LifeStates
    <2> QED
        BY <1>1, <2>1, <2>2 DEF Idle, Scans
<1>4. TypeOK /\ Progress
    BY <1>1, <1>3, PipelineAssumption DEF Init, TypeOK, Progress, InProcess
<1>5. Decisions /\ LifeOK /\ Episodes
    BY <1>1 DEF Decisions, Free, RowOK, Bought, DecidedOnce, VerdictBacked, Undecided, LifeOK, Episodes,
                EpisodeFree, EpisodeRejectedOnce
<1>6. OpenTrades = {}
    BY <1>1 DEF OpenTrades
<1>7. Exposure
    BY <1>1, <1>6, FS_EmptySet, PipelineAssumption DEF Exposure, Known, Room, ExposureBounded
<1> QED
    BY <1>2, <1>4, <1>5, <1>7 DEF Base

\* A step that changes nothing keeps every invariant.
LEMMA StutterAll ==
    ASSUME UNCHANGED vars
    PROVE  /\ Base => Base'
           /\ Decisions => Decisions'
           /\ LifeOK => LifeOK'
           /\ Exposure => Exposure'
           /\ Episodes => Episodes'
<1>1. UNCHANGED <<market, run, crashes, latest, active, accepted, refused, trades, rejects, verdicts, scan>>
    BY DEF vars, memory, rows
<1>2. Sym' = Sym /\ Candle' = Candle /\ OpenTrades' = OpenTrades /\ Fills' = Fills /\ Exposed' = Exposed
    BY <1>1 DEF Sym, Candle, OpenTrades, Fills, Exposed
<1>3. Base => Base'
    BY <1>1, <1>2 DEF Base, TypeOK, Progress, Counted
<1>4. Decisions => Decisions'
    BY <1>1, <1>2 DEF Decisions, Free, RowOK, Bought, DecidedOnce, VerdictBacked
<1>5. LifeOK => LifeOK'
    BY <1>1 DEF LifeOK
<1>6. Exposure => Exposure'
    BY <1>1, <1>2 DEF Exposure, Known, Room, ExposureBounded
<1>7. Episodes => Episodes'
    BY <1>1 DEF Episodes, EpisodeFree, EpisodeRejectedOnce
<1> QED
    BY <1>3, <1>4, <1>5, <1>6, <1>7

\* Memory, rows and scan keep their types, whatever fails, closes or dies in
\* between (_scan_once, _process_symbol).
THEOREM PipelineTypes == Spec => []TypeOK
<1>1. Base /\ [Next]_vars => Base'
    BY StepBase, StutterAll
<1> QED
    BY <1>1, InitAll, PTL DEF Spec, Base

\* No candle of a continuation is filled twice, or filled and rejected
\* (_canonical_final_decision_recorded before _process_symbol).
THEOREM CandleDecidedOnce == Spec => []DecidedOnce
<1>1. Base /\ [Next]_vars => Base'
    BY StepBase, StutterAll
<1>2. Base /\ Decisions /\ [Next]_vars => Decisions'
    BY StepDecisions, StutterAll
<1> QED
    BY <1>1, <1>2, InitAll, PTL DEF Spec, Decisions

\* Evidence of an accepted decision never exists without its position, and is
\* written at the end of a legal lifecycle only (_persist_burnin_decision).
THEOREM EvidenceHasPosition == Spec => []VerdictHasFill
<1>1. Base /\ [Next]_vars => Base'
    BY StepBase, StutterAll
<1>2. Base /\ Decisions /\ [Next]_vars => Decisions'
    BY StepDecisions, StutterAll
<1>3. Base /\ LifeOK /\ [Next]_vars => LifeOK'
    BY StepLife, StutterAll
<1>4. Decisions /\ LifeOK => VerdictHasFill
    BY DEF Decisions, VerdictBacked, LifeOK, VerdictHasFill
<1> QED
    BY <1>1, <1>2, <1>3, <1>4, InitAll, PTL DEF Spec

\* The account never holds more than max_concurrent_positions, nor two
\* positions of one symbol, with a resolver that closes rows under the scan
\* and crashes between a fill and the memory of it (_evaluate_runtime_risk,
\* _sync_resolved_paper_positions).
THEOREM ExposureWithinLimit == Spec => []ExposureBounded
<1>1. Base /\ [Next]_vars => Base'
    BY StepBase, StutterAll
<1>2. Base /\ Exposure /\ [Next]_vars => Exposure'
    BY StepExposure, StutterAll
<1> QED
    BY <1>1, <1>2, InitAll, PTL DEF Spec, Exposure

\* A setup counts one duplicate-position reject per position, if the lookup
\* of earlier ones answers (_duplicate_position_reject_recorded).
THEOREM DuplicateCountedOnce ==
    ASSUME "episode" \notin LookupFaults
    PROVE  Spec => []EpisodeRejectedOnce
<1>1. Base /\ [Next]_vars => Base'
    BY StepBase, StutterAll
<1>2. Base /\ Episodes /\ [Next]_vars => Episodes'
    BY StepEpisodes, StutterAll
<1> QED
    BY <1>1, <1>2, InitAll, PTL DEF Spec, Episodes

-----------------------------------------------------------------------------
\* Starts of intervals and closes of candles lie where they should.
LEMMA IntervalBounds ==
    ASSUME NEW l \in Layers, NEW at \in Nat
    PROVE  /\ Length[l] \in Nat \ {0}
           /\ Start(l, at) \in 0 .. at /\ at < Start(l, at) + Length[l]
           /\ LastClosed(l, at) \in Int /\ LastClosed(l, at) <= at
<1>1. Length[l] \in Nat \ {0}
    BY TimeframeAssumption
<1>2. ASSUME NEW i \in Nat PROVE i - (i % Length[l]) \in 0 .. i /\ i < i - (i % Length[l]) + Length[l]
    BY <1>1
<1>3. at + 1 \in Nat
    OBVIOUS
<1>4. Start(l, at) \in 0 .. at /\ at < Start(l, at) + Length[l]
    BY <1>2 DEF Start
<1>5. Start(l, at + 1) \in 0 .. (at + 1)
    BY <1>2, <1>3 DEF Start
<1> QED
    BY <1>1, <1>4, <1>5 DEF LastClosed

\* The candles kept and in hand are of their types, and requests ask for a layer they know.
MtfShape ==
    /\ instant \in 0 .. MaxInstant
    /\ klines \in [Layers -> [0 .. MaxInstant -> Int]]
    /\ \A f \in flights : f.layer \in Layers /\ f.decision \in 0 .. MaxInstant
    /\ build \in [phase : {"resting", "fetching"}, decision : 0 .. MaxInstant, last : [Layers -> Int]]

MtfInvariant == MtfShape /\ KeptClosed /\ SignalStands

\* Answers are candles, and what closed_candles leaves of one closed by the decision.
LEMMA PublishedCloses ==
    ASSUME NEW l \in Layers, instant \in Nat, NEW c \in Published(l), NEW d \in Nat
    PROVE  ClosedBy(c, l, d) \in Int /\ ClosedBy(c, l, d) <= d
<1>1. c \in Int
  <2>1. CASE c = Start(l, instant) + Length[l] - 1
      BY <2>1, IntervalBounds
  <2>2. ASSUME NEW at \in 0 .. instant, c = Start(l, at) - 1 PROVE c \in Int
    <3>1. at \in Nat
        OBVIOUS
    <3> QED BY <2>2, <3>1, IntervalBounds
  <2> QED BY <2>1, <2>2 DEF Published
<1> QED
    BY <1>1, IntervalBounds DEF ClosedBy

LEMMA MtfStarts == MtfInit => MtfInvariant
<1>1. MaxInstant \in Nat
    BY TimeframeAssumption
<1>2. \A l \in Layers : Length[l] \in Nat \ {0}
    BY TimeframeAssumption
<1> QED
    BY <1>1, <1>2 DEF MtfInit, MtfInvariant, MtfShape, KeptClosed, SignalStands, NoSignal, Resting

LEMMA MtfStep == MtfInvariant /\ [MtfNext]_mtfVars => MtfInvariant'
<1> SUFFICES ASSUME MtfInvariant, [MtfNext]_mtfVars PROVE MtfInvariant'
    OBVIOUS
<1> USE DEF MtfInvariant
<1>0. MaxInstant \in Nat /\ instant \in 0 .. MaxInstant
    BY TimeframeAssumption DEF MtfShape
<1>1. CASE InstantPasses
    BY <1>1, <1>0 DEF InstantPasses, MtfShape, KeptClosed, SignalStands
<1>2. ASSUME NEW decision \in 0 .. instant, BuildBegins(decision) PROVE MtfInvariant'
  <2> DEFINE kept == [l \in Layers |-> klines[l][Start(l, decision)]]
  <2>1. \A l \in Layers : Start(l, decision) \in 0 .. decision
      BY <1>0, IntervalBounds
  <2>2. kept \in [Layers -> Int]
      BY <2>1, <1>0 DEF MtfShape
  <2>3. build' = [phase |-> "fetching", decision |-> decision, last |-> kept]
      BY <1>2 DEF BuildBegins
  <2>4. build' \in [phase : {"resting", "fetching"}, decision : 0 .. MaxInstant, last : [Layers -> Int]]
      BY <2>2, <2>3, <1>0
  <2>5. \A f \in flights' : f.layer \in Layers /\ f.decision \in 0 .. MaxInstant
    <3>1. decision \in 0 .. MaxInstant
        BY <1>0
    <3>2. flights' = flights \cup {[build |-> builds + 1, layer |-> l, decision |-> decision] :
                                       l \in {k \in Layers : kept[k] = -2}}
        BY <1>2, Zenon DEF BuildBegins
    <3>3. \A f \in flights' : f \in flights \/ (f.layer \in Layers /\ f.decision = decision)
      <4> SUFFICES ASSUME NEW f \in flights', f \notin flights
                   PROVE  f.layer \in Layers /\ f.decision = decision
          OBVIOUS
      <4>1. PICK l \in Layers : f = [build |-> builds + 1, layer |-> l, decision |-> decision]
          BY <3>2, Zenon
      <4> QED BY <4>1
    <3> QED BY <3>1, <3>3 DEF MtfShape
  <2>6. instant' = instant /\ klines' = klines /\ signal' = NoSignal
      BY <1>2 DEF BuildBegins
  <2>7. MtfShape'
      BY <2>4, <2>5, <2>6 DEF MtfShape
  <2> QED BY <2>6, <2>7 DEF KeptClosed, SignalStands, NoSignal
<1>3. ASSUME NEW f \in flights, NEW c \in Published(f.layer), KlinesArrive(f, c) PROVE MtfInvariant'
  <2> DEFINE last == ClosedBy(c, f.layer, f.decision)
             edge == Start(f.layer, f.decision)
  <2>1. f.layer \in Layers /\ f.decision \in 0 .. MaxInstant /\ f.decision \in Nat
      BY <1>0 DEF MtfShape
  <2>2. last \in Int /\ last <= f.decision
      BY <2>1, <1>0, PublishedCloses
  <2>3. edge \in 0 .. f.decision /\ f.decision < edge + Length[f.layer] /\ Length[f.layer] \in Nat
      BY <2>1, IntervalBounds
  <2>4. edge \in 0 .. MaxInstant
    <3> HIDE DEF edge
    <3> QED BY <2>1, <2>3, <1>0
  <2>5. klines' = [klines EXCEPT ![f.layer][edge] = last]
      BY <1>3 DEF KlinesArrive
  <2>6. build' = build \/ build' = [build EXCEPT !.last[f.layer] = last]
      BY <1>3 DEF KlinesArrive
  <2>7. klines' \in [Layers -> [0 .. MaxInstant -> Int]]
      BY <2>1, <2>2, <2>4, <2>5 DEF MtfShape
  <2>8. KeptClosed'
    <3> SUFFICES ASSUME NEW l \in Layers, NEW b \in 0 .. MaxInstant
                 PROVE  klines'[l][b] < b + Length[l]
        BY DEF KeptClosed
    <3>1. klines'[l][b] = IF l = f.layer /\ b = edge THEN last ELSE klines[l][b]
        BY <2>1, <2>4, <2>5 DEF MtfShape
    <3> QED BY <3>1, <2>1, <2>2, <2>3 DEF KeptClosed
  <2>9. build' \in [phase : {"resting", "fetching"}, decision : 0 .. MaxInstant, last : [Layers -> Int]]
      BY <2>1, <2>2, <2>6 DEF MtfShape
  <2>10. instant' = instant /\ signal' = signal /\ flights' \subseteq flights
      BY <1>3 DEF KlinesArrive
  <2>11. MtfShape'
      BY <2>7, <2>9, <2>10 DEF MtfShape
  <2> QED BY <2>8, <2>10, <2>11 DEF SignalStands
<1>4. ASSUME NEW f \in flights, KlinesFail(f) PROVE MtfInvariant'
  <2>1. Resting \in [phase : {"resting", "fetching"}, decision : 0 .. MaxInstant, last : [Layers -> Int]]
      BY <1>0 DEF Resting
  <2>2. (build' = build \/ build' = Resting) /\ flights' \subseteq flights
      /\ instant' = instant /\ klines' = klines /\ signal' = signal
      BY <1>4 DEF KlinesFail
  <2> QED BY <2>1, <2>2 DEF MtfShape, KeptClosed, SignalStands
<1>5. ASSUME NEW direction \in [Layers -> Directions], NEW entry \in Levels, BuildEnds(direction, entry)
      PROVE  MtfInvariant'
  <2>1. Resting \in [phase : {"resting", "fetching"}, decision : 0 .. MaxInstant, last : [Layers -> Int]]
      BY <1>0 DEF Resting
  <2>2. build' = Resting /\ instant' = instant /\ klines' = klines /\ flights' = flights
      BY <1>5 DEF BuildEnds
  <2>3. MtfShape' /\ KeptClosed'
      BY <2>1, <2>2 DEF MtfShape, KeptClosed
  <2>4. CASE signal' = NoSignal
      BY <2>3, <2>4 DEF SignalStands, NoSignal
  <2>5. CASE signal' # NoSignal
    <3>1. /\ Agree(direction) /\ \A l \in Layers : Fresh(l)
          /\ style = "guided" => Drawable(direction["regime"], entry)
        BY <1>5, <2>5 DEF BuildEnds
    <3>2. signal' = [aligned |-> TRUE, style |-> style, decision |-> build.decision, last |-> Bounded,
                     direction |-> direction, side |-> direction["regime"],
                     entry |-> IF style = "guided" THEN entry ELSE 0]
        BY <1>5, <2>5 DEF BuildEnds
    <3>3. \A l \in Layers : /\ 0 <= signal'.last[l] /\ signal'.last[l] <= signal'.decision
                            /\ signal'.decision - signal'.last[l] <= MaxIntervals * Length[l]
        BY <3>1, <3>2 DEF Fresh
    <3>4. /\ direction["regime"] \in Directed
          /\ style # "state" => direction["execution"] = direction["regime"]
          /\ style # "guided" => direction["setup"] = direction["regime"]
        BY <3>1 DEF Agree, Layers
    <3>5. style = "guided" =>
             IF direction["regime"] = "LONG" THEN Stop("LONG") < entry /\ entry < Target("LONG")
                                             ELSE Target("SHORT") < entry /\ entry < Stop("SHORT")
        BY <3>1, <3>4 DEF Drawable, Stop, Target, Directed, Support, Resistance, Levels
    <3>6. SignalStands'
        BY <3>2, <3>3, <3>4, <3>5 DEF SignalStands, Stop, Target
    <3> QED BY <2>3, <3>6
  <2> QED BY <2>4, <2>5
<1>6. CASE UNCHANGED mtfVars
    BY <1>6 DEF mtfVars, MtfShape, KeptClosed, SignalStands
<1> QED
    BY <1>1, <1>2, <1>3, <1>4, <1>5, <1>6 DEF MtfNext

\* Answers late, lost, kept or meant for another build do not bring an open or an old candle into a
\* signal (BinanceMTFProvider.build, evaluate_mtf_alignment).
THEOREM SignalsStand == MtfSpec => []SignalStandsOnClosedCandles
<1>1. MtfInvariant => SignalStandsOnClosedCandles
    BY DEF MtfInvariant, KeptClosed, SignalStands, SignalStandsOnClosedCandles
<1> QED BY <1>1, MtfStarts, MtfStep, PTL DEF MtfSpec
=============================================================================

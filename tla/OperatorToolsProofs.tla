------------------------- MODULE OperatorToolsProofs -------------------------
(***************************************************************************)
(* Proofs about six programs beside the runtime, each for every value of   *)
(* its constants: the release verdict and decision (ReleaseQualification), *)
(* the reader of the exchange account (ReconciliationRead), the lease of   *)
(* the guarded operations (OperationLease), the system audit (SystemAudit),*)
(* the remote control (RemoteControl), whose crashes, failed commits and   *)
(* redelivered updates may come in any number and order, and the           *)
(* backtester (BacktestReplay), over any number of candles and symbols.    *)
(***************************************************************************)
EXTENDS ReleaseQualification, ReconciliationRead, OperationLease, SystemAudit, RemoteControl,
        BacktestReplay, FiniteSetTheorems, SequenceTheorems, WellFoundedInduction, TLAPS

-----------------------------------------------------------------------------
(* The release verdict.                                                     *)

CommandType == [pc : {"idle", "rebuild", "outcomes", "gates", "link", "read", "decide"},
                finalizes : BOOLEAN, ok : BOOLEAN, hash : Nat, of : Nat, mutatedBefore : BOOLEAN]
VerdictType == [ok : BOOLEAN, hash : Nat, of : Nat, mutatedBefore : BOOLEAN]

ReleaseTypes ==
    /\ mutated \in BOOLEAN
    /\ evidence \in Nat /\ aggregate \in Nat
    /\ command \in [Commands -> CommandType]

\* A verdict is about outcomes no older than the hash it is linked under, and no
\* newer than the campaign: another command may have rebuilt the aggregate run
\* in between.
Spans(v) == v.hash <= v.of /\ v.of <= evidence

\* What a stored verdict promises.
Sound(v) == v \in VerdictType /\ Spans(v) /\ (v.ok => ~ v.mutatedBefore)

\* What a command knows at each of its steps.
Knows(v) ==
    /\ v.pc = "outcomes" => v.hash <= aggregate
    /\ v.pc = "gates" => Spans(v) /\ (v.mutatedBefore => mutated)
    /\ v.pc = "link" => Spans(v) /\ (v.ok => ~ v.mutatedBefore)
    /\ v.pc = "read" => Sound(latest)
    /\ v.pc = "decide" => Spans(v)

Progress == \A c \in Commands : Knows(command[c])

ReleaseInv ==
    /\ ReleaseTypes
    /\ aggregate <= evidence
    /\ Progress
    /\ latest = NoRow \/ Sound(latest)
    /\ DecisionOnCurrentEvidence

\* A tool, the runtime or the operator changes no command and no verdict: the
\* evidence grows and a mutation attempt stays recorded.
LEMMA ToolsKeep ==
    ASSUME ReleaseInv, ToolNext \/ CampaignEvidenceGrows \/ UNCHANGED releaseVars
    PROVE  ReleaseInv'
<1>1. UNCHANGED <<aggregate, latest, command, decision>>
    BY DEF ToolNext, CampaignEvidenceGrows, releaseVars, PersistOperatorAck,
           AckExpires, MutationTrapped, DrillAges, RunCanaryValidation,
           PersistRollbackVerification, RunRollbackValidation, VerifyFullTests,
           PersistRunbookEvidence, ToolBuilds, PersistReleaseSnapshot, ToolDies
<1>2. evidence' = evidence \/ evidence' = evidence + 1
    BY DEF ToolNext, CampaignEvidenceGrows, releaseVars, PersistOperatorAck,
           AckExpires, MutationTrapped, DrillAges, RunCanaryValidation,
           PersistRollbackVerification, RunRollbackValidation, VerifyFullTests,
           PersistRunbookEvidence, ToolBuilds, PersistReleaseSnapshot, ToolDies
<1>3. mutated' = mutated \/ mutated' = TRUE
    BY Zenon DEF ToolNext, CampaignEvidenceGrows, releaseVars, evidenceVars, PersistOperatorAck,
           AckExpires, MutationTrapped, DrillAges, RunCanaryValidation,
           PersistRollbackVerification, RunRollbackValidation, VerifyFullTests,
           PersistRunbookEvidence, ToolBuilds, PersistReleaseSnapshot, ToolDies
<1>4. evidence \in Nat /\ aggregate \in Nat /\ mutated \in BOOLEAN /\ command \in [Commands -> CommandType]
    BY DEF ReleaseInv, ReleaseTypes
<1>5. ReleaseTypes'
    <2>1. evidence' \in Nat /\ aggregate' \in Nat
        BY <1>1, <1>2, <1>4
    <2>2. mutated' \in BOOLEAN /\ command' \in [Commands -> CommandType]
        BY <1>1, <1>3, <1>4, Zenon
    <2> QED
        BY <2>1, <2>2 DEF ReleaseTypes
<1>6. aggregate' <= evidence'
    BY <1>1, <1>2, <1>4 DEF ReleaseInv
<1>7. ASSUME NEW v, v.of \in Nat, Spans(v) PROVE v.hash <= v.of /\ v.of <= evidence'
    BY <1>2, <1>4, <1>7 DEF Spans
<1>8. Sound(latest) => Sound(latest)'
    BY <1>1, <1>7 DEF Sound, VerdictType, Spans
<1>9. Progress'
    <2> SUFFICES ASSUME NEW c \in Commands PROVE Knows(command[c])'
        BY DEF Progress
    <2>1. command[c].of \in Nat
        BY <1>4 DEF CommandType
    <2>2. Spans(command[c]) => Spans(command[c])'
        BY <1>1, <1>7, <2>1 DEF Spans
    <2>3. mutated => mutated'
        BY <1>3
    <2>4. Knows(command[c])
        BY DEF ReleaseInv, Progress
    <2> QED
        BY <1>1, <1>8, <2>2, <2>3, <2>4 DEF Knows
<1>10. latest' = NoRow \/ Sound(latest)'
    BY <1>1, <1>8 DEF ReleaseInv
<1>11. DecisionOnCurrentEvidence'
    BY <1>1 DEF ReleaseInv, DecisionOnCurrentEvidence
<1> QED
    BY <1>5, <1>6, <1>9, <1>10, <1>11 DEF ReleaseInv

\* A command's step changes its own record; the aggregate run may move on to
\* newer evidence and a sound verdict may be linked.
LEMMA CommandKeeps ==
    ASSUME ReleaseInv, NEW c \in Commands,
           command' \in [Commands -> CommandType],
           \A d \in Commands \ {c} : command'[d] = command[d],
           evidence' = evidence, mutated' = mutated,
           aggregate' \in Nat, aggregate <= aggregate', aggregate' <= evidence,
           latest' = latest \/ Sound(latest)', Knows(command[c])',
           DecisionOnCurrentEvidence'
    PROVE  ReleaseInv'
<1>1. evidence \in Nat /\ aggregate \in Nat /\ mutated \in BOOLEAN /\ command \in [Commands -> CommandType]
    BY DEF ReleaseInv, ReleaseTypes
<1>2. ReleaseTypes'
    <2>1. evidence' \in Nat /\ aggregate' \in Nat /\ command' \in [Commands -> CommandType]
        BY <1>1
    <2>2. mutated' \in BOOLEAN
        BY <1>1, Zenon
    <2> QED
        BY <2>1, <2>2 DEF ReleaseTypes
<1>3. Sound(latest) => Sound(latest)'
    BY DEF Sound, Spans
<1>4. Progress'
    <2> SUFFICES ASSUME NEW d \in Commands PROVE Knows(command[d])'
        BY DEF Progress
    <2>1. CASE d = c
        BY <2>1
    <2>2. CASE d # c
        <3>1. command'[d] = command[d]
            BY <2>2
        <3>2. Knows(command[d])
            BY DEF ReleaseInv, Progress
        <3>3. command[d] \in CommandType
            BY <1>1
        <3>4. command[d].pc = "outcomes" => command[d].hash <= aggregate'
            BY <1>1, <3>2, <3>3 DEF Knows, CommandType
        <3>5. Spans(command[d]) => Spans(command[d])'
            BY <3>1 DEF Spans
        <3>6. mutated => mutated'
            OBVIOUS
        <3> QED
            BY <1>3, <3>1, <3>2, <3>4, <3>5, <3>6 DEF Knows
    <2> QED
        BY <2>1, <2>2
<1>5. latest' = NoRow \/ Sound(latest)'
    BY <1>3 DEF ReleaseInv
<1> QED
    BY <1>2, <1>4, <1>5 DEF ReleaseInv

\* Where a step leaves a command that is over or dead.
LEMMA Over ==
    ASSUME ReleaseInv, NEW c \in Commands, command' = [command EXCEPT ![c] = NoCommand]
    PROVE  /\ command' \in [Commands -> CommandType]
           /\ \A d \in Commands \ {c} : command'[d] = command[d]
           /\ Knows(command[c])'
<1>1. NoCommand \in CommandType /\ NoCommand.pc = "idle"
    BY DEF NoCommand, CommandType
<1>2. command \in [Commands -> CommandType]
    BY DEF ReleaseInv, ReleaseTypes
<1>3. command'[c] = NoCommand
    BY <1>2
<1>4. Knows(command[c])'
    BY <1>1, <1>3 DEF Knows
<1> QED
    BY <1>1, <1>2, <1>4

LEMMA CommandStep ==
    ASSUME ReleaseInv, NEW c \in Commands, CommandNext(c)
    PROVE  ReleaseInv'
<1>1. /\ evidence \in Nat /\ aggregate \in Nat /\ aggregate <= evidence
      /\ command \in [Commands -> CommandType] /\ command[c] \in CommandType
      /\ Knows(command[c])
    BY DEF ReleaseInv, ReleaseTypes, Progress
<1>2. evidence' = evidence /\ mutated' = mutated
    BY Zenon DEF CommandNext, BeginQualification, MaterializeAggregate, EvaluateOutcomes, CheckPhaseGates,
           LinkQualification, ReadQualification, Finalize, CommandDies, evidenceVars
<1>3. decision' = decision => DecisionOnCurrentEvidence'
    BY DEF ReleaseInv, DecisionOnCurrentEvidence
<1>4. ASSUME NEW finalizes \in BOOLEAN, BeginQualification(c, finalizes)
      PROVE  ReleaseInv'
    <2> DEFINE v == [NoCommand EXCEPT !.pc = IF NamesCurrentEvidence THEN "read" ELSE "rebuild",
                                      !.finalizes = finalizes]
    <2>1. v \in CommandType /\ v.pc = (IF NamesCurrentEvidence THEN "read" ELSE "rebuild")
        BY DEF NoCommand, CommandType
    <2>2. command' = [command EXCEPT ![c] = v] /\ UNCHANGED <<aggregate, latest, decision>>
        BY <1>4 DEF BeginQualification
    <2>3. NamesCurrentEvidence => Sound(latest)'
        BY <1>2, <2>2 DEF ReleaseInv, NamesCurrentEvidence, Sound, Spans
    <2> HIDE DEF v
    <2>4. command'[c] = v /\ command' \in [Commands -> CommandType] /\ \A d \in Commands \ {c} : command'[d] = command[d]
        BY <1>1, <2>1, <2>2
    <2>5. Knows(command[c])'
        BY <2>1, <2>3, <2>4 DEF Knows
    <2> QED
        BY <1>1, <1>2, <1>3, <2>2, <2>4, <2>5, CommandKeeps
<1>5. CASE MaterializeAggregate(c)
    <2>1. command' = [command EXCEPT ![c].pc = "outcomes", ![c].hash = evidence]
          /\ aggregate' = evidence /\ UNCHANGED <<latest, decision>>
        BY <1>5 DEF MaterializeAggregate
    <2>2. command'[c].pc = "outcomes" /\ command'[c].hash = evidence
        BY <1>1, <2>1 DEF CommandType
    <2>3. command' \in [Commands -> CommandType] /\ \A d \in Commands \ {c} : command'[d] = command[d]
        BY <1>1, <2>1 DEF CommandType
    <2>4. Knows(command[c])'
        BY <1>1, <2>1, <2>2 DEF Knows
    <2> QED
        BY <1>1, <1>2, <1>3, <2>1, <2>3, <2>4, CommandKeeps
<1>6. CASE EvaluateOutcomes(c)
    <2>1. command' = [command EXCEPT ![c].pc = "gates", ![c].of = aggregate, ![c].ok = aggregate \in Sufficient,
                                     ![c].mutatedBefore = mutated]
          /\ UNCHANGED <<aggregate, latest, decision>>
        BY <1>6 DEF EvaluateOutcomes
    <2>2. mutated \in BOOLEAN
        BY DEF ReleaseInv, ReleaseTypes
    <2>3. /\ command'[c].pc = "gates" /\ command'[c].of = aggregate /\ command'[c].hash = command[c].hash
          /\ command'[c].mutatedBefore = mutated
        BY <1>1, <2>1 DEF CommandType
    <2>4. command' \in [Commands -> CommandType] /\ \A d \in Commands \ {c} : command'[d] = command[d]
        <3> DEFINE ok == aggregate \in Sufficient
                   v == [command[c] EXCEPT !.pc = "gates", !.of = aggregate, !.ok = ok, !.mutatedBefore = mutated]
        <3>1. command' = [command EXCEPT ![c] = v]
            BY <1>1, <2>1
        <3>2. ok \in BOOLEAN
            OBVIOUS
        <3>3. v \in CommandType
            <4> HIDE DEF ok
            <4> QED
                BY <1>1, <2>2, <3>2 DEF CommandType
        <3> HIDE DEF v
        <3> QED
            BY <1>1, <3>1, <3>3
    <2>5. command[c].hash <= aggregate
        BY <1>1, <1>6 DEF EvaluateOutcomes, CommandAt, Knows
    <2>6. Spans(command[c])'
        BY <1>1, <1>2, <2>3, <2>5 DEF Spans
    <2>7. Knows(command[c])'
        BY <1>2, <2>3, <2>6 DEF Knows
    <2> QED
        BY <1>1, <1>2, <1>3, <2>1, <2>4, <2>7, CommandKeeps
<1>7. CASE CheckPhaseGates(c)
    <2>1. command' = [command EXCEPT ![c].pc = "link", ![c].ok = command[c].ok /\ PhaseGatesPass]
          /\ UNCHANGED <<aggregate, latest, decision>>
        BY <1>1, <1>7 DEF CheckPhaseGates
    <2>2. /\ command'[c].pc = "link" /\ command'[c].of = command[c].of /\ command'[c].hash = command[c].hash
          /\ command'[c].mutatedBefore = command[c].mutatedBefore /\ command'[c].ok = (command[c].ok /\ PhaseGatesPass)
        BY <1>1, <2>1 DEF CommandType
    <2>3. command' \in [Commands -> CommandType] /\ \A d \in Commands \ {c} : command'[d] = command[d]
        BY <1>1, <2>1 DEF CommandType
    <2>4. Spans(command[c]) /\ (command[c].mutatedBefore => mutated)
        BY <1>1, <1>7 DEF CheckPhaseGates, CommandAt, Knows
    <2>5. PhaseGatesPass => ~mutated
        BY DEF PhaseGatesPass, CanaryReady
    <2>6. Spans(command[c])'
        BY <1>2, <2>2, <2>4 DEF Spans
    <2>7. command'[c].ok => ~command'[c].mutatedBefore
        BY <2>2, <2>4, <2>5
    <2>8. Knows(command[c])'
        BY <2>2, <2>6, <2>7 DEF Knows
    <2> QED
        BY <1>1, <1>2, <1>3, <2>1, <2>3, <2>8, CommandKeeps
<1>8. CASE LinkQualification(c)
    <2> DEFINE v == IF command[c].finalizes THEN [command[c] EXCEPT !.pc = "read"] ELSE NoCommand
    <2>1. v \in CommandType /\ v.pc \in {"read", "idle"}
        BY <1>1 DEF CommandType, NoCommand
    <2>2. command' = [command EXCEPT ![c] = v] /\ latest' = Verdict(c) /\ UNCHANGED <<aggregate, decision>>
        BY <1>1, <1>8 DEF LinkQualification
    <2> HIDE DEF v
    <2>3. Spans(command[c]) /\ (command[c].ok => ~command[c].mutatedBefore)
        BY <1>1, <1>8 DEF LinkQualification, CommandAt, Knows
    <2>4. Sound(Verdict(c))
        BY <1>1, <2>3 DEF Verdict, Sound, Spans, VerdictType, CommandType
    <2>5. Sound(latest)'
        BY <1>2, <2>2, <2>4 DEF Sound, Spans
    <2>6. command'[c] = v /\ command' \in [Commands -> CommandType] /\ \A d \in Commands \ {c} : command'[d] = command[d]
        BY <1>1, <2>1, <2>2
    <2>7. Knows(command[c])'
        BY <2>1, <2>5, <2>6 DEF Knows
    <2> QED
        BY <1>1, <1>2, <1>3, <2>2, <2>5, <2>6, <2>7, CommandKeeps
<1>9. CASE ReadQualification(c)
    <2>1. command' = [command EXCEPT ![c].pc = "decide", ![c].ok = latest.ok, ![c].hash = latest.hash, ![c].of = latest.of]
          /\ UNCHANGED <<aggregate, latest, decision>>
        BY <1>9 DEF ReadQualification
    <2>2. Sound(latest)
        BY <1>1, <1>9 DEF ReadQualification, CommandAt, Knows
    <2>3. command'[c].pc = "decide" /\ command'[c].hash = latest.hash /\ command'[c].of = latest.of
        BY <1>1, <2>1 DEF CommandType
    <2>4. latest.ok \in BOOLEAN /\ latest.hash \in Nat /\ latest.of \in Nat
        BY <2>2 DEF Sound, VerdictType
    <2>5. command' \in [Commands -> CommandType] /\ \A d \in Commands \ {c} : command'[d] = command[d]
        BY <1>1, <2>1, <2>4 DEF CommandType
    <2>6. Spans(command[c])'
        BY <1>2, <2>2, <2>3 DEF Sound, Spans
    <2>7. Knows(command[c])'
        BY <2>3, <2>6 DEF Knows
    <2> QED
        BY <1>1, <1>2, <1>3, <2>1, <2>5, <2>7, CommandKeeps
<1>10. ASSUME NEW satisfied \in BOOLEAN, Finalize(c, satisfied)
       PROVE  ReleaseInv'
    <2>1. command' = [command EXCEPT ![c] = NoCommand] /\ UNCHANGED <<aggregate, latest>>
        BY <1>10 DEF Finalize
    <2>2. Spans(command[c]) /\ command[c].of \in Nat /\ command[c].hash \in Nat
        BY <1>1, <1>10 DEF Finalize, CommandAt, Knows, CommandType
    <2>3. decision' # NoRow => decision' = [of |-> command[c].of, at |-> evidence] /\ command[c].hash = evidence
        BY <1>10 DEF Finalize
    <2>4. DecisionOnCurrentEvidence'
        BY <1>1, <2>2, <2>3 DEF DecisionOnCurrentEvidence, Spans
    <2>5. /\ command' \in [Commands -> CommandType] /\ Knows(command[c])'
          /\ \A d \in Commands \ {c} : command'[d] = command[d]
        BY <2>1, Over
    <2> QED
        BY <1>1, <1>2, <2>1, <2>4, <2>5, CommandKeeps
<1>11. CASE CommandDies(c)
    <2>1. command' = [command EXCEPT ![c] = NoCommand] /\ UNCHANGED <<aggregate, latest, decision>>
        BY <1>11 DEF CommandDies
    <2>2. /\ command' \in [Commands -> CommandType] /\ Knows(command[c])'
          /\ \A d \in Commands \ {c} : command'[d] = command[d]
        BY <2>1, Over
    <2> QED
        BY <1>1, <1>2, <1>3, <2>1, <2>2, CommandKeeps
<1> QED
    BY <1>4, <1>5, <1>6, <1>7, <1>8, <1>9, <1>10, <1>11 DEF CommandNext

LEMMA ReleaseInvariant == ReleaseSpec => []ReleaseInv
<1>1. ReleaseInit => ReleaseInv
    <2> SUFFICES ASSUME ReleaseInit PROVE ReleaseInv
        OBVIOUS
    <2>1. command = [c \in Commands |-> NoCommand] /\ evidence = 0 /\ aggregate = 0 /\ latest = NoRow /\ decision = NoRow
        BY DEF ReleaseInit
    <2>2. NoCommand \in CommandType /\ NoCommand.pc = "idle"
        BY DEF NoCommand, CommandType
    <2>3. mutated \in BOOLEAN
        BY Zenon DEF ReleaseInit
    <2>4. command \in [Commands -> CommandType]
        BY <2>1, <2>2
    <2>5. Progress
        BY <2>1, <2>2 DEF Progress, Knows
    <2> QED
        BY <2>1, <2>3, <2>4, <2>5 DEF ReleaseInv, ReleaseTypes, DecisionOnCurrentEvidence
<1>2. ReleaseInv /\ [ReleaseNext]_releaseVars => ReleaseInv'
    BY ToolsKeep, CommandStep DEF ReleaseNext
<1> QED
    BY <1>1, <1>2, PTL DEF ReleaseSpec

\* For any number of commands and tools: a qualified verdict linked to a campaign
\* was evaluated before any mutation attempt was recorded (qualify_campaign,
\* release_gate_status), and a decision for the canary review rests on outcomes of
\* the campaign's evidence at that moment.  The verdict's hash is at most the
\* evidence its outcomes were read from, which is at most the present one, and
\* finalize compares the first with the last.
THEOREM QualificationIsSound == ReleaseSpec => []QualificationStands
<1>1. ReleaseInv => MutationBlocksQualification
    BY DEF ReleaseInv, MutationBlocksQualification, Sound
<1>2. ReleaseInv => DecisionOnCurrentEvidence
    BY DEF ReleaseInv
<1>3. ReleaseInv => QualificationStands
    BY <1>1, <1>2 DEF QualificationStands
<1> QED
    BY <1>3, ReleaseInvariant, PTL

-----------------------------------------------------------------------------
(* The reader of the account.                                               *)

\* The cooldown the reader keeps is never shorter than the exchange's demand,
\* and a snapshot is in progress only when there is neither.
QuietInv ==
    /\ demanded \in Nat /\ cooldown \in Nat /\ demanded <= cooldown
    /\ Asking => cooldown = 0

LEMMA MaxOfTwo ==
    ASSUME NEW a \in Nat, NEW b \in Nat
    PROVE  Max({a, b}) \in Nat /\ Max({a, b}) >= a /\ Max({a, b}) >= b /\ Max({a, b}) \in {a, b}
<1>1. \E x \in {a, b} : \A y \in {a, b} : x >= y
    <2>1. CASE a >= b
        BY <2>1
    <2>2. CASE b >= a
        BY <2>2
    <2> QED
        BY <2>1, <2>2
<1> QED
    BY <1>1 DEF Max

LEMMA QuietStep ==
    ASSUME QuietInv, [ReadNext]_readVars
    PROVE  QuietInv'
<1>1. ASSUME NEW wait \in 0 .. MaxWait, Limited(wait) PROVE QuietInv'
    <2>1. demanded' = Max({demanded, wait}) /\ cooldown' = Max({cooldown, wait}) /\ read'.pc = "idle"
        BY <1>1 DEF Limited, AbandonRead, NoRead
    <2>2. wait \in Nat /\ demanded = 0 /\ cooldown = 0
        BY <1>1 DEF Limited, QuietInv
    <2>3. Max({0, wait}) \in Nat
        BY <2>2, MaxOfTwo
    <2> QED
        BY <2>1, <2>2, <2>3 DEF QuietInv, Asking
<1>2. CASE WaitPasses
    BY <1>2 DEF WaitPasses, QuietInv, Asking
<1>3. CASE BeginRead
    BY <1>3 DEF BeginRead, QuietInv, Asking
<1>4. CASE Answered
    BY <1>4 DEF Answered, QuietInv
<1>5. CASE Malformed
    BY <1>5 DEF Malformed, QuietInv
<1>6. CASE Refused
    BY <1>6 DEF Refused, QuietInv
<1>7. CASE TimeRefreshed
    <2>1. Asking' => Asking
        BY <1>7 DEF TimeRefreshed, Asking
    <2> QED
        BY <1>7, <2>1 DEF TimeRefreshed, QuietInv
<1>8. ASSUME NEW how \in {"body", "http"}, ClockRefused(how) PROVE QuietInv'
    BY <1>8 DEF ClockRefused, QuietInv
<1>9. ASSUME NEW class \in {"TRANSIENT", "PERMANENT", "UNKNOWN"}, Failed(class) PROVE QuietInv'
    BY <1>9 DEF Failed, QuietInv
<1>10. ASSUME NEW p \in Pairs, AccountMoves(p) PROVE QuietInv'
    BY <1>10 DEF AccountMoves, QuietInv, Asking
<1>11. CASE UNCHANGED readVars
    BY <1>11 DEF readVars, QuietInv, Asking
<1> QED
    BY <1>1, <1>2, <1>3, <1>4, <1>5, <1>6, <1>7, <1>8, <1>9, <1>10, <1>11 DEF ReadNext

\* No request is sent while the exchange wants none, whatever the retries, the
\* clock corrections and the waits (_register_rate_limit_cooldown, snapshot).
THEOREM SilenceIsKept == ReadSpec => SilentWhileLimited
<1>1. ReadInit => QuietInv
    BY DEF ReadInit, QuietInv, Asking, NoRead
<1>2. QuietInv /\ [ReadNext]_readVars => QuietInv'
    BY QuietStep
<1>3. QuietInv /\ [ReadNext]_readVars => [Asking /\ read' # read => demanded = 0]_readVars
    BY DEF QuietInv
<1> QED
    BY <1>1, <1>2, <1>3, PTL DEF ReadSpec, SilentWhileLimited

\* What the snapshot in progress already holds of what has stood since it
\* began: the positions once positionRisk was answered, the orders once
\* openOrders was.
Sizes == {"none", "dust", "some"}
ReadType == [pc : {"idle", "positionRisk", "exchangeInfo", "openOrders", "exchangeInfoForOrders", "userTrades"},
             time : {"none", "body", "http"}, retries : Nat, stamped : BOOLEAN, informed : BOOLEAN,
             size : [Pairs -> Sizes], orders : SUBSET Pairs, covered : SUBSET Pairs]

PositionsKnown(r) == \A p \in Pairs : <<"position", p>> \in standing => r.size[p] # "none"
OrdersKnown(r) == \A p \in Pairs : <<"order", p>> \in standing => p \in r.orders

TradesMissing(r) == ~(SymbolsForFills(r) \subseteq r.covered)

InProgress(r) ==
    /\ r \in ReadType
    /\ r.pc \notin {"idle", "positionRisk"} => PositionsKnown(r)
    /\ r.pc \in {"exchangeInfoForOrders", "userTrades"} => OrdersKnown(r)
    /\ r.pc = "userTrades" => TradesMissing(r)

ExposureInv ==
    /\ account \in [Pairs -> Holdings]
    /\ standing \subseteq {"order", "position"} \X Pairs
    /\ InProgress(read)
    /\ Asking => standing \subseteq Exposure /\ snapshot.status = "INCOMPLETE"
    /\ StandingExposureIsFound

LEMMA NoReadTyped == NoRead \in ReadType /\ NoRead.pc = "idle"
BY DEF NoRead, ReadType, Sizes

\* The snapshot is given up.
LEMMA AbandonKeeps ==
    ASSUME ExposureInv, UNCHANGED <<account, standing>>, NEW class, AbandonRead(class)
    PROVE  ExposureInv'
<1>1. read' = NoRead /\ snapshot'.status = "INCOMPLETE"
    BY DEF AbandonRead, Incomplete
<1>2. InProgress(read)' /\ ~Asking'
    BY <1>1, NoReadTyped DEF InProgress, Asking
<1> QED
    BY <1>1, <1>2 DEF ExposureInv, StandingExposureIsFound

\* The next endpoint is asked.
LEMMA AskKeeps ==
    ASSUME ExposureInv, Asking, UNCHANGED <<account, standing>>, NEW r \in ReadType, PositionsKnown(r),
           NEW pc \in {"exchangeInfo", "openOrders", "exchangeInfoForOrders", "userTrades"}, Ask(r, pc),
           pc \in {"exchangeInfoForOrders", "userTrades"} => OrdersKnown(r),
           pc = "userTrades" => TradesMissing(r)
    PROVE  ExposureInv'
<1>1. read' = [r EXCEPT !.pc = pc, !.retries = 0, !.stamped = FALSE] /\ snapshot' = snapshot
    BY DEF Ask
<1>2. /\ read' \in ReadType /\ read'.pc = pc
      /\ read'.size = r.size /\ read'.orders = r.orders /\ read'.covered = r.covered
    BY <1>1 DEF ReadType
<1>3. InProgress(read)'
    BY <1>2 DEF InProgress, PositionsKnown, OrdersKnown, TradesMissing, SymbolsForFills, Active
<1>4. Exposure' = Exposure
    BY DEF Exposure
<1> QED
    BY <1>1, <1>3, <1>4 DEF ExposureInv, StandingExposureIsFound, Asking

\* The trades of one more symbol, or the end of a snapshot that misses nothing.
LEMMA TradesKeep ==
    ASSUME ExposureInv, Asking, UNCHANGED <<account, standing>>, NEW r \in ReadType,
           PositionsKnown(r), OrdersKnown(r), NextTrades(r)
    PROVE  ExposureInv'
<1>1. CASE ~(SymbolsForFills(r) \subseteq r.covered)
    BY <1>1, AskKeeps DEF NextTrades, TradesMissing
<1>2. CASE SymbolsForFills(r) \subseteq r.covered
    <2>1. read' = NoRead /\ snapshot' = [status |-> "COMPLETE", class |-> "none", size |-> r.size,
                                         orders |-> r.orders, covered |-> r.covered]
        BY <1>2 DEF NextTrades
    <2>2. InProgress(read)' /\ ~Asking'
        BY <2>1, NoReadTyped DEF InProgress, Asking
    <2>3. standing' \subseteq Findings'
        <3> SUFFICES ASSUME NEW e \in standing PROVE e \in Findings'
            OBVIOUS
        <3>1. PICK p \in Pairs : e = <<"order", p>> \/ e = <<"position", p>>
            BY DEF ExposureInv
        <3>2. CASE e = <<"order", p>>
            BY <2>1, <3>2 DEF OrdersKnown, Findings
        <3>3. CASE e = <<"position", p>>
            BY <2>1, <3>3 DEF PositionsKnown, Findings
        <3> QED
            BY <3>1, <3>2, <3>3
    <2>4. snapshot'.orders \cup {p \in Pairs : snapshot'.size[p] = "some"} \cup Tracked \subseteq snapshot'.covered
        BY <1>2, <2>1 DEF SymbolsForFills, Active
    <2> QED
        BY <2>2, <2>3, <2>4 DEF ExposureInv, StandingExposureIsFound
<1> QED
    BY <1>1, <1>2

LEMMA PositionsKeep ==
    ASSUME ExposureInv, Asking, UNCHANGED <<account, standing>>, NEW r \in ReadType,
           PositionsKnown(r), NormalizePositions(r)
    PROVE  ExposureInv'
BY AskKeeps, AbandonKeeps DEF NormalizePositions

LEMMA OrdersKeep ==
    ASSUME ExposureInv, Asking, UNCHANGED <<account, standing>>, NEW r \in ReadType,
           PositionsKnown(r), OrdersKnown(r), NormalizeOrders(r)
    PROVE  ExposureInv'
BY TradesKeep, AbandonKeeps DEF NormalizeOrders

\* A retry, or the exchange's time, changes nothing of what is known.
LEMMA RetryKeeps ==
    ASSUME ExposureInv, Asking, UNCHANGED <<account, standing, snapshot>>, read' \in ReadType,
           read'.pc = read.pc, read'.size = read.size, read'.orders = read.orders,
           read'.covered = read.covered
    PROVE  ExposureInv'
<1>1. InProgress(read)'
    BY DEF ExposureInv, InProgress, PositionsKnown, OrdersKnown, TradesMissing, SymbolsForFills, Active
<1>2. Exposure' = Exposure
    BY DEF Exposure
<1> QED
    BY <1>1, <1>2 DEF ExposureInv, StandingExposureIsFound, Asking

LEMMA AnsweredKeeps ==
    ASSUME ExposureInv, Answered
    PROVE  ExposureInv'
<1>1. Asking /\ UNCHANGED <<account, standing>> /\ InProgress(read) /\ read \in ReadType
    BY DEF Answered, ExposureInv, InProgress
<1>2. CASE TakePositions
    <2> DEFINE r == [read EXCEPT !.size = [p \in Pairs |-> account[p].size]]
    <2>1. r \in ReadType /\ r.size = [p \in Pairs |-> account[p].size]
        BY <1>1 DEF ReadType, ExposureInv, Holdings, Sizes
    <2>2. IF (Held(r) \cup Tracked) \cap OddPairs # {} THEN Ask(r, "exchangeInfo") ELSE NormalizePositions(r)
        BY <1>2 DEF TakePositions
    <2> HIDE DEF r
    <2>3. PositionsKnown(r)
        BY <1>1, <2>1 DEF ExposureInv, Exposure, PositionsKnown
    <2> QED
        BY <1>1, <2>1, <2>2, <2>3, AskKeeps, PositionsKeep
<1>3. CASE TakeInfo
    <2> DEFINE r == [read EXCEPT !.informed = TRUE]
    <2>1. r \in ReadType /\ r.size = read.size /\ r.orders = read.orders
        BY <1>1 DEF ReadType
    <2>2. IF read.pc = "exchangeInfo" THEN NormalizePositions(r) ELSE NormalizeOrders(r)
        BY <1>3 DEF TakeInfo
    <2>3. read.pc \in {"exchangeInfo", "exchangeInfoForOrders"}
        BY <1>3 DEF TakeInfo, AsksInfo
    <2> HIDE DEF r
    <2>4. PositionsKnown(r) /\ (read.pc = "exchangeInfoForOrders" => OrdersKnown(r))
        BY <1>1, <2>1, <2>3 DEF InProgress, PositionsKnown, OrdersKnown
    <2> QED
        BY <1>1, <2>1, <2>2, <2>3, <2>4, PositionsKeep, OrdersKeep
<1>4. CASE TakeOrders
    <2> DEFINE r == [read EXCEPT !.orders = {p \in Pairs : account[p].order}]
    <2>1. r \in ReadType /\ r.size = read.size /\ r.orders = {p \in Pairs : account[p].order}
        BY <1>1 DEF ReadType
    <2>2. IF ~r.informed /\ r.orders \cap OddPairs # {} THEN Ask(r, "exchangeInfoForOrders") ELSE NormalizeOrders(r)
        BY <1>4 DEF TakeOrders
    <2> HIDE DEF r
    <2>3. PositionsKnown(r)
        BY <1>1, <1>4, <2>1 DEF TakeOrders, InProgress, PositionsKnown
    <2>4. OrdersKnown(r)
        BY <1>1, <2>1 DEF ExposureInv, Exposure, OrdersKnown
    <2> QED
        BY <1>1, <2>1, <2>2, <2>3, <2>4, AskKeeps, OrdersKeep
<1>5. CASE TakeTrades
    <2> DEFINE q == CHOOSE q \in SymbolsForFills(read) \ read.covered : TRUE
               r == [read EXCEPT !.covered = read.covered \cup {q}]
    <2>1. NextTrades(r)
        BY <1>1, <1>5 DEF TakeTrades, ReadType
    <2>2. read.pc = "userTrades"
        BY <1>5 DEF TakeTrades
    <2>3. q \in Pairs
        BY <1>1, <2>2, ReadAssumption DEF InProgress, TradesMissing, SymbolsForFills, Active, ReadType
    <2>4. r \in ReadType /\ r.size = read.size /\ r.orders = read.orders
        <3> HIDE DEF q
        <3> QED
            BY <1>1, <2>3 DEF ReadType
    <2> HIDE DEF r
    <2>5. PositionsKnown(r) /\ OrdersKnown(r)
        BY <1>1, <2>2, <2>4 DEF InProgress, PositionsKnown, OrdersKnown
    <2> QED
        BY <1>1, <2>1, <2>4, <2>5, TradesKeep
<1> QED
    BY <1>2, <1>3, <1>4, <1>5 DEF Answered

LEMMA ExposureStep ==
    ASSUME ExposureInv, [ReadNext]_readVars
    PROVE  ExposureInv'
<1>1. InProgress(read) /\ read \in ReadType
    BY DEF ExposureInv, InProgress
<1>2. CASE BeginRead
    <2>1. account' = account /\ standing' = Exposure /\ snapshot'.status = "INCOMPLETE"
        BY <1>2 DEF BeginRead, Incomplete
    <2>2. Exposure \subseteq {"order", "position"} \X Pairs /\ Exposure' = Exposure
        BY <2>1 DEF Exposure
    <2>3. read' = read \/ read' = [NoRead EXCEPT !.pc = "positionRisk"]
        BY <1>2 DEF BeginRead
    <2>4. read' \in ReadType /\ read'.pc \in {"idle", "positionRisk"}
        BY <1>1, <1>2, <2>3, NoReadTyped DEF BeginRead, ReadType
    <2>5. InProgress(read)'
        BY <2>4 DEF InProgress
    <2> QED
        BY <2>1, <2>2, <2>5 DEF ExposureInv, StandingExposureIsFound
<1>3. CASE Answered
    BY <1>3, AnsweredKeeps
<1>4. CASE Malformed
    BY <1>4, AbandonKeeps DEF Malformed
<1>5. CASE Refused
    BY <1>5, AbandonKeeps DEF Refused
<1>6. ASSUME NEW wait \in 0 .. MaxWait, Limited(wait) PROVE ExposureInv'
    BY <1>6, AbandonKeeps DEF Limited
<1>7. ASSUME NEW how \in {"body", "http"}, ClockRefused(how) PROVE ExposureInv'
    <2>1. CASE read' = [read EXCEPT !.time = how] /\ UNCHANGED snapshot
        <3>1. /\ read' \in ReadType /\ read'.pc = read.pc /\ read'.size = read.size
              /\ read'.orders = read.orders /\ read'.covered = read.covered
            BY <1>1, <1>7, <2>1 DEF ReadType
        <3> QED
            BY <1>7, <2>1, <3>1, RetryKeeps DEF ClockRefused
    <2>2. CASE AbandonRead("PERMANENT")
        BY <1>7, <2>2, AbandonKeeps DEF ClockRefused
    <2> QED
        BY <1>7, <2>1, <2>2 DEF ClockRefused
<1>8. CASE TimeRefreshed
    <2>1. read' = [read EXCEPT !.time = "none", !.stamped = TRUE] /\ UNCHANGED <<account, standing, snapshot>>
        BY <1>8 DEF TimeRefreshed
    <2>2. /\ read' \in ReadType /\ read'.pc = read.pc /\ read'.size = read.size
          /\ read'.orders = read.orders /\ read'.covered = read.covered
        BY <1>1, <2>1 DEF ReadType
    <2>3. CASE Asking
        BY <2>1, <2>2, <2>3, RetryKeeps
    <2>4. CASE ~Asking
        <3>1. InProgress(read)' /\ ~Asking'
            BY <2>2, <2>4 DEF InProgress, Asking
        <3> QED
            BY <2>1, <3>1 DEF ExposureInv, StandingExposureIsFound, Findings
    <2> QED
        BY <2>3, <2>4
<1>9. ASSUME NEW class \in {"TRANSIENT", "PERMANENT", "UNKNOWN"}, Failed(class) PROVE ExposureInv'
    <2>1. CASE read' = [read EXCEPT !.retries = read.retries + 1, !.time = "none"] /\ UNCHANGED snapshot
        <3>1. /\ read' \in ReadType /\ read'.pc = read.pc /\ read'.size = read.size
              /\ read'.orders = read.orders /\ read'.covered = read.covered
            <4> DEFINE n == read.retries + 1
            <4>1. n \in Nat
                BY <1>1 DEF ReadType
            <4>2. read' = [read EXCEPT !.retries = n, !.time = "none"]
                BY <2>1
            <4> HIDE DEF n
            <4> QED
                BY <1>1, <4>1, <4>2 DEF ReadType
        <3> QED
            BY <1>9, <2>1, <3>1, RetryKeeps DEF Failed
    <2>2. CASE AbandonRead(class)
        BY <1>9, <2>2, AbandonKeeps DEF Failed
    <2>3. \/ read' = [read EXCEPT !.retries = read.retries + 1, !.time = "none"] /\ UNCHANGED snapshot
          \/ AbandonRead(class)
        BY <1>1, <1>9 DEF Failed, ReadType
    <2> QED
        BY <2>1, <2>2, <2>3
<1>10. ASSUME NEW p \in Pairs, AccountMoves(p) PROVE ExposureInv'
    <2>1. UNCHANGED <<read, snapshot>> /\ standing' = (IF Asking THEN standing \cap Exposure' ELSE standing)
        BY <1>10 DEF AccountMoves
    <2>2. account' \in [Pairs -> Holdings]
        BY <1>10 DEF AccountMoves, ExposureInv
    <2>3. standing' \subseteq standing
        BY <2>1
    <2>4. InProgress(read)'
        BY <1>1, <2>1, <2>3 DEF InProgress, PositionsKnown, OrdersKnown, TradesMissing, SymbolsForFills, Active
    <2>5. Asking' => standing' \subseteq Exposure' /\ snapshot'.status = "INCOMPLETE"
        BY <2>1 DEF ExposureInv, Asking
    <2> QED
        BY <2>1, <2>2, <2>3, <2>4, <2>5 DEF ExposureInv, StandingExposureIsFound, Findings
<1>11. CASE WaitPasses \/ UNCHANGED readVars
    <2>1. UNCHANGED <<account, read, snapshot, standing>>
        BY <1>11 DEF WaitPasses, readVars
    <2> QED
        BY <2>1 DEF ExposureInv, StandingExposureIsFound, Findings, InProgress, PositionsKnown, OrdersKnown,
                    TradesMissing, SymbolsForFills, Active, Asking, Exposure
<1> QED
    BY <1>2, <1>3, <1>4, <1>5, <1>6, <1>7, <1>8, <1>9, <1>10, <1>11 DEF ReadNext

\* A complete snapshot holds everything that stood from its first request to its
\* last, and the trades of every symbol with an order or a real position: no
\* exposure of that kind leaves the gate open (snapshot, reconcile).
THEOREM NothingStandingIsMissed == ReadSpec => []StandingExposureIsFound
<1>1. ReadInit => ExposureInv
    <2> SUFFICES ASSUME ReadInit PROVE ExposureInv
        OBVIOUS
    <2>1. InProgress(read) /\ ~Asking
        BY NoReadTyped DEF ReadInit, InProgress, Asking
    <2>2. snapshot.status = "INCOMPLETE"
        BY DEF ReadInit, Incomplete
    <2> QED
        BY <2>1, <2>2 DEF ReadInit, ExposureInv, StandingExposureIsFound
<1>2. ExposureInv /\ [ReadNext]_readVars => ExposureInv'
    BY ExposureStep
<1>3. ExposureInv => StandingExposureIsFound
    BY DEF ExposureInv
<1> QED
    BY <1>1, <1>2, <1>3, PTL DEF ReadSpec

-----------------------------------------------------------------------------
(* The lease of the guarded operations.                                     *)

Steps == {"idle", "mkdir", "own", "inspect", "take", "verify", "mkdir2", "own2", "drop", "restore", "blocked",
          "check", "command", "postcheck", "audit", "release", "giveup", "verify2", "done"}
Results == {"NONE", "REFUSED", "FAILED", "SUCCESS"}
ClientType == [pc : Steps, op : Operations, token : Nat, seen : Nat, result : Results]

\* The process has judged a lease to be old; it holds the directory it judged.
Judging == {"take", "verify", "mkdir2", "own2", "drop"}
Holding == {"mkdir2", "own2", "drop"}
Judged(c) ==
    /\ client[c].pc \in Judging => client[c].seen \in old
    /\ client[c].pc \in Holding => aside[c] = client[c].seen

\* An old lease is nobody's: ids are handed out once, and only a lease whose
\* operation is over grows old.
LeaseInv ==
    /\ path \in Int /\ aside \in [Clients -> Int]
    /\ ops \in Nat /\ old \subseteq 1 .. ops
    /\ client \in [Clients -> ClientType]
    /\ \A c \in Clients : client[c].token <= ops /\ client[c].token \notin old
    /\ \A c \in Clients : Judged(c)

\* One process moved on to one of the states pcs.
Went(c, pcs) ==
    /\ client' \in [Clients -> ClientType]
    /\ \A d \in Clients \ {c} : client'[d] = client[d]
    /\ client'[c].pc \in pcs
    /\ client'[c].token = client[c].token /\ client'[c].seen = client[c].seen

LEMMA GotoWent ==
    ASSUME LeaseInv, NEW c \in Clients, NEW pc \in Steps, Goto(c, pc)
    PROVE  Went(c, {pc})
BY DEF LeaseInv, Goto, Went, ClientType

LEMMA EndedWent ==
    ASSUME LeaseInv, NEW c \in Clients, NEW result \in Results, NEW pc \in Steps,
           client' = [client EXCEPT ![c].pc = pc, ![c].result = result]
    PROVE  Went(c, {pc})
BY DEF LeaseInv, Went, ClientType

LEMMA OtherLease ==
    ASSUME LeaseInv, NEW c \in Clients, path' \in Int, aside' \in [Clients -> Int],
           UNCHANGED <<ops, old>>, client' \in [Clients -> ClientType],
           \A d \in Clients \ {c} : client'[d] = client[d] /\ aside'[d] = aside[d],
           client'[c].token <= ops, client'[c].token \notin old, Judged(c)'
    PROVE  LeaseInv'
<1>1. ASSUME NEW d \in Clients
      PROVE  client'[d].token <= ops' /\ client'[d].token \notin old' /\ Judged(d)'
    <2>1. CASE d = c
        BY <2>1
    <2>2. CASE d # c
        BY <2>2 DEF LeaseInv, Judged
    <2> QED
        BY <2>1, <2>2
<1> QED
    BY <1>1 DEF LeaseInv

LEMMA WentKeeps ==
    ASSUME LeaseInv, NEW c \in Clients, NEW pc, Went(c, {pc}),
           path' \in Int, aside' \in [Clients -> Int], \A d \in Clients \ {c} : aside'[d] = aside[d],
           UNCHANGED <<ops, old>>,
           pc \in Judging => client[c].pc \in Judging,
           pc \in Holding => aside'[c] = client[c].seen
    PROVE  LeaseInv'
<1>1. Judged(c)'
    BY DEF LeaseInv, Judged, Went
<1>2. client'[c].token <= ops /\ client'[c].token \notin old
    BY DEF LeaseInv, Went
<1> QED
    BY <1>1, <1>2, OtherLease DEF Went, LeaseInv

LEMMA MkdirKeeps ==
    ASSUME LeaseInv, NEW c \in Clients, NEW from, NEW to \in Steps, NEW blocked \in Steps,
           Mkdir(c, from, to, blocked), blocked \notin Judging,
           to \in Judging => from \in Judging, to \in Holding => from \in Holding
    PROVE  LeaseInv'
<1>1. path' \in Int /\ UNCHANGED <<aside, ops, old>> /\ aside \in [Clients -> Int] /\ client[c].pc = from
    BY DEF Mkdir, LeaseInv, ClientAt
<1>2. from \in Holding => aside[c] = client[c].seen
    BY <1>1 DEF LeaseInv, Judged
<1>3. CASE Goto(c, to)
    BY <1>1, <1>2, <1>3, GotoWent, WentKeeps
<1>4. CASE Goto(c, blocked)
    BY <1>1, <1>4, GotoWent, WentKeeps DEF Judging, Holding
<1> QED
    BY <1>3, <1>4 DEF Mkdir

\* The states by name.
LEMMA Places ==
    /\ \A pc \in Steps : /\ pc \in Judging <=> pc \in {"take", "verify", "mkdir2", "own2", "drop"}
                         /\ pc \in Holding <=> pc \in {"mkdir2", "own2", "drop"}
    /\ {"idle", "mkdir", "own", "inspect", "take", "verify", "mkdir2", "own2", "drop", "restore", "blocked",
          "check", "command", "postcheck", "audit", "release", "giveup", "verify2", "done"} = Steps
    /\ {"NONE", "REFUSED", "FAILED", "SUCCESS"} = Results
BY DEF Judging, Holding, Steps, Results

\* A step that leaves the directories alone.
LEMMA QuietWent ==
    ASSUME LeaseInv, NEW c \in Clients, NEW pc, Went(c, {pc}), UNCHANGED <<path, aside, ops, old>>,
           pc \notin Judging
    PROVE  LeaseInv'
<1>1. pc \notin Holding /\ path \in Int /\ aside \in [Clients -> Int]
    BY DEF Judging, Holding, LeaseInv
<1> QED
    BY <1>1, WentKeeps

LEMMA GotoKeeps ==
    ASSUME LeaseInv, NEW c \in Clients, NEW pc \in Steps, Goto(c, pc), UNCHANGED <<path, aside, ops, old>>,
           pc \notin Judging
    PROVE  LeaseInv'
BY GotoWent, QuietWent

LEMMA EndedKeeps ==
    ASSUME LeaseInv, NEW c \in Clients, NEW result \in Results, NEW pc \in Steps,
           client' = [client EXCEPT ![c].pc = pc, ![c].result = result],
           UNCHANGED <<path, aside, ops, old>>, pc \notin Judging
    PROVE  LeaseInv'
BY EndedWent, QuietWent

LEMMA AcquireStep ==
    ASSUME LeaseInv, NEW c \in Clients,
           \/ FreshMkdir(c) \/ FreshOwner(c) \/ Inspect(c) \/ TakeOver(c) \/ Verify(c) \/ Restore(c)
           \/ TakenMkdir(c) \/ TakenOwner(c) \/ TakeOverBlocked(c) \/ DropStale(c)
    PROVE  LeaseInv'
<1>1. /\ path \in Int /\ aside \in [Clients -> Int] /\ client \in [Clients -> ClientType]
      /\ client[c] \in ClientType /\ Judged(c) /\ ops \in Nat /\ old \subseteq Nat
    BY DEF LeaseInv
<1>2. CASE FreshMkdir(c)
    BY <1>2, MkdirKeeps, Places DEF FreshMkdir
<1>3. CASE FreshOwner(c)
    <2>1. path' \in Int /\ UNCHANGED <<aside, ops, old>>
        BY <1>1, <1>3 DEF FreshOwner, WriteOwner, ClientType
    <2>2. CASE Goto(c, "check")
        <3>1. Went(c, {"check"})
            BY <2>2, GotoWent, Places
        <3> QED
            BY <1>1, <2>1, <3>1, WentKeeps, Places
    <2>3. CASE Ended(c, "FAILED")
        <3>1. Went(c, {"done"})
            BY <2>3, EndedWent, Places DEF Ended
        <3> QED
            BY <1>1, <2>1, <3>1, WentKeeps, Places
    <2> QED
        BY <1>3, <2>2, <2>3 DEF FreshOwner, WriteOwner
<1>4. CASE Inspect(c)
    <2>1. UNCHANGED <<path, aside, ops, old>>
        BY <1>4 DEF Inspect
    <2>2. CASE path \in old
        <3>1. client' = [client EXCEPT ![c].pc = "take", ![c].seen = path]
            BY <1>4, <2>2 DEF Inspect
        <3>2. path \in Nat
            BY <1>1, <2>2
        <3>3. /\ client' \in [Clients -> ClientType] /\ client'[c].pc = "take"
              /\ client'[c].token = client[c].token /\ client'[c].seen = path
              /\ \A d \in Clients \ {c} : client'[d] = client[d]
            BY <1>1, <3>1, <3>2 DEF ClientType, Steps
        <3>4. Judged(c)'
            BY <2>1, <2>2, <3>3 DEF Judged, Holding
        <3>5. client'[c].token <= ops /\ client'[c].token \notin old
            BY <3>3 DEF LeaseInv
        <3> QED
            BY <1>1, <2>1, <3>3, <3>4, <3>5, OtherLease
    <2>3. CASE path \notin old
        BY <1>4, <2>1, <2>3, EndedKeeps, Places DEF Inspect, Ended
    <2> QED
        BY <2>2, <2>3
<1>5. CASE TakeOver(c)
    <2>1. CASE path = Absent
        BY <1>5, <2>1, EndedKeeps, Places DEF TakeOver, SetAside, Ended
    <2>2. CASE path # Absent
        <3>1. /\ path' = Absent /\ aside' = [aside EXCEPT ![c] = path] /\ Goto(c, "verify")
              /\ UNCHANGED <<ops, old>> /\ client[c].pc = "take"
            BY <1>5, <2>2 DEF TakeOver, SetAside, ClientAt
        <3>2. path' \in Int /\ aside' \in [Clients -> Int] /\ \A d \in Clients \ {c} : aside'[d] = aside[d]
            BY <1>1, <3>1 DEF Absent
        <3>3. Went(c, {"verify"})
            BY <3>1, GotoWent, Places
        <3> QED
            BY <3>1, <3>2, <3>3, WentKeeps, Places
    <2> QED
        BY <2>1, <2>2
<1>6. CASE Verify(c)
    <2>1. UNCHANGED <<path, aside, ops, old>> /\ client[c].pc = "verify"
        BY <1>6 DEF Verify, ClientAt
    <2>2. CASE aside[c] = client[c].seen /\ Goto(c, "mkdir2")
        <3>1. Went(c, {"mkdir2"})
            BY <2>2, GotoWent, Places
        <3> QED
            BY <1>1, <2>1, <2>2, <3>1, WentKeeps, Places
    <2>3. CASE Goto(c, "restore")
        BY <2>1, <2>3, GotoKeeps, Places
    <2>4. CASE Ended(c, "REFUSED")
        BY <2>1, <2>4, EndedKeeps, Places DEF Ended
    <2> QED
        BY <1>6, <2>2, <2>3, <2>4 DEF Verify
<1>7. CASE Restore(c)
    <2>1. path' \in Int /\ aside' \in [Clients -> Int] /\ (\A d \in Clients \ {c} : aside'[d] = aside[d]) /\ UNCHANGED <<ops, old>>
        BY <1>1, <1>7 DEF Restore, Absent
    <2> DEFINE result == IF client[c].result = "NONE" THEN "REFUSED" ELSE client[c].result
    <2>2. Ended(c, result)
        BY <1>7 DEF Restore
    <2>3. result \in Results
        BY <1>1 DEF ClientType, Results
    <2> HIDE DEF result
    <2>4. Went(c, {"done"})
        BY <2>2, <2>3, EndedWent, Places DEF Ended
    <2> QED
        BY <2>1, <2>4, WentKeeps, Places
<1>8. CASE TakenMkdir(c)
    BY <1>8, MkdirKeeps, Places DEF TakenMkdir
<1>9. CASE TakenOwner(c)
    <2>1. path' \in Int /\ UNCHANGED <<aside, ops, old>> /\ client[c].pc = "own2"
        BY <1>1, <1>9 DEF TakenOwner, WriteOwner, ClientType, ClientAt
    <2>2. aside[c] = client[c].seen
        BY <1>1, <2>1 DEF Judged, Holding
    <2>3. CASE Goto(c, "drop")
        <3>1. Went(c, {"drop"})
            BY <2>3, GotoWent, Places
        <3> QED
            BY <1>1, <2>1, <2>2, <3>1, WentKeeps, Places
    <2>4. CASE Goto(c, "blocked")
        <3>1. Went(c, {"blocked"})
            BY <2>4, GotoWent, Places
        <3> QED
            BY <1>1, <2>1, <3>1, WentKeeps, Places
    <2> QED
        BY <1>9, <2>3, <2>4 DEF TakenOwner, WriteOwner
<1>10. CASE TakeOverBlocked(c)
    <2>1. UNCHANGED <<path, aside, ops, old>>
        BY <1>10 DEF TakeOverBlocked
    <2>2. CASE Goto(c, "restore")
        BY <2>1, <2>2, GotoKeeps, Places
    <2>3. CASE Ended(c, "REFUSED")
        BY <2>1, <2>3, EndedKeeps, Places DEF Ended
    <2> QED
        BY <1>10, <2>2, <2>3 DEF TakeOverBlocked
<1>11. CASE DropStale(c)
    <2>1. path' \in Int /\ aside' \in [Clients -> Int] /\ (\A d \in Clients \ {c} : aside'[d] = aside[d]) /\ UNCHANGED <<ops, old>>
        BY <1>1, <1>11 DEF DropStale, Absent
    <2>2. Went(c, {"check"})
        BY <1>11, GotoWent, Places DEF DropStale
    <2> QED
        BY <2>1, <2>2, WentKeeps, Places
<1> QED
    BY <1>2, <1>3, <1>4, <1>5, <1>6, <1>7, <1>8, <1>9, <1>10, <1>11

LEMMA OperateStep ==
    ASSUME LeaseInv, NEW c \in Clients,
           CheckState(c) \/ RunCommand(c) \/ PostCheck(c) \/ Audit(c) \/ ReleaseCheck(c)
    PROVE  LeaseInv'
<1>1. UNCHANGED <<path, aside, ops, old>>
    BY DEF CheckState, RunCommand, PostCheck, Audit, ReleaseCheck
<1>2. ASSUME NEW pc \in {"command", "postcheck", "release", "giveup", "done"}, Goto(c, pc)
      PROVE  LeaseInv'
    BY <1>1, <1>2, GotoKeeps, Places
<1>3. ASSUME NEW pc \in {"audit", "release"}, NEW result \in Results,
             client' = [client EXCEPT ![c].pc = pc, ![c].result = result]
      PROVE  LeaseInv'
    BY <1>1, <1>3, EndedKeeps, Places
<1>4. CASE CheckState(c)
    BY <1>2, <1>3, <1>4, Places DEF CheckState
<1>5. CASE RunCommand(c)
    BY <1>2, <1>3, <1>5, Places DEF RunCommand
<1>6. CASE PostCheck(c)
    BY <1>3, <1>6, Places DEF PostCheck
<1>7. CASE Audit(c)
    BY <1>2, <1>3, <1>7, Places DEF Audit
<1>8. CASE ReleaseCheck(c)
    BY <1>2, <1>8 DEF ReleaseCheck
<1> QED
    BY <1>4, <1>5, <1>6, <1>7, <1>8

\* The process is idle again, or another operation begins: it has judged
\* nothing, and its id is not an old one.
LEMMA FreshKeeps ==
    ASSUME LeaseInv, NEW c \in Clients, NEW v \in ClientType, client' = [client EXCEPT ![c] = v],
           \/ v.pc = "idle" /\ v.token = 0 /\ ops' = ops
           \/ v.pc = "mkdir" /\ v.token = ops' /\ ops' = ops + 1,
           UNCHANGED <<path, old>>, aside' \in [Clients -> Int],
           \A d \in Clients \ {c} : aside'[d] = aside[d]
    PROVE  LeaseInv'
<1>1. /\ path \in Int /\ ops \in Nat /\ old \subseteq 1 .. ops /\ client \in [Clients -> ClientType]
      /\ \A d \in Clients : client[d].token <= ops /\ client[d].token \notin old /\ Judged(d)
    BY DEF LeaseInv
<1> ops' \in Nat /\ ops <= ops' /\ v.token <= ops'
    BY <1>1
<1>2. client' \in [Clients -> ClientType] /\ old' \subseteq 1 .. ops'
    BY <1>1
<1>3. ASSUME NEW d \in Clients
      PROVE  client'[d].token <= ops' /\ client'[d].token \notin old' /\ Judged(d)'
    <2>1. CASE d = c
        <3>1. client'[d] = v
            BY <1>1, <2>1
        <3>2. v.token \notin old /\ v.pc \notin Judging /\ v.pc \notin Holding
            BY <1>1 DEF Judging, Holding
        <3> QED
            BY <3>1, <3>2 DEF Judged
    <2>2. CASE d # c
        <3>1. client'[d] = client[d] /\ client[d] \in ClientType
            BY <1>1, <2>2
        <3>2. client[d].token <= ops'
            BY <1>1, <3>1 DEF ClientType
        <3> QED
            BY <1>1, <2>2, <3>1, <3>2 DEF Judged
    <2> QED
        BY <2>1, <2>2
<1> QED
    BY <1>1, <1>2, <1>3 DEF LeaseInv

LEMMA LeaseStep ==
    ASSUME LeaseInv, [LeaseNext]_leaseVars
    PROVE  LeaseInv'
<1>1. /\ path \in Int /\ aside \in [Clients -> Int] /\ client \in [Clients -> ClientType]
      /\ ops \in Nat /\ old \subseteq 1 .. ops
    BY DEF LeaseInv
<1>2. ASSUME NEW c \in Clients, GiveUp(c) PROVE LeaseInv'
    <2>1. CASE path = Absent
        BY <1>2, <2>1, GotoKeeps, Places DEF GiveUp, SetAside
    <2>2. CASE path # Absent
        <3>1. path' = Absent /\ aside' = [aside EXCEPT ![c] = path] /\ Goto(c, "verify2") /\ UNCHANGED <<ops, old>>
            BY <1>2, <2>2 DEF GiveUp, SetAside
        <3>2. path' \in Int /\ aside' \in [Clients -> Int] /\ \A d \in Clients \ {c} : aside'[d] = aside[d]
            BY <1>1, <3>1 DEF Absent
        <3>3. Went(c, {"verify2"})
            BY <3>1, GotoWent, Places
        <3> QED
            BY <3>1, <3>2, <3>3, WentKeeps, Places
    <2> QED
        BY <2>1, <2>2
<1>3. ASSUME NEW c \in Clients, ReleaseVerify(c) PROVE LeaseInv'
    <2>1. /\ path' \in Int /\ aside' \in [Clients -> Int] /\ UNCHANGED <<ops, old>>
          /\ \A d \in Clients \ {c} : aside'[d] = aside[d]
        BY <1>1, <1>3 DEF ReleaseVerify, Absent
    <2>2. Goto(c, "done") \/ Goto(c, "restore")
        BY <1>3 DEF ReleaseVerify
    <2>3. Went(c, {"done"}) \/ Went(c, {"restore"})
        BY <2>2, GotoWent, Places
    <2> QED
        BY <2>1, <2>3, WentKeeps, Places
<1>4. ASSUME NEW c \in Clients, ControlReturn(c) \/ Death(c) PROVE LeaseInv'
    <2>1. /\ aside' = [aside EXCEPT ![c] = Absent] /\ UNCHANGED <<path, ops, old>>
        BY <1>4 DEF ControlReturn, Death
    <2>2. aside' \in [Clients -> Int] /\ \A d \in Clients \ {c} : aside'[d] = aside[d]
        BY <1>1, <2>1 DEF Absent
    <2>3. PICK v : v \in {Idle, [Idle EXCEPT !.result = client[c].result]} /\ client' = [client EXCEPT ![c] = v]
        BY <1>4 DEF ControlReturn, Death
    <2>4. v \in ClientType /\ v.pc = "idle" /\ v.token = 0
        BY <1>1, <2>3 DEF Idle, ClientType, Steps, Results, Operations
    <2> QED
        BY <1>1, <2>1, <2>2, <2>3, <2>4, FreshKeeps
<1>5. ASSUME NEW c \in Clients, NEW op \in Operations, ControlBegin(c, op) PROVE LeaseInv'
    <2> DEFINE v == [Idle EXCEPT !.pc = "mkdir", !.op = op, !.token = ops + 1]
    <2>1. ops' = ops + 1 /\ client' = [client EXCEPT ![c] = v] /\ UNCHANGED <<path, aside, old>>
        BY <1>5 DEF ControlBegin
    <2>2. v \in ClientType /\ v.pc = "mkdir" /\ v.token = ops'
        <3> DEFINE n == ops + 1
        <3>1. n \in Nat /\ ops' = n
            BY <1>1, <2>1
        <3> HIDE DEF n
        <3> QED
            BY <3>1, <2>1 DEF Idle, ClientType, Steps, Results
    <2> HIDE DEF v
    <2> QED
        BY <1>1, <2>1, <2>2, FreshKeeps
<1>6. ASSUME NEW t \in Tokens, LeaseAges(t) PROVE LeaseInv'
    <2>1. UNCHANGED <<path, aside, ops, client>> /\ old' = old \cup {t} /\ t \in 1 .. ops
        BY <1>6 DEF LeaseAges
    <2>2. \A c \in Clients : client[c].token # t
        BY <1>6 DEF LeaseAges
    <2>3. \A c \in Clients : Judged(c)'
        BY <2>1 DEF LeaseInv, Judged
    <2> QED
        BY <1>1, <2>1, <2>2, <2>3 DEF LeaseInv
<1>7. CASE (CampaignMoves /\ UNCHANGED <<path, aside, ops, old, client, deaths>>) \/ UNCHANGED leaseVars
    <2>1. UNCHANGED <<path, aside, ops, old, client>>
        BY <1>7 DEF leaseVars
    <2> QED
        BY <2>1 DEF LeaseInv, Judged
<1> QED
    BY <1>2, <1>3, <1>4, <1>5, <1>6, <1>7, AcquireStep, OperateStep DEF LeaseNext, ClientSteps

\* A lease directory that a takeover deletes belongs to no operation that is
\* still going on, for any number of processes, requests and deaths
\* (_acquire_lease): what was set aside is the directory that was judged, and a
\* directory judged old is nobody's ever after.
THEOREM TakeOverDeletesTheDead == LeaseSpec => DeletesOnlyItsOwn
<1>1. LeaseInit => LeaseInv
    <2> SUFFICES ASSUME LeaseInit PROVE LeaseInv
        OBVIOUS
    <2>1. Idle \in ClientType /\ Idle.pc = "idle" /\ Idle.token = 0
        BY DEF Idle, ClientType, Steps, Results, Operations
    <2>2. client = [c \in Clients |-> Idle] /\ aside = [c \in Clients |-> Absent] /\ path = Absent /\ ops = 0 /\ old = {}
        BY DEF LeaseInit
    <2> HIDE DEF Idle
    <2>3. \A c \in Clients : Judged(c)
        BY <2>1, <2>2 DEF Judged, Judging, Holding
    <2> QED
        BY <2>1, <2>2, <2>3 DEF LeaseInv, Absent
<1>2. LeaseInv /\ [LeaseNext]_leaseVars => LeaseInv'
    BY LeaseStep
<1>3. LeaseInv /\ [LeaseNext]_leaseVars =>
        [\A c \in Clients :
           aside[c] \in Tokens /\ aside'[c] = Absent /\ client'[c].pc = "check"
             => \A d \in Clients : client[d].token # aside[c]]_leaseVars
    <2> SUFFICES ASSUME LeaseInv, [LeaseNext]_leaseVars, NEW c \in Clients,
                        aside[c] \in Tokens, aside'[c] = Absent, client'[c].pc = "check"
                 PROVE  aside[c] \in old
        BY DEF LeaseInv
    <2>1. /\ aside \in [Clients -> Int] /\ client \in [Clients -> ClientType] /\ aside[c] # Absent
          /\ Judged(c)
        BY DEF LeaseInv, Absent, Tokens
    <2>2. aside' # aside
        BY <2>1
    <2>3. CASE DropStale(c)
        BY <2>1, <2>3 DEF DropStale, ClientAt, Judged, Judging, Holding
    <2>4. ASSUME NEW e \in Clients, e # c,
                 ClientSteps(e) \/ ControlReturn(e) \/ Death(e)
          PROVE  FALSE
        <3>1. \E x : aside' = [aside EXCEPT ![e] = x]
            BY <2>2, <2>4 DEF ClientSteps, ControlReturn, Death, FreshMkdir, FreshOwner, TakenMkdir, TakenOwner, Mkdir,
               WriteOwner, Inspect, TakeOver, GiveUp, SetAside, Verify, Restore, TakeOverBlocked, DropStale,
               CheckState, RunCommand, PostCheck, Audit, ReleaseCheck, ReleaseVerify
        <3> QED
            BY <2>1, <2>4, <3>1
    <2>5. CASE Restore(c) \/ ReleaseVerify(c) \/ ControlReturn(c) \/ Death(c)
        BY <2>1, <2>5 DEF Restore, Ended, ReleaseVerify, Goto, ControlReturn, Death, Idle, ClientType
    <2>6. CASE TakeOver(c) \/ GiveUp(c)
        BY <2>1, <2>2, <2>6 DEF TakeOver, GiveUp, SetAside, Goto, ClientType
    <2>7. PICK e \in Clients : ClientSteps(e) \/ ControlReturn(e) \/ Death(e)
        BY <2>2 DEF LeaseNext, leaseVars, ControlBegin, LeaseAges
    <2>8. ClientSteps(c) \/ ControlReturn(c) \/ Death(c)
        BY <2>4, <2>7
    <2>9. ~(FreshMkdir(c) \/ FreshOwner(c) \/ TakenMkdir(c) \/ TakenOwner(c) \/ Inspect(c) \/ Verify(c) \/ TakeOverBlocked(c))
        BY <2>2 DEF FreshMkdir, FreshOwner, TakenMkdir, TakenOwner, Mkdir, WriteOwner, Inspect, Verify, TakeOverBlocked
    <2>10. ~(CheckState(c) \/ RunCommand(c) \/ PostCheck(c) \/ Audit(c) \/ ReleaseCheck(c))
        BY <2>2 DEF CheckState, RunCommand, PostCheck, Audit, ReleaseCheck
    <2> QED
        BY <2>3, <2>5, <2>6, <2>8, <2>9, <2>10 DEF ClientSteps
<1> QED
    BY <1>1, <1>2, <1>3, PTL DEF LeaseSpec, DeletesOnlyItsOwn

-----------------------------------------------------------------------------
(* One guarded operation at a time.                                         *)

\* The states of a process that owns the lease; of one that displaces another.
Owning == Working \cup {"release", "giveup"}
Displacing == {"take", "verify", "mkdir2", "own2", "drop", "restore", "blocked"}

\* Nothing was taken over: either no lease has grown old, or none that is at
\* the path, because nobody has died.
Undisturbed == deaths = 0 \/ old = {}

\* What the path holds for a process, by what it is doing.
Placed(c) ==
    /\ client[c].pc # "idle" => client[c].token >= 1
    /\ client[c].pc \notin Displacing
    /\ client[c].pc = "own" => path = 0
    /\ client[c].pc \in Owning => path = client[c].token
    /\ client[c].pc = "verify2" => aside[c] = client[c].token

\* One directory is empty at a time, and ids are handed out once.
Apart(c, d) ==
    /\ ~ (client[c].pc = "own" /\ client[d].pc = "own")
    /\ client[c].pc # "idle" /\ client[d].pc # "idle" => client[c].token # client[d].token

\* While nobody has died, the lease at the path is a living process's.
Owned ==
    deaths = 0 /\ path >= 1 => \E c \in Clients : client[c].pc \in Owning /\ client[c].token = path

Serial ==
    /\ \A c \in Clients : Placed(c)
    /\ \A c \in Clients : \A d \in Clients \ {c} : Apart(c, d)
    /\ Owned

SerialInv == LeaseInv /\ deaths \in Nat /\ (Undisturbed => Serial)

\* One process moved on; what it leaves at the path is no other process's.
LEMMA OthersStand ==
    ASSUME LeaseInv, Serial, NEW c \in Clients,
           \A d \in Clients \ {c} : client'[d] = client[d] /\ aside'[d] = aside[d],
           \/ path' = path
           \/ \A d \in Clients \ {c} : client[d].pc # "own" /\ client[d].pc \notin Owning,
           Placed(c)', \A d \in Clients \ {c} : Apart(c, d)', Owned'
    PROVE  Serial'
<1>1. ASSUME NEW d \in Clients PROVE Placed(d)'
    <2>1. CASE d = c
        BY <2>1
    <2>2. CASE d # c
        BY <2>2 DEF Serial, Placed
    <2> QED
        BY <2>1, <2>2
<1>2. ASSUME NEW d \in Clients, NEW e \in Clients \ {d} PROVE Apart(d, e)'
    <2>1. CASE d = c
        BY <2>1
    <2>2. CASE e = c
        BY <2>2 DEF Apart
    <2>3. CASE d # c /\ e # c
        BY <2>3 DEF Serial, Apart
    <2> QED
        BY <2>1, <2>2, <2>3
<1> QED
    BY <1>1, <1>2 DEF Serial

\* A step on the way that leaves the directories alone and owns what it did.
LEMMA QuietStands ==
    ASSUME LeaseInv, Serial, NEW c \in Clients, NEW pc, Went(c, {pc}), UNCHANGED <<path, aside, deaths>>,
           client[c].pc # "idle", pc \notin Displacing, pc # "own", pc # "verify2",
           pc \in Owning <=> client[c].pc \in Owning
    PROVE  Serial'
<1>1. client'[c].pc = pc /\ client'[c].token = client[c].token /\ \A d \in Clients \ {c} : client'[d] = client[d]
    BY DEF Went
<1>2. Placed(c) /\ \A d \in Clients \ {c} : Apart(c, d)
    BY DEF Serial
<1>3. Placed(c)'
    BY <1>1, <1>2 DEF Placed
<1>4. \A d \in Clients \ {c} : Apart(c, d)'
    BY <1>1, <1>2 DEF Apart
<1>5. Owned'
    <2>1. ASSUME NEW d \in Clients
          PROVE  /\ client'[d].pc \in Owning <=> client[d].pc \in Owning
                 /\ client'[d].token = client[d].token
        BY <1>1
    <2> QED
        BY <2>1 DEF Serial, Owned
<1> QED
    BY <1>1, <1>3, <1>4, <1>5, OthersStand

\* The states of the lease by name.
LEMMA Roles ==
    /\ Owning = {"check", "command", "postcheck", "audit", "release", "giveup"}
    /\ {"idle", "mkdir", "own", "inspect", "verify2", "done"} \cap (Owning \cup Displacing) = {}
    /\ Owning \cap Displacing = {}
    /\ Displacing = {"take", "verify", "mkdir2", "own2", "drop", "restore", "blocked"}
BY DEF Owning, Displacing, Working

LEMMA ArrivalStands ==
    ASSUME LeaseInv, Serial, Undisturbed, NEW c \in Clients, UNCHANGED deaths,
           FreshMkdir(c) \/ FreshOwner(c) \/ Inspect(c)
    PROVE  Serial'
<1>1. /\ client[c] \in ClientType /\ aside' = aside /\ path \in Int /\ old \subseteq 1 .. ops /\ ops \in Nat
      /\ Placed(c) /\ \A d \in Clients \ {c} : Placed(d) /\ Apart(c, d)
    BY DEF LeaseInv, Serial, FreshMkdir, Mkdir, FreshOwner, WriteOwner, Inspect
<1>2. CASE FreshMkdir(c)
    <2>1. client[c].pc = "mkdir"
        BY <1>2 DEF FreshMkdir, Mkdir, ClientAt
    <2>2. CASE path = Absent
        <3>1. path' = 0 /\ Went(c, {"own"})
            BY <1>2, <2>2, GotoWent, Places DEF FreshMkdir, Mkdir
        <3>2. \A d \in Clients \ {c} : client[d].pc # "own" /\ client[d].pc \notin Owning
            <4> SUFFICES ASSUME NEW d \in Clients \ {c} PROVE client[d].pc # "own" /\ client[d].pc \notin Owning
                OBVIOUS
            <4>1. client[d].pc # "own"
                BY <1>1, <2>2 DEF Placed, Absent
            <4>2. client[d].pc \notin Owning
                BY <1>1, <2>2, Roles DEF Placed, Absent
            <4> QED
                BY <4>1, <4>2
        <3>3. client'[c].pc = "own" /\ client'[c].token = client[c].token /\ \A d \in Clients \ {c} : client'[d] = client[d]
            BY <3>1 DEF Went
        <3>4. Placed(c)'
            BY <1>1, <2>1, <3>1, <3>3, Roles DEF Placed
        <3>5. \A d \in Clients \ {c} : Apart(c, d)'
            BY <1>1, <2>1, <3>2, <3>3 DEF Apart
        <3>6. Owned'
            BY <3>1 DEF Owned
        <3> QED
            BY <1>1, <3>2, <3>3, <3>4, <3>5, <3>6, OthersStand
    <2>3. CASE path # Absent
        <3>1. path' = path /\ Went(c, {"inspect"})
            BY <1>2, <2>3, GotoWent, Places DEF FreshMkdir, Mkdir
        <3> QED
            BY <1>1, <2>1, <3>1, QuietStands, Roles
    <2> QED
        BY <2>2, <2>3
<1>3. CASE FreshOwner(c)
    <2>1. client[c].pc = "own" /\ path = 0
        BY <1>1, <1>3 DEF FreshOwner, WriteOwner, ClientAt, Placed
    <2>2. path' = client[c].token /\ Went(c, {"check"})
        BY <1>3, <2>1, GotoWent, Places DEF FreshOwner, WriteOwner, Absent
    <2>3. client'[c].pc = "check" /\ client'[c].token = client[c].token /\ \A d \in Clients \ {c} : client'[d] = client[d]
        BY <2>2 DEF Went
    <2>4. \A d \in Clients \ {c} : client[d].pc # "own" /\ client[d].pc \notin Owning
        <3> SUFFICES ASSUME NEW d \in Clients \ {c} PROVE client[d].pc # "own" /\ client[d].pc \notin Owning
            OBVIOUS
        <3>1. client[d].pc # "own"
            BY <1>1, <2>1 DEF Apart
        <3>2. client[d].pc \notin Owning
            BY <1>1, <2>1, Roles DEF Placed
        <3> QED
            BY <3>1, <3>2
    <2>5. Placed(c)'
        BY <1>1, <2>1, <2>2, <2>3, Roles DEF Placed
    <2>6. \A d \in Clients \ {c} : Apart(c, d)'
        BY <1>1, <2>1, <2>3 DEF Apart
    <2>7. Owned'
        BY <2>2, <2>3, Roles DEF Owned
    <2> QED
        BY <1>1, <2>3, <2>4, <2>5, <2>6, <2>7, OthersStand
<1>4. CASE Inspect(c)
    <2>1. path \notin old
        <3> SUFFICES ASSUME path \in old PROVE FALSE
            OBVIOUS
        <3>1. deaths = 0 /\ path >= 1
            BY <1>1 DEF Undisturbed
        <3>2. PICK d \in Clients : client[d].token = path
            BY <3>1 DEF Serial, Owned
        <3> QED
            BY <3>2 DEF LeaseInv
    <2>2. path' = path /\ Went(c, {"done"}) /\ client[c].pc = "inspect"
        BY <1>4, <2>1, EndedWent, Places DEF Inspect, Ended, ClientAt
    <2> QED
        BY <1>1, <2>2, QuietStands, Roles
<1> QED
    BY <1>2, <1>3, <1>4

LEMMA OperationStands ==
    ASSUME LeaseInv, Serial, NEW c \in Clients, UNCHANGED deaths,
           CheckState(c) \/ RunCommand(c) \/ PostCheck(c) \/ Audit(c) \/ ReleaseCheck(c)
    PROVE  Serial'
<1>1. UNCHANGED <<path, aside, deaths>> /\ client[c].pc \in Owning
    BY Roles DEF CheckState, RunCommand, PostCheck, Audit, ReleaseCheck, ClientAt
<1>2. ASSUME NEW pc \in Owning, Went(c, {pc}) PROVE Serial'
    BY <1>1, <1>2, QuietStands, Roles
<1>3. ASSUME NEW pc \in Owning, Goto(c, pc) PROVE Serial'
    BY <1>2, <1>3, GotoWent, Places, Roles
<1>4. ASSUME NEW pc \in Owning, NEW result \in Results,
             client' = [client EXCEPT ![c].pc = pc, ![c].result = result]
      PROVE  Serial'
    BY <1>2, <1>4, EndedWent, Places, Roles
<1>5. CASE CheckState(c)
    BY <1>3, <1>4, <1>5, Places, Roles DEF CheckState
<1>6. CASE RunCommand(c)
    BY <1>3, <1>4, <1>6, Places, Roles DEF RunCommand
<1>7. CASE PostCheck(c)
    BY <1>4, <1>7, Places, Roles DEF PostCheck
<1>8. CASE Audit(c)
    BY <1>3, <1>4, <1>8, Places, Roles DEF Audit
<1>9. CASE ReleaseCheck(c)
    <2>1. path = client[c].token
        BY <1>1 DEF Serial, Placed
    <2> QED
        BY <1>3, <1>9, <2>1, Roles DEF ReleaseCheck
<1> QED
    BY <1>5, <1>6, <1>7, <1>8, <1>9

LEMMA ReleaseStands ==
    ASSUME LeaseInv, Serial, NEW c \in Clients, UNCHANGED deaths, GiveUp(c) \/ ReleaseVerify(c)
    PROVE  Serial'
<1>1. /\ client[c] \in ClientType /\ aside \in [Clients -> Int] /\ path \in Int
      /\ Placed(c) /\ \A d \in Clients \ {c} : Placed(d) /\ Apart(c, d)
    BY DEF LeaseInv, Serial
<1>2. CASE GiveUp(c)
    <2>1. client[c].pc = "giveup" /\ path = client[c].token /\ client[c].token >= 1
        BY <1>1, <1>2, Roles DEF GiveUp, SetAside, ClientAt, Placed
    <2>2. path' = Absent /\ aside' = [aside EXCEPT ![c] = path] /\ Went(c, {"verify2"})
        BY <1>2, <2>1, GotoWent, Places DEF GiveUp, SetAside, Absent
    <2>3. /\ client'[c].pc = "verify2" /\ client'[c].token = client[c].token
          /\ \A d \in Clients \ {c} : client'[d] = client[d] /\ aside'[d] = aside[d]
        BY <1>1, <2>2 DEF Went
    <2>4. \A d \in Clients \ {c} : client[d].pc # "own" /\ client[d].pc \notin Owning
        <3> SUFFICES ASSUME NEW d \in Clients \ {c} PROVE client[d].pc # "own" /\ client[d].pc \notin Owning
            OBVIOUS
        <3>1. client[d].pc # "own"
            BY <1>1, <2>1 DEF Placed
        <3>2. client[d].pc \in Owning => client[d].pc # "idle" /\ client[d].token = client[c].token
            BY <1>1, <2>1, Roles DEF Placed
        <3> QED
            BY <1>1, <2>1, <3>1, <3>2 DEF Apart
    <2>5. Placed(c)'
        BY <1>1, <2>1, <2>2, <2>3, Roles DEF Placed
    <2>6. \A d \in Clients \ {c} : Apart(c, d)'
        BY <1>1, <2>1, <2>3 DEF Apart
    <2>7. Owned'
        BY <2>2 DEF Owned, Absent
    <2> QED
        BY <2>3, <2>4, <2>5, <2>6, <2>7, OthersStand
<1>3. CASE ReleaseVerify(c)
    <2>1. client[c].pc = "verify2" /\ aside[c] = client[c].token /\ path' = path
        BY <1>1, <1>3 DEF ReleaseVerify, ClientAt, Placed
    <2>2. aside' = [aside EXCEPT ![c] = Absent] /\ Went(c, {"done"})
        BY <1>3, <2>1, GotoWent, Places DEF ReleaseVerify
    <2>3. /\ client'[c].pc = "done" /\ client'[c].token = client[c].token
          /\ \A d \in Clients \ {c} : client'[d] = client[d] /\ aside'[d] = aside[d]
        BY <1>1, <2>2 DEF Went
    <2>4. Placed(c)'
        BY <1>1, <2>1, <2>3, Roles DEF Placed
    <2>5. \A d \in Clients \ {c} : Apart(c, d)'
        BY <1>1, <2>1, <2>3 DEF Apart
    <2>6. Owned'
        <3>1. \A d \in Clients : client[d].pc \in Owning => d # c /\ client'[d] = client[d]
            BY <2>1, <2>3, Roles
        <3> QED
            BY <2>1, <3>1 DEF Serial, Owned
    <2> QED
        BY <2>1, <2>3, <2>4, <2>5, <2>6, OthersStand
<1> QED
    BY <1>2, <1>3

\* The process is idle again, or another operation begins.
LEMMA FreshStands ==
    ASSUME LeaseInv, Serial, NEW c \in Clients, NEW v, client' = [client EXCEPT ![c] = v],
           \/ v.pc = "idle"
           \/ v.pc = "mkdir" /\ v.token = ops + 1,
           UNCHANGED path, \A d \in Clients \ {c} : aside'[d] = aside[d],
           deaths' = 0 => client[c].pc \notin Owning /\ deaths = 0
    PROVE  Serial'
<1>1. client \in [Clients -> ClientType] /\ ops \in Nat /\ \A d \in Clients : client[d].token <= ops
    BY DEF LeaseInv
<1>2. client'[c] = v /\ \A d \in Clients \ {c} : client'[d] = client[d]
    BY <1>1
<1>3. v.pc \notin Owning /\ v.pc \notin Displacing /\ v.pc # "own" /\ v.pc # "verify2"
    BY Roles
<1>4. Placed(c)'
    BY <1>1, <1>2, <1>3 DEF Placed
<1>5. ASSUME NEW d \in Clients \ {c} PROVE Apart(c, d)'
    <2>1. client[d].token \in Nat /\ client[d].token <= ops
        BY <1>1 DEF ClientType
    <2> QED
        BY <1>1, <1>2, <1>3, <2>1 DEF Apart
<1>6. Owned'
    <2>1. ASSUME NEW d \in Clients, client[d].pc \in Owning, deaths' = 0
          PROVE  client'[d] = client[d]
        BY <1>2, <2>1
    <2> QED
        BY <2>1 DEF Serial, Owned
<1> QED
    BY <1>2, <1>4, <1>5, <1>6, OthersStand

LEMMA SerialStep ==
    ASSUME SerialInv, [LeaseNext]_leaseVars
    PROVE  SerialInv'
<1>1. LeaseInv /\ deaths \in Nat /\ aside \in [Clients -> Int]
    BY DEF SerialInv, LeaseInv
<1>2. LeaseInv'
    BY <1>1, LeaseStep
<1>3. /\ deaths' \in Nat /\ deaths <= deaths'
      /\ old \subseteq old'
      /\ (\A c \in Clients : ~ Death(c)) => deaths' = deaths
    <2>1. ASSUME NEW c \in Clients, ClientSteps(c) PROVE UNCHANGED <<deaths, old>>
        BY <2>1 DEF ClientSteps, FreshMkdir, FreshOwner, Inspect, TakeOver, Verify, Restore, TakenMkdir, TakenOwner,
           TakeOverBlocked, DropStale, CheckState, RunCommand, PostCheck, Audit, ReleaseCheck, GiveUp,
           ReleaseVerify, Mkdir, WriteOwner, SetAside
    <2>2. ASSUME NEW c \in Clients, Death(c) PROVE deaths' = deaths + 1 /\ old' = old
        BY <2>2 DEF Death
    <2>3. ASSUME NEW c \in Clients, ControlReturn(c) \/ \E op \in Operations : ControlBegin(c, op)
          PROVE  UNCHANGED <<deaths, old>>
        BY <2>3 DEF ControlReturn, ControlBegin
    <2>4. ASSUME NEW t \in Tokens, LeaseAges(t) PROVE deaths' = deaths /\ old \subseteq old'
        BY <2>4 DEF LeaseAges
    <2> QED
        BY <1>1, <2>1, <2>2, <2>3, <2>4 DEF LeaseNext, leaseVars
<1>4. ASSUME Undisturbed' PROVE Serial'
    <2>1. Undisturbed /\ Serial
        BY <1>1, <1>3, <1>4 DEF Undisturbed, SerialInv
    <2>2. \A c \in Clients : Placed(c)
        BY <2>1 DEF Serial
    <2>3. ASSUME NEW c \in Clients, ClientSteps(c) PROVE Serial'
        <3>1. deaths' = deaths
            BY <2>3 DEF ClientSteps, FreshMkdir, FreshOwner, Inspect, TakeOver, Verify, Restore, TakenMkdir,
               TakenOwner, TakeOverBlocked, DropStale, CheckState, RunCommand, PostCheck, Audit, ReleaseCheck,
               GiveUp, ReleaseVerify, Mkdir, WriteOwner, SetAside
        <3>2. ~ (TakeOver(c) \/ Verify(c) \/ Restore(c) \/ TakenMkdir(c) \/ TakenOwner(c) \/ TakeOverBlocked(c)
                 \/ DropStale(c))
            BY <2>2, Roles DEF Placed, TakeOver, Verify, Restore, TakenMkdir, TakenOwner, TakeOverBlocked, DropStale,
               Mkdir, WriteOwner, SetAside, ClientAt
        <3> QED
            BY <1>1, <2>1, <2>3, <3>1, <3>2, ArrivalStands, OperationStands, ReleaseStands DEF ClientSteps
    <2>4. ASSUME NEW c \in Clients, ControlReturn(c) PROVE Serial'
        <3>1. /\ client[c].pc = "done" /\ UNCHANGED <<path, deaths>>
              /\ \A d \in Clients \ {c} : aside'[d] = aside[d]
            BY <1>1, <2>4 DEF ControlReturn, ClientAt
        <3>2. PICK v : v = [Idle EXCEPT !.result = client[c].result] /\ client' = [client EXCEPT ![c] = v]
            BY <2>4 DEF ControlReturn
        <3>3. v.pc = "idle"
            BY <3>2 DEF Idle
        <3> QED
            BY <1>1, <2>1, <3>1, <3>2, <3>3, FreshStands, Roles
    <2>5. ASSUME NEW c \in Clients, Death(c) PROVE Serial'
        <3>1. deaths' = deaths + 1 /\ UNCHANGED path /\ client' = [client EXCEPT ![c] = Idle]
              /\ \A d \in Clients \ {c} : aside'[d] = aside[d]
            BY <1>1, <2>5 DEF Death
        <3>2. deaths' # 0 /\ Idle.pc = "idle"
            BY <1>1, <3>1 DEF Idle
        <3> HIDE DEF Idle
        <3> QED
            BY <1>1, <2>1, <3>1, <3>2, FreshStands
    <2>6. ASSUME NEW c \in Clients, NEW op \in Operations, ControlBegin(c, op) PROVE Serial'
        <3> DEFINE v == [Idle EXCEPT !.pc = "mkdir", !.op = op, !.token = ops + 1]
        <3>1. /\ client[c].pc = "idle" /\ UNCHANGED <<path, aside, deaths>>
              /\ client' = [client EXCEPT ![c] = v]
            BY <2>6 DEF ControlBegin, ClientAt
        <3>2. v.pc = "mkdir" /\ v.token = ops + 1
            BY DEF Idle
        <3> HIDE DEF v
        <3> QED
            BY <1>1, <2>1, <3>1, <3>2, FreshStands, Roles
    <2>7. ASSUME UNCHANGED <<path, aside, client, deaths>> PROVE Serial'
        BY <2>1, <2>7 DEF Serial, Placed, Apart, Owned
    <2> QED
        BY <2>3, <2>4, <2>5, <2>6, <2>7 DEF LeaseNext, LeaseAges, leaseVars
<1> QED
    BY <1>2, <1>3, <1>4 DEF SerialInv

\* Whatever number of processes, requests and deaths, two guarded operations
\* are under way at once only after a death, and only where a lease has grown
\* old (ControlCenterService.control): mkdir lets one process through, the path
\* stays its own until it renames its lease away, and what is renamed is what
\* it had written.
THEOREM OperationsNeedALease == LeaseSpec => []OneOperation
<1>1. LeaseInit => SerialInv
    <2> SUFFICES ASSUME LeaseInit PROVE SerialInv
        OBVIOUS
    <2>1. Idle \in ClientType /\ Idle.pc = "idle" /\ Idle.token = 0
        BY DEF Idle, ClientType, Steps, Results, Operations
    <2>2. /\ client = [c \in Clients |-> Idle] /\ aside = [c \in Clients |-> Absent] /\ path = Absent /\ ops = 0
          /\ old = {} /\ deaths = 0
        BY DEF LeaseInit
    <2> HIDE DEF Idle
    <2>3. LeaseInv
        BY <2>1, <2>2 DEF LeaseInv, Absent, Judged, Judging, Holding
    <2>4. \A c \in Clients : client[c].pc = "idle"
        BY <2>1, <2>2
    <2>5. (\A c \in Clients : Placed(c)) /\ \A c \in Clients : \A d \in Clients \ {c} : Apart(c, d)
        BY <2>4, Roles DEF Placed, Apart
    <2>6. Owned
        BY <2>2 DEF Owned, Absent
    <2> QED
        BY <2>2, <2>3, <2>5, <2>6 DEF SerialInv, Serial
<1>2. SerialInv /\ [LeaseNext]_leaseVars => SerialInv'
    BY SerialStep
<1>3. SerialInv => OneOperation
    <2> SUFFICES ASSUME SerialInv, Undisturbed PROVE OperationsAreSerialized
        BY DEF OneOperation, Undisturbed
    <2> DEFINE W == {c \in Clients : client[c].pc \in Working}
    <2>1. ASSUME NEW c \in W, NEW d \in W PROVE c = d
        <3>1. Serial /\ c \in Clients /\ d \in Clients /\ client[c].pc \in Owning /\ client[d].pc \in Owning
            BY DEF SerialInv, Owning
        <3>2. client[c].pc # "idle" /\ client[d].pc # "idle" /\ client[c].token = client[d].token
            BY <3>1, Roles DEF Serial, Placed
        <3> QED
            BY <3>1, <3>2 DEF Serial, Apart
    <2>2. W = {} \/ \E c \in W : W = {c}
        BY <2>1
    <2> HIDE DEF W
    <2>3. Cardinality(W) <= 1
        <3>1. CASE W = {}
            BY <3>1, FS_EmptySet
        <3>2. CASE \E c \in W : W = {c}
            <4>1. PICK c : W = {c}
                BY <3>2
            <4>2. Cardinality({c}) = 1
                BY FS_Singleton
            <4> QED
                BY <4>1, <4>2
        <3> QED
            BY <2>2, <3>1, <3>2
    <2> QED
        BY <2>3 DEF OperationsAreSerialized, W
<1> QED
    BY <1>1, <1>2, <1>3, PTL DEF LeaseSpec

-----------------------------------------------------------------------------
(* The system audit.                                                        *)

RowType == [kind : AllKinds \cup {"absent"}, hash : {1, 2},
            outcome : {"none", "open"} \cup Settled, at : Nat]
TableType ==
    [envelopes : SUBSET (DecisionRows \X {1, 2}),
     outcomes : SUBSET [row : DecisionRows, hash : {1, 2}, authoritative : BOOLEAN],
     shadows : SUBSET [row : DecisionRows, hash : {1, 2},
                       eligibility : {"NON_SIMULATABLE", "DIAGNOSTIC_SHADOW", "EXECUTABLE_SHADOW"}],
     shadowOutcomes : SUBSET [row : DecisionRows, hash : {1, 2},
                       eligibility : {"NON_SIMULATABLE", "DIAGNOSTIC_SHADOW", "EXECUTABLE_SHADOW"},
                       authoritative : BOOLEAN]]

\* Rows as the runtime writes them: in the order of their ids, and with a moment
\* exactly when they have an outcome.
Proper(taken) ==
    /\ taken \in [DecisionRows -> RowType]
    /\ \A r \in DecisionRows :
          /\ taken[r].at > 0 <=> taken[r].outcome \in Settled
          /\ taken[r].outcome # "none" => taken[r].kind \in Followed /\ taken[r].kind # "absent"
    /\ \A q, r \in DecisionRows : q < r /\ taken[r].kind # "absent" => taken[q].kind # "absent"

\* Tables that say of these rows what the source says: a reject has the shadow
\* decision of its first ingest and no other, and its outcome has a shadow.
Believable(tables, taken) ==
    /\ tables \in TableType
    /\ \A e \in tables.envelopes : taken[e[1]].kind # "absent"
    /\ \A o \in tables.outcomes :
          /\ taken[o.row].outcome \in Settled
          /\ o.authoritative <=> taken[o.row].outcome = "complete" /\ taken[o.row].kind \in {"filled", "aligned"}
          /\ taken[o.row].kind \notin Accepts => \E p \in tables.shadowOutcomes : p.row = o.row
    /\ \A s \in tables.shadows :
          /\ <<s.row, s.hash>> \in tables.envelopes
          /\ s.eligibility = Eligibility(taken[s.row].kind, FALSE)
    /\ \A e \in tables.envelopes : taken[e[1]].kind \notin Accepts =>
          [row |-> e[1], hash |-> e[2], eligibility |-> Eligibility(taken[e[1]].kind, FALSE)] \in tables.shadows
    /\ \A o \in tables.shadowOutcomes :
          /\ [row |-> o.row, hash |-> o.hash, authoritative |-> o.authoritative] \in tables.outcomes
          /\ o.authoritative =>
                [row |-> o.row, hash |-> o.hash, eligibility |-> "EXECUTABLE_SHADOW"] \in tables.shadows

\* The source has gone on from these rows: what was settled stays, and what was
\* not settled then is settled later than all that was.
GoneOn(taken) ==
    \A r \in DecisionRows :
        /\ taken[r].kind # "absent" => source[r].kind = taken[r].kind
        /\ taken[r].at > 0 => source[r].at = taken[r].at /\ source[r].outcome = taken[r].outcome
        /\ taken[r].at = 0 /\ source[r].at > 0 => \A q \in DecisionRows : taken[q].at < source[r].at

\* The rows already passed are in the tables with their outcomes.
RowsIngested == \A r \in DecisionRows :
    r < audit.next /\ audit.rows[r].outcome \in Settled => \E o \in audit.tables.outcomes : o.row = r

AuditInv ==
    /\ moment \in Nat /\ Proper(source) /\ \A r \in DecisionRows : source[r].at <= moment
    /\ Believable(store, source) /\ IsOneCut
    /\ audit \in [phase : {"idle", "ingesting", "failed"}, rows : [DecisionRows -> RowType],
                  next : Nat, tables : TableType]
    /\ audit.phase = "ingesting" =>
          /\ audit.next \in 1 .. MaxRows + 1 /\ Proper(audit.rows) /\ GoneOn(audit.rows)
          /\ Believable(audit.tables, audit.rows) /\ RowsIngested

LEMMA AuditTypes ==
    /\ Unwritten \in RowType
    /\ NoTables \in TableType
    /\ [r \in DecisionRows |-> Unwritten] \in [DecisionRows -> RowType]
    /\ Idling \in [phase : {"idle"}, rows : [DecisionRows -> RowType], next : Nat, tables : TableType]
    /\ \A kind, known : Eligibility(kind, known) \in {"NON_SIMULATABLE", "DIAGNOSTIC_SHADOW", "EXECUTABLE_SHADOW"}
<1>1. Unwritten \in RowType
    BY DEF Unwritten, RowType
<1>2. NoTables \in TableType
    BY DEF NoTables, TableType
<1>3. [r \in DecisionRows |-> Unwritten] \in [DecisionRows -> RowType]
    BY <1>1
<1>4. Idling \in [phase : {"idle"}, rows : [DecisionRows -> RowType], next : Nat, tables : TableType]
    BY <1>2, <1>3 DEF Idling
<1>5. \A kind, known : Eligibility(kind, known) \in {"NON_SIMULATABLE", "DIAGNOSTIC_SHADOW", "EXECUTABLE_SHADOW"}
    BY DEF Eligibility, Geometry
<1> QED
    BY <1>1, <1>2, <1>3, <1>4, <1>5

\* Only a reject judged on its fill is executable, and only at its first ingest.
LEMMA OnlyAlignedExecutes ==
    ASSUME NEW kind \in AllKinds, NEW known \in BOOLEAN
    PROVE  Eligibility(kind, known) = "EXECUTABLE_SHADOW" <=> kind = "aligned" /\ ~known
BY DEF Eligibility, Geometry, AllKinds

\* What the tables say of a row stays true while the row keeps its kind and its outcome.
LEMMA BeliefLasts ==
    ASSUME NEW tables, NEW taken, NEW later, Proper(taken), Believable(tables, taken),
           \A r \in DecisionRows :
              /\ taken[r].kind # "absent" => later[r].kind = taken[r].kind
              /\ taken[r].outcome \in Settled => later[r].outcome = taken[r].outcome
    PROVE  Believable(tables, later)
<1>1. \A r \in DecisionRows : taken[r].outcome \in Settled => taken[r].kind # "absent"
    BY DEF Proper, Settled
<1>2. \A e \in tables.envelopes : e[1] \in DecisionRows /\ later[e[1]].kind = taken[e[1]].kind
    BY DEF Believable, TableType
<1>3. \A o \in tables.outcomes :
          /\ o.row \in DecisionRows
          /\ later[o.row].kind = taken[o.row].kind /\ later[o.row].outcome = taken[o.row].outcome
    BY <1>1 DEF Believable, TableType
<1>4. \A s \in tables.shadows : s.row \in DecisionRows /\ later[s.row].kind = taken[s.row].kind
    <2> TAKE s \in tables.shadows
    <2>1. <<s.row, s.hash>> \in tables.envelopes
        BY DEF Believable
    <2> QED
        BY <2>1, <1>2
<1>5. \A e \in tables.envelopes : later[e[1]].kind # "absent"
    BY <1>2 DEF Believable
<1>6. \A o \in tables.outcomes :
          /\ later[o.row].outcome \in Settled
          /\ o.authoritative <=> later[o.row].outcome = "complete" /\ later[o.row].kind \in {"filled", "aligned"}
          /\ later[o.row].kind \notin Accepts => \E p \in tables.shadowOutcomes : p.row = o.row
    BY <1>3 DEF Believable
<1>7. \A s \in tables.shadows :
          /\ <<s.row, s.hash>> \in tables.envelopes
          /\ s.eligibility = Eligibility(later[s.row].kind, FALSE)
    BY <1>4 DEF Believable
<1>8. \A e \in tables.envelopes : later[e[1]].kind \notin Accepts =>
          [row |-> e[1], hash |-> e[2], eligibility |-> Eligibility(later[e[1]].kind, FALSE)] \in tables.shadows
    BY <1>2 DEF Believable
<1> QED
    BY <1>5, <1>6, <1>7, <1>8 DEF Believable

\* A write to the source leaves what was settled, and settles nothing in the past.
SourceWrites ==
    /\ moment' \in Nat /\ Proper(source)' /\ \A r \in DecisionRows : source'[r].at <= moment'
    /\ \A r \in DecisionRows :
          /\ source[r].kind # "absent" => source'[r].kind = source[r].kind
          /\ source[r].at > 0 => source'[r].at = source[r].at /\ source'[r].outcome = source[r].outcome
          /\ source[r].at = 0 /\ source'[r].at > 0 => source'[r].at > moment
    /\ UNCHANGED <<store, audit>>

LEMMA SourceWritesKeep ==
    ASSUME AuditInv, SourceWrites
    PROVE  AuditInv'
<1>1. \A r \in DecisionRows : source[r] \in RowType /\ source'[r] \in RowType /\ source[r].at \in Nat /\ source'[r].at \in Nat
    BY DEF AuditInv, SourceWrites, Proper, RowType
<1>2. Believable(store, source')
    <2>1. \A r \in DecisionRows : source[r].outcome \in Settled => source'[r].outcome = source[r].outcome
        BY DEF AuditInv, SourceWrites, Proper
    <2> QED
        BY <2>1, BeliefLasts DEF AuditInv, SourceWrites
<1>3. IsOneCut'
    <2> SUFFICES ASSUME NEW o \in store.outcomes, NEW r \in DecisionRows,
                        0 < source'[r].at, source'[r].at <= source'[o.row].at
                 PROVE  \E p \in store.outcomes : p.row = r
        BY DEF IsOneCut, SourceWrites
    <2>1. o.row \in DecisionRows /\ source[o.row].at > 0
        BY DEF AuditInv, Believable, TableType, Proper
    <2>2. source'[o.row].at = source[o.row].at /\ source[o.row].at <= moment /\ source[o.row].at \in Nat
        BY <2>1, <1>1 DEF SourceWrites, AuditInv
    <2>3. source[r].at > 0 /\ source'[r].at = source[r].at
        BY <2>2, <1>1 DEF SourceWrites, AuditInv
    <2> QED
        BY <2>2, <2>3 DEF AuditInv, IsOneCut
<1>4. audit.phase = "ingesting" => GoneOn(audit.rows)'
    <2> SUFFICES ASSUME audit.phase = "ingesting", NEW r \in DecisionRows
                 PROVE  /\ audit.rows[r].kind # "absent" => source'[r].kind = audit.rows[r].kind
                        /\ audit.rows[r].at > 0 =>
                              source'[r].at = audit.rows[r].at /\ source'[r].outcome = audit.rows[r].outcome
                        /\ audit.rows[r].at = 0 /\ source'[r].at > 0 =>
                              \A q \in DecisionRows : audit.rows[q].at < source'[r].at
        BY DEF GoneOn, SourceWrites
    <2>1. GoneOn(audit.rows) /\ \A q \in DecisionRows : audit.rows[q].at \in Nat
        BY DEF AuditInv, Proper, RowType
    <2>2. \A q \in DecisionRows : audit.rows[q].at <= moment
        BY <2>1, <1>1 DEF GoneOn, AuditInv
    <2>3. audit.rows[r].kind # "absent" => source'[r].kind = audit.rows[r].kind
        BY <2>1 DEF GoneOn, SourceWrites
    <2>4. audit.rows[r].at > 0 => source'[r].at = audit.rows[r].at /\ source'[r].outcome = audit.rows[r].outcome
        BY <2>1, <1>1 DEF GoneOn, SourceWrites
    <2>5. ASSUME audit.rows[r].at = 0, source'[r].at > 0, NEW q \in DecisionRows
          PROVE  audit.rows[q].at < source'[r].at
        <3>1. CASE source[r].at > 0
            BY <2>1, <2>5, <3>1, <1>1 DEF GoneOn, SourceWrites
        <3>2. CASE source[r].at = 0
            BY <2>1, <2>2, <2>5, <3>2, <1>1 DEF SourceWrites, AuditInv
        <3> QED
            BY <3>1, <3>2, <1>1
    <2> QED
        BY <2>3, <2>4, <2>5
<1>5. RowsIngested' <=> RowsIngested
    BY DEF RowsIngested, SourceWrites
<1> QED
    BY <1>2, <1>3, <1>4, <1>5 DEF AuditInv, SourceWrites

RecordsOf(r) == \E kind \in Kinds : RecordDecision(r, kind)

LEMMA RowsAreFollowed ==
    ASSUME AuditInv, NEW r \in DecisionRows,
           RecordsOf(r) \/ (\E quality \in Settled : SettleDecision(r, quality)) \/ MarkLegacy(r)
    PROVE  AuditInv'
<1>1. source \in [DecisionRows -> RowType] /\ moment \in Nat /\ Proper(source)
    BY DEF AuditInv, Proper
<1>2. CASE RecordsOf(r)
    <2>1. PICK kind \in Kinds : RecordDecision(r, kind)
        BY <1>2 DEF RecordsOf
    <2>2. kind \in AllKinds /\ kind # "absent"
        BY AuditAssumption DEF AllKinds
    <2>3. \A q \in DecisionRows : q # r => source'[q] = source[q]
        BY <1>1, <2>1 DEF RecordDecision
    <2>4. /\ source' \in [DecisionRows -> RowType]
          /\ source'[r].kind = kind /\ source'[r].at = 0 /\ source'[r].outcome \in {"none", "open"}
          /\ source'[r].outcome = "open" => kind \in Followed
        BY <1>1, <2>1, <2>2 DEF RecordDecision, RowType
    <2>5. source[r].at = 0 /\ source[r].kind = "absent"
        BY <1>1, <2>1 DEF RecordDecision, Proper, RowType, Settled
    <2>6. \A p, q \in DecisionRows : p < q /\ source'[q].kind # "absent" => source'[p].kind # "absent"
        BY <1>1, <2>1, <2>2, <2>3, <2>4 DEF RecordDecision, Proper
    <2>7. Proper(source)'
        BY <1>1, <2>3, <2>4, <2>2, <2>6 DEF Proper, Settled
    <2>8. \A q \in DecisionRows : source'[q].at <= moment'
        BY <1>1, <2>1, <2>3, <2>4 DEF AuditInv, RecordDecision
    <2>9. SourceWrites
        BY <1>1, <2>1, <2>3, <2>4, <2>5, <2>7, <2>8 DEF SourceWrites, RecordDecision
    <2> QED
        BY <2>9, SourceWritesKeep
<1>3. CASE \E quality \in Settled : SettleDecision(r, quality)
    <2>1. PICK quality \in Settled : SettleDecision(r, quality)
        BY <1>3
    <2>2. \A q \in DecisionRows : q # r => source'[q] = source[q]
        BY <1>1, <2>1 DEF SettleDecision
    <2>3. /\ source' \in [DecisionRows -> RowType]
          /\ source'[r].kind = source[r].kind /\ source'[r].at = moment + 1 /\ source'[r].outcome = quality
        <3>1. source' = [source EXCEPT ![r] = [source[r] EXCEPT !.outcome = quality, !.at = moment + 1]]
            BY <1>1, <2>1 DEF SettleDecision
        <3>2. source[r] \in RowType /\ moment + 1 \in Nat
            BY <1>1
        <3>3. [source[r] EXCEPT !.outcome = quality, !.at = moment + 1] \in RowType
            BY <3>2, <2>1 DEF RowType
        <3> QED
            BY <1>1, <3>1, <3>2, <3>3 DEF RowType
    <2>4. source[r].at = 0 /\ source[r].kind # "absent" /\ source[r].kind \in Followed
        BY <1>1, <2>1 DEF SettleDecision, Proper, RowType, Settled
    <2>5. \A q \in DecisionRows : source'[q].kind = source[q].kind
        BY <2>2, <2>3
    <2>6. Proper(source)'
        BY <1>1, <2>2, <2>3, <2>4, <2>5 DEF Proper
    <2>7. moment' \in Nat /\ \A q \in DecisionRows : source'[q].at <= moment'
        <3>0. moment' = moment + 1
            BY <2>1 DEF SettleDecision
        <3>1. moment' = moment + 1 /\ moment' \in Nat
            BY <1>1, <3>0
        <3>2. \A q \in DecisionRows : source[q].at \in Nat /\ source[q].at <= moment
            BY <1>1 DEF AuditInv, RowType
        <3> QED
            BY <1>1, <3>1, <3>2, <2>2, <2>3
    <2>8. \A q \in DecisionRows :
              /\ source[q].kind # "absent" => source'[q].kind = source[q].kind
              /\ source[q].at > 0 => source'[q].at = source[q].at /\ source'[q].outcome = source[q].outcome
              /\ source[q].at = 0 /\ source'[q].at > 0 => source'[q].at > moment
        BY <1>1, <2>2, <2>3, <2>4, <2>5
    <2>9. SourceWrites
        BY <2>1, <2>6, <2>7, <2>8 DEF SourceWrites, SettleDecision
    <2> QED
        BY <2>9, SourceWritesKeep
<1>4. CASE MarkLegacy(r)
    <2>1. \A q \in DecisionRows :
              /\ source'[q] \in RowType
              /\ source'[q].kind = source[q].kind /\ source'[q].outcome = source[q].outcome
              /\ source'[q].at = source[q].at
        BY <1>1, <1>4 DEF MarkLegacy, RowType
    <2>2. source' \in [DecisionRows -> RowType]
        BY <1>1, <1>4, <2>1 DEF MarkLegacy
    <2>3. Proper(source)'
        BY <1>1, <2>1, <2>2 DEF Proper
    <2>4. SourceWrites
        BY <1>1, <1>4, <2>1, <2>3 DEF SourceWrites, MarkLegacy, AuditInv, RowType
    <2> QED
        BY <2>4, SourceWritesKeep
<1> QED
    BY <1>2, <1>3, <1>4

\* What the four writes of an ingest do to the tables.
LEMMA EnvelopeWritten ==
    ASSUME NEW tables \in TableType, NEW r \in DecisionRows, NEW h \in {1, 2}
    PROVE  LET later == WithEnvelope(tables, r, h) IN
           /\ later \in TableType
           /\ later.envelopes = tables.envelopes \cup {<<r, h>>}
           /\ later.outcomes = tables.outcomes
           /\ later.shadows = tables.shadows /\ later.shadowOutcomes = tables.shadowOutcomes
BY DEF WithEnvelope, TableType

LEMMA OutcomeWritten ==
    ASSUME NEW tables \in TableType, NEW r \in DecisionRows, NEW h \in {1, 2}, NEW a \in BOOLEAN
    PROVE  LET later == WithOutcome(tables, r, h, a) IN
           /\ later \in TableType
           /\ (\E p \in tables.outcomes : p.row = r) => later.outcomes = tables.outcomes
           /\ (\A p \in tables.outcomes : p.row # r) =>
                 later.outcomes = tables.outcomes \cup {[row |-> r, hash |-> h, authoritative |-> a]}
           /\ later.envelopes = tables.envelopes
           /\ later.shadows = tables.shadows /\ later.shadowOutcomes = tables.shadowOutcomes
<1> DEFINE new == {o \in {[row |-> r, hash |-> h, authoritative |-> a]} : \A p \in tables.outcomes : p.row # r}
<1>1. new = IF \E p \in tables.outcomes : p.row = r THEN {} ELSE {[row |-> r, hash |-> h, authoritative |-> a]}
    OBVIOUS
<1>2. new \subseteq [row : DecisionRows, hash : {1, 2}, authoritative : BOOLEAN]
    OBVIOUS
<1>3. WithOutcome(tables, r, h, a) = [tables EXCEPT !.outcomes = tables.outcomes \cup new]
    BY DEF WithOutcome, TableType
<1> HIDE DEF new
<1>4. LET later == [tables EXCEPT !.outcomes = tables.outcomes \cup new] IN
      /\ later \in TableType /\ later.outcomes = tables.outcomes \cup new
      /\ later.envelopes = tables.envelopes
      /\ later.shadows = tables.shadows /\ later.shadowOutcomes = tables.shadowOutcomes
    BY <1>2 DEF TableType
<1> QED
    BY <1>1, <1>3, <1>4

LEMMA ShadowWritten ==
    ASSUME NEW tables \in TableType, NEW r \in DecisionRows, NEW h \in {1, 2},
           NEW e \in {"NON_SIMULATABLE", "DIAGNOSTIC_SHADOW", "EXECUTABLE_SHADOW"}
    PROVE  LET later == WithShadow(tables, r, h, e) IN
           /\ later \in TableType
           /\ (\E t \in tables.shadows : t.row = r /\ t.hash = h) => later.shadows = tables.shadows
           /\ (\A t \in tables.shadows : ~(t.row = r /\ t.hash = h)) =>
                 later.shadows = tables.shadows \cup {[row |-> r, hash |-> h, eligibility |-> e]}
           /\ later.envelopes = tables.envelopes
           /\ later.outcomes = tables.outcomes /\ later.shadowOutcomes = tables.shadowOutcomes
<1> DEFINE new == {s \in {[row |-> r, hash |-> h, eligibility |-> e]} :
                       \A t \in tables.shadows : ~(t.row = r /\ t.hash = h)}
<1>1. new = IF \E t \in tables.shadows : t.row = r /\ t.hash = h THEN {}
            ELSE {[row |-> r, hash |-> h, eligibility |-> e]}
    OBVIOUS
<1>2. new \subseteq [row : DecisionRows, hash : {1, 2},
                     eligibility : {"NON_SIMULATABLE", "DIAGNOSTIC_SHADOW", "EXECUTABLE_SHADOW"}]
    OBVIOUS
<1>3. WithShadow(tables, r, h, e) = [tables EXCEPT !.shadows = tables.shadows \cup new]
    BY DEF WithShadow, TableType
<1> HIDE DEF new
<1>4. LET later == [tables EXCEPT !.shadows = tables.shadows \cup new] IN
      /\ later \in TableType /\ later.shadows = tables.shadows \cup new
      /\ later.envelopes = tables.envelopes
      /\ later.outcomes = tables.outcomes /\ later.shadowOutcomes = tables.shadowOutcomes
    BY <1>2 DEF TableType
<1> QED
    BY <1>1, <1>3, <1>4

LEMMA ShadowOutcomeWritten ==
    ASSUME NEW tables \in TableType, NEW r \in DecisionRows, NEW h \in {1, 2}, NEW a \in BOOLEAN,
           NEW e \in {"NON_SIMULATABLE", "DIAGNOSTIC_SHADOW", "EXECUTABLE_SHADOW"}
    PROVE  LET later == WithShadowOutcome(tables, r, h, e, a) IN
           /\ later \in TableType
           /\ later.shadowOutcomes = tables.shadowOutcomes \cup
                 {[row |-> r, hash |-> h, eligibility |-> e, authoritative |-> a]}
           /\ later.envelopes = tables.envelopes
           /\ later.outcomes = tables.outcomes /\ later.shadows = tables.shadows
BY DEF WithShadowOutcome, TableType

\* A reject's envelope and shadow decision are stored: the first ones stay.
LEMMA FirstShadowStays ==
    ASSUME NEW tables, NEW taken, NEW r \in DecisionRows, Proper(taken), Believable(tables, taken),
           taken[r].kind \notin Accepts \cup {"absent"}
    PROVE  LET h == taken[r].hash
               e == Eligibility(taken[r].kind, <<r, h>> \in tables.envelopes)
               later == WithShadow(WithEnvelope(tables, r, h), r, h, e) IN
           /\ Believable(later, taken)
           /\ later.outcomes = tables.outcomes /\ later.shadowOutcomes = tables.shadowOutcomes
           /\ [row |-> r, hash |-> h, eligibility |-> e] \in later.shadows =>
                 (e = "EXECUTABLE_SHADOW" <=> taken[r].kind = "aligned")
<1> DEFINE h == taken[r].hash
           known == <<r, h>> \in tables.envelopes
           e == Eligibility(taken[r].kind, known)
           first == Eligibility(taken[r].kind, FALSE)
           later == WithShadow(WithEnvelope(tables, r, h), r, h, e)
<1>1. h \in {1, 2} /\ taken[r].kind \in AllKinds /\ tables \in TableType
    BY DEF Proper, RowType, Believable
<1>2. e \in {"NON_SIMULATABLE", "DIAGNOSTIC_SHADOW", "EXECUTABLE_SHADOW"}
    BY AuditTypes
<1>3. /\ later \in TableType
      /\ later.envelopes = tables.envelopes \cup {<<r, h>>}
      /\ later.outcomes = tables.outcomes /\ later.shadowOutcomes = tables.shadowOutcomes
      /\ (\E t \in tables.shadows : t.row = r /\ t.hash = h) => later.shadows = tables.shadows
      /\ (\A t \in tables.shadows : ~(t.row = r /\ t.hash = h)) =>
            later.shadows = tables.shadows \cup {[row |-> r, hash |-> h, eligibility |-> e]}
    <2> HIDE DEF h, e
    <2>1. PICK mid \in TableType :
              /\ mid = WithEnvelope(tables, r, h)
              /\ mid.envelopes = tables.envelopes \cup {<<r, h>>}
              /\ mid.outcomes = tables.outcomes
              /\ mid.shadows = tables.shadows
              /\ mid.shadowOutcomes = tables.shadowOutcomes
        BY <1>1, EnvelopeWritten
    <2>2. later = WithShadow(mid, r, h, e)
        BY <2>1
    <2> HIDE DEF later
    <2>3. /\ WithShadow(mid, r, h, e) \in TableType
          /\ (\E t \in mid.shadows : t.row = r /\ t.hash = h) => WithShadow(mid, r, h, e).shadows = mid.shadows
          /\ (\A t \in mid.shadows : ~(t.row = r /\ t.hash = h)) =>
                WithShadow(mid, r, h, e).shadows = mid.shadows \cup {[row |-> r, hash |-> h, eligibility |-> e]}
          /\ WithShadow(mid, r, h, e).envelopes = mid.envelopes
          /\ WithShadow(mid, r, h, e).outcomes = mid.outcomes
          /\ WithShadow(mid, r, h, e).shadowOutcomes = mid.shadowOutcomes
        <3>1. \A n \in {1, 2}, d \in {"NON_SIMULATABLE", "DIAGNOSTIC_SHADOW", "EXECUTABLE_SHADOW"} :
                 /\ WithShadow(mid, r, n, d) \in TableType
                 /\ (\E t \in mid.shadows : t.row = r /\ t.hash = n) =>
                       WithShadow(mid, r, n, d).shadows = mid.shadows
                 /\ (\A t \in mid.shadows : ~(t.row = r /\ t.hash = n)) =>
                       WithShadow(mid, r, n, d).shadows
                       = mid.shadows \cup {[row |-> r, hash |-> n, eligibility |-> d]}
                 /\ WithShadow(mid, r, n, d).envelopes = mid.envelopes
                 /\ WithShadow(mid, r, n, d).outcomes = mid.outcomes
                 /\ WithShadow(mid, r, n, d).shadowOutcomes = mid.shadowOutcomes
            BY ShadowWritten
        <3> QED
            BY <1>1, <1>2, <3>1
    <2> QED
        BY <2>1, <2>2, <2>3
<1>4. known <=> \E t \in tables.shadows : t.row = r /\ t.hash = h
    <2>1. ASSUME known
          PROVE  [row |-> r, hash |-> h, eligibility |-> first] \in tables.shadows
        BY <2>1 DEF Believable
    <2>2. ASSUME NEW t \in tables.shadows, t.row = r, t.hash = h
          PROVE  known
        BY <2>2 DEF Believable
    <2> QED
        BY <2>1, <2>2
<1>5. later.shadows = tables.shadows \cup (IF known THEN {} ELSE {[row |-> r, hash |-> h, eligibility |-> first]})
    <2>1. ~known => e = first
        BY DEF Eligibility, Geometry
    <2> HIDE DEF known, later, e, first, h
    <2> QED
        BY <1>3, <1>4, <2>1
<1>6. known => [row |-> r, hash |-> h, eligibility |-> first] \in tables.shadows
    BY DEF Believable
<1>7. \A s \in later.shadows :
         /\ <<s.row, s.hash>> \in later.envelopes
         /\ s.eligibility = Eligibility(taken[s.row].kind, FALSE)
    <2> TAKE s \in later.shadows
    <2>1. CASE s \in tables.shadows
        BY <2>1, <1>3 DEF Believable
    <2>2. CASE s = [row |-> r, hash |-> h, eligibility |-> first]
        BY <2>2, <1>3
    <2> QED
        BY <2>1, <2>2, <1>5
<1>8. \A d \in later.envelopes : taken[d[1]].kind # "absent"
    BY <1>3 DEF Believable
<1>9. \A d \in later.envelopes : taken[d[1]].kind \notin Accepts =>
         [row |-> d[1], hash |-> d[2], eligibility |-> Eligibility(taken[d[1]].kind, FALSE)] \in later.shadows
    <2> TAKE d \in later.envelopes
    <2>1. CASE d \in tables.envelopes
        BY <2>1, <1>5 DEF Believable
    <2>2. CASE d = <<r, h>>
        BY <2>2, <1>5, <1>6
    <2> QED
        BY <2>1, <2>2, <1>3
<1>10. Believable(later, taken)
    <2>1. tables.shadows \subseteq later.shadows
        BY <1>5
    <2> HIDE DEF later, h, known, e, first
    <2> QED
        BY <1>3, <1>7, <1>8, <1>9, <2>1 DEF Believable
<1>11. [row |-> r, hash |-> h, eligibility |-> e] \in later.shadows => e = first
    <2>1. ASSUME [row |-> r, hash |-> h, eligibility |-> e] \in later.shadows
          PROVE  e = first
        <3>1. [row |-> r, hash |-> h, eligibility |-> e].eligibility
              = Eligibility(taken[[row |-> r, hash |-> h, eligibility |-> e].row].kind, FALSE)
            BY <1>7, <2>1
        <3> QED
            BY <3>1
    <2> QED
        BY <2>1
<1>12. first = "EXECUTABLE_SHADOW" <=> taken[r].kind = "aligned"
    BY <1>1, OnlyAlignedExecutes
<1> QED
    BY <1>3, <1>10, <1>11, <1>12

\* An ingest that has taken its next row keeps the invariant when the tables it
\* goes on with are believable and hold the row's outcome.
LEMMA RowTaken ==
    ASSUME AuditInv, NEW r, InHand(r), NEW tables, RowIngested(tables), UNCHANGED <<source, moment, store>>,
           Believable(tables, audit.rows),
           \A o \in audit.tables.outcomes : \E p \in tables.outcomes : p.row = o.row,
           audit.rows[r].outcome \in Settled => \E o \in tables.outcomes : o.row = r
    PROVE  AuditInv'
<1>1. /\ audit.phase = "ingesting" /\ r \in DecisionRows /\ audit.next = r /\ audit.next \in Nat
      /\ Proper(audit.rows) /\ GoneOn(audit.rows) /\ RowsIngested
    BY DEF InHand, Recorded, Seen, AuditInv
<1>2. tables \in TableType
    BY DEF Believable
<1>3. /\ audit' \in [phase : {"idle", "ingesting", "failed"}, rows : [DecisionRows -> RowType],
                      next : Nat, tables : TableType]
      /\ audit'.phase = "ingesting" /\ audit'.rows = audit.rows
      /\ audit'.next = audit.next + 1 /\ audit'.tables = tables
    <2>1. audit \in [phase : {"idle", "ingesting", "failed"}, rows : [DecisionRows -> RowType],
                    next : Nat, tables : TableType]
        BY DEF AuditInv
    <2>2. audit' = [audit EXCEPT !.next = audit.next + 1, !.tables = tables]
        BY <2>1 DEF RowIngested
    <2>3. audit.next + 1 \in Nat
        BY <1>1
    <2> QED
        BY <1>1, <1>2, <2>1, <2>2, <2>3
<1>4. RowsIngested'
    <2> SUFFICES ASSUME NEW q \in DecisionRows, q < audit.next + 1, audit.rows[q].outcome \in Settled
                 PROVE  \E o \in tables.outcomes : o.row = q
        BY <1>3 DEF RowsIngested
    <2>1. CASE q < audit.next
        BY <2>1, <1>1 DEF RowsIngested
    <2>2. CASE q = r
        BY <2>2
    <2> QED
        BY <2>1, <2>2, <1>1 DEF DecisionRows
<1>5. GoneOn(audit.rows)'
    BY <1>1, <1>3 DEF GoneOn
<1>6. audit'.next \in 1 .. MaxRows + 1
    BY <1>1, <1>3, AuditAssumption DEF DecisionRows
<1> QED
    BY <1>1, <1>3, <1>4, <1>5, <1>6 DEF AuditInv, IsOneCut

LEMMA AcceptIngested ==
    ASSUME AuditInv, NEW r \in DecisionRows, IngestAccept(r)
    PROVE  AuditInv'
<1> DEFINE taken == audit.rows
           h == taken[r].hash
           a == (taken[r].outcome = "complete")
           later == IF taken[r].outcome \in Settled
                    THEN WithOutcome(WithEnvelope(audit.tables, r, h), r, h, a)
                    ELSE WithEnvelope(audit.tables, r, h)
<1>1. /\ InHand(r) /\ RowIngested(later) /\ UNCHANGED <<source, moment, store>>
      /\ taken[r].kind \in Accepts
    BY DEF IngestAccept, Seen
<1>2. /\ Proper(taken) /\ Believable(audit.tables, taken)
      /\ h \in {1, 2} /\ taken[r].kind \in AllKinds /\ audit.tables \in TableType /\ a \in BOOLEAN
    BY <1>1 DEF AuditInv, InHand, Proper, RowType, Believable, Recorded, Seen
<1>3. taken[r].outcome \in Settled => taken[r].kind \in {"filled", "unfilled"}
    BY <1>1 DEF Accepts
<1>4. PICK mid \in TableType :
         /\ mid = WithEnvelope(audit.tables, r, h)
         /\ mid.envelopes = audit.tables.envelopes \cup {<<r, h>>}
         /\ mid.outcomes = audit.tables.outcomes
         /\ mid.shadows = audit.tables.shadows /\ mid.shadowOutcomes = audit.tables.shadowOutcomes
    BY <1>2, EnvelopeWritten, SMTT(20)
<1>5. Believable(mid, taken)
    <2>1. /\ Accepts \cap {"absent"} = {}
          /\ \A e \in mid.envelopes : e \in audit.tables.envelopes \/ (e[1] = r /\ e[2] = h)
        BY <1>4 DEF Accepts
    <2> HIDE DEF taken, h, a, later
    <2>2. \A e \in mid.envelopes : taken[e[1]].kind # "absent"
        BY <1>1, <1>2, <2>1 DEF Believable
    <2>3. \A e \in mid.envelopes : taken[e[1]].kind \notin Accepts => e \in audit.tables.envelopes
        BY <1>1, <2>1
    <2>4. \A e \in mid.envelopes : taken[e[1]].kind \notin Accepts =>
             [row |-> e[1], hash |-> e[2], eligibility |-> Eligibility(taken[e[1]].kind, FALSE)] \in mid.shadows
        BY <1>2, <1>4, <2>3 DEF Believable
    <2>5. \A s \in mid.shadows :
             /\ <<s.row, s.hash>> \in mid.envelopes
             /\ s.eligibility = Eligibility(taken[s.row].kind, FALSE)
        BY <1>2, <1>4 DEF Believable
    <2> QED
        BY <1>2, <1>4, <2>2, <2>4, <2>5, ZenonT(40) DEF Believable
<1>6. /\ Believable(later, taken)
      /\ \A o \in audit.tables.outcomes : \E p \in later.outcomes : p.row = o.row
      /\ taken[r].outcome \in Settled => \E o \in later.outcomes : o.row = r
    <2>1. CASE taken[r].outcome \notin Settled
        <3>1. later = mid
            BY <2>1, <1>4
        <3> HIDE DEF later
        <3> QED
            BY <2>1, <3>1, <1>4, <1>5
    <2>2. CASE taken[r].outcome \in Settled
        <3>1. later = WithOutcome(mid, r, h, a)
            BY <2>2, <1>4
        <3> HIDE DEF later, h, a, taken
        <3>2. \A n \in {1, 2}, b \in BOOLEAN :
                 /\ WithOutcome(mid, r, n, b) \in TableType
                 /\ (\E p \in mid.outcomes : p.row = r) => WithOutcome(mid, r, n, b).outcomes = mid.outcomes
                 /\ (\A p \in mid.outcomes : p.row # r) =>
                       WithOutcome(mid, r, n, b).outcomes
                       = mid.outcomes \cup {[row |-> r, hash |-> n, authoritative |-> b]}
                 /\ WithOutcome(mid, r, n, b).envelopes = mid.envelopes
                 /\ WithOutcome(mid, r, n, b).shadows = mid.shadows
                 /\ WithOutcome(mid, r, n, b).shadowOutcomes = mid.shadowOutcomes
            BY OutcomeWritten
        <3>3. /\ later \in TableType
              /\ (\E p \in mid.outcomes : p.row = r) => later.outcomes = mid.outcomes
              /\ (\A p \in mid.outcomes : p.row # r) =>
                    later.outcomes = mid.outcomes \cup {[row |-> r, hash |-> h, authoritative |-> a]}
              /\ later.envelopes = mid.envelopes
              /\ later.shadows = mid.shadows /\ later.shadowOutcomes = mid.shadowOutcomes
            BY <1>2, <3>1, <3>2
        <3>4. taken[r].kind = "filled"
            <4>1. taken[r].outcome # "none"
                BY <2>2 DEF Settled
            <4>2. taken[r].kind \in Followed
                BY <4>1, <1>2 DEF Proper
            <4> QED
                BY <4>2, <1>1 DEF Followed, Labelled, Accepts
        <3>5. mid.outcomes \subseteq later.outcomes /\ \E o \in later.outcomes : o.row = r
            <4>1. CASE \E p \in mid.outcomes : p.row = r
                BY <4>1, <3>3
            <4>2. CASE \A p \in mid.outcomes : p.row # r
                <5>1. [row |-> r, hash |-> h, authoritative |-> a] \in later.outcomes
                    BY <4>2, <3>3
                <5>2. [row |-> r, hash |-> h, authoritative |-> a].row = r
                    OBVIOUS
                <5> QED
                    BY <4>2, <5>1, <5>2, <3>3
            <4> QED
                BY <4>1, <4>2
        <3>6. \A o \in later.outcomes : o \in mid.outcomes \/ (o.row = r /\ o.authoritative = a)
            BY <3>3
        <3>7. a <=> taken[r].outcome = "complete"
            BY DEF a
        <3>8. \A o \in later.outcomes :
                 /\ taken[o.row].outcome \in Settled
                 /\ o.authoritative <=> taken[o.row].outcome = "complete" /\ taken[o.row].kind \in {"filled", "aligned"}
                 /\ taken[o.row].kind \notin Accepts => \E p \in later.shadowOutcomes : p.row = o.row
            BY <1>1, <1>5, <2>2, <3>3, <3>4, <3>6, <3>7 DEF Believable
        <3>9. Believable(later, taken)
            BY <1>5, <3>3, <3>5, <3>8 DEF Believable
        <3> QED
            BY <1>4, <3>5, <3>9
    <2> QED
        BY <2>1, <2>2
<1> QED
    <2> HIDE DEF later
    <2> QED
        BY <1>1, <1>6, RowTaken

\* A failed ingest, or one at its end, leaves nothing but the committed tables.
LEMMA IngestOver ==
    ASSUME AuditInv, UNCHANGED <<source, moment, store>>,
           audit' = Idling \/ audit' = [Idling EXCEPT !.phase = "failed"]
    PROVE  AuditInv'
<1>1. /\ audit' \in [phase : {"idle", "ingesting", "failed"}, rows : [DecisionRows -> RowType],
                      next : Nat, tables : TableType]
      /\ audit'.phase # "ingesting"
    BY AuditTypes DEF Idling
<1> QED
    BY <1>1 DEF AuditInv, IsOneCut

LEMMA RejectIngested ==
    ASSUME AuditInv, NEW r \in DecisionRows, IngestReject(r)
    PROVE  AuditInv'
<1> DEFINE taken == audit.rows
           h == taken[r].hash
           e == Eligibility(taken[r].kind, <<r, h>> \in audit.tables.envelopes)
           a == (e = "EXECUTABLE_SHADOW" /\ taken[r].outcome = "complete")
           shadowed == WithShadow(WithEnvelope(audit.tables, r, h), r, h, e)
           judged == WithOutcome(shadowed, r, h, a)
           known == \E o \in shadowed.shadowOutcomes : o.row = r
           named == [row |-> r, hash |-> h, eligibility |-> e] \in shadowed.shadows
           whole == WithShadowOutcome(judged, r, h, e, a)
<1>1. /\ InHand(r) /\ UNCHANGED <<source, moment, store>>
      /\ taken[r].kind \notin Accepts
      /\ \/ taken[r].outcome \notin Settled /\ RowIngested(shadowed)
         \/ taken[r].outcome \in Settled /\ known /\ RowIngested(judged)
         \/ taken[r].outcome \in Settled /\ ~known /\ named /\ RowIngested(whole)
         \/ audit' = [Idling EXCEPT !.phase = "failed"]
    BY DEF IngestReject, Seen
<1>2. /\ Proper(taken) /\ Believable(audit.tables, taken)
      /\ h \in {1, 2} /\ taken[r].kind \in AllKinds /\ a \in BOOLEAN
    BY <1>1, SMTT(60) DEF AuditInv, InHand, Proper, RowType, Recorded, Seen
<1>3. e \in {"NON_SIMULATABLE", "DIAGNOSTIC_SHADOW", "EXECUTABLE_SHADOW"}
    BY AuditTypes
<1>4. /\ Believable(shadowed, taken) /\ shadowed \in TableType
      /\ shadowed.outcomes = audit.tables.outcomes
      /\ shadowed.shadowOutcomes = audit.tables.shadowOutcomes
      /\ named => (e = "EXECUTABLE_SHADOW" <=> taken[r].kind = "aligned")
    <2>1. taken[r].kind \notin Accepts \cup {"absent"}
        BY <1>1 DEF InHand, Recorded, Seen
    <2>2. /\ Believable(shadowed, taken)
          /\ shadowed.outcomes = audit.tables.outcomes
          /\ shadowed.shadowOutcomes = audit.tables.shadowOutcomes
          /\ named => (e = "EXECUTABLE_SHADOW" <=> taken[r].kind = "aligned")
        BY <1>2, <2>1, FirstShadowStays
    <2> QED
        BY <2>2 DEF Believable
<1>5. \A n \in {1, 2}, b \in BOOLEAN :
         /\ WithOutcome(shadowed, r, n, b) \in TableType
         /\ (\E p \in shadowed.outcomes : p.row = r) => WithOutcome(shadowed, r, n, b).outcomes = shadowed.outcomes
         /\ (\A p \in shadowed.outcomes : p.row # r) =>
               WithOutcome(shadowed, r, n, b).outcomes
               = shadowed.outcomes \cup {[row |-> r, hash |-> n, authoritative |-> b]}
         /\ WithOutcome(shadowed, r, n, b).envelopes = shadowed.envelopes
         /\ WithOutcome(shadowed, r, n, b).shadows = shadowed.shadows
         /\ WithOutcome(shadowed, r, n, b).shadowOutcomes = shadowed.shadowOutcomes
    <2> HIDE DEF shadowed
    <2> QED
        BY <1>4, OutcomeWritten
<1>6. /\ judged \in TableType
      /\ (\E p \in shadowed.outcomes : p.row = r) => judged.outcomes = shadowed.outcomes
      /\ (\A p \in shadowed.outcomes : p.row # r) =>
            judged.outcomes = shadowed.outcomes \cup {[row |-> r, hash |-> h, authoritative |-> a]}
      /\ judged.envelopes = shadowed.envelopes
      /\ judged.shadows = shadowed.shadows /\ judged.shadowOutcomes = shadowed.shadowOutcomes
    <2>1. judged = WithOutcome(shadowed, r, h, a)
        OBVIOUS
    <2> HIDE DEF shadowed, judged, h, a
    <2> QED
        BY <1>2, <1>5, <2>1
<1>7. ASSUME taken[r].outcome \notin Settled, RowIngested(shadowed)
      PROVE  AuditInv'
    <2> HIDE DEF shadowed
    <2> QED
        BY <1>1, <1>4, <1>7, RowTaken
<1>8. ASSUME taken[r].outcome \in Settled, known, RowIngested(judged)
      PROVE  AuditInv'
    <2> HIDE DEF shadowed, judged, h, a, taken, e
    <2>1. \E p \in shadowed.outcomes : p.row = r
        <3>1. PICK o \in shadowed.shadowOutcomes : o.row = r
            BY <1>8
        <3>2. [row |-> o.row, hash |-> o.hash, authoritative |-> o.authoritative] \in shadowed.outcomes
            BY <1>4 DEF Believable
        <3>3. [row |-> o.row, hash |-> o.hash, authoritative |-> o.authoritative].row = r
            BY <3>1
        <3> QED
            BY <3>2, <3>3
    <2>2. judged.outcomes = shadowed.outcomes
        BY <1>6, <2>1
    <2>3. Believable(judged, taken)
        BY <1>4, <1>6, <2>2 DEF Believable
    <2>4. taken = audit.rows
        BY DEF taken
    <2> QED
        BY <1>1, <1>4, <1>8, <2>1, <2>2, <2>3, <2>4, RowTaken
<1>9. ASSUME taken[r].outcome \in Settled, ~known, named, RowIngested(whole)
      PROVE  AuditInv'
    <2>1. \A n \in {1, 2}, b \in BOOLEAN, d \in {"NON_SIMULATABLE", "DIAGNOSTIC_SHADOW", "EXECUTABLE_SHADOW"} :
             /\ WithShadowOutcome(judged, r, n, d, b) \in TableType
             /\ WithShadowOutcome(judged, r, n, d, b).shadowOutcomes = judged.shadowOutcomes \cup
                   {[row |-> r, hash |-> n, eligibility |-> d, authoritative |-> b]}
             /\ WithShadowOutcome(judged, r, n, d, b).envelopes = judged.envelopes
             /\ WithShadowOutcome(judged, r, n, d, b).outcomes = judged.outcomes
             /\ WithShadowOutcome(judged, r, n, d, b).shadows = judged.shadows
        <3> HIDE DEF judged
        <3> QED
            BY <1>6, ShadowOutcomeWritten
    <2>2. /\ whole = WithShadowOutcome(judged, r, h, e, a) /\ taken = audit.rows
          /\ a <=> e = "EXECUTABLE_SHADOW" /\ taken[r].outcome = "complete"
        OBVIOUS
    <2> HIDE DEF shadowed, judged, whole, h, a, taken, e
    <2>3. /\ whole \in TableType
          /\ whole.shadowOutcomes = judged.shadowOutcomes \cup
                {[row |-> r, hash |-> h, eligibility |-> e, authoritative |-> a]}
          /\ whole.envelopes = judged.envelopes
          /\ whole.outcomes = judged.outcomes /\ whole.shadows = judged.shadows
        BY <1>2, <1>3, <2>1, <2>2
    <2>4. \A p \in shadowed.outcomes : p.row # r
        <3> SUFFICES ASSUME NEW p \in shadowed.outcomes, p.row = r
                     PROVE  FALSE
            OBVIOUS
        <3> QED
            BY <1>1, <1>4, <1>9 DEF Believable
    <2>5. whole.outcomes = shadowed.outcomes \cup {[row |-> r, hash |-> h, authoritative |-> a]}
        BY <1>6, <2>3, <2>4
    <2>6. a <=> taken[r].outcome = "complete" /\ taken[r].kind \in {"filled", "aligned"}
        BY <1>1, <1>4, <1>9, <2>2 DEF Accepts
    <2>7. /\ \A o \in whole.outcomes : o \in shadowed.outcomes \/ (o.row = r /\ o.authoritative = a)
          /\ \E o \in whole.outcomes : o.row = r
          /\ shadowed.outcomes \subseteq whole.outcomes
        <3>1. [row |-> r, hash |-> h, authoritative |-> a] \in whole.outcomes
            BY <2>5
        <3>2. [row |-> r, hash |-> h, authoritative |-> a].row = r
            OBVIOUS
        <3>3. ASSUME NEW o \in whole.outcomes, o \notin shadowed.outcomes
              PROVE  o.row = r /\ o.authoritative = a
            <4>1. o = [row |-> r, hash |-> h, authoritative |-> a]
                BY <2>5, <3>3
            <4> QED
                BY <4>1
        <3>4. \E o \in whole.outcomes : o.row = r
            BY <3>1, <3>2
        <3>5. shadowed.outcomes \subseteq whole.outcomes
            BY <2>5
        <3> QED
            BY <3>3, <3>4, <3>5
    <2>8. /\ shadowed.shadowOutcomes \subseteq whole.shadowOutcomes
          /\ \E p \in whole.shadowOutcomes : p.row = r
        <3>1. [row |-> r, hash |-> h, eligibility |-> e, authoritative |-> a] \in whole.shadowOutcomes
            BY <2>3
        <3>2. [row |-> r, hash |-> h, eligibility |-> e, authoritative |-> a].row = r
            OBVIOUS
        <3> QED
            BY <1>6, <2>3, <3>1, <3>2
    <2>9. \A o \in whole.outcomes :
             /\ taken[o.row].outcome \in Settled
             /\ o.authoritative <=> taken[o.row].outcome = "complete" /\ taken[o.row].kind \in {"filled", "aligned"}
             /\ taken[o.row].kind \notin Accepts => \E p \in whole.shadowOutcomes : p.row = o.row
        BY <1>4, <1>9, <2>6, <2>7, <2>8 DEF Believable
    <2>10. \A o \in whole.shadowOutcomes :
             /\ [row |-> o.row, hash |-> o.hash, authoritative |-> o.authoritative] \in whole.outcomes
             /\ o.authoritative =>
                   [row |-> o.row, hash |-> o.hash, eligibility |-> "EXECUTABLE_SHADOW"] \in whole.shadows
        <3> TAKE o \in whole.shadowOutcomes
        <3>1. CASE o \in shadowed.shadowOutcomes
            BY <3>1, <1>4, <1>6, <2>3, <2>7 DEF Believable
        <3>2. CASE o = [row |-> r, hash |-> h, eligibility |-> e, authoritative |-> a]
            BY <3>2, <1>6, <1>9, <2>2, <2>3, <2>5
        <3> QED
            BY <3>1, <3>2, <1>6, <2>3
    <2>11. Believable(whole, taken)
        <3>1. whole.envelopes = shadowed.envelopes /\ whole.shadows = shadowed.shadows
            BY <1>6, <2>3
        <3>2. \A d \in whole.envelopes :
                 /\ taken[d[1]].kind # "absent"
                 /\ taken[d[1]].kind \notin Accepts =>
                       [row |-> d[1], hash |-> d[2], eligibility |-> Eligibility(taken[d[1]].kind, FALSE)]
                       \in whole.shadows
            BY <1>4, <3>1 DEF Believable
        <3>3. \A s \in whole.shadows :
                 /\ <<s.row, s.hash>> \in whole.envelopes
                 /\ s.eligibility = Eligibility(taken[s.row].kind, FALSE)
            BY <1>4, <3>1 DEF Believable
        <3> QED
            BY <2>3, <2>9, <2>10, <3>2, <3>3 DEF Believable
    <2> QED
        BY <1>1, <1>4, <1>9, <2>2, <2>7, <2>11, RowTaken
<1>10. ASSUME audit' = [Idling EXCEPT !.phase = "failed"]
       PROVE  AuditInv'
    BY <1>1, <1>10, IngestOver
<1> QED
    BY <1>1, <1>7, <1>8, <1>9, <1>10

\* A new ingest starts from the committed tables and the source of the moment.
LEMMA IngestStarted ==
    ASSUME AuditInv, IngestBegins
    PROVE  AuditInv'
<1>1. /\ audit' = [phase |-> "ingesting", rows |-> source, next |-> 1, tables |-> store]
      /\ UNCHANGED <<source, moment, store>>
    BY DEF IngestBegins
<1>2. audit' \in [phase : {"idle", "ingesting", "failed"}, rows : [DecisionRows -> RowType],
                   next : Nat, tables : TableType]
    BY <1>1 DEF AuditInv, Proper, Believable
<1>3. \A r \in DecisionRows : source[r].at \in Nat
    BY DEF AuditInv, Proper, RowType
<1>4. GoneOn(audit.rows)'
    BY <1>1, <1>3 DEF GoneOn
<1>5. RowsIngested'
    BY <1>1 DEF RowsIngested, DecisionRows
<1>6. audit'.next \in 1 .. MaxRows + 1
    BY <1>1, AuditAssumption
<1> QED
    BY <1>1, <1>2, <1>4, <1>5, <1>6 DEF AuditInv, IsOneCut

\* An ingest that commits has passed every row it saw, and what was settled
\* since is later than all of that.
LEMMA IngestCommitted ==
    ASSUME AuditInv, IngestCommits
    PROVE  AuditInv'
<1> DEFINE taken == audit.rows
           tables == audit.tables
<1>1. /\ store' = tables /\ audit' = Idling /\ UNCHANGED <<source, moment>>
      /\ audit.next \notin Recorded(taken)
      /\ audit.next \in 1 .. MaxRows + 1 /\ Proper(taken) /\ GoneOn(taken)
      /\ Believable(tables, taken) /\ RowsIngested
    BY DEF IngestCommits, AuditInv, Seen
<1> HIDE DEF taken, tables
<1>2. \A r \in DecisionRows : taken[r].at \in Nat /\ source[r].at \in Nat
    BY <1>1 DEF AuditInv, Proper, RowType
<1>3. \A r \in DecisionRows : taken[r].kind # "absent" => r < audit.next
    <2> SUFFICES ASSUME NEW r \in DecisionRows, taken[r].kind # "absent", audit.next <= r
                 PROVE  FALSE
        BY <1>1 DEF DecisionRows
    <2>1. audit.next \in DecisionRows
        BY <1>1, AuditAssumption DEF DecisionRows
    <2>2. taken[audit.next].kind = "absent"
        BY <1>1, <2>1 DEF Recorded
    <2> QED
        BY <1>1, <2>1, <2>2 DEF Proper, DecisionRows
<1>4. \A r \in DecisionRows : taken[r].outcome \in Settled =>
          source[r].outcome = taken[r].outcome /\ source[r].at = taken[r].at
    BY <1>1 DEF Proper, GoneOn
<1>5. Believable(tables, source)
    BY <1>1, <1>4, BeliefLasts DEF GoneOn
<1>6. IsOneCut'
    <2> SUFFICES ASSUME NEW o \in tables.outcomes, NEW r \in DecisionRows,
                        0 < source[r].at, source[r].at <= source[o.row].at
                 PROVE  \E p \in tables.outcomes : p.row = r
        BY <1>1 DEF IsOneCut
    <2>1. o.row \in DecisionRows /\ taken[o.row].outcome \in Settled
        BY <1>1 DEF Believable, TableType
    <2>2. source[o.row].at = taken[o.row].at
        BY <2>1, <1>4
    <2>3. taken[r].at > 0
        <3> SUFFICES ASSUME taken[r].at = 0 PROVE FALSE
            BY <1>2
        <3>1. taken[o.row].at < source[r].at
            BY <1>1, <1>2, <2>1 DEF GoneOn
        <3> QED
            BY <1>2, <2>1, <2>2, <3>1
    <2>4. taken[r].outcome \in Settled /\ taken[r].kind # "absent"
        BY <1>1, <2>3 DEF Proper, Settled
    <2>5. r < audit.next
        BY <1>3, <2>4
    <2> QED
        BY <1>1, <2>4, <2>5 DEF RowsIngested, taken, tables
<1>7. /\ audit' \in [phase : {"idle", "ingesting", "failed"}, rows : [DecisionRows -> RowType],
                      next : Nat, tables : TableType]
      /\ audit'.phase # "ingesting"
    BY <1>1, AuditTypes DEF Idling
<1> QED
    BY <1>1, <1>5, <1>6, <1>7 DEF AuditInv

LEMMA AuditInvariant == AuditSpec => []AuditInv
<1>1. AuditInit => AuditInv
    <2> SUFFICES ASSUME AuditInit PROVE AuditInv
        OBVIOUS
    <2>1. \A r \in DecisionRows : source[r] = Unwritten
        BY DEF AuditInit
    <2>2. Proper(source) /\ moment \in Nat /\ \A r \in DecisionRows : source[r].at <= moment
        BY <2>1, AuditTypes DEF AuditInit, Proper, Unwritten, Settled
    <2>3. Believable(store, source) /\ IsOneCut
        BY AuditTypes DEF AuditInit, Believable, NoTables, IsOneCut
    <2>4. /\ audit \in [phase : {"idle", "ingesting", "failed"}, rows : [DecisionRows -> RowType],
                         next : Nat, tables : TableType]
          /\ audit.phase # "ingesting"
        BY AuditTypes DEF AuditInit, Idling
    <2> QED
        BY <2>2, <2>3, <2>4 DEF AuditInv
<1>2. AuditInv /\ [AuditNext]_auditVars => AuditInv'
    <2> SUFFICES ASSUME AuditInv, [AuditNext]_auditVars PROVE AuditInv'
        OBVIOUS
    <2>1. CASE UNCHANGED auditVars
        <3>1. SourceWrites
            BY <2>1 DEF auditVars, SourceWrites, AuditInv, Proper
        <3> QED
            BY <3>1, SourceWritesKeep
    <2>2. ASSUME NEW r \in DecisionRows,
                 RecordsOf(r) \/ (\E quality \in Settled : SettleDecision(r, quality)) \/ MarkLegacy(r)
          PROVE  AuditInv'
        BY <2>2, RowsAreFollowed
    <2>3. ASSUME NEW r \in DecisionRows, IngestAccept(r) \/ IngestReject(r)
          PROVE  AuditInv'
        BY <2>3, AcceptIngested, RejectIngested
    <2>4. CASE IngestBegins
        BY <2>4, IngestStarted
    <2>5. CASE IngestCommits
        BY <2>5, IngestCommitted
    <2>6. CASE IngestEnds
        BY <2>6, IngestOver DEF IngestEnds
    <2> QED
        BY <2>1, <2>2, <2>3, <2>4, <2>5, <2>6 DEF AuditNext, RecordsOf
<1> QED
    BY <1>1, <1>2, PTL DEF AuditSpec

\* What the audit has committed is evidence that the source gave it and still
\* stands by, and all of it is of one moment, whatever the runtime and the
\* resolver write while ingests begin, fail and commit (ingest_audit_evidence).
THEOREM AuditIsSound == AuditSpec => []AuditStands
<1>1. AuditInv => AuditStands
    BY DEF AuditInv, Believable, AuditStands, AuthorityIsEarned
<1> QED
    BY <1>1, AuditInvariant, PTL

-----------------------------------------------------------------------------
(* The remote control.                                                     *)

Handling == {"process", "execute", "control", "drill", "record", "persist", "send"}
Executing == {"execute", "control", "drill"}

\* The batch holds updates of the inbox, an update that is being handled was
\* reserved, and only stored answers are sent again.
BatchOK ==
    /\ svc.todo \subseteq 1 .. Len(inbox)
    /\ svc.pc \in Handling \cup {"update"} => svc.todo # {}
    /\ svc.pc = "retry" => svc.todo \subseteq reserved
    /\ svc.pc \in Handling => Current \in reserved

\* A confirmation is asked for by a reserved update and confirmed by somebody
\* who was told of it.
Asked ==
    /\ \A u \in Updates : conf[u].status # "NONE" => u \in reserved
    /\ \A i \in 1 .. Len(inbox) : inbox[i].id # 0 => inbox[i].id \in told
    /\ svc.pc = "process" /\ Message.cmd \in Mutations => conf[Current].status = "NONE"

\* Between its consumption and the action a confirmation is not acted upon.
Consumed ==
    /\ svc.pc \in Executing \cup {"record"} => Message.cmd = "CONFIRM"
    /\ svc.pc \in Executing => conf[Message.id].status = "CONSUMED" /\ begun[Message.id] = 0

\* The inductive invariant.
IInv == TypeOK /\ BatchOK /\ Asked /\ Consumed /\ ConfirmedOnce

\* A batch that is not empty has an oldest update.
LEMMA OldestIsOne ==
    ASSUME NEW batch \in SUBSET Nat, batch # {}
    PROVE  Oldest(batch) \in batch
<1> DEFINE Less == {ss \in Nat \X Nat : ss[1] < ss[2]}
<1>1. IsWellFoundedOn(Less, Nat)
    BY NatLessThanWellFounded, Zenon DEF OpToRel
<1>2. PICK x \in batch : \A y \in batch : ~ (<<y, x>> \in Less)
    BY <1>1, WFMin, Zenon
<1>3. ASSUME NEW y \in batch PROVE x <= y
    <2>1. y \in Nat /\ x \in Nat
        OBVIOUS
    <2>2. ~ (y < x)
        <3>1. SUFFICES ASSUME y < x PROVE <<y, x>> \in Less
            BY <1>2
        <3> QED
            BY <2>1, <3>1
    <2> QED
        BY <2>1, <2>2
<1> QED
    BY <1>3 DEF Oldest

\* The update in hand is one of the batch and has an id within the bounds.
LEMMA CurrentIsUpdate ==
    ASSUME TypeOK, BatchOK, svc.todo # {}
    PROVE  Current \in svc.todo /\ Current \in 1 .. Len(inbox) /\ Current \in Updates
              /\ Message \in Messages
<1>1. svc.todo \subseteq Nat
    BY DEF BatchOK
<1>2. Current \in svc.todo
    BY <1>1, OldestIsOne DEF Current
<1>3. Current \in 1 .. Len(inbox) /\ Current \in Updates
    BY <1>2, TelegramAssumption DEF BatchOK, TypeOK, Updates
<1> QED
    BY <1>2, <1>3 DEF Message, TypeOK

\* A CONFIRM names an update that was answered.
LEMMA ConfirmIsKnown ==
    ASSUME TypeOK, Asked, Current \in 1 .. Len(inbox), Message \in Messages,
           Message.cmd \in {"CONFIRM", "CANCEL"}
    PROVE  Message.id \in Updates /\ Message.id \in told
<1>1. Message.id \in Updates
    BY DEF Messages, Mutations, AllCommands
<1>2. Message.id # 0
    BY <1>1, TelegramAssumption DEF Updates
<1> QED
    BY <1>1, <1>2 DEF Asked, Message

\* What is left of a batch is a state of the service.
LEMMA BatchIsService ==
    ASSUME svc \in Services, NEW rest \in SUBSET Updates
    PROVE  /\ Batch(rest) \in Services
           /\ Batch(rest).todo = rest
           /\ Batch(rest).pc = IF rest = {} THEN "poll" ELSE "update"
           /\ Batch(rest).run = svc.run
BY DEF Batch, Services, Pcs, Outcomes

\* A step that moves the program counter only, or notes a result as well.
LEMMA StepIsService ==
    ASSUME svc \in Services, NEW pc \in Pcs
    PROVE  /\ [svc EXCEPT !.pc = pc] \in Services
           /\ [svc EXCEPT !.pc = pc].pc = pc
           /\ [svc EXCEPT !.pc = pc].todo = svc.todo
           /\ \A r \in Outcomes :
                 /\ [svc EXCEPT !.pc = pc, !.result = r] \in Services
                 /\ [svc EXCEPT !.pc = pc, !.result = r].pc = pc
                 /\ [svc EXCEPT !.pc = pc, !.result = r].todo = svc.todo
BY DEF Services

\* The offset moves to the update in hand or stays.
LEMMA AcknowledgedInInbox ==
    ASSUME TypeOK, Current \in 1 .. Len(inbox)
    PROVE  Acknowledged \in 0 .. Len(inbox)
BY DEF Acknowledged, TypeOK

\* Facts about the update in hand, for the steps below.
LEMMA UpdateInHand ==
    ASSUME IInv, svc.todo # {}
    PROVE  /\ Current \in svc.todo /\ Current \in 1 .. Len(inbox) /\ Current \in Updates
           /\ Message \in Messages /\ Acknowledged \in 0 .. Len(inbox)
           /\ svc.todo \ {Current} \in SUBSET Updates
           /\ Message.cmd \in {"CONFIRM", "CANCEL"} => Message.id \in Updates /\ Message.id \in told
<1>1. Current \in svc.todo /\ Current \in 1 .. Len(inbox) /\ Current \in Updates /\ Message \in Messages
    BY CurrentIsUpdate DEF IInv
<1>2. svc.todo \in SUBSET Updates
    BY DEF IInv, TypeOK, Services
<1> QED
    BY <1>1, <1>2, ConfirmIsKnown, AcknowledgedInInbox DEF IInv

\* A poll keeps the updates that are there and appends what the operator sent;
\* a confirmation names an update that was answered.
LEMMA InboxGrows ==
    ASSUME IInv, Poll
    PROVE  /\ inbox' \in Seq(Messages) /\ Len(inbox) <= Len(inbox')
           /\ \A i \in 1 .. Len(inbox) : inbox'[i] = inbox[i]
           /\ \A i \in 1 .. Len(inbox') : inbox'[i].id # 0 => inbox'[i].id \in told
<1>1. PICK new \in {<<>>} \cup {<<m>> : m \in Sendable} : inbox' = inbox \o new
    BY DEF Poll
<1>2. inbox \in Seq(Messages) /\ \A i \in 1 .. Len(inbox) : inbox[i].id # 0 => inbox[i].id \in told
    BY DEF IInv, TypeOK, Asked
<1>3. CASE new = <<>>
    <2>1. inbox' = inbox
        BY <1>1, <1>2, <1>3
    <2> QED
        BY <1>2, <2>1
<1>4. CASE new # <<>>
    <2>1. PICK m \in Sendable : new = <<m>>
        BY <1>4
    <2>2. m \in Messages /\ (m.id # 0 => m.id \in told)
        BY DEF Sendable
    <2>3. inbox' = Append(inbox, m)
        BY <1>1, <1>2, <2>1, <2>2
    <2> QED
        BY <1>2, <2>2, <2>3
<1> QED
    BY <1>3, <1>4

\* The service's own state keeps its type.
LEMMA StepService == IInv /\ Next => svc' \in Services
<1> SUFFICES ASSUME IInv, Next PROVE svc' \in Services
    OBVIOUS
<1>1. svc \in Services /\ svc.todo \in SUBSET Updates /\ {} \in SUBSET Updates
    BY DEF IInv, TypeOK, Services
<1>2. svc.todo # {} => svc.todo \ {Current} \in SUBSET Updates
    BY UpdateInHand
<1>3. ASSUME NEW from, NEW to \in Pcs, Step(from, to) PROVE svc' \in Services
    BY <1>1, <1>3, StepIsService DEF Step
<1>4. ASSUME NEW from, NextUpdate(from), svc.todo # {} PROVE svc' \in Services
    BY <1>1, <1>2, <1>4, BatchIsService DEF NextUpdate
<1>5. ASSUME NEW from, PollEnds(from) PROVE svc' \in Services
    BY <1>1, <1>5, BatchIsService DEF PollEnds
<1>6. ASSUME NEW r \in Outcomes, Concluded(r) PROVE svc' \in Services
    BY <1>1, <1>6, StepIsService DEF Concluded, Pcs
<1>7. CASE Start
    <2>1. answers \in SUBSET Updates
        BY TelegramAssumption DEF IInv, TypeOK, Updates
    <2>2. svc' = [pc |-> "retry", run |-> 0, todo |-> answers, result |-> "NONE"]
        BY <1>7 DEF Start, Down
    <2> QED
        BY <2>1, <2>2, RunsAssumption DEF Services, Pcs, Outcomes
<1>8. CASE RetryPending
    <2>1. CASE svc.todo = {}
        BY <1>5, <1>8, <2>1 DEF RetryPending
    <2>2. CASE svc.todo # {}
        <3>1. svc' = [svc EXCEPT !.todo = svc.todo \ {Current}]
            BY <1>8, <2>2 DEF RetryPending
        <3> QED
            BY <1>1, <3>1 DEF Services
    <2> QED
        BY <2>1, <2>2
<1>9. CASE Poll
    <2>1. PICK run \in {0, campaign.run} :
            /\ Len(inbox') <= MaxUpdates
            /\ svc' = [Batch((offset + 1) .. Len(inbox')) EXCEPT !.run = run]
        BY <1>9 DEF Poll
    <2>2. (offset + 1) .. Len(inbox') \in SUBSET Updates
        <3>1. inbox' \in Seq(Messages)
            BY <1>9, InboxGrows
        <3> QED
            BY <2>1, <3>1, TelegramAssumption DEF IInv, TypeOK, Updates
    <2>3. run \in 0 .. MaxRuns
        BY RunsAssumption DEF IInv, TypeOK, Campaigns
    <2>4. Batch((offset + 1) .. Len(inbox')) \in Services
        BY <1>1, <2>2, BatchIsService
    <2> QED
        BY <2>1, <2>3, <2>4 DEF Services
<1>10. CASE RejectUpdate \/ ReserveFails
    BY <1>4, <1>5, <1>10 DEF RejectUpdate, ReserveFails, Rejected
<1>11. CASE Reserve
    BY <1>3, <1>4, <1>5, <1>11 DEF Reserve, Pcs
<1>12. CASE AnswerOnly \/ CreateConfirmation \/ CancelConfirmation
    BY <1>3, <1>12 DEF AnswerOnly, CreateConfirmation, CancelConfirmation, AnswerReady, Pcs
<1>13. CASE ConsumeConfirmation
    BY <1>3, <1>13 DEF ConsumeConfirmation, AnswerReady, Pcs
<1>14. CASE CheckTarget
    BY <1>3, <1>6, <1>14 DEF CheckTarget, Pcs, Outcomes
<1>15. CASE Control \/ RunDrill
    BY <1>6, <1>15 DEF Control, RunDrill, Outcomes
<1>16. CASE RecordResult
    BY <1>3, <1>16 DEF RecordResult, Pcs
<1>17. CASE PersistAnswer
    BY <1>3, <1>5, <1>17 DEF PersistAnswer, Pcs
<1>18. CASE SendAnswer
    <2>1. svc.todo # {}
        BY <1>18 DEF SendAnswer, NextUpdate, IInv, BatchOK, Handling
    <2> QED
        BY <1>4, <1>18, <2>1 DEF SendAnswer
<1>19. CASE Crash
    BY <1>19, RunsAssumption DEF Crash, Down, Services, Pcs, Outcomes
<1>20. CASE CampaignChanges
    BY <1>1, <1>20 DEF CampaignChanges
<1> QED
    BY <1>7, <1>8, <1>9, <1>10, <1>11, <1>12, <1>13, <1>14, <1>15, <1>16, <1>17, <1>18, <1>19, <1>20 DEF Next

\* The stores keep their types.
LEMMA StepStores == IInv /\ Next => TypeOK'
<1> SUFFICES ASSUME IInv, Next PROVE TypeOK'
    OBVIOUS
<1> USE DEF IInv
<1>1. svc' \in Services
    BY StepService
<1>2. CASE Start \/ CheckTarget \/ AnswerOnly \/ Crash
    BY <1>1, <1>2 DEF TypeOK, Start, CheckTarget, AnswerOnly, Crash, stores
<1>3. CASE CampaignChanges
    BY <1>1, <1>3, RunsAssumption
       DEF TypeOK, CampaignChanges, CampaignMoves, NextContinuation, stores, Campaigns, Statuses
<1>4. CASE Control \/ RunDrill
    <2>1. svc.todo # {} /\ Message.cmd = "CONFIRM"
        BY <1>4 DEF Control, RunDrill, BatchOK, Handling, Consumed, Executing
    <2>2. begun' \in [Updates -> Nat]
        BY <1>4, <2>1, UpdateInHand DEF Control, RunDrill, Acts, TypeOK
    <2>3. campaign' \in Campaigns
        BY <1>4, RunsAssumption
           DEF Control, RunDrill, CliEffect, NextContinuation, Campaigns, Statuses, TypeOK
    <2> QED
        BY <1>1, <1>4, <2>2, <2>3 DEF TypeOK, Control, RunDrill, stores
<1>5. CASE CreateConfirmation \/ CancelConfirmation \/ ConsumeConfirmation \/ RecordResult
    <2>1. svc.todo # {}
        BY <1>5 DEF CreateConfirmation, CancelConfirmation, ConsumeConfirmation, RecordResult, Step,
                    BatchOK, Handling
    <2>2. CASE CreateConfirmation
        <3>1. [op |-> Message.cmd, run |-> svc.run, status |-> "PENDING", result |-> "NONE"]
                \in Confirmations
            BY <2>2 DEF CreateConfirmation, Confirmations, ConfStatuses, Outcomes, TypeOK, Services
        <3>2. conf' \in [Updates -> Confirmations]
            BY <2>1, <2>2, <3>1, UpdateInHand DEF CreateConfirmation, TypeOK
        <3> QED
            BY <1>1, <2>2, <3>2 DEF TypeOK, CreateConfirmation
    <2>3. ASSUME Message.id \in Updates,
                 NEW s \in ConfStatuses, conf' = [conf EXCEPT ![Message.id].status = s]
          PROVE  conf' \in [Updates -> Confirmations]
        BY <2>3 DEF TypeOK, Confirmations
    <2>4. CASE CancelConfirmation
        BY <1>1, <2>1, <2>3, <2>4, UpdateInHand DEF TypeOK, CancelConfirmation, ConfStatuses
    <2>5. CASE ConsumeConfirmation
        <3>1. conf' \in [Updates -> Confirmations]
            BY <2>1, <2>3, <2>5, UpdateInHand DEF ConsumeConfirmation, ConfStatuses
        <3> QED
            BY <1>1, <2>5, <3>1 DEF TypeOK, ConsumeConfirmation
    <2>6. CASE RecordResult
        <3>1. Message.id \in Updates /\ svc.result \in Outcomes
            BY <2>1, <2>6, UpdateInHand DEF RecordResult, Step, Consumed, Executing, TypeOK, Services
        <3>2. conf' \in [Updates -> Confirmations]
            BY <2>6, <3>1 DEF RecordResult, TypeOK, Confirmations
        <3> QED
            BY <1>1, <2>6, <3>2 DEF TypeOK, RecordResult
    <2> QED
        BY <1>5, <2>2, <2>4, <2>5, <2>6
<1>6. CASE RejectUpdate \/ ReserveFails
    BY <1>1, <1>6, UpdateInHand DEF TypeOK, RejectUpdate, ReserveFails, Rejected
<1>7. CASE Reserve
    BY <1>1, <1>7, UpdateInHand DEF TypeOK, Reserve
<1>8. CASE Poll
    <2>1. Len(inbox') <= MaxUpdates /\ inbox' \in Seq(Messages) /\ Len(inbox) <= Len(inbox')
        BY <1>8, InboxGrows DEF Poll
    <2> QED
        BY <1>1, <1>8, <2>1 DEF TypeOK, Poll, stores
<1>9. CASE RetryPending
    <2>1. svc.todo # {} => Current \in reserved
        BY <1>9, UpdateInHand DEF RetryPending, BatchOK
    <2> QED
        BY <1>1, <1>9, <2>1 DEF TypeOK, RetryPending, Sending
<1>10. CASE PersistAnswer
    BY <1>1, <1>10, UpdateInHand DEF TypeOK, PersistAnswer, BatchOK, Handling, Step
<1>11. CASE SendAnswer
    <2>1. Current \in reserved
        BY <1>11 DEF SendAnswer, NextUpdate, BatchOK, Handling
    <2> QED
        BY <1>1, <1>11, <2>1 DEF TypeOK, SendAnswer, Sending
<1> QED
    BY <1>2, <1>3, <1>4, <1>5, <1>6, <1>7, <1>8, <1>9, <1>10, <1>11 DEF Next

\* While the batch stays, so does the update in hand.
LEMMA SameUpdate ==
    ASSUME svc'.todo = svc.todo
    PROVE  Current' = Current /\ (inbox' = inbox => Message' = Message)
BY DEF Current, Message

\* How the service moves: within an update, on to the next one, or away.
LEMMA Moves ==
    ASSUME IInv
    PROVE  /\ \A from, to : Step(from, to) /\ to \in Pcs =>
                svc.pc = from /\ svc'.pc = to /\ svc'.todo = svc.todo
           /\ \A r \in Outcomes : Concluded(r) => svc'.pc = "record" /\ svc'.todo = svc.todo
           /\ \A from : (NextUpdate(from) /\ svc.todo # {}) \/ PollEnds(from) =>
                /\ svc'.todo \subseteq svc.todo
                /\ svc'.pc \in {"poll", "update"} /\ (svc'.pc = "update" => svc'.todo # {})
<1>1. svc \in Services /\ {} \in SUBSET Updates
    BY DEF IInv, TypeOK
<1>2. \A from, to : Step(from, to) /\ to \in Pcs =>
        svc.pc = from /\ svc'.pc = to /\ svc'.todo = svc.todo
    BY <1>1, StepIsService DEF Step
<1>3. ASSUME NEW r \in Outcomes, Concluded(r) PROVE svc'.pc = "record" /\ svc'.todo = svc.todo
    <2>1. "record" \in Pcs
        BY DEF Pcs
    <2> QED
        BY <1>1, <1>3, <2>1, StepIsService DEF Concluded
<1>4. ASSUME NEW from, (NextUpdate(from) /\ svc.todo # {}) \/ PollEnds(from)
      PROVE  /\ svc'.todo \subseteq svc.todo
             /\ svc'.pc \in {"poll", "update"} /\ (svc'.pc = "update" => svc'.todo # {})
    <2>1. CASE NextUpdate(from) /\ svc.todo # {}
        BY <1>1, <2>1, UpdateInHand, BatchIsService DEF NextUpdate
    <2>2. CASE PollEnds(from)
        BY <1>1, <2>2, BatchIsService DEF PollEnds
    <2> QED
        BY <1>4, <2>1, <2>2
<1> QED
    BY <1>2, <1>3, <1>4

\* The batch stays within the inbox and what is handled stays reserved.
LEMMA StepBatch == IInv /\ Next => BatchOK'
<1> SUFFICES ASSUME IInv, Next PROVE BatchOK'
    OBVIOUS
<1> DEFINE Away == /\ svc'.todo \subseteq svc.todo
                   /\ svc'.pc \in {"poll", "update"} /\ (svc'.pc = "update" => svc'.todo # {})
<1>1. ASSUME Away, inbox' = inbox PROVE BatchOK'
    BY <1>1 DEF IInv, BatchOK, Handling
<1>2. ASSUME svc.pc \in Handling, svc'.pc \in Handling, svc'.todo = svc.todo, inbox' = inbox,
             reserved' = reserved
      PROVE  BatchOK'
    BY <1>2, SameUpdate DEF IInv, BatchOK, Handling
<1>3. CASE Start
    <2>1. svc'.pc = "retry" /\ svc'.todo = answers /\ inbox' = inbox /\ reserved' = reserved
        BY <1>3 DEF Start, Down, stores
    <2> QED
        BY <2>1 DEF IInv, BatchOK, TypeOK, Handling
<1>4. CASE RetryPending
    <2>1. CASE svc.todo = {}
        BY <1>1, <1>4, <2>1, Moves DEF RetryPending
    <2>2. CASE svc.todo # {}
        <3>1. svc'.pc = "retry" /\ svc'.todo \subseteq svc.todo /\ inbox' = inbox /\ reserved' = reserved
            BY <1>4, <2>2 DEF RetryPending, IInv, TypeOK, Services
        <3> QED
            BY <1>4, <3>1 DEF RetryPending, IInv, BatchOK, Handling
    <2> QED
        BY <2>1, <2>2
<1>5. CASE Poll
    <2>1. PICK run : svc' = [Batch((offset + 1) .. Len(inbox')) EXCEPT !.run = run]
        BY <1>5 DEF Poll
    <2>2. /\ svc'.todo = (offset + 1) .. Len(inbox')
          /\ svc'.pc = IF svc'.todo = {} THEN "poll" ELSE "update"
        BY <2>1 DEF Batch, IInv, TypeOK, Services
    <2>3. offset \in Nat /\ Len(inbox') \in Nat
        BY <1>5, InboxGrows DEF IInv, TypeOK
    <2> QED
        BY <2>2, <2>3 DEF BatchOK, Handling
<1>6. CASE RejectUpdate \/ ReserveFails
    BY <1>1, <1>6, Moves DEF RejectUpdate, ReserveFails, Rejected
<1>7. CASE Reserve
    <2>1. CASE Step("update", "process")
        <3>1. /\ svc.pc = "update" /\ svc'.pc = "process" /\ svc'.todo = svc.todo /\ inbox' = inbox
              /\ Current \in reserved'
            BY <1>7, <2>1, Moves DEF Reserve, Pcs
        <3>2. Current' = Current
            BY <3>1, SameUpdate
        <3> QED
            BY <3>1, <3>2 DEF IInv, BatchOK, Handling
    <2>2. CASE NextUpdate("update") \/ PollEnds("update")
        BY <1>1, <1>7, <2>2, Moves DEF Reserve
    <2> QED
        BY <1>7, <2>1, <2>2 DEF Reserve
<1>8. CASE AnswerOnly \/ CreateConfirmation \/ CancelConfirmation \/ ConsumeConfirmation
    BY <1>2, <1>8, Moves DEF AnswerOnly, CreateConfirmation, CancelConfirmation, ConsumeConfirmation,
                             AnswerReady, stores, Pcs, Handling
<1>9. CASE CheckTarget
    BY <1>2, <1>9, Moves DEF CheckTarget, stores, Pcs, Handling, Outcomes
<1>10. CASE Control \/ RunDrill
    BY <1>2, <1>10, Moves DEF Control, RunDrill, stores, Handling, Outcomes
<1>11. CASE RecordResult
    BY <1>2, <1>11, Moves DEF RecordResult, Pcs, Handling
<1>12. CASE PersistAnswer
    BY <1>1, <1>2, <1>12, Moves DEF PersistAnswer, Pcs, Handling
<1>13. CASE SendAnswer
    <2>1. svc.todo # {}
        BY <1>13 DEF SendAnswer, NextUpdate, IInv, BatchOK, Handling
    <2> QED
        BY <1>1, <1>13, <2>1, Moves DEF SendAnswer
<1>14. CASE Crash
    BY <1>14 DEF Crash, Down, BatchOK, Handling
<1>15. CASE CampaignChanges
    <2>1. svc' = svc /\ inbox' = inbox /\ reserved' = reserved
        BY <1>15 DEF CampaignChanges, stores
    <2>2. Current' = Current
        BY <2>1, SameUpdate
    <2> QED
        BY <2>1, <2>2 DEF IInv, BatchOK
<1> QED
    BY <1>3, <1>4, <1>5, <1>6, <1>7, <1>8, <1>9, <1>10, <1>11, <1>12, <1>13, <1>14, <1>15 DEF Next

\* Confirmations are asked for, consumed and acted upon in this order.
LEMMA StepConfirmations == IInv /\ Next => Asked' /\ Consumed' /\ ConfirmedOnce'
<1> SUFFICES ASSUME IInv, Next PROVE Asked' /\ Consumed' /\ ConfirmedOnce'
    OBVIOUS
<1> DEFINE Elsewhere == svc'.pc \notin {"process", "execute", "control", "drill", "record"}
<1> DEFINE Grow == reserved \subseteq reserved' /\ told \subseteq told'
<1>1. ASSUME Elsewhere, Grow, UNCHANGED <<conf, begun, inbox>>
      PROVE  Asked' /\ Consumed' /\ ConfirmedOnce'
    BY <1>1 DEF IInv, Asked, Consumed, Executing, ConfirmedOnce
<1>2. \A u \in Updates : begun[u] \in Nat /\ (begun[u] # 0 => conf[u].status = "CONSUMED")
    BY DEF IInv, ConfirmedOnce, TypeOK
<1>3. ASSUME NEW from, (NextUpdate(from) /\ svc.todo # {}) \/ PollEnds(from) PROVE Elsewhere
    BY <1>3, Moves
<1>4. ASSUME NEW from, NEW to \in {"persist", "send"}, Step(from, to) PROVE Elsewhere
    BY <1>4, Moves DEF Pcs
<1>5. svc.pc \in Handling => svc.todo # {} /\ Current \in Updates /\ Message \in Messages
    BY UpdateInHand DEF IInv, BatchOK
<1>6. CASE Start \/ Crash
    <2>1. CASE Start
        <3>1. svc'.pc = "retry"
            BY <2>1 DEF Start, Down
        <3> QED
            BY <1>1, <2>1, <3>1 DEF Start, stores
    <2>2. CASE Crash
        <3>1. svc'.pc = "down"
            BY <2>2 DEF Crash, Down
        <3> QED
            BY <1>1, <2>2, <3>1 DEF Crash, stores
    <2> QED
        BY <1>6, <2>1, <2>2
<1>7. CASE RetryPending
    <2>1. Elsewhere
        BY <1>3, <1>7 DEF RetryPending, IInv, TypeOK, Services
    <2>2. Grow /\ UNCHANGED <<conf, begun, inbox>>
        BY <1>7 DEF RetryPending, Sending
    <2> QED
        BY <1>1, <2>1, <2>2
<1>8. CASE RejectUpdate \/ ReserveFails
    BY <1>1, <1>3, <1>8 DEF RejectUpdate, ReserveFails, Rejected
<1>9. CASE AnswerOnly
    BY <1>1, <1>4, <1>9 DEF AnswerOnly, AnswerReady, stores
<1>10. CASE PersistAnswer
    BY <1>1, <1>3, <1>4, <1>10 DEF PersistAnswer
<1>11. CASE SendAnswer
    <2>1. Elsewhere
        BY <1>3, <1>5, <1>11 DEF SendAnswer, NextUpdate, Handling
    <2> QED
        BY <1>1, <1>11, <2>1 DEF SendAnswer, Sending
<1>12. CASE Poll
    <2>1. PICK run : svc' = [Batch((offset + 1) .. Len(inbox')) EXCEPT !.run = run]
        BY <1>12 DEF Poll
    <2>2. svc'.pc \in {"poll", "update"}
        BY <2>1 DEF Batch, IInv, TypeOK, Services
    <2> QED
        BY <1>12, <2>2, InboxGrows DEF IInv, Poll, stores, Asked, Consumed, Executing, ConfirmedOnce
<1>13. CASE Reserve
    <2>1. CASE Step("update", "process")
        <3>1. svc'.pc = "process" /\ Current' = Current
            BY <2>1, Moves, SameUpdate DEF Pcs
        <3>2. conf[Current].status = "NONE"
            BY <1>13, UpdateInHand DEF Reserve, IInv, Asked
        <3>3. conf' = conf /\ begun' = begun /\ inbox' = inbox /\ told' = told /\ reserved \subseteq reserved'
            BY <1>13 DEF Reserve
        <3> QED
            BY <3>1, <3>2, <3>3 DEF IInv, Asked, Consumed, Executing, ConfirmedOnce
    <2>2. CASE NextUpdate("update") \/ PollEnds("update")
        BY <1>1, <1>3, <1>13, <2>2 DEF Reserve
    <2> QED
        BY <1>13, <2>1, <2>2 DEF Reserve
<1>14. CASE CreateConfirmation
    <2>1. Elsewhere
        BY <1>4, <1>14 DEF CreateConfirmation, AnswerReady
    <2>2. Current \in Updates /\ Current \in reserved /\ conf[Current].status = "NONE" /\ begun[Current] = 0
        BY <1>2, <1>5, <1>14 DEF CreateConfirmation, Handling, IInv, BatchOK, Asked
    <2>3. /\ \A u \in Updates \ {Current} : conf'[u] = conf[u]
          /\ inbox' = inbox /\ reserved' = reserved /\ told' = told /\ begun' = begun
        BY <1>14, <2>2 DEF CreateConfirmation, IInv, TypeOK
    <2> QED
        BY <1>2, <2>1, <2>2, <2>3 DEF IInv, Asked, Consumed, Executing, ConfirmedOnce
<1>15. ASSUME NEW id \in Updates, NEW status \in ConfStatuses, conf[id].status = "PENDING",
              conf' = [conf EXCEPT ![id].status = status],
              UNCHANGED <<inbox, reserved, told, begun>>
       PROVE  /\ conf'[id].status = status /\ begun'[id] = 0
              /\ \A u \in Updates : conf'[u].status # "NONE" => u \in reserved'
              /\ ConfirmedOnce'
    <2>1. begun[id] = 0 /\ id \in reserved
        BY <1>2, <1>15 DEF IInv, Asked
    <2>2. conf'[id].status = status /\ \A u \in Updates \ {id} : conf'[u] = conf[u]
        BY <1>15 DEF IInv, TypeOK, Confirmations
    <2> QED
        BY <1>15, <2>1, <2>2 DEF IInv, Asked, ConfirmedOnce
<1>16. CASE CancelConfirmation
    <2>1. Elsewhere
        BY <1>4, <1>16 DEF CancelConfirmation, AnswerReady
    <2>2. Message.id \in Updates
        BY <1>5, <1>16, UpdateInHand DEF CancelConfirmation, Handling
    <2>3. \A u \in Updates : conf'[u].status # "NONE" => u \in reserved'
        BY <1>15, <1>16, <2>2 DEF CancelConfirmation, ConfStatuses
    <2>4. ConfirmedOnce'
        BY <1>15, <1>16, <2>2 DEF CancelConfirmation, ConfStatuses
    <2> QED
        BY <1>16, <2>1, <2>3, <2>4 DEF CancelConfirmation, IInv, Asked, Consumed, Executing
<1>17. CASE ConsumeConfirmation
    <2>1. Message.id \in Updates /\ Message.cmd = "CONFIRM"
        BY <1>5, <1>17, UpdateInHand DEF ConsumeConfirmation, Handling
    <2>2. PICK s \in {"EXPIRED", "CANCELLED", "CONSUMED"} :
             /\ conf' = [conf EXCEPT ![Message.id].status = s]
             /\ s = "CONSUMED" => Step("process", "execute")
             /\ s # "CONSUMED" => AnswerReady
        BY <1>17 DEF ConsumeConfirmation
    <2>3. /\ conf'[Message.id].status = s /\ begun'[Message.id] = 0
          /\ \A u \in Updates : conf'[u].status # "NONE" => u \in reserved'
          /\ ConfirmedOnce'
        BY <1>15, <1>17, <2>1, <2>2 DEF ConsumeConfirmation, ConfStatuses
    <2>4. CASE s = "CONSUMED"
        <3>1. svc'.pc = "execute" /\ Message' = Message
            BY <1>17, <2>2, <2>4, Moves, SameUpdate DEF Pcs, ConsumeConfirmation
        <3> QED
            BY <1>17, <2>1, <2>3, <2>4, <3>1 DEF ConsumeConfirmation, IInv, Asked, Consumed, Executing
    <2>5. CASE s # "CONSUMED"
        <3>1. Elsewhere
            BY <1>4, <2>2, <2>5 DEF AnswerReady
        <3> QED
            BY <1>17, <2>3, <3>1 DEF ConsumeConfirmation, IInv, Asked, Consumed, Executing
    <2> QED
        BY <2>4, <2>5
<1>18. CASE CheckTarget
    <2>1. svc'.pc \in {"record", "control", "drill"} /\ svc'.todo = svc.todo
        BY <1>18, Moves DEF CheckTarget, Pcs, Outcomes
    <2>2. Message' = Message /\ UNCHANGED <<inbox, stores, begun>>
        BY <1>18, <2>1, SameUpdate DEF CheckTarget
    <2>3. svc.pc = "execute"
        BY <1>18 DEF CheckTarget
    <2> QED
        BY <2>1, <2>2, <2>3 DEF IInv, stores, Asked, Consumed, Executing, ConfirmedOnce
<1>19. CASE Control \/ RunDrill
    <2>1. svc'.pc = "record" /\ svc'.todo = svc.todo
        BY <1>19, Moves DEF Control, RunDrill, Outcomes
    <2>2. Message' = Message /\ UNCHANGED <<inbox, stores>> /\ Acts
        BY <1>19, <2>1, SameUpdate DEF Control, RunDrill
    <2>3. /\ Message.cmd = "CONFIRM" /\ conf[Message.id].status = "CONSUMED" /\ begun[Message.id] = 0
          /\ Message.id \in Updates /\ Message.id \in told
        BY <1>5, <1>19, UpdateInHand DEF Control, RunDrill, IInv, Consumed, Executing, Handling
    <2>4. begun'[Message.id] = 1 /\ \A u \in Updates \ {Message.id} : begun'[u] = begun[u]
        BY <2>2, <2>3 DEF Acts, IInv, TypeOK
    <2> QED
        BY <2>1, <2>2, <2>3, <2>4 DEF IInv, stores, Asked, Consumed, Executing, ConfirmedOnce
<1>20. CASE RecordResult
    <2>1. Elsewhere
        BY <1>4, <1>20 DEF RecordResult
    <2>2. Message.id \in Updates
        BY <1>5, <1>20, UpdateInHand DEF RecordResult, Step, IInv, Consumed, Handling
    <2>3. \A u \in Updates : conf'[u].status = conf[u].status
        <3>1. conf \in [Updates -> Confirmations]
            BY DEF IInv, TypeOK
        <3>2. CASE conf' = [conf EXCEPT ![Message.id].result = svc.result]
            <4>1. conf'[Message.id] = [conf[Message.id] EXCEPT !.result = svc.result]
                BY <2>2, <3>1, <3>2
            <4>2. conf'[Message.id].status = conf[Message.id].status
                BY <2>2, <3>1, <4>1 DEF Confirmations
            <4>3. \A u \in Updates \ {Message.id} : conf'[u] = conf[u]
                BY <3>1, <3>2
            <4> QED
                BY <4>2, <4>3
        <3>3. CASE conf' = conf
            BY <3>3
        <3> QED
            BY <1>20, <3>2, <3>3 DEF RecordResult
    <2> QED
        BY <1>20, <2>1, <2>3 DEF RecordResult, IInv, Asked, Consumed, Executing, ConfirmedOnce
<1>21. CASE CampaignChanges
    <2>1. svc' = svc /\ UNCHANGED <<inbox, stores, begun>>
        BY <1>21 DEF CampaignChanges
    <2>2. Current' = Current /\ Message' = Message
        BY <2>1, SameUpdate
    <2> QED
        BY <2>1, <2>2 DEF IInv, stores, Asked, Consumed, ConfirmedOnce
<1> QED
    BY <1>6, <1>7, <1>8, <1>9, <1>10, <1>11, <1>12, <1>13, <1>14, <1>16, <1>17, <1>18, <1>19,
       <1>20, <1>21 DEF Next

\* The invariant holds when the service is first set up.
LEMMA InitIInv == Init => IInv
<1> SUFFICES ASSUME Init PROVE IInv
    OBVIOUS
<1>1. TypeOK
    <2>1. NoConfirmation \in Confirmations /\ Down \in Services
        BY RunsAssumption DEF NoConfirmation, Confirmations, Mutations, ConfStatuses, Outcomes, Down,
                              Services, Pcs
    <2> QED
        BY <2>1, RunsAssumption, TelegramAssumption DEF Init, TypeOK, Campaigns, Statuses
<1>2. BatchOK /\ Asked /\ Consumed /\ ConfirmedOnce
    BY DEF Init, Down, NoConfirmation, BatchOK, Asked, Consumed, ConfirmedOnce, Handling, Executing
<1> QED
    BY <1>1, <1>2 DEF IInv

\* A step that changes nothing keeps the invariant.
LEMMA StutterIInv == IInv /\ UNCHANGED vars => IInv'
<1> SUFFICES ASSUME IInv, UNCHANGED vars PROVE IInv'
    OBVIOUS
<1>1. UNCHANGED <<campaign, inbox, offset, reserved, answers, told, conf, begun, svc>>
    BY DEF vars, stores
<1>2. Current' = Current /\ Message' = Message
    BY <1>1, SameUpdate
<1> QED
    BY <1>1, <1>2 DEF IInv, TypeOK, BatchOK, Asked, Consumed, ConfirmedOnce

\* The stores and the service keep their types, for every number of updates
\* and continuations (the schemas of telegram_state.py, telegram_confirmations).
THEOREM RemoteTypes == Spec => []TypeOK
<1>1. IInv /\ [Next]_vars => IInv'
    BY StepStores, StepBatch, StepConfirmations, StutterIInv DEF IInv
<1> QED
    BY <1>1, InitIInv, PTL DEF Spec, IInv

\* A confirmed mutation is begun at most once, and only after the operator was
\* told of it and its confirmation was consumed: whatever is redelivered,
\* confirmed twice, or cut off by a crash (consume_confirmation).
THEOREM MutationOnce == Spec => []ConfirmedOnce
<1>1. IInv /\ [Next]_vars => IInv'
    BY StepStores, StepBatch, StepConfirmations, StutterIInv DEF IInv
<1> QED
    BY <1>1, InitIInv, PTL DEF Spec, IInv

\* A stored response leaves the store only after it reached the operator
\* (persist_pending_with_offset, mark_delivered).
THEOREM StoredAnswersAreKept == Spec => AnswersAreKept
<1>1. ASSUME [Next]_vars PROVE \A u \in answers \ answers' : u \in told'
    <2>1. CASE RetryPending \/ SendAnswer
        BY <2>1 DEF RetryPending, SendAnswer, Sending
    <2>2. CASE PersistAnswer
        BY <2>2 DEF PersistAnswer
    <2>3. ASSUME UNCHANGED answers PROVE \A u \in answers \ answers' : u \in told'
        BY <2>3
    <2>4. CASE Start \/ Poll \/ RejectUpdate \/ ReserveFails \/ Reserve \/ AnswerOnly
               \/ CreateConfirmation \/ CancelConfirmation \/ ConsumeConfirmation
        BY <2>3, <2>4 DEF Start, Poll, RejectUpdate, ReserveFails, Rejected, Reserve, AnswerOnly,
                          CreateConfirmation, CancelConfirmation, ConsumeConfirmation, stores
    <2>5. CASE CheckTarget \/ Control \/ RunDrill \/ RecordResult \/ Crash \/ CampaignChanges
        BY <2>3, <2>5 DEF CheckTarget, Control, RunDrill, RecordResult, Crash, CampaignChanges, stores
    <2>6. CASE UNCHANGED vars
        BY <2>3, <2>6 DEF vars, stores
    <2> QED
        BY <1>1, <2>1, <2>2, <2>4, <2>5, <2>6 DEF Next
<1> QED
    BY <1>1, PTL DEF Spec, AnswersAreKept

-----------------------------------------------------------------------------
(* The report of a backtest.                                               *)

\* The states a lifecycle row can have.
RowStates ==
    RejectedStates \cup
    {"SIGNAL_CREATED", "SIGNAL_ACCEPTED", "WAITING_ENTRY_ZONE", "ENTRY_TIMEOUT", "ENTRY_TRIGGERED",
     "ORDER_PLACED", "POSITION_OPENED", "POSITION_CLOSED"}

LifecycleRows == [symbol : Nat, candle : Nat, state : RowStates]

ReplayTypes ==
    /\ symbol \in Nat /\ candle \in Nat
    /\ rows \in Seq(LifecycleRows)
    /\ \E T : trades \in Seq(T)
    /\ rejects \in Nat

\* The replay has left every candle that has rows.
RowsAreBefore ==
    \A n \in DOMAIN rows :
        rows[n].symbol < symbol \/ (rows[n].symbol = symbol /\ rows[n].candle < candle)

FilledTrades == {n \in DOMAIN trades : Filled(trades[n])}
Untriggered == Signals({"WAITING_ENTRY_ZONE"}) \ (Signals({"ENTRY_TRIGGERED"}) \cup Signals({"ORDER_PLACED"}))

\* What the rows say, in the terms of the trades and the rejected records.
RowsAddUp ==
    /\ ExportIsSound
    /\ rejectionCounts = rejects
    /\ Cardinality(Signals({"SIGNAL_CREATED", "SYMBOL_REJECTED"})) = rejects + Len(trades)
    /\ Cardinality(Signals({"ORDER_PLACED"})) = Cardinality(FilledTrades)
    /\ Cardinality(Untriggered) + Cardinality(FilledTrades) = Len(trades)

ReplayInv == ReplayTypes /\ RowsAreBefore /\ RowsAddUp

\* The states of the rows that one decision appends.
Among(states) == {states[n] : n \in 1 .. Len(states)}

-----------------------------------------------------------------------------
\* The rows of one decision follow the rows there are.
LEMMA RowsGrow ==
    ASSUME ReplayTypes, NEW states \in Seq(RowStates), AppendRows(states)
    PROVE  /\ rows' \in Seq(LifecycleRows)
           /\ Len(rows') = Len(rows) + Len(states)
           /\ \A n \in 1 .. Len(rows) : rows'[n] = rows[n]
           /\ \A n \in 1 .. Len(states) : rows'[Len(rows) + n] = LifecycleRow(states[n])
<1> DEFINE more == [n \in 1 .. Len(states) |-> LifecycleRow(states[n])]
<1>1. more \in Seq(LifecycleRows) /\ Len(more) = Len(states)
    BY DEF ReplayTypes, LifecycleRow, LifecycleRows
<1>2. rows \in Seq(LifecycleRows)
    BY DEF ReplayTypes
<1>3. rows' = rows \o more
    BY DEF AppendRows
<1> HIDE DEF more
<1>4. /\ rows \o more \in Seq(LifecycleRows)
      /\ Len(rows \o more) = Len(rows) + Len(more)
      /\ \A i \in 1 .. Len(rows) + Len(more) :
            (rows \o more)[i] = IF i <= Len(rows) THEN rows[i] ELSE more[i - Len(rows)]
    BY <1>1, <1>2, ConcatProperties
<1>5. Len(rows) \in Nat /\ Len(states) \in Nat
    BY <1>2
<1>6. ASSUME NEW n \in 1 .. Len(states)
      PROVE  rows'[Len(rows) + n] = LifecycleRow(states[n])
  <2>1. rows'[Len(rows) + n] = more[Len(rows) + n - Len(rows)]
      BY <1>1, <1>3, <1>4, <1>5
  <2>2. (Len(rows) + n) - Len(rows) = n
      BY <1>5
  <2> QED BY <2>1, <2>2 DEF more
<1> QED BY <1>1, <1>3, <1>4, <1>5, <1>6

\* Which rows have one of the states S then.
LEMMA WithGrows ==
    ASSUME ReplayTypes, NEW states \in Seq(RowStates), AppendRows(states), NEW S
    PROVE  With(S)' = With(S) \cup {Len(rows) + n : n \in {m \in 1 .. Len(states) : states[m] \in S}}
<1>1. /\ rows' \in Seq(LifecycleRows)
      /\ Len(rows') = Len(rows) + Len(states)
      /\ \A n \in 1 .. Len(rows) : rows'[n] = rows[n]
      /\ \A n \in 1 .. Len(states) : rows'[Len(rows) + n] = LifecycleRow(states[n])
    BY RowsGrow
<1>2. rows \in Seq(LifecycleRows) /\ Len(rows) \in Nat /\ Len(states) \in Nat
    BY DEF ReplayTypes
<1>3. DOMAIN rows' = 1 .. Len(rows) + Len(states) /\ DOMAIN rows = 1 .. Len(rows)
    BY <1>1, <1>2
<1>4. ASSUME NEW n \in 1 .. Len(states)
      PROVE  rows'[Len(rows) + n].state = states[n]
  <2>1. rows'[Len(rows) + n] = LifecycleRow(states[n])
      BY <1>1
  <2> QED BY <2>1 DEF LifecycleRow
<1>5. ASSUME NEW k \in 1 .. Len(rows) + Len(states), k > Len(rows)
      PROVE  k - Len(rows) \in 1 .. Len(states) /\ k = Len(rows) + (k - Len(rows))
    BY <1>2, <1>5
<1>6. With(S)' \subseteq With(S) \cup {Len(rows) + n : n \in {m \in 1 .. Len(states) : states[m] \in S}}
  <2> SUFFICES ASSUME NEW k \in With(S)', k \notin With(S)
               PROVE  \E n \in {m \in 1 .. Len(states) : states[m] \in S} : k = Len(rows) + n
      OBVIOUS
  <2>1. k \in 1 .. Len(rows) + Len(states) /\ rows'[k].state \in S
      BY <1>3 DEF With
  <2>2. k > Len(rows)
      BY <2>1, <1>1, <1>2, <1>3 DEF With
  <2> QED BY <2>1, <2>2, <1>4, <1>5
<1>7. {Len(rows) + n : n \in {m \in 1 .. Len(states) : states[m] \in S}} \subseteq With(S)'
    BY <1>2, <1>3, <1>4 DEF With
<1>8. With(S) \subseteq With(S)'
    BY <1>1, <1>2, <1>3 DEF With
<1> QED BY <1>6, <1>7, <1>8

\* Which candles have one: this one too, if one of the rows has it.
LEMMA SignalsGrow ==
    ASSUME ReplayTypes, NEW states \in Seq(RowStates), AppendRows(states), NEW S
    PROVE  Signals(S)' = IF Among(states) \cap S # {} THEN Signals(S) \cup {Here} ELSE Signals(S)
<1>1. /\ Len(rows') = Len(rows) + Len(states)
      /\ \A n \in 1 .. Len(rows) : rows'[n] = rows[n]
      /\ \A n \in 1 .. Len(states) : rows'[Len(rows) + n] = LifecycleRow(states[n])
    BY RowsGrow
<1>2. With(S)' = With(S) \cup {Len(rows) + n : n \in {m \in 1 .. Len(states) : states[m] \in S}}
    BY WithGrows
<1>3. \A n \in With(S) : rows'[n] = rows[n]
    BY <1>1 DEF With, ReplayTypes
<1>4. ASSUME NEW n \in 1 .. Len(states)
      PROVE  <<rows'[Len(rows) + n].symbol, rows'[Len(rows) + n].candle>> = Here
  <2>1. rows'[Len(rows) + n] = LifecycleRow(states[n])
      BY <1>1
  <2> QED BY <2>1 DEF LifecycleRow, Here
<1>5. Signals(S)' = {<<rows'[n].symbol, rows'[n].candle>> : n \in With(S)'}
    BY DEF Signals
<1>6. Signals(S) = {<<rows'[n].symbol, rows'[n].candle>> : n \in With(S)}
    BY <1>3 DEF Signals
<1>7. CASE Among(states) \cap S # {}
  <2>1. PICK m \in 1 .. Len(states) : states[m] \in S
      BY <1>7 DEF Among
  <2> QED BY <2>1, <1>2, <1>4, <1>5, <1>6, <1>7
<1>8. CASE Among(states) \cap S = {}
  <2>1. {m \in 1 .. Len(states) : states[m] \in S} = {}
      BY <1>8 DEF Among
  <2> QED BY <2>1, <1>2, <1>5, <1>6, <1>8
<1> QED BY <1>7, <1>8

LEMMA SignalsFinite ==
    ASSUME ReplayTypes, NEW S
    PROVE  IsFiniteSet(With(S)) /\ IsFiniteSet(Signals(S))
<1>1. rows \in Seq(LifecycleRows) /\ Len(rows) \in Nat /\ DOMAIN rows = 1 .. Len(rows)
    BY DEF ReplayTypes
<1>2. IsFiniteSet(With(S))
  <2>1. IsFiniteSet(1 .. Len(rows))
      BY <1>1, FS_Interval
  <2>2. With(S) \in SUBSET (1 .. Len(rows))
      BY <1>1 DEF With
  <2> QED BY <2>1, <2>2, FS_Subset
<1> DEFINE f == [n \in With(S) |-> <<rows[n].symbol, rows[n].candle>>]
<1>3. f \in Surjection(With(S), Signals(S))
    BY DEF Surjection, Signals
<1>4. IsFiniteSet(Signals(S))
    BY <1>2, <1>3, FS_Surjection
<1> QED BY <1>2, <1>4

\* This candle has no rows yet.
LEMMA NoRowsYet ==
    ASSUME ReplayTypes, RowsAreBefore, NEW S
    PROVE  Here \notin Signals(S)
<1> SUFFICES ASSUME NEW n \in With(S), Here = <<rows[n].symbol, rows[n].candle>>
             PROVE  FALSE
    BY DEF Signals
<1>1. rows[n].symbol = symbol /\ rows[n].candle = candle
    BY DEF Here
<1>2. n \in DOMAIN rows
    BY DEF With
<1> QED BY <1>1, <1>2 DEF ReplayTypes, RowsAreBefore

\* Going on to the next candle leaves the rows of this one behind.
LEMMA RowsStayBehind ==
    ASSUME ReplayTypes, RowsAreBefore, NextCandle, NEW states \in Seq(RowStates), AppendRows(states)
    PROVE  symbol' \in Nat /\ candle' \in Nat /\ RowsAreBefore'
<1>1. /\ Len(rows') = Len(rows) + Len(states)
      /\ rows' \in Seq(LifecycleRows)
      /\ \A n \in 1 .. Len(rows) : rows'[n] = rows[n]
      /\ \A n \in 1 .. Len(states) : rows'[Len(rows) + n] = LifecycleRow(states[n])
    BY RowsGrow
<1>2. /\ symbol \in Nat /\ candle \in Nat /\ symbol' \in Nat /\ candle' \in Nat
      /\ symbol < symbol' \/ (symbol = symbol' /\ candle < candle')
  <2>1. symbol \in Nat /\ candle \in Nat
      BY DEF ReplayTypes
  <2>2. CASE candle < Candles
      BY <2>1, <2>2 DEF NextCandle
  <2>3. CASE ~(candle < Candles)
      BY <2>1, <2>3 DEF NextCandle
  <2> QED BY <2>2, <2>3
<1>3. rows \in Seq(LifecycleRows) /\ Len(rows) \in Nat /\ Len(states) \in Nat
    BY DEF ReplayTypes
<1>4. ASSUME NEW k \in DOMAIN rows'
      PROVE  rows'[k].symbol < symbol' \/ (rows'[k].symbol = symbol' /\ rows'[k].candle < candle')
  <2>1. k \in 1 .. Len(rows) + Len(states)
      BY <1>1
  <2>2. CASE k <= Len(rows)
    <3>1. k \in DOMAIN rows /\ rows'[k] = rows[k] /\ rows[k] \in LifecycleRows
        BY <2>1, <2>2, <1>1, <1>3
    <3>2. rows[k].symbol \in Nat /\ rows[k].candle \in Nat
        BY <3>1 DEF LifecycleRows
    <3> QED BY <3>1, <3>2, <1>2 DEF RowsAreBefore
  <2>3. CASE k > Len(rows)
    <3>1. k - Len(rows) \in 1 .. Len(states) /\ k = Len(rows) + (k - Len(rows))
        BY <2>1, <2>3, <1>3
    <3>2. rows'[k] = LifecycleRow(states[k - Len(rows)])
        BY <3>1, <1>1
    <3> QED BY <3>2, <1>2 DEF LifecycleRow
  <2> QED BY <2>1, <2>2, <2>3, <1>3
<1> QED BY <1>2, <1>4 DEF RowsAreBefore

\* What verify_export_integrity asks of the signals survives a decision that
\* either rejects the symbol or creates a signal and goes on with it.
LEMMA SignalsStaySound ==
    ASSUME ReplayInv, NEW states \in Seq(RowStates), AppendRows(states),
           "SIGNAL_CREATED" \in Among(states) =>
               "SYMBOL_REJECTED" \notin Among(states) /\ Among(states) # {"SIGNAL_CREATED"}
    PROVE  /\ Signals({"SYMBOL_REJECTED"})' \cap Signals({"SIGNAL_CREATED"})' = {}
           /\ \A s \in Signals({"SIGNAL_CREATED"})' :
                 \E n \in DOMAIN rows' : <<rows'[n].symbol, rows'[n].candle>> = s
                                         /\ rows'[n].state # "SIGNAL_CREATED"
<1>1. /\ Len(rows') = Len(rows) + Len(states)
      /\ rows' \in Seq(LifecycleRows)
      /\ \A n \in 1 .. Len(rows) : rows'[n] = rows[n]
      /\ \A n \in 1 .. Len(states) : rows'[Len(rows) + n] = LifecycleRow(states[n])
    BY RowsGrow DEF ReplayInv
<1>2. \A S : Signals(S)' = IF Among(states) \cap S # {} THEN Signals(S) \cup {Here} ELSE Signals(S)
    BY SignalsGrow DEF ReplayInv
<1>3. \A S : Here \notin Signals(S)
    BY NoRowsYet DEF ReplayInv
<1>4. rows \in Seq(LifecycleRows) /\ Len(rows) \in Nat /\ Len(states) \in Nat
    BY DEF ReplayInv, ReplayTypes
<1>5. Signals({"SYMBOL_REJECTED"}) \cap Signals({"SIGNAL_CREATED"}) = {}
    BY DEF ReplayInv, RowsAddUp, ExportIsSound
<1>6. Signals({"SYMBOL_REJECTED"})' \cap Signals({"SIGNAL_CREATED"})' = {}
    BY <1>2, <1>3, <1>5
<1>7. ASSUME NEW s \in Signals({"SIGNAL_CREATED"})
      PROVE  \E n \in DOMAIN rows' : <<rows'[n].symbol, rows'[n].candle>> = s
                                     /\ rows'[n].state # "SIGNAL_CREATED"
  <2>1. PICK n \in DOMAIN rows : <<rows[n].symbol, rows[n].candle>> = s /\ rows[n].state # "SIGNAL_CREATED"
      BY DEF ReplayInv, RowsAddUp, ExportIsSound
  <2>2. n \in DOMAIN rows' /\ rows'[n] = rows[n]
      BY <1>1, <1>4
  <2> QED BY <2>1, <2>2
<1>8. ASSUME "SIGNAL_CREATED" \in Among(states)
      PROVE  \E n \in DOMAIN rows' : <<rows'[n].symbol, rows'[n].candle>> = Here
                                     /\ rows'[n].state # "SIGNAL_CREATED"
  <2>1. PICK m \in 1 .. Len(states) : states[m] # "SIGNAL_CREATED"
      BY <1>8 DEF Among
  <2>2. rows'[Len(rows) + m] = LifecycleRow(states[m])
      BY <1>1
  <2>3. Len(rows) + m \in DOMAIN rows'
    <3>1. DOMAIN rows' = 1 .. Len(rows) + Len(states)
        BY <1>1
    <3> QED BY <1>4, <3>1
  <2> QED BY <2>1, <2>2, <2>3 DEF LifecycleRow, Here
<1> QED BY <1>2, <1>6, <1>7, <1>8

LEMMA Adding ==
    ASSUME NEW S, IsFiniteSet(S), NEW x, x \notin S
    PROVE  Cardinality(S) \in Nat /\ Cardinality(S \cup {x}) = Cardinality(S) + 1
  BY FS_AddElement, FS_CardinalityType

\* The rows a refusal appends.
Refusals == {<<"SYMBOL_REJECTED">>} \cup {<<"SIGNAL_CREATED", s>> : s \in {"SIGNAL_REJECTED", "ORDER_REJECTED"}}

LEMMA RefusalStates ==
    ASSUME NEW states \in Refusals
    PROVE  /\ states \in Seq(RowStates)
           /\ Len(states) \in Nat \ {0}
           /\ {m \in 1 .. Len(states) : states[m] \in RejectedStates} = {Len(states)}
           /\ \/ Among(states) = {"SYMBOL_REJECTED"}
              \/ \E s \in {"SIGNAL_REJECTED", "ORDER_REJECTED"} : Among(states) = {"SIGNAL_CREATED", s}
<1>1. CASE states = <<"SYMBOL_REJECTED">>
  <2>1. Len(states) = 1 /\ states[1] = "SYMBOL_REJECTED"
      BY <1>1
  <2>2. Among(states) = {"SYMBOL_REJECTED"}
      BY <2>1 DEF Among
  <2>3. {m \in 1 .. Len(states) : states[m] \in RejectedStates} = {Len(states)}
      BY <2>1 DEF RejectedStates
  <2>4. "SYMBOL_REJECTED" \in RowStates
      BY DEF RowStates, RejectedStates
  <2>5. states \in Seq(RowStates)
      BY <1>1, <2>4
  <2> QED BY <2>1, <2>2, <2>3, <2>5
<1>2. ASSUME NEW s \in {"SIGNAL_REJECTED", "ORDER_REJECTED"}, states = <<"SIGNAL_CREATED", s>>
      PROVE  /\ states \in Seq(RowStates) /\ Len(states) = 2
             /\ {m \in 1 .. Len(states) : states[m] \in RejectedStates} = {2}
             /\ Among(states) = {"SIGNAL_CREATED", s}
  <2>1. Len(states) = 2 /\ states[1] = "SIGNAL_CREATED" /\ states[2] = s /\ 1 .. 2 = {1, 2}
      BY <1>2
  <2>2. Among(states) = {"SIGNAL_CREATED", s}
      BY <2>1 DEF Among
  <2>3. "SIGNAL_CREATED" \notin RejectedStates /\ s \in RejectedStates
      BY DEF RejectedStates
  <2>4. {m \in 1 .. Len(states) : states[m] \in RejectedStates} = {2}
      BY <2>1, <2>3
  <2>5. "SIGNAL_CREATED" \in RowStates /\ s \in RowStates
      BY DEF RowStates, RejectedStates
  <2>6. states \in Seq(RowStates)
      BY <1>2, <2>5
  <2> QED BY <2>1, <2>2, <2>4, <2>6
<1> QED BY <1>1, <1>2 DEF Refusals

\* A refusal is one rejected row, and one signal without a trade.
LEMMA RejectAddsUp ==
    ASSUME ReplayInv, NextCandle, NEW states \in Refusals, Reject(states)
    PROVE  ReplayInv'
<1>1. states \in Seq(RowStates) /\ AppendRows(states) /\ Len(states) \in Nat \ {0}
    BY RefusalStates DEF Reject
<1>2. /\ rejects \in Nat /\ rejectionCounts = rejects
      /\ rejects' = rejects + 1 /\ rejectionCounts' = rejectionCounts + 1 /\ trades' = trades
    BY DEF Reject, ReplayInv, ReplayTypes, RowsAddUp
<1>3. /\ Among(states) \cap {"ORDER_PLACED"} = {}
      /\ Among(states) \cap {"WAITING_ENTRY_ZONE"} = {}
      /\ Among(states) \cap {"ENTRY_TRIGGERED"} = {}
      /\ Among(states) \cap {"SIGNAL_CREATED", "SYMBOL_REJECTED"} # {}
      /\ "SIGNAL_CREATED" \in Among(states) =>
             "SYMBOL_REJECTED" \notin Among(states) /\ Among(states) # {"SIGNAL_CREATED"}
  <2>1. CASE Among(states) = {"SYMBOL_REJECTED"}
      BY <2>1
  <2>2. ASSUME NEW s \in {"SIGNAL_REJECTED", "ORDER_REJECTED"}, Among(states) = {"SIGNAL_CREATED", s}
        PROVE  <1>3
    <3>1. s # "SIGNAL_CREATED" /\ s \notin {"ORDER_PLACED", "WAITING_ENTRY_ZONE", "ENTRY_TRIGGERED", "SYMBOL_REJECTED"}
        OBVIOUS
    <3> QED BY <2>2, <3>1
  <2> QED BY <2>1, <2>2, RefusalStates
<1>4. {m \in 1 .. Len(states) : states[m] \in RejectedStates} = {Len(states)}
    BY RefusalStates
<1>5. ReplayTypes'
    BY <1>1, <1>2, RowsGrow, RowsStayBehind DEF ReplayInv, ReplayTypes
<1>6. RowsAreBefore'
    BY <1>1, RowsStayBehind DEF ReplayInv
<1>7. Cardinality(With(RejectedStates)') = rejects'
  <2>1. With(RejectedStates)' = With(RejectedStates) \cup {Len(rows) + Len(states)}
      BY <1>1, <1>4, WithGrows DEF ReplayInv
  <2>2. Len(rows) + Len(states) \notin With(RejectedStates)
      BY <1>1, <1>4 DEF With, ReplayInv, ReplayTypes
  <2>3. IsFiniteSet(With(RejectedStates)) /\ Cardinality(With(RejectedStates)) = rejects
      BY SignalsFinite DEF ReplayInv, RowsAddUp, ExportIsSound
  <2> QED BY <2>1, <2>2, <2>3, <1>2, Adding
<1>8. ExportIsSound'
    BY <1>1, <1>3, <1>7, SignalsStaySound DEF ExportIsSound
<1>9. /\ Signals({"SIGNAL_CREATED", "SYMBOL_REJECTED"})' = Signals({"SIGNAL_CREATED", "SYMBOL_REJECTED"}) \cup {Here}
      /\ Signals({"ORDER_PLACED"})' = Signals({"ORDER_PLACED"})
      /\ Signals({"WAITING_ENTRY_ZONE"})' = Signals({"WAITING_ENTRY_ZONE"})
      /\ Signals({"ENTRY_TRIGGERED"})' = Signals({"ENTRY_TRIGGERED"})
    BY <1>1, <1>3, SignalsGrow DEF ReplayInv
<1>10. Cardinality(Signals({"SIGNAL_CREATED", "SYMBOL_REJECTED"})') = rejects' + Len(trades')
  <2>1. Here \notin Signals({"SIGNAL_CREATED", "SYMBOL_REJECTED"})
        /\ IsFiniteSet(Signals({"SIGNAL_CREATED", "SYMBOL_REJECTED"}))
      BY NoRowsYet, SignalsFinite DEF ReplayInv
  <2>2. Cardinality(Signals({"SIGNAL_CREATED", "SYMBOL_REJECTED"})) = rejects + Len(trades)
      BY DEF ReplayInv, RowsAddUp
  <2>3. Len(trades) \in Nat
      BY DEF ReplayInv, ReplayTypes
  <2> QED BY <1>2, <1>9, <2>1, <2>2, <2>3, Adding
<1>11. FilledTrades' = FilledTrades /\ Untriggered' = Untriggered
    BY <1>2, <1>9 DEF FilledTrades, Untriggered, Filled
<1>12. RowsAddUp'
    BY <1>2, <1>8, <1>9, <1>10, <1>11 DEF RowsAddUp, ReplayInv
<1> QED BY <1>5, <1>6, <1>12 DEF ReplayInv

\* The rows of a simulated trade: of a filled one also an order and a position.
LEMMA SimulatedStates ==
    ASSUME NEW t
    PROVE  /\ SimulatedRows(t) \in Seq(RowStates)
           /\ Among(SimulatedRows(t)) =
                 {"SIGNAL_CREATED", "SIGNAL_ACCEPTED", "WAITING_ENTRY_ZONE"} \cup
                 IF Filled(t) THEN {"ENTRY_TRIGGERED", "ORDER_PLACED", "POSITION_OPENED", "POSITION_CLOSED"}
                              ELSE {"ENTRY_TIMEOUT"}
<1> DEFINE head == <<"SIGNAL_CREATED", "SIGNAL_CREATED", "SIGNAL_ACCEPTED", "WAITING_ENTRY_ZONE">>
           tail == IF Filled(t) THEN <<"ENTRY_TRIGGERED", "ORDER_PLACED", "POSITION_OPENED", "POSITION_CLOSED">>
                                ELSE <<"ENTRY_TIMEOUT">>
<1>1. head \in Seq(RowStates) /\ tail \in Seq(RowStates) /\ Len(head) = 4
  <2>1. /\ \A s \in {"SIGNAL_CREATED", "SIGNAL_ACCEPTED", "WAITING_ENTRY_ZONE"} : s \in RowStates
        /\ \A s \in {"ENTRY_TRIGGERED", "ORDER_PLACED", "POSITION_OPENED", "POSITION_CLOSED", "ENTRY_TIMEOUT"} :
              s \in RowStates
      BY DEF RowStates
  <2>2. head \in Seq(RowStates) /\ Len(head) = 4
      BY <2>1
  <2>3. tail \in Seq(RowStates)
    <3>1. CASE Filled(t)
        BY <2>1, <3>1
    <3>2. CASE ~Filled(t)
        BY <2>1, <3>2
    <3> QED BY <3>1, <3>2
  <2> QED BY <2>2, <2>3
<1>2. Among(head) = {"SIGNAL_CREATED", "SIGNAL_ACCEPTED", "WAITING_ENTRY_ZONE"}
    BY DEF Among
<1>3. Among(tail) = IF Filled(t) THEN {"ENTRY_TRIGGERED", "ORDER_PLACED", "POSITION_OPENED", "POSITION_CLOSED"}
                                 ELSE {"ENTRY_TIMEOUT"}
    BY DEF Among
<1>4. SimulatedRows(t) = head \o tail
    BY DEF SimulatedRows
<1> HIDE DEF head, tail
<1>5. /\ head \o tail \in Seq(RowStates)
      /\ Len(head \o tail) = Len(head) + Len(tail)
      /\ \A i \in 1 .. Len(head) + Len(tail) :
            (head \o tail)[i] = IF i <= Len(head) THEN head[i] ELSE tail[i - Len(head)]
    BY <1>1, ConcatProperties
<1>6. Len(tail) \in Nat
    BY <1>1
<1>7. Among(head \o tail) \subseteq Among(head) \cup Among(tail)
    BY <1>1, <1>5, <1>6 DEF Among
<1>8. Among(head) \subseteq Among(head \o tail)
    BY <1>1, <1>5, <1>6 DEF Among
<1>9. ASSUME NEW i \in 1 .. Len(tail)
      PROVE  tail[i] \in Among(head \o tail)
  <2>1. 4 + i \in 1 .. Len(head) + Len(tail) /\ (4 + i) - 4 = i /\ ~(4 + i <= 4)
      BY <1>1, <1>6
  <2>2. (head \o tail)[4 + i] = tail[i]
      BY <2>1, <1>1, <1>5
  <2> QED BY <2>1, <2>2, <1>5 DEF Among
<1>10. Among(tail) \subseteq Among(head \o tail)
    BY <1>9 DEF Among
<1> QED BY <1>2, <1>3, <1>4, <1>5, <1>7, <1>8, <1>10

\* A simulated trade is one signal without a rejection, placed or untriggered.
LEMMA BuyAddsUp ==
    ASSUME ReplayInv, NextCandle, NEW how, Buy(how)
    PROVE  ReplayInv'
<1>1. PICK t \in Simulated(how) : trades' = Append(trades, t) /\ AppendRows(SimulatedRows(t))
    BY DEF Buy
<1>2. /\ rejects \in Nat /\ rejectionCounts = rejects /\ rejects' = rejects /\ rejectionCounts' = rejectionCounts
    BY DEF Buy, ReplayInv, ReplayTypes, RowsAddUp
<1> DEFINE states == SimulatedRows(t)
           found == {"SIGNAL_CREATED", "SYMBOL_REJECTED"}
<1>3. /\ states \in Seq(RowStates)
      /\ Among(states) =
            {"SIGNAL_CREATED", "SIGNAL_ACCEPTED", "WAITING_ENTRY_ZONE"} \cup
            IF Filled(t) THEN {"ENTRY_TRIGGERED", "ORDER_PLACED", "POSITION_OPENED", "POSITION_CLOSED"}
                         ELSE {"ENTRY_TIMEOUT"}
    BY SimulatedStates
<1>4. AppendRows(states)
    BY <1>1
<1> HIDE DEF states
<1>5. /\ Len(trades) \in Nat
      /\ (\E T : trades' \in Seq(T)) /\ Len(trades') = Len(trades) + 1
      /\ \A n \in 1 .. Len(trades) : trades'[n] = trades[n]
      /\ trades'[Len(trades) + 1] = t
      /\ DOMAIN trades = 1 .. Len(trades) /\ DOMAIN trades' = 1 .. Len(trades) + 1
  <2>1. PICK T : trades \in Seq(T)
      BY DEF ReplayInv, ReplayTypes
  <2>2. trades \in Seq(T \cup {t}) /\ t \in T \cup {t}
      BY <2>1
  <2> HIDE <2>1
  <2>3. /\ Append(trades, t) \in Seq(T \cup {t})
        /\ Len(Append(trades, t)) = Len(trades) + 1
        /\ \A i \in 1 .. Len(trades) : Append(trades, t)[i] = trades[i]
        /\ Append(trades, t)[Len(trades) + 1] = t
      BY <2>2, AppendProperties
  <2> QED BY <1>1, <2>2, <2>3
<1>6. ReplayTypes'
    BY <1>2, <1>3, <1>4, <1>5, RowsGrow, RowsStayBehind DEF ReplayInv, ReplayTypes
<1>7. RowsAreBefore'
    BY <1>3, <1>4, RowsStayBehind DEF ReplayInv
<1>8. Cardinality(With(RejectedStates)') = rejects'
  <2>1. Among(states) \cap RejectedStates = {}
      BY <1>3 DEF RejectedStates
  <2>2. {m \in 1 .. Len(states) : states[m] \in RejectedStates} = {}
      BY <2>1 DEF Among
  <2>3. With(RejectedStates)' =
            With(RejectedStates) \cup {Len(rows) + n : n \in {m \in 1 .. Len(states) : states[m] \in RejectedStates}}
      BY <1>3, <1>4, WithGrows DEF ReplayInv
  <2>4. With(RejectedStates)' = With(RejectedStates)
      BY <2>2, <2>3
  <2> QED BY <1>2, <2>4 DEF ReplayInv, RowsAddUp, ExportIsSound
<1>9. "SYMBOL_REJECTED" \notin Among(states) /\ Among(states) # {"SIGNAL_CREATED"}
    BY <1>3
<1>10. ExportIsSound'
    BY <1>3, <1>4, <1>8, <1>9, SignalsStaySound DEF ExportIsSound
<1>11. /\ Signals(found)' = Signals(found) \cup {Here}
       /\ Signals({"WAITING_ENTRY_ZONE"})' = Signals({"WAITING_ENTRY_ZONE"}) \cup {Here}
       /\ Filled(t) => Signals({"ORDER_PLACED"})' = Signals({"ORDER_PLACED"}) \cup {Here}
       /\ Filled(t) => Signals({"ENTRY_TRIGGERED"})' = Signals({"ENTRY_TRIGGERED"}) \cup {Here}
       /\ ~Filled(t) => Signals({"ORDER_PLACED"})' = Signals({"ORDER_PLACED"})
       /\ ~Filled(t) => Signals({"ENTRY_TRIGGERED"})' = Signals({"ENTRY_TRIGGERED"})
  <2>1. \A S : Signals(S)' = IF Among(states) \cap S # {} THEN Signals(S) \cup {Here} ELSE Signals(S)
      BY <1>3, <1>4, SignalsGrow DEF ReplayInv
  <2>2. Among(states) \cap found # {} /\ Among(states) \cap {"WAITING_ENTRY_ZONE"} # {}
      BY <1>3
  <2>3. /\ (Among(states) \cap {"ORDER_PLACED"} # {}) <=> Filled(t)
        /\ (Among(states) \cap {"ENTRY_TRIGGERED"} # {}) <=> Filled(t)
      BY <1>3
  <2> QED BY <2>1, <2>2, <2>3
<1>12. \A S : Here \notin Signals(S) /\ IsFiniteSet(Signals(S))
    BY NoRowsYet, SignalsFinite DEF ReplayInv
<1>13. Cardinality(Signals(found)') = rejects' + Len(trades')
  <2>1. Cardinality(Signals(found)) = rejects + Len(trades)
      BY DEF ReplayInv, RowsAddUp
  <2> QED BY <1>2, <1>5, <1>11, <1>12, <2>1, Adding
<1>14. /\ IsFiniteSet(FilledTrades) /\ Len(trades) + 1 \notin FilledTrades
       /\ FilledTrades' = IF Filled(t) THEN FilledTrades \cup {Len(trades) + 1} ELSE FilledTrades
  <2>1. IsFiniteSet(FilledTrades)
    <3>1. FilledTrades \in SUBSET (1 .. Len(trades)) /\ IsFiniteSet(1 .. Len(trades))
        BY <1>5, FS_Interval DEF FilledTrades
    <3> QED BY <3>1, FS_Subset
  <2>2. FilledTrades' = {n \in DOMAIN trades' : Filled(trades'[n])}
      BY DEF FilledTrades, Filled
  <2>3. Len(trades) + 1 \notin FilledTrades
      BY <1>5 DEF FilledTrades
  <2> QED BY <1>5, <2>1, <2>2, <2>3 DEF FilledTrades
<1>15. /\ Cardinality(Signals({"ORDER_PLACED"})) = Cardinality(FilledTrades)
       /\ Cardinality(Untriggered) + Cardinality(FilledTrades) = Len(trades)
       /\ Cardinality(FilledTrades) \in Nat /\ Cardinality(Untriggered) \in Nat
       /\ IsFiniteSet(Untriggered) /\ Here \notin Untriggered
  <2>1. Untriggered \in SUBSET Signals({"WAITING_ENTRY_ZONE"})
      BY DEF Untriggered
  <2>2. IsFiniteSet(Untriggered)
      BY <1>12, <2>1, FS_Subset
  <2> QED BY <1>12, <1>14, <2>1, <2>2, FS_CardinalityType DEF ReplayInv, RowsAddUp
<1>16. CASE Filled(t)
  <2>1. Untriggered' = Untriggered
      BY <1>11, <1>12, <1>16 DEF Untriggered
  <2>2. Cardinality(FilledTrades') = Cardinality(FilledTrades) + 1
      BY <1>14, <1>16, Adding
  <2>3. Cardinality(Signals({"ORDER_PLACED"})') = Cardinality(Signals({"ORDER_PLACED"})) + 1
      BY <1>11, <1>12, <1>16, Adding
  <2> QED BY <1>2, <1>5, <1>6, <1>7, <1>10, <1>13, <1>15, <2>1, <2>2, <2>3 DEF ReplayInv, RowsAddUp
<1>17. CASE ~Filled(t)
  <2>1. Untriggered' = Untriggered \cup {Here}
      BY <1>11, <1>12, <1>17 DEF Untriggered
  <2>2. Cardinality(Untriggered') = Cardinality(Untriggered) + 1
      BY <1>15, <2>1, Adding
  <2>3. FilledTrades' = FilledTrades /\ Signals({"ORDER_PLACED"})' = Signals({"ORDER_PLACED"})
      BY <1>11, <1>14, <1>17
  <2> QED BY <1>2, <1>5, <1>6, <1>7, <1>10, <1>13, <1>15, <2>2, <2>3 DEF ReplayInv, RowsAddUp
<1> QED BY <1>16, <1>17

LEMMA ReplayStep ==
    ASSUME ReplayInv, [ReplayNext]_replayVars
    PROVE  ReplayInv'
<1>1. \A s \in {"SIGNAL_REJECTED", "ORDER_REJECTED"} : <<"SIGNAL_CREATED", s>> \in Refusals
    BY DEF Refusals
<1>2. CASE SelectorRejects
    BY <1>2, RejectAddsUp DEF SelectorRejects, Refusals
<1>3. CASE PortfolioOrGuardrailRejects
    BY <1>1, <1>3, RejectAddsUp DEF PortfolioOrGuardrailRejects
<1>4. CASE BaselineAccepts
    BY <1>4, BuyAddsUp DEF BaselineAccepts
<1>5. ASSUME NEW rule \in Rules, ScanRejects(rule)
      PROVE  ReplayInv'
    BY <1>1, <1>5, RejectAddsUp, BuyAddsUp DEF ScanRejects, RefuseOrRescue
<1>6. ASSUME NEW rule \in Rules, ExecutionRejects(rule)
      PROVE  ReplayInv'
    BY <1>1, <1>6, RejectAddsUp, BuyAddsUp DEF ExecutionRejects, RefuseOrRescue
<1>7. CASE UNCHANGED replayVars
    BY <1>7 DEF replayVars, ReplayInv, ReplayTypes, RowsAreBefore, RowsAddUp, ExportIsSound,
                FilledTrades, Untriggered, Signals, With
<1> QED BY <1>2, <1>3, <1>4, <1>5, <1>6, <1>7 DEF ReplayNext

\* Whatever the selector, the scan, the rescue rules and the portfolio decide
\* on any number of candles of any number of symbols, the numbers derived from
\* the lifecycle rows are those of the trades and the rejections
\* (_derive_backtest_counts, verify_export_integrity).
THEOREM ReportAddsUp == ReplaySpec => []ReplayAddsUp
<1>1. ReplayInit => ReplayInv
  <2> SUFFICES ASSUME ReplayInit PROVE ReplayInv
      OBVIOUS
  <2>1. rows = <<>> /\ trades = <<>> /\ rejects = 0 /\ rejectionCounts = 0 /\ symbol = 1 /\ candle = 1
      BY DEF ReplayInit
  <2>2. \A S : With(S) = {} /\ Signals(S) = {}
      BY <2>1 DEF With, Signals
  <2>3. FilledTrades = {} /\ Untriggered = {}
      BY <2>1, <2>2 DEF FilledTrades, Untriggered
  <2>4. Cardinality({}) = 0
      BY FS_EmptySet
  <2>5. ReplayTypes /\ RowsAreBefore
      BY <2>1 DEF ReplayTypes, RowsAreBefore
  <2>6. ExportIsSound
      BY <2>1, <2>2, <2>4 DEF ExportIsSound
  <2>7. /\ Signals({"SIGNAL_CREATED", "SYMBOL_REJECTED"}) = {} /\ Signals({"ORDER_PLACED"}) = {}
        /\ Len(trades) = 0
      BY <2>1, <2>2
  <2>8. RowsAddUp
    <3>1. Cardinality(Signals({"SIGNAL_CREATED", "SYMBOL_REJECTED"})) = rejects + Len(trades)
      <4>1. rejects + Len(trades) = 0
          BY <2>1, <2>7
      <4> QED BY <2>4, <2>7, <4>1
    <3>2. Cardinality(Signals({"ORDER_PLACED"})) = Cardinality(FilledTrades)
        BY <2>3, <2>7
    <3>3. Cardinality(Untriggered) + Cardinality(FilledTrades) = Len(trades)
        BY <2>3, <2>4, <2>7
    <3> QED BY <2>1, <2>6, <3>1, <3>2, <3>3 DEF RowsAddUp
  <2> QED BY <2>5, <2>8 DEF ReplayInv
<1>2. ReplayInv => ReplayAddsUp
  <2> SUFFICES ASSUME ReplayInv PROVE ReplayAddsUp
      OBVIOUS
  <2>1. Len(trades) \in Nat /\ IsFiniteSet(FilledTrades) /\ rejects \in Nat
    <3>1. Len(trades) \in Nat /\ FilledTrades \in SUBSET (1 .. Len(trades)) /\ rejects \in Nat
        BY DEF FilledTrades, ReplayInv, ReplayTypes
    <3>2. IsFiniteSet(1 .. Len(trades))
        BY <3>1, FS_Interval
    <3> QED BY <3>1, <3>2, FS_Subset
  <2>2. IsFiniteSet(Untriggered)
    <3>1. Untriggered \in SUBSET Signals({"WAITING_ENTRY_ZONE"})
        BY DEF Untriggered
    <3> QED BY <3>1, SignalsFinite, FS_Subset DEF ReplayInv
  <2>3. Cardinality(FilledTrades) \in Nat /\ Cardinality(Untriggered) \in Nat
      BY <2>1, <2>2, FS_CardinalityType
  <2>4. DerivedCounts.rejected = rejects
      BY DEF DerivedCounts, ReplayInv, RowsAddUp, ExportIsSound
  <2>5. DerivedCounts.accepted = Len(trades)
      BY <2>1 DEF DerivedCounts, ReplayInv, RowsAddUp, ExportIsSound
  <2>6. DerivedCounts.orders = Cardinality(FilledTrades)
      BY DEF DerivedCounts, ReplayInv, RowsAddUp
  <2>7. DerivedCounts.notTriggered = Len(trades) - Cardinality(FilledTrades)
      BY <2>1, <2>3 DEF DerivedCounts, ReplayInv, RowsAddUp, Untriggered
  <2>8. DerivedCounts = [rejected |-> rejects, accepted |-> Len(trades), orders |-> Cardinality(FilledTrades),
                         notTriggered |-> Len(trades) - Cardinality(FilledTrades)]
      BY <2>4, <2>5, <2>6, <2>7 DEF DerivedCounts
  <2> QED BY <2>8 DEF ReplayAddsUp, ReplayInv, RowsAddUp, FilledTrades
<1>3. ReplayInv /\ [ReplayNext]_replayVars => ReplayInv'
    BY ReplayStep
<1> QED BY <1>1, <1>2, <1>3, PTL DEF ReplaySpec
==============================================================================

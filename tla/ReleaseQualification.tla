------------------------- MODULE ReleaseQualification -------------------------
(***************************************************************************)
(* The release evidence of a campaign and the verdict and decision drawn   *)
(* from it.  The evidence tools (release_ci_evidence,                      *)
(* release_safety_evidence, release_canary_evidence, release_operator_ack, *)
(* rollback_evidence) append rows to one database; a command that          *)
(* qualifies the campaign (qualify_campaign) or finalizes it (finalize)    *)
(* rebuilds the aggregate run, evaluates it and the release gate, and      *)
(* links the verdict to the campaign.                                      *)
(*                                                                         *)
(* Each tool and each command is a process of its own.  A row is written   *)
(* in one transaction; the reads of one evaluation and the writes of one   *)
(* command are separate transactions, so everything else may happen        *)
(* between them, and a process may die between any two.  The reads of the  *)
(* release gate itself follow each other at once and are one step.         *)
(*                                                                         *)
(* A campaign's evidence is the number of its last change, which stands    *)
(* for evidence_hash: evidence only grows, so a hash does not come back.   *)
(* Whether evidence of that number passes the statistical thresholds is a  *)
(* constant.  Of a row the gate looks at the last one of its kind (for the *)
(* canary: the last one that passed), which is all that is kept.           *)
(***************************************************************************)
EXTENDS Naturals

CONSTANTS
    Commands,       \* processes that qualify or finalize the campaign
    Commits,        \* git commits evidence is recorded for
    CampaignCommit, \* the commit of the campaign
    MaxEvidence,    \* bound: changes of the campaign's evidence
    Sufficient,     \* the evidence that meets every threshold of BurnInThresholds
    MaxToolRuns,    \* bound: runs of the evidence tools and trapped mutations
    NoRow           \* no row of a kind yet

ASSUME ReleaseAssumption ==
    /\ CampaignCommit \in Commits
    /\ MaxEvidence \in Nat /\ MaxToolRuns \in Nat
    /\ Sufficient \subseteq 0 .. MaxEvidence

VARIABLES
    ack,        \* the last operator acknowledgement: "none", "valid" or "void"
    mutated,    \* some canary event has mutation_attempted = 1
    canary,     \* the commit of the last CANARY_VALIDATION_PASS event
    drill,      \* the last measured rollback evidence
    rollback,   \* the last rollback verification
    runbook,    \* the last runbook evidence
    gateRow,    \* the evidence of the last persisted release snapshot
    tool,       \* the release snapshot each tool is making
    toolRuns,
    evidence,   \* the campaign's evidence
    aggregate,  \* the evidence the aggregate run was made from
    latest,     \* the snapshot latest_qualification_id names
    command,    \* what each command is doing
    decision    \* the last release decision, if it is for a canary review

evidenceVars == <<ack, mutated, canary, drill, rollback, runbook>>
releaseVars == <<evidenceVars, gateRow, tool, toolRuns, evidence, aggregate, latest, command, decision>>

Row(ok, commit) == [ok |-> ok, commit |-> commit]
Passed(row) == row # NoRow /\ row.ok
CommitOf(row) == IF row = NoRow THEN NoRow ELSE row.commit

NoTool == [pc |-> "idle", commit |-> CampaignCommit, tests |-> NoRow, row |-> NoRow]
NoCommand == [pc |-> "idle", finalizes |-> FALSE, ok |-> FALSE, hash |-> 0, of |-> 0, mutatedBefore |-> FALSE]

\* The evidence tools have prepared the release, or some of them have not run.
ReleaseInit ==
    /\ ack \in {"none", "valid"}
    /\ mutated = FALSE
    /\ canary \in {NoRow, CampaignCommit}
    /\ \E prepared \in BOOLEAN :
           LET row == IF prepared THEN Row(TRUE, CampaignCommit) ELSE NoRow
           IN  /\ drill = row /\ rollback = row /\ runbook = row
               /\ gateRow = IF prepared
                            THEN [tests |-> row, canary |-> canary,
                                  rollback |-> CampaignCommit, runbook |-> CampaignCommit]
                            ELSE NoRow
    /\ tool = [t \in {"ci", "safety"} |-> NoTool]
    /\ toolRuns = 0
    /\ evidence = 0 /\ aggregate = 0
    /\ latest = NoRow
    /\ command = [c \in Commands |-> NoCommand]
    /\ decision = NoRow

\* A tool is run, or the mutation trap fires.
ToolRuns == toolRuns < MaxToolRuns /\ toolRuns' = toolRuns + 1
-----------------------------------------------------------------------------
\* release_operator_ack.  The row is written whether or not it is valid (the
\* text may lack the release or the risk phrase), and a later row counts
\* instead of an earlier one.
PersistOperatorAck ==
    /\ ToolRuns
    /\ ack' \in {"valid", "void"}
    /\ UNCHANGED <<mutated, canary, drill, rollback, runbook, gateRow, tool, evidence, aggregate, latest, command, decision>>

\* valid_until passes.
AckExpires ==
    /\ ack = "valid" /\ ack' = "void"
    /\ UNCHANGED <<mutated, canary, drill, rollback, runbook, gateRow, tool, toolRuns, evidence, aggregate, latest, command, decision>>

\* MutationTrapExecutionAdapter: a mutating call is recorded and refused.
MutationTrapped ==
    /\ ToolRuns
    /\ mutated' = TRUE
    /\ UNCHANGED <<ack, canary, drill, rollback, runbook, gateRow, tool, evidence, aggregate, latest, command, decision>>

\* release_canary_evidence: the trap is tried in a database of its own, and
\* the verdict recorded.  A failed validation is an event of another type.
RunCanaryValidation(commit) ==
    /\ ToolRuns
    /\ canary' = commit
    /\ UNCHANGED <<ack, mutated, drill, rollback, runbook, gateRow, tool, evidence, aggregate, latest, command, decision>>

\* rollback_evidence: a rollback drill is run and its result recorded.
RunRollbackValidation(commit, ok) ==
    /\ ToolRuns
    /\ drill' = Row(ok, commit)
    /\ UNCHANGED <<ack, mutated, canary, rollback, runbook, gateRow, tool, evidence, aggregate, latest, command, decision>>

\* A drill older than max_evidence_age_sec is no evidence.
DrillAges ==
    /\ Passed(drill) /\ drill' = [drill EXCEPT !.ok = FALSE]
    /\ UNCHANGED <<ack, mutated, canary, rollback, runbook, gateRow, tool, toolRuns, evidence, aggregate, latest, command, decision>>
-----------------------------------------------------------------------------
ToolAt(t, pc) == tool[t].pc = pc

\* release_safety_evidence, in a clean checkout of the commit of its campaign.
PersistRollbackVerification(commit) ==
    /\ ToolAt("safety", "idle")
    /\ ToolRuns
    /\ rollback' = Row(Passed(drill) /\ drill.commit = commit, commit)
    /\ tool' = [tool EXCEPT !["safety"] = [NoTool EXCEPT !.pc = "runbook", !.commit = commit]]
    /\ UNCHANGED <<ack, mutated, canary, drill, runbook, gateRow, evidence, aggregate, latest, command, decision>>

PersistRunbookEvidence(ok) ==
    /\ ToolAt("safety", "runbook")
    /\ runbook' = Row(ok, tool["safety"].commit)
    /\ tool' = [tool EXCEPT !["safety"].pc = "build"]
    /\ UNCHANGED <<ack, mutated, canary, drill, rollback, gateRow, toolRuns, evidence, aggregate, latest, command, decision>>

\* release_ci_evidence asks the forge whether the commit's tests passed.
VerifyFullTests(commit, ok) ==
    /\ ToolAt("ci", "idle")
    /\ ToolRuns
    /\ tool' = [tool EXCEPT !["ci"] = [NoTool EXCEPT !.pc = "build", !.commit = commit, !.tests = Row(ok, commit)]]
    /\ UNCHANGED <<evidenceVars, gateRow, evidence, aggregate, latest, command, decision>>

\* The evidence of build_release_snapshot: the test evidence is carried over
\* from the snapshot persisted last.
BuildReleaseSnapshot ==
    [tests    |-> IF gateRow = NoRow THEN NoRow ELSE gateRow.tests,
     canary   |-> canary,
     rollback |-> CommitOf(rollback),
     runbook  |-> CommitOf(runbook)]

ToolBuilds(t) ==
    /\ ToolAt(t, "build")
    /\ LET built == BuildReleaseSnapshot
       IN  tool' = [tool EXCEPT ![t].pc = "persist",
                                ![t].row = IF t = "ci" THEN [built EXCEPT !.tests = tool[t].tests] ELSE built]
    /\ UNCHANGED <<evidenceVars, gateRow, toolRuns, evidence, aggregate, latest, command, decision>>

PersistReleaseSnapshot(t) ==
    /\ ToolAt(t, "persist")
    /\ gateRow' = tool[t].row
    /\ tool' = [tool EXCEPT ![t] = NoTool]
    /\ UNCHANGED <<evidenceVars, toolRuns, evidence, aggregate, latest, command, decision>>

ToolDies(t) ==
    /\ ~ToolAt(t, "idle")
    /\ tool' = [tool EXCEPT ![t] = NoTool]
    /\ UNCHANGED <<evidenceVars, gateRow, toolRuns, evidence, aggregate, latest, command, decision>>
-----------------------------------------------------------------------------
CommandAt(c, pc) == command[c].pc = pc

\* The runtime records an observation, or the resolver an outcome.
CampaignEvidenceGrows ==
    /\ evidence < MaxEvidence
    /\ evidence' = evidence + 1
    /\ UNCHANGED <<evidenceVars, gateRow, tool, toolRuns, aggregate, latest, command, decision>>

\* The latest qualification already names the present evidence.
NamesCurrentEvidence == latest # NoRow /\ latest.hash = evidence

\* qualify_campaign, by itself or as the first part of finalize, returns the
\* stored verdict when it names the present evidence.
BeginQualification(c, finalizes) ==
    /\ CommandAt(c, "idle")
    /\ finalizes \/ ~NamesCurrentEvidence
    /\ command' = [command EXCEPT ![c] = [NoCommand EXCEPT
                       !.pc = IF NamesCurrentEvidence THEN "read" ELSE "rebuild",
                       !.finalizes = finalizes]]
    /\ UNCHANGED <<evidenceVars, gateRow, tool, toolRuns, evidence, aggregate, latest, decision>>

\* The transaction that replaces the aggregate run and computes its hash.
MaterializeAggregate(c) ==
    /\ CommandAt(c, "rebuild")
    /\ aggregate' = evidence
    /\ command' = [command EXCEPT ![c].pc = "outcomes", ![c].hash = evidence]
    /\ UNCHANGED <<evidenceVars, gateRow, tool, toolRuns, evidence, latest, decision>>

\* evaluate: the outcomes of the aggregate run against the thresholds.
EvaluateOutcomes(c) ==
    /\ CommandAt(c, "outcomes")
    /\ command' = [command EXCEPT ![c].pc = "gates", ![c].of = aggregate, ![c].ok = aggregate \in Sufficient,
                                  ![c].mutatedBefore = mutated]
    /\ UNCHANGED <<evidenceVars, gateRow, tool, toolRuns, evidence, aggregate, latest, decision>>

\* Mutant: recorded mutation attempts are not counted.
CanaryReadyUncounted ==
    LET commits == {canary, CommitOf(rollback), CommitOf(runbook)} \ {NoRow}
    IN  /\ ack = "valid"
        /\ canary # NoRow
        /\ Passed(rollback) /\ Passed(runbook)
        /\ \A x, y \in commits : x = y

\* release_gate_status, from the rows as they are now.
CanaryReady ==
    LET commits == {canary, CommitOf(rollback), CommitOf(runbook)} \ {NoRow}
    IN  /\ ack = "valid"
        /\ ~mutated /\ canary # NoRow
        /\ Passed(rollback) /\ Passed(runbook)
        /\ \A x, y \in commits : x = y

\* _check_phase_gates: the gate, the commits that the persisted snapshot (the
\* fresh one when there is none) names, and the full tests of the campaign's
\* commit.
PhaseGatesPass ==
    LET named == IF gateRow = NoRow THEN BuildReleaseSnapshot ELSE gateRow
    IN  /\ CanaryReady
        /\ {named.canary, named.rollback, named.runbook} \subseteq {NoRow, CampaignCommit}
        /\ Passed(named.tests) /\ named.tests.commit = CampaignCommit

CheckPhaseGates(c) ==
    /\ CommandAt(c, "gates")
    /\ command' = [command EXCEPT ![c].pc = "link", ![c].ok = @ /\ PhaseGatesPass]
    /\ UNCHANGED <<evidenceVars, gateRow, tool, toolRuns, evidence, aggregate, latest, decision>>

\* A verdict; what only the properties look at is kept of a qualified one.
Verdict(c) ==
    LET v == command[c]
    IN  IF v.ok THEN [ok |-> TRUE, hash |-> v.hash, of |-> v.of, mutatedBefore |-> v.mutatedBefore]
                ELSE [ok |-> FALSE, hash |-> v.hash, of |-> v.hash, mutatedBefore |-> FALSE]

\* The snapshot is linked to the campaign and to the hash of the rebuild.
LinkQualification(c) ==
    /\ CommandAt(c, "link")
    /\ latest' = Verdict(c)
    /\ command' = [command EXCEPT ![c] = IF @.finalizes THEN [@ EXCEPT !.pc = "read"] ELSE NoCommand]
    /\ UNCHANGED <<evidenceVars, gateRow, tool, toolRuns, evidence, aggregate, decision>>

\* finalize reads the verdict the campaign names now ...
ReadQualification(c) ==
    /\ CommandAt(c, "read")
    /\ command' = [command EXCEPT ![c].pc = "decide", ![c].ok = latest.ok, ![c].hash = latest.hash,
                                  ![c].of = latest.of]
    /\ UNCHANGED <<evidenceVars, gateRow, tool, toolRuns, evidence, aggregate, latest, decision>>

\* Mutant: the evidence the verdict is about is not compared with the present.
FinalizeUncompared(c, satisfied) ==
    /\ CommandAt(c, "decide")
    /\ decision' = IF satisfied /\ command[c].ok
                   THEN [of |-> command[c].of, at |-> evidence]
                   ELSE NoRow
    /\ command' = [command EXCEPT ![c] = NoCommand]
    /\ UNCHANGED <<evidenceVars, gateRow, tool, toolRuns, evidence, aggregate, latest>>

\* ... and decides.  Whether the audit, the health report and the completion
\* check are satisfied is open here.
Finalize(c, satisfied) ==
    /\ CommandAt(c, "decide")
    /\ decision' = IF satisfied /\ command[c].ok /\ command[c].hash = evidence
                   THEN [of |-> command[c].of, at |-> evidence]
                   ELSE NoRow
    /\ command' = [command EXCEPT ![c] = NoCommand]
    /\ UNCHANGED <<evidenceVars, gateRow, tool, toolRuns, evidence, aggregate, latest>>

CommandDies(c) ==
    /\ ~CommandAt(c, "idle")
    /\ command' = [command EXCEPT ![c] = NoCommand]
    /\ UNCHANGED <<evidenceVars, gateRow, tool, toolRuns, evidence, aggregate, latest, decision>>
-----------------------------------------------------------------------------
ToolNext ==
    \/ PersistOperatorAck \/ AckExpires \/ MutationTrapped \/ DrillAges
    \/ \E commit \in Commits : RunCanaryValidation(commit) \/ PersistRollbackVerification(commit)
    \/ \E commit \in Commits, ok \in BOOLEAN : RunRollbackValidation(commit, ok) \/ VerifyFullTests(commit, ok)
    \/ \E ok \in BOOLEAN : PersistRunbookEvidence(ok)
    \/ \E t \in {"ci", "safety"} : ToolBuilds(t) \/ PersistReleaseSnapshot(t) \/ ToolDies(t)

CommandNext(c) ==
    \/ \E finalizes \in BOOLEAN : BeginQualification(c, finalizes)
    \/ MaterializeAggregate(c) \/ EvaluateOutcomes(c) \/ CheckPhaseGates(c) \/ LinkQualification(c) \/ ReadQualification(c)
    \/ \E satisfied \in BOOLEAN : Finalize(c, satisfied)
    \/ CommandDies(c)

ReleaseNext == ToolNext \/ CampaignEvidenceGrows \/ \E c \in Commands : CommandNext(c)

ReleaseSpec == ReleaseInit /\ [][ReleaseNext]_releaseVars
-----------------------------------------------------------------------------
(* Properties                                                              *)

\* A campaign is never linked to a qualified verdict whose evaluation began
\* after a mutation attempt had been recorded, whatever rows the tools and a
\* second command wrote while it was computed (canary_mutation_attempt_count).
MutationBlocksQualification ==
    latest # NoRow /\ latest.ok => ~latest.mutatedBefore

\* A decision for the canary review rests on outcomes of the very evidence the
\* campaign has when the decision is taken, although two commands share one
\* aggregate run and the runtime adds evidence all the while (evidence_hash in
\* qualify_campaign and finalize).
DecisionOnCurrentEvidence ==
    decision # NoRow => decision.of = decision.at

\* What a campaign is judged by stands: its verdict knew of every mutation attempt
\* that preceded it, and its decision rests on its present evidence.
QualificationStands == MutationBlocksQualification /\ DecisionOnCurrentEvidence
=============================================================================

------------------------------ MODULE SystemAudit ------------------------------
(***************************************************************************)
(* The system audit (system_audit_store.py): a program of its own copies a *)
(* run's decisions and their outcomes from the runtime's database, which it *)
(* only reads, into a store whose tables only grow, while the runtime and  *)
(* the resolver go on writing.  One source transaction spans an ingest, and *)
(* one audit transaction is committed at its end: an error or a death      *)
(* undoes the ingest as a whole.                                           *)
(***************************************************************************)
EXTENDS Naturals

CONSTANTS MaxRows,    \* bound: rows of decision_evidence
          Kinds,      \* the kinds of decision that occur
          MaxAudits   \* bound: ingests

(***************************************************************************)
(* What a decision_evidence row says, with the label or position written in *)
(* the same transaction: an accept with or without a position; a reject     *)
(* with whole geometry and a label on the executable fill (aligned), a      *)
(* label on the planned entry (planned) or none (unlabelled); a reject with *)
(* part of the geometry (partial); one with no geometry of its own but a    *)
(* label on the legacy scanner's (shadowed).                                *)
(***************************************************************************)
AllKinds == {"filled", "unfilled", "aligned", "planned", "unlabelled", "partial", "shadowed"}

ASSUME AuditAssumption == MaxRows \in Nat /\ MaxAudits \in Nat /\ Kinds \subseteq AllKinds

DecisionRows == 1..MaxRows
Accepts == {"filled", "unfilled"}
Labelled == {"aligned", "planned", "shadowed"}
Followed == Labelled \cup {"filled"}
Settled == {"complete", "doubtful"}    \* doubtful: ambiguous, incomplete or invalidated by execution

VARIABLES
    source,   \* the runtime's database: kind, hash and outcome of each row, and when it settled
    moment,   \* how many outcomes have been written
    store,    \* the audit database as last committed
    audit,    \* the ingest: its phase, snapshot, next row and uncommitted tables
    audits    \* ingests started

auditVars == <<source, moment, store, audit, audits>>

Unwritten == [kind |-> "absent", hash |-> 1, outcome |-> "none", at |-> 0]
NoTables == [envelopes |-> {}, outcomes |-> {}, shadows |-> {}, shadowOutcomes |-> {}]
Recorded(rows) == {r \in DecisionRows : rows[r].kind # "absent"}

Idling == [phase |-> "idle", rows |-> [r \in DecisionRows |-> Unwritten], next |-> 1, tables |-> NoTables]

AuditInit ==
    /\ source = [r \in DecisionRows |-> Unwritten]
    /\ moment = 0
    /\ store = NoTables
    /\ audit = Idling
    /\ audits = 0

-----------------------------------------------------------------------------
(* The writers of the source.                                              *)

\* A decision and its label or position are one commit; ids ascend.
RecordDecision(r, kind) ==
    /\ source[r].kind = "absent" /\ \A q \in DecisionRows : q < r => source[q].kind # "absent"
    /\ source' = [source EXCEPT ![r] =
           [kind |-> kind, hash |-> 1, at |-> 0,
            outcome |-> IF kind \in Followed THEN "open" ELSE "none"]]
    /\ UNCHANGED <<moment, store, audit, audits>>

\* The resolver writes an outcome, with its label or position, in one commit.
SettleDecision(r, quality) ==
    /\ source[r].outcome = "open"
    /\ source' = [source EXCEPT ![r].outcome = quality, ![r].at = moment + 1]
    /\ moment' = moment + 1
    /\ UNCHANGED <<store, audit, audits>>

\* init_db marks the rr_basis of a row that an older program wrote.
MarkLegacy(r) ==
    /\ source[r].kind # "absent" /\ source[r].hash = 1
    /\ source' = [source EXCEPT ![r].hash = 2]
    /\ UNCHANGED <<moment, store, audit, audits>>

-----------------------------------------------------------------------------
(* The ingest.                                                             *)

\* Mutant: no transaction is opened on the source.
SeenLive == source

\* Everything an ingest reads is of one source transaction, begun before its first row.
Seen == audit.rows

\* The envelope handed on.  A row already stored is handed on as it is, and its columns sl and tp
\* are not the keys stop and target that _shadow_eligibility asks for.
Geometry(kind, known) ==
    CASE kind = "shadowed" -> "none"
      [] kind = "partial" \/ known -> "part"
      [] OTHER -> "whole"

\* Mutant: the basis of the label is not asked for.
EligibilityAnyBasis(kind, known) ==
    CASE Geometry(kind, known) = "none" -> "NON_SIMULATABLE"
      [] Geometry(kind, known) = "whole" /\ kind \in Labelled -> "EXECUTABLE_SHADOW"
      [] OTHER -> "DIAGNOSTIC_SHADOW"

Eligibility(kind, known) ==
    CASE Geometry(kind, known) = "none" -> "NON_SIMULATABLE"
      [] Geometry(kind, known) = "whole" /\ kind = "aligned" -> "EXECUTABLE_SHADOW"
      [] OTHER -> "DIAGNOSTIC_SHADOW"

WithEnvelope(tables, r, hash) == [tables EXCEPT !.envelopes = @ \cup {<<r, hash>>}]

\* INSERT OR IGNORE under UNIQUE(source_outcome_id, source_hash): the outcome of a row keeps its hash.
WithOutcome(tables, r, hash, authoritative) ==
    [tables EXCEPT !.outcomes = @ \cup
        {o \in {[row |-> r, hash |-> hash, authoritative |-> authoritative]} : \A p \in @ : p.row # r}]

\* INSERT OR IGNORE under UNIQUE(envelope_id).
WithShadow(tables, r, hash, eligibility) ==
    [tables EXCEPT !.shadows = @ \cup
        {s \in {[row |-> r, hash |-> hash, eligibility |-> eligibility]} :
             \A t \in @ : ~(t.row = r /\ t.hash = hash)}]

WithShadowOutcome(tables, r, hash, eligibility, authoritative) ==
    [tables EXCEPT !.shadowOutcomes = @ \cup
        {[row |-> r, hash |-> hash, eligibility |-> eligibility, authoritative |-> authoritative]}]

IngestBegins ==
    /\ audit.phase = "idle" /\ audits < MaxAudits
    /\ audits' = audits + 1
    /\ audit' = [phase |-> "ingesting", rows |-> source, next |-> 1, tables |-> store]
    /\ UNCHANGED <<source, moment, store>>

InHand(r) == audit.phase = "ingesting" /\ audit.next = r /\ r \in Recorded(Seen)
RowIngested(tables) == audit' = [audit EXCEPT !.next = @ + 1, !.tables = tables]

IngestAccept(r) ==
    LET row == Seen[r]  stored == WithEnvelope(audit.tables, r, row.hash) IN
    /\ InHand(r) /\ row.kind \in Accepts
    /\ RowIngested(IF row.outcome \in Settled
               THEN WithOutcome(stored, r, row.hash, row.outcome = "complete") ELSE stored)
    /\ UNCHANGED <<source, moment, store, audits>>

\* The shadow outcome names the shadow decision it was computed for.  When that one was not stored,
\* because the envelope has another already, the foreign key fails unless the outcome is known.
IngestReject(r) ==
    LET row == Seen[r]
        eligibility == Eligibility(row.kind, <<r, row.hash>> \in audit.tables.envelopes)
        authoritative == eligibility = "EXECUTABLE_SHADOW" /\ row.outcome = "complete"
        shadowed == WithShadow(WithEnvelope(audit.tables, r, row.hash), r, row.hash, eligibility)
        judged == WithOutcome(shadowed, r, row.hash, authoritative)
        known == \E o \in shadowed.shadowOutcomes : o.row = r
        named == [row |-> r, hash |-> row.hash, eligibility |-> eligibility] \in shadowed.shadows
    IN
    /\ InHand(r) /\ row.kind \notin Accepts
    /\ \/ row.outcome \notin Settled /\ RowIngested(shadowed)
       \/ row.outcome \in Settled /\ known /\ RowIngested(judged)
       \/ /\ row.outcome \in Settled /\ ~known /\ named
          /\ RowIngested(WithShadowOutcome(judged, r, row.hash, eligibility, authoritative))
       \/ /\ row.outcome \in Settled /\ ~known /\ ~named
          /\ audit' = [Idling EXCEPT !.phase = "failed"]
    /\ UNCHANGED <<source, moment, store, audits>>

IngestCommits ==
    /\ audit.phase = "ingesting" /\ audit.next \notin Recorded(Seen)
    /\ store' = audit.tables
    /\ audit' = Idling
    /\ UNCHANGED <<source, moment, audits>>

\* The program ends, after the error or by its death, and another may be started.
IngestEnds ==
    /\ audit.phase # "idle"
    /\ audit' = Idling
    /\ UNCHANGED <<source, moment, store, audits>>

AuditNext ==
    \/ \E r \in DecisionRows :
          \/ \E kind \in Kinds : RecordDecision(r, kind)
          \/ \E quality \in Settled : SettleDecision(r, quality)
          \/ MarkLegacy(r)
          \/ IngestAccept(r) \/ IngestReject(r)
    \/ IngestBegins \/ IngestCommits \/ IngestEnds

AuditSpec == AuditInit /\ [][AuditNext]_auditVars

-----------------------------------------------------------------------------
\* An outcome counts as authoritative exactly when the resolver found it complete, for an accept
\* that was filled or a reject judged on the fill it would have had, and a shadow outcome agrees
\* with the shadow decision it belongs to (_accepted_outcome, _shadow_eligibility, _reject_shadow).
AuthorityIsEarned ==
    /\ \A o \in store.outcomes :
          o.authoritative <=> source[o.row].outcome = "complete" /\ source[o.row].kind \in {"filled", "aligned"}
    /\ \A o \in store.shadowOutcomes :
          /\ [row |-> o.row, hash |-> o.hash, authoritative |-> o.authoritative] \in store.outcomes
          /\ o.authoritative => [row |-> o.row, hash |-> o.hash, eligibility |-> "EXECUTABLE_SHADOW"] \in store.shadows

\* The store is a consistent cut of the source: with an outcome it has every outcome written before
\* (ingest_audit_evidence holds one read transaction while the writers commit).
IsOneCut ==
    \A o \in store.outcomes : \A r \in DecisionRows :
        0 < source[r].at /\ source[r].at <= source[o.row].at => \E p \in store.outcomes : p.row = r

\* What the audit has committed is evidence the source gave it, of one state of the source.
AuditStands == AuthorityIsEarned /\ IsOneCut
=============================================================================

--------------------------- MODULE StorageRetention ---------------------------
(***************************************************************************)
(* Retention of a campaign's universe evidence under a byte budget         *)
(* (storage_policy.py): the controller's bounded check, the stats-only     *)
(* compaction into an immutable ledger, and the verified archive after     *)
(* which source rows may go.                                               *)
(*                                                                         *)
(* A cycle stands for its row, its candidates and its link; cycles are     *)
(* numbered in decision order and sizes are counted in cycles.  A SQLite   *)
(* file does not shrink, so its physical size is the largest the live data *)
(* ever had.  The runtime's controller and the maintain command are two    *)
(* processes on one database: each transaction (BEGIN IMMEDIATE) is one    *)
(* step, everything between two of them interleaves, and a process may die *)
(* there; the archive's file lock dies with it.                            *)
(***************************************************************************)
EXTENDS Integers, Sequences, FiniteSets

CONSTANTS
    Procs,        \* "runtime" and perhaps "maintain"
    MaxCycles,    \* bound: cycles recorded
    MaxRuns,      \* bound: continuations
    MaxFaults,    \* bound: deaths, refused transactions, damages, heartbeats
    Batch,        \* batch_rows, in cycles
    Recent,       \* stats_only_recent_cycles
    High, Low     \* the watermarks, also those of the stats-only policy

ASSUME StorageAssumption ==
    /\ "runtime" \in Procs /\ "nobody" \notin Procs
    /\ MaxCycles \in Nat /\ MaxRuns \in Nat \ {0} /\ MaxFaults \in Nat
    /\ Batch \in Nat \ {0} /\ Recent \in Nat \ {0}
    /\ Low \in Nat /\ High \in Nat /\ Low < High

Cycles == 1 .. MaxCycles
\* The copy of a database: its cycles, and the revision of the campaign row.
NoCopy == [cycles |-> {}, rev |-> 0]
Copies == [cycles : SUBSET Cycles, rev : 1 .. 2]

VARIABLES
    campaign,     \* status, whether a worker is left, the run, the row's revision,
                  \* and whether it is bound to the stats-only policy
    runOf,        \* the run each recorded cycle belongs to, in order
    db,           \* cycles whose rows are in the source database
    unresolved,   \* cycles with an unresolved label or position
    outstanding,  \* positions, orders or incidents of anybody that are not terminal
    ledger,       \* rollups with their checkpoints, in sequence
    peak,         \* physical size: the most cycles that were live at a time
    copied,       \* what the archive file holds
    manifest,     \* what its manifest says it holds
    archives,     \* state of the storage_archives row
    lock,         \* holder of the archive's file lock
    proc,         \* what each process is doing
    blocked,      \* the runtime's last report blocks new evidence
    faults        \* faults so far

world == <<campaign, runOf, unresolved, outstanding, peak>>
store == <<db, ledger>>
archive == <<copied, manifest, archives, lock>>
vars == <<world, store, archive, proc, blocked, faults>>

Init ==
    /\ \E b \in BOOLEAN :
         campaign = [status |-> "RUNNING", worker |-> TRUE, run |-> 1, rev |-> 1, bound |-> b]
    /\ runOf = <<>> /\ db = {} /\ unresolved = {} /\ outstanding = FALSE
    /\ ledger = <<>> /\ peak = 0 /\ copied = NoCopy /\ manifest = NoCopy /\ archives = "NONE"
    /\ lock = "nobody"
    /\ proc = [p \in Procs |-> [pc |-> "idle", cleaning |-> FALSE, removed |-> FALSE]]
    /\ blocked = FALSE /\ faults = 0

Live == Cardinality(db)
Rollups == {ledger[i] : i \in DOMAIN ledger}
Oldest(S) == {k \in S : Cardinality({j \in S : j < k}) < Batch}

\* The elements of a set of cycles, oldest first.
InOrder(S) ==
    [i \in 1 .. Cardinality(S) |-> CHOOSE k \in S : Cardinality({j \in S : j <= k}) = i]

At(p, pc) == proc[p].pc = pc
Goto(p, pc) == proc' = [proc EXCEPT ![p].pc = pc]
Unlock(p) == lock' = IF lock = p THEN "nobody" ELSE lock
Fault == faults < MaxFaults /\ faults' = faults + 1

-----------------------------------------------------------------------------
(* Eligibility.                                                            *)

\* plan_stats_only_universe: a campaign bound to the policy (a disabled policy
\* binds none), nothing unresolved in the cycle's run up to the
\* cycle, enough newer ones kept whole, no exposure anywhere.
Compactable ==
    {k \in db : /\ campaign.bound /\ ~ outstanding
                /\ Cardinality({j \in db : j > k}) >= Recent
                /\ \A u \in unresolved : runOf[u] = runOf[k] => u > k}

\* campaign_eligibility: complete, abandoned by its worker, resolved, never
\* compacted.
Eligible ==
    /\ campaign.status = "COMPLETED" /\ ~ campaign.worker
    /\ unresolved = {} /\ ~ outstanding /\ Rollups = {}

\* stats_only_campaign_summary: the checkpoints follow the rollups' order.
LedgerInOrder == \A i, j \in DOMAIN ledger : i < j => ledger[i] < ledger[j]

-----------------------------------------------------------------------------
(* StorageController.check.                                                *)

\* The watermarks: cleaning starts at High and goes on down to Low.
Cleaning(p) == IF Live <= Low THEN FALSE ELSE peak >= High \/ proc[p].cleaning

\* Disk pressure starts maintenance too, but never an archive.  A check that
\* finds nothing to do is left out.
Check(p) ==
    /\ At(p, "idle") /\ Live > 0
    /\ \E pressure \in BOOLEAN :
         /\ Cleaning(p) \/ pressure
         /\ proc' = [proc EXCEPT ![p] = [pc |-> "compact",
                                         cleaning |-> Cleaning(p), removed |-> FALSE]]
    /\ UNCHANGED <<world, store, archive, blocked, faults>>

\* compact_stats_only_universe_batch: the ledger must verify, then the oldest
\* compactable cycles are rolled up, checkpointed and deleted together.
Compact(p) ==
    /\ At(p, "compact")
    /\ \/ /\ Compactable # {}
          /\ IF LedgerInOrder
               THEN /\ ledger' = ledger \o InOrder(Oldest(Compactable))
                    /\ db' = db \ Oldest(Compactable)
                    /\ proc' = [proc EXCEPT ![p].pc = "report", ![p].removed = TRUE]
               ELSE Goto(p, "report") /\ UNCHANGED store
       \/ /\ Compactable = {}
          /\ Goto(p, "prune") /\ UNCHANGED store
    /\ UNCHANGED <<world, archive, blocked, faults>>

\* prune_telemetry: while it finds heartbeats to delete, nothing is archived.
Prune(p) ==
    /\ At(p, "prune")
    /\ \/ /\ Fault
          /\ proc' = [proc EXCEPT ![p].pc = "report", ![p].removed = TRUE]
       \/ /\ faults' = faults
          /\ Goto(p, IF proc[p].cleaning THEN "archive" ELSE "report")
    /\ UNCHANGED <<world, store, archive, blocked>>

\* Mutant: a campaign whose archive was published is not taken up again.
ArchiveBeginOnce(p) ==
    /\ At(p, "archive")
    /\ IF Eligible /\ db # {} /\ lock = "nobody" /\ archives = "NONE"
         THEN lock' = p /\ Goto(p, IF manifest = NoCopy THEN "copy" ELSE "verify")
         ELSE lock' = lock /\ Goto(p, "report")
    /\ UNCHANGED <<world, store, copied, manifest, archives, blocked, faults>>

\* An eligible campaign with cycles left, and the lock of its archive.
ArchiveBegin(p) ==
    /\ At(p, "archive")
    /\ IF Eligible /\ db # {} /\ lock = "nobody"
         THEN lock' = p /\ Goto(p, IF manifest = NoCopy THEN "copy" ELSE "verify")
         ELSE lock' = lock /\ Goto(p, "report")
    /\ UNCHANGED <<world, store, copied, manifest, archives, blocked, faults>>

\* The backup replaces what an earlier attempt left without a manifest.
Backup(p) ==
    /\ At(p, "copy")
    /\ IF Eligible
         THEN copied' = [cycles |-> db, rev |-> campaign.rev] /\ lock' = lock /\ Goto(p, "manifest")
         ELSE copied' = copied /\ Unlock(p) /\ Goto(p, "report")
    /\ UNCHANGED <<world, store, manifest, archives, blocked, faults>>

WriteManifest(p) ==
    /\ At(p, "manifest")
    /\ manifest' = copied
    /\ Goto(p, "verify")
    /\ UNCHANGED <<world, store, copied, archives, lock, blocked, faults>>

\* verify_manifest: checksum, schema, counts and identity of the archive.
Intact == manifest # NoCopy /\ copied = manifest
Verify(p, from, to) ==
    /\ At(p, from)
    /\ IF Intact THEN lock' = lock /\ Goto(p, to) ELSE Unlock(p) /\ Goto(p, "report")
    /\ UNCHANGED <<world, store, copied, manifest, archives, blocked, faults>>

\* The durable row; the campaign must still be eligible under the write lock.
Publish(p) ==
    /\ At(p, "publish")
    /\ archives' = IF Eligible /\ archives = "NONE" THEN "VERIFIED" ELSE archives
    /\ Unlock(p)
    /\ Goto(p, IF Eligible THEN "check" ELSE "report")
    /\ UNCHANGED <<world, store, copied, manifest, blocked, faults>>

\* Mutant: the rows are not compared with the archive's.
RemovableUnread == archives # "NONE" /\ Eligible
\* What the removal transaction looks at again before it deletes a batch.
Removable ==
    /\ Eligible /\ archives \in {"VERIFIED", "REMOVING"}
    /\ campaign.rev = manifest.rev
    /\ Oldest(db) \subseteq copied.cycles

RemoveBatch(p) ==
    /\ At(p, "remove")
    /\ IF Removable
         THEN /\ db' = db \ Oldest(db)
              /\ archives' = IF db' = {} THEN "ARCHIVED" ELSE "REMOVING"
              /\ proc' = [proc EXCEPT ![p].pc = "report", ![p].removed = TRUE]
         ELSE UNCHANGED <<db, archives>> /\ Goto(p, "report")
    /\ UNCHANGED <<world, ledger, copied, manifest, lock, blocked, faults>>

\* The inventory afterwards decides what is reported, and disk pressure, a
\* full disk or a WAL backlog block too; the runtime lets new evidence in only
\* after a report that does not block.
Report(p) ==
    /\ At(p, "report")
    /\ proc' = [proc EXCEPT ![p] = [@ EXCEPT !.pc = "idle", !.cleaning = @ /\ Live > Low]]
    /\ IF p = "runtime"
         THEN blocked' \in {TRUE, Live > Low /\ proc[p].cleaning /\ ~ proc[p].removed}
         ELSE blocked' = blocked
    /\ UNCHANGED <<world, store, archive, faults>>

\* A writer stays busy, a time budget or the disk runs out: the transaction
\* is rolled back and the check goes straight to its report.
GivesUp(p) ==
    /\ Fault /\ proc[p].pc \notin {"idle", "report"}
    /\ Goto(p, "report") /\ Unlock(p)
    /\ UNCHANGED <<world, store, copied, manifest, archives, blocked>>

\* The process dies; a new one has no hysteresis to remember.
Death(p) ==
    /\ Fault /\ ~ At(p, "idle")
    /\ proc' = [proc EXCEPT ![p] = [pc |-> "idle", cleaning |-> FALSE, removed |-> FALSE]]
    /\ Unlock(p)
    /\ UNCHANGED <<world, store, copied, manifest, archives, blocked>>

\* The archive loses a cycle on its medium.  Before the manifest is written
\* that comes to the same: it carries the row counts of the backup itself.
Damage ==
    /\ Fault /\ manifest # NoCopy
    /\ \E k \in copied.cycles : copied' = [copied EXCEPT !.cycles = @ \ {k}]
    /\ UNCHANGED <<world, store, manifest, archives, lock, proc, blocked>>

-----------------------------------------------------------------------------
(* The campaign.                                                           *)

RecordCycle ==
    /\ campaign.worker /\ ~ blocked /\ Len(runOf) < MaxCycles
    /\ runOf' = Append(runOf, campaign.run)
    /\ db' = db \cup {Len(runOf')}
    /\ peak' = IF Cardinality(db') > peak THEN Cardinality(db') ELSE peak
    /\ unresolved' \in {unresolved, unresolved \cup {Len(runOf')}}
    /\ UNCHANGED <<campaign, outstanding, ledger, archive, proc, blocked, faults>>

Resolve(k) ==
    /\ k \in unresolved /\ unresolved' = unresolved \ {k}
    /\ UNCHANGED <<campaign, runOf, outstanding, peak, store, archive, proc, blocked, faults>>

Continue ==
    /\ campaign.status = "RUNNING" /\ campaign.run < MaxRuns
    /\ campaign' = [campaign EXCEPT !.run = @ + 1]
    /\ UNCHANGED <<runOf, unresolved, outstanding, peak, store, archive, proc, blocked, faults>>

\* Completion, the worker's departure, and a later rewrite of the row.
CampaignEnds ==
    /\ \/ campaign.status = "RUNNING" /\ campaign' = [campaign EXCEPT !.status = "COMPLETED"]
       \/ campaign.status = "COMPLETED" /\ campaign.worker
          /\ campaign' = [campaign EXCEPT !.worker = FALSE]
       \/ campaign.status = "COMPLETED" /\ campaign.rev = 1
          /\ campaign' = [campaign EXCEPT !.rev = 2]
    /\ UNCHANGED <<runOf, unresolved, outstanding, peak, store, archive, proc, blocked, faults>>

Exposure ==
    /\ outstanding' = ~ outstanding
    /\ UNCHANGED <<campaign, runOf, unresolved, peak, store, archive, proc, blocked, faults>>

\* What a started check goes through.
Proceeds(p) ==
    \/ Compact(p) \/ Prune(p)
    \/ ArchiveBegin(p) \/ Backup(p) \/ WriteManifest(p)
    \/ Verify(p, "verify", "publish") \/ Publish(p)
    \/ Verify(p, "check", "remove") \/ RemoveBatch(p)
    \/ Report(p)

Next ==
    \/ \E p \in Procs : Check(p) \/ Proceeds(p) \/ GivesUp(p) \/ Death(p)
    \/ Damage
    \/ RecordCycle \/ Continue \/ CampaignEnds \/ Exposure
    \/ \E k \in Cycles : Resolve(k)

Spec == Init /\ [][Next]_vars

\* A running runtime checks at every interval, an operator need not; a check
\* that was begun goes on, unless its process dies.
StorageFairness ==
    /\ WF_vars(Check("runtime"))
    /\ \A p \in Procs : WF_vars(Proceeds(p))

-----------------------------------------------------------------------------
(* Properties                                                              *)

Pcs == {"idle", "compact", "prune", "archive", "copy", "manifest", "verify", "publish",
        "check", "remove", "report"}

TypeOK ==
    /\ campaign \in [status : {"RUNNING", "COMPLETED"}, worker : BOOLEAN,
                     run : 1 .. MaxRuns, rev : {1, 2}, bound : BOOLEAN]
    /\ runOf \in Seq(1 .. MaxRuns) /\ Len(runOf) <= MaxCycles
    /\ db \subseteq 1 .. Len(runOf) /\ unresolved \subseteq 1 .. Len(runOf)
    /\ outstanding \in BOOLEAN /\ blocked \in BOOLEAN
    /\ ledger \in Seq(Cycles) /\ Rollups \cap db = {}
    /\ peak \in Live .. MaxCycles
    /\ copied \in Copies \cup {NoCopy} /\ manifest \in Copies \cup {NoCopy}
    /\ archives \in {"NONE", "VERIFIED", "REMOVING", "ARCHIVED"}
    /\ lock \in Procs \cup {"nobody"}
    /\ proc \in [Procs -> [pc : Pcs, cleaning : BOOLEAN, removed : BOOLEAN]]
    /\ faults \in 0 .. MaxFaults

\* Evidence leaves the database only into the ledger or with a copy of it in
\* a published archive, whatever was recorded, resolved, damaged or repeated
\* by the other process since the archive was verified
\* (remove_archived_batch, compact_stats_only_universe_batch).
RemovalIsBacked ==
    [][\A k \in db \ db' :
          \/ \E i \in DOMAIN ledger' : ledger'[i] = k
          \/ archives # "NONE" /\ k \in copied.cycles \cap manifest.cycles]_vars

\* An archive that no longer is what its manifest says, or a campaign row that
\* changed after it, needs an operator.
Unusable == manifest # NoCopy /\ (copied # manifest \/ manifest.rev # campaign.rev)

\* A campaign that stays eligible is brought down to the low watermark in the
\* end, wherever earlier attempts were given up or died
\* (StorageController.check, verified_archive, remove_archived_batch).
CleanupFinishes ==
    (Eligible /\ peak >= High) ~> (Live <= Low \/ ~ Eligible \/ Unusable)

\* "Restart therefore sees either complete source evidence or a complete
\* verified tombstone/checkpoint": the ledger the compaction writes is one
\* stats_only_campaign_summary accepts.
LedgerVerifies == LedgerInOrder
=============================================================================

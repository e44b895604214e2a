------------------------- MODULE ExecutionOwnership -------------------------
(***************************************************************************)
(* The durable single-owner lease of one execution account                 *)
(* (src/alphaforge/execution_ownership.py) and the part of                 *)
(* RuntimeOrchestrator._execute (src/alphaforge/runtime.py) that acquires  *)
(* it, checks it and then persists a PAPER fill under it.                  *)
(*                                                                         *)
(* Several runtimes share the SQLite file and the host's wall clock.  Each *)
(* call reads time.time() first and runs its transaction afterwards, so    *)
(* the time it decides with may be old when the transaction commits.  A    *)
(* runtime is identified by the (instance, startup) pair that every        *)
(* orchestrator object draws afresh: a restart is another member of        *)
(* Runtimes, never the same one again.                                     *)
(***************************************************************************)
EXTENDS Integers

CONSTANTS Runtimes,     \* runtime startups attached to the same account
          NoOwner,      \* the account has no lease row yet
          Ttl,          \* execution_lease_ttl_sec
          MinValidity,  \* execution_lease_min_validity_sec
          FillDelay,    \* longest time from the final check's clock read to the fill
          MaxClock      \* bound on the wall clock

ASSUME RuntimesAssumption == NoOwner \notin Runtimes
\* RuntimeConfig rejects ttl <= 0, min_validity < 0 and min_validity >= ttl.
ASSUME LeaseAssumption ==
    /\ Ttl \in Nat /\ MinValidity \in Nat
    /\ MinValidity < Ttl
    /\ MaxClock \in Nat
\* The synchronous stretch from the final check to the commit of the fill fits
\* in the validity the check asks for (0.55 s of bounded BUSY retries against a
\* default of 5 s).
ASSUME DelayAssumption == FillDelay \in Nat /\ FillDelay <= MinValidity

VARIABLES clock,    \* time.time(), whole seconds
          lease,    \* the execution_account_leases row: [owner, token, expires]
          pc,       \* where each runtime is in _execute or in its shutdown
          ts,       \* the `ts` / `now` of the call each runtime is in
          token,    \* _execution_fencing_token, 0 for None
          fills     \* fills persisted so far: [by, token, at]

vars == <<clock, lease, pc, ts, token, fills>>

Stages == {"idle", "acquire", "gate", "validate", "fill", "release", "stopped"}

TypeOK ==
    /\ clock \in 0..MaxClock
    /\ lease \in [owner : Runtimes \cup {NoOwner}, token : Nat, expires : Nat]
    /\ pc \in [Runtimes -> Stages]
    /\ ts \in [Runtimes -> 0..MaxClock]
    /\ token \in [Runtimes -> Nat]
    /\ fills \subseteq [by : Runtimes, token : Nat, at : 0..MaxClock]

Init ==
    /\ clock = 0
    /\ lease = [owner |-> NoOwner, token |-> 0, expires |-> 0]
    /\ pc = [r \in Runtimes |-> "idle"]
    /\ ts = [r \in Runtimes |-> 0]
    /\ token = [r \in Runtimes |-> 0]
    /\ fills = {}

Goto(r, stage) == pc' = [pc EXCEPT ![r] = stage]
ReadClock(r)   == ts' = [ts EXCEPT ![r] = clock]
-----------------------------------------------------------------------------
\* Mutant: a lease may be taken MinValidity early.
MayOwnEarly(r) ==
    lease.owner \in {NoOwner, r} \/ lease.expires <= ts[r] + MinValidity

\* The WHERE clause of the takeover UPDATE; the INSERT wins when no row exists.
MayOwn(r) ==
    \/ lease.owner = NoOwner
    \/ lease.owner = r
    \/ lease.expires <= ts[r]

\* Mutant: a takeover keeps the token.
LeaseOfSameToken(r) ==
    [owner |-> r, token |-> IF lease.token = 0 THEN 1 ELSE lease.token,
     expires |-> ts[r] + Ttl]

\* INSERT token 1, or UPDATE: a renewal keeps the token, a takeover adds one.
LeaseOf(r) ==
    [owner   |-> r,
     token   |-> IF lease.owner = r THEN lease.token ELSE lease.token + 1,
     expires |-> ts[r] + Ttl]

\* Mutants: the margin is dropped; the owner columns are not compared.
OwnsNoMargin(r) ==
    lease.owner = r /\ lease.token = token[r] /\ lease.expires > ts[r]
OwnsAnyOwner(r) ==
    token[r] # 0 /\ lease.expires > ts[r] + MinValidity

\* validate_execution_ownership, with the validity margin of the runtime.
Owns(r) ==
    /\ lease.owner = r
    /\ token[r] # 0 /\ lease.token = token[r]
    /\ lease.expires > ts[r] + MinValidity

\* _execute reaches _authorize_execution_ownership, which reads the clock ...
AcquireStart(r) ==
    /\ pc[r] = "idle"
    /\ ReadClock(r) /\ Goto(r, "acquire")
    /\ UNCHANGED <<clock, lease, token, fills>>

\* ... and then runs the acquire transaction: the row is ours,
AcquireGranted(r) ==
    /\ pc[r] = "acquire"
    /\ MayOwn(r)
    /\ lease' = LeaseOf(r)
    /\ token' = [token EXCEPT ![r] = LeaseOf(r).token]
    /\ Goto(r, "gate")
    /\ UNCHANGED <<clock, ts, fills>>

\* or somebody else's: EXECUTION_OWNERSHIP_BLOCKED leaves _execute, ends the
\* scan loop and stops the runtime as FAILED, which does not release anything.
AcquireRefused(r) ==
    /\ pc[r] = "acquire"
    /\ ~ MayOwn(r)
    /\ Goto(r, "stopped")
    /\ UNCHANGED <<clock, lease, ts, token, fills>>

\* Bounded retries exhausted: recovery is marked in the same synchronous
\* stretch, so the gate that follows cancels the decision.
AcquireBusy(r) ==
    /\ pc[r] = "acquire"
    /\ Goto(r, "idle")
    /\ UNCHANGED <<clock, lease, ts, token, fills>>

\* _execution_reconciliation_blocked() decides (module RuntimeGate says when);
\* past it, _validate_execution_ownership reads the clock ...
GateBlocked(r) ==
    /\ pc[r] = "gate"
    /\ Goto(r, "idle")
    /\ UNCHANGED <<clock, lease, ts, token, fills>>

GateOpen(r) ==
    /\ pc[r] = "gate"
    /\ ReadClock(r) /\ Goto(r, "validate")
    /\ UNCHANGED <<clock, lease, token, fills>>

\* ... and then the row.
ValidatePassed(r) ==
    /\ pc[r] = "validate"
    /\ Owns(r)
    /\ Goto(r, "fill")
    /\ UNCHANGED <<clock, lease, ts, token, fills>>

\* EXECUTION_OWNERSHIP_FENCED stops the runtime like a refused acquire.
ValidateFenced(r) ==
    /\ pc[r] = "validate"
    /\ ~ Owns(r)
    /\ Goto(r, "stopped")
    /\ UNCHANGED <<clock, lease, ts, token, fills>>

\* _persist_pending_paper_position: the fill's own transaction looks at
\* nothing but the position, the lease is not read again.
FillCommitted(r) ==
    /\ pc[r] = "fill"
    /\ fills' = fills \cup {[by |-> r, token |-> token[r], at |-> clock]}
    /\ Goto(r, "idle")
    /\ UNCHANGED <<clock, lease, ts, token>>

FillBusy(r) ==
    /\ pc[r] = "fill"
    /\ Goto(r, "idle")
    /\ UNCHANGED <<clock, lease, ts, token, fills>>
-----------------------------------------------------------------------------
\* Shutdown without a fatal task and without recovery releases the lease.
ReleaseStart(r) ==
    /\ pc[r] = "idle"
    /\ token[r] # 0
    /\ ReadClock(r) /\ Goto(r, "release")
    /\ UNCHANGED <<clock, lease, token, fills>>

\* Mutant: the release UPDATE matches on the account scope alone.
ReleaseAnyRow(r) ==
    /\ pc[r] = "release"
    /\ lease' = [lease EXCEPT !.expires = ts[r]]
    /\ Goto(r, "stopped")
    /\ UNCHANGED <<clock, ts, token, fills>>

\* The UPDATE of release_execution_ownership: a row that is no longer ours,
\* or carries another token, is left alone.
ReleaseCommitted(r) ==
    /\ pc[r] = "release"
    /\ lease' = IF lease.owner = r /\ lease.token = token[r]
                THEN [lease EXCEPT !.expires = ts[r]]
                ELSE lease
    /\ Goto(r, "stopped")
    /\ UNCHANGED <<clock, ts, token, fills>>

\* A crash, a fatal task, a shutdown in recovery or a BUSY release: the row
\* stays as it is and only expiry frees it.
Stop(r) ==
    /\ pc[r] # "stopped"
    /\ Goto(r, "stopped")
    /\ UNCHANGED <<clock, lease, ts, token, fills>>

\* Time passes for everybody; a runtime that has begun the final check reads
\* the row and commits its fill within FillDelay of the instant it read.
Tick ==
    /\ clock < MaxClock
    /\ \A r \in Runtimes : pc[r] \in {"validate", "fill"} => clock < ts[r] + FillDelay
    /\ clock' = clock + 1
    /\ UNCHANGED <<lease, pc, ts, token, fills>>

Step(r) ==
    \/ AcquireStart(r) \/ AcquireGranted(r) \/ AcquireRefused(r) \/ AcquireBusy(r)
    \/ GateBlocked(r) \/ GateOpen(r) \/ ValidatePassed(r) \/ ValidateFenced(r)
    \/ FillCommitted(r) \/ FillBusy(r)
    \/ ReleaseStart(r) \/ ReleaseCommitted(r) \/ Stop(r)

Next == Tick \/ \E r \in Runtimes : Step(r)

Spec == Init /\ [][Next]_vars
-----------------------------------------------------------------------------
OneAuthorizedRuntime ==
    \A r, s \in Runtimes : pc[r] = "fill" /\ pc[s] = "fill" => r = s
FillHistory ==
    \A f, g \in fills :
        /\ f.token = g.token => f.by = g.by
        /\ f.token < g.token => f.at <= g.at

\* The account's fills come from one runtime at a time: two runtimes are never
\* past the final ownership check of _execute together, however old the clock
\* readings of their transactions, and the fencing tokens in the persisted fills
\* tell that history: one token is one runtime, and a newer token never precedes
\* an older one.
ExclusiveFills == OneAuthorizedRuntime /\ FillHistory

FillIsFenced ==
    \A f \in fills' \ fills :
        lease.owner = f.by /\ lease.token = f.token /\ clock < lease.expires
LiveLeaseStands ==
    \A r \in Runtimes :
        lease.owner = r /\ clock < lease.expires /\ pc'[r] = pc[r] => lease' = lease

\* Nobody acts against a live lease.  A fill is persisted only while its runtime
\* still holds the unexpired lease with the token it checked, although the
\* transaction of _persist_pending_paper_position never looks at the lease; and
\* nothing another runtime does, with whatever old clock reading or old token,
\* changes a lease that has not expired (acquire and release of
\* execution_ownership.py only ever touch an expired row or their own).
LeaseIsRespected == [][FillIsFenced /\ LiveLeaseStands]_vars

\* The lease implements one account authority: every owner change opens a new
\* epoch and every fill is recorded by the owner of the current epoch.
Authority == INSTANCE AccountAuthority
    WITH owner <- lease.owner, epoch <- lease.token, ledger <- fills,
         Times <- 0..MaxClock
AuthoritySpec == Authority!Spec
=============================================================================

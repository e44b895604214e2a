-------------------------- MODULE AccountAuthority --------------------------
(***************************************************************************)
(* What the execution-ownership lease promises to everybody else, with no  *)
(* clock, no expiry and no SQL: one execution account has at most one      *)
(* owner at a time, every change of owner opens a new epoch (the fencing   *)
(* token), and every PAPER fill is recorded by the owner of the epoch that *)
(* is current when it is recorded.  ExecutionOwnership implements this.    *)
(***************************************************************************)
EXTENDS Integers

CONSTANTS Runtimes,     \* the runtime startups that may ever own the account
          NoOwner,      \* "no row in execution_account_leases yet"
          Times         \* the instants a fill may carry

VARIABLES owner,        \* the startup that owns the current epoch
          epoch,        \* the fencing token
          ledger        \* the fills recorded: [by, token, at]

vars == <<owner, epoch, ledger>>

Init ==
    /\ owner = NoOwner
    /\ epoch = 0
    /\ ledger = {}

\* A startup that is not the owner becomes the owner of a new epoch.
Grant(r) ==
    /\ owner # r
    /\ owner' = r
    /\ epoch' = epoch + 1
    /\ UNCHANGED ledger

\* The owner of the current epoch, and nobody else, records a fill.
Record(r, t) ==
    /\ owner = r
    /\ ledger' = ledger \cup {[by |-> r, token |-> epoch, at |-> t]}
    /\ UNCHANGED <<owner, epoch>>

Next == \E r \in Runtimes : Grant(r) \/ \E t \in Times : Record(r, t)

Spec == Init /\ [][Next]_vars
=============================================================================

---------------------------- MODULE MCOperatorTools ----------------------------
(***************************************************************************)
(* The programs around the runtime that run one at a time or on their own: *)
(* the guarded pause and resume, the release evidence tools with           *)
(* qualification and finalization, the backtester, the reader of the       *)
(* exchange account, and the system audit.  They share no state that any   *)
(* of the models has, so one program runs in a behaviour and the others    *)
(* stay as they started.  A release without an acknowledgement goes on as  *)
(* one whose acknowledgement has expired, which is a step here.            *)
(***************************************************************************)
EXTENDS OperationLease, ReleaseQualification, BacktestReplay, ReconciliationRead,
        SystemAudit, TLC

VARIABLE program

toolVars == <<program, leaseVars, releaseVars, replayVars, readVars, auditVars>>

ToolsInit ==
    /\ program \in {"lease", "release", "replay", "read", "audit"}
    /\ LeaseInit /\ ReleaseInit /\ ReplayInit /\ ReadInit /\ AuditInit
    /\ ack = "valid"
    /\ program # "release" => canary = NoRow /\ gateRow = NoRow
    /\ program # "read" => Exposure = {}

ToolsNext ==
    /\ UNCHANGED program
    /\ \/ program = "lease" /\ LeaseNext /\ UNCHANGED <<releaseVars, replayVars, readVars, auditVars>>
       \/ program = "release" /\ ReleaseNext /\ UNCHANGED <<leaseVars, replayVars, readVars, auditVars>>
       \/ program = "replay" /\ ReplayNext /\ UNCHANGED <<leaseVars, releaseVars, readVars, auditVars>>
       \/ program = "read" /\ ReadNext /\ UNCHANGED <<leaseVars, releaseVars, replayVars, auditVars>>
       \/ program = "audit" /\ AuditNext /\ UNCHANGED <<leaseVars, releaseVars, replayVars, readVars>>

ToolsSpec == ToolsInit /\ [][ToolsNext]_toolVars

Interchangeable == Permutations(Clients) \cup Permutations(Commands)
=============================================================================

--------------------------- MODULE MCRuntimeStart ---------------------------
(***************************************************************************)
(* TLC instance of what a starting runtime meets: the database it opens    *)
(* (SchemaBootstrap), what it learns of the runtimes before it             *)
(* (RuntimeRecovery) and the lease under which it may execute              *)
(* (ExecutionOwnership).  None has state of another, so a behaviour runs   *)
(* one of them.  Runtimes are interchangeable; startups are not, because a *)
(* configuration says which of them are hosted.                            *)
(***************************************************************************)
EXTENDS ExecutionOwnership, SchemaBootstrap, RuntimeRecovery, TLC

VARIABLE part

startVars == <<part, vars, schemaVars, recoveryVars>>

StartInit ==
    /\ part \in {"schema", "recovery", "ownership"}
    /\ Init /\ SchemaInit /\ RecoveryInit
    /\ part # "schema" => file = NoFileYet
    /\ part # "recovery" => ~ switch /\ ~ account

StartNext ==
    /\ UNCHANGED part
    /\ \/ part = "ownership" /\ Next /\ UNCHANGED <<schemaVars, recoveryVars>>
       \/ part = "schema" /\ SchemaNext /\ UNCHANGED <<vars, recoveryVars>>
       \/ part = "recovery" /\ RecoveryNext /\ UNCHANGED <<vars, schemaVars>>

StartSpec == StartInit /\ [][StartNext]_startVars

Symmetry == Permutations(Runtimes)
=============================================================================

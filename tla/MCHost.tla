------------------------------- MODULE MCHost -------------------------------
(***************************************************************************)
(* TLC instance of what surrounds a runtime on its host and must come to   *)
(* an end there: a stop that the dashboard asked for (RuntimeControl) and  *)
(* a cleanup of the database (StorageRetention).  Neither has state of the *)
(* other, so a behaviour runs one of them.  No symmetry: the run checks    *)
(* liveness.                                                               *)
(***************************************************************************)
EXTENDS RuntimeControl, StorageRetention

VARIABLE program

hostVars == <<program, controlVars, vars>>

HostInit ==
    /\ program \in {"control", "storage"}
    /\ ControlInit /\ Init

HostNext ==
    /\ UNCHANGED program
    /\ \/ program = "control" /\ ControlNext /\ UNCHANGED vars
       \/ program = "storage" /\ Next /\ UNCHANGED controlVars

HostSpec == HostInit /\ [][HostNext]_hostVars /\ ControlFairness /\ StorageFairness
=============================================================================

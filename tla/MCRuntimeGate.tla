--------------------------- MODULE MCRuntimeGate ---------------------------
(* TLC instance of RuntimeGate; the .cfg files choose which writers may     *)
(* give up and how the provider may fail.                                   *)
EXTENDS RuntimeGate
=============================================================================

----------------------------- MODULE Processes ------------------------------
(***************************************************************************)
(* The lord processes that share a data directory, the bao roots they are  *)
(* given, and the value of a file or field that is not there.              *)
(***************************************************************************)
CONSTANTS Procs, Roots, None

ASSUME ProcessesAssumption == None \notin Procs
=============================================================================

----------------------------- MODULE MCReports ------------------------------
(***************************************************************************)
(* Instances of Reports for TLC.                                           *)
(***************************************************************************)
EXTENDS Reports, TLC

\* Reporters and handlers are interchangeable (safety runs only).
Symmetry == Permutations(Procs) \cup Permutations(Reporters)
=============================================================================

------------------------------ MODULE Handlers ------------------------------
(***************************************************************************)
(* What the smaller services have in common: request handlers that run     *)
(* their statements one at a time against shared tables, and the clocks of *)
(* the instances they run on, which need not agree.                        *)
(***************************************************************************)
EXTENDS Naturals

CONSTANTS
    Procs,      \* request handlers (or calls) in flight
    Users,      \* accounts
    Clock,      \* readings of Utc::now(): any instance may read any of them
    None        \* no row, no argument, nothing held

ASSUME HandlerAssumption ==
    /\ None \notin Procs /\ None \notin Users
    /\ Clock \subseteq Nat
=============================================================================

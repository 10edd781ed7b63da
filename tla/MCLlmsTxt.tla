----------------------------- MODULE MCLlmsTxt ------------------------------
(* Three datasets of one size, queries of one row, two dates.               *)
EXTENDS LlmsTxt, TLC

MCWeight == [d \in Entries |-> 1]

Symmetry == Permutations(Entries)
=============================================================================

----------------------------- MODULE MCApiKeys ------------------------------
(* Two users, three rows, two rotations at a time, clocks one tick apart.  *)
EXTENDS ApiKeys, TLC

Symmetry == Permutations(Keys) \cup Permutations(Rotators)
            \cup Permutations(Users) \cup Permutations(Grants)
=============================================================================

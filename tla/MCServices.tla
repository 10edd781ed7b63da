----------------------------- MODULE MCServices -----------------------------
(* A small instance of every service.  The sets of the services overlap, so *)
(* that a few permutations cover them all: x1 is a session, a submission, a *)
(* target, an identity, a key, a pair and an origin, each in its own part.  *)
EXTENDS Services, TLC

\* No set has a distinguished member, and no property is a liveness property.
Symmetry == Permutations(Procs) \cup Permutations(Users)
            \cup Permutations(CommentIds) \cup Permutations(Targets)

MCWeight == [d \in Entries |-> 1]
MCMerit == [d \in Datasets |-> 1]
=============================================================================

----------------------------- MODULE MCAccounts -----------------------------
(* Instances of Accounts for TLC.                                          *)
EXTENDS Accounts, TLC

Symmetry == Permutations(Accounts) \cup Permutations(Emails) \cup Permutations(Passwords)
            \cup Permutations(Tokens) \cup Permutations(Handlers)
=============================================================================

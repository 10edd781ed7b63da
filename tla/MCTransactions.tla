--------------------------- MODULE MCTransactions ---------------------------
(* API keys, email accounts and reports side by side, one of them observed  *)
(* at a time: they share no row and no lock, and no property relates two of *)
(* them.  Their sets overlap, so that a few permutations cover them all.    *)
EXTENDS ApiKeys, Accounts, Reports, TLC

VARIABLE part   \* the service that is observed

\* No set has a distinguished member, and no property is a liveness property.
Symmetry == Permutations(Handlers) \cup Permutations(Accounts)
            \cup Permutations(Tokens) \cup Permutations(Passwords)

allVars == <<part, keyVars, accountVars, vars>>

TransactionsInit ==
    part \in {"keys", "accounts", "reports"} /\ KeyInit /\ AccountsInit /\ Init

\* Only the observed service moves.
TransactionsNext ==
    /\ UNCHANGED part
    /\ \/ part = "keys" /\ KeyNext /\ UNCHANGED <<accountVars, vars>>
       \/ part = "accounts" /\ AccountsNext /\ UNCHANGED <<keyVars, vars>>
       \/ part = "reports" /\ Next /\ UNCHANGED <<keyVars, accountVars>>

TransactionsSpec == TransactionsInit /\ [][TransactionsNext]_allVars
=============================================================================

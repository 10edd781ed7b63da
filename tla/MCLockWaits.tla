---------------------------- MODULE MCLockWaits -----------------------------
(* The two services whose calls wait for each other's locks, one at a time: *)
(* ratings of two targets whose advisory keys collide, and reports on one   *)
(* comment, each with two handlers and two users.                           *)
EXTENDS Ratings

VARIABLES
    part,                                    \* the service that is observed
    report, row, targetLock, reportLock, filing

Rep == INSTANCE Reports WITH
    Reporters <- Users, Comments <- {"comment"}, Submissions <- {}, Reasons <- {"spam"},
    Threshold <- 2, tx <- filing

MCScores == {1, 5}
MCLockKey == [t \in Targets |-> CHOOSE k \in LockKeys : TRUE]

reportVars == <<report, row, targetLock, reportLock, filing>>

allVars == <<part, vars, reportVars>>

\* Only the observed service moves.
Rating(A) == part = "ratings" /\ A /\ UNCHANGED <<part, reportVars>>
Reporting(A) == part = "reports" /\ A /\ UNCHANGED <<part, vars>>

LockWaitsInit == part \in {"ratings", "reports"} /\ Init /\ Rep!Init

LockWaitsNext == Rating(Next) \/ Reporting(Rep!Next)

\* PostgreSQL queues the waiters of a row lock and of an advisory lock, so a
\* handler that waits gets it in its turn.
LockWaitsSpec ==
    /\ LockWaitsInit /\ [][LockWaitsNext]_allVars
    /\ \A p \in Procs : SF_allVars(Rating(Step(p)) \/ Reporting(Rep!Step(p)))
-----------------------------------------------------------------------------
\* Every rating, withdrawal, filing and disposition ends, with or without its
\* effect: nobody waits for a lock for ever (rating_repo.rs:149-202,
\* report_repo.rs:514-518).
EveryCallEnds == \A p \in Procs :
    tx[p].pc # "idle" \/ filing[p].pc # "idle" ~> tx[p].pc = "idle" /\ filing[p].pc = "idle"
=============================================================================

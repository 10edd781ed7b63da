------------------------------- MODULE Ratings -------------------------------
(***************************************************************************)
(* crates/storage/src/rating_repo.rs: `upsert` and `withdraw` write one    *)
(* row of `ratings` and then refresh the cached row of `rating_aggregates` *)
(* in the same transaction, behind an advisory lock per target.  READ      *)
(* COMMITTED: a statement sees the committed rows and the writes of its    *)
(* own transaction, which are in tx[p] until its COMMIT.                   *)
(***************************************************************************)
EXTENDS Integers, FiniteSets, FiniteSetsExt

CONSTANTS
    Users,      \* raters whose account is old enough
    Targets,    \* datasets, tools, connectors, playgrounds
    Scores,     \* the scores used, some of 1 .. 5
    LockKeys,   \* 64-bit keys of pg_advisory_xact_lock
    LockKey,    \* advisory_lock_key: two targets may share a key
    Procs,      \* request handlers, each with one transaction at a time
    None        \* no row, no lock holder, no argument

ASSUME RatingAssumption ==
    /\ Scores \subseteq 1 .. 5
    /\ IsFiniteSet(Users)
    /\ LockKey \in [Targets -> LockKeys]
    /\ None \notin Procs /\ None \notin Scores /\ None \notin Users /\ None \notin Targets

VARIABLES
    rating,     \* rating[t][u], the committed score, or None
    aggregate,  \* aggregate[t], the committed row of rating_aggregates
    rowLock,    \* who wrote the row of t and u and has not committed
    advisory,   \* who holds an advisory lock
    tx          \* the transaction of each handler

vars == <<rating, aggregate, rowLock, advisory, tx>>

\* The ratings of one target; SUM and COUNT over them (AVG is SUM / COUNT,
\* and 0 when nothing is counted).
Ratings == [Users -> Scores \cup {None}]
Raters(ratings) == {u \in Users : ratings[u] # None}
Aggregate(ratings) ==
    [sum |-> MapThenSumSet(LAMBDA u : ratings[u], Raters(ratings)),
     count |-> Cardinality(Raters(ratings))]
Aggregates == {Aggregate(ratings) : ratings \in Ratings}

ASSUME NullIsNoRow == None \notin Aggregates

PC == {"idle", "write", "lock", "refresh", "commit"}
Tx == [pc : PC, user : Users \cup {None}, target : Targets \cup {None},
       score : Scores \cup {None}, wrote : BOOLEAN, aggregate : Aggregates \cup {None}]
NoTx == [pc |-> "idle", user |-> None, target |-> None,
         score |-> None, wrote |-> FALSE, aggregate |-> None]

TypeOK ==
    /\ rating \in [Targets -> Ratings]
    /\ aggregate \in [Targets -> Aggregates \cup {None}]
    /\ rowLock \in [Targets -> [Users -> Procs \cup {None}]]
    /\ advisory \in [LockKeys -> Procs \cup {None}]
    /\ tx \in [Procs -> Tx]

Init ==
    /\ rating = [t \in Targets |-> [u \in Users |-> None]]
    /\ aggregate = [t \in Targets |-> None]
    /\ rowLock = [t \in Targets |-> [u \in Users |-> None]]
    /\ advisory = [k \in LockKeys |-> None]
    /\ tx = [p \in Procs |-> NoTx]

\* COMMIT and ROLLBACK alike: the handler is idle and its locks are free.
End(p) ==
    /\ tx' = [tx EXCEPT ![p] = NoTx]
    /\ rowLock' = [t \in Targets |->
                     [u \in Users |-> IF rowLock[t][u] = p THEN None ELSE rowLock[t][u]]]
    /\ advisory' = [k \in LockKeys |-> IF advisory[k] = p THEN None ELSE advisory[k]]

Key(p) == LockKey[tx[p].target]

\* Mutant: a withdrawal takes the advisory lock before it deletes.
BeginLocked(p, u, t, score) ==
    /\ tx[p].pc = "idle"
    /\ tx' = [tx EXCEPT ![p] = [NoTx EXCEPT !.pc = "write", !.user = u,
                                            !.target = t, !.score = score]]
    /\ IF score = None
       THEN advisory[LockKey[t]] = None /\ advisory' = [advisory EXCEPT ![LockKey[t]] = p]
       ELSE UNCHANGED advisory
    /\ UNCHANGED <<rating, aggregate, rowLock>>

\* upsert(u, t, score), or withdraw(u, t) when score is None.
Begin(p, u, t, score) ==
    /\ tx[p].pc = "idle"
    /\ tx' = [tx EXCEPT ![p] = [NoTx EXCEPT !.pc = "write", !.user = u,
                                            !.target = t, !.score = score]]
    /\ UNCHANGED <<rating, aggregate, rowLock, advisory>>

\* INSERT .. ON CONFLICT DO UPDATE, or DELETE.  A DELETE that sees no row
\* waits for nobody; any other write waits for the row's other writer.
WriteRating(p) ==
    LET u == tx[p].user
        t == tx[p].target
    IN  /\ tx[p].pc = "write"
        /\ \/ /\ tx[p].score = None /\ rating[t][u] = None
              /\ tx' = [tx EXCEPT ![p] = [@ EXCEPT !.pc = "lock"]]
              /\ UNCHANGED rowLock
           \/ /\ tx[p].score # None \/ rating[t][u] # None
              /\ rowLock[t][u] = None
              /\ rowLock' = [rowLock EXCEPT ![t] = [@ EXCEPT ![u] = p]]
              /\ tx' = [tx EXCEPT ![p] = [@ EXCEPT !.pc = "lock", !.wrote = TRUE]]
        /\ UNCHANGED <<rating, aggregate, advisory>>

\* Mutant: the recompute is not serialised.
LockNothing(p) ==
    /\ tx[p].pc = "lock"
    /\ tx' = [tx EXCEPT ![p] = [@ EXCEPT !.pc = "refresh"]]
    /\ UNCHANGED <<rating, aggregate, rowLock, advisory>>

\* SELECT pg_advisory_xact_lock(advisory_lock_key(t)); its holder may take
\* it again.
LockAggregate(p) ==
    /\ tx[p].pc = "lock"
    /\ advisory[Key(p)] \in {None, p}
    /\ advisory' = [advisory EXCEPT ![Key(p)] = p]
    /\ tx' = [tx EXCEPT ![p] = [@ EXCEPT !.pc = "refresh"]]
    /\ UNCHANGED <<rating, aggregate, rowLock>>

\* The ratings of p's target as p sees them.
SeenBy(p) ==
    IF tx[p].wrote THEN [rating[tx[p].target] EXCEPT ![tx[p].user] = tx[p].score]
                   ELSE rating[tx[p].target]

\* INSERT INTO rating_aggregates SELECT AVG, COUNT .. ON CONFLICT DO UPDATE.
Refresh(p) ==
    /\ tx[p].pc = "refresh"
    /\ tx' = [tx EXCEPT ![p] = [@ EXCEPT !.pc = "commit", !.aggregate = Aggregate(SeenBy(p))]]
    /\ UNCHANGED <<rating, aggregate, rowLock, advisory>>

Commit(p) ==
    /\ tx[p].pc = "commit"
    /\ rating' = [rating EXCEPT ![tx[p].target] = SeenBy(p)]
    /\ aggregate' = [aggregate EXCEPT ![tx[p].target] = tx[p].aggregate]
    /\ End(p)

\* A failed statement, a lost connection or a dropped request future.
Abort(p) ==
    /\ tx[p].pc # "idle"
    /\ End(p)
    /\ UNCHANGED <<rating, aggregate>>

Step(p) == WriteRating(p) \/ LockAggregate(p) \/ Refresh(p) \/ Commit(p)

Next ==
    \E p \in Procs :
        \/ \E u \in Users, t \in Targets, score \in Scores \cup {None} : Begin(p, u, t, score)
        \/ Step(p)
        \/ Abort(p)

\* PostgreSQL queues the waiters of a row lock and of an advisory lock.
Spec == Init /\ [][Next]_vars /\ \A p \in Procs : SF_vars(Step(p))
-----------------------------------------------------------------------------
(* The inductive invariant the proofs rest on (RatingsProofs).             *)

Refreshing == {"refresh", "commit"}

ArgsInv == \A p \in Procs : tx[p].pc # "idle" => tx[p].user \in Users /\ tx[p].target \in Targets

\* The row is held from the statement that writes it, the advisory lock from
\* the statement that takes it, both to the end and by nobody else.
LockInv ==
    \A p \in Procs :
        /\ tx[p].wrote => rowLock[tx[p].target][tx[p].user] = p
        /\ tx[p].wrote => tx[p].pc \notin {"idle", "write"}
        /\ tx[p].pc \in Refreshing => advisory[Key(p)] = p
        /\ \A t \in Targets, u \in Users :
              rowLock[t][u] = p => tx[p].pc \notin {"idle", "write"}
        /\ \A k \in LockKeys : advisory[k] = p => tx[p].pc \in Refreshing

\* What a transaction computed is what it would compute now.
PendingInv ==
    \A p \in Procs : tx[p].pc = "commit" => tx[p].aggregate = Aggregate(SeenBy(p))

-----------------------------------------------------------------------------
(* Properties.                                                             *)

\* No observer ever sees the ratings of a target and its cached aggregate
\* disagree: neither half of a write alone, nor the result of two writers
\* that each missed the other's row (rating_repo.rs:288-304).
AggregateMatches ==
    \A t \in Targets :
        IF aggregate[t] = None THEN Raters(rating[t]) = {}
                               ELSE aggregate[t] = Aggregate(rating[t])

IInv == TypeOK /\ ArgsInv /\ LockInv /\ PendingInv /\ AggregateMatches

WaitsFor(p, q) ==
    /\ p # q
    /\ \/ tx[p].pc = "write" /\ rowLock[tx[p].target][tx[p].user] = q
       \/ tx[p].pc = "lock" /\ advisory[Key(p)] = q

\* Writers take the rating's row, then the target's advisory lock, so no set
\* of handlers waits for itself, even when two targets share a lock key
\* (rating_repo.rs:149-202, 321-325, 376-381).
NoWaitCycle ==
    \A S \in (SUBSET Procs) \ {{}} : \E p \in S : \A q \in S : ~WaitsFor(p, q)
=============================================================================

--------------------------- MODULE RatingsProofs ----------------------------
(***************************************************************************)
(* Proofs about Ratings, for any raters, targets, lock keys and handlers.  *)
(* AVG and COUNT stay opaque: what is proved is that the cached pair is    *)
(* the one of the committed ratings, whatever the pair is computed from.   *)
(***************************************************************************)
EXTENDS Ratings, TLAPS

LEMMA NoTxType == NoTx \in Tx
  BY DEF NoTx, Tx, PC

LEMMA WroteType ==
    ASSUME NEW x \in Tx
    PROVE  [x EXCEPT !.pc = "lock"] \in Tx /\ [x EXCEPT !.pc = "lock", !.wrote = TRUE] \in Tx
  BY DEF Tx, PC

\* What p sees of its target is a row of ratings.
LEMMA SeenType ==
    ASSUME TypeOK, NEW p \in Procs, tx[p].target \in Targets
    PROVE  SeenBy(p) \in Ratings
  BY DEF TypeOK, SeenBy, Ratings, Tx

\* Type correctness is preserved; a refresh and a commit need the target.
LEMMA TypeStep ==
    ASSUME TypeOK, ArgsInv, [Next]_vars
    PROVE  TypeOK'
<1>1. ASSUME NEW p \in Procs, NEW u \in Users, NEW t \in Targets,
             NEW score \in Scores \cup {None}, Begin(p, u, t, score)
      PROVE  TypeOK'
  BY <1>1, NoTxType DEF TypeOK, Begin, NoTx, Tx, PC
<1>2. ASSUME NEW p \in Procs, End(p)
      PROVE  /\ tx' \in [Procs -> Tx]
             /\ rowLock' \in [Targets -> [Users -> Procs \cup {None}]]
             /\ advisory' \in [LockKeys -> Procs \cup {None}]
  BY <1>2, NoTxType DEF TypeOK, End
<1>3. ASSUME NEW p \in Procs, Step(p) PROVE TypeOK'
  <2>1. CASE WriteRating(p)
    <3>1. \/ tx' = [tx EXCEPT ![p] = [@ EXCEPT !.pc = "lock"]]
          \/ tx' = [tx EXCEPT ![p] = [@ EXCEPT !.pc = "lock", !.wrote = TRUE]]
      BY <2>1 DEF WriteRating
    <3>4. tx' \in [Procs -> Tx]
      <4>1. tx[p] \in Tx
        BY <1>3 DEF TypeOK
      <4>2. \E x \in Tx : tx' = [tx EXCEPT ![p] = x]
        BY <3>1, <4>1, WroteType
      <4>3. QED BY <4>2 DEF TypeOK
    <3>2. rowLock' \in [Targets -> [Users -> Procs \cup {None}]]
      BY <2>1, <1>3 DEF TypeOK, WriteRating, ArgsInv
    <3>3. QED BY <2>1, <3>4, <3>2 DEF TypeOK, WriteRating
  <2>2. CASE LockAggregate(p)
    BY <2>2, <1>3 DEF TypeOK, LockAggregate, Tx, PC
  <2>3. CASE Refresh(p)
    <3>1. tx[p].target \in Targets
      BY <2>3, <1>3 DEF Refresh, ArgsInv
    <3> DEFINE agg == Aggregate(SeenBy(p))
    <3>2. agg \in Aggregates
      BY <3>1, <1>3, SeenType DEF Aggregates
    <3>3. tx' = [tx EXCEPT ![p] = [@ EXCEPT !.pc = "commit", !.aggregate = agg]]
      BY <2>3 DEF Refresh
    <3> HIDE DEF agg
    <3> DEFINE next == [tx[p] EXCEPT !.pc = "commit", !.aggregate = agg]
    <3>4. next \in Tx
      BY <3>2, <1>3 DEF TypeOK, Tx, PC
    <3>5. tx' = [tx EXCEPT ![p] = next]
      BY <3>3
    <3> HIDE DEF next
    <3>6. tx' \in [Procs -> Tx]
      BY <3>4, <3>5 DEF TypeOK
    <3>7. QED BY <2>3, <3>6 DEF TypeOK, Refresh
  <2>4. CASE Commit(p)
    <3>1. tx[p].target \in Targets /\ tx[p].aggregate \in Aggregates \cup {None}
      BY <2>4, <1>3 DEF Commit, ArgsInv, TypeOK, Tx
    <3>2. rating' \in [Targets -> Ratings]
      BY <2>4, <1>3, <3>1, SeenType DEF Commit, TypeOK
    <3>3. aggregate' \in [Targets -> Aggregates \cup {None}]
      BY <2>4, <3>1 DEF Commit, TypeOK
    <3>4. QED BY <2>4, <1>2, <1>3, <3>2, <3>3 DEF Commit, TypeOK
  <2>5. QED BY <1>3, <2>1, <2>2, <2>3, <2>4 DEF Step
<1>4. ASSUME NEW p \in Procs, Abort(p) PROVE TypeOK'
  BY <1>2, <1>4 DEF TypeOK, Abort
<1>5. CASE UNCHANGED vars
  BY <1>5 DEF TypeOK, vars
<1>6. QED BY <1>1, <1>3, <1>4, <1>5 DEF Next

-----------------------------------------------------------------------------
\* What each action of handler p does to p, to the other handlers and to the
\* locks; the invariants below are proved from these facts.
OthersKeep(p) == \A q \in Procs \ {p} : tx'[q] = tx[q]
KeepsArgs(p) ==
    /\ tx'[p].user = tx[p].user /\ tx'[p].target = tx[p].target
    /\ tx'[p].score = tx[p].score
    /\ OthersKeep(p)

Ends(p) ==
    /\ tx'[p] = NoTx /\ OthersKeep(p)
    /\ \A t \in Targets, u \in Users : \A q \in Procs :
          rowLock'[t][u] = q <=> q # p /\ rowLock[t][u] = q
    /\ \A k \in LockKeys : \A q \in Procs : advisory'[k] = q <=> q # p /\ advisory[k] = q

LEMMA EndEffect ==
    ASSUME TypeOK, NEW p \in Procs, End(p)
    PROVE  Ends(p)
  BY RatingAssumption DEF TypeOK, End, Ends, OthersKeep

Begins(p) ==
    /\ tx[p].pc = "idle" /\ tx'[p].pc = "write" /\ ~tx'[p].wrote
    /\ tx'[p].user \in Users /\ tx'[p].target \in Targets
    /\ OthersKeep(p)
    /\ UNCHANGED <<rating, aggregate, rowLock, advisory>>

LEMMA BeginEffect ==
    ASSUME TypeOK, NEW p \in Procs, NEW u \in Users, NEW t \in Targets,
           NEW score \in Scores \cup {None}, Begin(p, u, t, score)
    PROVE  Begins(p)
  BY DEF TypeOK, Begin, Begins, OthersKeep, NoTx

Writes(p) ==
    /\ tx[p].pc = "write" /\ tx'[p].pc = "lock" /\ KeepsArgs(p)
    /\ \/ tx'[p].wrote = tx[p].wrote /\ UNCHANGED rowLock
       \/ /\ tx'[p].wrote /\ rowLock[tx[p].target][tx[p].user] = None
          /\ rowLock' = [rowLock EXCEPT ![tx[p].target] = [@ EXCEPT ![tx[p].user] = p]]
    /\ UNCHANGED <<rating, aggregate, advisory>>

LEMMA WriteEffect ==
    ASSUME TypeOK, NEW p \in Procs, WriteRating(p)
    PROVE  Writes(p)
<1>1. CASE tx' = [tx EXCEPT ![p] = [@ EXCEPT !.pc = "lock"]] /\ UNCHANGED rowLock
  <2>1. tx'[p].pc = "lock" /\ tx'[p].wrote = tx[p].wrote /\ KeepsArgs(p)
    BY <1>1 DEF TypeOK, KeepsArgs, OthersKeep, Tx
  <2>2. QED BY <1>1, <2>1 DEF WriteRating, Writes
<1>2. CASE /\ rowLock[tx[p].target][tx[p].user] = None
           /\ rowLock' = [rowLock EXCEPT ![tx[p].target] = [@ EXCEPT ![tx[p].user] = p]]
           /\ tx' = [tx EXCEPT ![p] = [@ EXCEPT !.pc = "lock", !.wrote = TRUE]]
  <2>1. tx'[p].pc = "lock" /\ tx'[p].wrote /\ KeepsArgs(p)
    BY <1>2 DEF TypeOK, KeepsArgs, OthersKeep, Tx
  <2>2. QED BY <1>2, <2>1 DEF WriteRating, Writes
<1>3. QED BY <1>1, <1>2 DEF WriteRating

Locks(p) ==
    /\ tx[p].pc = "lock" /\ tx'[p].pc = "refresh" /\ tx'[p].wrote = tx[p].wrote
    /\ KeepsArgs(p)
    /\ advisory[Key(p)] \in {None, p} /\ advisory' = [advisory EXCEPT ![Key(p)] = p]
    /\ UNCHANGED <<rating, aggregate, rowLock>>

LEMMA LockEffect ==
    ASSUME TypeOK, NEW p \in Procs, LockAggregate(p)
    PROVE  Locks(p)
  BY DEF TypeOK, LockAggregate, Locks, KeepsArgs, OthersKeep, Tx

Refreshes(p) ==
    /\ tx[p].pc = "refresh" /\ tx'[p].pc = "commit" /\ tx'[p].wrote = tx[p].wrote
    /\ tx'[p].aggregate = Aggregate(SeenBy(p))
    /\ KeepsArgs(p)
    /\ UNCHANGED <<rating, aggregate, rowLock, advisory>>

LEMMA RefreshEffect ==
    ASSUME TypeOK, NEW p \in Procs, Refresh(p)
    PROVE  Refreshes(p)
<1> DEFINE agg == Aggregate(SeenBy(p))
<1>1. tx' = [tx EXCEPT ![p] = [@ EXCEPT !.pc = "commit", !.aggregate = agg]]
  BY DEF Refresh
<1> HIDE DEF agg
<1>2. tx'[p].aggregate = agg /\ tx'[p].pc = "commit" /\ tx'[p].wrote = tx[p].wrote /\ KeepsArgs(p)
  BY <1>1 DEF TypeOK, Tx, KeepsArgs, OthersKeep
<1>3. QED BY <1>2 DEF Refreshes, Refresh, agg

\* Every step is one of these.
Effect ==
    \/ \E p \in Procs :
        \/ Begins(p) \/ Writes(p) \/ Locks(p) \/ Refreshes(p)
        \/ Commit(p) /\ Ends(p)
        \/ Ends(p) /\ UNCHANGED <<rating, aggregate>>
    \/ UNCHANGED vars

LEMMA StepEffect ==
    ASSUME TypeOK, [Next]_vars
    PROVE  Effect
<1>1. ASSUME NEW p \in Procs,
             \/ \E u \in Users, t \in Targets, score \in Scores \cup {None} : Begin(p, u, t, score)
             \/ Step(p) \/ Abort(p)
      PROVE  Effect
  <2>1. CASE \E u \in Users, t \in Targets, score \in Scores \cup {None} : Begin(p, u, t, score)
    BY <2>1, BeginEffect DEF Effect
  <2>2. CASE WriteRating(p)
    BY <2>2, WriteEffect DEF Effect
  <2>3. CASE LockAggregate(p)
    BY <2>3, LockEffect DEF Effect
  <2>4. CASE Refresh(p)
    BY <2>4, RefreshEffect DEF Effect
  <2>5. CASE Commit(p)
    <3>1. Ends(p)
      BY <2>5, EndEffect DEF Commit
    <3>2. QED BY <2>5, <3>1 DEF Effect
  <2>6. CASE Abort(p)
    <3>1. Ends(p) /\ UNCHANGED <<rating, aggregate>>
      BY <2>6, EndEffect DEF Abort
    <3>2. QED BY <3>1 DEF Effect
  <2>7. QED BY <1>1, <2>1, <2>2, <2>3, <2>4, <2>5, <2>6 DEF Step
<1>2. QED BY <1>1 DEF Next, Effect
-----------------------------------------------------------------------------
\* The conjuncts of the inductive invariant.
LEMMA ArgsStep ==
    ASSUME TypeOK, ArgsInv, Effect
    PROVE  ArgsInv'
<1>1. ASSUME NEW p \in Procs, Begins(p) PROVE ArgsInv'
  BY <1>1 DEF ArgsInv, Begins, OthersKeep
<1>2. ASSUME NEW p \in Procs, Writes(p) \/ Locks(p) \/ Refreshes(p) PROVE ArgsInv'
  BY <1>2 DEF ArgsInv, Writes, Locks, Refreshes, KeepsArgs, OthersKeep
<1>3. ASSUME NEW p \in Procs, Ends(p) PROVE ArgsInv'
  BY <1>3 DEF ArgsInv, Ends, OthersKeep, NoTx
<1>4. CASE UNCHANGED vars
  BY <1>4 DEF ArgsInv, vars
<1>5. QED BY <1>1, <1>2, <1>3, <1>4 DEF Effect

LEMMA LockStep ==
    ASSUME TypeOK, ArgsInv, LockInv, Effect
    PROVE  LockInv'
<1>1. ASSUME NEW p \in Procs, Begins(p) PROVE LockInv'
  BY <1>1 DEF LockInv, Begins, OthersKeep, Key, Refreshing
<1>2. ASSUME NEW p \in Procs, Writes(p) PROVE LockInv'
  <2>1. CASE tx'[p].wrote = tx[p].wrote /\ UNCHANGED rowLock
    BY <1>2, <2>1 DEF LockInv, Writes, KeepsArgs, OthersKeep, Key, Refreshing
  <2>2. CASE /\ tx'[p].wrote /\ rowLock[tx[p].target][tx[p].user] = None
             /\ rowLock' = [rowLock EXCEPT ![tx[p].target] = [@ EXCEPT ![tx[p].user] = p]]
    <3>1. tx[p].target \in Targets /\ tx[p].user \in Users
      BY <1>2 DEF ArgsInv, Writes
    <3>2. rowLock'[tx[p].target][tx[p].user] = p
      BY <2>2, <3>1 DEF TypeOK
    <3>3. \A t \in Targets, u \in Users : \A q \in Procs :
             q # p => (rowLock'[t][u] = q <=> rowLock[t][u] = q)
      BY <2>2, <3>1, RatingAssumption DEF TypeOK
    <3>4. QED BY <1>2, <2>2, <3>1, <3>2, <3>3
              DEF LockInv, ArgsInv, Writes, KeepsArgs, OthersKeep, Key, Refreshing
  <2>3. QED BY <1>2, <2>1, <2>2 DEF Writes
<1>3. ASSUME NEW p \in Procs, Locks(p) PROVE LockInv'
  <2>1. Key(p) \in LockKeys
    BY <1>3, RatingAssumption DEF Locks, ArgsInv, Key
  <2>2. advisory'[Key(p)] = p
    BY <1>3, <2>1 DEF Locks, TypeOK
  <2>3. \A k \in LockKeys : \A q \in Procs : q # p => (advisory'[k] = q <=> advisory[k] = q)
    BY <1>3, <2>1, RatingAssumption DEF Locks, TypeOK
  <2>4. \A q \in Procs : tx[q].pc \in Refreshing => Key(q) \in LockKeys
    BY RatingAssumption DEF ArgsInv, Key, Refreshing
  <2>5. QED BY <1>3, <2>1, <2>2, <2>3, <2>4
            DEF LockInv, Locks, KeepsArgs, OthersKeep, Key, Refreshing
<1>4. ASSUME NEW p \in Procs, Refreshes(p) PROVE LockInv'
  BY <1>4 DEF LockInv, Refreshes, KeepsArgs, OthersKeep, Key, Refreshing
<1>5. ASSUME NEW p \in Procs, Ends(p) PROVE LockInv'
  <2>1. \A q \in Procs : tx[q].pc \in Refreshing => Key(q) \in LockKeys
    BY RatingAssumption DEF ArgsInv, Key, Refreshing
  <2>2. QED BY <1>5, <2>1 DEF LockInv, ArgsInv, Ends, OthersKeep, Key, Refreshing, NoTx
<1>6. CASE UNCHANGED vars
  BY <1>6 DEF LockInv, Key, vars
<1>7. QED BY <1>1, <1>2, <1>3, <1>4, <1>5, <1>6 DEF Effect

\* Whoever commits holds the advisory lock of its target, so nobody else has
\* an aggregate of that target pending.
LEMMA PendingStep ==
    ASSUME TypeOK, ArgsInv, LockInv, PendingInv, Effect
    PROVE  PendingInv'
<1>1. ASSUME NEW p \in Procs, Begins(p) PROVE PendingInv'
  BY <1>1 DEF PendingInv, Begins, OthersKeep, SeenBy
<1>2. ASSUME NEW p \in Procs, Writes(p) PROVE PendingInv'
  BY <1>2 DEF PendingInv, Writes, KeepsArgs, OthersKeep, SeenBy
<1>3. ASSUME NEW p \in Procs, Locks(p) PROVE PendingInv'
  BY <1>3 DEF PendingInv, Locks, KeepsArgs, OthersKeep, SeenBy
<1>4. ASSUME NEW p \in Procs, Refreshes(p) PROVE PendingInv'
  BY <1>4 DEF PendingInv, Refreshes, KeepsArgs, OthersKeep, SeenBy
<1>5. ASSUME NEW p \in Procs, Ends(p), Commit(p) PROVE PendingInv'
  <2> SUFFICES ASSUME NEW q \in Procs, tx'[q].pc = "commit"
               PROVE  tx'[q].aggregate = Aggregate(SeenBy(q))'
    BY DEF PendingInv
  <2>1. q # p /\ tx'[q] = tx[q]
    BY <1>5 DEF Ends, OthersKeep, NoTx
  <2>2. Key(p) # Key(q)
    BY <1>5, <2>1 DEF LockInv, Refreshing, Commit
  <2>3. tx[p].target # tx[q].target
    BY <2>2 DEF Key
  <2>4. tx[p].target \in Targets /\ tx[q].target \in Targets
    BY <1>5, <2>1 DEF ArgsInv, Commit
  <2>5. rating'[tx[q].target] = rating[tx[q].target]
    BY <1>5, <2>3, <2>4 DEF Commit, TypeOK
  <2>6. SeenBy(q)' = SeenBy(q)
    BY <2>1, <2>5 DEF SeenBy
  <2>7. QED BY <2>1, <2>6 DEF PendingInv
<1>6. ASSUME NEW p \in Procs, Ends(p), UNCHANGED <<rating, aggregate>> PROVE PendingInv'
  BY <1>6 DEF PendingInv, Ends, OthersKeep, NoTx, SeenBy
<1>7. CASE UNCHANGED vars
  BY <1>7 DEF PendingInv, SeenBy, vars
<1>8. QED BY <1>1, <1>2, <1>3, <1>4, <1>5, <1>6, <1>7 DEF Effect

LEMMA MatchStep ==
    ASSUME TypeOK, ArgsInv, PendingInv, AggregateMatches, Effect
    PROVE  AggregateMatches'
<1>1. ASSUME NEW p \in Procs, Commit(p) PROVE AggregateMatches'
  <2> SUFFICES ASSUME NEW t \in Targets
               PROVE  IF aggregate'[t] = None THEN Raters(rating'[t]) = {}
                                              ELSE aggregate'[t] = Aggregate(rating'[t])
    BY DEF AggregateMatches
  <2>1. tx[p].target \in Targets
    BY <1>1 DEF Commit, ArgsInv
  <2>2. CASE t = tx[p].target
    <3>1. rating'[t] = SeenBy(p) /\ aggregate'[t] = Aggregate(SeenBy(p))
      BY <1>1, <2>1, <2>2 DEF Commit, TypeOK, PendingInv
    <3>2. Aggregate(SeenBy(p)) # None
      <4>1. SeenBy(p) \in Ratings
        BY <2>1, SeenType
      <4>2. Aggregate(SeenBy(p)) \in Aggregates
        BY <4>1 DEF Aggregates
      <4>3. QED BY <4>2, NullIsNoRow
    <3>3. QED BY <3>1, <3>2
  <2>3. CASE t # tx[p].target
    <3>1. rating'[t] = rating[t] /\ aggregate'[t] = aggregate[t]
      BY <1>1, <2>3 DEF Commit, TypeOK
    <3>2. QED BY <3>1 DEF AggregateMatches
  <2>4. QED BY <2>2, <2>3
<1>2. CASE UNCHANGED <<rating, aggregate>>
  BY <1>2 DEF AggregateMatches
<1>3. QED BY <1>1, <1>2 DEF Effect, Begins, Writes, Locks, Refreshes, vars
-----------------------------------------------------------------------------
LEMMA InitInv == Init => IInv
<1> SUFFICES ASSUME Init PROVE IInv
  OBVIOUS
<1>1. TypeOK
  BY NoTxType DEF Init, TypeOK, Ratings
<1>2. ArgsInv /\ LockInv /\ PendingInv
  BY RatingAssumption DEF Init, ArgsInv, LockInv, PendingInv, NoTx, Refreshing
<1>3. AggregateMatches
  BY DEF Init, AggregateMatches, Raters
<1>4. QED BY <1>1, <1>2, <1>3 DEF IInv

LEMMA NextInv == IInv /\ [Next]_vars => IInv'
<1> SUFFICES ASSUME IInv, [Next]_vars PROVE IInv'
  OBVIOUS
<1>1. TypeOK /\ ArgsInv /\ LockInv /\ PendingInv /\ AggregateMatches
  BY DEF IInv
<1>2. Effect
  BY <1>1, StepEffect
<1>3. TypeOK'
  BY <1>1, TypeStep
<1>4. QED BY <1>1, <1>2, <1>3, ArgsStep, LockStep, PendingStep, MatchStep DEF IInv

\* The inductive invariant holds in every reachable state.
THEOREM Inductive == Spec => []IInv
  BY InitInv, NextInv, PTL DEF Spec

\* Every state of the two tables, the locks and the handlers is well-formed.
THEOREM TypeCorrect == Spec => []TypeOK
<1>1. IInv => TypeOK
  BY DEF IInv
<1>2. QED BY Inductive, <1>1, PTL

\* The committed aggregate of every target is the one of its committed
\* ratings, for any number of handlers and any lock keys, colliding or not.
THEOREM Matches == Spec => []AggregateMatches
<1>1. IInv => AggregateMatches
  BY DEF IInv
<1>2. QED BY Inductive, <1>1, PTL

\* No set of handlers waits for itself: the holder of an advisory lock waits
\* for nobody, and the holder of a rating's row only for an advisory lock.
THEOREM NoDeadlock == Spec => []NoWaitCycle
<1>1. ASSUME IInv PROVE NoWaitCycle
  <2> SUFFICES ASSUME NEW S \in SUBSET Procs, S # {}
               PROVE  \E p \in S : \A q \in S : ~WaitsFor(p, q)
    BY DEF NoWaitCycle
  <2>1. \A p, q \in Procs : WaitsFor(p, q) => tx[p].pc \in {"write", "lock"}
    BY DEF WaitsFor
  <2>2. \A p, q \in Procs : WaitsFor(p, q) /\ tx[p].pc = "write" => tx[q].pc # "write"
    BY <1>1 DEF IInv, WaitsFor, LockInv, ArgsInv
  <2>3. \A p, q \in Procs : WaitsFor(p, q) /\ tx[p].pc = "lock" => tx[q].pc \in Refreshing
    BY <1>1, RatingAssumption DEF IInv, WaitsFor, LockInv, ArgsInv, Key
  <2>4. CASE \E p \in S : tx[p].pc \notin {"write", "lock"}
    BY <2>1, <2>4
  <2>5. CASE \A p \in S : tx[p].pc = "write"
    BY <2>2, <2>5
  <2>6. CASE /\ \A p \in S : tx[p].pc \in {"write", "lock"}
             /\ \E p \in S : tx[p].pc = "lock"
    BY <2>3, <2>6 DEF Refreshing
  <2>7. QED BY <2>4, <2>5, <2>6
<1>2. QED BY Inductive, <1>1, PTL
=============================================================================

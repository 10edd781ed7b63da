--------------------------- MODULE ReportsProofs ----------------------------
(***************************************************************************)
(* Proofs about Reports, for any sets of reporters, targets and handlers   *)
(* and any threshold.                                                      *)
(***************************************************************************)
EXTENDS Reports, FiniteSetTheorems, TLAPS

\* A row of `reports` names a reporter and a target.
LEMMA KeyParts ==
    ASSUME NEW k \in ReportKeys
    PROVE  k[1] \in Reporters /\ k[2] \in Reportable /\ k = <<k[1], k[2]>>
  BY DEF ReportKeys

\* The row operators keep the rows well-formed.
LEMMA RowTypes ==
    ASSUME NEW rep \in Report, NEW r \in TargetRow, NEW reason \in Reasons,
           NEW action \in Actions, NEW n
    PROVE  /\ Filed(rep, reason) \in Report
           /\ Resolved(rep, action) \in Report
           /\ AfterFiling(r, n) \in TargetRow
           /\ AfterAction(r, action) \in TargetRow
  BY DEF Report, TargetRow, Filed, Resolved, AfterFiling, AfterAction

\* Rewriting the pending fields of a transaction.
LEMMA TxUpserted ==
    ASSUME NEW x \in Tx, NEW rep \in Report
    PROVE  [x EXCEPT !.pc = "count", !.report = rep] \in Tx
  BY DEF Tx, PC

LEMMA TxCounted ==
    ASSUME NEW x \in Tx, NEW r \in TargetRow, NEW b \in BOOLEAN
    PROVE  [x EXCEPT !.pc = "inserted", !.row = r, !.fresh = b] \in Tx
  BY DEF Tx, PC

LEMMA TxResolved ==
    ASSUME NEW x \in Tx, NEW rep \in Report, NEW r \in TargetRow
    PROVE  [x EXCEPT !.pc = "resolved", !.report = rep, !.row = r] \in Tx
  BY DEF Tx, PC

LEMMA NoTxType == NoTx \in Tx
  BY DEF NoTx, Tx, PC, Report, TargetRow, Unfiled, BlankRow

-----------------------------------------------------------------------------
\* End leaves well-formed locks and transactions.
LEMMA EndType ==
    ASSUME TypeOK, NEW p \in Procs, End(p)
    PROVE  /\ tx' \in [Procs -> Tx]
           /\ targetLock' \in [Reportable -> Procs \cup {None}]
           /\ reportLock' \in [ReportKeys -> Procs \cup {None}]
  BY NoTxType DEF TypeOK, End

\* Type correctness is preserved by every action; a commit needs that the
\* handler has a key.
LEMMA TypeStep ==
    ASSUME TypeOK, ArgsInv, [Next]_vars
    PROVE  TypeOK'
<1>1. ASSUME NEW t \in Reportable, Post(t) PROVE TypeOK'
  BY <1>1 DEF TypeOK, Post, TargetRow
<1>2. ASSUME NEW t \in Reportable, AuthorDelete(t) PROVE TypeOK'
  BY <1>2 DEF TypeOK, AuthorDelete, TargetRow
<1>3. ASSUME NEW p \in Procs, NEW k \in ReportKeys, NEW reason \in Reasons, Submit(p, k, reason)
      PROVE TypeOK'
  BY <1>3, NoTxType DEF TypeOK, Submit, NoTx, Tx, PC
<1>4. ASSUME NEW p \in Procs, NEW k \in ReportKeys, NEW action \in Actions, Disposition(p, k, action)
      PROVE TypeOK'
  BY <1>4, NoTxType DEF TypeOK, Disposition, NoTx, Tx, PC
<1>5. ASSUME NEW p \in Procs, Step(p) PROVE TypeOK'
  <2>1. CASE ProbeTarget(p)
    BY <2>1, <1>5, EndType DEF TypeOK, ProbeTarget, Tx, PC
  <2>2. CASE UpsertReport(p)
    <3>1. tx[p].key \in ReportKeys /\ tx[p].reason \in Reasons
      BY <2>2 DEF ArgsInv, UpsertReport, Inserting
    <3>2. Filed(report[tx[p].key], tx[p].reason) \in Report
      BY <3>1, <1>5 DEF TypeOK, Report, Filed
    <3> DEFINE rep == Filed(report[tx[p].key], tx[p].reason)
    <3>3. tx' = [tx EXCEPT ![p] = [@ EXCEPT !.pc = "count", !.report = rep]] /\ rep \in Report
      BY <2>2, <3>2 DEF UpsertReport
    <3> HIDE DEF rep
    <3>4. tx' \in [Procs -> Tx]
      BY <3>3, TxUpserted DEF TypeOK
    <3>5. reportLock' \in [ReportKeys -> Procs \cup {None}]
      BY <2>2, <3>1 DEF UpsertReport, TypeOK
    <3>6. QED BY <2>2, <3>4, <3>5 DEF TypeOK, UpsertReport
  <2>3. CASE CountAndHide(p)
    <3>1. tx[p].key \in ReportKeys
      BY <2>3 DEF ArgsInv, CountAndHide
    <3>2. row[Target(p)] \in TargetRow
      BY <3>1, KeyParts DEF TypeOK, Target
    <3> DEFINE n == Cardinality(OpenReporters(SeenBy(p), Target(p)))
               after == AfterFiling(row[Target(p)], n)
               fresh == after.hidden /\ ~row[Target(p)].hidden
    <3>3. /\ tx' = [tx EXCEPT ![p] = [@ EXCEPT !.pc = "inserted", !.row = after, !.fresh = fresh]]
          /\ fresh \in BOOLEAN
      BY <2>3 DEF CountAndHide
    <3> HIDE DEF n, fresh
    <3>4. after \in TargetRow
      BY <3>2 DEF AfterFiling, TargetRow
    <3> HIDE DEF after
    <3>5. tx' \in [Procs -> Tx]
      BY <3>3, <3>4, TxCounted DEF TypeOK
    <3>6. QED BY <2>3, <3>5 DEF TypeOK, CountAndHide
  <2>4. CASE CommitInsert(p)
    BY <2>4, <1>5, EndType DEF TypeOK, CommitInsert, Commit, Tx
  <2>5. CASE PeekReport(p)
    BY <2>5, <1>5, EndType DEF TypeOK, PeekReport, Tx, PC
  <2>6. CASE LockTarget(p)
    <3> DEFINE next == [tx[p] EXCEPT !.pc = "update"]
    <3>1. tx[p] \in Tx
      BY DEF TypeOK
    <3>2. next \in Tx
      BY <3>1 DEF Tx, PC
    <3>3. tx' = [tx EXCEPT ![p] = next]
      BY <2>6 DEF LockTarget
    <3> HIDE DEF next
    <3>4. tx' \in [Procs -> Tx]
      BY <3>2, <3>3 DEF TypeOK
    <3>5. QED BY <2>6, <3>4 DEF TypeOK, LockTarget
  <2>7. CASE UpdateReport(p)
    <3>1. tx[p].key \in ReportKeys /\ tx[p].action \in Actions
      BY <2>7 DEF ArgsInv, UpdateReport, Resolving, Permitted
    <3>2. report[tx[p].key] \in Report /\ row[Target(p)] \in TargetRow
      BY <3>1, KeyParts DEF TypeOK, Target
    <3>3. /\ Resolved(report[tx[p].key], tx[p].action) \in Report
          /\ AfterAction(row[Target(p)], tx[p].action) \in TargetRow
      BY <3>1, <3>2 DEF Report, TargetRow, Resolved, AfterAction
    <3>4. CASE report[tx[p].key].status = "open"
      <4> DEFINE rep == Resolved(report[tx[p].key], tx[p].action)
                 after == AfterAction(row[Target(p)], tx[p].action)
      <4>1. tx' = [tx EXCEPT ![p] = [@ EXCEPT !.pc = "resolved", !.report = rep, !.row = after]]
        BY <2>7, <3>4 DEF UpdateReport
      <4>2. rep \in Report /\ after \in TargetRow
        BY <3>3
      <4> HIDE DEF rep, after
      <4>3. tx' \in [Procs -> Tx]
        BY <4>1, <4>2, TxResolved DEF TypeOK
      <4>4. reportLock' \in [ReportKeys -> Procs \cup {None}]
        BY <2>7, <3>1, <3>4 DEF UpdateReport, TypeOK
      <4>5. QED BY <2>7, <3>4, <4>3, <4>4 DEF TypeOK, UpdateReport
    <3>5. CASE report[tx[p].key].status # "open"
      BY <2>7, <3>5, EndType DEF TypeOK, UpdateReport
    <3>6. QED BY <3>4, <3>5
  <2>8. CASE CommitResolve(p)
    BY <2>8, <1>5, EndType DEF TypeOK, CommitResolve, Commit, Tx
  <2>9. QED BY <1>5, <2>1, <2>2, <2>3, <2>4, <2>5, <2>6, <2>7, <2>8 DEF Step
<1>6. ASSUME NEW p \in Procs, Abort(p) PROVE TypeOK'
  BY <1>6, EndType DEF TypeOK, Abort
<1>7. CASE UNCHANGED vars
  BY <1>7 DEF TypeOK, vars
<1>8. QED BY <1>1, <1>2, <1>3, <1>4, <1>5, <1>6, <1>7 DEF Next

-----------------------------------------------------------------------------
\* What an action of handler p does to the other handlers, to the locks of
\* others and to p itself; the facts the invariants below are proved from.
LEMMA EndEffect ==
    ASSUME TypeOK, NEW p \in Procs, End(p)
    PROVE  /\ tx'[p] = NoTx
           /\ \A q \in Procs \ {p} : tx'[q] = tx[q]
           /\ \A t \in Reportable : \A q \in Procs :
                 targetLock'[t] = q <=> q # p /\ targetLock[t] = q
           /\ \A k \in ReportKeys : \A q \in Procs :
                 reportLock'[k] = q <=> q # p /\ reportLock[k] = q
  BY ProcAssumption DEF TypeOK, End

\* A statement of p keeps the arguments of its call and touches no other
\* handler's transaction.
OthersKeep(p) == \A q \in Procs \ {p} : tx'[q] = tx[q]
KeepsArgs(p) ==
    /\ tx'[p].key = tx[p].key /\ tx'[p].reason = tx[p].reason
    /\ tx'[p].action = tx[p].action
    /\ OthersKeep(p)

Starts(p) ==
    /\ tx[p].pc = "idle"
    /\ \/ tx'[p].pc = "probe" /\ tx'[p].reason \in Reasons
       \/ /\ tx'[p].pc = "peek" /\ Permitted(tx'[p].action, tx'[p].key[2])
          /\ report[tx'[p].key].status = "open"
    /\ tx'[p].key \in ReportKeys
    /\ OthersKeep(p)
    /\ UNCHANGED <<report, row, targetLock, reportLock>>

LEMMA StartEffect ==
    ASSUME TypeOK, NEW p \in Procs,
           \/ \E k \in ReportKeys, reason \in Reasons : Submit(p, k, reason)
           \/ \E k \in ReportKeys, action \in Actions : Disposition(p, k, action)
    PROVE  Starts(p)
<1>1. ASSUME NEW k \in ReportKeys, NEW reason \in Reasons, Submit(p, k, reason) PROVE Starts(p)
  BY <1>1 DEF TypeOK, Submit, Starts, OthersKeep, NoTx
<1>2. ASSUME NEW k \in ReportKeys, NEW action \in Actions, Disposition(p, k, action) PROVE Starts(p)
  BY <1>2 DEF TypeOK, Disposition, Starts, OthersKeep, NoTx
<1>3. QED BY <1>1, <1>2

LEMMA ProbeEffect ==
    ASSUME TypeOK, NEW p \in Procs, ProbeTarget(p)
    PROVE  \/ End(p) /\ UNCHANGED <<report, row>>
           \/ /\ KeepsArgs(p)
              /\ tx[p].pc = "probe" /\ tx'[p].pc = "upsert"
              /\ row[Target(p)].state # "absent" /\ targetLock[Target(p)] \in {None, p}
              /\ targetLock' = [targetLock EXCEPT ![Target(p)] = p]
              /\ UNCHANGED <<report, row, reportLock>>
  BY DEF TypeOK, ProbeTarget, KeepsArgs, OthersKeep, Tx, Grantable

LEMMA PeekEffect ==
    ASSUME TypeOK, NEW p \in Procs, PeekReport(p)
    PROVE  \/ End(p) /\ UNCHANGED <<report, row>>
           \/ /\ KeepsArgs(p)
              /\ tx[p].pc = "peek" /\ tx'[p].pc = "lock"
              /\ UNCHANGED <<report, row, targetLock, reportLock>>
  BY DEF TypeOK, PeekReport, KeepsArgs, OthersKeep, Tx

LEMMA LockEffect ==
    ASSUME TypeOK, NEW p \in Procs, LockTarget(p)
    PROVE  /\ KeepsArgs(p)
           /\ tx[p].pc = "lock" /\ tx'[p].pc = "update"
           /\ targetLock[Target(p)] \in {None, p}
           /\ targetLock' = [targetLock EXCEPT ![Target(p)] = p]
           /\ UNCHANGED <<report, row, reportLock>>
  BY DEF TypeOK, LockTarget, KeepsArgs, OthersKeep, Tx, Grantable

LEMMA UpsertEffect ==
    ASSUME TypeOK, NEW p \in Procs, UpsertReport(p)
    PROVE  /\ KeepsArgs(p)
           /\ tx[p].pc = "upsert" /\ tx'[p].pc = "count"
           /\ tx'[p].report = Filed(report[tx[p].key], tx[p].reason)
           /\ reportLock[tx[p].key] \in {None, p}
           /\ reportLock' = [reportLock EXCEPT ![tx[p].key] = p]
           /\ UNCHANGED <<report, row, targetLock>>
<1> DEFINE rep == Filed(report[tx[p].key], tx[p].reason)
<1>1. tx' = [tx EXCEPT ![p] = [@ EXCEPT !.pc = "count", !.report = rep]]
  BY DEF UpsertReport
<1> HIDE DEF rep
<1>2. KeepsArgs(p) /\ tx'[p].pc = "count" /\ tx'[p].report = rep
  BY <1>1 DEF TypeOK, KeepsArgs, OthersKeep, Tx
<1>3. QED BY <1>2 DEF rep, UpsertReport, Grantable

LEMMA CountEffect ==
    ASSUME TypeOK, NEW p \in Procs, CountAndHide(p)
    PROVE  /\ KeepsArgs(p)
           /\ tx[p].pc = "count" /\ tx'[p].pc = "inserted"
           /\ tx'[p].report = tx[p].report
           /\ tx'[p].row = AfterFiling(row[Target(p)],
                              Cardinality(OpenReporters(SeenBy(p), Target(p))))
           /\ tx'[p].fresh = (tx'[p].row.hidden /\ ~row[Target(p)].hidden)
           /\ UNCHANGED <<report, row, targetLock, reportLock>>
<1> DEFINE after == AfterFiling(row[Target(p)], Cardinality(OpenReporters(SeenBy(p), Target(p))))
           fresh == after.hidden /\ ~row[Target(p)].hidden
<1>1. tx' = [tx EXCEPT ![p] = [@ EXCEPT !.pc = "inserted", !.row = after, !.fresh = fresh]]
  BY DEF CountAndHide
<1> HIDE DEF after, fresh
<1>2. /\ KeepsArgs(p) /\ tx'[p].pc = "inserted" /\ tx'[p].report = tx[p].report
      /\ tx'[p].row = after /\ tx'[p].fresh = fresh
  BY <1>1 DEF TypeOK, KeepsArgs, OthersKeep, Tx
<1>3. QED BY <1>2 DEF after, fresh, CountAndHide

LEMMA UpdateEffect ==
    ASSUME TypeOK, NEW p \in Procs, UpdateReport(p), report[tx[p].key].status = "open"
    PROVE  /\ KeepsArgs(p)
           /\ reportLock[tx[p].key] \in {None, p}
           /\ reportLock' = [reportLock EXCEPT ![tx[p].key] = p]
           /\ UNCHANGED <<report, row, targetLock>>
           /\ tx[p].pc = "update" /\ tx'[p].pc = "resolved"
           /\ tx'[p].report = Resolved(report[tx[p].key], tx[p].action)
           /\ tx'[p].row = AfterAction(row[Target(p)], tx[p].action)
<1> DEFINE rep == Resolved(report[tx[p].key], tx[p].action)
           after == AfterAction(row[Target(p)], tx[p].action)
<1>1. tx' = [tx EXCEPT ![p] = [@ EXCEPT !.pc = "resolved", !.report = rep, !.row = after]]
  BY DEF UpdateReport
<1> HIDE DEF rep, after
<1>2. /\ KeepsArgs(p) /\ tx'[p].pc = "resolved"
      /\ tx'[p].report = rep /\ tx'[p].row = after
  BY <1>1 DEF TypeOK, KeepsArgs, OthersKeep, Tx
<1>3. QED BY <1>2 DEF rep, after, UpdateReport, Grantable

\* The arguments of a call do not change while it runs.
LEMMA ArgsStep ==
    ASSUME TypeOK, ArgsInv, [Next]_vars
    PROVE  ArgsInv'
<1> USE DEF ArgsInv, Inserting, Resolving, Target
<1>1. ASSUME NEW p \in Procs, End(p) PROVE ArgsInv'
  BY <1>1, EndEffect DEF NoTx
<1>2. ASSUME NEW p \in Procs, KeepsArgs(p), tx[p].pc # "idle",
             tx[p].pc \in Inserting <=> tx'[p].pc \in Inserting,
             tx[p].pc \in Resolving <=> tx'[p].pc \in Resolving
      PROVE ArgsInv'
  BY <1>2 DEF KeepsArgs, OthersKeep
<1>3. ASSUME NEW t \in Reportable, Post(t) \/ AuthorDelete(t) PROVE ArgsInv'
  BY <1>3 DEF Post, AuthorDelete
<1>4. ASSUME NEW p \in Procs, Starts(p) PROVE ArgsInv'
  BY <1>4 DEF Starts, OthersKeep
<1>5. ASSUME NEW p \in Procs, Step(p) PROVE ArgsInv'
  <2>1. CASE ProbeTarget(p)
    BY <2>1, <1>1, <1>2, ProbeEffect
  <2>2. CASE UpsertReport(p)
    BY <2>2, <1>2, UpsertEffect
  <2>3. CASE CountAndHide(p)
    BY <2>3, <1>2, CountEffect
  <2>4. CASE CommitInsert(p) \/ CommitResolve(p)
    BY <2>4, <1>1 DEF CommitInsert, CommitResolve, Commit
  <2>5. CASE PeekReport(p)
    BY <2>5, <1>1, <1>2, PeekEffect
  <2>6. CASE LockTarget(p)
    BY <2>6, <1>2, LockEffect
  <2>7. CASE UpdateReport(p)
    BY <2>7, <1>1, <1>2, UpdateEffect DEF UpdateReport
  <2>8. QED BY <1>5, <2>1, <2>2, <2>3, <2>4, <2>5, <2>6, <2>7 DEF Step
<1>6. ASSUME NEW p \in Procs, Abort(p) PROVE ArgsInv'
  BY <1>6, <1>1 DEF Abort
<1>7. CASE UNCHANGED vars
  BY <1>7 DEF vars
<1>8. QED BY <1>3, <1>4, <1>5, <1>6, <1>7, StartEffect DEF Next

-----------------------------------------------------------------------------
\* Each lock is held by the transaction that took it and by nobody else.
LEMMA LockStep ==
    ASSUME TypeOK, ArgsInv, LockInv, [Next]_vars
    PROVE  LockInv'
<1> USE DEF LockInv, HoldsTarget, HoldsReport, Target
<1>1. ASSUME NEW p \in Procs, End(p) PROVE LockInv'
  <2>1. \A q \in Procs : tx[q].pc # "idle" => tx[q].key \in ReportKeys /\ tx[q].key[2] \in Reportable
    BY KeyParts DEF ArgsInv
  <2>2. /\ tx'[p] = NoTx
        /\ \A q \in Procs \ {p} : tx'[q] = tx[q]
        /\ \A t \in Reportable : \A q \in Procs :
              targetLock'[t] = q <=> q # p /\ targetLock[t] = q
        /\ \A k \in ReportKeys : \A q \in Procs :
              reportLock'[k] = q <=> q # p /\ reportLock[k] = q
    BY <1>1, EndEffect
  <2>3. QED BY <2>1, <2>2 DEF NoTx
<1>2. ASSUME NEW t \in Reportable, Post(t) \/ AuthorDelete(t) PROVE LockInv'
  BY <1>2 DEF Post, AuthorDelete
<1>3. ASSUME NEW p \in Procs, Starts(p) PROVE LockInv'
  BY <1>3 DEF Starts, OthersKeep
<1>4. ASSUME NEW p \in Procs, KeepsArgs(p), tx[p].key \in ReportKeys,
             tx[p].pc \notin HoldsTarget, tx'[p].pc \in HoldsTarget \ HoldsReport,
             targetLock[Target(p)] \in {None, p},
             targetLock' = [targetLock EXCEPT ![Target(p)] = p], UNCHANGED reportLock
      PROVE LockInv'
  <2>1. Target(p) \in Reportable /\ Target(p)' = Target(p)
    BY <1>4, KeyParts DEF KeepsArgs
  <2>2. \A t \in Reportable : targetLock'[t] = IF t = Target(p) THEN p ELSE targetLock[t]
    BY <1>4, <2>1 DEF TypeOK
  <2>3. QED BY <1>4, <2>1, <2>2, ProcAssumption DEF KeepsArgs, OthersKeep
<1>5. ASSUME NEW p \in Procs, KeepsArgs(p), tx[p].key \in ReportKeys,
             tx[p].pc \in HoldsTarget \ HoldsReport, tx'[p].pc \in HoldsReport,
             reportLock[tx[p].key] \in {None, p},
             reportLock' = [reportLock EXCEPT ![tx[p].key] = p], UNCHANGED targetLock
      PROVE LockInv'
  <2>1. \A k \in ReportKeys : reportLock'[k] = IF k = tx[p].key THEN p ELSE reportLock[k]
    BY <1>5 DEF TypeOK
  <2>2. QED BY <1>5, <2>1, ProcAssumption DEF KeepsArgs, OthersKeep
<1>6. ASSUME NEW p \in Procs, KeepsArgs(p), UNCHANGED <<targetLock, reportLock>>,
             tx[p].pc \in HoldsTarget <=> tx'[p].pc \in HoldsTarget,
             tx[p].pc \in HoldsReport <=> tx'[p].pc \in HoldsReport
      PROVE LockInv'
  BY <1>6 DEF KeepsArgs, OthersKeep
<1>7. ASSUME NEW p \in Procs, Step(p) PROVE LockInv'
  <2>1. CASE ProbeTarget(p)
    BY <2>1, <1>1, <1>4, ProbeEffect DEF ArgsInv
  <2>2. CASE UpsertReport(p)
    BY <2>2, <1>5, UpsertEffect DEF ArgsInv
  <2>3. CASE CountAndHide(p)
    BY <2>3, <1>6, CountEffect
  <2>4. CASE CommitInsert(p) \/ CommitResolve(p)
    BY <2>4, <1>1 DEF CommitInsert, CommitResolve, Commit
  <2>5. CASE PeekReport(p)
    BY <2>5, <1>1, <1>6, PeekEffect
  <2>6. CASE LockTarget(p)
    BY <2>6, <1>4, LockEffect DEF ArgsInv
  <2>7. CASE UpdateReport(p)
    <3>1. CASE report[tx[p].key].status = "open"
      BY <2>7, <3>1, <1>5, UpdateEffect DEF ArgsInv
    <3>2. CASE report[tx[p].key].status # "open"
      BY <2>7, <3>2, <1>1 DEF UpdateReport
    <3>3. QED BY <3>1, <3>2
  <2>8. QED BY <1>7, <2>1, <2>2, <2>3, <2>4, <2>5, <2>6, <2>7 DEF Step
<1>8. ASSUME NEW p \in Procs, Abort(p) PROVE LockInv'
  BY <1>8, <1>1 DEF Abort
<1>9. CASE UNCHANGED vars
  BY <1>9 DEF vars
<1>10. QED BY <1>2, <1>3, <1>7, <1>8, <1>9, StartEffect DEF Next
-----------------------------------------------------------------------------
\* The open reports on t are read from the rows of t alone.
LEMMA OpenOfTarget ==
    ASSUME NEW t, NEW a, NEW b, \A r \in Reporters : a[<<r, t>>] = b[<<r, t>>]
    PROVE  OpenReporters(a, t) = OpenReporters(b, t)
  BY DEF OpenReporters

\* What a COMMIT writes, and that the handler held both locks.
LEMMA CommitEffect ==
    ASSUME IInv, NEW p \in Procs, CommitInsert(p) \/ CommitResolve(p)
    PROVE  /\ tx[p].key \in ReportKeys /\ Target(p) \in Reportable
           /\ targetLock[Target(p)] = p
           /\ \A k \in ReportKeys : report'[k] = IF k = tx[p].key THEN tx[p].report ELSE report[k]
           /\ \A t \in Reportable : row'[t] = IF t = Target(p) THEN tx[p].row ELSE row[t]
           /\ row[Target(p)].state # "absent" /\ tx[p].row.state # "absent"
           /\ tx'[p] = NoTx /\ OthersKeep(p)
<1>1. tx[p].key \in ReportKeys /\ Target(p) \in Reportable
  BY KeyParts DEF IInv, ArgsInv, CommitInsert, CommitResolve, Target
<1>2. targetLock[Target(p)] = p /\ row[Target(p)].state # "absent"
  BY DEF IInv, LockInv, NoOrphan, HoldsTarget, CommitInsert, CommitResolve
<1>3. /\ \A k \in ReportKeys : report'[k] = IF k = tx[p].key THEN tx[p].report ELSE report[k]
      /\ \A t \in Reportable : row'[t] = IF t = Target(p) THEN tx[p].row ELSE row[t]
  BY <1>1 DEF IInv, TypeOK, CommitInsert, CommitResolve, Commit
<1>4. tx'[p] = NoTx /\ OthersKeep(p)
  BY EndEffect DEF IInv, CommitInsert, CommitResolve, Commit, OthersKeep
<1>5. row[Target(p)] \in TargetRow
  BY <1>1 DEF IInv, TypeOK
<1>6. tx[p].row.state # "absent"
  <2>1. CASE CommitInsert(p)
    BY <1>2, <1>5, <2>1 DEF IInv, PendingInv, Pending, CommitInsert, AfterFiling, TargetRow
  <2>2. CASE CommitResolve(p)
    BY <1>2, <1>5, <2>2 DEF IInv, PendingInv, Pending, CommitResolve, AfterAction, TargetRow
  <2>3. QED BY <2>1, <2>2
<1>7. QED BY <1>1, <1>2, <1>3, <1>4, <1>6

\* A handler whose target's rows do not change keeps its pending writes valid.
LEMMA PendingFrame ==
    ASSUME NEW q \in Procs, tx'[q] = tx[q], row'[Target(q)] = row[Target(q)],
           tx[q].key = <<tx[q].key[1], tx[q].key[2]>>, tx[q].key[1] \in Reporters,
           report \in [ReportKeys -> Report], report' \in [ReportKeys -> Report], Target(q) \in Reportable,
           \A r \in Reporters : report'[<<r, Target(q)>>] = report[<<r, Target(q)>>],
           Pending(q)
    PROVE  Pending(q)'
<1>1. Target(q)' = Target(q)
  BY DEF Target
<1>2. report'[tx[q].key] = report[tx[q].key]
  <2> DEFINE k == tx[q].key
  <2>1. k = <<k[1], Target(q)>> /\ k[1] \in Reporters
    BY DEF Target
  <2> HIDE DEF k
  <2>2. report'[<<k[1], Target(q)>>] = report[<<k[1], Target(q)>>]
    BY <2>1
  <2>3. report'[k] = report[k]
    BY <2>1, <2>2
  <2>4. QED BY <2>3 DEF k
<1>3. OpenReporters(SeenBy(q), Target(q))' = OpenReporters(SeenBy(q), Target(q))
  <2>1. \A r \in Reporters : SeenBy(q)'[<<r, Target(q)>>] = SeenBy(q)[<<r, Target(q)>>]
    BY DEF SeenBy, ReportKeys
  <2>2. OpenReporters(SeenBy(q)', Target(q)) = OpenReporters(SeenBy(q), Target(q))
    BY <2>1 DEF OpenReporters
  <2>3. QED BY <1>1, <2>2 DEF OpenReporters
<1>4. QED BY <1>1, <1>2, <1>3 DEF Pending
\* Every report, and every transaction past its probe, names a target that
\* exists.
LEMMA OrphanStep ==
    ASSUME IInv, [Next]_vars
    PROVE  NoOrphan'
<1> USE DEF NoOrphan, HoldsTarget, Resolving
<1>0. \A q \in Procs : tx[q].pc # "idle" => tx[q].key \in ReportKeys /\ Target(q) \in Reportable
  BY KeyParts DEF IInv, ArgsInv, Target
<1>1. ASSUME NEW p \in Procs, End(p), UNCHANGED <<report, row>> PROVE NoOrphan'
  BY <1>1, EndEffect DEF NoTx, IInv, Target
<1>2. ASSUME NEW p \in Procs, CommitInsert(p) \/ CommitResolve(p) PROVE NoOrphan'
  <2>1. \A t \in Reportable : row'[t].state = "absent" => row[t].state = "absent"
    BY <1>2, CommitEffect
  <2>2. \A k \in ReportKeys : report'[k].status # "none" => row'[k[2]].state # "absent"
    <3> SUFFICES ASSUME NEW k \in ReportKeys, report'[k].status # "none"
                 PROVE row'[k[2]].state # "absent"
      OBVIOUS
    <3>1. k[2] \in Reportable
      BY KeyParts
    <3>2. CASE k = tx[p].key
      BY <3>1, <3>2, <1>2, CommitEffect DEF Target
    <3>3. CASE k # tx[p].key
      BY <3>1, <3>3, <1>2, <2>1, CommitEffect DEF IInv
    <3>4. QED BY <3>2, <3>3
  <2>3. ASSUME NEW q \in Procs, tx'[q].pc \in HoldsTarget \cup Resolving
        PROVE row'[Target(q)'].state # "absent"
    <3>1. q # p /\ tx'[q] = tx[q]
      BY <2>3, <1>2, CommitEffect DEF NoTx, OthersKeep
    <3>2. row[Target(q)].state # "absent" /\ Target(q)' = Target(q) /\ Target(q) \in Reportable
      BY <1>0, <2>3, <3>1 DEF IInv, Target
    <3>3. QED BY <2>1, <3>2
  <2>4. QED BY <2>2, <2>3
<1>3. ASSUME NEW t \in Reportable, Post(t) \/ AuthorDelete(t) PROVE NoOrphan'
  <2>1. \A u \in Reportable : row'[u].state = "absent" => row[u].state = "absent"
    BY <1>3 DEF Post, AuthorDelete, IInv, TypeOK, TargetRow
  <2>2. report' = report /\ tx' = tx
    BY <1>3 DEF Post, AuthorDelete
  <2>3. QED BY <1>0, <2>1, <2>2, KeyParts DEF IInv, Target
<1>4. ASSUME NEW p \in Procs, Starts(p) PROVE NoOrphan'
  BY <1>4 DEF Starts, OthersKeep, IInv, Target
<1>5. ASSUME NEW p \in Procs, KeepsArgs(p), UNCHANGED <<report, row>>,
             \/ tx[p].pc \in HoldsTarget \cup Resolving
             \/ row[Target(p)].state # "absent"
      PROVE NoOrphan'
  BY <1>5 DEF KeepsArgs, OthersKeep, IInv, Target
<1>6. ASSUME NEW p \in Procs, Step(p) PROVE NoOrphan'
  <2> USE DEF IInv
  <2>1. CASE ProbeTarget(p)
    BY <2>1, <1>1, <1>5, ProbeEffect
  <2>2. CASE UpsertReport(p)
    BY <2>2, <1>5, UpsertEffect
  <2>3. CASE CountAndHide(p)
    BY <2>3, <1>5, CountEffect
  <2>5. CASE PeekReport(p)
    BY <2>5, <1>1, <1>5, PeekEffect
  <2>6. CASE LockTarget(p)
    BY <2>6, <1>5, LockEffect
  <2>7. CASE UpdateReport(p)
    <3>1. CASE report[tx[p].key].status = "open"
      BY <2>7, <3>1, <1>5, UpdateEffect
    <3>2. CASE report[tx[p].key].status # "open"
      BY <2>7, <3>2, <1>1 DEF UpdateReport
    <3>3. QED BY <3>1, <3>2
  <2>8. QED BY <1>2, <1>6, <2>1, <2>2, <2>3, <2>5, <2>6, <2>7 DEF Step
<1>7. ASSUME NEW p \in Procs, Abort(p) PROVE NoOrphan'
  BY <1>7, <1>1 DEF Abort
<1>8. CASE UNCHANGED vars
  BY <1>8 DEF vars, IInv, Target
<1>9. QED BY <1>3, <1>4, <1>6, <1>7, <1>8, StartEffect DEF Next, IInv
\* What a transaction has read does not change before it commits.
LEMMA PendingStep ==
    ASSUME IInv, [Next]_vars
    PROVE  PendingInv'
<1> DEFINE Written == {"count", "inserted", "resolved"}
<1>0. TypeOK'
  BY TypeStep DEF IInv
<1>1. ASSUME NEW q \in Procs, tx'[q].pc \notin Written PROVE Pending(q)'
  BY <1>1 DEF Pending
<1>2. ASSUME NEW q \in Procs, tx'[q] = tx[q], tx[q].pc \in Written,
             row'[Target(q)] = row[Target(q)],
             \A r \in Reporters : report'[<<r, Target(q)>>] = report[<<r, Target(q)>>]
      PROVE Pending(q)'
  <2>1. tx[q].key \in ReportKeys
    BY <1>2 DEF IInv, ArgsInv
  <2>2. /\ tx[q].key = <<tx[q].key[1], tx[q].key[2]>>
        /\ tx[q].key[1] \in Reporters /\ Target(q) \in Reportable
    BY <2>1, KeyParts DEF Target
  <2>3. QED BY <1>0, <1>2, <2>2, PendingFrame DEF IInv, PendingInv, TypeOK
<1>3. ASSUME NEW q \in Procs, tx'[q] = tx[q], UNCHANGED <<report, row>> PROVE Pending(q)'
  BY <1>1, <1>2, <1>3
<1>4. ASSUME NEW p \in Procs, End(p), UNCHANGED <<report, row>> PROVE PendingInv'
  <2>1. tx'[p] = NoTx /\ \A q \in Procs \ {p} : tx'[q] = tx[q]
    BY <1>4, EndEffect DEF IInv
  <2>2. Pending(p)'
    BY <2>1, <1>1 DEF NoTx
  <2>3. QED BY <2>1, <2>2, <1>3, <1>4 DEF PendingInv
<1>5. ASSUME NEW p \in Procs, CommitInsert(p) \/ CommitResolve(p) PROVE PendingInv'
  <2>1. Pending(p)'
    BY <1>1, <1>5, CommitEffect DEF NoTx
  <2>2. ASSUME NEW q \in Procs, q # p PROVE Pending(q)'
    <3>1. tx'[q] = tx[q]
      BY <1>5, <2>2, CommitEffect DEF OthersKeep
    <3>2. CASE tx[q].pc \in Written
      <4>1. Target(q) \in Reportable /\ Target(q) # Target(p)
        BY <1>5, <2>2, <3>2, CommitEffect, KeyParts
           DEF IInv, ArgsInv, LockInv, HoldsTarget, Target
      <4>2. row'[Target(q)] = row[Target(q)]
        BY <1>5, <4>1, CommitEffect
      <4>3. ASSUME NEW r \in Reporters
            PROVE report'[<<r, Target(q)>>] = report[<<r, Target(q)>>]
        <5>1. <<r, Target(q)>> \in ReportKeys /\ <<r, Target(q)>> # tx[p].key
          BY <4>1 DEF ReportKeys, Target
        <5>2. QED BY <1>5, <5>1, CommitEffect
      <4>4. QED BY <1>2, <3>1, <3>2, <4>2, <4>3
    <3>3. CASE tx[q].pc \notin Written
      BY <1>1, <3>1, <3>3
    <3>4. QED BY <3>2, <3>3
  <2>3. QED BY <2>1, <2>2 DEF PendingInv
<1>6. ASSUME NEW t \in Reportable, Post(t) \/ AuthorDelete(t), NEW q \in Procs PROVE Pending(q)'
  <2>1. tx'[q] = tx[q] /\ report' = report
    BY <1>6 DEF Post, AuthorDelete
  <2>2. CASE tx[q].pc \in Written
    <3>1. Target(q) \in Reportable /\ targetLock[Target(q)] = q /\ row[Target(q)].state # "absent"
      BY <2>2, KeyParts DEF IInv, ArgsInv, LockInv, NoOrphan, HoldsTarget, Target
    <3>2. Target(q) # t
      BY <1>6, <3>1, ProcAssumption DEF Post, AuthorDelete
    <3>3. row'[Target(q)] = row[Target(q)]
      BY <1>6, <3>1, <3>2 DEF Post, AuthorDelete, IInv, TypeOK
    <3>4. QED BY <1>2, <2>1, <2>2, <3>3
  <2>3. CASE tx[q].pc \notin Written
    BY <1>1, <2>1, <2>3
  <2>4. QED BY <2>2, <2>3
<1>7. ASSUME NEW p \in Procs, OthersKeep(p), UNCHANGED <<report, row>>, Pending(p)'
      PROVE PendingInv'
  BY <1>3, <1>7 DEF OthersKeep, PendingInv
<1>8. ASSUME NEW p \in Procs, Starts(p) PROVE PendingInv'
  BY <1>1, <1>7, <1>8 DEF Starts
<1>9. ASSUME NEW p \in Procs, Step(p) PROVE PendingInv'
  <2> USE DEF IInv
  <2>1. CASE ProbeTarget(p)
    BY <2>1, <1>1, <1>4, <1>7, ProbeEffect DEF KeepsArgs
  <2>2. CASE UpsertReport(p)
    <3>1. Pending(p)'
      BY <2>2, UpsertEffect DEF Pending, KeepsArgs
    <3>2. QED BY <2>2, <3>1, <1>7, UpsertEffect DEF KeepsArgs
  <2>3. CASE CountAndHide(p)
    <3>1. Target(p)' = Target(p)
      BY <2>3, CountEffect DEF KeepsArgs, Target
    <3>2. SeenBy(p)' = SeenBy(p)
      BY <2>3, CountEffect DEF KeepsArgs, SeenBy
    <3>3. OpenReporters(SeenBy(p), Target(p))' = OpenReporters(SeenBy(p), Target(p))
      BY <3>1, <3>2 DEF OpenReporters
    <3>4. tx[p].report = Filed(report[tx[p].key], tx[p].reason)
      BY <2>3, CountEffect DEF PendingInv, Pending
    <3>5. Pending(p)'
      BY <2>3, <3>1, <3>3, <3>4, CountEffect DEF Pending, KeepsArgs
    <3>6. QED BY <2>3, <3>5, <1>7, CountEffect DEF KeepsArgs
  <2>5. CASE PeekReport(p)
    BY <2>5, <1>1, <1>4, <1>7, PeekEffect DEF KeepsArgs
  <2>6. CASE LockTarget(p)
    BY <2>6, <1>1, <1>7, LockEffect DEF KeepsArgs
  <2>7. CASE UpdateReport(p)
    <3>1. CASE report[tx[p].key].status = "open"
      <4>1. Target(p)' = Target(p)
        BY <2>7, <3>1, UpdateEffect DEF KeepsArgs, Target
      <4>2. Pending(p)'
        BY <2>7, <3>1, <4>1, UpdateEffect DEF Pending, KeepsArgs
      <4>3. QED BY <2>7, <3>1, <4>2, <1>7, UpdateEffect DEF KeepsArgs
    <3>2. CASE report[tx[p].key].status # "open"
      BY <2>7, <3>2, <1>4 DEF UpdateReport
    <3>3. QED BY <3>1, <3>2
  <2>8. QED BY <1>5, <1>9, <2>1, <2>2, <2>3, <2>5, <2>6, <2>7 DEF Step
<1>10. ASSUME NEW p \in Procs, Abort(p) PROVE PendingInv'
  BY <1>10, <1>4 DEF Abort
<1>11. CASE UNCHANGED vars
  BY <1>11, <1>3 DEF vars, PendingInv
<1>12. QED BY <1>6, <1>8, <1>9, <1>10, <1>11, StartEffect DEF Next, PendingInv, IInv

-----------------------------------------------------------------------------
LEMMA InitInv == Init => IInv
<1> SUFFICES ASSUME Init PROVE IInv
  OBVIOUS
<1> USE DEF Init
<1>1. TypeOK
  BY NoTxType DEF TypeOK, BlankRow, Unfiled, Report, TargetRow
<1>2. ArgsInv
  BY DEF ArgsInv, NoTx, Inserting, Resolving
<1>3. LockInv
  BY ProcAssumption, KeyParts DEF LockInv, NoTx, HoldsTarget, HoldsReport
<1>4. NoOrphan
  BY KeyParts DEF NoOrphan, NoTx, Unfiled, HoldsTarget, Resolving
<1>5. PendingInv
  BY DEF PendingInv, Pending, NoTx
<1>6. QED BY <1>1, <1>2, <1>3, <1>4, <1>5 DEF IInv

\* The invariant is inductive.
THEOREM Inductive == Spec => []IInv
<1>1. IInv /\ [Next]_vars => IInv'
  BY TypeStep, ArgsStep, LockStep, OrphanStep, PendingStep DEF IInv
<1>2. QED BY InitInv, <1>1, PTL DEF Spec

\* Type correctness: every row, lock and transaction of a reachable state is
\* well-formed.
THEOREM TypeCorrect == Spec => []TypeOK
<1>1. IInv => TypeOK
  BY DEF IInv
<1>2. QED BY <1>1, Inductive, PTL
-----------------------------------------------------------------------------
\* Only the statements of Moderation change a committed row.
LEMMA Reads ==
    ASSUME Next
    PROVE  \/ \E t \in Reportable : Post(t) \/ AuthorDelete(t)
           \/ \E p \in Procs : CommitInsert(p) \/ CommitResolve(p)
           \/ UNCHANGED <<report, row>>
  BY DEF Next, Step, Submit, ProbeTarget, UpsertReport, CountAndHide, Disposition,
         PeekReport, LockTarget, UpdateReport, Abort

\* No deadlock: a handler that holds a target row waits for nobody, and a
\* handler that waits for a target row waits for one that holds it.
THEOREM NoDeadlock == Spec => []NoWaitCycle
<1>1. IInv => NoWaitCycle
  <2> SUFFICES ASSUME IInv, NEW S \in (SUBSET Procs) \ {{}}
               PROVE \E p \in S : \A q \in S : ~WaitsFor(p, q)
    BY DEF NoWaitCycle
  <2> USE DEF IInv, LockInv, HoldsTarget, HoldsReport, WaitsFor
  <2>0. \A p \in Procs : tx[p].pc # "idle" => tx[p].key \in ReportKeys /\ Target(p) \in Reportable
    BY KeyParts DEF ArgsInv, Target
  <2>1. CASE \E p \in S : tx[p].pc \in HoldsTarget
    <3>1. PICK p \in S : tx[p].pc \in HoldsTarget
      BY <2>1
    <3>2. ASSUME NEW q \in S, WaitsFor(p, q) PROVE FALSE
      <4>1. reportLock[tx[p].key] = q /\ tx[p].key \in ReportKeys /\ q # p
        BY <2>0, <3>1, <3>2
      <4>2. tx[q].key = tx[p].key /\ tx[q].pc \in HoldsReport
        BY <4>1
      <4>3. targetLock[Target(p)] = p /\ targetLock[Target(p)] = q
        BY <3>1, <4>2 DEF Target
      <4>4. QED BY <4>1, <4>3
    <3>3. QED BY <3>2
  <2>2. CASE \A p \in S : tx[p].pc \notin HoldsTarget
    <3>0. S # {}
      OBVIOUS
    <3>1. PICK p \in S : p \in S
      BY <3>0
    <3>2. ASSUME NEW q \in S, WaitsFor(p, q) PROVE FALSE
      <4>1. targetLock[Target(p)] = q /\ Target(p) \in Reportable
        BY <2>0, <2>2, <3>2
      <4>2. tx[q].pc \in HoldsTarget
        BY <4>1
      <4>3. QED BY <2>2, <4>2
    <3>3. QED BY <3>2
  <2>3. QED BY <2>1, <2>2
<1>2. QED BY <1>1, Inductive, PTL

\* The auto-hide is never lost.
THEOREM AutoHide == Spec => []AutoHideNotLost
<1>1. Init => AutoHideNotLost
  <2> SUFFICES ASSUME Init, NEW t \in Reportable
               PROVE ~(Cardinality(OpenReporters(report, t)) >= Threshold)
    BY DEF AutoHideNotLost
  <2>1. OpenReporters(report, t) = {}
    BY DEF Init, OpenReporters, Unfiled, ReportKeys
  <2>2. QED BY <2>1, FS_EmptySet, ReportAssumption
<1>2. IInv /\ AutoHideNotLost /\ [Next]_vars => AutoHideNotLost'
  <2> SUFFICES ASSUME IInv, AutoHideNotLost, [Next]_vars, NEW t \in Reportable,
                      Cardinality(OpenReporters(report', t)) >= Threshold
               PROVE  \/ row'[t].hidden
                      \/ \E r \in Reporters : report'[<<r, t>>].status = "keep"
    BY DEF AutoHideNotLost, OpenReporters
  <2>1. CASE UNCHANGED <<report, row>>
    BY <2>1 DEF AutoHideNotLost
  <2>2. ASSUME NEW u \in Reportable, Post(u) \/ AuthorDelete(u)
        PROVE row'[t].hidden \/ \E r \in Reporters : report'[<<r, t>>].status = "keep"
    <3>1. report' = report /\ row'[t].hidden = row[t].hidden
      BY <2>2 DEF Post, AuthorDelete, IInv, TypeOK, TargetRow
    <3>2. QED BY <3>1 DEF AutoHideNotLost
  <2>3. ASSUME NEW p \in Procs, CommitInsert(p) \/ CommitResolve(p)
        PROVE row'[t].hidden \/ \E r \in Reporters : report'[<<r, t>>].status = "keep"
    <3>1. CASE t # Target(p)
      <4>1. row'[t] = row[t]
        BY <2>3, <3>1, CommitEffect
      <4>2. ASSUME NEW r \in Reporters PROVE report'[<<r, t>>] = report[<<r, t>>]
        <5>1. <<r, t>> \in ReportKeys /\ <<r, t>> # tx[p].key
          BY <3>1 DEF ReportKeys, Target
        <5>2. QED BY <2>3, <5>1, CommitEffect
      <4>3. OpenReporters(report', t) = OpenReporters(report, t)
        BY <4>2, OpenOfTarget
      <4>4. QED BY <4>1, <4>2, <4>3 DEF AutoHideNotLost
    <3>2. CASE t = Target(p) /\ CommitInsert(p)
      <4>1. report' = SeenBy(p)
        BY <3>2 DEF CommitInsert, Commit, SeenBy
      <4>2. row'[t] = AfterFiling(row[t], Cardinality(OpenReporters(report', t)))
        BY <2>3, <3>2, <4>1, CommitEffect DEF CommitInsert, IInv, PendingInv, Pending
      <4>3. row[t] \in TargetRow
        BY DEF IInv, TypeOK
      <4>4. QED BY <4>2, <4>3 DEF AfterFiling, TargetRow
    <3>3. CASE t = Target(p) /\ CommitResolve(p)
      <4> DEFINE k == tx[p].key
      <4>1. /\ k \in ReportKeys /\ k = <<k[1], t>> /\ k[1] \in Reporters
            /\ report[k].status = "open"
        BY <2>3, <3>3, CommitEffect, KeyParts
           DEF CommitResolve, IInv, PendingInv, Pending, Target
      <4>2. /\ \A j \in ReportKeys \ {k} : report'[j] = report[j]
            /\ report'[k] = Resolved(report[k], tx[p].action)
            /\ row'[t] = AfterAction(row[t], tx[p].action)
        BY <2>3, <3>3, CommitEffect DEF CommitResolve, IInv, PendingInv, Pending
      <4>3. report'[k].status = tx[p].action /\ tx[p].action \in Actions
        BY <3>3, <4>1, <4>2
           DEF IInv, TypeOK, ArgsInv, Resolving, CommitResolve, Permitted, Report, Resolved
      <4> HIDE DEF k
      <4>4. OpenReporters(report', t) \subseteq OpenReporters(report, t)
        <5> SUFFICES ASSUME NEW r \in Reporters, report'[<<r, t>>].status = "open"
                     PROVE report[<<r, t>>].status = "open"
          BY DEF OpenReporters
        <5>1. <<r, t>> \in ReportKeys
          BY DEF ReportKeys
        <5>2. QED BY <4>1, <4>2, <5>1
      <4>5. IsFiniteSet(OpenReporters(report, t))
        BY ReportAssumption, FS_Subset DEF OpenReporters
      <4>6. Cardinality(OpenReporters(report, t)) >= Threshold
        BY <4>4, <4>5, FS_Subset, FS_CardinalityType, ReportAssumption
      <4>7. CASE tx[p].action = "keep"
        BY <4>1, <4>3, <4>7
      <4>8. CASE tx[p].action # "keep"
        <5>1. row[t].hidden => row'[t].hidden
          BY <4>2, <4>8 DEF AfterAction, IInv, TypeOK, TargetRow
        <5>2. ASSUME NEW r \in Reporters, report[<<r, t>>].status = "keep"
              PROVE report'[<<r, t>>].status = "keep"
          BY <4>1, <4>2, <5>2 DEF ReportKeys
        <5>3. QED BY <4>6, <5>1, <5>2 DEF AutoHideNotLost
      <4>9. QED BY <4>7, <4>8
    <3>4. QED BY <2>3, <3>1, <3>2, <3>3
  <2>4. QED BY <2>1, <2>2, <2>3, Reads DEF vars
<1>3. QED BY <1>1, <1>2, Inductive, PTL DEF Spec
\* A dispositioned report never changes again.
THEOREM Immutable == Spec => DispositionFinal
<1>1. IInv /\ [Next]_vars =>
        [\A k \in ReportKeys : report[k].status \in Actions => report'[k] = report[k]]_vars
  <2> SUFFICES ASSUME IInv, Next, NEW k \in ReportKeys, report[k].status \in Actions
               PROVE  report'[k] = report[k]
    BY DEF vars
  <2>1. ASSUME NEW p \in Procs, CommitInsert(p) \/ CommitResolve(p) PROVE report'[k] = report[k]
    <3>1. CASE k # tx[p].key
      BY <2>1, <3>1, CommitEffect
    <3>2. CASE k = tx[p].key /\ CommitInsert(p)
      BY <2>1, <3>2, CommitEffect DEF CommitInsert, IInv, PendingInv, Pending, Filed
    <3>3. CASE k = tx[p].key /\ CommitResolve(p)
      BY <3>3 DEF CommitResolve, IInv, PendingInv, Pending, Actions
    <3>4. QED BY <2>1, <3>1, <3>2, <3>3
  <2>2. ASSUME NEW t \in Reportable, Post(t) \/ AuthorDelete(t) PROVE report'[k] = report[k]
    BY <2>2 DEF Post, AuthorDelete
  <2>3. QED BY <2>1, <2>2, Reads
<1>2. QED BY <1>1, Inductive, PTL DEF Spec, DispositionFinal

\* `freshly_hidden` is exact.
THEOREM FreshlyHidden == Spec => FreshlyHiddenExact
<1>1. IInv /\ [Next]_vars =>
        [\A p \in Procs : CommitInsert(p) =>
            (tx[p].fresh <=> ~row[Target(p)].hidden /\ row'[Target(p)].hidden)]_vars
  <2> SUFFICES ASSUME IInv, NEW p \in Procs, CommitInsert(p)
               PROVE  tx[p].fresh <=> ~row[Target(p)].hidden /\ row'[Target(p)].hidden
    OBVIOUS
  <2>1. Target(p) \in Reportable /\ row'[Target(p)] = tx[p].row
    BY CommitEffect
  <2>2. tx[p].fresh = (tx[p].row.hidden /\ ~row[Target(p)].hidden)
    BY DEF CommitInsert, IInv, PendingInv, Pending
  <2>3. QED BY <2>1, <2>2
<1>2. QED BY <1>1, Inductive, PTL DEF Spec, FreshlyHiddenExact

\* Moderation speaks of the same rows and the same statements.
LEMMA SameRows ==
    /\ Mod!Reportable = Reportable /\ Mod!ReportKeys = ReportKeys /\ Mod!Actions = Actions
    /\ Mod!Unfiled = Unfiled
    /\ \A rep, reason : Mod!Filed(rep, reason) = Filed(rep, reason)
    /\ \A rep, action : Mod!Resolved(rep, action) = Resolved(rep, action)
    /\ \A rep, t : Mod!OpenReporters(rep, t) = OpenReporters(rep, t)
    /\ \A S : Mod!Cardinality(S) = Cardinality(S)
    /\ \A r, n : Mod!AfterFiling(r, n) = AfterFiling(r, n)
    /\ \A r, action : Mod!AfterAction(r, action) = AfterAction(r, action)
    /\ \A action, t : Mod!Permitted(action, t) <=> Permitted(action, t)
<1>1. Mod!Reportable = Reportable
  BY DEF Reportable, Mod!Reportable
<1>2. Mod!ReportKeys = ReportKeys
  BY DEF Reportable, Mod!Reportable, ReportKeys, Mod!ReportKeys
<1>3. Mod!Actions = Actions
  BY DEF Actions, Mod!Actions
<1>4. Mod!Unfiled = Unfiled
  BY DEF Unfiled, Mod!Unfiled
<1>5. \A rep, reason : Mod!Filed(rep, reason) = Filed(rep, reason)
  BY <1>3 DEF Filed, Mod!Filed
<1>6. \A rep, action : Mod!Resolved(rep, action) = Resolved(rep, action)
  BY Zenon DEF Resolved, Mod!Resolved
<1>7. \A rep, t : Mod!OpenReporters(rep, t) = OpenReporters(rep, t)
  BY Zenon DEF OpenReporters, Mod!OpenReporters
<1>8. \A r, n : Mod!AfterFiling(r, n) = AfterFiling(r, n)
  BY Zenon DEF AfterFiling, Mod!AfterFiling
<1>9. \A r, action : Mod!AfterAction(r, action) = AfterAction(r, action)
  BY Zenon DEF AfterAction, Mod!AfterAction
<1>10. \A action, t : Mod!Permitted(action, t) <=> Permitted(action, t)
  BY <1>3 DEF Permitted, Mod!Permitted
<1>11. \A S : Mod!Cardinality(S) = Cardinality(S)
  BY DEF Cardinality, Mod!Cardinality
<1>12. QED BY <1>11, <1>1, <1>2, <1>3, <1>4, <1>5, <1>6, <1>7, <1>8, <1>9, <1>10

\* Each transaction is one atomic step of Moderation, or none.
THEOREM Refinement == Spec => ImplementsModeration
<1>1. Init => Mod!Init
  BY SameRows DEF Init, Mod!Init, BlankRow
<1>2. IInv /\ [Next]_vars => [Mod!Next]_(Mod!vars)
  <2> SUFFICES ASSUME IInv, [Next]_vars PROVE [Mod!Next]_(Mod!vars)
    OBVIOUS
  <2>1. ASSUME NEW t \in Reportable, Post(t) \/ AuthorDelete(t) PROVE Mod!Next
    BY <2>1, SameRows DEF Post, AuthorDelete, Mod!Next, Mod!Post, Mod!AuthorDelete
  <2>2. ASSUME NEW p \in Procs, CommitInsert(p) PROVE Mod!Next
    <3> DEFINE r == tx[p].key[1]
               t == tx[p].key[2]
    <3>1. /\ r \in Reporters /\ t \in Reportable /\ tx[p].key = <<r, t>> /\ t = Target(p)
          /\ tx[p].reason \in Reasons /\ row[t].state # "absent"
      BY <2>2, CommitEffect, KeyParts DEF CommitInsert, IInv, ArgsInv, Inserting, Target
    <3>2. report' = SeenBy(p)
      BY <2>2 DEF CommitInsert, Commit, SeenBy
    <3>3. report' = [report EXCEPT ![<<r, t>>] = Filed(report[<<r, t>>], tx[p].reason)]
      BY <2>2, <3>1 DEF CommitInsert, Commit, IInv, PendingInv, Pending
    <3>4. row' = [row EXCEPT ![t] =
                    AfterFiling(row[t], Cardinality(OpenReporters(report', t)))]
      BY <2>2, <3>1, <3>2 DEF CommitInsert, Commit, IInv, PendingInv, Pending
    <3> DEFINE reason == tx[p].reason
    <3> HIDE DEF r, t, reason
    <3>a. report' = [report EXCEPT ![<<r, t>>] = Mod!Filed(report[<<r, t>>], reason)]
      BY <3>3, SameRows DEF reason
    <3>b. row' = [row EXCEPT ![t] =
                    Mod!AfterFiling(row[t], Mod!Cardinality(Mod!OpenReporters(report', t)))]
      BY <3>4, SameRows
    <3>5. Mod!File(r, t, reason)
      BY <3>1, <3>a, <3>b DEF Mod!File
    <3>6. QED BY <3>1, <3>5, SameRows DEF Mod!Next, reason
  <2>3. ASSUME NEW p \in Procs, CommitResolve(p) PROVE Mod!Next
    <3> DEFINE r == tx[p].key[1]
               t == tx[p].key[2]
    <3>1. /\ r \in Reporters /\ t \in Reportable /\ tx[p].key = <<r, t>> /\ t = Target(p)
          /\ Permitted(tx[p].action, t) /\ report[<<r, t>>].status = "open"
      BY <2>3, CommitEffect, KeyParts
         DEF CommitResolve, IInv, ArgsInv, PendingInv, Pending, Resolving, Target
    <3>2. report' = [report EXCEPT ![<<r, t>>] = Resolved(report[<<r, t>>], tx[p].action)]
      BY <2>3, <3>1 DEF CommitResolve, Commit, IInv, PendingInv, Pending
    <3>3. row' = [row EXCEPT ![t] = AfterAction(row[t], tx[p].action)]
      BY <2>3, <3>1 DEF CommitResolve, Commit, IInv, PendingInv, Pending
    <3>4. Mod!Resolve(r, t, tx[p].action)
      BY <3>1, <3>2, <3>3, SameRows DEF Mod!Resolve
    <3>5. QED BY <3>1, <3>4, SameRows DEF Mod!Next, Permitted
  <2>4. QED BY <2>1, <2>2, <2>3, Reads DEF vars, Mod!vars
<1>3. QED BY <1>1, <1>2, Inductive, PTL DEF Spec, ImplementsModeration, Mod!Spec
=============================================================================

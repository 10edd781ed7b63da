------------------------------ MODULE Reports -------------------------------
(***************************************************************************)
(* crates/storage/src/report_repo.rs and crates/auth/src/reports.rs: the   *)
(* two transactions that write reports, `insert` (file a report, auto-hide *)
(* its target at the threshold) and `resolve` (a moderator's disposition), *)
(* statement by statement under READ COMMITTED with row locks, run by the  *)
(* request handlers Procs.  What a transaction wrote is in tx[p] until its *)
(* COMMIT, so nobody else sees it and a rollback only drops it.            *)
(***************************************************************************)
EXTENDS ReportRows

CONSTANT Procs  \* request handlers, each with one transaction at a time

ASSUME ProcAssumption == None \notin Procs

VARIABLES
    report, row,  \* the committed rows, as in Moderation
    targetLock,   \* who holds SELECT .. FOR UPDATE on a target row
    reportLock,   \* who has written a row of `reports` and not committed
    tx            \* the transaction of each handler

vars == <<report, row, targetLock, reportLock, tx>>

PC == {"idle", "probe", "upsert", "count", "inserted", "peek", "lock", "update", "resolved"}

\* The arguments of the call, then the uncommitted writes of the transaction.
Tx == [pc : PC, key : ReportKeys \cup {None}, reason : Reasons \cup {None},
       action : Actions \cup {None}, report : Report, row : TargetRow, fresh : BOOLEAN]

BlankRow == [state |-> "absent", hidden |-> FALSE]
NoTx == [pc |-> "idle", key |-> None, reason |-> None, action |-> None,
         report |-> Unfiled, row |-> BlankRow, fresh |-> FALSE]

TypeOK ==
    /\ report \in [ReportKeys -> Report]
    /\ row \in [Reportable -> TargetRow]
    /\ targetLock \in [Reportable -> Procs \cup {None}]
    /\ reportLock \in [ReportKeys -> Procs \cup {None}]
    /\ tx \in [Procs -> Tx]

Init ==
    /\ report = [k \in ReportKeys |-> Unfiled]
    /\ row = [t \in Reportable |-> BlankRow]
    /\ targetLock = [t \in Reportable |-> None]
    /\ reportLock = [k \in ReportKeys |-> None]
    /\ tx = [p \in Procs |-> NoTx]

-----------------------------------------------------------------------------
\* A row lock is free for p, or p holds it already; otherwise p waits.
Grantable(lock, x, p) == lock[x] \in {None, p}

Target(p) == tx[p].key[2]

\* Mutant: a connection returned to the pool with its transaction open.
EndLeaks(p) ==
    /\ tx' = [tx EXCEPT ![p] = NoTx]
    /\ UNCHANGED <<targetLock, reportLock>>

\* COMMIT and ROLLBACK alike: the handler is idle and its locks are free.
End(p) ==
    /\ tx' = [tx EXCEPT ![p] = NoTx]
    /\ targetLock' = [t \in Reportable |-> IF targetLock[t] = p THEN None ELSE targetLock[t]]
    /\ reportLock' = [k \in ReportKeys |-> IF reportLock[k] = p THEN None ELSE reportLock[k]]

Commit(p) ==
    /\ report' = [report EXCEPT ![tx[p].key] = tx[p].report]
    /\ row' = [row EXCEPT ![Target(p)] = tx[p].row]
    /\ End(p)

-----------------------------------------------------------------------------
\* Statements of other endpoints that write the same target row; both are
\* single autocommit statements, the second one waits for the row lock.
Post(t) ==
    /\ row[t].state = "absent"
    /\ row' = [row EXCEPT ![t].state = "live"]
    /\ UNCHANGED <<report, targetLock, reportLock, tx>>

AuthorDelete(t) ==
    /\ t \in Comments /\ row[t].state = "live" /\ ~row[t].hidden
    /\ targetLock[t] = None
    /\ row' = [row EXCEPT ![t].state = "deleted"]
    /\ UNCHANGED <<report, targetLock, reportLock, tx>>

-----------------------------------------------------------------------------
\* ReportService::submit: the call and the statements of `insert`.
Submit(p, k, reason) ==
    /\ tx[p].pc = "idle"
    /\ tx' = [tx EXCEPT ![p] = [NoTx EXCEPT !.pc = "probe", !.key = k, !.reason = reason]]
    /\ UNCHANGED <<report, row, targetLock, reportLock>>

\* Mutant: SELECT 1 without FOR UPDATE.
ProbeWithoutLock(p) ==
    /\ tx[p].pc = "probe"
    /\ IF row[Target(p)].state = "absent"
       THEN End(p)
       ELSE tx' = [tx EXCEPT ![p].pc = "upsert"] /\ UNCHANGED <<targetLock, reportLock>>
    /\ UNCHANGED <<report, row>>

\* SELECT 1 FROM <target> WHERE id = $1 FOR UPDATE; no row is TargetNotFound.
ProbeTarget(p) ==
    /\ tx[p].pc = "probe"
    /\ \/ /\ row[Target(p)].state = "absent"
          /\ End(p)
       \/ /\ row[Target(p)].state # "absent"
          /\ Grantable(targetLock, Target(p), p)
          /\ targetLock' = [targetLock EXCEPT ![Target(p)] = p]
          /\ tx' = [tx EXCEPT ![p].pc = "upsert"]
          /\ UNCHANGED reportLock
    /\ UNCHANGED <<report, row>>

\* INSERT .. ON CONFLICT DO UPDATE.
UpsertReport(p) ==
    /\ tx[p].pc = "upsert"
    /\ Grantable(reportLock, tx[p].key, p)
    /\ reportLock' = [reportLock EXCEPT ![tx[p].key] = p]
    /\ tx' = [tx EXCEPT ![p] = [@ EXCEPT !.pc = "count",
                                         !.report = Filed(report[tx[p].key], tx[p].reason)]]
    /\ UNCHANGED <<report, row, targetLock>>

\* What a statement of p sees: the committed rows and p's own writes.
SeenBy(p) == [report EXCEPT ![tx[p].key] = tx[p].report]

\* Mutant: freshly_hidden without the `hidden_at IS NULL` guard.
CountNotFresh(p) ==
    LET after == AfterFiling(row[Target(p)], Cardinality(OpenReporters(SeenBy(p), Target(p))))
    IN  /\ tx[p].pc = "count"
        /\ tx' = [tx EXCEPT ![p] = [@ EXCEPT !.pc = "inserted", !.row = after,
                                             !.fresh = after.hidden]]
        /\ UNCHANGED <<report, row, targetLock, reportLock>>

\* SELECT COUNT(*), then the auto-hide UPDATE.
CountAndHide(p) ==
    LET after == AfterFiling(row[Target(p)], Cardinality(OpenReporters(SeenBy(p), Target(p))))
    IN  /\ tx[p].pc = "count"
        /\ tx' = [tx EXCEPT ![p] = [@ EXCEPT !.pc = "inserted", !.row = after,
                                             !.fresh = after.hidden /\ ~row[Target(p)].hidden]]
        /\ UNCHANGED <<report, row, targetLock, reportLock>>

CommitInsert(p) ==
    /\ tx[p].pc = "inserted"
    /\ Commit(p)

-----------------------------------------------------------------------------
\* ReportService::resolve: its own read of the row, then the statements of
\* the repository's `resolve`.
Disposition(p, k, action) ==
    /\ tx[p].pc = "idle"
    /\ report[k].status = "open" /\ Permitted(action, k[2])
    /\ tx' = [tx EXCEPT ![p] = [NoTx EXCEPT !.pc = "peek", !.key = k, !.action = action]]
    /\ UNCHANGED <<report, row, targetLock, reportLock>>

\* Mutant: the report row is locked here, before the target row.
PeekLocksReport(p) ==
    /\ tx[p].pc = "peek"
    /\ Grantable(reportLock, tx[p].key, p)
    /\ IF report[tx[p].key].status = "open"
       THEN /\ tx' = [tx EXCEPT ![p].pc = "lock"]
            /\ reportLock' = [reportLock EXCEPT ![tx[p].key] = p]
            /\ UNCHANGED targetLock
       ELSE End(p)
    /\ UNCHANGED <<report, row>>

\* Step 1, no lock: is the report still open?
PeekReport(p) ==
    /\ tx[p].pc = "peek"
    /\ IF report[tx[p].key].status = "open"
       THEN tx' = [tx EXCEPT ![p].pc = "lock"] /\ UNCHANGED <<targetLock, reportLock>>
       ELSE End(p)
    /\ UNCHANGED <<report, row>>

\* Mutant: the target row is read and not locked.
LockNothing(p) ==
    /\ tx[p].pc = "lock"
    /\ tx' = [tx EXCEPT ![p].pc = "update"]
    /\ UNCHANGED <<report, row, targetLock, reportLock>>

\* Step 2: the target row, FOR UPDATE, before the report row.
LockTarget(p) ==
    /\ tx[p].pc = "lock"
    /\ Grantable(targetLock, Target(p), p)
    /\ targetLock' = [targetLock EXCEPT ![Target(p)] = p]
    /\ tx' = [tx EXCEPT ![p].pc = "update"]
    /\ UNCHANGED <<report, row, reportLock>>

\* Step 3: UPDATE reports .. WHERE resolved_at IS NULL, then the effect on
\* the target; a report another moderator resolved ends the call.
UpdateReport(p) ==
    /\ tx[p].pc = "update"
    /\ Grantable(reportLock, tx[p].key, p)
    /\ IF report[tx[p].key].status = "open"
       THEN /\ reportLock' = [reportLock EXCEPT ![tx[p].key] = p]
            /\ tx' = [tx EXCEPT ![p] =
                        [@ EXCEPT !.pc = "resolved",
                                  !.report = Resolved(report[tx[p].key], tx[p].action),
                                  !.row = AfterAction(row[Target(p)], tx[p].action)]]
            /\ UNCHANGED targetLock
       ELSE End(p)
    /\ UNCHANGED <<report, row>>

CommitResolve(p) ==
    /\ tx[p].pc = "resolved"
    /\ Commit(p)

-----------------------------------------------------------------------------
\* A failed statement, a lost connection or a dropped request future.
Abort(p) ==
    /\ tx[p].pc # "idle"
    /\ End(p)
    /\ UNCHANGED <<report, row>>

Step(p) ==
    \/ ProbeTarget(p) \/ UpsertReport(p) \/ CountAndHide(p) \/ CommitInsert(p)
    \/ PeekReport(p) \/ LockTarget(p) \/ UpdateReport(p) \/ CommitResolve(p)

Next ==
    \/ \E t \in Reportable : Post(t) \/ AuthorDelete(t)
    \/ \E p \in Procs :
        \/ \E k \in ReportKeys, reason \in Reasons : Submit(p, k, reason)
        \/ \E k \in ReportKeys, action \in Actions : Disposition(p, k, action)
        \/ Step(p)
        \/ Abort(p)

Spec == Init /\ [][Next]_vars

-----------------------------------------------------------------------------
(* The inductive invariant the proofs rest on (ReportsProofs).             *)

Inserting == {"probe", "upsert", "count", "inserted"}
Resolving == {"peek", "lock", "update", "resolved"}
HoldsTarget == {"upsert", "count", "inserted", "update", "resolved"}
HoldsReport == {"count", "inserted", "resolved"}

\* The arguments of a running call.
ArgsInv ==
    \A p \in Procs :
        /\ tx[p].pc # "idle" => tx[p].key \in ReportKeys
        /\ tx[p].pc \in Inserting => tx[p].reason \in Reasons
        /\ tx[p].pc \in Resolving => Permitted(tx[p].action, Target(p))

\* A lock is held exactly from the statement that takes it to the end.
LockInv ==
    \A p \in Procs :
        /\ tx[p].pc \in HoldsTarget => targetLock[Target(p)] = p
        /\ tx[p].pc \in HoldsReport => reportLock[tx[p].key] = p
        /\ \A t \in Reportable :
              targetLock[t] = p => tx[p].pc \in HoldsTarget /\ Target(p) = t
        /\ \A k \in ReportKeys :
              reportLock[k] = p => tx[p].pc \in HoldsReport /\ tx[p].key = k

\* Every report names a target that exists.
NoOrphan ==
    /\ \A k \in ReportKeys : report[k].status # "none" => row[k[2]].state # "absent"
    /\ \A p \in Procs :
          tx[p].pc \in HoldsTarget \cup Resolving => row[Target(p)].state # "absent"

\* What a transaction has written is what its statements would write now:
\* nothing they read has changed under them.
Pending(p) ==
    /\ tx[p].pc \in {"count", "inserted"} =>
          tx[p].report = Filed(report[tx[p].key], tx[p].reason)
    /\ tx[p].pc = "inserted" =>
          /\ tx[p].row = AfterFiling(row[Target(p)],
                           Cardinality(OpenReporters(SeenBy(p), Target(p))))
          /\ tx[p].fresh = (tx[p].row.hidden /\ ~row[Target(p)].hidden)
    /\ tx[p].pc = "resolved" =>
          /\ report[tx[p].key].status = "open"
          /\ tx[p].report = Resolved(report[tx[p].key], tx[p].action)
          /\ tx[p].row = AfterAction(row[Target(p)], tx[p].action)
PendingInv == \A p \in Procs : Pending(p)

IInv == TypeOK /\ ArgsInv /\ LockInv /\ NoOrphan /\ PendingInv

-----------------------------------------------------------------------------
(* Properties.                                                             *)

WaitsFor(p, q) ==
    /\ p # q
    /\ \/ tx[p].pc \in {"probe", "lock"} /\ targetLock[Target(p)] = q
       \/ tx[p].pc \in {"upsert", "update"} /\ reportLock[tx[p].key] = q

\* Filing and dispositioning take their row locks in one order, target row
\* then report row, so no set of handlers ever waits for itself
\* (report_repo.rs:514-518, "insert and resolve can never deadlock").
NoWaitCycle ==
    \A S \in (SUBSET Procs) \ {{}} : \E p \in S : \A q \in S : ~WaitsFor(p, q)

\* However filings, dispositions and rollbacks interleave, the auto-hide is
\* never missed: a target with a threshold of open reports is hidden, unless
\* a moderator vouched for it with a Keep (report_repo.rs:301-313).
AutoHideNotLost ==
    \A t \in Reportable :
        Cardinality(OpenReporters(report, t)) >= Threshold =>
            \/ row[t].hidden
            \/ \E r \in Reporters : report[<<r, t>>].status = "keep"

\* A dispositioned report is immutable: no re-filing and no second
\* moderator rewrites the audit trail (report_repo.rs:333-339, 525-527).
DispositionFinal ==
    [][\A k \in ReportKeys : report[k].status \in Actions => report'[k] = report[k]]_vars

\* `freshly_hidden` is reported by exactly the filing whose commit hid the
\* target (report_repo.rs:389-394).
FreshlyHiddenExact ==
    [][\A p \in Procs : CommitInsert(p) =>
          (tx[p].fresh <=> ~row[Target(p)].hidden /\ row'[Target(p)].hidden)]_vars

\* The transactions are serializable: each is one atomic step of Moderation,
\* taken at its COMMIT, or none. The mapping takes the committed rows and hides
\* the locks and the transactions under way.
Mod == INSTANCE Moderation WITH report <- report, row <- row
ImplementsModeration == Mod!Spec

\* What report_repo.rs:390-393 says: "a re-filing past the threshold is a
\* no-op for the hide column".
RefilingLeavesTarget ==
    [][\A p \in Procs : CommitInsert(p) /\ report[tx[p].key].status # "none"
          => row'[Target(p)].hidden = row[Target(p)].hidden]_vars
=============================================================================

---------------------------- MODULE Submissions -----------------------------
(***************************************************************************)
(* crates/storage/src/submission_repo.rs under auth's SubmissionService    *)
(* and ModerationService.  An author's withdrawal is one UPDATE; a         *)
(* moderator's decision is a transaction that flips the row and writes the *)
(* audit log.  The flip locks the row until COMMIT, and READ COMMITTED     *)
(* makes whoever waited for it look at the committed row again.            *)
(***************************************************************************)
EXTENDS Handlers

CONSTANTS
    Submissions,    \* ids a submission may be given
    Moderators      \* accounts whose role passes require_moderator

VARIABLES
    submission,     \* submission[s], the committed row, or None
    audit,          \* audit[s][v], how many audit rows say v of s
    decision,       \* decision[p], p's open transaction after its flip
    effects         \* effects[s], how many calls have changed s (history)

submissionVars == <<submission, audit, decision, effects>>

Verdicts == {"approved", "rejected"}
SubmissionStatus == Verdicts \cup {"pending", "withdrawn"}
SubmissionRows == [author : Users, status : SubmissionStatus, reviewer : Moderators \cup {None}]
Decisions == [submission : Submissions, verdict : Verdicts,
              moderator : Moderators, audited : BOOLEAN]

ASSUME SubmissionAssumption == None \notin Moderators /\ None \notin SubmissionRows

SubmissionTypeOK ==
    /\ submission \in [Submissions -> SubmissionRows \cup {None}]
    /\ audit \in [Submissions -> [Verdicts -> Nat]]
    /\ decision \in [Procs -> Decisions \cup {None}]
    /\ effects \in [Submissions -> Nat]

SubmissionInit ==
    /\ submission = [s \in Submissions |-> None]
    /\ audit = [s \in Submissions |-> [v \in Verdicts |-> 0]]
    /\ decision = [p \in Procs |-> None]
    /\ effects = [s \in Submissions |-> 0]

-----------------------------------------------------------------------------
\* Mutant: a decision flips any row, so a second moderator overrules the first.
Known(s) == submission[s] # None

\* WHERE .. AND status = 'pending'
Pending(s) == submission[s] # None /\ submission[s].status = "pending"

Unlocked(s) == \A p \in Procs : decision[p] # None => decision[p].submission # s

\* SubmissionService::create; an invalid payload never gets here.
Submit(u, s) ==
    /\ submission[s] = None
    /\ submission' = [submission EXCEPT ![s] =
                        [author |-> u, status |-> "pending", reviewer |-> None]]
    /\ UNCHANGED <<audit, decision, effects>>

Withdraw(u, s) ==
    /\ Unlocked(s)
    /\ Pending(s)
    /\ submission[s].author = u
    /\ submission' = [submission EXCEPT ![s] = [@ EXCEPT !.status = "withdrawn"]]
    /\ effects' = [effects EXCEPT ![s] = @ + 1]
    /\ UNCHANGED <<audit, decision>>

\* approve_with_audit or reject_with_audit: BEGIN and the guarded UPDATE.
\* A reject without a reason has been answered MissingRejectReason before.
Flip(p, m, s, v) ==
    /\ decision[p] = None
    /\ Unlocked(s)
    /\ Pending(s)
    /\ decision' = [decision EXCEPT ![p] = [submission |-> s, verdict |-> v,
                                            moderator |-> m, audited |-> FALSE]]
    /\ UNCHANGED <<submission, audit, effects>>

\* The UPDATE of a withdrawal or a decision finds no row: ROLLBACK, and the
\* answer is NotFoundOrAlreadyDecided.
TooLate(s) ==
    /\ Unlocked(s)
    /\ ~Pending(s)
    /\ UNCHANGED submissionVars

WriteAudit(p) ==
    /\ decision[p] # None /\ ~decision[p].audited
    /\ decision' = [decision EXCEPT ![p] = [@ EXCEPT !.audited = TRUE]]
    /\ UNCHANGED <<submission, audit, effects>>

CommitDecision(p) ==
    /\ decision[p] # None /\ decision[p].audited
    /\ LET d == decision[p]
       IN  /\ submission' = [submission EXCEPT ![d.submission] =
                               [@ EXCEPT !.status = d.verdict, !.reviewer = d.moderator]]
           /\ audit' = [audit EXCEPT ![d.submission][d.verdict] = @ + 1]
           /\ effects' = [effects EXCEPT ![d.submission] = @ + 1]
    /\ decision' = [decision EXCEPT ![p] = None]

\* A failed statement, a lost connection, a dropped request or a crash.
RollBackDecision(p) ==
    /\ decision[p] # None
    /\ decision' = [decision EXCEPT ![p] = None]
    /\ UNCHANGED <<submission, audit, effects>>

SubmissionNext ==
    \/ \E s \in Submissions :
          \/ \E u \in Users : Submit(u, s) \/ Withdraw(u, s)
          \/ \E p \in Procs, m \in Moderators, v \in Verdicts : Flip(p, m, s, v)
          \/ TooLate(s)
    \/ \E p \in Procs : WriteAudit(p) \/ CommitDecision(p) \/ RollBackDecision(p)

SubmissionSpec == SubmissionInit /\ [][SubmissionNext]_submissionVars
-----------------------------------------------------------------------------
\* A submission leaves the queue once, by one call, whoever withdraws or
\* decides at the same moment and wherever a decision fails: it carries a
\* reviewer and exactly one audit row, of its verdict, if a moderator decided
\* it, and neither otherwise (submission_repo.rs:333-367, 491-545).
OneVerdict ==
    \A s \in Submissions :
        LET decided == submission[s] # None /\ submission[s].status \in Verdicts
            settled == submission[s] # None /\ submission[s].status # "pending"
        IN  /\ effects[s] = IF settled THEN 1 ELSE 0
            /\ \A v \in Verdicts :
                 audit[s][v] = IF decided /\ submission[s].status = v THEN 1 ELSE 0
            /\ submission[s] # None => (decided <=> submission[s].reviewer # None)

\* An open decision is of a row that is still pending and that no other open
\* decision has flipped.
OneDecision ==
    \A p \in Procs : decision[p] # None =>
        /\ Pending(decision[p].submission)
        /\ \A q \in Procs \ {p} :
              decision[q] # None => decision[q].submission # decision[p].submission

SubmissionIInv == SubmissionTypeOK /\ OneDecision /\ OneVerdict
=============================================================================

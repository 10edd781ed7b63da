--------------------------- MODULE CommunityProofs ---------------------------
(***************************************************************************)
(* Proofs about submissions, comments, logins with a provider, collections *)
(* and bookmarks, for any sets of users, rows and handlers, any clocks and *)
(* any edit window.                                                        *)
(***************************************************************************)
EXTENDS Submissions, Comments, OAuth, Collections, Bookmarks, TLAPS

-----------------------------------------------------------------------------
(* Submissions                                                             *)

LEMMA SubmissionInitInv == SubmissionInit => SubmissionIInv
  BY DEF SubmissionInit, SubmissionIInv, SubmissionTypeOK, OneDecision, OneVerdict

\* What OneVerdict says of one submission, with the row spelt out.
Settled(row) == row # None /\ row.status # "pending"
Decided(row) == row # None /\ row.status \in Verdicts
RowVerdict(row, log, n) ==
    /\ n = IF Settled(row) THEN 1 ELSE 0
    /\ \A v \in Verdicts : log[v] = IF Decided(row) /\ row.status = v THEN 1 ELSE 0
    /\ row # None => (Decided(row) <=> row.reviewer # None)

LEMMA VerdictByRow ==
    OneVerdict <=> \A s \in Submissions : RowVerdict(submission[s], audit[s], effects[s])
  BY DEF OneVerdict, RowVerdict, Settled, Decided

LEMMA SubmitInv ==
    ASSUME SubmissionIInv, NEW u \in Users, NEW s \in Submissions, Submit(u, s)
    PROVE  SubmissionIInv'
<1> DEFINE row == [author |-> u, status |-> "pending", reviewer |-> None]
<1>1. SubmissionTypeOK /\ OneDecision /\ \A r \in Submissions : RowVerdict(submission[r], audit[r], effects[r])
  BY VerdictByRow DEF SubmissionIInv
<1>2. /\ submission[s] = None /\ submission' = [submission EXCEPT ![s] = row]
      /\ UNCHANGED <<audit, decision, effects>>
  BY DEF Submit
<1>3. row \in SubmissionRows /\ row.status = "pending" /\ row.reviewer = None
  BY DEF SubmissionRows, SubmissionStatus
<1> HIDE DEF row
<1>4. submission'[s] = row /\ \A r \in Submissions \ {s} : submission'[r] = submission[r]
  BY <1>1, <1>2 DEF SubmissionTypeOK
<1>5. SubmissionTypeOK'
  BY <1>1, <1>2, <1>3 DEF SubmissionTypeOK, SubmissionRows, Decisions, SubmissionStatus, Verdicts
<1>6. OneDecision'
  BY <1>1, <1>2, <1>4 DEF OneDecision, Pending, SubmissionTypeOK, Decisions
<1>7. ASSUME NEW r \in Submissions
      PROVE  RowVerdict(submission'[r], audit'[r], effects'[r])
  <2>1. CASE r = s
    BY <1>1, <1>2, <1>3, <1>4, <2>1 DEF RowVerdict, Settled, Decided, Verdicts
  <2>2. CASE r # s
    BY <1>1, <1>2, <1>4, <2>2
  <2>3. QED BY <2>1, <2>2
<1>8. OneVerdict'
  BY <1>7 DEF OneVerdict, RowVerdict, Settled, Decided
<1>9. QED BY <1>5, <1>6, <1>8 DEF SubmissionIInv

LEMMA WithdrawInv ==
    ASSUME SubmissionIInv, NEW u \in Users, NEW s \in Submissions, Withdraw(u, s)
    PROVE  SubmissionIInv'
<1> DEFINE row == [submission[s] EXCEPT !.status = "withdrawn"]
<1>1. SubmissionTypeOK /\ OneDecision /\ \A r \in Submissions : RowVerdict(submission[r], audit[r], effects[r])
  BY VerdictByRow DEF SubmissionIInv
<1>2. /\ submission[s] # None /\ submission[s].status = "pending" /\ Unlocked(s)
      /\ submission' = [submission EXCEPT ![s] = row]
      /\ effects' = [effects EXCEPT ![s] = @ + 1]
      /\ UNCHANGED <<audit, decision>>
  BY DEF Withdraw, Pending
<1>3. submission[s] \in SubmissionRows
  BY <1>1, <1>2 DEF SubmissionTypeOK
<1>4. /\ row \in SubmissionRows /\ row.status = "withdrawn" /\ row.reviewer = submission[s].reviewer
      /\ row # None
  BY <1>3, SubmissionAssumption DEF SubmissionRows, SubmissionStatus
<1> HIDE DEF row
<1>5. /\ submission'[s] = row /\ effects'[s] = effects[s] + 1
      /\ \A r \in Submissions \ {s} : submission'[r] = submission[r] /\ effects'[r] = effects[r]
  BY <1>1, <1>2 DEF SubmissionTypeOK
<1>6. SubmissionTypeOK'
  BY <1>1, <1>2, <1>4 DEF SubmissionTypeOK, SubmissionRows, Decisions, SubmissionStatus, Verdicts
<1>7. OneDecision'
  BY <1>1, <1>2, <1>5 DEF OneDecision, Pending, Unlocked, SubmissionTypeOK, Decisions
<1>8. ASSUME NEW r \in Submissions
      PROVE  RowVerdict(submission'[r], audit'[r], effects'[r])
  <2>1. CASE r = s
    <3>1. RowVerdict(submission[s], audit[s], effects[s])
      BY <1>1
    <3>2. QED BY <1>2, <1>4, <1>5, <2>1, <3>1 DEF RowVerdict, Settled, Decided, Verdicts
  <2>2. CASE r # s
    BY <1>1, <1>2, <1>5, <2>2
  <2>3. QED BY <2>1, <2>2
<1>9. OneVerdict'
  BY <1>8 DEF OneVerdict, RowVerdict, Settled, Decided
<1>10. QED BY <1>6, <1>7, <1>9 DEF SubmissionIInv

LEMMA FlipInv ==
    ASSUME SubmissionIInv, NEW p \in Procs, NEW m \in Moderators, NEW s \in Submissions,
           NEW v \in Verdicts, Flip(p, m, s, v)
    PROVE  SubmissionIInv'
<1> DEFINE new == [submission |-> s, verdict |-> v, moderator |-> m, audited |-> FALSE]
<1>1. SubmissionTypeOK /\ OneDecision /\ OneVerdict
  BY DEF SubmissionIInv
<1>2. /\ Unlocked(s) /\ Pending(s) /\ decision' = [decision EXCEPT ![p] = new]
      /\ UNCHANGED <<submission, audit, effects>>
  BY DEF Flip
<1>3. new \in Decisions /\ new.submission = s
  BY DEF Decisions
<1> HIDE DEF new
<1>4. decision'[p] = new /\ \A q \in Procs \ {p} : decision'[q] = decision[q]
  BY <1>1, <1>2 DEF SubmissionTypeOK
<1>5. SubmissionTypeOK'
  BY <1>1, <1>2, <1>3 DEF SubmissionTypeOK, SubmissionRows, Decisions, SubmissionStatus, Verdicts
<1>6. OneDecision'
  BY <1>1, <1>2, <1>3, <1>4 DEF OneDecision, Pending, Unlocked
<1>7. OneVerdict'
  BY <1>1, <1>2 DEF OneVerdict, Verdicts
<1>8. QED BY <1>5, <1>6, <1>7 DEF SubmissionIInv

LEMMA WriteAuditInv ==
    ASSUME SubmissionIInv, NEW p \in Procs, WriteAudit(p)
    PROVE  SubmissionIInv'
<1> DEFINE new == [decision[p] EXCEPT !.audited = TRUE]
<1>1. SubmissionTypeOK /\ OneDecision /\ OneVerdict
  BY DEF SubmissionIInv
<1>2. /\ decision[p] # None /\ decision' = [decision EXCEPT ![p] = new]
      /\ UNCHANGED <<submission, audit, effects>>
  BY DEF WriteAudit
<1>3. new \in Decisions /\ new.submission = decision[p].submission
  BY <1>1, <1>2 DEF SubmissionTypeOK, Decisions
<1> HIDE DEF new
<1>4. decision'[p] = new /\ \A q \in Procs \ {p} : decision'[q] = decision[q]
  BY <1>1, <1>2 DEF SubmissionTypeOK
<1>5. SubmissionTypeOK'
  BY <1>1, <1>2, <1>3 DEF SubmissionTypeOK, SubmissionRows, Decisions, SubmissionStatus, Verdicts
<1>6. OneDecision'
  BY <1>1, <1>2, <1>3, <1>4 DEF OneDecision, Pending
<1>7. OneVerdict'
  BY <1>1, <1>2 DEF OneVerdict, Verdicts
<1>8. QED BY <1>5, <1>6, <1>7 DEF SubmissionIInv

\* The row, the audit log and the count of calls change in one COMMIT.
LEMMA CommitDecisionInv ==
    ASSUME SubmissionIInv, NEW p \in Procs, CommitDecision(p)
    PROVE  SubmissionIInv'
<1> DEFINE d == decision[p]
           s == d.submission
           row == [submission[s] EXCEPT !.status = d.verdict, !.reviewer = d.moderator]
<1>1. SubmissionTypeOK /\ OneDecision /\ \A r \in Submissions : RowVerdict(submission[r], audit[r], effects[r])
  BY VerdictByRow DEF SubmissionIInv
<1>2. /\ d # None
      /\ submission' = [submission EXCEPT ![s] = row]
      /\ audit' = [audit EXCEPT ![s][d.verdict] = @ + 1]
      /\ effects' = [effects EXCEPT ![s] = @ + 1]
      /\ decision' = [decision EXCEPT ![p] = None]
  BY DEF CommitDecision
<1>3. s \in Submissions /\ d.verdict \in Verdicts /\ d.moderator \in Moderators
  BY <1>1, <1>2 DEF SubmissionTypeOK, Decisions
<1>4. /\ submission[s] # None /\ submission[s].status = "pending"
      /\ \A q \in Procs \ {p} : decision[q] # None => decision[q].submission # s
  BY <1>1, <1>2 DEF OneDecision, Pending
<1>5. submission[s] \in SubmissionRows
  BY <1>1, <1>3, <1>4 DEF SubmissionTypeOK
<1>6. /\ row \in SubmissionRows /\ row.status = d.verdict /\ row.reviewer = d.moderator
      /\ row # None
  BY <1>3, <1>5, SubmissionAssumption DEF SubmissionRows, SubmissionStatus
<1> HIDE DEF row, d, s
<1>7. /\ submission'[s] = row /\ effects'[s] = effects[s] + 1
      /\ \A r \in Submissions \ {s} : /\ submission'[r] = submission[r] /\ effects'[r] = effects[r]
                                      /\ audit'[r] = audit[r]
      /\ \A v \in Verdicts : audit'[s][v] = IF v = d.verdict THEN audit[s][v] + 1 ELSE audit[s][v]
  BY <1>1, <1>2, <1>3 DEF SubmissionTypeOK
<1>8. /\ decision' \in [Procs -> Decisions \cup {None}]
      /\ decision'[p] = None /\ \A q \in Procs \ {p} : decision'[q] = decision[q]
  BY <1>1, <1>2 DEF SubmissionTypeOK
<1>9. SubmissionTypeOK'
  <2>1. submission' \in [Submissions -> SubmissionRows \cup {None}] /\ effects' \in [Submissions -> Nat]
    BY <1>1, <1>2, <1>3, <1>6 DEF SubmissionTypeOK
  <2>2. audit' \in [Submissions -> [Verdicts -> Nat]]
    BY <1>1, <1>2, <1>3 DEF SubmissionTypeOK
  <2>3. QED BY <1>8, <2>1, <2>2 DEF SubmissionTypeOK, SubmissionRows, Decisions, SubmissionStatus, Verdicts
<1>10. OneDecision'
  <2>1. ASSUME NEW q \in Procs, decision'[q] # None
        PROVE  q # p /\ decision'[q] = decision[q] /\ decision[q] \in Decisions /\ decision[q].submission # s
    BY <1>1, <1>4, <1>8, <2>1 DEF SubmissionTypeOK
  <2>2. ASSUME NEW q \in Procs, decision'[q] # None
        PROVE  submission'[decision'[q].submission] # None /\ submission'[decision'[q].submission].status = "pending"
    <3>1. decision[q].submission \in Submissions \ {s}
      BY <2>1, <2>2 DEF Decisions
    <3>2. Pending(decision[q].submission)
      BY <1>1, <2>1, <2>2 DEF OneDecision
    <3>3. QED BY <1>7, <2>1, <2>2, <3>1, <3>2 DEF Pending
  <2>3. QED BY <1>1, <2>1, <2>2 DEF OneDecision, Pending
<1>11. ASSUME NEW r \in Submissions
       PROVE  RowVerdict(submission'[r], audit'[r], effects'[r])
  <2>1. CASE r = s
    <3>1. RowVerdict(submission[s], audit[s], effects[s])
      BY <1>1, <1>3
    <3>2. effects[s] = 0 /\ \A v \in Verdicts : audit[s][v] = 0
      BY <1>4, <3>1 DEF RowVerdict, Settled, Decided, Verdicts
    <3>3. Settled(row) /\ Decided(row) /\ row.reviewer # None
      BY <1>3, <1>6, SubmissionAssumption DEF Settled, Decided, Verdicts
    <3>4. QED BY <1>6, <1>7, <2>1, <3>2, <3>3 DEF RowVerdict
  <2>2. CASE r # s
    BY <1>1, <1>7, <2>2
  <2>3. QED BY <2>1, <2>2
<1>12. OneVerdict'
  BY <1>11 DEF OneVerdict, RowVerdict, Settled, Decided
<1>13. QED BY <1>9, <1>10, <1>12 DEF SubmissionIInv

LEMMA RollBackInv ==
    ASSUME SubmissionIInv, NEW p \in Procs, RollBackDecision(p)
    PROVE  SubmissionIInv'
<1>1. SubmissionTypeOK /\ OneDecision /\ OneVerdict
  BY DEF SubmissionIInv
<1>2. decision' = [decision EXCEPT ![p] = None] /\ UNCHANGED <<submission, audit, effects>>
  BY DEF RollBackDecision
<1>3. decision'[p] = None /\ \A q \in Procs \ {p} : decision'[q] = decision[q]
  BY <1>1, <1>2 DEF SubmissionTypeOK
<1>4. SubmissionTypeOK'
  BY <1>1, <1>2 DEF SubmissionTypeOK, SubmissionRows, Decisions, SubmissionStatus, Verdicts
<1>5. OneDecision'
  BY <1>1, <1>2, <1>3 DEF OneDecision, Pending
<1>6. OneVerdict'
  BY <1>1, <1>2 DEF OneVerdict, Verdicts
<1>7. QED BY <1>4, <1>5, <1>6 DEF SubmissionIInv

LEMMA SubmissionInductive ==
    ASSUME SubmissionIInv, [SubmissionNext]_submissionVars
    PROVE  SubmissionIInv'
<1>1. ASSUME NEW s \in Submissions, NEW u \in Users, Submit(u, s) \/ Withdraw(u, s)
      PROVE  SubmissionIInv'
  BY <1>1, SubmitInv, WithdrawInv
<1>2. ASSUME NEW s \in Submissions, NEW p \in Procs, NEW m \in Moderators, NEW v \in Verdicts,
             Flip(p, m, s, v)
      PROVE  SubmissionIInv'
  BY <1>2, FlipInv
<1>3. ASSUME NEW p \in Procs, WriteAudit(p) \/ CommitDecision(p) \/ RollBackDecision(p)
      PROVE  SubmissionIInv'
  BY <1>3, WriteAuditInv, CommitDecisionInv, RollBackInv
<1>4. CASE UNCHANGED submissionVars
  BY <1>4 DEF submissionVars, SubmissionIInv, SubmissionTypeOK, OneDecision, OneVerdict, Pending,
     SubmissionRows, Decisions, SubmissionStatus, Verdicts
<1>5. QED BY <1>1, <1>2, <1>3, <1>4 DEF SubmissionNext, TooLate

\* A submission leaves the queue by one call and with at most one audit row,
\* for any number of authors, moderators and requests (submission_repo.rs:
\* 333-367, 491-545).
THEOREM DecidedOnce == SubmissionSpec => []OneVerdict
<1>1. SubmissionIInv => OneVerdict
  BY DEF SubmissionIInv
<1>2. QED BY <1>1, SubmissionInitInv, SubmissionInductive, PTL DEF SubmissionSpec

-----------------------------------------------------------------------------
(* Comments                                                                *)

LEMMA CommentInitInv == CommentInit => CommentIInv
  BY DEF CommentInit, CommentIInv, CommentTypeOK, CallInv, CallOK, RepliesHang, NoCall, Call

\* A row keeps what threads are made of, and a deleted one stays deleted.
Kept(c) ==
    comment[c] # None =>
        /\ comment'[c] # None
        /\ comment'[c].target = comment[c].target /\ comment'[c].parent = comment[c].parent
        /\ comment'[c].depth = comment[c].depth
        /\ comment'[c].author = comment[c].author /\ comment'[c].created = comment[c].created
        /\ comment[c].deleted => comment'[c].deleted

\* Root, of the rows of any state.
Hangs(rows, c, t) == rows[c] # None /\ rows[c].depth = 0 /\ rows[c].target = t

LEMMA KeptRoot ==
    ASSUME NEW c, NEW t, Kept(c), Root(c, t)
    PROVE  Hangs(comment', c, t)
  BY DEF Kept, Root, Hangs

\* A call that waits is not disturbed by a step of another, unless that
\* un-hides its comment.
LEMMA CallStands ==
    ASSUME CommentTypeOK, NEW p \in Procs, CallOK(p), commenting'[p] = commenting[p],
           \A c \in CommentIds : Kept(c),
           \A c \in CommentIds : comment[c] # None /\ comment[c].hidden /\ commenting[p].id = c
               /\ commenting[p].pc = "recheck" => comment'[c].hidden
    PROVE  CallOK(p)'
<1> DEFINE call == commenting[p]
<1>1. call.id \in CommentIds \cup {None}
  BY DEF CommentTypeOK, Call
<1>2. call.pc = "insert" /\ call.id # None => Hangs(comment', call.id, call.target)
  BY <1>1, KeptRoot DEF CallOK
<1>3. call.pc \in {"edit", "recheck"} => comment'[call.id] # None
  BY <1>1 DEF CallOK, Kept
<1>4. CASE call.pc = "recheck"
  <2>1. /\ call.id \in CommentIds /\ comment[call.id] # None /\ Kept(call.id)
        /\ comment[call.id].hidden => comment'[call.id].hidden
    BY <1>1, <1>4 DEF CallOK
  <2>2. \/ call.lifted \/ comment[call.id].hidden \/ ~Owned(call.user, call.id)
        \/ call.op = "edit" /\ ~InWindow(call.now, call.id)
    BY <1>4 DEF CallOK
  <2>3. QED BY <1>3, <1>4, <2>1, <2>2 DEF CallOK, Kept, Owned, InWindow
<1>5. CASE call.pc # "recheck"
  BY <1>2, <1>3, <1>5 DEF CallOK, Root, Hangs
<1>6. QED BY <1>4, <1>5

\* A handler that is idle has nothing to keep.
LEMMA IdleOK ==
    ASSUME NEW p \in Procs, commenting'[p].pc = "idle"
    PROVE  CallOK(p)'
  BY DEF CallOK

\* A step of one handler that leaves the rows alone: only its own call is new.
LEMMA RowsStand ==
    ASSUME CommentIInv, NEW p \in Procs, NEW call \in Call,
           commenting' = [commenting EXCEPT ![p] = call], UNCHANGED comment,
           (commenting'[p] = call) => CallOK(p)'
    PROVE  CommentIInv'
<1>1. CommentTypeOK /\ CallInv /\ RepliesHang
  BY DEF CommentIInv
<1>2. commenting'[p] = call /\ \A q \in Procs \ {p} : commenting'[q] = commenting[q]
  BY <1>1 DEF CommentTypeOK
<1>3. CommentTypeOK'
  BY <1>1 DEF CommentTypeOK, CommentRows, Call
<1>4. CallInv'
  <2>1. ASSUME NEW q \in Procs \ {p} PROVE CallOK(q)'
    BY <1>1, <1>2, CallStands DEF CallInv, Kept
  <2>2. QED BY <1>2, <2>1 DEF CallInv
<1>5. RepliesHang'
  <2>1. \A c \in CommentIds : comment'[c] # None /\ comment'[c].parent # None =>
          Hangs(comment', comment'[c].parent, comment'[c].target)
    BY <1>1 DEF RepliesHang, Root, Hangs
  <2>2. QED BY <1>4, <2>1 DEF RepliesHang, CallInv, CallOK, Root, Hangs
<1>6. QED BY <1>3, <1>4, <1>5 DEF CommentIInv

LEMMA NoCallType ==
    NoCall \in Call /\ NoCall.pc = "idle" /\ NoCall.op = "create" /\ ~NoCall.lifted
  BY DEF NoCall, Call

LEMMA ClockNat == \A now \in Clock : now \in Nat /\ now # None
  BY HandlerAssumption, CommentAssumption

LEMMA FinishInv ==
    ASSUME CommentIInv, NEW p \in Procs, Finish(p), UNCHANGED comment
    PROVE  CommentIInv'
<1>1. commenting' = [commenting EXCEPT ![p] = NoCall]
  BY DEF Finish
<1>2. QED BY <1>1, NoCallType, IdleOK, RowsStand

LEMMA CreateInv ==
    ASSUME CommentIInv, NEW p \in Procs, NEW u \in Users, NEW t \in Targets,
           NEW parent \in CommentIds \cup {None}, Create(p, u, t, parent)
    PROVE  CommentIInv'
<1> DEFINE call == [NoCall EXCEPT !.pc = "insert", !.user = u, !.target = t, !.id = parent]
<1>1. /\ commenting' = [commenting EXCEPT ![p] = call] /\ UNCHANGED comment
      /\ parent # None => Root(parent, t)
  BY DEF Create, Repliable, Root
<1>2. u # None /\ t # None
  BY HandlerAssumption, CommentAssumption
<1>3. /\ call \in Call /\ call.user = u /\ call.target = t /\ call.id = parent /\ call.pc = "insert"
  BY NoCallType DEF Call
<1> HIDE DEF call
<1>4. commenting'[p] = call => CallOK(p)'
  BY <1>1, <1>2, <1>3 DEF CallOK, Root
<1>5. QED BY <1>1, <1>3, <1>4, RowsStand

LEMMA EditInv ==
    ASSUME CommentIInv, NEW p \in Procs, NEW u \in Users, NEW c \in CommentIds, NEW now \in Clock,
           Edit(p, u, c, now)
    PROVE  CommentIInv'
<1> DEFINE call == [NoCall EXCEPT !.pc = "edit", !.op = "edit", !.user = u, !.id = c, !.now = now]
<1>1. commenting' = [commenting EXCEPT ![p] = call] /\ UNCHANGED comment /\ comment[c] # None
  BY DEF Edit, Owned
<1>2. /\ call \in Call /\ call.user # None /\ call.id = c /\ c # None /\ call.now # None
      /\ call.pc = "edit" /\ call.op = "edit"
  BY NoCallType, HandlerAssumption, CommentAssumption, ClockNat DEF Call
<1> HIDE DEF call
<1>3. commenting'[p] = call => CallOK(p)'
  BY <1>1, <1>2 DEF CallOK
<1>4. QED BY <1>1, <1>2, <1>3, RowsStand

LEMMA InsertInv ==
    ASSUME CommentIInv, NEW p \in Procs, NEW c \in CommentIds, NEW now \in Clock, Insert(p, c, now)
    PROVE  CommentIInv'
<1> DEFINE call == commenting[p]
           row == [target |-> call.target, parent |-> call.id,
                   depth |-> IF call.id = None THEN 0 ELSE 1,
                   author |-> call.user, created |-> now, deleted |-> FALSE, hidden |-> FALSE]
<1>1. CommentTypeOK /\ CallInv /\ RepliesHang /\ CallOK(p)
  BY DEF CommentIInv, CallInv
<1>2. /\ call.pc = "insert" /\ comment[c] = None
      /\ comment' = [comment EXCEPT ![c] = row]
      /\ commenting' = [commenting EXCEPT ![p] = NoCall]
  BY DEF Insert, Finish
<1>3. call.target \in Targets /\ call.user \in Users /\ call.id \in CommentIds \cup {None}
  BY <1>1, <1>2 DEF CallOK, CommentTypeOK, Call
<1>4. row \in CommentRows /\ row.parent = call.id /\ row.target = call.target
  BY <1>3 DEF CommentRows
<1>5. call.id # None => Root(call.id, call.target)
  BY <1>1, <1>2 DEF CallOK
<1> HIDE DEF row, call
<1>6. /\ comment'[c] = row /\ \A d \in CommentIds \ {c} : comment'[d] = comment[d]
      /\ commenting'[p] = NoCall /\ \A q \in Procs \ {p} : commenting'[q] = commenting[q]
  BY <1>1, <1>2 DEF CommentTypeOK
<1>7. \A d \in CommentIds : Kept(d)
  BY <1>2, <1>6 DEF Kept
<1>8. CommentTypeOK'
  BY <1>1, <1>2, <1>4, NoCallType DEF CommentTypeOK, CommentRows, Call
<1>9. CallInv'
  <2>1. ASSUME NEW q \in Procs \ {p} PROVE CallOK(q)'
    BY <1>1, <1>2, <1>6, <1>7, CallStands DEF CallInv
  <2>2. CallOK(p)'
    BY <1>6, NoCallType, IdleOK
  <2>3. QED BY <2>1, <2>2 DEF CallInv
<1>10. ASSUME NEW d \in CommentIds, comment'[d] # None, comment'[d].parent # None
       PROVE  Hangs(comment', comment'[d].parent, comment'[d].target)
  <2>1. CASE d = c
    <3>1. call.id \in CommentIds /\ Root(call.id, call.target) /\ Kept(call.id)
      BY <1>3, <1>4, <1>5, <1>6, <1>7, <1>10, <2>1
    <3>2. comment'[d].parent = call.id /\ comment'[d].target = call.target
      BY <1>4, <1>6, <2>1
    <3>3. QED BY <3>1, <3>2 DEF Root, Kept, Hangs
  <2>2. CASE d # c
    <3>1. /\ comment[d] # None /\ comment'[d] = comment[d] /\ comment[d].parent # None
          /\ Root(comment[d].parent, comment[d].target)
      BY <1>1, <1>6, <1>10, <2>2 DEF RepliesHang
    <3>2. comment[d].parent \in CommentIds
      BY <1>1, <3>1 DEF CommentTypeOK, CommentRows
    <3>3. QED BY <1>7, <3>1, <3>2 DEF Root, Kept, Hangs
  <2>3. QED BY <2>1, <2>2
<1>11. RepliesHang'
  BY <1>9, <1>10 DEF RepliesHang, CallInv, CallOK, Root, Hangs
<1>12. QED BY <1>8, <1>9, <1>11 DEF CommentIInv

\* Threads stay as they are when no row comes or goes.
LEMMA RowChanges ==
    ASSUME CommentIInv, NEW c \in CommentIds, comment[c] # None, NEW row \in CommentRows,
           comment' = [comment EXCEPT ![c] = row],
           row.target = comment[c].target, row.parent = comment[c].parent,
           row.depth = comment[c].depth, row.author = comment[c].author,
           row.created = comment[c].created, comment[c].deleted => row.deleted
    PROVE  /\ \A d \in CommentIds : Kept(d)
           /\ comment' \in [CommentIds -> CommentRows \cup {None}]
           /\ \A d \in CommentIds : comment'[d] # None /\ comment'[d].parent # None =>
                 Hangs(comment', comment'[d].parent, comment'[d].target)
           /\ comment'[c] = row /\ \A d \in CommentIds \ {c} : comment'[d] = comment[d]
<1>1. CommentTypeOK /\ RepliesHang
  BY DEF CommentIInv
<1>2. comment'[c] = row /\ \A d \in CommentIds \ {c} : comment'[d] = comment[d]
  BY <1>1 DEF CommentTypeOK
<1>3. row # None
  BY RowAssumption
<1>4. \A d \in CommentIds : Kept(d)
  BY <1>2, <1>3 DEF Kept
<1>5. comment' \in [CommentIds -> CommentRows \cup {None}]
  BY <1>1 DEF CommentTypeOK
<1>6. ASSUME NEW d \in CommentIds, comment'[d] # None, comment'[d].parent # None
      PROVE  Hangs(comment', comment'[d].parent, comment'[d].target)
  <2>1. /\ comment[d] # None /\ comment[d].parent = comment'[d].parent
        /\ comment[d].target = comment'[d].target
    BY <1>2, <1>4, <1>6
  <2>2. Root(comment[d].parent, comment[d].target) /\ comment[d].parent \in CommentIds
    BY <1>1, <1>6, <2>1 DEF RepliesHang, CommentTypeOK, CommentRows
  <2>3. QED BY <1>4, <2>1, <2>2 DEF Root, Kept, Hangs
<1>7. QED BY <1>2, <1>4, <1>5, <1>6

LEMMA SoftDeleteInv ==
    ASSUME CommentIInv, NEW p \in Procs, NEW u \in Users, NEW c \in CommentIds, SoftDelete(p, u, c)
    PROVE  CommentIInv'
<1> DEFINE row == [comment[c] EXCEPT !.deleted = TRUE]
<1>1. CommentTypeOK /\ CallInv /\ comment[c] # None /\ comment[c] \in CommentRows
  BY DEF CommentIInv, SoftDelete, CommentTypeOK
<1>2. CASE comment' = [comment EXCEPT ![c] = row] /\ UNCHANGED commenting
  <2>1. /\ row \in CommentRows /\ row.target = comment[c].target /\ row.parent = comment[c].parent
        /\ row.depth = comment[c].depth /\ row.author = comment[c].author
        /\ row.created = comment[c].created /\ row.deleted /\ row.hidden = comment[c].hidden
    BY <1>1 DEF CommentRows
  <2> HIDE DEF row
  <2>2. /\ \A d \in CommentIds : Kept(d)
        /\ comment' \in [CommentIds -> CommentRows \cup {None}]
        /\ \A d \in CommentIds : comment'[d] # None /\ comment'[d].parent # None =>
              Hangs(comment', comment'[d].parent, comment'[d].target)
        /\ comment'[c] = row /\ \A d \in CommentIds \ {c} : comment'[d] = comment[d]
    BY <1>1, <1>2, <2>1, RowChanges
  <2>3. CommentTypeOK'
    BY <1>1, <1>2, <2>2 DEF CommentTypeOK, CommentRows, Call
  <2>4. \A d \in CommentIds : comment[d] # None /\ comment[d].hidden => comment'[d].hidden
    BY <2>1, <2>2
  <2>5. CallInv'
    <3>1. ASSUME NEW q \in Procs PROVE CallOK(q)'
      BY <1>1, <1>2, <2>2, <2>4, CallStands DEF CallInv
    <3>2. QED BY <3>1 DEF CallInv
  <2>6. RepliesHang'
    BY <2>2, <2>5 DEF RepliesHang, CallInv, CallOK, Root, Hangs
  <2>7. QED BY <2>3, <2>5, <2>6 DEF CommentIInv
<1>3. CASE /\ ~(Owned(u, c) /\ ~comment[c].hidden) /\ UNCHANGED comment
           /\ commenting' = [commenting EXCEPT ![p] =
                 [NoCall EXCEPT !.pc = "recheck", !.op = "delete", !.user = u, !.id = c]]
  <2> DEFINE call == [NoCall EXCEPT !.pc = "recheck", !.op = "delete", !.user = u, !.id = c]
  <2>1. /\ commenting' = [commenting EXCEPT ![p] = call]
        /\ call \in Call /\ call.pc = "recheck" /\ call.user = u /\ u # None
        /\ call.op = "delete" /\ call.id = c /\ c # None
    BY <1>3, NoCallType, HandlerAssumption, CommentAssumption DEF Call
  <2> HIDE DEF call
  <2>2. comment[c].hidden \/ ~(comment[c].author = u /\ ~comment[c].deleted)
    BY <1>1, <1>3 DEF Owned
  <2>3. commenting'[p] = call => CallOK(p)'
    BY <1>1, <1>3, <2>1, <2>2 DEF CallOK, Owned
  <2>4. QED BY <1>3, <2>1, <2>3, RowsStand
<1>4. QED BY <1>1, <1>2, <1>3 DEF SoftDelete

\* The window of the statement is not shorter than the configured one.
LEMMA SqlWindowCovers == SqlWindow \in Nat /\ EditWindow <= SqlWindow
<1> DEFINE n == EditWindow + Second - 1
           q == n \div Second
           r == n % Second
<1>1. EditWindow \in Nat /\ Second \in Nat /\ Second > 0 /\ n \in Nat
  BY CommentAssumption
<1> HIDE DEF n
<1>2. q \in Nat /\ r \in 0 .. Second - 1 /\ n = Second * q + r
  BY <1>1
<1>3. Second * q \in Nat /\ SqlWindow = Second * q
  BY <1>1, <1>2 DEF SqlWindow, n
<1> DEFINE sq == Second * q
<1> HIDE DEF q, r
<1>4. sq \in Nat /\ n = sq + r
  BY <1>2, <1>3
<1> HIDE DEF sq
<1>5. EditWindow <= sq
  BY <1>1, <1>2, <1>4 DEF n
<1>6. QED BY <1>3, <1>4, <1>5 DEF sq

LEMMA UpdateBodyInv ==
    ASSUME CommentIInv, NEW p \in Procs, UpdateBody(p)
    PROVE  CommentIInv'
<1> DEFINE c == commenting[p].id
           now == commenting[p].now
<1>1. CommentTypeOK /\ CallInv /\ CallOK(p) /\ commenting[p].pc = "edit" /\ UNCHANGED comment
  BY DEF CommentIInv, CallInv, UpdateBody
<1>2. /\ c \in CommentIds /\ c # None /\ comment[c] # None /\ comment[c].created \in Nat
      /\ commenting[p].op = "edit" /\ commenting[p].user # None /\ now \in Nat /\ now # None
  BY <1>1, HandlerAssumption DEF CallOK, CommentTypeOK, Call, CommentRows
<1>3. CASE Finish(p)
  BY <1>1, <1>3, FinishInv
<1>4. CASE /\ ~(/\ Owned(commenting[p].user, c) /\ ~comment[c].hidden
                /\ now <= comment[c].created + SqlWindow)
           /\ commenting' = [commenting EXCEPT ![p] = [@ EXCEPT !.pc = "recheck"]]
  <2> DEFINE call == [commenting[p] EXCEPT !.pc = "recheck"]
  <2>1. /\ commenting' = [commenting EXCEPT ![p] = call]
        /\ call \in Call /\ call.pc = "recheck" /\ call.user = commenting[p].user
        /\ call.op = commenting[p].op /\ call.id = c /\ call.now = now
    BY <1>1, <1>4 DEF CommentTypeOK, Call
  <2> HIDE DEF call, c, now
  <2>2. ~(now <= comment[c].created + SqlWindow) => ~InWindow(now, c)
    BY <1>2, SqlWindowCovers, CommentAssumption DEF InWindow
  <2>3. \/ comment[c].hidden \/ ~(comment[c].author = call.user /\ ~comment[c].deleted)
        \/ ~(comment[c].created <= now /\ now <= comment[c].created + EditWindow)
    BY <1>2, <1>4, <2>1, <2>2 DEF Owned, InWindow
  <2>4. /\ c # None /\ comment[c] # None /\ now # None
        /\ call.op = "edit" /\ call.user # None
    BY <1>2, <2>1 DEF c, now
  <2>5. commenting'[p] = call => CallOK(p)'
    BY <1>1, <2>1, <2>3, <2>4 DEF CallOK, Owned, InWindow
  <2>6. QED BY <1>1, <2>1, <2>5, RowsStand
<1>5. QED BY <1>3, <1>4 DEF UpdateBody

LEMMA HideInv ==
    ASSUME CommentIInv, NEW c \in CommentIds, Hide(c)
    PROVE  CommentIInv'
<1> DEFINE row == [comment[c] EXCEPT !.hidden = TRUE]
<1>1. CommentTypeOK /\ CallInv /\ comment[c] # None /\ comment[c] \in CommentRows
      /\ comment' = [comment EXCEPT ![c] = row] /\ UNCHANGED commenting
  BY DEF CommentIInv, Hide, CommentTypeOK
<1>2. /\ row \in CommentRows /\ row.target = comment[c].target /\ row.parent = comment[c].parent
      /\ row.depth = comment[c].depth /\ row.author = comment[c].author
      /\ row.created = comment[c].created /\ row.deleted = comment[c].deleted /\ row.hidden
  BY <1>1 DEF CommentRows
<1> HIDE DEF row
<1>3. /\ \A d \in CommentIds : Kept(d)
      /\ comment' \in [CommentIds -> CommentRows \cup {None}]
      /\ \A d \in CommentIds : comment'[d] # None /\ comment'[d].parent # None =>
            Hangs(comment', comment'[d].parent, comment'[d].target)
      /\ comment'[c] = row /\ \A d \in CommentIds \ {c} : comment'[d] = comment[d]
  BY <1>1, <1>2, RowChanges
<1>4. CommentTypeOK'
  BY <1>1, <1>3 DEF CommentTypeOK, CommentRows, Call
<1>5. CallInv'
  <2>1. ASSUME NEW q \in Procs PROVE CallOK(q)'
    BY <1>1, <1>2, <1>3, CallStands DEF CallInv
  <2>2. QED BY <2>1 DEF CallInv
<1>6. RepliesHang'
  BY <1>3, <1>5 DEF RepliesHang, CallInv, CallOK, Root, Hangs
<1>7. QED BY <1>4, <1>5, <1>6 DEF CommentIInv

LEMMA UnhideInv ==
    ASSUME CommentIInv, NEW c \in CommentIds, Unhide(c)
    PROVE  CommentIInv'
<1> DEFINE row == [comment[c] EXCEPT !.hidden = FALSE]
<1>1. /\ CommentTypeOK /\ CallInv /\ comment[c] # None /\ comment[c] \in CommentRows
      /\ comment' = [comment EXCEPT ![c] = row]
      /\ commenting' = [p \in Procs |->
           IF commenting[p].pc = "recheck" /\ commenting[p].id = c
           THEN [commenting[p] EXCEPT !.lifted = TRUE] ELSE commenting[p]]
  BY DEF CommentIInv, Unhide, CommentTypeOK
<1>2. /\ row \in CommentRows /\ row.target = comment[c].target /\ row.parent = comment[c].parent
      /\ row.depth = comment[c].depth /\ row.author = comment[c].author
      /\ row.created = comment[c].created /\ row.deleted = comment[c].deleted
  BY <1>1 DEF CommentRows
<1> HIDE DEF row
<1>3. /\ \A d \in CommentIds : Kept(d)
      /\ comment' \in [CommentIds -> CommentRows \cup {None}]
      /\ \A d \in CommentIds : comment'[d] # None /\ comment'[d].parent # None =>
            Hangs(comment', comment'[d].parent, comment'[d].target)
      /\ comment'[c] = row /\ \A d \in CommentIds \ {c} : comment'[d] = comment[d]
  BY <1>1, <1>2, RowChanges
<1>4. ASSUME NEW p \in Procs
      PROVE  commenting'[p] \in Call /\ CallOK(p)'
  <2>1. commenting[p] \in Call /\ CallOK(p)
    BY <1>1 DEF CommentTypeOK, CallInv
  <2>2. CASE commenting[p].pc = "recheck" /\ commenting[p].id = c
    <3> DEFINE call == [commenting[p] EXCEPT !.lifted = TRUE]
    <3>1. commenting'[p] = call
      BY <1>1, <2>2
    <3>2. /\ call \in Call /\ call.lifted /\ call.pc = "recheck" /\ call.id = c
          /\ call.user = commenting[p].user /\ call.op = commenting[p].op /\ call.now = commenting[p].now
      BY <2>1, <2>2 DEF Call
    <3> HIDE DEF call
    <3>3. comment'[c] # None
      BY <1>1, <1>3 DEF Kept
    <3>4. CallOK(p)'
      BY <2>1, <2>2, <3>1, <3>2, <3>3 DEF CallOK
    <3>5. QED BY <3>1, <3>2, <3>4
  <2>3. CASE ~(commenting[p].pc = "recheck" /\ commenting[p].id = c)
    <3>1. commenting'[p] = commenting[p]
      BY <1>1, <2>3
    <3>2. \A d \in CommentIds : comment[d] # None /\ comment[d].hidden /\ commenting[p].id = d
            /\ commenting[p].pc = "recheck" => comment'[d].hidden
      BY <1>3, <2>3
    <3>3. QED BY <1>1, <1>3, <2>1, <3>1, <3>2, CallStands
  <2>4. QED BY <2>2, <2>3
<1>5. commenting' = [p \in Procs |-> commenting'[p]]
  BY <1>1
<1>6. CommentTypeOK'
  <2>1. commenting' \in [Procs -> Call]
    BY <1>4, <1>5
  <2>2. QED BY <1>3, <2>1 DEF CommentTypeOK, CommentRows, Call
<1>7. CallInv'
  BY <1>4 DEF CallInv
<1>8. RepliesHang'
  BY <1>3, <1>7 DEF RepliesHang, CallInv, CallOK, Root, Hangs
<1>9. QED BY <1>6, <1>7, <1>8 DEF CommentIInv

LEMMA CommentInductive ==
    ASSUME CommentIInv, [CommentNext]_commentVars
    PROVE  CommentIInv'
<1>1. ASSUME NEW p \in Procs, NEW u \in Users, NEW t \in Targets, NEW parent \in CommentIds \cup {None},
             Create(p, u, t, parent)
      PROVE  CommentIInv'
  BY <1>1, CreateInv
<1>2. ASSUME NEW p \in Procs, NEW u \in Users, NEW c \in CommentIds, NEW now \in Clock,
             Edit(p, u, c, now)
      PROVE  CommentIInv'
  BY <1>2, EditInv
<1>3. ASSUME NEW p \in Procs, NEW u \in Users, NEW c \in CommentIds, SoftDelete(p, u, c)
      PROVE  CommentIInv'
  BY <1>3, SoftDeleteInv
<1>4. ASSUME NEW p \in Procs, NEW c \in CommentIds, NEW now \in Clock, Insert(p, c, now)
      PROVE  CommentIInv'
  BY <1>4, InsertInv
<1>5. ASSUME NEW p \in Procs, UpdateBody(p)
      PROVE  CommentIInv'
  BY <1>5, UpdateBodyInv
<1>6. ASSUME NEW p \in Procs, Recheck(p) \/ DropCall(p)
      PROVE  CommentIInv'
  BY <1>6, FinishInv DEF Recheck, DropCall
<1>7. ASSUME NEW c \in CommentIds, Hide(c) \/ Unhide(c) PROVE CommentIInv'
  BY <1>7, HideInv, UnhideInv
<1>8. CASE UNCHANGED commentVars
  <2>1. UNCHANGED comment /\ UNCHANGED commenting
    BY <1>8 DEF commentVars
  <2>2. ASSUME NEW p \in Procs PROVE CallOK(p)'
    BY <2>1, CallStands DEF CommentIInv, CallInv, Kept
  <2>3. CommentTypeOK' /\ RepliesHang'
    BY <2>1 DEF CommentIInv, CommentTypeOK, RepliesHang, Root, CommentRows, Call
  <2>4. QED BY <2>2, <2>3 DEF CommentIInv, CallInv
<1>9. QED BY <1>1, <1>2, <1>3, <1>4, <1>5, <1>6, <1>7, <1>8 DEF CommentNext

LEMMA CommentInvariant == CommentSpec => []CommentIInv
  BY CommentInitInv, CommentInductive, PTL DEF CommentSpec

\* Replies hang under roots of their own target, though the parent may be
\* deleted or hidden between its read and the INSERT (comments.rs:190-223).
THEOREM ThreadsHang == CommentSpec => []RepliesHang
<1>1. CommentIInv => RepliesHang
  BY DEF CommentIInv
<1>2. QED BY <1>1, CommentInvariant, PTL

\* The second read never makes up a reason that was not there, for any edit
\* window and any rounding of it to seconds (comments.rs:296-341, 355-371).
THEOREM RefusalsTrue == CommentSpec => []DenialExplained
<1>1. CommentIInv => DenialExplained
  <2>1. SUFFICES ASSUME CommentIInv, NEW p \in Procs, commenting[p].pc = "recheck"
        PROVE  /\ Explanation(p) = "closed" =>
                     ~InWindow(commenting[p].now, commenting[p].id) \/ commenting[p].lifted
               /\ Explanation(p) = "missing" =>
                     \/ ~Owned(commenting[p].user, commenting[p].id)
                     \/ commenting[p].op = "delete" /\ commenting[p].lifted
    BY DEF DenialExplained
  <2>2. CallOK(p) /\ commenting[p].op \in {"create", "edit", "delete"}
    BY <2>1 DEF CommentIInv, CallInv, CommentTypeOK, Call
  <2>3. QED BY <2>1, <2>2 DEF CallOK, Explanation
<1>2. QED BY <1>1, CommentInvariant, PTL

-----------------------------------------------------------------------------
(* OAuth                                                                   *)

LEMMA OAuthInitInv == OAuthInit => OAuthIInv
<1>1. OAuthInit => OAuthTypeOK /\ AddressInv /\ LoginInv
  BY DEF OAuthInit, OAuthTypeOK, AddressInv, LoginInv, LoginOK, NoLogin, Login
<1>2. OAuthInit => LoginsBound
  BY HandlerAssumption DEF OAuthInit, LoginsBound, Bound, NoLogin, Undone
<1>3. QED BY <1>1, <1>2 DEF OAuthIInv

Pcs == {"idle", "exchange", "find", "email", "insert", "reread", "verify", "upsert", "done"}

LEMMA LoginTypes ==
    ASSUME OAuthTypeOK, NEW p \in Procs
    PROVE  /\ login[p] \in Login /\ login[p].pc \in Pcs
           /\ login[p].identity \in Identities \cup {None} /\ login[p].email \in Emails \cup {None}
           /\ login[p].user \in Users \cup {None} /\ login[p].known \in Users \cup {None}
  BY DEF OAuthTypeOK, Login, Pcs

\* Links, addresses and undoings, once there, stay what they are.
Grows ==
    /\ \A i \in Identities :
          /\ link[i] # None => link'[i] = link[i]
          /\ linkEmail'[i] # linkEmail[i] => link[i] = None /\ link'[i] # None
    /\ \A u \in Users : account[u] # None => account'[u] = account[u]
    /\ Undone \subseteq Undone'

\* Whoever a new link is made for owns the address it is made with.
LinksOwned == \A i \in Identities :
    link[i] # None => link[i] \in Users \ Undone /\ account[link[i]] = linkEmail[i]

\* A login that waits is not disturbed by what the others add.
LEMMA LoginStands ==
    ASSUME OAuthTypeOK, NEW p \in Procs, LoginOK(p), Bound(p), login'[p] = login[p], Grows,
           AddressInv', LinksOwned'
    PROVE  LoginOK(p)' /\ Bound(p)'
<1> DEFINE l == login[p]
<1>1. /\ l.pc \in Pcs /\ l.identity \in Identities \cup {None} /\ l.email \in Emails \cup {None}
      /\ l.user \in Users \cup {None} /\ l.known \in Users \cup {None}
  BY LoginTypes
<1>2. l.known # None => l.identity # None /\ link[l.identity] = l.known /\ link'[l.identity] = l.known
  BY <1>1 DEF LoginOK, Bound, Grows
<1>3. l.pc \in {"verify", "upsert", "done"} =>
        /\ l.user \in Users /\ l.user # None /\ l.identity \in Identities /\ l.identity # None
        /\ l.email # None
        /\ \/ account[l.user] = l.email
           \/ l.user = link[l.identity]
           \/ l.user \in Undone
  BY <1>1 DEF LoginOK
<1>4. l.pc \in {"verify", "upsert", "done"} =>
        \/ account'[l.user] = l.email
        \/ l.user = link'[l.identity]
        \/ l.user \in Undone'
  <2>1. l.user \in Undone => l.user \in Undone'
    BY DEF Grows
  <2>2. l.user \in Users /\ account[l.user] = l.email /\ l.email # None => account'[l.user] = l.email
    BY DEF Grows
  <2>3. l.identity \in Identities /\ l.user # None /\ l.user = link[l.identity] =>
           l.user = link'[l.identity]
    BY DEF Grows
  <2>4. QED BY <1>3, <2>1, <2>2, <2>3
<1>5. LoginOK(p)'
  BY <1>4 DEF LoginOK
<1>6. ASSUME l.pc = "done"
      PROVE  \/ l.user = link'[l.identity]
             \/ (l.known = None /\ l.email # linkEmail'[l.identity])
             \/ l.user \in Undone'
  <2>1. CASE l.user \in Undone
    BY <2>1 DEF Grows
  <2>2. CASE l.user = link[l.identity]
    BY <1>3, <1>6, <2>2 DEF Grows
  <2>3. CASE l.user \notin Undone /\ l.user # link[l.identity]
    <3>1. l.known = None /\ l.email # linkEmail[l.identity] /\ account[l.user] = l.email
      BY <1>3, <1>6, <2>3 DEF Bound
    <3>2. account'[l.user] = l.email
      BY <1>3, <1>6, <3>1 DEF Grows
    <3>3. CASE linkEmail'[l.identity] = linkEmail[l.identity]
      BY <3>1, <3>3
    <3>4. CASE linkEmail'[l.identity] # linkEmail[l.identity]
      <4>1. link'[l.identity] \in Users \ Undone' /\ account'[link'[l.identity]] = linkEmail'[l.identity]
        BY <1>3, <1>6, <3>4 DEF Grows, LinksOwned
      <4>2. CASE l.email = linkEmail'[l.identity] /\ l.user \notin Undone'
        <5>1. l.user \in Users \ Undone' /\ account'[l.user] # None
              /\ account'[l.user] = account'[link'[l.identity]]
          BY <1>3, <1>6, <3>2, <4>1, <4>2
        <5>2. l.user = link'[l.identity]
          BY <4>1, <5>1 DEF AddressInv
        <5>3. QED BY <5>2
      <4>3. CASE l.email # linkEmail'[l.identity]
        BY <3>1, <4>3
      <4>4. QED BY <4>2, <4>3
    <3>5. QED BY <3>3, <3>4
  <2>4. QED BY <2>1, <2>2, <2>3
<1>7. Bound(p)'
  BY <1>2, <1>6 DEF Bound
<1>8. QED BY <1>5, <1>7

\* The links of a state with the invariant are owned.
LEMMA LinksAreOwned ==
    ASSUME OAuthTypeOK, AddressInv, \A i \in Identities : link[i] \notin Undone
    PROVE  LinksOwned
  BY DEF OAuthTypeOK, AddressInv, LinksOwned

\* A step of one login that adds no link and no account.
LEMMA LoginStep ==
    ASSUME OAuthIInv, NEW p \in Procs, NEW l \in Login,
           login' = [login EXCEPT ![p] = l],
           UNCHANGED <<account, signup, link, linkEmail>>,
           loginState' \in [States -> {"unused", "issued", "consumed"}], verified' \subseteq Users,
           login'[p] = l => LoginOK(p)' /\ Bound(p)'
    PROVE  OAuthIInv'
<1>1. OAuthTypeOK /\ AddressInv /\ LoginInv /\ LoginsBound
  BY DEF OAuthIInv
<1>2. login'[p] = l /\ \A q \in Procs \ {p} : login'[q] = login[q]
  BY <1>1 DEF OAuthTypeOK
<1>3. Undone' = Undone
  BY DEF Undone
<1>4. OAuthTypeOK'
  BY <1>1 DEF OAuthTypeOK, Login
<1>5. AddressInv' /\ LinksOwned' /\ Grows
  BY <1>1, <1>3, LinksAreOwned DEF AddressInv, LinksOwned, LoginsBound, Grows
<1>6. ASSUME NEW q \in Procs PROVE LoginOK(q)' /\ Bound(q)'
  BY <1>1, <1>2, <1>5, LoginStands DEF LoginInv, LoginsBound
<1>7. LoginInv' /\ LoginsBound'
  BY <1>1, <1>3, <1>6 DEF LoginInv, LoginsBound
<1>8. QED BY <1>4, <1>5, <1>7 DEF OAuthIInv

LEMMA NoLoginFields ==
    /\ NoLogin \in Login /\ NoLogin.pc = "idle" /\ NoLogin.known = None
  BY DEF NoLogin, Login

LEMMA LoginFailsInv ==
    ASSUME OAuthIInv, NEW p \in Procs, login' = [login EXCEPT ![p] = NoLogin],
           UNCHANGED <<loginState, account, signup, verified, link, linkEmail>>
    PROVE  OAuthIInv'
<1>1. login'[p] = NoLogin => LoginOK(p)' /\ Bound(p)'
  BY NoLoginFields DEF LoginOK, Bound
<1>2. QED BY <1>1, NoLoginFields, LoginStep DEF OAuthIInv, OAuthTypeOK

\* A step of no login's leaves what the logins say alone.
LEMMA LoginsKept ==
    ASSUME OAuthIInv, UNCHANGED <<account, signup, link, linkEmail, login>>
    PROVE  AddressInv' /\ LoginInv' /\ LoginsBound'
<1>1. Undone' = Undone
  BY DEF Undone
<1>2. AddressInv'
  BY <1>1 DEF OAuthIInv, AddressInv
<1>3. LoginInv'
  BY <1>1 DEF OAuthIInv, LoginInv, LoginOK
<1>4. LoginsBound'
  BY <1>1 DEF OAuthIInv, LoginsBound, Bound
<1>5. QED BY <1>2, <1>3, <1>4

LEMMA StartLoginInv ==
    ASSUME OAuthIInv, NEW s \in States, StartLogin(s)
    PROVE  OAuthIInv'
<1>1. OAuthTypeOK'
  BY DEF StartLogin, OAuthIInv, OAuthTypeOK, Login
<1>2. UNCHANGED <<account, signup, link, linkEmail, login>>
  BY DEF StartLogin
<1>3. QED BY <1>1, <1>2, LoginsKept DEF OAuthIInv

LEMMA ConsumeInv ==
    ASSUME OAuthIInv, NEW p \in Procs, NEW s \in States, Consume(p, s)
    PROVE  OAuthIInv'
<1> DEFINE l == [NoLogin EXCEPT !.pc = "exchange", !.state = s]
<1>1. /\ login' = [login EXCEPT ![p] = l] /\ UNCHANGED <<account, signup, verified, link, linkEmail>>
      /\ loginState' \in [States -> {"unused", "issued", "consumed"}] /\ verified \subseteq Users
  BY DEF Consume, OAuthIInv, OAuthTypeOK
<1>2. l \in Login /\ l.pc = "exchange" /\ l.known = None
  BY NoLoginFields DEF Login
<1> HIDE DEF l
<1>3. login'[p] = l => LoginOK(p)' /\ Bound(p)'
  BY <1>2 DEF LoginOK, Bound
<1>4. QED BY <1>1, <1>2, <1>3, LoginStep

LEMMA ExchangeInv ==
    ASSUME OAuthIInv, NEW p \in Procs, NEW i \in Identities, NEW email \in Emails, Exchange(p, i, email)
    PROVE  OAuthIInv'
<1> DEFINE l == [login[p] EXCEPT !.pc = "find", !.identity = i, !.email = email, !.known = link[i]]
<1>1. /\ login' = [login EXCEPT ![p] = l] /\ UNCHANGED <<loginState, account, signup, verified, link, linkEmail>>
      /\ login[p] \in Login /\ link[i] \in Users \cup {None}
  BY DEF Exchange, OAuthIInv, OAuthTypeOK
<1>2. /\ l \in Login /\ l.pc = "find" /\ l.identity = i /\ l.email = email /\ l.known = link[i]
      /\ i # None /\ email # None
  BY <1>1, OAuthAssumption DEF Login
<1> HIDE DEF l
<1>3. login'[p] = l => LoginOK(p)' /\ Bound(p)'
  BY <1>1, <1>2 DEF LoginOK, Bound
<1>4. QED BY <1>1, <1>2, <1>3, LoginStep DEF OAuthIInv, OAuthTypeOK

LEMMA FindLinkInv ==
    ASSUME OAuthIInv, NEW p \in Procs, FindLink(p)
    PROVE  OAuthIInv'
<1> DEFINE i == login[p].identity
<1>1. /\ OAuthTypeOK /\ LoginOK(p) /\ Bound(p) /\ login[p].pc = "find"
      /\ UNCHANGED <<loginState, account, signup, verified, link, linkEmail>>
  BY DEF FindLink, OAuthIInv, LoginInv, LoginsBound
<1>2. /\ login[p] \in Login /\ i \in Identities /\ i # None /\ login[p].email # None
      /\ link[i] \in Users \cup {None}
  BY <1>1, LoginTypes DEF LoginOK, OAuthTypeOK
<1>3. CASE link[i] # None /\ login' = [login EXCEPT ![p] = [@ EXCEPT !.pc = "upsert", !.user = link[i]]]
  <2> DEFINE l == [login[p] EXCEPT !.pc = "upsert", !.user = link[i]]
  <2>1. login' = [login EXCEPT ![p] = l]
    BY <1>3
  <2>2. /\ l \in Login /\ l.pc = "upsert" /\ l.user = link[i] /\ l.identity = i
        /\ l.email = login[p].email /\ l.known = login[p].known
    BY <1>2 DEF Login
  <2> HIDE DEF l
  <2>3. login[p].known # None => login[p].known = link[i]
    BY <1>1 DEF Bound
  <2> HIDE DEF i
  <2>4. login'[p] = l => LoginOK(p)' /\ Bound(p)'
    BY <1>1, <1>2, <1>3, <2>2, <2>3 DEF LoginOK, Bound
  <2>5. QED BY <1>1, <2>1, <2>2, <2>4, LoginStep DEF OAuthTypeOK
<1>4. CASE link[i] = None /\ login' = [login EXCEPT ![p] = [@ EXCEPT !.pc = "email"]]
  <2> DEFINE l == [login[p] EXCEPT !.pc = "email"]
  <2>1. login' = [login EXCEPT ![p] = l]
    BY <1>4
  <2>2. /\ l \in Login /\ l.pc = "email" /\ l.identity = i
        /\ l.email = login[p].email /\ l.known = login[p].known
    BY <1>2 DEF Login
  <2> HIDE DEF l
  <2>3. login[p].known = None
    BY <1>1, <1>4 DEF Bound
  <2> HIDE DEF i
  <2>4. login'[p] = l => LoginOK(p)' /\ Bound(p)'
    BY <1>2, <2>2, <2>3 DEF LoginOK, Bound
  <2>5. QED BY <1>1, <2>1, <2>2, <2>4, LoginStep DEF OAuthTypeOK
<1>5. QED BY <1>3, <1>4 DEF FindLink

LEMMA FindEmailInv ==
    ASSUME OAuthIInv, NEW p \in Procs, FindEmail(p)
    PROVE  OAuthIInv'
<1>1. /\ OAuthTypeOK /\ LoginOK(p) /\ Bound(p) /\ login[p].pc \in {"email", "reread"}
      /\ UNCHANGED <<loginState, account, signup, verified, link, linkEmail>>
  BY DEF FindEmail, OAuthIInv, LoginInv, LoginsBound
<1>2. /\ login[p] \in Login /\ login[p].identity # None /\ login[p].email # None
      /\ login[p].known = None
  BY <1>1, LoginTypes DEF LoginOK
<1>3. ASSUME NEW u \in Owners(login[p].email),
             login' = [login EXCEPT ![p] = [@ EXCEPT !.pc = "verify", !.user = u]]
      PROVE  OAuthIInv'
  <2> DEFINE l == [login[p] EXCEPT !.pc = "verify", !.user = u]
  <2>1. login' = [login EXCEPT ![p] = l]
    BY <1>3
  <2>2. u \in Users /\ u # None /\ account[u] = login[p].email
    BY HandlerAssumption DEF Owners
  <2>3. /\ l \in Login /\ l.pc = "verify" /\ l.user = u /\ l.identity = login[p].identity
        /\ l.email = login[p].email /\ l.known = login[p].known
    BY <1>2, <2>2 DEF Login
  <2> HIDE DEF l
  <2>4. login'[p] = l => LoginOK(p)' /\ Bound(p)'
    BY <1>1, <1>2, <2>2, <2>3 DEF LoginOK, Bound
  <2>5. QED BY <1>1, <2>1, <2>3, <2>4, LoginStep DEF OAuthTypeOK
<1>4. CASE login' = [login EXCEPT ![p] = [@ EXCEPT !.pc = "insert"]]
  <2> DEFINE l == [login[p] EXCEPT !.pc = "insert"]
  <2>1. login' = [login EXCEPT ![p] = l]
    BY <1>4
  <2>2. /\ l \in Login /\ l.pc = "insert" /\ l.identity = login[p].identity
        /\ l.email = login[p].email /\ l.known = login[p].known
    BY <1>2 DEF Login
  <2> HIDE DEF l
  <2>3. login'[p] = l => LoginOK(p)' /\ Bound(p)'
    BY <1>2, <2>2 DEF LoginOK, Bound
  <2>4. QED BY <1>1, <2>1, <2>2, <2>3, LoginStep DEF OAuthTypeOK
<1>5. QED BY <1>3, <1>4 DEF FindEmail

\* A new account of an address that nobody has.
LEMMA NewAccount ==
    ASSUME OAuthIInv, NEW u \in Users, NEW email \in Emails, account[u] = None, Owners(email) = {},
           account' = [account EXCEPT ![u] = email], UNCHANGED <<link, linkEmail>>,
           signup' \in [Users -> {"none", "open", "undone"}],
           signup'[u] # "undone", \A v \in Users \ {u} : signup'[v] = signup[v]
    PROVE  /\ AddressInv' /\ Grows /\ LinksOwned' /\ account' \in [Users -> Emails \cup {None}]
           /\ account'[u] = email /\ Undone' = Undone
<1>1. OAuthTypeOK /\ AddressInv /\ LoginsBound
  BY DEF OAuthIInv
<1>2. account'[u] = email /\ \A v \in Users \ {u} : account'[v] = account[v]
  BY <1>1 DEF OAuthTypeOK
<1>3. signup[u] = "none"
  BY <1>1 DEF AddressInv
<1>4. Undone' = Undone
  BY <1>3 DEF Undone
<1>5. \A v \in Users \ Undone : account[v] # email
  BY DEF Owners
<1>6. Grows
  BY <1>2, <1>4 DEF Grows
<1>7. \A v, w \in Users \ Undone : account'[v] # None /\ account'[v] = account'[w] => v = w
  BY <1>1, <1>2, <1>5 DEF AddressInv
<1>8. \A i \in Identities : link[i] # None => account'[link[i]] = account[link[i]]
  BY <1>1, <1>2 DEF AddressInv, OAuthTypeOK
<1>9. \A v \in Users : account'[v] = None => signup'[v] = "none"
  BY <1>1, <1>2, OAuthAssumption DEF AddressInv
<1>10. AddressInv'
  BY <1>1, <1>4, <1>7, <1>8, <1>9 DEF AddressInv
<1>11. \A i \in Identities : link[i] # None => link[i] \in Users \ Undone /\ account[link[i]] = linkEmail[i]
  BY <1>1, LinksAreOwned DEF LoginsBound, LinksOwned
<1>12. LinksOwned'
  BY <1>4, <1>8, <1>11 DEF LinksOwned
<1>13. QED BY <1>1, <1>2, <1>4, <1>6, <1>10, <1>12 DEF OAuthTypeOK

\* Who has had an address keeps it, and a link, whoever makes it, is made as
\* it should: then the other logins stand.
LEMMA OthersStand ==
    ASSUME OAuthTypeOK, LoginInv, LoginsBound, Grows, AddressInv', LinksOwned', Undone' = Undone,
           NEW q \in Procs, login'[q] = login[q]
    PROVE  LoginOK(q)' /\ Bound(q)'
  BY LoginStands DEF LoginInv, LoginsBound

LEMMA InsertUserInv ==
    ASSUME OAuthIInv, NEW p \in Procs, NEW u \in Users, InsertUser(p, u)
    PROVE  OAuthIInv'
<1>1. /\ OAuthTypeOK /\ LoginInv /\ LoginsBound /\ AddressInv /\ LoginOK(p) /\ login[p].pc = "insert"
      /\ UNCHANGED <<loginState, signup, verified, link, linkEmail>>
  BY DEF InsertUser, OAuthIInv, LoginInv
<1>2. /\ login[p] \in Login /\ login[p].identity # None /\ login[p].email \in Emails
      /\ login[p].known = None /\ login[p].email # None
  BY <1>1, LoginTypes DEF LoginOK
<1>3. CASE /\ Owners(login[p].email) = {} /\ account[u] = None
           /\ account' = [account EXCEPT ![u] = login[p].email]
           /\ login' = [login EXCEPT ![p] = [@ EXCEPT !.pc = "verify", !.user = u]]
  <2> DEFINE l == [login[p] EXCEPT !.pc = "verify", !.user = u]
  <2>1. login' = [login EXCEPT ![p] = l]
    BY <1>3
  <2>2. /\ l \in Login /\ l.pc = "verify" /\ l.user = u /\ l.identity = login[p].identity
        /\ l.email = login[p].email /\ l.known = login[p].known /\ u # None
    BY <1>2, HandlerAssumption DEF Login
  <2> HIDE DEF l
  <2>0. signup \in [Users -> {"none", "open", "undone"}] /\ signup[u] = "none"
    BY <1>1, <1>3 DEF OAuthTypeOK, AddressInv
  <2>3. /\ AddressInv' /\ Grows /\ LinksOwned' /\ account' \in [Users -> Emails \cup {None}]
        /\ account'[u] = login[p].email /\ Undone' = Undone
    BY <1>1, <1>2, <1>3, <2>0, NewAccount
  <2>4. login'[p] = l /\ \A q \in Procs \ {p} : login'[q] = login[q]
    BY <1>1, <2>1 DEF OAuthTypeOK
  <2>5. LoginOK(p)' /\ Bound(p)'
    BY <1>2, <2>2, <2>3, <2>4 DEF LoginOK, Bound
  <2>6. ASSUME NEW q \in Procs PROVE LoginOK(q)' /\ Bound(q)'
    BY <1>1, <2>3, <2>4, <2>5, OthersStand
  <2>7. OAuthTypeOK'
    BY <1>1, <2>1, <2>2, <2>3 DEF OAuthTypeOK, Login
  <2>8. LoginInv' /\ LoginsBound'
    BY <1>1, <2>3, <2>6 DEF LoginInv, LoginsBound
  <2>9. QED BY <2>3, <2>7, <2>8 DEF OAuthIInv
<1>4. CASE login' = [login EXCEPT ![p] = [@ EXCEPT !.pc = "reread"]] /\ UNCHANGED account
  <2> DEFINE l == [login[p] EXCEPT !.pc = "reread"]
  <2>1. login' = [login EXCEPT ![p] = l]
    BY <1>4
  <2>2. /\ l \in Login /\ l.pc = "reread" /\ l.identity = login[p].identity
        /\ l.email = login[p].email /\ l.known = login[p].known
    BY <1>2 DEF Login
  <2> HIDE DEF l
  <2>3. login'[p] = l => LoginOK(p)' /\ Bound(p)'
    BY <1>2, <2>2 DEF LoginOK, Bound
  <2>4. QED BY <1>1, <1>4, <2>1, <2>2, <2>3, LoginStep DEF OAuthTypeOK
<1>5. QED BY <1>3, <1>4 DEF InsertUser

LEMMA SignUpInv ==
    ASSUME OAuthIInv, NEW u \in Users, NEW email \in Emails, SignUp(u, email)
    PROVE  OAuthIInv'
<1>1. /\ OAuthTypeOK /\ LoginInv /\ LoginsBound
      /\ UNCHANGED <<loginState, verified, link, linkEmail, login>>
      /\ account[u] = None /\ Owners(email) = {} /\ account' = [account EXCEPT ![u] = email]
      /\ signup' = [signup EXCEPT ![u] = "open"]
  BY DEF SignUp, OAuthIInv
<1>2. /\ signup' \in [Users -> {"none", "open", "undone"}] /\ signup'[u] # "undone"
      /\ \A v \in Users \ {u} : signup'[v] = signup[v]
  BY <1>1 DEF OAuthTypeOK
<1>3. /\ AddressInv' /\ Grows /\ LinksOwned' /\ account' \in [Users -> Emails \cup {None}]
      /\ Undone' = Undone
  <2>1. signup'[u] = "open" /\ account[u] = None
    BY <1>1 DEF OAuthTypeOK
  <2>2. QED BY <1>1, <1>2, <2>1, NewAccount
<1>4. ASSUME NEW q \in Procs PROVE LoginOK(q)' /\ Bound(q)'
  BY <1>1, <1>3, OthersStand
<1>5. OAuthTypeOK'
  BY <1>1, <1>2, <1>3 DEF OAuthTypeOK, Login
<1>6. LoginInv' /\ LoginsBound'
  BY <1>1, <1>3, <1>4 DEF LoginInv, LoginsBound
<1>7. QED BY <1>3, <1>5, <1>6 DEF OAuthIInv

LEMMA EndSignUpInv ==
    ASSUME OAuthIInv, NEW u \in Users, EndSignUp(u)
    PROVE  OAuthIInv'
<1>1. /\ OAuthTypeOK /\ AddressInv /\ LoginInv /\ LoginsBound /\ signup[u] = "open"
      /\ UNCHANGED <<loginState, account, verified, link, linkEmail, login>>
      /\ signup' = [signup EXCEPT ![u] = "none"]
  BY DEF EndSignUp, OAuthIInv
<1>2. signup'[u] = "none" /\ \A v \in Users \ {u} : signup'[v] = signup[v]
  BY <1>1 DEF OAuthTypeOK
<1>3. Undone' = Undone
  BY <1>1, <1>2 DEF Undone
<1>4. OAuthTypeOK'
  BY <1>1 DEF OAuthTypeOK, Login
<1>5. AddressInv'
  BY <1>1, <1>2, <1>3 DEF AddressInv
<1>6. LoginInv'
  BY <1>1, <1>3 DEF LoginInv, LoginOK
<1>7. LoginsBound'
  BY <1>1, <1>3 DEF LoginsBound, Bound
<1>8. QED BY <1>4, <1>5, <1>6, <1>7 DEF OAuthIInv

\* Who is undone takes its link along, and with it all that a login knows.
LEMMA UndoSignUpInv ==
    ASSUME OAuthIInv, NEW u \in Users, UndoSignUp(u)
    PROVE  OAuthIInv'
<1>1. /\ OAuthTypeOK /\ AddressInv /\ LoginInv /\ LoginsBound /\ signup[u] = "open"
      /\ UNCHANGED <<loginState, account, linkEmail>>
      /\ signup' = [signup EXCEPT ![u] = "undone"] /\ verified' = verified \ {u}
      /\ link' = [i \in Identities |-> IF link[i] = u THEN None ELSE link[i]]
      /\ login' = [p \in Procs |-> IF login[p].known = u THEN [login[p] EXCEPT !.known = None]
                                                       ELSE login[p]]
  BY DEF UndoSignUp, OAuthIInv
<1>2. signup'[u] = "undone" /\ \A v \in Users \ {u} : signup'[v] = signup[v]
  BY <1>1 DEF OAuthTypeOK
<1>3. Undone' = Undone \cup {u}
  BY <1>2 DEF Undone
<1>4. \A i \in Identities :
        /\ link[i] = u => link'[i] = None
        /\ link[i] # u => link'[i] = link[i]
  BY <1>1
<1>5. ASSUME NEW p \in Procs
      PROVE  /\ login'[p] \in Login /\ login'[p].pc = login[p].pc /\ login'[p].user = login[p].user
             /\ login'[p].identity = login[p].identity /\ login'[p].email = login[p].email
             /\ login[p].known = u => login'[p].known = None
             /\ login[p].known # u => login'[p].known = login[p].known
  BY <1>1 DEF OAuthTypeOK, Login
<1>6. OAuthTypeOK'
  <2>1. login' \in [Procs -> Login]
    BY <1>1, <1>5
  <2>2. link' \in [Identities -> Users \cup {None}]
    BY <1>1 DEF OAuthTypeOK
  <2>3. QED BY <1>1, <2>1, <2>2 DEF OAuthTypeOK
<1>7. AddressInv'
  BY <1>1, <1>2, <1>3, <1>4 DEF AddressInv
<1>8. ASSUME NEW p \in Procs PROVE LoginOK(p)' /\ Bound(p)'
  <2>1. LoginOK(p) /\ Bound(p)
    BY <1>1 DEF LoginInv, LoginsBound
  <2>2. /\ login[p].pc \in Pcs /\ login[p].identity \in Identities \cup {None}
        /\ login[p].known \in Users \cup {None} /\ u # None
    BY <1>1, LoginTypes, HandlerAssumption
  <2>3. LoginOK(p)'
    BY <1>3, <1>4, <1>5, <1>1, <2>1, <2>2 DEF LoginOK
  <2>4. login'[p].known # None => link'[login'[p].identity] = login'[p].known
    BY <1>4, <1>5, <2>1, <2>2 DEF LoginOK, Bound
  <2>5. ASSUME login[p].pc = "done"
        PROVE  \/ login[p].user = link'[login[p].identity]
               \/ (login'[p].known = None /\ login[p].email # linkEmail[login[p].identity])
               \/ login[p].user \in Undone'
    BY <1>3, <1>4, <1>5, <2>1, <2>2, <2>5 DEF LoginOK, Bound
  <2>6. Bound(p)'
    BY <1>1, <1>5, <2>4, <2>5 DEF Bound
  <2>7. QED BY <2>3, <2>6
<1>9. LoginsBound'
  <2>1. \A i \in Identities : link'[i] \notin Undone'
    BY <1>1, <1>3, <1>4, HandlerAssumption DEF LoginsBound, Undone
  <2>2. \A i, j \in Identities : link'[i] # None /\ link'[i] = link'[j] => i = j
    BY <1>1, <1>4 DEF LoginsBound
  <2>3. QED BY <1>8, <2>1, <2>2 DEF LoginsBound
<1>10. LoginInv'
  BY <1>8 DEF LoginInv
<1>11. QED BY <1>6, <1>7, <1>9, <1>10 DEF OAuthIInv

LEMMA VerifyEmailInv ==
    ASSUME OAuthIInv, NEW p \in Procs, VerifyEmail(p)
    PROVE  OAuthIInv'
<1> DEFINE l == [login[p] EXCEPT !.pc = "upsert"]
<1>1. /\ OAuthTypeOK /\ LoginOK(p) /\ login[p].pc = "verify" /\ login[p].user \notin Undone
      /\ login' = [login EXCEPT ![p] = l]
      /\ verified' = verified \cup {login[p].user} /\ UNCHANGED <<loginState, account, signup, link, linkEmail>>
  BY DEF VerifyEmail, OAuthIInv, LoginInv
<1>2. /\ login[p] \in Login /\ login[p].identity # None /\ login[p].email # None
      /\ login[p].known = None /\ login[p].user \in Users /\ login[p].user # None
      /\ account[login[p].user] = login[p].email \/ login[p].user = link[login[p].identity]
  BY <1>1, LoginTypes DEF LoginOK
<1>3. /\ l \in Login /\ l.pc = "upsert" /\ l.user = login[p].user /\ l.identity = login[p].identity
      /\ l.email = login[p].email /\ l.known = login[p].known
  BY <1>2 DEF Login
<1> HIDE DEF l
<1>4. login'[p] = l => LoginOK(p)' /\ Bound(p)'
  BY <1>1, <1>2, <1>3 DEF LoginOK, Bound
<1>5. QED BY <1>1, <1>2, <1>3, <1>4, LoginStep DEF OAuthTypeOK

LEMMA UpsertLinkInv ==
    ASSUME OAuthIInv, NEW p \in Procs, UpsertLink(p)
    PROVE  OAuthIInv'
<1> DEFINE i == login[p].identity
           u == login[p].user
           l == [login[p] EXCEPT !.pc = "done"]
<1>1. /\ OAuthTypeOK /\ AddressInv /\ LoginInv /\ LoginsBound /\ LoginOK(p) /\ Bound(p)
      /\ login[p].pc = "upsert" /\ UNCHANGED <<loginState, account, signup, verified>>
  BY DEF UpsertLink, OAuthIInv, LoginInv, LoginsBound
<1>2. /\ login[p] \in Login /\ i \in Identities /\ i # None /\ u \in Users /\ u # None
      /\ login[p].email \in Emails /\ login[p].email # None
      /\ account[u] = login[p].email \/ u = link[i] \/ u \in Undone
      /\ login[p].known # None => u = login[p].known /\ link[i] = login[p].known
  BY <1>1, LoginTypes DEF LoginOK, Bound
<1>3. /\ l \in Login /\ l.pc = "done" /\ l.user = u /\ l.identity = i
      /\ l.email = login[p].email /\ l.known = login[p].known
  BY <1>2 DEF Login
<1> HIDE DEF l, i, u
<1>4. CASE /\ link[i] # None /\ login' = [login EXCEPT ![p] = l]
           /\ UNCHANGED <<link, linkEmail>>
  <2>1. link[i] \in Users \ Undone /\ account[link[i]] = linkEmail[i] /\ account[link[i]] # None
    BY <1>1, <1>2, <1>4 DEF AddressInv, OAuthTypeOK, LoginsBound
  <2>2. linkEmail[i] = login[p].email /\ u \notin Undone => u = link[i]
    BY <1>1, <1>2, <2>1 DEF AddressInv
  <2>3. Undone' = Undone
    BY <1>1 DEF Undone
  <2>4. login'[p] = l => LoginOK(p)'
    BY <1>1, <1>2, <1>3, <1>4, <2>3 DEF LoginOK
  <2>5. login'[p] = l => Bound(p)'
    BY <1>1, <1>2, <1>3, <1>4, <2>2, <2>3 DEF Bound
  <2>6. QED BY <1>1, <1>3, <1>4, <2>4, <2>5, LoginStep DEF OAuthTypeOK
<1>5. CASE /\ link[i] = None /\ u \notin Undone /\ \A j \in Identities \ {i} : link[j] # u
           /\ link' = [link EXCEPT ![i] = u]
           /\ linkEmail' = [linkEmail EXCEPT ![i] = login[p].email]
           /\ login' = [login EXCEPT ![p] = l]
  <2>1. /\ link'[i] = u /\ linkEmail'[i] = login[p].email
        /\ \A j \in Identities \ {i} : link'[j] = link[j] /\ linkEmail'[j] = linkEmail[j]
        /\ login'[p] = l /\ \A q \in Procs \ {p} : login'[q] = login[q]
    BY <1>1, <1>2, <1>5 DEF OAuthTypeOK
  <2>2. Undone' = Undone
    BY <1>1 DEF Undone
  <2>3. Grows
    BY <1>1, <1>2, <1>5, <2>1, <2>2 DEF Grows
  <2>4. account[u] = login[p].email
    BY <1>2, <1>5
  <2>5. AddressInv'
    BY <1>1, <1>2, <2>1, <2>2, <2>4 DEF AddressInv
  <2>6. LinksOwned'
    <3>1. LinksOwned
      BY <1>1, LinksAreOwned DEF LoginsBound
    <3>2. QED BY <1>1, <1>2, <1>5, <2>1, <2>2, <2>4, <3>1 DEF LinksOwned
  <2>7. LoginOK(p)' /\ Bound(p)'
    BY <1>2, <1>3, <1>5, <2>1, <2>4 DEF LoginOK, Bound
  <2>8. ASSUME NEW q \in Procs PROVE LoginOK(q)' /\ Bound(q)'
    BY <1>1, <2>1, <2>2, <2>3, <2>5, <2>6, <2>7, OthersStand
  <2>9. \A j, k \in Identities : link'[j] # None /\ link'[j] = link'[k] => j = k
    BY <1>1, <1>5, <2>1 DEF LoginsBound
  <2>10. \A j \in Identities : link'[j] \notin Undone'
    BY <1>1, <1>5, <2>1, <2>2 DEF LoginsBound
  <2>11. OAuthTypeOK'
    BY <1>1, <1>2, <1>3, <1>5 DEF OAuthTypeOK, Login
  <2>12. LoginInv' /\ LoginsBound'
    BY <2>8, <2>9, <2>10 DEF LoginInv, LoginsBound
  <2>13. QED BY <2>5, <2>11, <2>12 DEF OAuthIInv
<1>6. CASE login' = [login EXCEPT ![p] = NoLogin] /\ UNCHANGED <<link, linkEmail>>
  BY <1>1, <1>6, LoginFailsInv
<1>7. QED BY <1>1, <1>4, <1>5, <1>6 DEF UpsertLink, l, i, u

LEMMA OAuthInductive ==
    ASSUME OAuthIInv, [OAuthNext]_oauthVars
    PROVE  OAuthIInv'
<1>1. ASSUME NEW s \in States, StartLogin(s) PROVE OAuthIInv'
  BY <1>1, StartLoginInv
<1>2. ASSUME NEW s \in States, NEW p \in Procs, Consume(p, s) PROVE OAuthIInv'
  BY <1>2, ConsumeInv
<1>3. ASSUME NEW p \in Procs, NEW i \in Identities, NEW email \in Emails, Exchange(p, i, email)
      PROVE  OAuthIInv'
  BY <1>3, ExchangeInv
<1>4. ASSUME NEW p \in Procs, FindLink(p) \/ FindEmail(p) \/ VerifyEmail(p) \/ UpsertLink(p)
      PROVE  OAuthIInv'
  BY <1>4, FindLinkInv, FindEmailInv, VerifyEmailInv, UpsertLinkInv
<1>5. ASSUME NEW p \in Procs, LoginFails(p) PROVE OAuthIInv'
  BY <1>5, LoginFailsInv DEF LoginFails
<1>6. ASSUME NEW p \in Procs, NEW u \in Users, InsertUser(p, u) PROVE OAuthIInv'
  BY <1>6, InsertUserInv
<1>7. ASSUME NEW u \in Users,
             EndSignUp(u) \/ UndoSignUp(u) \/ \E email \in Emails : SignUp(u, email)
      PROVE  OAuthIInv'
  BY <1>7, SignUpInv, EndSignUpInv, UndoSignUpInv
<1>8. CASE UNCHANGED oauthVars
  <2>1. UNCHANGED <<loginState, account, signup, verified, link, linkEmail, login>>
    BY <1>8 DEF oauthVars
  <2>2. OAuthTypeOK'
    BY <2>1 DEF OAuthIInv, OAuthTypeOK, Login
  <2>3. QED BY <2>1, <2>2, LoginsKept DEF OAuthIInv
<1>9. QED BY <1>1, <1>2, <1>3, <1>4, <1>5, <1>6, <1>7, <1>8 DEF OAuthNext, BadState

\* A login answers with the owner of the provider account, who never changes
\* unless a registration is undone, for any number of logins, registrations,
\* accounts and addresses at once
\* (oauth/service.rs:153-212, 0009_oauth.sql).
THEOREM LoginsStayBound == OAuthSpec => []LoginsBound
<1>1. OAuthIInv => LoginsBound
  BY DEF OAuthIInv
<1>2. QED BY <1>1, OAuthInitInv, OAuthInductive, PTL DEF OAuthSpec

-----------------------------------------------------------------------------
(* Collections                                                             *)

\* What the invariants say of one lookup, with the record spelt out.
LookupOK(c) ==
    /\ c.pc # "idle" =>
          /\ c.folder \in spent
          /\ Owns(c.user, c.folder) => c.held.owner = c.user
          /\ c.held.owner = c.user =>
                IF c.pc \in {"reread", "saved"} THEN c.item \in c.held.items
                ELSE c.pc # "unknown" => c.held.items = {}
    /\ c.pc = "saved" => c.held.owner = c.user /\ c.item \in c.held.items
    /\ c.pc = "empty" => c.held.owner = c.user /\ c.held.items = {}
    /\ c.pc = "unknown" => ~Owns(c.user, c.folder)

LEMMA LookupsOK ==
    LookupInv /\ OneAnswer <=> \A p \in Procs : LookupOK(lookup[p])
  BY DEF LookupInv, OneAnswer, LookupOK

LEMMA CollectionInitInv == CollectionInit => CollectionIInv
<1> SUFFICES ASSUME CollectionInit PROVE CollectionIInv
  OBVIOUS
<1>1. CollectionTypeOK /\ UnspentInv
  BY DEF CollectionInit, CollectionTypeOK, UnspentInv
<1>2. \A p \in Procs : LookupOK(lookup[p])
  BY DEF CollectionInit, LookupOK, NoLookup
<1>3. QED BY <1>1, <1>2, LookupsOK DEF CollectionIInv

\* A write of a folder leaves every lookup as it is, when no spent id finds a
\* new owner.
LEMMA FoldersStand ==
    ASSUME CollectionIInv, UNCHANGED lookup,
           folder' \in [Folders -> Folder \cup {NoFolder}],
           spent \subseteq spent', spent' \subseteq Folders, UnspentInv',
           \A f \in spent : folder'[f].owner \in {folder[f].owner, None}
    PROVE  CollectionIInv'
<1>1. CollectionTypeOK'
  BY DEF CollectionIInv, CollectionTypeOK
<1>2. ASSUME NEW p \in Procs
      PROVE  LookupOK(lookup[p])'
  <2>1. LookupOK(lookup[p]) /\ lookup'[p] = lookup[p] /\ lookup[p] \in Lookup \cup {NoLookup}
    BY LookupsOK DEF CollectionIInv, CollectionTypeOK
  <2>2. CASE lookup[p] = NoLookup
    BY <2>1, <2>2 DEF LookupOK, NoLookup
  <2>3. CASE lookup[p] \in Lookup
    <3>1. lookup[p].user \in Users /\ lookup[p].user # None /\ lookup[p].pc # "idle"
      BY <2>3, HandlerAssumption DEF Lookup
    <3>2. lookup[p].folder \in spent /\ lookup[p].folder \in spent'
      BY <2>1, <3>1 DEF LookupOK
    <3>3. Owns(lookup[p].user, lookup[p].folder)' => Owns(lookup[p].user, lookup[p].folder)
      BY <2>1, <3>1, <3>2 DEF Owns
    <3>4. QED BY <2>1, <3>2, <3>3 DEF LookupOK
  <2>4. QED BY <2>1, <2>2, <2>3
<1>3. (LookupInv /\ OneAnswer)'
  BY <1>2 DEF LookupInv, OneAnswer, LookupOK
<1>4. QED BY <1>1, <1>3 DEF CollectionIInv

\* A step of one lookup.
LEMMA LookupStep ==
    ASSUME CollectionIInv, NEW p \in Procs, NEW c \in Lookup \cup {NoLookup},
           lookup' = [lookup EXCEPT ![p] = c], UNCHANGED <<folder, spent>>, LookupOK(c)
    PROVE  CollectionIInv'
<1>1. CollectionTypeOK' /\ UnspentInv'
  BY DEF CollectionIInv, CollectionTypeOK, UnspentInv
<1>2. \A q \in Procs : LookupOK(lookup'[q])
  BY LookupsOK DEF CollectionIInv, CollectionTypeOK
<1>3. \A q \in Procs : LookupOK(lookup[q])'
  BY <1>2 DEF LookupOK, Owns
<1>4. (LookupInv /\ OneAnswer)'
  BY <1>3 DEF LookupInv, OneAnswer, LookupOK
<1>5. QED BY <1>1, <1>4 DEF CollectionIInv

LEMMA CreateFolderInv ==
    ASSUME CollectionIInv, NEW u \in Users, NEW f \in Folders, NEW n \in Names, CreateFolder(u, f, n)
    PROVE  CollectionIInv'
<1> DEFINE row == [owner |-> u, name |-> n, items |-> {}]
<1>1. f \notin spent /\ folder' = [folder EXCEPT ![f] = row] /\ spent' = spent \cup {f}
  BY DEF CreateFolder
<1>2. row \in Folder
  BY DEF Folder
<1> HIDE DEF row
<1>3. folder \in [Folders -> Folder \cup {NoFolder}] /\ spent \subseteq Folders /\ UnspentInv
  BY DEF CollectionIInv, CollectionTypeOK
<1>4. folder' \in [Folders -> Folder \cup {NoFolder}] /\ \A g \in Folders \ {f} : folder'[g] = folder[g]
  BY <1>1, <1>2, <1>3
<1>5. UnspentInv'
  BY <1>1, <1>3, <1>4 DEF UnspentInv
<1>6. \A g \in spent : folder'[g].owner \in {folder[g].owner, None}
  BY <1>1, <1>3, <1>4
<1>7. QED BY <1>1, <1>3, <1>4, <1>5, <1>6, FoldersStand DEF CreateFolder

\* A folder that is its owner's is replaced by one that is not another's.
LEMMA FolderChanges ==
    ASSUME CollectionIInv, NEW u \in Users, NEW f \in Folders, Owns(u, f),
           NEW row \in Folder \cup {NoFolder}, row.owner \in {u, None},
           folder' = [folder EXCEPT ![f] = row], UNCHANGED <<spent, lookup>>
    PROVE  CollectionIInv'
<1>1. folder \in [Folders -> Folder \cup {NoFolder}] /\ spent \subseteq Folders /\ UnspentInv
  BY DEF CollectionIInv, CollectionTypeOK
<1>2. /\ folder' \in [Folders -> Folder \cup {NoFolder}]
      /\ folder'[f] = row
      /\ \A g \in Folders \ {f} : folder'[g] = folder[g]
  BY <1>1
<1>3. f \in spent
  BY <1>1, HandlerAssumption DEF UnspentInv, Owns, NoFolder
<1>4. UnspentInv'
  BY <1>1, <1>2, <1>3 DEF UnspentInv
<1>5. \A g \in spent : folder'[g].owner \in {folder[g].owner, None}
  BY <1>1, <1>2 DEF Owns
<1>6. QED BY <1>1, <1>2, <1>4, <1>5, FoldersStand

LEMMA OwnedFolder ==
    ASSUME CollectionIInv, NEW u \in Users, NEW f \in Folders, Owns(u, f)
    PROVE  folder[f] \in Folder /\ folder[f].owner = u
  BY HandlerAssumption DEF CollectionIInv, CollectionTypeOK, Owns, NoFolder

LEMMA RenameFolderInv ==
    ASSUME CollectionIInv, NEW u \in Users, NEW f \in Folders, NEW n \in Names, RenameFolder(u, f, n)
    PROVE  CollectionIInv'
<1> DEFINE row == [folder[f] EXCEPT !.name = n]
<1>1. Owns(u, f) /\ folder' = [folder EXCEPT ![f] = row] /\ UNCHANGED <<spent, lookup>>
  BY DEF RenameFolder
<1>2. row \in Folder /\ row.owner = u
  BY <1>1, OwnedFolder DEF Folder
<1> HIDE DEF row
<1>3. QED BY <1>1, <1>2, FolderChanges

LEMMA DeleteFolderInv ==
    ASSUME CollectionIInv, NEW u \in Users, NEW f \in Folders, DeleteFolder(u, f)
    PROVE  CollectionIInv'
<1>1. Owns(u, f) /\ folder' = [folder EXCEPT ![f] = NoFolder] /\ UNCHANGED <<spent, lookup>>
  BY DEF DeleteFolder
<1>2. NoFolder.owner = None
  BY DEF NoFolder
<1>3. QED BY <1>1, <1>2, FolderChanges

LEMMA RemoveItemInv ==
    ASSUME CollectionIInv, NEW u \in Users, NEW f \in Folders, NEW i \in Items, RemoveItem(u, f, i)
    PROVE  CollectionIInv'
<1> DEFINE row == [folder[f] EXCEPT !.items = @ \ {i}]
<1>1. Owns(u, f) /\ folder' = [folder EXCEPT ![f] = row] /\ UNCHANGED <<spent, lookup>>
  BY DEF RemoveItem
<1>2. row \in Folder /\ row.owner = u
  BY <1>1, OwnedFolder DEF Folder
<1> HIDE DEF row
<1>3. QED BY <1>1, <1>2, FolderChanges

LEMMA AddItemInv ==
    ASSUME CollectionIInv, NEW u \in Users, NEW f \in Folders, NEW i \in Items, AddItem(u, f, i)
    PROVE  CollectionIInv'
<1> DEFINE row == [folder[f] EXCEPT !.items = @ \cup {i}]
<1>1. Owns(u, f) /\ folder' = [folder EXCEPT ![f] = row] /\ UNCHANGED <<spent, lookup>>
  BY DEF AddItem
<1>2. row \in Folder /\ row.owner = u
  BY <1>1, OwnedFolder DEF Folder
<1> HIDE DEF row
<1>3. QED BY <1>1, <1>2, FolderChanges

LEMMA FirstStatementInv ==
    ASSUME CollectionIInv, NEW p \in Procs, NEW u \in Users, NEW f \in Folders, NEW i \in Items,
           AddNothing(p, u, f, i) \/ ListNothing(p, u, f, i)
    PROVE  CollectionIInv'
<1> DEFINE pc == IF AddNothing(p, u, f, i) THEN "reread" ELSE "recount"
           c == [pc |-> pc, user |-> u, folder |-> f, item |-> i, held |-> View(u, f)]
<1>1. /\ f \in spent /\ lookup' = [lookup EXCEPT ![p] = c] /\ UNCHANGED <<folder, spent>>
      /\ Owns(u, f) => IF pc = "reread" THEN i \in folder[f].items ELSE folder[f].items = {}
  BY DEF AddNothing, ListNothing, FirstCameBackEmpty
<1>2. pc \in {"reread", "recount"} /\ View(u, f) \in Folder \cup {NoFolder}
  BY DEF CollectionIInv, CollectionTypeOK, View
<1> HIDE DEF pc
<1>3. c \in Lookup
  BY <1>2 DEF Lookup
<1>4. View(u, f).owner = u => Owns(u, f) /\ View(u, f) = folder[f]
  BY HandlerAssumption DEF View, NoFolder
<1>5. Owns(u, f) => View(u, f).owner = u
  BY DEF View, Owns
<1>6. LookupOK(c)
  BY <1>1, <1>2, <1>4, <1>5 DEF LookupOK
<1> HIDE DEF c
<1>7. QED BY <1>1, <1>3, <1>6, LookupStep

LEMMA RereadInv ==
    ASSUME CollectionIInv, NEW p \in Procs, Reread(p)
    PROVE  CollectionIInv'
<1> DEFINE old == lookup[p]
           pc == IF ~Owns(old.user, old.folder) THEN "unknown"
                 ELSE IF old.pc = "reread" THEN "saved" ELSE "empty"
           c == [old EXCEPT !.pc = pc]
<1>1. /\ old.pc \in {"reread", "recount"}
      /\ lookup' = [lookup EXCEPT ![p] = c] /\ UNCHANGED <<folder, spent>>
  BY DEF Reread
<1>2. old \in Lookup /\ LookupOK(old)
  BY <1>1, LookupsOK DEF CollectionIInv, CollectionTypeOK, NoLookup
<1>3. /\ c \in Lookup /\ c.pc = pc
      /\ c.user = old.user /\ c.folder = old.folder /\ c.item = old.item /\ c.held = old.held
  BY <1>2 DEF Lookup
<1> HIDE DEF c
<1>4. LookupOK(c)
  BY <1>1, <1>2, <1>3 DEF LookupOK
<1>5. QED BY <1>1, <1>3, <1>4, LookupStep

LEMMA LeaveLookupInv ==
    ASSUME CollectionIInv, NEW p \in Procs, LeaveLookup(p)
    PROVE  CollectionIInv'
<1>1. lookup' = [lookup EXCEPT ![p] = NoLookup] /\ UNCHANGED <<folder, spent>>
  BY DEF LeaveLookup
<1>2. LookupOK(NoLookup)
  BY DEF LookupOK, NoLookup
<1>3. QED BY <1>1, <1>2, LookupStep

LEMMA CollectionInductive == CollectionIInv /\ [CollectionNext]_collectionVars => CollectionIInv'
<1> SUFFICES ASSUME CollectionIInv, [CollectionNext]_collectionVars PROVE CollectionIInv'
  OBVIOUS
<1>1. CASE UNCHANGED collectionVars
  <2>1. UNCHANGED lookup /\ UNCHANGED folder /\ UNCHANGED spent
    BY <1>1 DEF collectionVars
  <2>2. QED BY <2>1 DEF CollectionIInv, CollectionTypeOK, UnspentInv, LookupInv, OneAnswer, Owns
<1>2. ASSUME NEW u \in Users, NEW f \in Folders, NEW n \in Names, CreateFolder(u, f, n)
      PROVE  CollectionIInv'
  BY <1>2, CreateFolderInv
<1>3. ASSUME NEW u \in Users, NEW f \in Folders, NEW n \in Names, RenameFolder(u, f, n)
      PROVE  CollectionIInv'
  BY <1>3, RenameFolderInv
<1>4. ASSUME NEW u \in Users, NEW f \in Folders, DeleteFolder(u, f)
      PROVE  CollectionIInv'
  BY <1>4, DeleteFolderInv
<1>5. ASSUME NEW u \in Users, NEW f \in Folders, NEW i \in Items, RemoveItem(u, f, i) \/ AddItem(u, f, i)
      PROVE  CollectionIInv'
  BY <1>5, RemoveItemInv, AddItemInv
<1>6. ASSUME NEW p \in Procs, NEW u \in Users, NEW f \in Folders, NEW i \in Items,
             AddNothing(p, u, f, i) \/ ListNothing(p, u, f, i)
      PROVE  CollectionIInv'
  BY <1>6, FirstStatementInv
<1>7. ASSUME NEW p \in Procs, Reread(p) \/ LeaveLookup(p)
      PROVE  CollectionIInv'
  BY <1>7, RereadInv, LeaveLookupInv
<1>8. QED BY <1>1, <1>2, <1>3, <1>4, <1>5, <1>6, <1>7 DEF CollectionNext

\* Adding to a collection and listing it give one answer, for any number of
\* callers, collections and items, whatever is written between the two
\* statements of each (crates/gateway/src/bookmarks_routes.rs:358-377,
\* crates/storage/src/bookmark_repo.rs:494-509).
THEOREM AnswersAgree == CollectionSpec => []OneAnswer
<1>1. CollectionIInv => OneAnswer
  BY DEF CollectionIInv
<1>2. QED BY CollectionInitInv, CollectionInductive, <1>1, PTL DEF CollectionSpec

-----------------------------------------------------------------------------
(* Bookmarks                                                               *)

LEMMA HeartInitInv == BookmarkInit => HeartIInv
  BY DEF BookmarkInit, HeartIInv, BookmarkTypeOK, VisitTells, OneClick, ClickTells, HeartTells,
         Own, NoHeart, NoVisit, NoRequest

\* A request under way, and what becomes of it when only its pc moves.
SameClick(r, s) == r.origin = s.origin /\ r.target = s.target

LEMMA RequestFields ==
    ASSUME BookmarkTypeOK, NEW q \in Requests, request[q].pc # "free"
    PROVE  request[q] \in Request
  BY DEF BookmarkTypeOK, NoRequest

LEMMA PcMoves ==
    ASSUME NEW r \in Request, NEW pc \in {"insert", "delete", "waiting", "nothing"} \cup Held \cup Outcomes,
           NEW s, s = [r EXCEPT !.pc = pc]
    PROVE  s \in Request /\ SameClick(r, s) /\ s.pc = pc
  BY DEF Request, SameClick

\* A step of the transactions that commits nothing: no request of the heart's
\* own finds or does what is not so.
LEMMA NothingCommits ==
    ASSUME HeartIInv, UNCHANGED <<bookmarked, heart, visit>>,
           request' \in [Requests -> Request \cup {NoRequest}],
           \A q \in Requests : SameClick(request[q], request'[q]),
           \A q \in Requests :
              request'[q].pc \in {"bookmarked", "removed"} => request'[q].pc = request[q].pc,
           \A q \in Requests :
              request'[q].pc = "nothing" => request[q].pc = "nothing" \/ request[q].target \notin bookmarked
    PROVE  HeartIInv'
<1>1. BookmarkTypeOK' /\ VisitTells' /\ HeartTells'
  BY DEF HeartIInv, BookmarkTypeOK, VisitTells, HeartTells
<1>2. \A q \in Requests : Own(q)' <=> Own(q)
  BY DEF Own, SameClick
<1>3. OneClick'
  BY <1>2 DEF HeartIInv, OneClick, Clear, SameClick
<1>4. ClickTells'
  BY <1>2 DEF HeartIInv, OneClick, ClickTells, Clear
<1>5. QED BY <1>1, <1>3, <1>4 DEF HeartIInv

LEMMA InsertRowInv ==
    ASSUME HeartIInv, NEW q \in Requests, InsertRow(q)
    PROVE  HeartIInv'
<1> DEFINE pc == IF request[q].target \in bookmarked THEN "delete" ELSE "inserted"
           row == [request[q] EXCEPT !.pc = pc]
<1>1. /\ request[q].pc = "insert" /\ request' = [request EXCEPT ![q] = row]
      /\ UNCHANGED <<bookmarked, heart, visit>>
  BY DEF InsertRow, To
<1>2. BookmarkTypeOK /\ request[q] \in Request
  BY <1>1, RequestFields DEF HeartIInv
<1>3. pc \in {"delete", "inserted"} /\ row \in Request /\ SameClick(request[q], row) /\ row.pc = pc
  BY <1>2, PcMoves DEF Held
<1> HIDE DEF row, pc
<1>4. /\ request' \in [Requests -> Request \cup {NoRequest}]
      /\ request'[q] = row
      /\ \A r \in Requests \ {q} : request'[r] = request[r]
  BY <1>1, <1>2, <1>3 DEF BookmarkTypeOK
<1>5. \A r \in Requests : SameClick(request[r], request'[r])
  BY <1>3, <1>4 DEF SameClick
<1>6. QED BY <1>1, <1>3, <1>4, <1>5, NothingCommits

LEMMA DeleteRowInv ==
    ASSUME HeartIInv, NEW q \in Requests, DeleteRow(q)
    PROVE  HeartIInv'
<1> DEFINE t == request[q].target
           pc == IF t \notin bookmarked THEN "nothing" ELSE IF Locked(t) THEN "waiting" ELSE "deleted"
           row == [request[q] EXCEPT !.pc = pc]
<1>1. /\ request[q].pc = "delete" /\ request' = [request EXCEPT ![q] = row]
      /\ UNCHANGED <<bookmarked, heart, visit>>
  BY DEF DeleteRow, To
<1>2. BookmarkTypeOK /\ request[q] \in Request
  BY <1>1, RequestFields DEF HeartIInv
<1>3. pc \in {"nothing", "waiting", "deleted"} /\ (pc = "nothing" => t \notin bookmarked)
  OBVIOUS
<1> HIDE DEF pc
<1>4. row \in Request /\ SameClick(request[q], row) /\ row.pc = pc
  BY <1>2, <1>3, PcMoves DEF Held
<1> HIDE DEF row
<1>5. /\ request' \in [Requests -> Request \cup {NoRequest}]
      /\ request'[q] = row
      /\ \A r \in Requests \ {q} : request'[r] = request[r]
  BY <1>1, <1>2, <1>4 DEF BookmarkTypeOK
<1>6. \A r \in Requests : SameClick(request[r], request'[r])
  BY <1>4, <1>5 DEF SameClick
<1>7. QED BY <1>1, <1>3, <1>4, <1>5, <1>6, NothingCommits

LEMMA RollbackInv ==
    ASSUME HeartIInv, NEW q \in Requests, Rollback(q)
    PROVE  HeartIInv'
<1> DEFINE next(r) ==
              IF r = q THEN [request[r] EXCEPT !.pc = "failed"]
              ELSE IF /\ request[q].pc = "deleted"
                      /\ request[r].pc = "waiting" /\ request[r].target = request[q].target
              THEN [request[r] EXCEPT !.pc = "delete"] ELSE request[r]
<1>1. /\ request[q].pc # "free" /\ request' = [r \in Requests |-> next(r)]
      /\ UNCHANGED <<bookmarked, heart, visit>>
  BY DEF Rollback
<1>2. BookmarkTypeOK
  BY DEF HeartIInv
<1>3. ASSUME NEW r \in Requests
      PROVE  /\ next(r) \in Request \cup {NoRequest}
             /\ SameClick(request[r], next(r))
             /\ next(r).pc = request[r].pc \/ next(r).pc \in {"failed", "delete"}
  <2>1. CASE next(r) = request[r]
    BY <1>2, <2>1 DEF BookmarkTypeOK, SameClick
  <2>2. CASE next(r) # request[r]
    <3>1. request[r].pc # "free" /\ \E pc \in {"failed", "delete"} : next(r) = [request[r] EXCEPT !.pc = pc]
      BY <1>1, <2>2
    <3>2. request[r] \in Request
      BY <1>2, <3>1, RequestFields
    <3> HIDE DEF next
    <3>3. QED BY <3>1, <3>2, PcMoves DEF Outcomes
  <2>3. QED BY <2>1, <2>2
<1> HIDE DEF next
<1>4. /\ request' \in [Requests -> Request \cup {NoRequest}]
      /\ \A r \in Requests : request'[r] = next(r)
  BY <1>1, <1>3
<1>5. QED BY <1>1, <1>3, <1>4, NothingCommits

\* A commit on t: hearts and visits it does not belong to are no longer sure,
\* and what the heart's own request reports is so.
LEMMA CommitStep ==
    ASSUME HeartIInv, NEW q \in Requests, NEW t \in HeartPages, t = request[q].target,
           NEW outcome \in {"bookmarked", "removed"},
           bookmarked' \subseteq HeartPages,
           \A u \in HeartPages \ {t} : u \in bookmarked' <=> u \in bookmarked,
           Clear /\ Own(q) => (t \in bookmarked' <=> outcome = "bookmarked"),
           Unsure(q),
           request' \in [Requests -> Request \cup {NoRequest}],
           request'[q].pc = outcome,
           \A r \in Requests : SameClick(request[r], request'[r]),
           \A r \in Requests \ {q} :
              request'[r].pc = request[r].pc \/ (request'[r].pc = "nothing" /\ request[r].target = t)
    PROVE  HeartIInv'
<1>1. BookmarkTypeOK /\ VisitTells /\ OneClick /\ ClickTells /\ HeartTells
  BY DEF HeartIInv
<1>2. \A r \in Requests : Own(r)' <=> Own(r)
  BY DEF Own, SameClick
<1>3. /\ heart' = IF t = heart.page /\ ~Own(q) THEN [heart EXCEPT !.sure = FALSE] ELSE heart
      /\ visit' = IF t = visit.to THEN [visit EXCEPT !.sure = FALSE] ELSE visit
  BY DEF Unsure, Own
<1>4. /\ heart' \in Heart \cup {NoHeart} /\ heart'.page = heart.page
      /\ heart'.shown = heart.shown /\ heart'.inFlight = heart.inFlight /\ heart'.error = heart.error
      /\ heart'.misled = heart.misled
      /\ heart'.sure => heart.sure /\ heart.page \in HeartPages /\ (t = heart.page => Own(q))
  <2>1. CASE heart \in Heart
    BY <1>3, <2>1 DEF Heart
  <2>2. CASE heart = NoHeart
    <3>1. heart' = NoHeart
      BY <1>3, <2>2 DEF NoHeart
    <3>2. QED BY <2>2, <3>1 DEF NoHeart
  <2>3. QED BY <1>1, <2>1, <2>2 DEF BookmarkTypeOK
<1>5. /\ visit' \in Visit \cup {NoVisit} /\ visit'.to = visit.to /\ visit'.seen = visit.seen
      /\ visit'.sure => visit.sure /\ visit.to \in HeartPages /\ t # visit.to
  <2>1. CASE visit \in Visit
    BY <1>3, <2>1 DEF Visit
  <2>2. CASE visit = NoVisit
    <3>1. visit' = NoVisit
      BY <1>3, <2>2 DEF NoVisit
    <3>2. QED BY <2>2, <3>1 DEF NoVisit
  <2>3. QED BY <1>1, <2>1, <2>2 DEF BookmarkTypeOK
<1>6. BookmarkTypeOK'
  BY <1>4, <1>5 DEF BookmarkTypeOK
<1>7. VisitTells'
  BY <1>1, <1>5 DEF VisitTells
<1>8. OneClick'
  BY <1>1, <1>2, <1>4 DEF OneClick, Clear, SameClick
<1>9. SUFFICES ASSUME Clear' PROVE ClickTells' /\ HeartTells'
  BY <1>6, <1>7, <1>8 DEF HeartIInv, ClickTells, HeartTells, Clear
<1>10. CASE Own(q)
  <2>1. /\ heart'.inFlight /\ t = heart'.page /\ (t \in bookmarked' <=> outcome = "bookmarked")
        /\ \A r \in Requests : Own(r) => r = q
    BY <1>1, <1>4, <1>9, <1>10 DEF OneClick, Clear
  <2>2. ClickTells'
    BY <1>2, <2>1 DEF ClickTells
  <2>3. QED BY <2>1, <2>2 DEF HeartTells
<1>11. CASE ~Own(q)
  <2>1. Clear /\ t # heart.page /\ (heart'.page \in bookmarked' <=> heart.page \in bookmarked)
    BY <1>4, <1>9, <1>11 DEF Clear
  <2>2. HeartTells'
    BY <1>1, <1>4, <2>1 DEF HeartTells, Clear
  <2>3. ASSUME NEW r \in Requests, Own(r)
        PROVE  request'[r].pc = request[r].pc
    BY <1>1, <1>11, <2>1, <2>3 DEF OneClick
  <2>4. ClickTells'
    BY <1>1, <1>2, <1>4, <2>1, <2>3 DEF ClickTells
  <2>5. QED BY <2>2, <2>4
<1>12. QED BY <1>10, <1>11

LEMMA CommitInsertInv ==
    ASSUME HeartIInv, NEW q \in Requests, CommitInsert(q)
    PROVE  HeartIInv'
<1> DEFINE t == request[q].target
           row == [request[q] EXCEPT !.pc = "bookmarked"]
<1>1. /\ request[q].pc = "inserted" /\ bookmarked' = bookmarked \cup {t}
      /\ request' = [request EXCEPT ![q] = row] /\ Unsure(q)
  BY DEF CommitInsert, To
<1>2. BookmarkTypeOK /\ request[q] \in Request
  BY <1>1, RequestFields DEF HeartIInv
<1>3. t \in HeartPages /\ row \in Request /\ SameClick(request[q], row) /\ row.pc = "bookmarked"
  BY <1>2, PcMoves DEF Request, Outcomes
<1> HIDE DEF row
<1>4. /\ request' \in [Requests -> Request \cup {NoRequest}]
      /\ request'[q] = row
      /\ \A r \in Requests \ {q} : request'[r] = request[r]
  BY <1>1, <1>2, <1>3 DEF BookmarkTypeOK
<1>5. \A r \in Requests : SameClick(request[r], request'[r])
  BY <1>3, <1>4 DEF SameClick
<1>6. bookmarked' \subseteq HeartPages
  BY <1>1, <1>2, <1>3 DEF BookmarkTypeOK
<1>7. QED BY <1>1, <1>3, <1>4, <1>5, <1>6, CommitStep

LEMMA CommitDeleteInv ==
    ASSUME HeartIInv, NEW q \in Requests, CommitDelete(q)
    PROVE  HeartIInv'
<1> DEFINE t == request[q].target
           next(r) ==
              IF r = q THEN [request[r] EXCEPT !.pc = "removed"]
              ELSE IF request[r].pc = "waiting" /\ request[r].target = t
              THEN [request[r] EXCEPT !.pc = "nothing"] ELSE request[r]
<1>1. /\ request[q].pc = "deleted" /\ bookmarked' = bookmarked \ {t}
      /\ request' = [r \in Requests |-> next(r)] /\ Unsure(q)
  BY DEF CommitDelete
<1>2. BookmarkTypeOK /\ request[q] \in Request
  BY <1>1, RequestFields DEF HeartIInv
<1>3. t \in HeartPages /\ bookmarked' \subseteq HeartPages
  BY <1>1, <1>2 DEF BookmarkTypeOK, Request
<1>4. next(q).pc = "removed"
  BY <1>2 DEF Request
<1>5. ASSUME NEW r \in Requests
      PROVE  /\ next(r) \in Request \cup {NoRequest}
             /\ SameClick(request[r], next(r))
             /\ r # q => next(r).pc = request[r].pc \/ (next(r).pc = "nothing" /\ request[r].target = t)
  <2>1. CASE next(r) = request[r]
    BY <1>2, <2>1 DEF BookmarkTypeOK, SameClick
  <2>2. CASE next(r) # request[r]
    <3>1. /\ request[r].pc # "free"
          /\ \E pc \in {"removed", "nothing"} : next(r) = [request[r] EXCEPT !.pc = pc]
      BY <1>1, <2>2
    <3>2. request[r] \in Request
      BY <1>2, <3>1, RequestFields
    <3>3. next(r) \in Request /\ SameClick(request[r], next(r))
      <4> HIDE DEF next
      <4>1. QED BY <3>1, <3>2, PcMoves DEF Outcomes
    <3>4. r # q => next(r).pc = "nothing" /\ request[r].target = t
      BY <2>2, <3>2 DEF Request
    <3>5. QED BY <3>3, <3>4
  <2>3. QED BY <2>1, <2>2
<1> HIDE DEF next
<1>6. /\ request' \in [Requests -> Request \cup {NoRequest}]
      /\ \A r \in Requests : request'[r] = next(r)
  BY <1>1, <1>5
<1>7. QED BY <1>1, <1>3, <1>4, <1>5, <1>6, CommitStep

LEMMA CommitNothingInv ==
    ASSUME HeartIInv, NEW q \in Requests, CommitNothing(q)
    PROVE  HeartIInv'
<1> DEFINE t == request[q].target
           row == [request[q] EXCEPT !.pc = "removed"]
<1>1. /\ request[q].pc = "nothing" /\ UNCHANGED bookmarked
      /\ request' = [request EXCEPT ![q] = row] /\ Unsure(q)
  BY DEF CommitNothing, To
<1>2. BookmarkTypeOK /\ OneClick /\ ClickTells /\ request[q] \in Request
  BY <1>1, RequestFields DEF HeartIInv
<1>3. t \in HeartPages /\ row \in Request /\ SameClick(request[q], row) /\ row.pc = "removed"
  BY <1>2, PcMoves DEF Request, Outcomes
<1>4. Clear /\ Own(q) => t \notin bookmarked
  BY <1>1, <1>2 DEF OneClick, ClickTells
<1> HIDE DEF row
<1>5. /\ request' \in [Requests -> Request \cup {NoRequest}]
      /\ request'[q] = row
      /\ \A r \in Requests \ {q} : request'[r] = request[r]
  BY <1>1, <1>2, <1>3 DEF BookmarkTypeOK
<1>6. \A r \in Requests : SameClick(request[r], request'[r])
  BY <1>3, <1>5 DEF SameClick
<1>7. bookmarked' \subseteq HeartPages
  BY <1>1, <1>2 DEF BookmarkTypeOK
<1>8. QED BY <1>1, <1>3, <1>4, <1>5, <1>6, <1>7, CommitStep

LEMMA ClickInv ==
    ASSUME HeartIInv, NEW q \in Requests, Click(q)
    PROVE  HeartIInv'
<1> DEFINE row == [pc |-> "insert", target |-> heart.page, origin |-> "visit", previous |-> heart.shown]
<1>1. /\ heart # NoHeart /\ ~heart.inFlight
      /\ request' = [request EXCEPT ![q] = row]
      /\ heart' = [heart EXCEPT !.shown = ~heart.shown, !.inFlight = TRUE, !.error = FALSE]
      /\ UNCHANGED <<bookmarked, visit>>
  BY DEF Click, Send
<1>2. BookmarkTypeOK /\ VisitTells /\ OneClick /\ heart \in Heart
  BY <1>1 DEF HeartIInv, BookmarkTypeOK
<1>3. /\ heart' \in Heart /\ heart'.inFlight
      /\ heart'.page = heart.page /\ (Clear' <=> Clear)
  BY <1>1, <1>2 DEF Heart, Clear
<1>4. row \in Request /\ row.origin = "visit" /\ row.target = heart.page /\ row.pc = "insert"
  BY <1>2 DEF Request, Heart
<1> HIDE DEF row
<1>5. /\ request' \in [Requests -> Request \cup {NoRequest}]
      /\ request'[q] = row
      /\ \A r \in Requests \ {q} : request'[r] = request[r]
  BY <1>1, <1>2, <1>4 DEF BookmarkTypeOK
<1>6. /\ BookmarkTypeOK' /\ VisitTells' /\ HeartTells'
  BY <1>1, <1>2, <1>3, <1>5 DEF BookmarkTypeOK, VisitTells, HeartTells
<1>7. Clear => \A r \in Requests : ~Own(r)
  BY <1>1, <1>2 DEF OneClick
<1>8. OneClick' /\ ClickTells'
  BY <1>2, <1>3, <1>4, <1>5, <1>7 DEF OneClick, ClickTells, Own
<1>9. QED BY <1>6, <1>8 DEF HeartIInv

LEMMA ClickElsewhereInv ==
    ASSUME HeartIInv, NEW q \in Requests, NEW t \in HeartPages, ClickElsewhere(q, t)
    PROVE  HeartIInv'
<1> DEFINE row == [pc |-> "insert", target |-> t, origin |-> "other", previous |-> FALSE]
<1>1. request' = [request EXCEPT ![q] = row] /\ UNCHANGED <<bookmarked, heart, visit>>
  BY DEF ClickElsewhere, Send
<1>2. BookmarkTypeOK /\ VisitTells /\ OneClick /\ ClickTells /\ HeartTells
  BY DEF HeartIInv
<1>3. row \in Request /\ row.origin # "visit"
  BY DEF Request
<1> HIDE DEF row
<1>4. /\ request' \in [Requests -> Request \cup {NoRequest}]
      /\ request'[q] = row
      /\ \A r \in Requests \ {q} : request'[r] = request[r]
  BY <1>1, <1>2, <1>3 DEF BookmarkTypeOK
<1>5. BookmarkTypeOK' /\ VisitTells' /\ HeartTells'
  BY <1>1, <1>2, <1>4 DEF BookmarkTypeOK, VisitTells, HeartTells
<1>6. OneClick' /\ ClickTells'
  BY <1>1, <1>2, <1>3, <1>4 DEF OneClick, ClickTells, Clear, Own
<1>7. QED BY <1>5, <1>6 DEF HeartIInv

LEMMA AnswerInv ==
    ASSUME HeartIInv, NEW q \in Requests, NEW heard \in BOOLEAN, Answer(q, heard)
    PROVE  HeartIInv'
<1> DEFINE r == request[q]
           heeded == r.origin # "other" /\ r.target = heart.page
<1>1. /\ r.pc \in Outcomes
      /\ heart' = IF heeded THEN Reconciled(r, heard) ELSE heart
      /\ request' = [request EXCEPT ![q] = NoRequest]
      /\ UNCHANGED <<bookmarked, visit>>
  BY DEF Answer
<1>2. BookmarkTypeOK /\ VisitTells /\ OneClick /\ ClickTells /\ HeartTells
  BY DEF HeartIInv
<1>3. r \in Request
  BY <1>1, <1>2, RequestFields DEF Outcomes
<1>4. /\ request' \in [Requests -> Request \cup {NoRequest}]
      /\ \A s \in Requests : Own(s)' <=> (Own(s) /\ s # q)
      /\ \A s \in Requests \ {q} : request'[s] = request[s]
  BY <1>1, <1>2 DEF BookmarkTypeOK, Own, NoRequest
<1>5. heeded => heart \in Heart
  <2>1. r.target \in HeartPages
    BY <1>3 DEF Request
  <2>2. NoHeart.page \in HeartPages => NoHeart \in Heart
    BY DEF NoHeart, Heart
  <2>3. heart \in Heart \/ heart = NoHeart
    BY <1>2 DEF BookmarkTypeOK
  <2>4. QED BY <2>1, <2>2, <2>3
<1>6. CASE ~heeded
  <2>1. UNCHANGED heart /\ ~Own(q)
    BY <1>1, <1>2, <1>6 DEF Own, OneClick
  <2>2. BookmarkTypeOK' /\ VisitTells' /\ HeartTells'
    BY <1>1, <1>2, <1>4, <2>1 DEF BookmarkTypeOK, VisitTells, HeartTells
  <2>3. OneClick' /\ ClickTells'
    BY <1>1, <1>2, <1>4, <2>1 DEF OneClick, ClickTells, Clear
  <2>4. QED BY <2>2, <2>3 DEF HeartIInv
<1>7. CASE heeded
  <2> DEFINE told == heard /\ r.pc # "failed"
  <2>1. heart' = [heart EXCEPT !.shown = IF told THEN r.pc = "bookmarked" ELSE r.previous,
                               !.error = @ \/ ~told, !.inFlight = FALSE,
                               !.misled = @ \/ r.origin # "visit"]
    BY <1>1, <1>7 DEF Reconciled
  <2>2. /\ heart' \in Heart /\ heart'.page = heart.page /\ r.target = heart.page
        /\ Clear' => Clear /\ Own(q)
        /\ ~heart'.error => told
        /\ told => (heart'.shown <=> r.pc = "bookmarked")
    BY <1>3, <1>5, <1>7, <2>1 DEF Heart, Request, Own, Clear
  <2>3. BookmarkTypeOK' /\ VisitTells'
    BY <1>1, <1>2, <1>4, <2>2 DEF BookmarkTypeOK, VisitTells
  <2>4. OneClick' /\ ClickTells'
    BY <1>2, <1>4, <2>2 DEF OneClick, ClickTells
  <2>5. HeartTells'
    BY <1>1, <1>2, <2>2 DEF HeartTells, ClickTells, Clear, Outcomes
  <2>6. QED BY <2>3, <2>4, <2>5 DEF HeartIInv
<1>8. QED BY <1>6, <1>7

LEMMA ProbeInv ==
    ASSUME HeartIInv, NEW t \in HeartPages, NEW ok \in BOOLEAN, Probe(t, ok)
    PROVE  HeartIInv'
<1>1. /\ visit' = [to |-> t, seen |-> ok /\ t \in bookmarked, sure |-> ok]
      /\ UNCHANGED bookmarked /\ UNCHANGED request /\ UNCHANGED heart
  BY DEF Probe
<1>2. BookmarkTypeOK /\ OneClick /\ ClickTells /\ HeartTells
  BY DEF HeartIInv
<1>3. BookmarkTypeOK' /\ VisitTells'
  BY <1>1, <1>2 DEF BookmarkTypeOK, VisitTells, Visit
<1>4. OneClick' /\ ClickTells' /\ HeartTells'
  BY <1>1, <1>2 DEF OneClick, ClickTells, HeartTells, Clear, Own
<1>5. QED BY <1>3, <1>4 DEF HeartIInv

LEMMA LandInv ==
    ASSUME HeartIInv, Land
    PROVE  HeartIInv'
<1> DEFINE next(q) == IF request[q].origin = "visit"
                      THEN [request[q] EXCEPT !.origin = "earlier"] ELSE request[q]
<1>1. /\ visit # NoVisit
      /\ heart' = [page |-> visit.to, shown |-> visit.seen, inFlight |-> FALSE,
                   error |-> FALSE, sure |-> visit.sure, misled |-> FALSE]
      /\ request' = [q \in Requests |-> next(q)]
      /\ visit' = NoVisit /\ UNCHANGED bookmarked
  BY DEF Land
<1>2. BookmarkTypeOK /\ VisitTells /\ visit \in Visit
  BY <1>1 DEF HeartIInv, BookmarkTypeOK
<1>3. ASSUME NEW q \in Requests
      PROVE  next(q) \in Request \cup {NoRequest} /\ next(q).origin # "visit"
  BY <1>2 DEF BookmarkTypeOK, Request, NoRequest
<1> HIDE DEF next
<1>4. request' \in [Requests -> Request \cup {NoRequest}] /\ \A q \in Requests : ~Own(q)'
  BY <1>1, <1>3 DEF Own
<1>5. BookmarkTypeOK'
  BY <1>1, <1>2, <1>4 DEF BookmarkTypeOK, Visit, Heart
<1>6. VisitTells' /\ HeartTells'
  BY <1>1, <1>2 DEF VisitTells, HeartTells, NoVisit
<1>7. OneClick' /\ ClickTells'
  BY <1>4 DEF OneClick, ClickTells
<1>8. QED BY <1>5, <1>6, <1>7 DEF HeartIInv

LEMMA HeartInductive == HeartIInv /\ [BookmarkNext]_bookmarkVars => HeartIInv'
<1> SUFFICES ASSUME HeartIInv, [BookmarkNext]_bookmarkVars PROVE HeartIInv'
  OBVIOUS
<1>1. CASE UNCHANGED bookmarkVars
  <2>1. UNCHANGED bookmarked /\ UNCHANGED request /\ UNCHANGED heart /\ UNCHANGED visit
    BY <1>1 DEF bookmarkVars
  <2>2. QED BY <2>1 DEF HeartIInv, BookmarkTypeOK, VisitTells, OneClick, ClickTells, HeartTells, Clear, Own
<1>2. ASSUME NEW q \in Requests,
             InsertRow(q) \/ DeleteRow(q) \/ Rollback(q)
      PROVE  HeartIInv'
  BY <1>2, InsertRowInv, DeleteRowInv, RollbackInv
<1>3. ASSUME NEW q \in Requests,
             CommitInsert(q) \/ CommitDelete(q) \/ CommitNothing(q)
      PROVE  HeartIInv'
  BY <1>3, CommitInsertInv, CommitDeleteInv, CommitNothingInv
<1>4. ASSUME NEW q \in Requests, NEW t \in HeartPages, ClickElsewhere(q, t)
      PROVE  HeartIInv'
  BY <1>4, ClickElsewhereInv
<1>5. ASSUME NEW q \in Requests, Click(q)
      PROVE  HeartIInv'
  BY <1>5, ClickInv
<1>6. ASSUME NEW q \in Requests, NEW heard \in BOOLEAN, Answer(q, heard)
      PROVE  HeartIInv'
  BY <1>6, AnswerInv
<1>7. ASSUME NEW t \in HeartPages, NEW ok \in BOOLEAN, Probe(t, ok)
      PROVE  HeartIInv'
  BY <1>7, ProbeInv
<1>8. QED BY <1>1, <1>2, <1>3, <1>4, <1>5, <1>6, <1>7, LandInv DEF BookmarkNext

\* A heart at rest shows what is stored, or an error, for any number of pages
\* and of toggles under way, whatever transactions fail and answers are lost or
\* come for a page the user has left, unless a click that is not of the present
\* visit wrote the row since the page was loaded, or the heart took the answer of
\* an earlier visit to this page for its own
\* (web/src/lib/bookmarks/HeartButton.svelte:83-130).
THEOREM HeartStaysTrue == BookmarkSpec => []HeartTells
<1>1. HeartIInv => HeartTells
  BY DEF HeartIInv
<1>2. QED BY HeartInitInv, HeartInductive, <1>1, PTL DEF BookmarkSpec
=============================================================================

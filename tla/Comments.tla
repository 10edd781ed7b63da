------------------------------ MODULE Comments ------------------------------
(***************************************************************************)
(* crates/auth/src/comments.rs over storage's comment_repo.rs: a reply     *)
(* reads its parent and inserts in a second statement; an edit reads the   *)
(* comment, updates it under a guard, and explains a refused update by     *)
(* reading it again; a delete does the last two.  Moderators hide and      *)
(* un-hide comments meanwhile (Moderation has that part in full).  A call  *)
(* begins with its first statement: what it does before is its own.        *)
(***************************************************************************)
EXTENDS Handlers

CONSTANTS
    CommentIds,
    Targets,        \* what is commented on
    EditWindow,     \* the configured window, in units of the clock
    Second          \* how many units make the second of the SQL interval

ASSUME CommentAssumption ==
    /\ None \notin CommentIds /\ None \notin Targets /\ None \notin Clock
    /\ EditWindow \in Nat /\ Second \in Nat \ {0}

VARIABLES
    comment,        \* comment[c], the row, or None
    commenting      \* commenting[p], the call of each handler

commentVars == <<comment, commenting>>

CommentRows == [target : Targets, parent : CommentIds \cup {None}, depth : 0 .. 1,
                author : Users, created : Clock, deleted : BOOLEAN, hidden : BOOLEAN]

ASSUME RowAssumption == None \notin CommentRows

\* lifted (history): a moderator un-hid the comment after p's update failed.
Call == [pc : {"idle", "insert", "edit", "recheck"},
         op : {"create", "edit", "delete"}, user : Users \cup {None},
         target : Targets \cup {None}, id : CommentIds \cup {None}, now : Clock \cup {None},
         lifted : BOOLEAN]

NoCall == [pc |-> "idle", op |-> "create", user |-> None, target |-> None, id |-> None,
           now |-> None, lifted |-> FALSE]

CommentTypeOK ==
    /\ comment \in [CommentIds -> CommentRows \cup {None}]
    /\ commenting \in [Procs -> Call]

CommentInit ==
    /\ comment = [c \in CommentIds |-> None]
    /\ commenting = [p \in Procs |-> NoCall]

-----------------------------------------------------------------------------
Idle(p) == commenting[p].pc = "idle"
Finish(p) == commenting' = [commenting EXCEPT ![p] = NoCall]

\* Mutant: replies to replies, which the CHECKs of the table accept.
RepliableAtAnyDepth(c, t) ==
    /\ comment[c] # None
    /\ comment[c].target = t
    /\ ~comment[c].deleted /\ ~comment[c].hidden

\* What create asks of the parent it read.
Repliable(c, t) ==
    /\ comment[c] # None
    /\ comment[c].target = t
    /\ ~comment[c].deleted /\ ~comment[c].hidden
    /\ comment[c].depth = 0

\* CommentService::create as far as its read of the parent, if it has one.  A
\* refusal changes nothing, nor does an invalid body, which is not even read.
Create(p, u, t, parent) ==
    /\ Idle(p)
    /\ parent # None => Repliable(parent, t)
    /\ commenting' = [commenting EXCEPT ![p] =
          [NoCall EXCEPT !.pc = "insert", !.user = u, !.target = t, !.id = parent]]
    /\ UNCHANGED comment

Insert(p, c, now) ==
    LET call == commenting[p]
    IN  /\ call.pc = "insert"
        /\ comment[c] = None
        /\ comment' = [comment EXCEPT ![c] =
             [target |-> call.target, parent |-> call.id,
              depth |-> IF call.id = None THEN 0 ELSE 1,
              author |-> call.user, created |-> now,
              deleted |-> FALSE, hidden |-> FALSE]]
        /\ Finish(p)

-----------------------------------------------------------------------------
Owned(u, c) == comment[c] # None /\ comment[c].author = u /\ ~comment[c].deleted

\* elapsed_ms < 0 || elapsed_ms > window_ms closes the window.
InWindow(now, c) == comment[c].created <= now /\ now <= comment[c].created + EditWindow

\* Mutant: the window rounded down, as as_secs would.
SqlWindowDown == Second * (EditWindow \div Second)

\* edit_secs: the window rounded up to whole seconds.
SqlWindow == Second * ((EditWindow + Second - 1) \div Second)

\* CommentService::edit as far as its first read, which sees why "not found"
\* and "window closed" are answered; those change nothing.
Edit(p, u, c, now) ==
    /\ Idle(p)
    /\ Owned(u, c) /\ InWindow(now, c)
    /\ commenting' = [commenting EXCEPT ![p] =
          [NoCall EXCEPT !.pc = "edit", !.op = "edit", !.user = u, !.id = c, !.now = now]]
    /\ UNCHANGED comment

\* What the second read makes of a refused UPDATE.
Explanation(p) ==
    LET call == commenting[p]
    IN  IF ~Owned(call.user, call.id) THEN "missing"
        ELSE IF comment[call.id].hidden THEN "hidden"
        ELSE IF call.op = "edit" THEN "closed" ELSE "missing"

\* CommentRepo::edit: the guard is re-evaluated with the clock of the read.
\* The body and edited_at, which nobody tests, are left out.
UpdateBody(p) ==
    LET call == commenting[p]
        c == call.id
        mayEdit == /\ Owned(call.user, c) /\ ~comment[c].hidden
                   /\ call.now <= comment[c].created + SqlWindow
    IN  /\ call.pc = "edit"
        /\ \/ mayEdit /\ Finish(p)
           \/ /\ ~mayEdit
              /\ commenting' = [commenting EXCEPT ![p] = [@ EXCEPT !.pc = "recheck"]]
        /\ UNCHANGED comment

\* CommentService::delete as far as its UPDATE.  An id of no row is refused
\* like the id of a row that is somebody else's.
SoftDelete(p, u, c) ==
    LET mayDelete == Owned(u, c) /\ ~comment[c].hidden
    IN  /\ Idle(p) /\ comment[c] # None
        /\ \/ /\ mayDelete
              /\ comment' = [comment EXCEPT ![c] = [@ EXCEPT !.deleted = TRUE]]
              /\ UNCHANGED commenting
           \/ /\ ~mayDelete
              /\ commenting' = [commenting EXCEPT ![p] =
                    [NoCall EXCEPT !.pc = "recheck", !.op = "delete", !.user = u, !.id = c]]
              /\ UNCHANGED comment

\* The second read, which answers Explanation(p).
Recheck(p) ==
    /\ commenting[p].pc = "recheck"
    /\ Finish(p)
    /\ UNCHANGED comment

\* ReportService::resolve and the auto-hide of ReportService::create.
Hide(c) ==
    /\ comment[c] # None /\ ~comment[c].hidden
    /\ comment' = [comment EXCEPT ![c] = [@ EXCEPT !.hidden = TRUE]]
    /\ UNCHANGED commenting

Unhide(c) ==
    /\ comment[c] # None /\ comment[c].hidden
    /\ comment' = [comment EXCEPT ![c] = [@ EXCEPT !.hidden = FALSE]]
    /\ commenting' = [p \in Procs |->
          IF commenting[p].pc = "recheck" /\ commenting[p].id = c
          THEN [commenting[p] EXCEPT !.lifted = TRUE] ELSE commenting[p]]

\* The client hangs up or the instance stops: the call ends where it is.
DropCall(p) ==
    /\ ~Idle(p)
    /\ Finish(p)
    /\ UNCHANGED comment

CommentNext ==
    \/ \E p \in Procs :
          \/ \E u \in Users :
                \/ \E t \in Targets, parent \in CommentIds \cup {None} :
                      Create(p, u, t, parent)
                \/ \E c \in CommentIds :
                      (\E now \in Clock : Edit(p, u, c, now)) \/ SoftDelete(p, u, c)
          \/ \E c \in CommentIds, now \in Clock : Insert(p, c, now)
          \/ UpdateBody(p) \/ Recheck(p) \/ DropCall(p)
    \/ \E c \in CommentIds : Hide(c) \/ Unhide(c)

CommentSpec == CommentInit /\ [][CommentNext]_commentVars
-----------------------------------------------------------------------------
\* c may be the parent of a comment on t.
Root(c, t) == comment[c] # None /\ comment[c].depth = 0 /\ comment[c].target = t

\* Threads are one level deep and stay with what they are about, though only
\* create looks at the parent, in a statement before the INSERT: a reply, and
\* one about to be inserted, hangs under a root of its own target
\* (comments.rs:190-223, 0015_comments.sql).
RepliesHang ==
    /\ \A c \in CommentIds :
          comment[c] # None /\ comment[c].parent # None => Root(comment[c].parent, comment[c].target)
    /\ \A p \in Procs :
          commenting[p].pc = "insert" /\ commenting[p].id # None =>
             Root(commenting[p].id, commenting[p].target)

\* A refusal can be believed, whatever happens between the UPDATE and the
\* second read.  "Window closed" is said only when it is, by the clock of the
\* edit, or when the comment was un-hidden in between; "not found" of a
\* comment that is deleted or somebody else's, or, to a delete, after such an
\* un-hide (comments.rs:296-341, 355-371).
DenialExplained ==
    \A p \in Procs :
        LET call == commenting[p]
        IN  call.pc = "recheck" =>
              /\ Explanation(p) = "closed" => ~InWindow(call.now, call.id) \/ call.lifted
              /\ Explanation(p) = "missing" =>
                    ~Owned(call.user, call.id) \/ (call.op = "delete" /\ call.lifted)

\* A call refers to a row that exists, a reply to one it may hang under, and
\* once a call waits for its second read there is a reason for that which
\* nothing but an un-hide takes away.
CallOK(p) ==
    LET call == commenting[p]
    IN  /\ call.pc = "insert" => call.user # None /\ call.target # None
        /\ call.pc = "insert" /\ call.id # None => Root(call.id, call.target)
        /\ call.pc \in {"edit", "recheck"} =>
              call.user # None /\ call.id # None /\ comment[call.id] # None
        /\ call.pc = "edit" => call.op = "edit" /\ call.now # None
        /\ call.pc = "recheck" =>
              /\ call.op # "create" /\ (call.op = "edit" => call.now # None)
              /\ \/ call.lifted \/ comment[call.id].hidden \/ ~Owned(call.user, call.id)
                 \/ call.op = "edit" /\ ~InWindow(call.now, call.id)

CallInv == \A p \in Procs : CallOK(p)

CommentIInv == CommentTypeOK /\ CallInv /\ RepliesHang
=============================================================================

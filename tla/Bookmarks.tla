----------------------------- MODULE Bookmarks ------------------------------
(***************************************************************************)
(* The hearts of one user: `toggle` of crates/storage/src/bookmark_repo.rs *)
(* as PostgreSQL runs it, two statements in a transaction of READ          *)
(* COMMITTED, and the HeartButton of one tab that calls it while the user  *)
(* walks from page to page (web/src/lib/bookmarks/HeartButton.svelte, one  *)
(* instance for all of them).  The user's other clients call it too.       *)
(***************************************************************************)
EXTENDS Integers

CONSTANTS HeartPages,   \* targets that can be bookmarked, each with a page
          Requests    \* bound: POSTs to /api/v1/bookmarks under way

VARIABLES
    bookmarked, \* targets with a committed row
    request,    \* request[q], a toggle on its way
    heart,      \* the tab's HeartButton
    visit       \* the navigation under way: its probe has read the table

bookmarkVars == <<bookmarked, request, heart, visit>>

\* Ghosts: `origin` says who sent a request, the heart's present visit to its
\* page, an earlier visit, or another client.  `sure` is FALSE if the probe
\* failed, and once a click that is not of the present visit (another client's,
\* or one of an earlier visit that took its time) has written the row since the
\* probe.  `misled` is TRUE once the heart took the answer to a click of an
\* earlier visit to its page for the answer to its own.
Held == {"inserted", "deleted"}     \* the transaction has the row's lock
Outcomes == {"bookmarked", "removed", "failed"}
Request == [pc : {"insert", "delete", "waiting", "nothing"} \cup Held \cup Outcomes,
            target : HeartPages, origin : {"visit", "earlier", "other"}, previous : BOOLEAN]
NoRequest == [pc |-> "free", target |-> "none", origin |-> "other", previous |-> FALSE]

Heart == [page : HeartPages, shown : BOOLEAN, inFlight : BOOLEAN, error : BOOLEAN,
          sure : BOOLEAN, misled : BOOLEAN]
NoHeart == [page |-> "none", shown |-> FALSE, inFlight |-> FALSE, error |-> FALSE,
            sure |-> FALSE, misled |-> FALSE]
NoVisit == [to |-> "none", seen |-> FALSE, sure |-> FALSE]
Visit == [to : HeartPages, seen : BOOLEAN, sure : BOOLEAN]

BookmarkTypeOK ==
    /\ bookmarked \subseteq HeartPages
    /\ request \in [Requests -> Request \cup {NoRequest}]
    /\ heart \in Heart \cup {NoHeart}
    /\ visit \in Visit \cup {NoVisit}

BookmarkInit ==
    /\ bookmarked = {}
    /\ request = [q \in Requests |-> NoRequest]
    /\ heart = NoHeart
    /\ visit = NoVisit

Send(q, t, origin, previous) ==
    /\ request[q].pc = "free"
    /\ request' = [request EXCEPT ![q] = [pc |-> "insert", target |-> t, origin |-> origin,
                                          previous |-> previous]]

-----------------------------------------------------------------------------
(* The transaction.  Two toggles of a stored row may both find it there; the *)
(* later one then deletes nothing and answers "removed" all the same.        *)

Locked(t) == \E r \in Requests : request[r].target = t /\ request[r].pc \in Held

To(q, pc) == request' = [request EXCEPT ![q] = [@ EXCEPT !.pc = pc]]

\* INSERT .. ON CONFLICT DO NOTHING waits for whoever is inserting or deleting
\* the row, then inserts it or finds it there.
InsertRow(q) ==
    LET t == request[q].target
    IN  /\ request[q].pc = "insert" /\ ~Locked(t)
        /\ To(q, IF t \in bookmarked THEN "delete" ELSE "inserted")
        /\ UNCHANGED <<bookmarked, heart, visit>>

\* DELETE of the row as it is by now; if somebody is deleting it, wait.  An
\* uncommitted row is not seen.
DeleteRow(q) ==
    LET t == request[q].target
    IN  /\ request[q].pc = "delete"
        /\ To(q, IF t \notin bookmarked THEN "nothing"
                 ELSE IF Locked(t) THEN "waiting" ELSE "deleted")
        /\ UNCHANGED <<bookmarked, heart, visit>>

\* The writes that the heart, and a visit on its way, do not know of.
Unsure(q) ==
    LET t == request[q].target
    IN  /\ heart' = IF t = heart.page /\ request[q].origin # "visit"
                    THEN [heart EXCEPT !.sure = FALSE] ELSE heart
        /\ visit' = IF t = visit.to THEN [visit EXCEPT !.sure = FALSE] ELSE visit

CommitInsert(q) ==
    /\ request[q].pc = "inserted"
    /\ bookmarked' = bookmarked \cup {request[q].target}
    /\ To(q, "bookmarked") /\ Unsure(q)

\* Whoever waited for this DELETE finds the row gone and deletes nothing.
CommitDelete(q) ==
    LET t == request[q].target
    IN  /\ request[q].pc = "deleted"
        /\ bookmarked' = bookmarked \ {t}
        /\ request' = [r \in Requests |->
              IF r = q THEN [request[r] EXCEPT !.pc = "removed"]
              ELSE IF request[r].pc = "waiting" /\ request[r].target = t
              THEN [request[r] EXCEPT !.pc = "nothing"] ELSE request[r]]
        /\ Unsure(q)

CommitNothing(q) ==
    /\ request[q].pc = "nothing"
    /\ To(q, "removed") /\ Unsure(q)
    /\ UNCHANGED bookmarked

\* A statement or the COMMIT fails: the transaction is rolled back and the
\* next in line deletes the row.
Rollback(q) ==
    /\ request[q].pc \notin {"free"} \cup Outcomes
    /\ request' = [r \in Requests |->
          IF r = q THEN [request[r] EXCEPT !.pc = "failed"]
          ELSE IF /\ request[q].pc = "deleted"
                  /\ request[r].pc = "waiting" /\ request[r].target = request[q].target
          THEN [request[r] EXCEPT !.pc = "delete"] ELSE request[r]]
    /\ UNCHANGED <<bookmarked, heart, visit>>

-----------------------------------------------------------------------------
(* The tab.                                                                *)

\* A click on a heart that is not disabled flips it at once.
Click(q) ==
    /\ heart # NoHeart /\ ~heart.inFlight
    /\ Send(q, heart.page, "visit", heart.shown)
    /\ heart' = [heart EXCEPT !.shown = ~heart.shown, !.inFlight = TRUE, !.error = FALSE]
    /\ UNCHANGED <<bookmarked, visit>>

\* A tab elsewhere, or a script.
ClickElsewhere(q, t) ==
    /\ Send(q, t, "other", FALSE)
    /\ UNCHANGED <<bookmarked, heart, visit>>

\* What the heart makes of an answer; `heard` is FALSE when the network lost
\* it.  The key is the page's: an answer that belongs to an earlier visit to the
\* same page is not told from one's own.
Reconciled(r, heard) ==
    LET told == heard /\ r.pc # "failed"
    IN  [heart EXCEPT !.shown = IF told THEN r.pc = "bookmarked" ELSE r.previous,
                      !.error = @ \/ ~told,
                      !.inFlight = FALSE,
                      !.misled = @ \/ r.origin # "visit"]

\* Mutant: no look at the page the answer belongs to.
AnswerAnywhere(q, heard) ==
    /\ request[q].pc \in Outcomes
    /\ heart' = IF request[q].origin # "other"
                THEN [Reconciled(request[q], heard) EXCEPT
                         !.misled = IF request[q].target = heart.page THEN @ ELSE heart.misled]
                ELSE heart
    /\ request' = [request EXCEPT ![q] = NoRequest]
    /\ UNCHANGED <<bookmarked, visit>>

\* An answer for another page is dropped.
Answer(q, heard) ==
    /\ request[q].pc \in Outcomes
    /\ heart' = IF request[q].origin # "other" /\ request[q].target = heart.page
                THEN Reconciled(request[q], heard) ELSE heart
    /\ request' = [request EXCEPT ![q] = NoRequest]
    /\ UNCHANGED <<bookmarked, visit>>

\* The page's load probes the bookmarks; a probe that fails degrades to "not
\* bookmarked".  A later navigation supersedes an earlier one.
Probe(t, ok) ==
    /\ t # heart.page
    /\ visit' = [to |-> t, seen |-> ok /\ t \in bookmarked, sure |-> ok]
    /\ UNCHANGED <<bookmarked, request, heart>>

\* The first such page mounts the heart; after that the props change under
\* the instance, which is seeded again.
Land ==
    /\ visit # NoVisit
    /\ heart' = [page |-> visit.to, shown |-> visit.seen, inFlight |-> FALSE,
                 error |-> FALSE, sure |-> visit.sure, misled |-> FALSE]
    /\ request' = [q \in Requests |-> IF request[q].origin = "visit"
                                      THEN [request[q] EXCEPT !.origin = "earlier"]
                                      ELSE request[q]]
    /\ visit' = NoVisit
    /\ UNCHANGED bookmarked

BookmarkNext ==
    \/ \E q \in Requests :
        \/ InsertRow(q) \/ DeleteRow(q) \/ CommitInsert(q) \/ CommitDelete(q) \/ CommitNothing(q)
        \/ Rollback(q) \/ Click(q)
        \/ \E t \in HeartPages : ClickElsewhere(q, t)
        \/ \E heard \in BOOLEAN : Answer(q, heard)
    \/ \E t \in HeartPages, ok \in BOOLEAN : Probe(t, ok)
    \/ Land

BookmarkSpec == BookmarkInit /\ [][BookmarkNext]_bookmarkVars

-----------------------------------------------------------------------------
(* Properties.                                                             *)

\* A heart at rest shows what is stored or an error, over lost answers, failed
\* transactions and the answers of pages the user has left
\* (HeartButton.svelte:84-133).  There are two exceptions: a click that is not of
\* this visit wrote the row since the page was loaded; or the user was back on a
\* page before the answer to a click of the earlier visit, which the heart then
\* takes for the present one's and may show although the row has changed again
\* (A, B, A: the page's key at :114 and :130 is that of :91 again).
HeartTells ==
    heart.sure /\ ~heart.misled /\ ~heart.inFlight /\ ~heart.error =>
        (heart.shown <=> heart.page \in bookmarked)

-----------------------------------------------------------------------------
(* The inductive invariant.                                                *)

Own(q) == request[q].origin = "visit"

VisitTells == visit.sure => (visit.seen <=> visit.to \in bookmarked)

Clear == heart.sure /\ ~heart.misled

\* Such a heart has one click under way, or none, and it is for its page.
OneClick ==
    /\ \A q \in Requests : Own(q) => request[q].target = heart.page
    /\ Clear => \A q \in Requests : Own(q) =>
          heart.inFlight /\ \A r \in Requests : Own(r) => r = q

\* .. and what that click found or did is still so.
ClickTells ==
    Clear => \A q \in Requests : Own(q) =>
        /\ request[q].pc = "bookmarked" => heart.page \in bookmarked
        /\ request[q].pc \in {"removed", "nothing"} => heart.page \notin bookmarked

HeartIInv == BookmarkTypeOK /\ VisitTells /\ OneClick /\ ClickTells /\ HeartTells
=============================================================================

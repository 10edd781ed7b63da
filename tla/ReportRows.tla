----------------------------- MODULE ReportRows -----------------------------
(***************************************************************************)
(* The rows the reporting subsystem keeps and what one statement does to   *)
(* them: `reports` (one row per reporter and target) and the two columns   *)
(* of a target row (`comments` or `submissions`) that reporting and        *)
(* moderation write, hidden_at and deleted_at.  Timestamps are abstracted  *)
(* to "set" / "not set".                                                   *)
(***************************************************************************)
EXTENDS Integers, FiniteSets

CONSTANTS
    Reporters,    \* users who file reports
    Comments,     \* ids of reportable comments
    Submissions,  \* ids of reportable submissions
    Reasons,      \* values of reason_category
    None,         \* SQL NULL
    Threshold     \* REPORT_AUTO_HIDE_THRESHOLD

ASSUME ReportAssumption ==
    /\ Threshold \in Nat \ {0}
    /\ IsFiniteSet(Reporters)
    /\ Comments \cap Submissions = {}
    /\ None \notin Reasons

Reportable == Comments \cup Submissions
ReportKeys == Reporters \X Reportable

\* The moderator's dispositions (ReportAction).
Actions == {"hide", "keep", "delete", "warn_author"}

\* A row of `reports`; status "none" is "no such row", "open" is
\* resolved_at IS NULL, any other value is action_taken.
Report == [status : {"none", "open"} \cup Actions, reason : Reasons \cup {None}]
Unfiled == [status |-> "none", reason |-> None]

TargetRow == [state : {"absent", "live", "deleted"}, hidden : BOOLEAN]

\* Mutant: no CASE guards, a re-filing reopens a resolved report.
FiledUnguarded(rep, reason) == [status |-> "open", reason |-> reason]

\* INSERT .. ON CONFLICT (reporter, target): a new row, or the reason of an
\* open row; the CASE guards leave a resolved row as it is.
Filed(rep, reason) ==
    IF rep.status \in Actions THEN rep ELSE [status |-> "open", reason |-> reason]

Resolved(rep, action) == [rep EXCEPT !.status = action]

\* SELECT COUNT(*) .. WHERE resolved_at IS NULL, on one target.
OpenReporters(rep, t) == {r \in Reporters : rep[<<r, t>>].status = "open"}

\* The auto-hide UPDATE after n open reports were counted.
AfterFiling(target, n) == [target EXCEPT !.hidden = @ \/ n >= Threshold]

\* also_hide_target / also_unhide_target / also_delete_target.
AfterAction(target, action) ==
    [target EXCEPT
        !.hidden = (@ \/ action = "hide") /\ action # "keep",
        !.state  = IF action = "delete" /\ @ = "live" THEN "deleted" ELSE @]

\* The service refuses to delete a submission through a report.
Permitted(action, t) == action \in Actions /\ (action = "delete" => t \in Comments)
=============================================================================

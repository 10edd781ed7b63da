----------------------------- MODULE Moderation -----------------------------
(***************************************************************************)
(* What reporting promises: filing a report and dispositioning one are     *)
(* atomic.  A filing that finds the target at or over the threshold hides  *)
(* it in the same step; a disposition closes the report and applies its    *)
(* effect on the target in the same step.  Reports.tla refines this.       *)
(***************************************************************************)
EXTENDS ReportRows

VARIABLES
    report,  \* report[<<r, t>>], the row of `reports` of reporter r on t
    row      \* row[t], the target's own row

vars == <<report, row>>

TypeOK == report \in [ReportKeys -> Report] /\ row \in [Reportable -> TargetRow]

Init ==
    /\ report = [k \in ReportKeys |-> Unfiled]
    /\ row = [t \in Reportable |-> [state |-> "absent", hidden |-> FALSE]]

\* Somebody posts the comment or the submission.
Post(t) ==
    /\ row[t].state = "absent"
    /\ row' = [row EXCEPT ![t].state = "live"]
    /\ UNCHANGED report

\* The author soft-deletes a comment nobody hid.
AuthorDelete(t) ==
    /\ t \in Comments /\ row[t].state = "live" /\ ~row[t].hidden
    /\ row' = [row EXCEPT ![t].state = "deleted"]
    /\ UNCHANGED report

\* Reporter r files, or re-files, a report on t.
File(r, t, reason) ==
    /\ row[t].state # "absent"
    /\ report' = [report EXCEPT ![<<r, t>>] = Filed(@, reason)]
    /\ row' = [row EXCEPT ![t] = AfterFiling(@, Cardinality(OpenReporters(report', t)))]

\* A moderator dispositions r's open report on t.
Resolve(r, t, action) ==
    /\ report[<<r, t>>].status = "open" /\ Permitted(action, t)
    /\ report' = [report EXCEPT ![<<r, t>>] = Resolved(@, action)]
    /\ row' = [row EXCEPT ![t] = AfterAction(@, action)]

Next ==
    \E t \in Reportable :
        \/ Post(t)
        \/ AuthorDelete(t)
        \/ \E r \in Reporters :
            \/ \E reason \in Reasons : File(r, t, reason)
            \/ \E action \in Actions : Resolve(r, t, action)

Spec == Init /\ [][Next]_vars
=============================================================================

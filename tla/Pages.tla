------------------------------- MODULE Pages --------------------------------
(***************************************************************************)
(* crates/tools-data/src/aggregate_dataset.rs and join_datasets.rs hand    *)
(* out a result page by page.  No result is kept: every call runs the      *)
(* group_by or the join again, counts under a cap, and slices.  The order  *)
(* is Polars', which promises none for a plain group_by or join.  A client *)
(* walks the pages of a dataset that does not change meanwhile.            *)
(***************************************************************************)
EXTENDS Handlers, FiniteSets, FiniteSetsExt

CONSTANTS
    Results,        \* what the queries find in the first scan_cap rows: groups, joined rows
    RowCap,         \* MAX_GROUPS, MAX_JOIN_ROWS
    PageSize

ASSUME PageAssumption ==
    /\ \A result \in Results : IsFiniteSet(result)
    /\ RowCap \in Nat /\ PageSize \in Nat \ {0}

VARIABLES walk      \* walk[p], how far the client p is

pageVars == <<walk>>

Tools == {"aggregate", "join"}
\* given and seen add up what the pages so far held.
Walks == [tool : Tools, result : Results, page : Nat \ {0}, given : Nat,
          seen : SUBSET UNION Results]

PagesTypeOK == walk \in [Procs -> Walks \cup {None}]

PagesInit == walk = [p \in Procs |-> None]

-----------------------------------------------------------------------------
Lesser(x, y) == IF x <= y THEN x ELSE y

\* total_groups and total_rows: the probe counts to the cap and one more.
Exceeded(result) == Cardinality(result) > RowCap
Total(result) == Lesser(Cardinality(result), RowCap)
TotalPages(result) ==
    IF Total(result) = 0 THEN 1 ELSE (Total(result) + PageSize - 1) \div PageSize

\* The rows that .slice(offset, page_size) leaves of a plan of n rows.
Slice(page, n) ==
    LET offset == (page - 1) * PageSize
    IN  IF offset >= n THEN 0 ELSE Lesser(PageSize, n - offset)

\* Mutant: pages are cut from the plan of the probe, .limit(cap + 1).
ProbeHeight(result) == Lesser(Cardinality(result), RowCap + 1)

\* The plan the pages are cut from, .limit(cap).
Height(result) == Lesser(Cardinality(result), RowCap)

\* TooManyGroups, TooLarge; force is only the join's.
Refused(tool, result, force) == Exceeded(result) /\ ~(tool = "join" /\ force)

StartWalk(p, tool, result, force) ==
    /\ walk[p] = None /\ ~Refused(tool, result, force)
    /\ walk' = [walk EXCEPT ![p] =
          [tool |-> tool, result |-> result, page |-> 1, given |-> 0, seen |-> {}]]

RefuseWalk(tool, result, force) == Refused(tool, result, force) /\ UNCHANGED walk

More(p) == walk[p] # None /\ walk[p].page <= TotalPages(walk[p].result)

\* A call for the next page; in an order of this execution's own, its slice
\* can be any of so many rows.
AskPage(p) ==
    /\ More(p)
    /\ \E rows \in kSubset(Slice(walk[p].page, Height(walk[p].result)), walk[p].result) :
          walk' = [walk EXCEPT ![p].page = @ + 1,
                               ![p].given = @ + Cardinality(rows),
                               ![p].seen = @ \cup rows]

\* The client has what it wanted, or gives up; a page past the end is empty.
EndWalk(p) ==
    /\ walk[p] # None
    /\ walk' = [walk EXCEPT ![p] = None]

PagesNext ==
    \/ \E tool \in Tools, result \in Results, force \in BOOLEAN :
          \/ RefuseWalk(tool, result, force)
          \/ \E p \in Procs : StartWalk(p, tool, result, force)
    \/ \E p \in Procs : AskPage(p) \/ EndWalk(p)

PagesSpec == PagesInit /\ [][PagesNext]_pageVars
-----------------------------------------------------------------------------
Walked(p) == walk[p] # None /\ ~More(p)

\* The pages add up to the total that every one of them announces: a forced
\* join of more rows never shows the row by which its probe noticed
\* (join_datasets.rs:326-356, aggregate_dataset.rs:298-330).
WalkAddsUp == \A p \in Procs : Walked(p) => walk[p].given = Total(walk[p].result)

\* "page_size=1 walks one group at a time" (aggregate_dataset.rs:1011): who
\* has walked all pages of an aggregation has been given every group.
WalkComplete == \A p \in Procs : Walked(p) /\ walk[p].tool = "aggregate" =>
    walk[p].seen = walk[p].result

\* So far a client has been given the rows of the pages before, as far as there
\* are any.
GivenOK(p) ==
    walk[p] # None =>
        walk[p].given = Lesser((walk[p].page - 1) * PageSize, Height(walk[p].result))

PagesIInv == PagesTypeOK /\ \A p \in Procs : GivenOK(p)
=============================================================================

------------------------------ MODULE LlmsTxt ------------------------------
(***************************************************************************)
(* The /llms.txt snapshot of crates/gateway/src/llms_txt.rs, built from    *)
(* offset pages of storage's `search_datasets` while the crawler upserts:  *)
(* by the first request, under the cache's write lock, and by the nightly  *)
(* task, which swaps its snapshot in when it is done.  Two builds share    *)
(* nothing but the table they read and the slot they fill in the end, so   *)
(* one at a time is followed.                                              *)
(***************************************************************************)
EXTENDS Integers, FiniteSets, SequencesExt

CONSTANTS
    Entries,        \* datasets
    Weight,         \* Weight[d], the size of d's entry
    MaxStamp,       \* bound on last_modified_at
    SearchPageSize, \* SEARCH_PAGE_SIZE
    PageBudget,     \* page_budget, less the header
    SinglePageCap   \* single_page_cap, less the header

ASSUME LlmsAssumption ==
    /\ Weight \in [Entries -> Nat]
    /\ MaxStamp \in Nat /\ SearchPageSize \in Nat \ {0}
    /\ PageBudget \in Nat /\ SinglePageCap \in Nat /\ PageBudget <= SinglePageCap

VARIABLES
    stamp,      \* stamp[d], last_modified_at of d; 0 is "not in the catalogue"
    build,      \* the build that is followed
    warm        \* the cache holds a snapshot: RenderedPages of some build's hits

llmsVars == <<stamp, build, warm>>

Dates == 0 .. MaxStamp
Listed == {d \in Entries : stamp[d] # 0}

\* Ghosts: `still` are the datasets that were there when the walk began and
\* have not changed, `ordered` is FALSE once two dates were equal or one went
\* back.
NoWalk == [pc |-> "idle", offset |-> 0, hits |-> <<>>, still |-> {}, ordered |-> TRUE]

LlmsTypeOK ==
    /\ stamp \in [Entries -> Dates]
    /\ build \in [pc : {"idle", "walk", "built"}, offset : Nat, hits : Seq(Entries),
                  still : SUBSET Entries, ordered : BOOLEAN]
    /\ warm \in BOOLEAN

LlmsInit ==
    /\ stamp = [d \in Entries |-> 0]
    /\ build = NoWalk
    /\ warm = FALSE

-----------------------------------------------------------------------------
\* An upsert of the crawler: the date upstream gives, and now() for a new
\* dataset without one.
Upsert(d, s) ==
    /\ s # 0 /\ s # stamp[d]
    /\ stamp' = [stamp EXCEPT ![d] = s]
    /\ build' = IF build.pc = "idle" THEN build
               ELSE [build EXCEPT !.still = @ \ {d}, !.ordered = @ /\ s > stamp[d]]
    /\ UNCHANGED warm

\* Mutant: the oldest first.
OldestFirst(rows) ==
    \A i, j \in DOMAIN rows : i < j => stamp[rows[i]] <= stamp[rows[j]]

\* ORDER BY last_modified_at DESC: rows of one date come in any order.
NewestFirst(rows) ==
    \A i, j \in DOMAIN rows : i < j => stamp[rows[i]] >= stamp[rows[j]]

NoTies == \A c, d \in Listed : c # d => stamp[c] # stamp[d]

-----------------------------------------------------------------------------
(* Rendering.                                                              *)

Size(hits) ==
    LET sum[i \in 0 .. Len(hits)] == IF i = 0 THEN 0 ELSE sum[i - 1] + Weight[hits[i]]
    IN  sum[Len(hits)]

\* Mutant: the entry that does not fit is left out.
AddEntryLost(pages, d) ==
    IF Size(Last(pages)) + Weight[d] > PageBudget /\ Last(pages) # <<>>
    THEN Append(pages, <<>>)
    ELSE Front(pages) \o <<Append(Last(pages), d)>>

\* An entry that does not fit begins a page, unless the page has none yet.
AddEntry(pages, d) ==
    IF Size(Last(pages)) + Weight[d] > PageBudget /\ Last(pages) # <<>>
    THEN Append(pages, <<d>>)
    ELSE Front(pages) \o <<Append(Last(pages), d)>>

PagesOf(hits) ==
    LET pages[i \in 0 .. Len(hits)] == IF i = 0 THEN <<<<>>>> ELSE AddEntry(pages[i - 1], hits[i])
    IN  pages[Len(hits)]

RenderedPages(hits) == IF Size(hits) <= SinglePageCap THEN <<hits>> ELSE PagesOf(hits)

-----------------------------------------------------------------------------
\* The nightly tick builds whatever the cache holds ..
BeginBuild ==
    /\ build.pc = "idle"
    /\ build' = [NoWalk EXCEPT !.pc = "walk", !.still = Listed]
    /\ UNCHANGED <<stamp, warm>>

\* .. and a request that finds no snapshot and, under the write lock, still none.
FirstRequest == ~warm /\ BeginBuild

Smallest(a, b) == IF a < b THEN a ELSE b

\* One query of the walk: limit + 1 rows at the offset.
FetchPage(rows) ==
    LET end == build.offset + SearchPageSize
    IN  /\ build.pc = "walk" /\ NewestFirst(rows)
        /\ build' = [build EXCEPT
              !.hits = @ \o SubSeq(rows, build.offset + 1, Smallest(end, Len(rows))),
              !.ordered = @ /\ NoTies,
              !.offset = IF Len(rows) > end THEN end ELSE 0,
              !.pc = IF Len(rows) > end THEN "walk" ELSE "built"]
        /\ UNCHANGED <<stamp, warm>>

\* The snapshot is rendered and swapped in.
Install ==
    /\ build.pc = "built"
    /\ warm' = TRUE
    /\ build' = NoWalk
    /\ UNCHANGED stamp

\* Storage fails: the request answers 500, the tick keeps what there is.
BuildFails ==
    /\ build.pc = "walk"
    /\ build' = NoWalk
    /\ UNCHANGED <<stamp, warm>>

LlmsNext ==
    \/ \E d \in Entries, s \in Dates : Upsert(d, s)
    \/ BeginBuild \/ FirstRequest \/ Install \/ BuildFails
    \/ \E rows \in SetToSeqs(Listed) : FetchPage(rows)

LlmsSpec == LlmsInit /\ [][LlmsNext]_llmsVars

-----------------------------------------------------------------------------
(* Properties.                                                             *)

\* Whoever reads the pages of a snapshot one after the other reads every hit
\* once and in order, no page is empty, and none but a lone entry exceeds its
\* budget; and as long as the dates of the datasets are distinct and only
\* grow, every dataset that stood still is among the hits, however many others
\* come or move to the front between two queries (llms_txt.rs:238-268, 393-432).
SnapshotWhole ==
    build.pc = "built" =>
        LET hits == build.hits
            pages == RenderedPages(hits)
        IN  /\ FlattenSeq(pages) = hits
            /\ Len(pages) > 1 => \A i \in DOMAIN pages :
                  pages[i] # <<>> /\ (Len(pages[i]) = 1 \/ Size(pages[i]) <= PageBudget)
            /\ build.ordered => build.still \subseteq Range(hits)

\* What SnapshotWhole rests on: a dataset that stood still is among the hits, or
\* has at least as many newer ones before it as the walk has asked for.
Ahead(d) == {c \in Listed : stamp[c] > stamp[d]}

WalkInv ==
    build.pc # "idle" /\ build.ordered =>
        \A d \in build.still \ Range(build.hits) :
            build.pc = "walk" /\ Cardinality(Ahead(d)) >= build.offset

LlmsIInv ==
    /\ LlmsTypeOK /\ IsFiniteSet(Listed)
    /\ build.still \subseteq Listed
    /\ WalkInv

\* What llms_txt.rs:239-240 says of the walk: "the result is every dataset in
\* the catalog", so at least those that were there all the while.
WalkListsAll ==
    build.pc = "built" => build.still \subseteq Range(build.hits)
=============================================================================

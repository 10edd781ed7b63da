------------------------------ MODULE MCCrawl ------------------------------
(* Instances of Crawl for TLC. *)
EXTENDS Crawl

Entry(d, slug, text, domain) ==
    [id |-> d, content |-> [slug |-> slug, text |-> text, domain |-> domain]]

(* Two datasets that change order, slugs, text and domain; b's slug passes to
   a, and a walk cut by that edit meets a slug still taken; one edit is of the
   second page only, which the first page's ETag does not tell. The other source
   offers one dataset it can store and one whose domain is not seeded. *)
MCCatalogues ==
    [s \in {"data_gov_tw", "twse"} |->
        IF s = "data_gov_tw"
        THEN {<<Entry("a", "x", "old", "health"), Entry("b", "y", "old", "health")>>,
              <<Entry("b", "z", "old", "health"), Entry("a", "y", "old", "health")>>,
              <<Entry("a", "x", "old", "health"), Entry("b", "y", "new", "health")>>,
              <<Entry("b", "z", "new", NULL)>>}
        ELSE {<<Entry("a", "w", "old", "health"), Entry("b", "v", "old", "energy")>>}]

(* Two datasets, where b's slug passes to a while b gets another. *)
RenameCatalogues ==
    [s \in {"data_gov_tw"} |->
        {<<Entry("a", "x", "old", "health"), Entry("b", "y", "old", "health")>>,
         <<Entry("a", "y", "old", "health"), Entry("b", "z", "old", "health")>>}]

(* Two datasets, the second of which changes its text. *)
SecondPageCatalogues ==
    [s \in {"data_gov_tw"} |->
        {<<Entry("a", "x", "old", "health"), Entry("b", "y", text, "health")>> :
            text \in {"old", "new"}}]
=============================================================================

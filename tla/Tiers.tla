------------------------------- MODULE Tiers --------------------------------
(***************************************************************************)
(* etl-worker's tier_classifier.rs and cache_pipeline.rs over storage's    *)
(* dataset_repo.rs: two cron jobs that list datasets in one statement and  *)
(* act on the list in later ones, beside curators who pin tiers and calls  *)
(* of query_rows that record their use.                                    *)
(***************************************************************************)
EXTENDS Handlers

CONSTANTS
    Datasets,
    Merit,          \* Merit[d], the score d has without any use
    Cap,            \* normalize_cap: use counts no further
    Gold,           \* thresholds.gold, in units of the score
    MaxCalls        \* bound: calls counted in the lookback window

ASSUME TierAssumption ==
    /\ Merit \in [Datasets -> Nat]
    /\ Cap \in Nat \ {0} /\ Gold \in Nat /\ MaxCalls \in Nat

VARIABLES
    dataset,        \* dataset[d]: tier, tier_override, cached
    calls,          \* calls[d], its usage_records within window_days
    queried,        \* the datasets with a query_rows within inactive_days
    ticking         \* ticking[p], the cron tick that p is in

tierVars == <<dataset, calls, queried, ticking>>

\* Platinum and gold are pinned, silver and bronze are not; nothing here
\* tells the two of a pair apart.
TierNames == {"gold", "silver"}

\* tiers: what the classifier computed.  cold: the datasets that the cache
\* tick has still to demote.  Either is None in a tick of the other job.
\* idle (history): the datasets unqueried at some moment of the cache tick.
TickRuns == [tiers : [Datasets -> TierNames] \cup {None},
             cold : (SUBSET Datasets) \cup {None}, idle : SUBSET Datasets]

TiersTypeOK ==
    /\ dataset \in [Datasets -> [tier : TierNames, override : TierNames \cup {None},
                                 cached : BOOLEAN]]
    /\ calls \in [Datasets -> Nat]
    /\ queried \subseteq Datasets
    /\ ticking \in [Procs -> TickRuns \cup {None}]

\* Rows enter with the tier 'bronze' (0001_init.sql).
TiersInit ==
    /\ dataset = [d \in Datasets |-> [tier |-> "silver", override |-> None, cached |-> FALSE]]
    /\ calls = [d \in Datasets |-> 0]
    /\ queried = {}
    /\ ticking = [p \in Procs |-> None]

-----------------------------------------------------------------------------
\* COALESCE(tier_override, tier)
Effective(d) == IF dataset[d].override # None THEN dataset[d].override ELSE dataset[d].tier

\* compute_score and classify: use saturates at the cap, thresholds are strict.
Score(d) == Merit[d] + IF calls[d] < Cap THEN calls[d] ELSE Cap
Classify(score) == IF score > Gold THEN "gold" ELSE "silver"

\* run_tier_tick up to its UPDATE: list_for_tiering and the scores.
ListForTiering(p) ==
    /\ ticking[p] = None
    /\ ticking' = [ticking EXCEPT ![p] =
          [tiers |-> [d \in Datasets |-> Classify(Score(d))], cold |-> None, idle |-> {}]]
    /\ UNCHANGED <<dataset, calls, queried>>

\* WHERE d.tier_override IS NULL
Tiered(row, tier) == IF row.override = None THEN [row EXCEPT !.tier = tier] ELSE row

ApplyComputedTiers(p) ==
    /\ ticking[p] # None /\ ticking[p].tiers # None
    /\ dataset' = [d \in Datasets |-> Tiered(dataset[d], ticking[p].tiers[d])]
    /\ ticking' = [ticking EXCEPT ![p] = None]
    /\ UNCHANGED <<calls, queried>>

\* run_cache_tick: hot_candidates only feeds the log; then cold_candidates.
ColdCandidates(p) ==
    LET cold == {d \in Datasets : /\ dataset[d].cached
                                  /\ Effective(d) # "gold"
                                  /\ d \notin queried}
    IN  /\ ticking[p] = None
        /\ ticking' = [ticking EXCEPT ![p] =
              [tiers |-> None, cold |-> cold, idle |-> Datasets \ queried]]
        /\ UNCHANGED <<dataset, calls, queried>>

\* Mutant: the UPDATE trusts the list.
StillCached(d) == dataset[d].cached

\* WHERE id = $1 AND cached AND COALESCE(..) NOT IN ('platinum', 'gold')
Demotable(d) == dataset[d].cached /\ Effective(d) # "gold"

\* demote_dataset, which answers false when its UPDATE finds no row.
Demote(p, d) ==
    /\ ticking[p] # None /\ ticking[p].cold # None /\ d \in ticking[p].cold
    /\ dataset' = IF Demotable(d) THEN [dataset EXCEPT ![d] = [@ EXCEPT !.cached = FALSE]]
                                  ELSE dataset
    /\ ticking' = [ticking EXCEPT ![p] = [@ EXCEPT !.cold = ticking[p].cold \ {d}]]
    /\ UNCHANGED <<calls, queried>>

\* The tick is through (the hit ratio only feeds the log), a statement of it
\* fails, which ends it where it is, or the worker stops.
EndTick(p) ==
    /\ ticking[p] # None
    /\ ticking' = [ticking EXCEPT ![p] = None]
    /\ UNCHANGED <<dataset, calls, queried>>

\* query_rows records the attempt before it looks for the parquet file; a
\* record that fails or takes longer than 500 ms is not waited for.
QueryRows(d) ==
    /\ calls[d] < MaxCalls
    /\ calls' = [calls EXCEPT ![d] = @ + 1]
    /\ queried' = queried \cup {d}
    /\ UNCHANGED <<dataset, ticking>>

\* materialize_dataset records a call too, which is no query.
RecordMaterialise(d) ==
    /\ calls[d] < MaxCalls
    /\ calls' = [calls EXCEPT ![d] = @ + 1]
    /\ UNCHANGED <<dataset, queried, ticking>>

\* Time passes: a record leaves window_days, the last of them inactive_days.
AgeOut(d) ==
    /\ \/ calls[d] > 0 /\ calls' = [calls EXCEPT ![d] = @ - 1] /\ UNCHANGED <<queried, ticking>>
       \/ /\ calls[d] = 0 /\ d \in queried
          /\ queried' = queried \ {d}
          /\ ticking' = [p \in Procs |-> IF ticking[p] = None THEN None
                          ELSE [ticking[p] EXCEPT !.idle = ticking[p].idle \cup {d}]]
          /\ UNCHANGED calls
    /\ UNCHANGED dataset

\* A curator pins or unpins a tier; a dataset enters the cache.  Nothing
\* under src/ does either as yet: the columns are written by hand.
Pin(d, tier) ==
    /\ dataset' = [dataset EXCEPT ![d] = [@ EXCEPT !.override = tier]]
    /\ UNCHANGED <<calls, queried, ticking>>

EnterCache(d) ==
    /\ ~dataset[d].cached
    /\ dataset' = [dataset EXCEPT ![d] = [@ EXCEPT !.cached = TRUE]]
    /\ UNCHANGED <<calls, queried, ticking>>

TiersNext ==
    \/ \E p \in Procs :
          \/ ListForTiering(p) \/ ApplyComputedTiers(p)
          \/ ColdCandidates(p) \/ EndTick(p)
          \/ \E d \in Datasets : Demote(p, d)
    \/ \E d \in Datasets :
          \/ QueryRows(d) \/ RecordMaterialise(d) \/ AgeOut(d) \/ EnterCache(d)
          \/ \E tier \in TierNames \cup {None} : Pin(d, tier)

TiersSpec == TiersInit /\ [][TiersNext]_tierVars
-----------------------------------------------------------------------------
Leaves(d) == dataset[d].cached /\ ~dataset'[d].cached

\* A dataset leaves the cache only while no curator or classifier holds it
\* at platinum or gold, by a tick during which it was unqueried for a moment,
\* however old the list of the tick is (dataset_repo.rs:1206-1235,
\* cache_pipeline.rs:31-36).
CacheFollowsTier ==
    [][\A d \in Datasets : Leaves(d) =>
          /\ Effective(d) # "gold"
          /\ \E p \in Procs : ticking[p] # None /\ ticking[p].cold # None
                              /\ d \in ticking[p].cold /\ d \in ticking[p].idle
      ]_tierVars

\* What a list still holds was unqueried when it was made.
ColdInv ==
    \A p \in Procs : ticking[p] # None /\ ticking[p].cold # None =>
        ticking[p].cold \subseteq ticking[p].idle

TiersIInv == TiersTypeOK /\ ColdInv
=============================================================================

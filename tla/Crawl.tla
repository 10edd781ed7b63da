------------------------------- MODULE Crawl -------------------------------
(***************************************************************************)
(* The crawl of upstream catalogues by the ETL worker                      *)
(* (crates/etl-worker driver.rs, retry.rs and main.rs over dataset_repo.rs *)
(* and etl_dlq_repo.rs): conditional fetch, page walk, upsert, version     *)
(* log, stored cues, retries and dead letters.  One process runs at most   *)
(* one pass per source; it may die between any two statements.             *)
(*                                                                         *)
(* Upstream is external: a source publishes one catalogue after another,   *)
(* a sequence of entries, and its list endpoint answers a page at a time.  *)
(* An ETag belongs to one page, and only the first page's is kept and sent *)
(* back; it tells contents of that page apart, and nothing beyond it.      *)
(***************************************************************************)
EXTENDS Naturals, Sequences, FiniteSets

CONSTANTS
    Sources,      \* upstream sources
    Conditional,  \* those whose connector sends and returns ETags
    Datasets,     \* ids upstream gives its datasets, per source
    Slugs,
    Texts,        \* everything else the checksum covers
    Domains,      \* domains the mapping table knows
    Seeded,       \* those with a row in the table domains
    Catalogues,   \* the catalogues each source may publish
    PageSize,     \* entries on one page
    MaxAttempts,  \* retry_max_attempts
    Failures,     \* ways in which a connector call fails
    MaxEdits,     \* bound: catalogues a source publishes
    MaxFaults,    \* bound: failed calls and crashes
    NULL

(* What a connector reports of one dataset. *)
Contents == [slug : Slugs, text : Texts, domain : Domains \cup {NULL}]
Entries == [id : Datasets, content : Contents]

(* A catalogue lists a dataset at most once. *)
Injective(cat) ==
    \A i, j \in 1 .. Len(cat) : cat[i].id = cat[j].id => i = j

ASSUME CrawlAssumption ==
    /\ Conditional \subseteq Sources
    /\ Seeded \subseteq Domains
    /\ Catalogues \in [Sources -> SUBSET Seq(Entries)]
    /\ \A s \in Sources : Catalogues[s] # {}
    /\ \A s \in Sources : \A cat \in Catalogues[s] : Injective(cat)
    /\ PageSize \in Nat \ {0}
    /\ MaxAttempts \in Nat
    /\ Failures \subseteq {"transport", "server_error", "client_error", "decode"}
    /\ MaxEdits \in Nat \ {0}
    /\ MaxFaults \in Nat
    /\ NULL \notin Nat
    /\ NULL \notin Contents
    /\ NULL \notin Domains

VARIABLES
    published,  \* per source, the catalogues published so far
    row,        \* the table datasets: content stored per source and id
    versions,   \* dataset_versions: checksums recorded per source and id
    etag,       \* source_http_state.etag per source
    dlq,        \* etl_dlq: a set, since nobody tells two equal rows apart
    pass,       \* the pass each source's job is running
    faults      \* calls that failed so far

vars == <<published, row, versions, etag, dlq, pass, faults>>

-----------------------------------------------------------------------------
(* Upstream. *)

Current(s) == Len(published[s])
Catalogue(s, n) == published[s][n]

(* The last position of the page that starts after `offset'. The connectors
   without conditional fetch return everything at once. *)
PageEnd(s, offset) ==
    LET all == Len(Catalogue(s, Current(s)))
    IN IF s \in Conditional /\ offset + PageSize < all
       THEN offset + PageSize ELSE all

(* The first page of catalogue n: its datasets, and the count of all. *)
FirstPage(s, n) ==
    LET all == Len(Catalogue(s, n))
    IN [count |-> all,
        items |-> SubSeq(Catalogue(s, n), 1, IF PageSize < all THEN PageSize ELSE all)]

(* A cue is named by the catalogue whose first page it came with; it is the
   ETag of every catalogue with the same first page. *)
SameETag(s, cue, n) == FirstPage(s, cue) = FirstPage(s, n)

(* The cue that comes with a page, if this source's connector reads one. *)
FreshCue(s) == IF s \in Conditional THEN Current(s) ELSE NULL

(* Upstream answers 304 to this request. *)
Matches(s, p) == p.first /\ p.cues # NULL /\ SameETag(s, p.cues, Current(s))

-----------------------------------------------------------------------------
(* One dataset. *)

(* The checksum covers every field but the upstream categories. *)
Checksum(content) == <<content.slug, content.text>>
Checksums == Slugs \X Texts

Resolution(content) ==
    CASE content.domain = NULL -> "no_mapping"
      [] content.domain \in Seeded -> "mapped"
      [] OTHER -> "seed_missing"

(* UNIQUE (slug) over all sources: an upsert may not take the slug of a row
   other than its own. *)
SlugTaken(s, id, slug) ==
    \E t \in Sources, other \in Datasets :
        /\ <<t, other>> # <<s, id>>
        /\ row[t][other] # NULL
        /\ row[t][other].slug = slug

-----------------------------------------------------------------------------
(* One pass. `cues' is what the first request sends, `fresh' what the first
   page brought, `seen' the catalogue the page was cut from; the entries from
   `pos' to `last' of it are still to be stored; more pages follow if
   `more'. *)

PassSteps == {"idle", "state", "list", "store", "record", "put", "touch",
              "backoff", "dead"}
Errors == Failures \cup {"storage"}

Idle == [pc |-> "idle", attempt |-> 0, error |-> NULL, cues |-> NULL,
         fresh |-> NULL, first |-> TRUE, seen |-> 0, pos |-> 1, last |-> 0,
         more |-> FALSE]

Item(s) == Catalogue(s, pass[s].seen)[pass[s].pos]

(* Mutant: every page's cues replace those before, as if they were the list's. *)
LatestCue(s, p) == FreshCue(s)

(* The cues to keep: the first page's. *)
KeptCue(s, p) == IF p.first THEN FreshCue(s) ELSE p.fresh

(* Mutant: the walk ends with its first page. *)
AfterItemOnePage(p, pos) == IF pos <= p.last THEN "store" ELSE "put"

(* Where the walk goes once the entries before `pos' are stored. *)
AfterItem(p, pos) ==
    IF pos <= p.last THEN "store" ELSE IF p.more THEN "list" ELSE "put"

(* is_retriable *)
Retriable(error) == error \in {"transport", "server_error"}

(* The DLQ's error kinds; a storage failure is reported as `config'. *)
DlqKind(error) ==
    CASE error = "transport" -> "transport"
      [] error \in {"server_error", "client_error"} -> "bad_status"
      [] error = "decode" -> "decode"
      [] OTHER -> "config"

(* The clamp of with_retry. *)
Attempts == IF MaxAttempts = 0 THEN 1 ELSE MaxAttempts

(* Mutant: one attempt too few. *)
AfterErrorOnceLess(p, error) ==
    IF Retriable(error) /\ p.attempt + 1 < Attempts
    THEN [Idle EXCEPT !.pc = "backoff", !.attempt = p.attempt]
    ELSE [Idle EXCEPT !.pc = "dead", !.attempt = p.attempt, !.error = error]

(* What with_retry does with a failed attempt. *)
AfterError(p, error) ==
    IF Retriable(error) /\ p.attempt < Attempts
    THEN [Idle EXCEPT !.pc = "backoff", !.attempt = p.attempt]
    ELSE [Idle EXCEPT !.pc = "dead", !.attempt = p.attempt, !.error = error]

-----------------------------------------------------------------------------
CrawlInit ==
    /\ published \in [Sources -> UNION {{<<cat>> : cat \in Catalogues[s]} : s \in Sources}]
    /\ \A s \in Sources : published[s][1] \in Catalogues[s]
    /\ row = [s \in Sources |-> [d \in Datasets |-> NULL]]
    /\ versions = [s \in Sources |-> [d \in Datasets |-> {}]]
    /\ etag = [s \in Sources |-> NULL]
    /\ dlq = {}
    /\ pass = [s \in Sources |-> Idle]
    /\ faults = 0

(* Upstream publishes another catalogue: datasets change, come and go, and
   shift the offsets of a walk that is under way. *)
Publish(s) ==
    /\ Current(s) < MaxEdits
    /\ \E cat \in Catalogues[s] \ {Catalogue(s, Current(s))} :
          published' = [published EXCEPT ![s] = Append(@, cat)]
    /\ UNCHANGED <<row, versions, etag, dlq, pass, faults>>

(* A cron tick, or the startup pass: the first attempt. *)
StartPass(s) ==
    /\ pass[s].pc = "idle"
    /\ pass' = [pass EXCEPT ![s] = [Idle EXCEPT !.pc = "state", !.attempt = 1]]
    /\ UNCHANGED <<published, row, versions, etag, dlq, faults>>

(* The cues of the previous walk are read before the first request. *)
LoadState(s) ==
    /\ pass[s].pc = "state"
    /\ pass' = [pass EXCEPT ![s] = [@ EXCEPT !.pc = "list", !.cues = etag[s]]]
    /\ UNCHANGED <<published, row, versions, etag, dlq, faults>>

(* 304 to the first request of the walk: its page is what it was. *)
NotModified(s) ==
    /\ pass[s].pc = "list"
    /\ Matches(s, pass[s])
    /\ pass' = [pass EXCEPT ![s] = [@ EXCEPT !.pc = "touch"]]
    /\ UNCHANGED <<published, row, versions, etag, dlq, faults>>

(* 200: a page of the catalogue as it is now. Only the first page's cues are
   kept. The walk continues at the offset after the last entry fetched. An
   empty page ends it. *)
FetchPage(s) ==
    LET p == pass[s]
        end == PageEnd(s, p.last)
        more == /\ p.last < end
                /\ end < Len(Catalogue(s, Current(s)))
        q == [p EXCEPT !.cues = NULL,
                       !.fresh = KeptCue(s, p),
                       !.first = FALSE, !.seen = Current(s),
                       !.pos = p.last + 1, !.last = end, !.more = more]
    IN /\ p.pc = "list"
       /\ ~ Matches(s, p)
       /\ pass' = [pass EXCEPT ![s] = [q EXCEPT !.pc = AfterItem(q, q.pos)]]
       /\ UNCHANGED <<published, row, versions, etag, dlq, faults>>

(* process_dataset, first statement: the upsert of a dataset whose domain
   is known. The internal columns of the row stay as they are. *)
Upsert(s) ==
    /\ pass[s].pc = "store"
    /\ Resolution(Item(s).content) = "mapped"
    /\ ~ SlugTaken(s, Item(s).id, Item(s).content.slug)
    /\ row' = [row EXCEPT ![s] = [@ EXCEPT ![Item(s).id] = Item(s).content]]
    /\ pass' = [pass EXCEPT ![s] = [@ EXCEPT !.pc = "record"]]
    /\ UNCHANGED <<published, versions, etag, dlq, faults>>

(* The upsert of a slug that another row holds is a storage error. *)
UpsertConflict(s) ==
    /\ pass[s].pc = "store"
    /\ Resolution(Item(s).content) = "mapped"
    /\ SlugTaken(s, Item(s).id, Item(s).content.slug)
    /\ pass' = [pass EXCEPT ![s] = AfterError(pass[s], "storage")]
    /\ UNCHANGED <<published, row, versions, etag, dlq, faults>>

(* A dataset without a domain is counted and skipped. *)
Skip(s) ==
    /\ pass[s].pc = "store"
    /\ Resolution(Item(s).content) # "mapped"
    /\ pass' = [pass EXCEPT ![s] =
          [@ EXCEPT !.pos = pass[s].pos + 1,
                    !.pc = AfterItem(pass[s], pass[s].pos + 1)]]
    /\ UNCHANGED <<published, row, versions, etag, dlq, faults>>

(* Second statement: ON CONFLICT DO NOTHING, so a version seen before,
   however long ago, is not recorded again. *)
RecordVersion(s) ==
    /\ pass[s].pc = "record"
    /\ versions' = [versions EXCEPT ![s] =
          [@ EXCEPT ![Item(s).id] = versions[s][Item(s).id] \cup {Checksum(Item(s).content)}]]
    /\ pass' = [pass EXCEPT ![s] =
          [@ EXCEPT !.pos = pass[s].pos + 1,
                    !.pc = AfterItem(pass[s], pass[s].pos + 1)]]
    /\ UNCHANGED <<published, row, etag, dlq, faults>>

(* The end of a complete walk stores the first page's cues. *)
PutState(s) ==
    /\ pass[s].pc = "put"
    /\ etag' = [etag EXCEPT ![s] = pass[s].fresh]
    /\ pass' = [pass EXCEPT ![s] = Idle]
    /\ UNCHANGED <<published, row, versions, dlq, faults>>

(* short_circuit_not_modified writes back the cues it has read. *)
TouchState(s) ==
    /\ pass[s].pc = "touch"
    /\ etag' = [etag EXCEPT ![s] = pass[s].cues]
    /\ pass' = [pass EXCEPT ![s] = Idle]
    /\ UNCHANGED <<published, row, versions, dlq, faults>>

-----------------------------------------------------------------------------
(* What goes wrong. *)

Fault == /\ faults < MaxFaults
         /\ faults' = faults + 1

(* list_datasets fails: the walk is dropped, the statements it made stay. *)
FetchFails(s) ==
    /\ pass[s].pc = "list"
    /\ \E error \in Failures :
          pass' = [pass EXCEPT ![s] = AfterError(pass[s], error)]
    /\ Fault
    /\ UNCHANGED <<published, row, versions, etag, dlq>>

(* A statement fails: terminal, whatever the retry budget. *)
StatementFails(s) ==
    /\ pass[s].pc \in {"state", "store", "record", "put", "touch"}
    /\ pass' = [pass EXCEPT ![s] = AfterError(pass[s], "storage")]
    /\ Fault
    /\ UNCHANGED <<published, row, versions, etag, dlq>>

(* After the backoff the whole pass runs again. *)
Retry(s) ==
    /\ pass[s].pc = "backoff"
    /\ pass' = [pass EXCEPT ![s] =
          [Idle EXCEPT !.pc = "state", !.attempt = pass[s].attempt + 1]]
    /\ UNCHANGED <<published, row, versions, etag, dlq, faults>>

(* The dead letter of a pass that was given up. *)
Bury(s) ==
    /\ pass[s].pc = "dead"
    /\ dlq' = dlq \cup {[source |-> s, attempts |-> pass[s].attempt,
                         error |-> pass[s].error,
                         error_kind |-> DlqKind(pass[s].error)]}
    /\ pass' = [pass EXCEPT ![s] = Idle]
    /\ UNCHANGED <<published, row, versions, etag, faults>>

(* If that insert fails too, it is only logged. *)
BuryFails(s) ==
    /\ pass[s].pc = "dead"
    /\ pass' = [pass EXCEPT ![s] = Idle]
    /\ Fault
    /\ UNCHANGED <<published, row, versions, etag, dlq>>

(* The worker dies and is started again. *)
Crash ==
    /\ \E s \in Sources : pass[s].pc # "idle"
    /\ pass' = [s \in Sources |-> Idle]
    /\ Fault
    /\ UNCHANGED <<published, row, versions, etag, dlq>>

-----------------------------------------------------------------------------
(* What the scheduler and a running pass do without anybody's help. *)
PassStep(s) ==
    \/ StartPass(s)
    \/ LoadState(s)
    \/ NotModified(s)
    \/ FetchPage(s)
    \/ Upsert(s)
    \/ UpsertConflict(s)
    \/ Skip(s)
    \/ RecordVersion(s)
    \/ PutState(s)
    \/ TouchState(s)
    \/ Retry(s)
    \/ Bury(s)

CrawlNext ==
    \/ \E s \in Sources :
          \/ Publish(s)
          \/ PassStep(s)
          \/ FetchFails(s)
          \/ StatementFails(s)
          \/ BuryFails(s)
    \/ Crash

(* The cron scheduler goes on ticking, and a pass that is running is a task
   that gets its turn: no single step of it can be postponed for ever. *)
CrawlFairness == \A s \in Sources : WF_vars(PassStep(s))

CrawlSpec == CrawlInit /\ [][CrawlNext]_vars
FairCrawlSpec == CrawlSpec /\ CrawlFairness

-----------------------------------------------------------------------------
(* What holds of every entry of the catalogue a source offers now: if it has a
   domain it is stored with its content, and that version of it is recorded. *)
EntryStored(s, entry) ==
    Resolution(entry.content) = "mapped" =>
        /\ row[s][entry.id] = entry.content
        /\ Checksum(entry.content) \in versions[s][entry.id]

Mirrored(s) ==
    LET cat == Catalogue(s, Current(s))
    IN \A i \in 1 .. Len(cat) : EntryStored(s, cat[i])

(* Types of the tables, of the passes and of the dead letters. *)
CrawlTypeOK ==
    /\ published \in [Sources -> Seq(UNION {Catalogues[s] : s \in Sources})]
    /\ \A s \in Sources : \A n \in 1 .. Len(published[s]) : published[s][n] \in Catalogues[s]
    /\ \A s \in Sources : Len(published[s]) > 0
    /\ row \in [Sources -> [Datasets -> Contents \cup {NULL}]]
    /\ versions \in [Sources -> [Datasets -> SUBSET Checksums]]
    /\ etag \in [Sources -> Nat \cup {NULL}]
    /\ dlq \subseteq [source : Sources, attempts : Nat, error : Errors,
                      error_kind : {"transport", "bad_status", "decode", "config"}]
    /\ pass \in [Sources ->
          [pc : PassSteps, attempt : Nat, error : Errors \cup {NULL},
           cues : Nat \cup {NULL}, fresh : Nat \cup {NULL}, first : BOOLEAN,
           seen : Nat, pos : Nat, last : Nat, more : BOOLEAN]]
    /\ faults \in Nat

(* The ETag never runs ahead of the rows: if upstream has published nothing
   since the first page that the stored ETag came with, the next pass is a 304
   and stores nothing, so by then every dataset of that catalogue must be stored
   and its version recorded. No crash, failed statement, retry or change of the
   catalogue in the middle of a walk may prevent it (driver.rs:132-136,
   :173-193). *)
SkipIsSafe ==
    \A s \in Sources : etag[s] = Current(s) => Mirrored(s)

(* "the catalog hasn't changed since the persisted cues were captured"
   (connectors/src/lib.rs:277-278): that is what NotModified says. *)
NotModifiedIsHonest ==
    [][\A s \in Sources :
          pass[s].pc = "list" /\ pass'[s].pc = "touch" =>
              Catalogue(s, pass[s].cues) = Catalogue(s, Current(s))]_vars

(* The dead-letter table is for passes that used up what with_retry grants
   their last error: all attempts if it is worth retrying, and never more. *)
DlqExhausted ==
    \A letter \in dlq :
        /\ letter.attempts \in 1 .. Attempts
        /\ Retriable(letter.error) => letter.attempts = Attempts

(* Upstream has published since the stored ETag, and its first page is the same. *)
Hidden(s) ==
    etag[s] # NULL /\ etag[s] # Current(s) /\ SameETag(s, etag[s], Current(s))

(* What upstream offers gets stored, through crashes, failed statements and
   edits in the middle of a walk, once these stop; unless the first page is
   still, or again, the one the stored ETag came with, where a 304 hides what
   has changed since (driver.rs:96-193, retry.rs:56-110). *)
EventuallyMirrored == \A s \in Sources : <>[](Mirrored(s) \/ Hidden(s))
=============================================================================

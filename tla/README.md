# A TLA+ model of Taiwan Data Hub

Taiwan Data Hub is a Rust workspace: a gateway (HTTP API and MCP server), an ETL
worker that crawls open-data catalogues, and a PostgreSQL database that holds
everything they share. There is one database and any number of gateway
instances; each request is a task that runs a few SQL statements. What is hard
in this program is therefore what happens *between* the statements of concurrent
requests, between the writes of one transaction and its COMMIT, and between
instances whose clocks differ. That is what these modules model.

## 1. Inventory

State is in PostgreSQL unless noted. "Hard" names the behaviours a unit test
hardly reaches.

| component (crate files) | state | operations | hard | correct when |
|---|---|---|---|---|
| reports (`auth/reports`, `storage/report_repo`) | `reports` rows, `hidden_at` and `deleted_at` of comments and submissions | submit, resolve, lists | two transactions that write the same rows, read-then-write in the service | serializable, no deadlock, no lost auto-hide, dispositions immutable |
| ratings (`auth/ratings`, `storage/rating_repo`) | `ratings`, the cached `rating_aggregates` | upsert, withdraw, view | READ COMMITTED recompute, advisory locks whose keys collide | cache always agrees, no deadlock, every call ends |
| API keys (`auth/api_key`, `storage/api_key_repo`) | `mcp_api_keys` | issue, verify, list, revoke, rotate | rotation is three statements, clocks differ, failures between | revocation final, use time monotone, rotation keeps owner and grant and strands nobody |
| sessions (`auth/session`, `storage/session_repo`) | `sessions` | issue, authenticate (slides), revoke, revoke all | revocation against a slide in flight, skewed clocks | never outlives its absolute expiry, revocation final |
| email accounts (`auth/service`, `storage/auth_repo`, `mailer`) | `users`, `auth_tokens`; permits for mails in flight (memory) | register, resend, verify, login, request and redeem reset | compensating delete, crossing resets, crash after a token is consumed | a token works once, a superseded link is dead, no half registration blocks a retry |
| OAuth (`auth/oauth`, `storage/oauth_repo`) | login state rows, linked accounts; Google's signing keys (memory) | start and finish login; look a key up | two first logins, replayed state, registrations undone meanwhile; keys rotated behind a cache | state used once, one user per provider account; an answer comes from keys young enough |
| rate limiter (`auth/rate_limit`, `storage/rate_limit_repo`, gateway middleware) | one counter per key (PostgreSQL or memory) | check | window boundaries, clocks behind the stored window | never more than the limit in one window |
| submissions and moderation (`auth/submission`, `auth/moderation`, `storage/submission_repo`, `audit_repo`) | `submissions`, `audit_log`, roles | create, withdraw, approve, reject | withdraw against a decision | one outcome, with its audit row |
| comments (`auth/comments`, `storage/comment_repo`) | `comments` | create, edit, delete, list | parent read and reply inserted apart, re-reads that explain a refusal | depth at most one, hidden comments frozen, refusals true |
| bookmarks, collections (`storage/bookmark_repo`, `gateway/bookmarks_routes`) | their tables | toggle; create, rename, delete, add, remove, list | concurrent toggles; second statements that explain an empty first one | a toggle tells what it did; one answer fits one moment |
| crawl (`etl-worker` driver, retry, main; `etl_dlq_repo`) | datasets, versions, `source_http_state`, dead letters | one pass, retries, dead-lettering | restart in the middle, 304 after a partial pass, slugs that move | what upstream has is eventually stored |
| cache pipeline and tiers (`etl-worker`) | dataset tiers, usage records | classify, demote | candidates that went stale between two statements | a dataset in use is not demoted |
| dataset repository (`storage/dataset_repo`) | `datasets`, `dataset_versions`, `usage_records` | what the crawl, the ticks and the tools call | two unique keys, one of them in ON CONFLICT; orders without a tiebreak | writes as the callers expect |
| data tools (`tools-data`) | in-flight lock map of `materialize_dataset` (memory); others none | MCP tool calls | map entries dropped while somebody waits; pages of a query run anew | one signer per key at a time; pages add up |
| utility tools (`tools-utility`) | baked calendar tables | lunar date, solar term, holiday, and stateless text tools | tables that must agree with each other | a festival is on its lunar day |
| connectors (`connectors`) | `robots.txt`, the next free slot (memory) | polite GET, list_datasets | claims made by concurrent requests, dropped requests, clocks between claim and sleep | spaced slots, robots obeyed |
| discovery documents (`gateway/llms_txt`, `well_known`) | the llms.txt snapshot (memory) | first request, nightly refresh | an offset walk while rows change | a snapshot of the whole catalogue |
| web front end and playgrounds (`web`) | the heart on screen; the shared state of an embedded app | click, navigate; init, set-state, fetch | answers that arrive after a navigation; either side up first | what is shown is what is stored |
| MCP core, object store, gateway routes, deployment | none of their own | dispatch, decoding, presigning, I/O | little for a model checker | unit tests |

How they interact: the gateway decodes a request, asks the session middleware
who the caller is, and calls one service of `auth`; the service checks its
arguments and calls one or more methods of a `storage` repository. Services
never call each other's repositories, and share state only through rows: the
reports transactions write the same comment row as the author's delete, a first
OAuth login may find a user whose registration is about to be undone, the ETL
worker writes the datasets that the tools and the llms.txt walk read. Nothing in
the database calls back. In the browser the page and the embedded app exchange
messages, and the heart sends requests whose answers come back when another page
may be shown. `PROJECT.json` lists every component with its status.

## 2. Plan

In order of how much goes wrong when it breaks; all of it is written.

1. `ReportRows` (rows and what a statement does to one), `Moderation` (abstract,
   atomic), `Reports` (statements, locks), with the refinement between the two.
2. `Ratings`, and `MCLockWaits`, which puts it next to `Reports` for the
   liveness of everything that waits for a lock.
3. `ApiKeys`, `Sessions`, `Accounts`: credentials, with clocks that differ.
4. `Crawl`: the pass with its cues, retries and crashes; liveness.
5. `Submissions`, `Comments`, `OAuth`, `Bookmarks`, `Collections`: handlers of a
   few statements, each against the same handlers of other callers.
6. `RateLimit`, `Materialise`, `Throttle`, `Tiers`: limits and background ticks.
7. `Pages`, `Calendar`, `LlmsTxt`, `Jwks`, `Playground`: walks, tables, caches
   and message exchanges.

`Services` composes `Sessions` and the modules of 5 to 7, which
share nothing but their handlers: one part is chosen in the beginning and moves
alone. What holds of every part alone holds of all together, for they share no
row, no lock and no clock, and no property relates two of them; `ServicesSafe`
proves it. `MCTransactions` does the same, for TLC, with `ApiKeys`, `Accounts`
and `Reports`.

What could follow: the sessions that outlive a password reset, as a composition
of `Sessions` with `Accounts`; the loads and drafts of the comment thread
widget.

## 3. What is modelled

A row is a record, "no row" is a value of its own, and what a transaction wrote
but has not committed is kept with the transaction, so that nobody else sees it
and a rollback only drops it. A row lock, a unique-index wait and an advisory
lock are functions from what is locked to its holder. A statement is one action;
everything a handler computes between two statements belongs to the action of
the statement before it. A failed statement, a lost connection and a dropped
request future are one action, `Abort` (`StopCall` in `Accounts`, `Fail` where
there is no transaction), enabled at every point of a call.

**ReportRows, Moderation, Reports** (`report_repo.rs`, `reports.rs`). `report`
is the table keyed by (reporter, target), `row` the two columns of a comment or
submission that reporting writes. `Submit` .. `CommitInsert` are the statements
of `insert`, `Disposition` .. `CommitResolve` those of `resolve`, its service's
pre-read included. `Post` and `AuthorDelete` are the autocommit statements of
other endpoints on the same row (`comment_repo.rs`). The count and the auto-hide
UPDATE are one action, and so are the UPDATE that closes a report and its effect
on the target: the locks held there keep everybody else off those rows, and both
writes are invisible before the COMMIT. Timestamps become "set"/"not set". Text
bodies and the length check are left out. `Moderation` is what reporting
promises: filing and dispositioning as single atomic steps.

**Ratings** (`rating_repo.rs`, `ratings.rs`). `rating[t][u]` is the score,
`aggregate[t]` the cached sum and count (the average is their quotient).
`WriteRating` takes the unique row (and waits for another writer of it; a DELETE
that sees no row waits for nobody), `LockAggregate` the advisory lock, `Refresh`
recomputes from what a READ COMMITTED statement sees. `LockKey` is a constant,
so collisions of advisory keys are an instance.

**ApiKeys** (`api_key.rs`, `api_key_repo.rs`). `key[k]` is a row of
`mcp_api_keys`; every statement carries a time at most `Drift` away from the
true `clock`, either way, which is a skewed instance and a delayed request
alike. `Rotate`, `Mint` and `Retire` are the list, the issue and the revoke of
`rotate`; anybody may act between them. Hashes and cleartexts are the identity
of the row, since a collision is retried with fresh entropy until it is none.

**Sessions** (`session.rs`, `session_repo.rs`). `session[s]` is a row of
`sessions`; every operation is one UPDATE or INSERT that carries a time at most
`Drift` from the true `clock`, as in `ApiKeys`. `Alive` is the WHERE of the
lookup, `Slid` its SET. The row's identity stands for the token's hash and the
cookie's HMAC.

**Accounts** (`service.rs`, `auth_repo.rs`). `user`, `token` are the rows;
`call[h]` is the request a handler runs, `mail` the background sends that hold a
permit, `inbox` what was delivered, `orphan` (a history variable) the accounts
whose registration neither ended nor was undone. `Register`, `Acquire`,
`InsertVerify`, `InsertFails` and `Undo` are `register` with its compensation,
`Resend` shares its tail. `Supersede`, `Invalidate`, `InsertReset` and
`CommitReset` are the transaction of `replace_user_token`: its UPDATE takes a
snapshot, waits for the other writers of the rows it found, and looks at those
again, as READ COMMITTED does, but does not see a row inserted meanwhile.
`VerifyEmail` and `ResetPassword` consume a token; `Mark` and `Update`, a
statement later, write the user. Deleting a user waits for the transactions that
hold its tokens and takes the tokens along. `StopCall` ends a call anywhere. A
token that has expired is one that nobody redeems: redemption is never forced.
`invalidate_user_tokens` has no caller and no action; `login` only reads. One
process holds all permits, since the semaphore is per instance.

**Crawl** (`driver.rs`, `retry.rs`, `main.rs`, `dataset_repo.rs`,
`etl_dlq_repo.rs`). `pass[s]` is the pass of a source with its position in the
page, the cue of its first page and its attempt; `row`, `versions`, `etag` and
`dlq` are the tables. A step is one statement or one call of the connector:
`LoadState`, `NotModified` or `FetchPage`, then `Upsert`, `UpsertConflict` or
`Skip` and `RecordVersion` for each entry, `PutState` or `TouchState` at the
end; `Retry`, `Bury` and `BuryFails` are the driver around it, `Crash` ends
every pass and keeps the tables. The upstream is external: `Publish` puts one of
a source's `Catalogues` in place, in the middle of a walk too. An ETag is that
of a page, and the first page's is the one kept and sent back; `SameETag` says
that catalogues with the same first page have the same one, so `NotModified`
answers 304 whatever has changed behind that page. The upsert resolves conflicts
on (source, id) only, whereas `slug` is unique over all rows (`SlugTaken`).

**Submissions** (`submission.rs`, `moderation.rs`, `submission_repo.rs`,
`audit_repo.rs`). `Flip` is the guarded UPDATE of a decision, `WriteAudit` the
audit row of the same transaction, `CommitDecision` and `RollBackDecision` its
ends; `Withdraw` is the author's guarded UPDATE, which waits for a flip in
flight and looks at the row again.

**Comments** (`comments.rs`, `comment_repo.rs`). A reply is `Create`, which
reads the parent, and `Insert`; an edit `Edit`, which reads the comment,
`UpdateBody` and, when that found nothing, `Recheck`; a delete `SoftDelete` and
`Recheck`. The window is tested by the service in milliseconds and by SQL in
seconds rounded up (`SqlWindow`). `Hide` and `Unhide` are what moderation does
to the row.

**OAuth** (`oauth/service.rs`, `oauth_repo.rs`). One action per statement of
`finish_login`: `Consume`, `Exchange`, `FindLink`, `FindEmail`, `InsertUser`,
`VerifyEmail`, `UpsertLink`; `LoginFails` ends it anywhere, `BadState` in the
beginning.
`SignUp`, `EndSignUp` and `UndoSignUp` are a registration with a password, which
deletes its user again when it fails. The provider is external and may report
another address for an identity at any time.

**Bookmarks** (`bookmark_repo.rs`, `HeartButton.svelte`). `InsertRow`,
`DeleteRow` and the commits are the transaction of `toggle` with the waits of a
unique index; `Click`, `Answer`, `Probe` and `Land` are the one button instance
that survives navigation; it knows an answer by its page only, so that of an
earlier visit passes for the present one's (`misled`). **Collections** (same
file, `bookmarks_routes.rs`): statements on owned folders; `AddNothing` and
`ListNothing` are first statements that came back empty, `Reread` the second one
that must say why.

**RateLimit** (`rate_limit.rs`, `rate_limit_repo.rs`). `PgTick` is the UPSERT's
CASE, `MemoryTick` the limiter in memory; `Check` runs both on the same request,
with any reading of `Clock`, and `Uncounted` is the middleware that fails open.
**Materialise** (`materialize_dataset.rs`). `inflight` is the map of weak
references, `guarding` the mutexes, `presigning` the calls; a slot nobody refers
to is freed and used again. **Throttle** (`twse.rs`; `moea.rs`, `cwa.rs` and
`fishery_moa.rs` carry the same code). `Claim` takes a slot under the lock,
`Wake` sends when the sleep is over (or later), `DropFetch` is a dropped future,
`Built` the builder that fetched robots.txt. **Tiers** (`tier_classifier.rs`,
`cache_pipeline.rs`, `dataset_repo.rs`). `ListForTiering` and
`ApplyComputedTiers`, `ColdCandidates` and `Demote` are the two ticks, against
`QueryRows`, `RecordMaterialise`, `AgeOut`, `Pin` and `EnterCache`.

**Pages** (`aggregate_dataset.rs`, `join_datasets.rs`). No result is kept, so
`AskPage` slices any arrangement of the groups or rows. **LlmsTxt**
(`llms_txt.rs`, `search_datasets`). `FetchPage(rows)` is a query that orders by
date, equal dates in any order; `Upsert` is the crawler between two pages;
`Install` fills the cache and `BuildFails` leaves what was there. **Calendar**
(`date.rs`). The baked tables, and the lookups on a day; a client
asks for any day, and `AskNextDay` for the one after it.

**Jwks** (`oauth/google.rs`). `jwks` is the cache and the time of its fetch; the
lock is held across the fetch, so `Unfetched` guards the others. `PublishKey`
and `RetireKey` are Google, external. The client sets no timeout; `RoundTrip` is
an assumption on the network, the longest a fetch takes. **Playground**
(`host.ts`, `shim.js`). Two message queues between the page and the iframe, the
debounced write of the link (`urlTimer`, `UpdateUrl`), the proxied calls, and a
visitor who enters and leaves pages; the iframe may be up before the host
listens, and after.

**Handlers** has the constants the smaller services share: handlers, users,
readings of clocks that need not agree.

## 4. What the runs check

| run | instance | shows |
|---|---|---|
| `transactions` | the three services with transactions or several statements a call, 2 users, 2 handlers: 3 keys or tokens, 1 address, 2 grants or passwords, times 0..1, drift 1, cap 2; or 1 comment, threshold 2 | keys: revocation final, no use before creation, rotation strands nobody; accounts: links work once and for their purpose, failed registrations leave nothing, the cap holds, reset links are never merely lost; reports: no wait cycle, no lost auto-hide, dispositions immutable, `freshly_hidden` exact, and `Reports` implements `Moderation` |
| `reports_refile` (violation) | 3 reporters, threshold 2, 1 handler | a re-filing hides a target again after a moderator's Keep |
| `lock_waits` | 2 users, 2 handlers; 2 rated targets with one advisory key, or one reported comment; with fairness | the cached aggregate always agrees with the ratings, no wait cycle, every call of either service ends |
| `apikeys_rotate` (violation) | 1 user, 3 keys, 2 rotations at a time | two rotations of one key both mint |
| `accounts_reset` (violation) | 1 account, 3 tokens, 2 handlers | two requests leave two live reset links |
| `crawl` | 2 sources (one with ETags), 2 datasets each, 4 catalogues, pages of 1, 2 attempts, 2 faults; with fairness | when the stored ETag is of the catalogue in place, all of that is stored; dead letters are of exhausted passes; what upstream offers ends up stored, unless it changed behind a first page that is the same |
| `crawl_not_modified` (violation) | 1 source, 2 datasets on 2 pages, an edit of the second, no fault | a 304 ends the pass although the catalogue has changed |
| `crawl_rename` (violation) | 1 source, 2 datasets, a slug that passes from one to the other, no fault; with fairness | the source is never mirrored again |
| `services` | the fifteen parts of `Services`, 2 handlers, 2 users | the safety properties of each part |
| `aggregate_pages` (violation) | 2 groups, pages of 1 | a walk gets one group twice and the other never |
| `calendar_festivals` (violation) | every day of the tables | festivals off their lunar day in 2026 and 2027 |
| `llms_walk` (violation) | 3 datasets, queries of 1 row, 2 dates | the walk lists one dataset twice and another never |

The properties of `services`, by part:

| part | properties | say |
|---|---|---|
| sessions | `SeenAlive`, `ExpiredStaysDead`, `RevocationFinal` | nobody uses a session past its cap, and one that is over or revoked stays so |
| submissions | `OneVerdict` | one outcome, with exactly its audit row and its effect |
| comments | `RepliesHang`, `DenialExplained` | a reply hangs on a root of its target; a refusal names what was the case |
| OAuth | `LoginsBound` | a login signs in the owner of the provider account, who stays the same; the exceptions (an address changed between two first logins, a user undone) are stated |
| rate limits | `WindowCapped`, `LimitersAgree` | no window admits more than the limit; both limiters count alike |
| materialise | `OneSigner` | one call per dataset and format signs |
| throttle | `Spaced`, `RobotsObeyed` | slots an interval apart and no request before its slot; no path sent that its origin disallows |
| tiers | `CacheFollowsTier` | a dataset leaves the cache only while nobody holds it at gold or platinum, by a tick in which it was unqueried for a moment |
| pages | `WalkAddsUp` | the pages of a walk hold as many rows as the total says |
| calendar | `QingMingAgrees`, `LunarAdvances` | the holiday is on the solar term; a lunar date is followed by the next one |
| bookmarks | `HeartTells` | a heart at rest shows what is stored, or an error; except when a click that is not of this visit wrote the row since the page was loaded, or the heart took the answer of an earlier visit to the page for its own |
| collections | `OneAnswer` | two statements together answer as one moment would |
| llms.txt | `SnapshotWhole` | the pages hold every hit once and in order, within their budget; while dates are distinct and only grow, every dataset that stood still is a hit |
| keys | `KeyAnswers` | a key is served only if published within the limit, a miss only if it was missing |
| playground | `AtRest` | when no message or timer is pending, host, app and link agree |

*Bounds.* Threshold 2 rather than 3 makes the second filing the one that crosses
it, so two handlers race for the crossing; with two reporters and two handlers
every pair of calls meets on one report, and on one target. There is one target,
for a transaction locks one target and its reports, so what happens on another is
unrelated; the theorems of `ReportsProofs` hold for any number.
Three keys are a source and the successors of two rotations. With times 0..1 and
drift 1 the two instances can disagree about the order of any two statements.
Two accounts and one address are a registration, its undoing and a second
registration of the address; three tokens are a verification link and two reset
links that cross, or a reset link, its replacement and the other account's. In
`crawl`, pages of one entry put an edit, a crash or a failure between any two
entries; four catalogues reorder, rename, change and un-map datasets, one of them
on the second page only; two faults exhaust the two attempts, or fail a pass and
the burial of another.

In `services`, two handlers make every pair of calls meet, on the same and on
different rows. Sessions: time (0..5) runs past the absolute lifetime (3), and
the idle lifetime (2) is shorter, so a slide is cut off by the cap. Clocks read
1 and 3: with a window of 2, two windows; with an edit window of 2 and seconds
of 3 units, on either side of both windows. Limit 2 with `MaxCount` 4: crossed
and left behind. Three slots of `Materialise` are one per call and one to spare.
Throttle: instants 0..4, interval 2, three claims. Tiers: use counts to 1, of 2
calls. Pages: 2 rows and 4 rows over a cap of 3, pages of 2, so a last page is
full or partial and a result is cut. llms.txt: three datasets of size 1, queries
of one row, two to a page of the document. Keys: lifetime 2 and round trip 1,
times 0..3, so a key retired at 0 is past its limit at 3. Playground: three
states, one of them too large for a link, two calls, two messages posted at a
time.

Symmetry is over handlers, users and the shared sets of values, none of which
has a distinguished member; only runs without a liveness property use it.

*Fairness.* `CrawlFairness` (WF of every `PassStep`): the cron of a source keeps
ticking and a pass that has begun goes on unless it fails; faults are bounded,
so they cease. `LockWaitsSpec` (SF of a handler's steps): PostgreSQL queues the
waiters of a row lock or an advisory lock, so a handler that waits gets it in
its turn. Starting a call, aborting it, and what other people post are not fair.
No safety property uses fairness. Without it a handler may simply stop, which
says nothing about the code.

*Deadlock* is checked but in five runs. In `transactions`, `accounts_reset` and
`services` accounts, tokens, slots and instants are a bounded supply: when it is
spent and every mail is sent, the model stops although the program would draw
new ones. In `aggregate_pages` the client may stop, and the walk of
`calendar_festivals` ends with the tables. What could block a handler for
good, the lock waits, is in `lock_waits`, where deadlock is checked, and in
`NoWaitCycle`.

*Findings.* Each violation run shows one disagreement of the code with what it
says of itself; `PROJECT.json` quotes both sides.

1. `report_repo.rs:390-393` calls a re-filing past the threshold a no-op for the
   hide column; after a Keep it is not.
2. `api_key.rs:321-323` calls the second of two rotations a no-op; two concurrent
   ones both mint a key.
3. `auth_repo.rs:204-208` says a new reset link invalidates any older one; two
   concurrent requests leave two live links, and each resets the password.
4. `dataset_repo.rs:679` refreshes upstream's columns on every call, but the
   upsert's ON CONFLICT does not cover the unique `slug`: when one dataset
   takes the slug another gives up and is listed first, this pass and every later
   one ends in a storage error.
5. `connectors/src/lib.rs:277-278` says that a 304 means an unchanged catalogue;
   the ETag sent is that of the first page (`data_gov_tw.rs:149-163`,
   `driver.rs:132-136`), so a dataset that changes on a later one is missed until
   the first page changes.
6. `aggregate_dataset.rs:1011-1012` walks one group at a time; every page groups
   anew, in an order of its own.
7. `date.rs`: the lunar months of 2026 add up to 355 days where 354 lie between
   the module's own new years. The Mid-Autumn Festivals of 2026 and 2027 (8/15) are
   converted to 8/14 and 8/16, and the Dragon Boat Festival of 2027 (5/5) to 5/6.
8. `llms_txt.rs:239-240` says the result is every dataset; pages by OFFSET over an
   order without a tiebreak may repeat one and leave out another.

## 5. What is proved

`tlapm` checks every theorem, for any number of users, rows and handlers, every
threshold, every drift, and every catalogue and page size. The assumptions are
the named `ASSUME`s of the modules: NULL is not a value of the other sets, the
threshold is positive, the reporters and raters are finite sets, lock keys
exist.

* **ReportsProofs.** `IInv` = types, the arguments of a running call, *a lock is
  held exactly from the statement that takes it to the end of its transaction*
  (`LockInv`), *a report names an existing target* (`NoOrphan`), and *what a
  transaction has written is what its statements would write now*
  (`PendingInv`). The last is what makes the transactions serializable: the locks
  keep everything a statement read unchanged until the COMMIT, so the COMMIT is
  the step of `Moderation`. `AutoHideNotLost` is inductive only on
  top of `IInv`: the COMMIT preserves it because `PendingInv` says that its count
  still holds. `NoWaitCycle` follows
  from `LockInv`: a holder of a report row holds its target row and waits for nobody.
* **RatingsProofs.** The same shape: `LockInv`, `PendingInv` and
  `AggregateMatches` together. A handler computes its aggregate under the advisory
  lock of its target, and every committing writer of that target holds that lock.
* **ApiKeysProofs.** `KeyIInv` = types, `CallInv` (what a rotation read of its
  source still holds, since no statement changes owner or grant) and
  `UseTimeline`. One lemma, `KeyStep`, says what any step may do to any existing row
  (`Evolves`); the action properties follow from it.
* **AccountsProofs.** `AccountsIInv` = types; what each handler knows of its account and
  of its tokens (`CallsOK`: the link it acts on was delivered, is spent, and
  belongs to its account; the token it is about to commit is in nobody's hands;
  the ones it will consume are reset tokens of its account); `DrawnOnce`;
  `TokensOwned`; and the safety invariants of the run. One lemma (`CallStep`)
  shows that any step that changes rows as `UserStep` and `TokenStep` allow keeps
  what every *other* handler knows; each action is then an instance of it. The
  handlers are a finite set, which the count of permits needs.
* **CrawlProofs.** `IInv` = types and `SourceOK` of every source, whose part `Complete`
  says that a walk whose first page came from the current catalogue has stored
  everything before its position and will see the rest. `SkipIsSafe` needs it because
  the ETag that is put came with the *first* page: it speaks of the catalogue that
  page was cut from, and of no later one that shares the page; `DlqExhausted`
  rests on how a pass counts its attempts (`AttemptsOK`).
* **LimitsProofs.** `RateLimitIInv` says that what was let through of the newest
  window is its count as far as the limit, and nothing of a window still to come;
  `MaterialiseIInv` says that the slot of a call that waits or signs is the one in
  the map, and of no other pair, which is why two calls for one pair meet on one
  mutex; `ThrottleIInv` says that a claim in flight is of a slot handed out to it
  alone, the last one an interval before `next_allowed_at`; `TiersIInv` says that
  what a list of candidates still holds was unqueried when the list was made;
  `PagesIInv` counts what a walk was given by the offset it has reached.
* **CommunityProofs.** `SubmissionIInv`, `CommentIInv`, `OAuthIInv`,
  `CollectionIInv` and `HeartIInv`: types and what each handler knows, at each of its
  program points, of rows that others may write (a parent never loses its
  depth; a user found by a login is the owner unless undone; one answer is in
  flight for a heart). `OneVerdict`, `RepliesHang`, `DenialExplained`,
  `LoginsBound`, `OneAnswer` and `HeartTells` follow.
* **ServicesProofs.** The parts of `Services` that remain, and then the whole.
  - Sessions: `SessionIInv` = types and `SeenAlive`. `Evolves` says what any
    statement may do to an existing row; `SlidRow` is the arithmetic of LEAST and
    GREATEST under which `SeenAlive` is kept, for every pair of lifetimes.
  - `JwksIInv`: a key in the cache is published, or was until at most a round trip
    before it was received; what a lookup remembers of its own kid is true.
    `KeyAnswers` is about the step that answers, and follows.
  - `PlaygroundIInv`: which page the messages under way belong to, how far the two
    sides have come in shaking hands (a READY or an INIT is under way as long as the
    app has no state), that the link, its pending timer or the app's last message has the
    last state, and that a pending call is somewhere between the two
    sides. With nothing under way `AtRest` is what is left.
  - `LlmsIInv`: while dates are distinct and only grow, a dataset that stood still
    since the build began is among the hits, or at least `offset` newer ones are
    ahead of it (`WalkInv`), so that a last page which is not full has it. That the
    rendered pages hold the hits once, in order and within their budget is an
    induction over the hits. The library's induction theorem takes a predicate as
    an operator, which the provers cannot instantiate; `NatSetInduction` states
    it of a *set* of numbers and follows from the well-foundedness of <, and
    `Iteration` gives recursive functions over 0..n their equations.
  - `QingMingEveryDay` is an analysis of the cases of table, rule and lookup.
  - `EachAsAlone`: a behaviour of `Services` is one of each part's own specification.
    `ServicesSafe`: hence all the invariants that the run `services` checks hold
    of the composition.

The type invariants, and that use times, slides and grants move one way only
(`Monotone`, `SlidesForward`, `KeepsGrant`), are proved and therefore not run.

Only model-checked: the liveness properties `EveryCallEnds` and
`EventuallyMirrored` (liveness under fairness is outside the prover's reach);
`LunarAdvances`, an evaluation of sums over the tables for every day, where TLC
is exhaustive and a proof would be the same enumeration; and the disagreements
with the documentation, which are counterexamples.
The arithmetic of an aggregate (the sum over raters) is not opened by the
proofs: they need only that it is a function of the ratings.

## 6. What is not modelled

*Nothing to model.* The larger part of the source has no state and no order of
its own: SQL reads, decoding of requests and of upstream JSON, parsers,
rendering, the other utility tools, polars scans, inline tests. The MCP core and
the stdio server dispatch over a fixed registry; the object store signs URLs
with a pure function; the gateway's routes and environment wiring, the
well-known documents, the SQL guard (a whitelist over the tree of an external
parser) and the deployment files are of this kind. This is why the map covers a
tenth of the lines.

*Left out of a modelled part.*

- Crawl: the lengths of backoff delays; two overlapping passes of one source;
  a domain seeded after a deploy (a skipped dataset whose ETag is stored waits for
  the next change upstream, by design). `geo_nominatim` carries the throttle's
  slot scheme and is not mapped; `auto_fetch_robots=false` is for tests.
- Accounts and reports: cascades of a deleted user on ratings and reports (only
  a failed registration deletes a user, who has neither); timestamps of ratings
  and reports, whose order nothing reads; garbage collection of expired tokens
  and login states and `rate_limit_repo.rs:107-113`, which have no caller.
- OAuth: the sealing of tokens, which nothing reads; the frozen key cache of tests.
- Web: reloading only the iframe, and going from one playground straight to another (the
  host stays attached; a pending timer would write the old state); the comment
  thread and the widgets that render what a load returns.

*Observed while reading, without a run.*

- `comments.rs:325-327` claims more of the second read than it can know.
- `cache_pipeline.rs:31-36`: a query between listing and demoting does not stop
  a demotion.
- `auth/service.rs:190-205`: the compensation of a failed registration may
  delete an account that a provider login has verified meanwhile.
- Two sends may be closer than the interval when a sleeper wakes late; `moea.rs`
  ends a robots group at a blank line, `twse.rs` does not.
- `reset_password` leaves sessions alive, though `session_repo.rs:96-98` says
  the password-change flow revokes them; `revoked_at` may precede `last_used_at`
  when the revoking clock is behind (`api_key.rs:313`).
- A slow refresh of llms.txt may overwrite a newer snapshot.
- `CommentThread.svelte:15-17` loads on mount only, though the instance is
  reused; a POST that succeeds clears a draft typed meanwhile.
- Two concurrent toggles of an existing bookmark both answer "removed"
  (`bookmark_repo.rs:65-70`); a heart left and returned to takes the answer
  of the earlier visit for its own and may show what is no longer stored: the key
  at `HeartButton.svelte:101`, `:114` and `:130` is that of the page again, against
  the comment at `:59-69`. `HeartTells` excepts it.
- A crash between the two statements of `service.rs:461` wastes the reset link.
- `google.rs`: when a fetch fails or a kid is unknown, every waiter fetches
  again in turn; the provider is not wired into the gateway yet.
- A playground state that is set just before one too large is never written to
  the link.

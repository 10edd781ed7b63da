---------------------------- MODULE CrawlProofs ----------------------------
(***************************************************************************)
(* Proofs about Crawl, for any sources, catalogues, page size and retry    *)
(* budget: its types, that the stored ETag never runs ahead of the rows    *)
(* (SkipIsSafe), and that dead letters are of passes that used up their    *)
(* attempts (DlqExhausted).                                                *)
(***************************************************************************)
EXTENDS Crawl, TLAPS

(* The stored ETag, the cues a walk sends and those it will store are of
   catalogues that were published; cues not used yet are the stored ones. *)
CuesOK(s) ==
    LET p == pass[s] IN
    /\ etag[s] # NULL => s \in Conditional /\ etag[s] <= Current(s)
    /\ p.fresh # NULL => s \in Conditional /\ p.fresh <= Current(s)
    /\ p.pc = "touch" => p.cues = etag[s]
    /\ p.pc = "list" /\ p.first => p.cues = etag[s]

(* A walk under way has read a page: the item it is at exists. It goes on only
   while the stored ETag came with an earlier catalogue's first page. *)
Walking(p) == p.pc \in {"list", "store", "record", "put"} /\ ~ p.first

ItemOK(s) ==
    LET p == pass[s] IN
    /\ p.pc \in {"store", "record", "put"} => ~ p.first
    /\ p.pc = "state" => p.first /\ p.last = 0
    /\ p.pc = "list" /\ p.first => p.last = 0
    /\ p.pc = "dead" => p.error \in Errors
    /\ Walking(p) =>
          /\ etag[s] # Current(s)
          /\ p.seen \in 1 .. Current(s)
          /\ p.pos \in Nat \ {0}
    /\ p.pc \in {"store", "record"} =>
          /\ p.pos <= p.last
          /\ p.last <= Len(Catalogue(s, p.seen))

(* A walk whose first page was cut from the catalogue that is still the current
   one has stored everything before its position, and will see the rest. *)
Complete(s) ==
    LET p == pass[s]
        cat == Catalogue(s, Current(s))
    IN Walking(p) /\ p.fresh = Current(s) =>
          /\ p.seen = Current(s)
          /\ p.last <= Len(cat)
          /\ ~ p.more => p.last = Len(cat)
          /\ \A i \in 1 .. Len(cat) : i < p.pos => EntryStored(s, cat[i])
          /\ p.pc \in {"list", "put"} => p.pos = p.last + 1
          /\ p.pc = "list" => p.more
          /\ p.pc = "put" => ~ p.more
          /\ p.pc = "record" => row[s][Item(s).id] = Item(s).content

Safe(s) == etag[s] = Current(s) => Mirrored(s)

(* Attempts are counted from 1 and never beyond what with_retry grants. *)
AttemptsOK(s) ==
    LET p == pass[s] IN
    /\ p.pc # "idle" => p.attempt \in 1 .. Attempts
    /\ p.pc = "backoff" => p.attempt < Attempts
    /\ p.pc = "dead" /\ Retriable(p.error) => p.attempt = Attempts

SourceOK(s) == CuesOK(s) /\ ItemOK(s) /\ Complete(s) /\ Safe(s)

IInv == CrawlTypeOK /\ \A s \in Sources : SourceOK(s)

Passes == [pc : PassSteps, attempt : Nat, error : Errors \cup {NULL},
           cues : Nat \cup {NULL}, fresh : Nat \cup {NULL}, first : BOOLEAN,
           seen : Nat, pos : Nat, last : Nat, more : BOOLEAN]

-----------------------------------------------------------------------------
(* Facts about the current state. *)

(* The current catalogue of a source, and any it published, is one of its
   catalogues, and lists no dataset twice. *)
LEMMA Published ==
    ASSUME CrawlTypeOK, NEW s \in Sources
    PROVE  /\ Current(s) \in Nat \ {0}
           /\ \A n \in 1 .. Current(s) :
                 /\ Catalogue(s, n) \in Seq(Entries)
                 /\ Len(Catalogue(s, n)) \in Nat
                 /\ Injective(Catalogue(s, n))
<1>1. published[s] \in Seq(UNION {Catalogues[t] : t \in Sources}) /\ Len(published[s]) > 0
  BY DEF CrawlTypeOK
<1>2. Current(s) \in Nat \ {0}
  BY <1>1 DEF Current
<1>3. ASSUME NEW n \in 1 .. Current(s)
      PROVE  /\ Catalogue(s, n) \in Seq(Entries)
             /\ Len(Catalogue(s, n)) \in Nat
             /\ Injective(Catalogue(s, n))
  <2>1. Catalogue(s, n) \in Catalogues[s]
    BY DEF CrawlTypeOK, Current, Catalogue
  <2>2. Catalogue(s, n) \in Seq(Entries) /\ Injective(Catalogue(s, n))
    BY <2>1, CrawlAssumption
  <2>3. QED BY <2>2
<1>4. QED BY <1>2, <1>3

(* The item a walk is at is an entry. *)
LEMMA ItemEntry ==
    ASSUME IInv, NEW s \in Sources, pass[s].pc \in {"store", "record"}
    PROVE  /\ Item(s) \in Entries
           /\ Item(s).id \in Datasets
           /\ Item(s).content \in Contents
           /\ Checksum(Item(s).content) \in Checksums
           /\ pass[s].pos \in 1 .. Len(Catalogue(s, pass[s].seen))
<1>1. /\ pass[s].seen \in 1 .. Current(s) /\ pass[s].pos \in Nat \ {0}
      /\ pass[s].pos <= pass[s].last
      /\ pass[s].last <= Len(Catalogue(s, pass[s].seen))
      /\ pass[s].last \in Nat
  BY DEF IInv, SourceOK, ItemOK, Walking, CrawlTypeOK
<1>2. Catalogue(s, pass[s].seen) \in Seq(Entries)
  BY <1>1, Published DEF IInv
<1>3. pass[s].pos \in 1 .. Len(Catalogue(s, pass[s].seen))
  BY <1>1, <1>2
<1>4. Item(s) \in Entries
  BY <1>2, <1>3 DEF Item
<1>5. QED BY <1>3, <1>4 DEF Entries, Contents, Checksum, Checksums

-----------------------------------------------------------------------------
(* Steps that leave a source alone, or take its pass off the walk. *)

(* A source none of whose state changes stays as it should be. *)
LEMMA Frame ==
    ASSUME NEW s \in Sources, SourceOK(s),
           published'[s] = published[s], row'[s] = row[s],
           versions'[s] = versions[s], etag'[s] = etag[s], pass'[s] = pass[s]
    PROVE  SourceOK(s)'
  BY DEF SourceOK, CuesOK, ItemOK, Complete, Safe, Walking, Mirrored, EntryStored,
         Current, Catalogue, Item

(* A pass that ended, failed or begins claims nothing of the walk. *)
LEMMA OffTheWalk ==
    ASSUME CrawlTypeOK, NEW s \in Sources, SourceOK(s),
           published' = published, row' = row, versions' = versions, etag' = etag,
           pass'[s].first, pass'[s].fresh = NULL, pass'[s].last = 0,
           \/ pass'[s].pc \in {"idle", "state", "backoff"}
           \/ pass'[s].pc = "dead" /\ pass'[s].error \in Errors
    PROVE  SourceOK(s)'
<1>1. CuesOK(s)'
  BY DEF SourceOK, CuesOK, Current
<1>2. ItemOK(s)'
  BY DEF ItemOK, Walking
<1>3. Complete(s)'
  BY DEF Complete, Walking
<1>4. Safe(s)'
  BY DEF SourceOK, Safe, Mirrored, EntryStored, Current, Catalogue
<1>5. QED BY <1>1, <1>2, <1>3, <1>4 DEF SourceOK

(* What a failed attempt turns into. *)
LEMMA ErrorPass ==
    ASSUME NEW p \in Passes, NEW error \in Errors
    PROVE  LET q == AfterError(p, error) IN
           /\ q \in Passes /\ q.first /\ q.fresh = NULL /\ q.last = 0
           /\ q.attempt = p.attempt
           /\ \/ q.pc = "backoff" /\ Retriable(error) /\ p.attempt < Attempts
              \/ /\ q.pc = "dead" /\ q.error = error
                 /\ ~ (Retriable(error) /\ p.attempt < Attempts)
<1>1. Idle \in Passes
  BY DEF Idle, Passes, PassSteps
<1>2. p.attempt \in Nat
  BY DEF Passes
<1>3. CASE Retriable(error) /\ p.attempt < Attempts
  <2>1. AfterError(p, error) =
           [pc |-> "backoff", attempt |-> p.attempt, error |-> NULL, cues |-> NULL,
            fresh |-> NULL, first |-> TRUE, seen |-> 0, pos |-> 1, last |-> 0,
            more |-> FALSE]
    BY <1>3 DEF AfterError, Idle
  <2>2. QED BY <1>2, <1>3, <2>1 DEF Passes, PassSteps
<1>4. CASE ~ (Retriable(error) /\ p.attempt < Attempts)
  <2>1. AfterError(p, error) =
           [pc |-> "dead", attempt |-> p.attempt, error |-> error, cues |-> NULL,
            fresh |-> NULL, first |-> TRUE, seen |-> 0, pos |-> 1, last |-> 0,
            more |-> FALSE]
    BY <1>4 DEF AfterError, Idle
  <2>2. QED BY <1>2, <1>4, <2>1 DEF Passes, PassSteps
<1>5. QED BY <1>3, <1>4

-----------------------------------------------------------------------------
(* The types. *)

(* A step that only gives one pass a new record. *)
LEMMA TypePass ==
    ASSUME CrawlTypeOK, NEW s \in Sources, NEW q \in Passes,
           pass' = [pass EXCEPT ![s] = q],
           UNCHANGED <<published, row, versions, etag, dlq>>, faults' \in Nat
    PROVE  CrawlTypeOK'
<1>1. pass' \in [Sources -> Passes]
  BY DEF CrawlTypeOK, Passes
<1>2. QED BY <1>1 DEF CrawlTypeOK, Passes

(* Where a walk goes is a step of the pass. *)
LEMMA AfterItemStep ==
    ASSUME NEW p, NEW pos
    PROVE  AfterItem(p, pos) \in {"store", "list", "put"}
  BY DEF AfterItem

(* A pass that moves on to its next item. *)
LEMMA AdvancedPass ==
    ASSUME NEW p \in Passes
    PROVE  [p EXCEPT !.pos = p.pos + 1, !.pc = AfterItem(p, p.pos + 1)] \in Passes
<1> DEFINE pos == p.pos + 1
           pc == AfterItem(p, pos)
<1>1. pos \in Nat
  BY DEF Passes
<1>2. pc \in PassSteps
  BY AfterItemStep DEF PassSteps
<1> HIDE DEF pos, pc
<1>3. [p EXCEPT !.pos = pos, !.pc = pc] \in Passes
  BY <1>1, <1>2 DEF Passes
<1>4. QED BY <1>3 DEF pos, pc

(* A pass that begins or begins again. *)
LEMMA FreshPass ==
    ASSUME NEW n \in Nat
    PROVE  LET q == [Idle EXCEPT !.pc = "state", !.attempt = n]
           IN  /\ q \in Passes /\ q.first /\ q.fresh = NULL /\ q.last = 0
               /\ q.pc = "state" /\ q.attempt = n
<1> DEFINE q == [Idle EXCEPT !.pc = "state", !.attempt = n]
<1>1. Idle \in Passes /\ Idle.first /\ Idle.fresh = NULL /\ Idle.last = 0
  BY DEF Idle, Passes, PassSteps
<1>2. "state" \in PassSteps
  BY DEF PassSteps
<1>3. q \in Passes
  BY <1>1, <1>2 DEF Passes
<1>4. q.first /\ q.fresh = NULL /\ q.last = 0 /\ q.pc = "state" /\ q.attempt = n
  BY <1>1 DEF Passes
<1>5. QED BY <1>3, <1>4

LEMMA TypeStep ==
    ASSUME IInv, CrawlNext
    PROVE  CrawlTypeOK'
<1> USE DEF IInv
<1>0. \A t \in Sources : pass[t] \in Passes
  BY DEF CrawlTypeOK, Passes
<1>1. Idle \in Passes
  BY DEF Idle, Passes, PassSteps
<1>f. Fault => faults' \in Nat
  BY DEF Fault, CrawlTypeOK
<1>n. faults \in Nat
  BY DEF CrawlTypeOK
<1>2. ASSUME NEW s \in Sources, Publish(s) PROVE CrawlTypeOK'
  <2>1. PICK cat \in Catalogues[s] :
           published' = [published EXCEPT ![s] = Append(published[s], cat)]
    BY <1>2 DEF Publish
  <2> DEFINE All == UNION {Catalogues[t] : t \in Sources}
  <2>2. cat \in All /\ published \in [Sources -> Seq(All)]
    BY DEF CrawlTypeOK
  <2> HIDE DEF All
  <2>3. /\ published' \in [Sources -> Seq(All)]
        /\ published'[s] = Append(published[s], cat)
        /\ \A t \in Sources : t # s => published'[t] = published[t]
    BY <2>1, <2>2
  <2>a. /\ Len(published'[s]) = Len(published[s]) + 1 /\ Len(published[s]) \in Nat
        /\ \A n \in 1 .. Len(published[s]) : published'[s][n] = published[s][n]
        /\ published'[s][Len(published[s]) + 1] = cat
    <3>1. published[s] \in Seq(All)
      BY <2>2
    <3>2. QED BY <2>2, <2>3, <3>1
  <2>4. ASSUME NEW t \in Sources PROVE Len(published'[t]) > 0
    <3>1. CASE t = s
      BY <2>a, <3>1
    <3>2. CASE t # s
      BY <2>3, <3>2 DEF CrawlTypeOK
    <3>3. QED BY <3>1, <3>2
  <2>5. ASSUME NEW t \in Sources, NEW n \in 1 .. Len(published'[t])
        PROVE  published'[t][n] \in Catalogues[t]
    <3>1. CASE t # s
      BY <2>3, <2>5, <3>1 DEF CrawlTypeOK
    <3>2. CASE t = s
      <4>1. \A m \in 1 .. Len(published[s]) : published[s][m] \in Catalogues[s]
        BY DEF CrawlTypeOK
      <4>2. n \in 1 .. Len(published[s]) \/ n = Len(published[s]) + 1
        BY <2>5, <3>2, <2>a
      <4>3. QED BY <2>1, <2>a, <3>2, <4>1, <4>2
    <3>3. QED BY <3>1, <3>2
  <2>6. QED BY <1>2, <2>3, <2>4, <2>5 DEF CrawlTypeOK, Publish, All
<1>3. ASSUME NEW s \in Sources, StartPass(s) PROVE CrawlTypeOK'
  <2>1. [Idle EXCEPT !.pc = "state", !.attempt = 1] \in Passes
    BY FreshPass
  <2>2. QED BY <1>3, <1>n, <2>1, TypePass DEF StartPass
<1>4. ASSUME NEW s \in Sources, LoadState(s) PROVE CrawlTypeOK'
  <2>1. [pass[s] EXCEPT !.pc = "list", !.cues = etag[s]] \in Passes
    BY <1>0 DEF Passes, PassSteps, CrawlTypeOK
  <2>2. QED BY <1>4, <1>n, <2>1, TypePass DEF LoadState
<1>5. ASSUME NEW s \in Sources, NotModified(s) PROVE CrawlTypeOK'
  <2>1. [pass[s] EXCEPT !.pc = "touch"] \in Passes
    BY <1>0 DEF Passes, PassSteps
  <2>2. QED BY <1>5, <1>n, <2>1, TypePass DEF NotModified
<1>6. ASSUME NEW s \in Sources, FetchPage(s) PROVE CrawlTypeOK'
  <2> DEFINE p == pass[s]
             end == PageEnd(s, p.last)
             more == p.last < end /\ end < Len(Catalogue(s, Current(s)))
             pos == p.last + 1
             fresh == KeptCue(s, p)
             seen == Current(s)
             q == [p EXCEPT !.cues = NULL, !.fresh = fresh, !.first = FALSE,
                            !.seen = seen, !.pos = pos, !.last = end, !.more = more]
  <2>1. Current(s) \in Nat /\ Len(Catalogue(s, Current(s))) \in Nat /\ p.last \in Nat
    BY <1>0, Published DEF Passes
  <2>2. /\ end \in Nat /\ fresh \in Nat \cup {NULL} /\ more \in BOOLEAN
        /\ pos \in Nat /\ seen \in Nat
    BY <1>0, <2>1, CrawlAssumption DEF PageEnd, KeptCue, FreshCue, Passes
  <2>3. pass' = [pass EXCEPT ![s] = [q EXCEPT !.pc = AfterItem(q, q.pos)]]
    BY <1>6 DEF FetchPage
  <2> HIDE DEF end, more, pos, fresh, seen
  <2>4. q \in Passes
    BY <1>0, <2>1, <2>2 DEF Passes
  <2> HIDE DEF q
  <2>5. AfterItem(q, q.pos) \in PassSteps
    BY AfterItemStep DEF PassSteps
  <2>6. [q EXCEPT !.pc = AfterItem(q, q.pos)] \in Passes
    BY <2>4, <2>5 DEF Passes
  <2>7. QED BY <1>6, <1>n, <2>3, <2>6, TypePass DEF FetchPage
<1>7. ASSUME NEW s \in Sources, Upsert(s) PROVE CrawlTypeOK'
  <2>1. Item(s).id \in Datasets /\ Item(s).content \in Contents
    BY <1>7, ItemEntry DEF Upsert
  <2>2. row' \in [Sources -> [Datasets -> Contents \cup {NULL}]]
    BY <1>7, <2>1 DEF Upsert, CrawlTypeOK
  <2>3. [pass[s] EXCEPT !.pc = "record"] \in Passes
    BY <1>0 DEF Passes, PassSteps
  <2>4. pass' \in [Sources -> Passes]
    BY <1>7, <2>3, <1>0 DEF Upsert, CrawlTypeOK
  <2>5. QED BY <1>7, <2>2, <2>4 DEF Upsert, CrawlTypeOK, Passes
<1>8. ASSUME NEW s \in Sources, UpsertConflict(s) PROVE CrawlTypeOK'
  <2>1. AfterError(pass[s], "storage") \in Passes
    BY <1>0, ErrorPass DEF Errors
  <2>2. QED BY <1>8, <1>n, <2>1, TypePass DEF UpsertConflict
<1>9. ASSUME NEW s \in Sources, Skip(s) PROVE CrawlTypeOK'
  BY <1>9, <1>0, <1>n, AdvancedPass, TypePass DEF Skip
<1>10. ASSUME NEW s \in Sources, RecordVersion(s) PROVE CrawlTypeOK'
  <2>1. Item(s).id \in Datasets /\ Checksum(Item(s).content) \in Checksums
    BY <1>10, ItemEntry DEF RecordVersion
  <2>2. versions' \in [Sources -> [Datasets -> SUBSET Checksums]]
    BY <1>10, <2>1 DEF RecordVersion, CrawlTypeOK
  <2>4. [pass[s] EXCEPT !.pos = pass[s].pos + 1,
                        !.pc = AfterItem(pass[s], pass[s].pos + 1)] \in Passes
    BY <1>0, AdvancedPass
  <2>5. pass' \in [Sources -> Passes]
    BY <1>10, <2>4, <1>0 DEF RecordVersion, CrawlTypeOK
  <2>6. QED BY <1>10, <2>2, <2>5 DEF RecordVersion, CrawlTypeOK, Passes
<1>11. ASSUME NEW s \in Sources, PutState(s) PROVE CrawlTypeOK'
  <2>1. etag' \in [Sources -> Nat \cup {NULL}]
    BY <1>11, <1>0 DEF PutState, CrawlTypeOK, Passes
  <2>2. pass' \in [Sources -> Passes]
    BY <1>11, <1>1, <1>0 DEF PutState, CrawlTypeOK
  <2>3. QED BY <1>11, <2>1, <2>2 DEF PutState, CrawlTypeOK, Passes
<1>12. ASSUME NEW s \in Sources, TouchState(s) PROVE CrawlTypeOK'
  <2>1. etag' \in [Sources -> Nat \cup {NULL}]
    BY <1>12, <1>0 DEF TouchState, CrawlTypeOK, Passes
  <2>2. pass' \in [Sources -> Passes]
    BY <1>12, <1>1, <1>0 DEF TouchState, CrawlTypeOK
  <2>3. QED BY <1>12, <2>1, <2>2 DEF TouchState, CrawlTypeOK, Passes
<1>13. ASSUME NEW s \in Sources, Retry(s) PROVE CrawlTypeOK'
  <2>0. pass[s].attempt + 1 \in Nat
    BY <1>0 DEF Passes
  <2>1. [Idle EXCEPT !.pc = "state", !.attempt = pass[s].attempt + 1] \in Passes
    BY <2>0, FreshPass
  <2>2. QED BY <1>13, <1>n, <2>1, TypePass DEF Retry
<1>14. ASSUME NEW s \in Sources, Bury(s) PROVE CrawlTypeOK'
  <2>1. pass[s].error \in Errors /\ pass[s].attempt \in Nat
    BY <1>14, <1>0 DEF Bury, SourceOK, ItemOK, Passes
  <2>2. DlqKind(pass[s].error) \in {"transport", "bad_status", "decode", "config"}
    BY DEF DlqKind
  <2>3. dlq' \subseteq [source : Sources, attempts : Nat, error : Errors,
                       error_kind : {"transport", "bad_status", "decode", "config"}]
    BY <1>14, <2>1, <2>2 DEF Bury, CrawlTypeOK
  <2>4. pass' \in [Sources -> Passes]
    BY <1>14, <1>1, <1>0 DEF Bury, CrawlTypeOK
  <2>5. QED BY <1>14, <2>3, <2>4 DEF Bury, CrawlTypeOK, Passes
<1>15. ASSUME NEW s \in Sources, FetchFails(s) PROVE CrawlTypeOK'
  <2>1. PICK error \in Failures :
           pass' = [pass EXCEPT ![s] = AfterError(pass[s], error)]
    BY <1>15 DEF FetchFails
  <2>2. AfterError(pass[s], error) \in Passes
    BY <1>0, ErrorPass DEF Errors
  <2>3. QED BY <1>15, <1>f, <2>1, <2>2, TypePass DEF FetchFails
<1>16. ASSUME NEW s \in Sources, StatementFails(s) PROVE CrawlTypeOK'
  <2>1. AfterError(pass[s], "storage") \in Passes
    BY <1>0, ErrorPass DEF Errors
  <2>2. QED BY <1>16, <1>f, <2>1, TypePass DEF StatementFails
<1>17. ASSUME NEW s \in Sources, BuryFails(s) PROVE CrawlTypeOK'
  BY <1>17, <1>f, <1>1, TypePass DEF BuryFails
<1>18. ASSUME Crash PROVE CrawlTypeOK'
  <2>1. pass' \in [Sources -> Passes]
    BY <1>18, <1>1 DEF Crash
  <2>2. QED BY <1>18, <1>f, <2>1 DEF Crash, CrawlTypeOK, Passes
<1>19. QED
  BY <1>2, <1>3, <1>4, <1>5, <1>6, <1>7, <1>8, <1>9, <1>10, <1>11, <1>12, <1>13,
     <1>14, <1>15, <1>16, <1>17, <1>18 DEF CrawlNext, PassStep

-----------------------------------------------------------------------------
(* The steps of one source. *)

(* A new catalogue has a number no cue has. *)
LEMMA PublishKeeps ==
    ASSUME IInv, NEW s \in Sources, Publish(s)
    PROVE  SourceOK(s)'
<1>1. PICK cat : published' = [published EXCEPT ![s] = Append(published[s], cat)]
  BY DEF Publish
<1>2. SourceOK(s) /\ Current(s) \in Nat \ {0} /\ published[s] \in Seq(UNION {Catalogues[t] : t \in Sources})
  BY Published DEF IInv, CrawlTypeOK
<1>3. /\ Current(s)' = Current(s) + 1
      /\ \A n \in 1 .. Current(s) : Catalogue(s, n)' = Catalogue(s, n)
  <2>1. published'[s] = Append(published[s], cat)
    BY <1>1 DEF IInv, CrawlTypeOK
  <2>2. QED BY <1>2, <2>1 DEF Current, Catalogue
<1>4. UNCHANGED <<row, versions, etag, pass>>
  BY DEF Publish
<1>5. etag[s] \in Nat \cup {NULL} /\ pass[s] \in Passes
  BY DEF IInv, CrawlTypeOK, Passes
<1>6. CuesOK(s)'
  BY <1>2, <1>3, <1>4, <1>5 DEF SourceOK, CuesOK, Passes
<1>7. etag'[s] # Current(s)' /\ pass'[s].fresh # Current(s)'
  BY <1>2, <1>3, <1>4, <1>5, CrawlAssumption DEF SourceOK, CuesOK, Passes
<1>8. ItemOK(s)'
  <2>1. Walking(pass[s]) => pass[s].seen \in 1 .. Current(s)'
    BY <1>2, <1>3 DEF SourceOK, ItemOK
  <2>2. pass[s].pc \in {"store", "record"} =>
           pass[s].last <= Len(Catalogue(s, pass[s].seen))'
    <3>1. pass[s].pc \in {"store", "record"} => pass[s].seen \in 1 .. Current(s)
      BY <1>2 DEF SourceOK, ItemOK, Walking
    <3>2. QED BY <1>2, <1>3, <1>4, <3>1 DEF SourceOK, ItemOK, Catalogue
  <2>3. QED BY <1>2, <1>4, <1>7, <2>1, <2>2 DEF SourceOK, ItemOK, Walking, Catalogue
<1>9. Complete(s)'
  BY <1>7 DEF Complete
<1>10. Safe(s)'
  BY <1>7 DEF Safe
<1>11. QED BY <1>6, <1>8, <1>9, <1>10 DEF SourceOK

(* The cues sent are the stored ones. *)
LEMMA LoadKeeps ==
    ASSUME IInv, NEW s \in Sources, LoadState(s)
    PROVE  SourceOK(s)'
<1>1. SourceOK(s) /\ pass[s] \in Passes
  BY DEF IInv, CrawlTypeOK, Passes
<1>2. /\ pass'[s] = [pass[s] EXCEPT !.pc = "list", !.cues = etag[s]]
      /\ UNCHANGED <<published, row, versions, etag>>
  BY DEF LoadState, IInv, CrawlTypeOK
<1>a. pass[s].first /\ pass[s].last = 0
  BY <1>1 DEF LoadState, SourceOK, ItemOK
<1>b. /\ pass'[s].pc = "list" /\ pass'[s].cues = etag[s]
      /\ pass'[s].fresh = pass[s].fresh /\ pass'[s].first = pass[s].first
      /\ pass'[s].last = pass[s].last
  BY <1>1, <1>2 DEF Passes
<1>3. /\ pass'[s].pc = "list" /\ pass'[s].cues = etag[s]
      /\ pass'[s].fresh = pass[s].fresh /\ pass'[s].first /\ pass'[s].last = 0
  BY <1>a, <1>b
<1>4. CuesOK(s)'
  BY <1>1, <1>2, <1>3 DEF SourceOK, CuesOK, Current
<1>5. ItemOK(s)' /\ Complete(s)'
  BY <1>3 DEF ItemOK, Complete, Walking
<1>6. Safe(s)'
  BY <1>1, <1>2 DEF SourceOK, Safe, Mirrored, EntryStored, Current, Catalogue
<1>7. QED BY <1>4, <1>5, <1>6 DEF SourceOK

(* The cues sent, which a 304 writes back, are the stored ones. *)
LEMMA NotModifiedKeeps ==
    ASSUME IInv, NEW s \in Sources, NotModified(s)
    PROVE  SourceOK(s)'
<1>1. SourceOK(s) /\ pass[s] \in Passes
  BY DEF IInv, CrawlTypeOK, Passes
<1>2. /\ pass'[s] = [pass[s] EXCEPT !.pc = "touch"]
      /\ UNCHANGED <<published, row, versions, etag>>
  BY DEF NotModified, IInv, CrawlTypeOK
<1>3. /\ pass'[s].pc = "touch" /\ pass'[s].cues = pass[s].cues
      /\ pass'[s].fresh = pass[s].fresh /\ pass[s].cues = etag[s]
  BY <1>1, <1>2 DEF NotModified, Matches, SourceOK, CuesOK, Passes
<1>4. CuesOK(s)'
  BY <1>1, <1>2, <1>3 DEF SourceOK, CuesOK, Current
<1>5. ItemOK(s)' /\ Complete(s)'
  BY <1>3 DEF ItemOK, Complete, Walking
<1>6. Safe(s)'
  BY <1>1, <1>2 DEF SourceOK, Safe, Mirrored, EntryStored, Current, Catalogue
<1>7. QED BY <1>4, <1>5, <1>6 DEF SourceOK

(* The page is cut from the current catalogue at the offset where the previous
   page ended. *)
LEMMA FetchKeeps ==
    ASSUME IInv, NEW s \in Sources, FetchPage(s)
    PROVE  SourceOK(s)'
<1> DEFINE p == pass[s]
           all == Len(Catalogue(s, Current(s)))
           end == PageEnd(s, p.last)
           more == p.last < end /\ end < all
           fresh == KeptCue(s, p)
           seen == Current(s)
           pos == p.last + 1
           q == [p EXCEPT !.cues = NULL, !.fresh = fresh, !.first = FALSE,
                          !.seen = seen, !.pos = pos, !.last = end, !.more = more]
           pc == AfterItem(q, q.pos)
           r == pass'[s]
<1>1. SourceOK(s) /\ p \in Passes /\ all \in Nat /\ seen \in Nat \ {0}
  <2>1. CrawlTypeOK
    BY DEF IInv
  <2>2. seen \in Nat \ {0} /\ seen \in 1 .. seen
    BY <2>1, Published
  <2>3. all \in Nat
    BY <2>1, <2>2, Published
  <2>4. QED BY <2>2, <2>3 DEF IInv, CrawlTypeOK, Passes
<1>2. /\ r = [q EXCEPT !.pc = pc]
      /\ UNCHANGED <<published, row, versions, etag>>
      /\ p.pc = "list"
      /\ ~ Matches(s, p)
  BY DEF FetchPage, IInv, CrawlTypeOK
<1>3. /\ end \in Nat /\ end <= all /\ pos \in Nat \ {0}
      /\ ~ more => end = all
      /\ p.last \in Nat
  <2>1. p.last \in Nat
    BY <1>1 DEF Passes
  <2>2. PageSize \in Nat \ {0}
    BY CrawlAssumption
  <2>3. end = all \/ (end = p.last + PageSize /\ p.last + PageSize < all)
    BY DEF PageEnd
  <2> HIDE DEF all, end
  <2>4. QED BY <1>1, <2>1, <2>2, <2>3
<1>4. /\ p.first => fresh = FreshCue(s)
      /\ ~ p.first => fresh = p.fresh
      /\ fresh # NULL => s \in Conditional /\ fresh <= seen
  BY <1>1 DEF KeptCue, FreshCue, SourceOK, CuesOK
<1>5. fresh \in Nat \cup {NULL} /\ more \in BOOLEAN
  BY <1>1, <1>4 DEF FreshCue, Passes, KeptCue
<1>6. etag[s] # seen
  <2>1. CASE p.first
    <3>1. p.cues = etag[s]
      BY <1>1, <1>2, <2>1 DEF SourceOK, CuesOK
    <3>2. ~ (etag[s] # NULL /\ SameETag(s, etag[s], seen))
      BY <1>2, <2>1, <3>1 DEF Matches
    <3>3. etag[s] = seen => SameETag(s, etag[s], seen)
      BY DEF SameETag
    <3>4. seen # NULL
      BY <1>1, CrawlAssumption
    <3>5. QED BY <3>2, <3>3, <3>4
  <2>2. CASE ~ p.first
    BY <1>1, <1>2, <2>2 DEF SourceOK, ItemOK, Walking
  <2>3. QED BY <2>1, <2>2
<1>7. /\ q.pos = pos /\ q.last = end /\ q.more = more /\ q.seen = seen
      /\ q.fresh = fresh /\ q.first = FALSE /\ q \in Passes
  <2> HIDE DEF end, more, pos, fresh, seen
  <2>1. seen \in Nat /\ pos \in Nat
    BY <1>1, <1>3 DEF seen
  <2>2. QED BY <1>1, <1>3, <1>5, <2>1 DEF Passes
<1>8. pc = IF pos <= end THEN "store" ELSE IF more THEN "list" ELSE "put"
  BY <1>7 DEF AfterItem
<1>9. /\ r.pos = pos /\ r.last = end /\ r.more = more /\ r.seen = seen
      /\ r.fresh = fresh /\ r.first = FALSE /\ r.pc = pc
  <2> HIDE DEF q, pc, end, more, pos, fresh, seen
  <2>1. QED BY <1>2, <1>7 DEF Passes
<1>10. /\ pc \in {"store", "put"}
       /\ pc = "store" => pos <= end
       /\ pc = "put" => ~ (pos <= end) /\ ~ more
  BY <1>3, <1>8
<1>11. CuesOK(s)'
  <2> HIDE DEF q, pc, end, more, pos, fresh
  <2>1. QED BY <1>1, <1>2, <1>4, <1>9, <1>10 DEF SourceOK, CuesOK, Current
<1>12. ItemOK(s)'
  <2> HIDE DEF q, pc, end, more, pos, fresh, r
  <2>1. Current(s)' = seen /\ Len(published'[s][r.seen]) = all
    BY <1>2, <1>9 DEF Current, Catalogue
  <2>2. QED BY <1>1, <1>2, <1>3, <1>6, <1>9, <1>10, <2>1 DEF ItemOK, Walking, r, Catalogue, Current
<1>13. Complete(s)'
  <2> SUFFICES ASSUME fresh = seen
               PROVE  Complete(s)'
    BY <1>2, <1>9 DEF Complete, Current
  <2>1. p.first => p.last = 0
    BY <1>1, <1>2 DEF SourceOK, ItemOK
  <2>2. ~ p.first => /\ p.last <= all
                     /\ p.pos = pos
                     /\ \A i \in 1 .. all : i < p.pos => EntryStored(s, Catalogue(s, seen)[i])
    BY <1>1, <1>2, <1>4 DEF SourceOK, Complete, Walking
  <2>3. \A i \in 1 .. all : i < pos => EntryStored(s, Catalogue(s, seen)[i])
    BY <1>3, <2>1, <2>2
  <2>4. pc = "put" => pos = end + 1
    BY <1>3, <1>10, <2>1, <2>2
  <2>5. \A i \in 1 .. all : EntryStored(s, Catalogue(s, seen)[i])' = EntryStored(s, Catalogue(s, seen)[i])
    BY <1>2 DEF EntryStored, Catalogue, Current
  <2>6. Current(s)' = seen /\ Catalogue(s, Current(s))' = Catalogue(s, Current(s))
    BY <1>2 DEF Current, Catalogue
  <2> HIDE DEF q, pc, end, more, pos, fresh, r
  <2>7. QED BY <1>2, <1>3, <1>9, <1>10, <2>3, <2>4, <2>5, <2>6 DEF Complete, r, Walking
<1>14. Safe(s)'
  BY <1>2, <1>6 DEF Safe, Current
<1>15. QED BY <1>11, <1>12, <1>13, <1>14 DEF SourceOK

(* An upsert writes the row of the item, which no other entry names. *)
LEMMA UpsertKeeps ==
    ASSUME IInv, NEW s \in Sources, Upsert(s)
    PROVE  SourceOK(s)'
<1> DEFINE p == pass[s]
           it == Item(s)
           cat == Catalogue(s, Current(s))
<1>1. SourceOK(s) /\ p \in Passes /\ p.pc = "store" /\ ~ p.first
  BY DEF IInv, CrawlTypeOK, Passes, Upsert, SourceOK, ItemOK
<1>2. /\ pass'[s] = [p EXCEPT !.pc = "record"]
      /\ UNCHANGED <<published, versions, etag>>
  BY DEF Upsert, IInv, CrawlTypeOK
<1>3. it.id \in Datasets /\ p.pos \in 1 .. Len(Catalogue(s, p.seen))
  BY <1>1, ItemEntry
<1>4. /\ row'[s][it.id] = it.content
      /\ \A d \in Datasets : d # it.id => row'[s][d] = row[s][d]
  <2>1. row[s] \in [Datasets -> Contents \cup {NULL}] /\ row \in [Sources -> [Datasets -> Contents \cup {NULL}]]
    BY DEF IInv, CrawlTypeOK
  <2>2. row'[s] = [row[s] EXCEPT ![it.id] = it.content]
    BY <2>1 DEF Upsert
  <2>3. QED BY <1>3, <2>1, <2>2
<1>5. /\ pass'[s].pc = "record" /\ pass'[s].first = p.first /\ pass'[s].pos = p.pos
      /\ pass'[s].last = p.last /\ pass'[s].more = p.more
      /\ pass'[s].seen = p.seen /\ pass'[s].fresh = p.fresh
  BY <1>1, <1>2 DEF Passes
<1>6. Item(s)' = it /\ Catalogue(s, Current(s))' = cat /\ Current(s)' = Current(s)
  BY <1>2, <1>5 DEF Item, Catalogue, Current
<1>7. CuesOK(s)'
  BY <1>1, <1>2, <1>5, <1>6 DEF SourceOK, CuesOK
<1>8. ItemOK(s)'
  BY <1>1, <1>2, <1>5, <1>6 DEF SourceOK, ItemOK, Walking, Catalogue
<1>9. Complete(s)'
  <2> SUFFICES ASSUME p.fresh = Current(s)
               PROVE  Complete(s)'
    BY <1>5, <1>6 DEF Complete
  <2>1. /\ p.seen = Current(s) /\ p.last <= Len(cat) /\ (~ p.more => p.last = Len(cat))
        /\ \A i \in 1 .. Len(cat) : i < p.pos => EntryStored(s, cat[i])
    BY <1>1 DEF SourceOK, Complete, Walking
  <2>2. /\ Injective(cat) /\ Len(cat) \in Nat /\ cat \in Seq(Entries)
    <3>1. Current(s) \in 1 .. Current(s)
      BY Published DEF IInv
    <3>2. QED BY <3>1, Published DEF IInv
  <2>3. ASSUME NEW i \in 1 .. Len(cat), i < p.pos
        PROVE  EntryStored(s, cat[i])'
    <3>1. cat[i].id # it.id /\ cat[i].id \in Datasets
      <4>1. p.pos \in 1 .. Len(cat) /\ it = cat[p.pos]
        BY <1>3, <2>1 DEF Item
      <4>2. cat[i] \in Entries
        BY <2>2
      <4>3. i # p.pos
        BY <2>3, <4>1
      <4>4. QED BY <2>2, <2>3, <4>1, <4>2, <4>3 DEF Injective, Entries
    <3>2. row'[s][cat[i].id] = row[s][cat[i].id] /\ versions' = versions
      BY <1>2, <1>4, <3>1
    <3>3. EntryStored(s, cat[i])
      BY <2>1, <2>3
    <3>4. QED BY <1>6, <3>2, <3>3 DEF EntryStored, Catalogue, Current
  <2>4. QED BY <1>4, <1>5, <1>6, <2>1, <2>3 DEF Complete, Walking
<1>10. Safe(s)'
  <2>1. etag[s] # Current(s)
    BY <1>1 DEF SourceOK, ItemOK, Walking
  <2>2. QED BY <1>2, <1>6, <2>1 DEF Safe
<1>11. QED BY <1>7, <1>8, <1>9, <1>10 DEF SourceOK

(* Moving on to the next item, once the one at hand is as stored as it will be:
   the versions may have grown. *)
LEMMA AdvanceKeeps ==
    ASSUME IInv, NEW s \in Sources, pass[s].pc \in {"store", "record"},
           published' = published, row' = row, etag' = etag,
           \A d \in Datasets : versions[s][d] \subseteq versions'[s][d],
           pass'[s] = [pass[s] EXCEPT !.pos = pass[s].pos + 1,
                                      !.pc = AfterItem(pass[s], pass[s].pos + 1)],
           pass[s].fresh = Current(s) /\ Resolution(Item(s).content) = "mapped" =>
              /\ row[s][Item(s).id] = Item(s).content
              /\ Checksum(Item(s).content) \in versions'[s][Item(s).id]
    PROVE  SourceOK(s)'
<1> DEFINE p == pass[s]
           pos == p.pos + 1
           pc == AfterItem(p, pos)
           cat == Catalogue(s, Current(s))
<1>1. SourceOK(s) /\ p \in Passes /\ ~ p.first
  BY DEF IInv, CrawlTypeOK, Passes, SourceOK, ItemOK
<1>2. /\ pass'[s].first = p.first /\ pass'[s].pos = pos /\ pass'[s].pc = pc
      /\ pass'[s].last = p.last /\ pass'[s].more = p.more
      /\ pass'[s].seen = p.seen /\ pass'[s].fresh = p.fresh
  <2> HIDE DEF pos, pc
  <2>1. pass'[s] = [p EXCEPT !.pos = pos, !.pc = pc]
    BY DEF pos, pc
  <2>2. QED BY <1>1, <2>1 DEF Passes
<1>3. /\ p.pos \in 1 .. Len(Catalogue(s, p.seen)) /\ p.pos \in Nat /\ p.last \in Nat
      /\ pos \in Nat \ {0} /\ p.pos <= p.last /\ p.seen \in 1 .. Current(s)
      /\ p.last <= Len(Catalogue(s, p.seen)) /\ etag[s] # Current(s)
  BY <1>1, ItemEntry DEF SourceOK, ItemOK, Walking, Passes
<1>4. /\ pc = "store" => pos <= p.last
      /\ pc = "list" => pos = p.last + 1 /\ p.more
      /\ pc = "put" => pos = p.last + 1 /\ ~ p.more
      /\ pc \in {"store", "list", "put"}
  BY <1>3 DEF AfterItem
<1>5. Catalogue(s, Current(s))' = cat /\ Current(s)' = Current(s)
  BY DEF Catalogue, Current
<1>6. CuesOK(s)'
  <2> HIDE DEF pos, pc
  <2>1. QED BY <1>1, <1>2, <1>4, <1>5 DEF SourceOK, CuesOK
<1>7. ItemOK(s)'
  <2> HIDE DEF pos, pc
  <2>1. QED BY <1>1, <1>2, <1>3, <1>4, <1>5 DEF ItemOK, Walking, Catalogue
<1>8. Complete(s)'
  <2> SUFFICES ASSUME p.fresh = Current(s)
               PROVE  Complete(s)'
    BY <1>2, <1>5 DEF Complete
  <2>1. /\ p.seen = Current(s) /\ p.last <= Len(cat) /\ (~ p.more => p.last = Len(cat))
        /\ \A i \in 1 .. Len(cat) : i < p.pos => EntryStored(s, cat[i])
    BY <1>1 DEF SourceOK, Complete, Walking
  <2>2. cat \in Seq(Entries) /\ Len(cat) \in Nat
    BY <1>3, <2>1, Published DEF IInv
  <2>3. ASSUME NEW i \in 1 .. Len(cat), i < pos
        PROVE  EntryStored(s, cat[i])'
    <3>1. CASE i = p.pos
      <4>1. Item(s) = cat[i]
        BY <2>1, <3>1 DEF Item
      <4>2. QED BY <4>1, <1>5, <2>1 DEF EntryStored, Catalogue, Current
    <3>2. CASE i < p.pos
      <4>0. cat[i] \in Entries
        BY <2>2
      <4>1. EntryStored(s, cat[i]) /\ cat[i].id \in Datasets
        BY <2>1, <3>2, <4>0 DEF Entries
      <4>2. QED BY <1>5, <4>1 DEF EntryStored, Catalogue, Current
    <3>3. QED BY <1>3, <2>3, <3>1, <3>2
  <2> HIDE DEF pos, pc
  <2>4. QED BY <1>2, <1>4, <1>5, <2>1, <2>3 DEF Complete, Walking
<1>9. Safe(s)'
  BY <1>3, <1>5 DEF Safe
<1>10. QED BY <1>6, <1>7, <1>8, <1>9 DEF SourceOK

(* Skipping a dataset stores nothing. *)
LEMMA SkipKeeps ==
    ASSUME IInv, NEW s \in Sources, Skip(s)
    PROVE  SourceOK(s)'
<1>1. pass'[s] = [pass[s] EXCEPT !.pos = pass[s].pos + 1,
                                 !.pc = AfterItem(pass[s], pass[s].pos + 1)]
  BY DEF Skip, IInv, CrawlTypeOK
<1>2. QED BY <1>1, AdvanceKeeps DEF Skip

(* Recording the version completes what the upsert began. *)
LEMMA RecordKeeps ==
    ASSUME IInv, NEW s \in Sources, RecordVersion(s)
    PROVE  SourceOK(s)'
<1> DEFINE it == Item(s)
<1>1. pass'[s] = [pass[s] EXCEPT !.pos = pass[s].pos + 1,
                                 !.pc = AfterItem(pass[s], pass[s].pos + 1)]
  BY DEF RecordVersion, IInv, CrawlTypeOK
<1>2. it.id \in Datasets
  BY ItemEntry DEF RecordVersion
<1>3. versions \in [Sources -> [Datasets -> SUBSET Checksums]]
  BY DEF IInv, CrawlTypeOK
<1>4. versions'[s] = [versions[s] EXCEPT ![it.id] = versions[s][it.id] \cup {Checksum(it.content)}]
  BY <1>3 DEF RecordVersion
<1>5. /\ Checksum(it.content) \in versions'[s][it.id]
      /\ \A d \in Datasets : versions[s][d] \subseteq versions'[s][d]
  BY <1>2, <1>3, <1>4
<1>6. pass[s].fresh = Current(s) => row[s][it.id] = it.content
  BY DEF RecordVersion, IInv, SourceOK, Complete, ItemOK, Walking
<1>7. QED BY <1>1, <1>5, <1>6, AdvanceKeeps DEF RecordVersion

(* The first page's cues are stored after the last item. *)
LEMMA PutKeeps ==
    ASSUME IInv, NEW s \in Sources, PutState(s)
    PROVE  SourceOK(s)'
<1>1. SourceOK(s) /\ ~ pass[s].first
  BY DEF IInv, PutState, SourceOK, ItemOK
<1>2. /\ pass'[s] = Idle /\ etag'[s] = pass[s].fresh
      /\ UNCHANGED <<published, row, versions>>
  BY DEF PutState, IInv, CrawlTypeOK
<1>3. Catalogue(s, Current(s))' = Catalogue(s, Current(s)) /\ Current(s)' = Current(s)
  BY <1>2 DEF Catalogue, Current
<1>4. CuesOK(s)'
  BY <1>1, <1>2, <1>3 DEF SourceOK, CuesOK, Idle
<1>5. ItemOK(s)' /\ Complete(s)'
  BY <1>2 DEF ItemOK, Complete, Walking, Idle
<1>6. ASSUME pass[s].fresh = Current(s)
      PROVE  Mirrored(s)
  <2> DEFINE cat == Catalogue(s, Current(s))
  <2>1. /\ pass[s].pos = pass[s].last + 1 /\ pass[s].last = Len(cat)
        /\ \A i \in 1 .. Len(cat) : i < pass[s].pos => EntryStored(s, cat[i])
    BY <1>1, <1>6 DEF PutState, SourceOK, Complete, Walking
  <2>2. Len(cat) \in Nat
    <3>1. Current(s) \in 1 .. Current(s)
      BY Published DEF IInv
    <3>2. QED BY <3>1, Published DEF IInv
  <2>3. QED BY <2>1, <2>2 DEF Mirrored
<1>7. Safe(s)'
  BY <1>2, <1>3, <1>6 DEF Safe, Mirrored, EntryStored
<1>8. QED BY <1>4, <1>5, <1>7 DEF SourceOK

(* A 304 writes back what is stored. *)
LEMMA TouchKeeps ==
    ASSUME IInv, NEW s \in Sources, TouchState(s)
    PROVE  SourceOK(s)'
<1>1. SourceOK(s)
  BY DEF IInv
<1>2. /\ pass'[s] = Idle /\ etag'[s] = etag[s]
      /\ UNCHANGED <<published, row, versions>>
  BY <1>1 DEF TouchState, IInv, CrawlTypeOK, SourceOK, CuesOK
<1>3. Catalogue(s, Current(s))' = Catalogue(s, Current(s)) /\ Current(s)' = Current(s)
  BY <1>2 DEF Catalogue, Current
<1>4. CuesOK(s)'
  BY <1>1, <1>2, <1>3 DEF SourceOK, CuesOK, Idle
<1>5. ItemOK(s)' /\ Complete(s)'
  BY <1>2 DEF ItemOK, Complete, Walking, Idle
<1>6. Safe(s)'
  BY <1>1, <1>2, <1>3 DEF SourceOK, Safe, Mirrored, EntryStored
<1>7. QED BY <1>4, <1>5, <1>6 DEF SourceOK

-----------------------------------------------------------------------------
(* Any step keeps what is known of every source. *)
LEMMA SourceStep ==
    ASSUME IInv, CrawlNext, NEW t \in Sources
    PROVE  SourceOK(t)'
<1> USE DEF IInv
<1>0. \A s \in Sources : pass[s] \in Passes
  BY DEF CrawlTypeOK, Passes
<1>i. Idle.first /\ Idle.fresh = NULL /\ Idle.pc = "idle" /\ Idle.last = 0
  BY DEF Idle
<1>t. SourceOK(t)
  OBVIOUS
<1>1. ASSUME NEW s \in Sources, Publish(s) PROVE SourceOK(t)'
  <2>1. CASE t = s
    BY <1>1, <2>1, PublishKeeps
  <2>2. CASE t # s
    BY <1>1, <1>t, <2>2, Frame DEF Publish, CrawlTypeOK
  <2>3. QED BY <2>1, <2>2
<1>2. ASSUME NEW s \in Sources, PassStep(s) \/ FetchFails(s) \/ StatementFails(s) \/ BuryFails(s),
             t # s
      PROVE SourceOK(t)'
  <2>1. /\ published'[t] = published[t] /\ row'[t] = row[t] /\ versions'[t] = versions[t]
        /\ etag'[t] = etag[t] /\ pass'[t] = pass[t]
    BY <1>2 DEF PassStep, StartPass, LoadState, NotModified, FetchPage, Upsert,
       UpsertConflict, Skip, RecordVersion, PutState, TouchState, Retry, Bury,
       FetchFails, StatementFails, BuryFails, CrawlTypeOK
  <2>2. QED BY <1>t, <2>1, Frame
<1>3. ASSUME StartPass(t) PROVE SourceOK(t)'
  <2>1. pass'[t] = [Idle EXCEPT !.pc = "state", !.attempt = 1]
    BY <1>3 DEF StartPass, CrawlTypeOK
  <2>2. pass'[t].first /\ pass'[t].fresh = NULL /\ pass'[t].last = 0 /\ pass'[t].pc = "state"
    BY <2>1 DEF Idle
  <2>3. UNCHANGED <<published, row, versions, etag>>
    BY <1>3 DEF StartPass
  <2>4. QED BY <1>t, <2>2, <2>3, OffTheWalk
<1>4. ASSUME Retry(t) PROVE SourceOK(t)'
  <2>1. pass'[t] = [Idle EXCEPT !.pc = "state", !.attempt = pass[t].attempt + 1]
    BY <1>4 DEF Retry, CrawlTypeOK
  <2>2. pass'[t].first /\ pass'[t].fresh = NULL /\ pass'[t].last = 0 /\ pass'[t].pc = "state"
    BY <2>1 DEF Idle
  <2>3. UNCHANGED <<published, row, versions, etag>>
    BY <1>4 DEF Retry
  <2>4. QED BY <1>t, <2>2, <2>3, OffTheWalk
<1>5. ASSUME UpsertConflict(t) \/ FetchFails(t) \/ StatementFails(t) PROVE SourceOK(t)'
  <2>1. PICK error \in Errors : pass'[t] = AfterError(pass[t], error)
    BY <1>5 DEF UpsertConflict, FetchFails, StatementFails, CrawlTypeOK, Errors
  <2>2. QED BY <1>5, <1>t, <1>0, <2>1, ErrorPass, OffTheWalk
        DEF UpsertConflict, FetchFails, StatementFails
<1>6. ASSUME Bury(t) \/ BuryFails(t) PROVE SourceOK(t)'
  <2>1. pass'[t] = Idle
    BY <1>6 DEF Bury, BuryFails, CrawlTypeOK
  <2>2. QED BY <1>6, <1>t, <1>i, <2>1, OffTheWalk DEF Bury, BuryFails
<1>7. ASSUME Crash PROVE SourceOK(t)'
  <2>1. pass'[t] = Idle
    BY <1>7 DEF Crash
  <2>2. QED BY <1>7, <1>t, <1>i, <2>1, OffTheWalk DEF Crash
<1>8. QED
  BY <1>1, <1>2, <1>3, <1>4, <1>5, <1>6, <1>7, LoadKeeps, NotModifiedKeeps, FetchKeeps,
     UpsertKeeps, SkipKeeps, RecordKeeps, PutKeeps, TouchKeeps DEF CrawlNext, PassStep

LEMMA InitHolds ==
    ASSUME CrawlInit
    PROVE  IInv
<1> DEFINE Known == UNION {Catalogues[t] : t \in Sources}
<1>1. ASSUME NEW s \in Sources
      PROVE  /\ published[s] \in Seq(Known)
             /\ Len(published[s]) = 1
             /\ published[s][1] \in Catalogues[s]
  <2>1. published[s] \in UNION {{<<cat>> : cat \in Catalogues[t]} : t \in Sources}
    BY DEF CrawlInit
  <2>2. PICK t \in Sources : published[s] \in {<<cat>> : cat \in Catalogues[t]}
    BY <2>1
  <2>3. PICK cat \in Catalogues[t] : published[s] = <<cat>>
    BY <2>2
  <2>4. cat \in Known
    BY <2>3
  <2> HIDE DEF Known
  <2>5. <<cat>> \in Seq(Known) /\ Len(<<cat>>) = 1
    BY <2>4
  <2>6. published[s][1] \in Catalogues[s]
    BY DEF CrawlInit
  <2>7. QED BY <2>3, <2>5, <2>6
<1> HIDE DEF Known
<1>2. /\ published \in [Sources -> Seq(Known)]
      /\ \A s \in Sources : Len(published[s]) > 0
      /\ \A s \in Sources : \A n \in 1 .. Len(published[s]) : published[s][n] \in Catalogues[s]
  <2>1. published = [s \in Sources |-> published[s]]
    BY DEF CrawlInit
  <2>2. published \in [Sources -> Seq(Known)]
    BY <1>1, <2>1
  <2>3. QED BY <1>1, <2>2
<1> USE DEF Known
<1>3. Idle \in Passes
  BY DEF Idle, Passes, PassSteps
<1>4. CrawlTypeOK
  BY <1>2, <1>3 DEF CrawlInit, CrawlTypeOK, Passes
<1>5. ASSUME NEW s \in Sources PROVE SourceOK(s)
  <2>1. pass[s] = Idle /\ etag[s] = NULL /\ Current(s) \in Nat
    BY <1>4, Published DEF CrawlInit
  <2>2. QED BY <2>1, CrawlAssumption
        DEF SourceOK, CuesOK, ItemOK, Complete, Safe, Walking, Idle
<1>6. QED BY <1>4, <1>5 DEF IInv

(* IInv is an invariant. *)
THEOREM CrawlInvariance == CrawlSpec => []IInv
<1>1. CrawlInit => IInv
  BY InitHolds
<1>2. IInv /\ [CrawlNext]_vars => IInv'
  <2>1. ASSUME IInv, CrawlNext PROVE IInv'
    BY <2>1, TypeStep, SourceStep DEF IInv
  <2>2. ASSUME IInv, UNCHANGED vars PROVE IInv'
    <3>1. CrawlTypeOK'
      BY <2>2 DEF IInv, vars, CrawlTypeOK
    <3>2. ASSUME NEW s \in Sources PROVE SourceOK(s)'
      BY <2>2, Frame DEF IInv, vars
    <3>3. QED BY <3>1, <3>2 DEF IInv
  <2>3. QED BY <2>1, <2>2
<1>3. QED BY <1>1, <1>2, PTL DEF CrawlSpec

(* Tables, passes and dead letters keep their types (driver.rs, retry.rs). *)
THEOREM CrawlTypes == CrawlSpec => []CrawlTypeOK
<1>1. IInv => CrawlTypeOK
  BY DEF IInv
<1>2. QED BY <1>1, CrawlInvariance, PTL

(* The ETag never runs ahead of the rows: if upstream has published nothing
   since the first page that the stored ETag came with, everything in that
   catalogue that has a domain is stored, whatever crashed, failed or changed
   during the walk, so that the 304 of the next pass skips nothing
   (run_one_pass of driver.rs). *)
THEOREM HonestSkip == CrawlSpec => []SkipIsSafe
<1>1. IInv => SkipIsSafe
  BY DEF IInv, SourceOK, Safe, SkipIsSafe
<1>2. QED BY <1>1, CrawlInvariance, PTL

-----------------------------------------------------------------------------
(* Dead letters. *)

Letters == (\A s \in Sources : AttemptsOK(s)) /\ DlqExhausted

(* A failed attempt backs off or gives up as the budget says. *)
LEMMA GivingUp ==
    ASSUME CrawlTypeOK, NEW s \in Sources, NEW error \in Errors,
           AttemptsOK(s), pass[s].pc # "idle",
           pass'[s] = AfterError(pass[s], error)
    PROVE  AttemptsOK(s)'
<1> DEFINE n == pass[s].attempt
<1>0. n \in 1 .. Attempts /\ Attempts \in Nat
  BY CrawlAssumption DEF AttemptsOK, Attempts
<1>1. /\ AfterError(pass[s], error).attempt = n
      /\ AfterError(pass[s], error).pc \in {"backoff", "dead"}
      /\ AfterError(pass[s], error).pc = "backoff" => n < Attempts
      /\ AfterError(pass[s], error).pc = "dead" =>
            /\ AfterError(pass[s], error).error = error
            /\ Retriable(error) => ~ n < Attempts
  BY DEF AfterError, Idle
<1> HIDE DEF n
<1>2. /\ pass'[s].attempt = n
      /\ pass'[s].pc \in {"backoff", "dead"}
      /\ pass'[s].pc = "backoff" => n < Attempts
      /\ pass'[s].pc = "dead" /\ Retriable(pass'[s].error) => n = Attempts
  BY <1>0, <1>1
<1>3. Attempts' = Attempts
  BY DEF Attempts
<1>4. QED BY <1>0, <1>2, <1>3 DEF AttemptsOK, Retriable

(* A pass that is neither given up nor starts over keeps its attempt. *)
LEMMA SameAttempt ==
    ASSUME NEW s \in Sources, AttemptsOK(s), pass[s].pc # "idle",
           pass'[s].attempt = pass[s].attempt,
           pass'[s].pc \notin {"backoff", "dead"}
    PROVE  AttemptsOK(s)'
  BY DEF AttemptsOK, Attempts

(* No step of a source spoils its attempts. *)
LEMMA AttemptsStep ==
    ASSUME IInv, CrawlNext, NEW t \in Sources, AttemptsOK(t)
    PROVE  AttemptsOK(t)'
<1> USE DEF IInv
<1>0. pass[t] \in Passes /\ Attempts \in Nat \ {0} /\ Attempts' = Attempts
  BY CrawlAssumption DEF CrawlTypeOK, Passes, Attempts
<1>i. Idle.pc = "idle"
  BY DEF Idle
<1>1. CASE pass'[t] = pass[t]
  BY <1>1, <1>0 DEF AttemptsOK, Retriable
<1>2. CASE pass'[t] = Idle
  BY <1>2, <1>i DEF AttemptsOK
<1>3. CASE pass'[t] = [Idle EXCEPT !.pc = "state", !.attempt = 1]
  <2>1. pass'[t].pc = "state" /\ pass'[t].attempt = 1
    BY <1>3 DEF Idle
  <2>2. QED BY <2>1, <1>0 DEF AttemptsOK
<1>4. CASE Retry(t)
  <2>1. pass'[t] = [Idle EXCEPT !.pc = "state", !.attempt = pass[t].attempt + 1]
    BY <1>4 DEF Retry, CrawlTypeOK
  <2>2. pass'[t].pc = "state" /\ pass'[t].attempt = pass[t].attempt + 1
    BY <2>1 DEF Idle
  <2>3. pass[t].attempt \in 1 .. Attempts /\ pass[t].attempt < Attempts
    BY <1>4 DEF Retry, AttemptsOK
  <2>4. QED BY <2>2, <2>3, <1>0 DEF AttemptsOK
<1>5. CASE UpsertConflict(t) \/ FetchFails(t) \/ StatementFails(t)
  <2>1. PICK error \in Errors : pass'[t] = AfterError(pass[t], error)
    BY <1>5 DEF UpsertConflict, FetchFails, StatementFails, CrawlTypeOK, Errors
  <2>2. pass[t].pc # "idle"
    BY <1>5 DEF UpsertConflict, FetchFails, StatementFails
  <2>3. QED BY <2>1, <2>2, GivingUp
<1>6. CASE /\ pass[t].pc # "idle"
           /\ pass'[t].attempt = pass[t].attempt
           /\ pass'[t].pc \notin {"backoff", "dead"}
  BY <1>6, SameAttempt
<1>7. ASSUME LoadState(t) \/ NotModified(t) \/ Upsert(t)
      PROVE  /\ pass[t].pc # "idle"
             /\ pass'[t].attempt = pass[t].attempt
             /\ pass'[t].pc \notin {"backoff", "dead"}
  <2>1. pass[t] \in Passes
    BY <1>0
  <2>2. CASE LoadState(t)
    <3>1. pass'[t] = [pass[t] EXCEPT !.pc = "list", !.cues = etag[t]]
      BY <2>2 DEF LoadState, CrawlTypeOK
    <3>2. pass'[t].attempt = pass[t].attempt /\ pass'[t].pc = "list"
      BY <2>1, <3>1 DEF Passes
    <3>3. QED BY <2>2, <3>2 DEF LoadState
  <2>3. CASE NotModified(t)
    <3>1. pass'[t] = [pass[t] EXCEPT !.pc = "touch"]
      BY <2>3 DEF NotModified, CrawlTypeOK
    <3>2. pass'[t].attempt = pass[t].attempt /\ pass'[t].pc = "touch"
      BY <2>1, <3>1 DEF Passes
    <3>3. QED BY <2>3, <3>2 DEF NotModified
  <2>4. CASE Upsert(t)
    <3>1. pass'[t] = [pass[t] EXCEPT !.pc = "record"]
      BY <2>4 DEF Upsert, CrawlTypeOK
    <3>2. pass'[t].attempt = pass[t].attempt /\ pass'[t].pc = "record"
      BY <2>1, <3>1 DEF Passes
    <3>3. QED BY <2>4, <3>2 DEF Upsert
  <2>5. QED BY <1>7, <2>2, <2>3, <2>4
<1>8. ASSUME Skip(t) \/ RecordVersion(t)
      PROVE  /\ pass[t].pc # "idle"
             /\ pass'[t].attempt = pass[t].attempt
             /\ pass'[t].pc \notin {"backoff", "dead"}
  <2>1. pass'[t] = [pass[t] EXCEPT !.pos = pass[t].pos + 1,
                                   !.pc = AfterItem(pass[t], pass[t].pos + 1)]
    BY <1>8 DEF Skip, RecordVersion, CrawlTypeOK
  <2>2. AfterItem(pass[t], pass[t].pos + 1) \in {"store", "list", "put"}
    BY DEF AfterItem
  <2>3. pass[t].pc # "idle"
    BY <1>8 DEF Skip, RecordVersion
  <2>4. pass[t] \in Passes
    BY <1>0
  <2> DEFINE pc == AfterItem(pass[t], pass[t].pos + 1)
  <2>5. pc \in {"store", "list", "put"}
    BY <2>2
  <2> HIDE DEF IInv, pc
  <2>6. pass'[t].attempt = pass[t].attempt /\ pass'[t].pc = pc
    BY <2>1, <2>4 DEF Passes, pc
  <2>7. QED BY <2>3, <2>5, <2>6
<1>9. ASSUME FetchPage(t)
      PROVE  /\ pass[t].pc # "idle"
             /\ pass'[t].attempt = pass[t].attempt
             /\ pass'[t].pc \notin {"backoff", "dead"}
  <2>1. PICK q \in Passes : /\ pass'[t] = [q EXCEPT !.pc = AfterItem(q, q.pos)]
                            /\ q.attempt = pass[t].attempt
    <3> DEFINE end == PageEnd(t, pass[t].last)
               more == /\ pass[t].last < end
                       /\ end < Len(Catalogue(t, Current(t)))
               kept == KeptCue(t, pass[t])
               seen == Current(t)
               next == pass[t].last + 1
               q == [pass[t] EXCEPT !.cues = NULL, !.fresh = kept,
                                    !.first = FALSE, !.seen = seen,
                                    !.pos = next, !.last = end, !.more = more]
    <3>1. Current(t) \in Nat /\ Len(Catalogue(t, Current(t))) \in Nat
      BY Published
    <3>2. end \in Nat /\ more \in BOOLEAN
      BY <3>1, <1>0, CrawlAssumption DEF PageEnd, Passes
    <3>3. KeptCue(t, pass[t]) \in Nat \cup {NULL}
      BY <3>1, <1>0 DEF KeptCue, FreshCue, Passes
    <3>4. pass'[t] = [q EXCEPT !.pc = AfterItem(q, q.pos)]
      BY <1>9 DEF FetchPage, CrawlTypeOK
    <3>5. q \in Passes /\ q.attempt = pass[t].attempt
      <4>1. kept \in Nat \cup {NULL} /\ seen \in Nat /\ next \in Nat
        BY <3>1, <3>3, <1>0 DEF Passes
      <4>2. pass[t] \in Passes
        BY <1>0
      <4> HIDE DEF end, more, kept, seen, next, IInv
      <4>3. q \in Passes
        BY <3>2, <4>1, <4>2 DEF Passes
      <4>4. q.attempt = pass[t].attempt
        BY <4>2 DEF Passes
      <4>5. QED BY <4>3, <4>4
    <3> HIDE DEF q
    <3>6. QED BY <3>4, <3>5
  <2>2. AfterItem(q, q.pos) \in {"store", "list", "put"}
    BY DEF AfterItem
  <2>3. pass[t].pc # "idle"
    BY <1>9 DEF FetchPage
  <2> DEFINE pc == AfterItem(q, q.pos)
  <2>4. pc \in {"store", "list", "put"}
    BY <2>2
  <2> HIDE DEF IInv, pc
  <2>5. pass'[t].attempt = q.attempt /\ pass'[t].pc = pc
    BY <2>1 DEF Passes, pc
  <2>6. QED BY <2>1, <2>3, <2>4, <2>5
<1>10. ASSUME NEW s \in Sources, s # t,
              PassStep(s) \/ FetchFails(s) \/ StatementFails(s) \/ BuryFails(s)
       PROVE  pass'[t] = pass[t]
  BY <1>10 DEF PassStep, StartPass, LoadState, NotModified, FetchPage, Upsert,
     UpsertConflict, Skip, RecordVersion, PutState, TouchState, Retry, Bury,
     FetchFails, StatementFails, BuryFails, CrawlTypeOK
<1>11. ASSUME PutState(t) \/ TouchState(t) \/ Bury(t) \/ BuryFails(t) \/ Crash
       PROVE  pass'[t] = Idle
  BY <1>11 DEF PutState, TouchState, Bury, BuryFails, Crash, CrawlTypeOK
<1>12. ASSUME StartPass(t)
       PROVE  pass'[t] = [Idle EXCEPT !.pc = "state", !.attempt = 1]
  BY <1>12 DEF StartPass, CrawlTypeOK
<1>13. ASSUME NEW s \in Sources, Publish(s) PROVE pass'[t] = pass[t]
  BY <1>13 DEF Publish
<1>14. QED
  BY <1>1, <1>2, <1>3, <1>4, <1>5, <1>6, <1>7, <1>8, <1>9, <1>10, <1>11, <1>12, <1>13
     DEF CrawlNext, PassStep

(* A letter is written by a pass that used up its attempts. *)
LEMMA LetterStep ==
    ASSUME IInv, CrawlNext, Letters
    PROVE  DlqExhausted'
<1>0. Attempts' = Attempts
  BY DEF Attempts
<1>1. CASE dlq' = dlq
  BY <1>0, <1>1 DEF Letters, DlqExhausted, Retriable
<1>2. ASSUME NEW s \in Sources, Bury(s) PROVE DlqExhausted'
  <2>1. /\ pass[s].attempt \in 1 .. Attempts
        /\ Retriable(pass[s].error) => pass[s].attempt = Attempts
    BY <1>2 DEF Letters, AttemptsOK, Bury
  <2>2. QED BY <1>0, <1>2, <2>1 DEF Bury, Letters, DlqExhausted, Retriable
<1>3. QED
  BY <1>1, <1>2 DEF CrawlNext, PassStep, Publish, StartPass, LoadState, NotModified,
     FetchPage, Upsert, UpsertConflict, Skip, RecordVersion, PutState, TouchState,
     Retry, FetchFails, StatementFails, BuryFails, Crash

(* A pass is given up with a dead letter only when its error is not worth
   retrying or the attempts are used up, and never counts more attempts than
   the clamped budget (with_retry of retry.rs). *)
THEOREM DeadLetters == CrawlSpec => []DlqExhausted
<1>1. CrawlInit => Letters
  BY DEF CrawlInit, Letters, AttemptsOK, DlqExhausted, Idle
<1>2. IInv /\ Letters /\ [CrawlNext]_vars => Letters'
  <2>1. ASSUME IInv, Letters, CrawlNext PROVE Letters'
    BY <2>1, AttemptsStep, LetterStep DEF Letters
  <2>2. ASSUME Letters, UNCHANGED vars PROVE Letters'
    BY <2>2 DEF vars, Letters, AttemptsOK, DlqExhausted, Attempts, Retriable
  <2>3. QED BY <2>1, <2>2
<1>3. Letters => DlqExhausted
  BY DEF Letters
<1>4. QED BY <1>1, <1>2, <1>3, CrawlInvariance, PTL DEF CrawlSpec
=============================================================================

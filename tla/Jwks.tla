-------------------------------- MODULE Jwks --------------------------------
(***************************************************************************)
(* The cache of Google's signing keys in crates/auth/src/oauth/google.rs:  *)
(* every login that brings an id_token looks its kid up under one lock,    *)
(* held across the fetch that a stale cache or a missing kid asks for,     *)
(* while Google publishes and retires keys.  Time is tokio's Instant.      *)
(***************************************************************************)
EXTENDS Handlers

CONSTANTS
    Kids,       \* keys with RS256 and sound components; others are dropped
    Ttl,        \* JWKS_TTL
    RoundTrip,  \* the longest fetch: of the network, the client sets no timeout
    MaxNow      \* bound: the clock stops here

ASSUME JwksAssumption ==
    /\ None \notin Nat
    /\ Ttl \in Nat \ {0} /\ RoundTrip \in Nat /\ MaxNow \in Nat

VARIABLES
    jwksNow,    \* Instant::now()
    published,  \* the kids Google serves
    retiredAt,  \* retiredAt[k], when k was last taken out (history)
    jwks,       \* the cache: its kids and last_fetched_at
    verify       \* verify[p], a login that looks up its kid

jwksVars == <<jwksNow, published, retiredAt, jwks, verify>>

\* The lock is held by the login in "fetch"; a lookup that needs no fetch
\* takes and frees it at once.  served is what Google answered, None until it
\* has.  Ghost: `always` is FALSE once the kid was not published.
Verification == [pc : {"wait", "fetch"}, kid : Kids,
          sent : Nat, served : (SUBSET Kids) \cup {None}, always : BOOLEAN]
NotVerifying == [pc |-> "idle", kid |-> None, sent |-> 0, served |-> None, always |-> FALSE]

\* What the lookup came to.
Answered(found) == [NotVerifying EXCEPT !.pc = IF found THEN "found" ELSE "unknown"]

JwksTypeOK ==
    /\ jwksNow \in Nat
    /\ published \subseteq Kids
    /\ retiredAt \in [Kids -> Nat]
    /\ jwks \in [keys : SUBSET Kids, at : Nat \cup {None}]
    /\ verify \in [Procs -> Verification \cup {NotVerifying, Answered(TRUE), Answered(FALSE)}]

JwksInit ==
    /\ jwksNow = 0
    /\ published = {}
    /\ retiredAt = [k \in Kids |-> 0]
    /\ jwks = [keys |-> {}, at |-> None]
    /\ verify = [p \in Procs |-> NotVerifying]

-----------------------------------------------------------------------------
(* Google, and time.                                                       *)

PublishKey(k) ==
    /\ k \notin published
    /\ published' = published \cup {k}
    /\ UNCHANGED <<jwksNow, retiredAt, jwks, verify>>

RetireKey(k) ==
    /\ k \in published
    /\ published' = published \ {k}
    /\ retiredAt' = [retiredAt EXCEPT ![k] = jwksNow]
    /\ verify' = [p \in Procs |-> IF verify[p].kid = k THEN [verify[p] EXCEPT !.always = FALSE]
                                   ELSE verify[p]]
    /\ UNCHANGED <<jwksNow, jwks>>

JwksTick ==
    /\ jwksNow < MaxNow
    /\ \A p \in Procs : verify[p].pc = "fetch" => jwksNow < verify[p].sent + RoundTrip
    /\ jwksNow' = jwksNow + 1
    /\ UNCHANGED <<published, retiredAt, jwks, verify>>

-----------------------------------------------------------------------------
(* decoding_key_for.                                                       *)

Unfetched == \A p \in Procs : verify[p].pc # "fetch"

Stale == jwks.at = None \/ jwksNow >= jwks.at + Ttl

\* Mutant: a kid that is missing from a fresh cache is refused at once.
MissRefused(p) == Stale

\* A stale cache is fetched anew, and so is a fresh one without the kid, once.
MustFetch(p) == Stale \/ verify[p].kid \notin jwks.keys

AskForKey(p, k) ==
    /\ verify[p].pc = "idle"
    /\ verify' = [verify EXCEPT ![p] = [pc |-> "wait", kid |-> k, sent |-> 0, served |-> None,
                                      always |-> k \in published]]
    /\ UNCHANGED <<jwksNow, published, retiredAt, jwks>>

\* Under the lock: what the cache has, or a fetch that keeps the lock.
LookUp(p) ==
    /\ verify[p].pc = "wait" /\ Unfetched
    /\ verify' = [verify EXCEPT ![p] =
          IF MustFetch(p) THEN [@ EXCEPT !.pc = "fetch", !.sent = jwksNow]
          ELSE Answered(verify[p].kid \in jwks.keys)]
    /\ UNCHANGED <<jwksNow, published, retiredAt, jwks>>

ServeKeys(p) ==
    /\ verify[p].pc = "fetch" /\ verify[p].served = None
    /\ verify' = [verify EXCEPT ![p] = [@ EXCEPT !.served = published]]
    /\ UNCHANGED <<jwksNow, published, retiredAt, jwks>>

ReceiveKeys(p) ==
    /\ verify[p].pc = "fetch" /\ verify[p].served # None
    /\ jwks' = [keys |-> verify[p].served, at |-> jwksNow]
    /\ verify' = [verify EXCEPT ![p] = Answered(verify[p].kid \in verify[p].served)]
    /\ UNCHANGED <<jwksNow, published, retiredAt>>

\* Answered; or the fetch fails, and the login with it; or the request is gone
\* and its future dropped, lock and all.  The cache stays what it was.
LeaveVerify(p) ==
    /\ verify[p].pc # "idle"
    /\ verify' = [verify EXCEPT ![p] = NotVerifying]
    /\ UNCHANGED <<jwksNow, published, retiredAt, jwks>>

JwksNext ==
    \/ JwksTick
    \/ \E k \in Kids : PublishKey(k) \/ RetireKey(k)
    \/ \E p \in Procs :
        \/ \E k \in Kids : AskForKey(p, k)
        \/ LookUp(p) \/ ServeKeys(p) \/ ReceiveKeys(p) \/ LeaveVerify(p)

JwksSpec == JwksInit /\ [][JwksNext]_jwksVars

-----------------------------------------------------------------------------
(* Properties.                                                             *)

\* A login is refused for its kid only if Google did not publish it at some
\* moment of the lookup, so that a rotation inside the TTL locks nobody out;
\* and a key is accepted no longer after it was retired than the TTL and one
\* round trip (google.rs:451-456, :535-552).
KeyAnswers ==
    [][\A p \in Procs :
          /\ verify[p].pc # "unknown" /\ verify'[p].pc = "unknown" => ~verify[p].always
          /\ verify[p].pc # "found" /\ verify'[p].pc = "found" =>
                \/ verify[p].kid \in published
                \/ jwksNow < retiredAt[verify[p].kid] + Ttl + RoundTrip]_jwksVars

\* The key is published, or was until that moment or later.
Recent(k, since) == k \in published \/ since <= retiredAt[k]

\* A lookup that has seen its key all along sees it published, and in what
\* Google served; the fetch takes no longer than the round trip, and what it
\* brings was published since it was sent.
VerifyOK(p) ==
    LET v == verify[p]
    IN  /\ v.pc \in {"wait", "fetch"} /\ v.always => v.kid \in published
        /\ v.pc = "wait" => v.served = None
        /\ v.pc = "fetch" => v.sent <= jwksNow /\ jwksNow <= v.sent + RoundTrip
        /\ v.pc = "fetch" /\ v.served # None =>
              /\ v.always => v.kid \in v.served
              /\ \A k \in v.served : Recent(k, v.sent)

\* What is in the cache was published a round trip before it was received.
CacheOK ==
    jwks.at # None =>
        /\ jwks.at <= jwksNow
        /\ \A k \in jwks.keys : k \in published \/ jwks.at <= retiredAt[k] + RoundTrip

JwksIInv == JwksTypeOK /\ CacheOK /\ \A p \in Procs : VerifyOK(p)
=============================================================================

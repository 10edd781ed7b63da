--------------------------- MODULE ServicesProofs ---------------------------
(***************************************************************************)
(* Proofs about the services that stand side by side in Services, for any  *)
(* value of their constants: here those of sessions, of the key cache, of  *)
(* the playground, of the calendar and of llms.txt; those of the others    *)
(* come with CommunityProofs and LimitsProofs; and at the end, that a      *)
(* behaviour of all the services is one of each of them.                   *)
(***************************************************************************)
EXTENDS Services, CommunityProofs, LimitsProofs, SequenceTheorems, WellFoundedInduction, TLAPS

-----------------------------------------------------------------------------
(* Sessions                                                                *)

\* What SeenAlive says of one row.
Ordered(row) ==
    /\ row.created <= row.seen /\ row.seen < row.expires
    /\ row.expires <= row.absolute /\ row.absolute = row.created + AbsoluteMax

\* What any statement may do to a row that exists.
Evolves(old, new) ==
    /\ new.owner = old.owner
    /\ old.revoked # None => new = old
    /\ old.seen <= new.seen /\ old.expires <= new.expires
    /\ old.expires + Drift <= clock => new.seen = old.seen /\ new.expires = old.expires

\* A fresh row is well-formed.
LEMMA InsertedRow ==
    ASSUME NEW u \in Users, NEW now \in Time
    PROVE  Inserted(u, now) \in Row /\ Ordered(Inserted(u, now))
  BY SessionAssumption, HandlerAssumption DEF Inserted, Row, Ordered, Least, Time

\* A slide keeps a row well-formed and moves it forward.
LEMMA SlidRow ==
    ASSUME NEW row \in Row, Ordered(row), NEW now \in Time,
           row.expires > now, row.absolute > now
    PROVE  LET new == Slid(row, now)
           IN  /\ new \in Row /\ Ordered(new)
               /\ new.owner = row.owner /\ new.revoked = row.revoked
               /\ row.seen <= new.seen /\ row.expires <= new.expires
<1> DEFINE seen == Greatest(row.seen, now)
           expires == Least(Greatest(now + IdleTtl, row.expires), row.absolute)
<1>1. /\ now \in Nat /\ now <= MaxTime /\ row.seen \in Nat /\ row.seen <= MaxTime
      /\ row.expires \in Nat /\ row.absolute \in Nat /\ row.created \in Nat
      /\ MaxTime \in Nat /\ IdleTtl \in Nat
  BY SessionAssumption, HandlerAssumption DEF Row, Time
<1>2. /\ seen \in Time /\ expires \in Nat /\ row.created <= seen /\ seen < expires
      /\ expires <= row.absolute /\ row.seen <= seen /\ row.expires <= expires
  BY <1>1 DEF Ordered, Greatest, Least, Time
<1>3. Slid(row, now) = [row EXCEPT !.seen = seen, !.expires = expires]
  BY DEF Slid
<1> HIDE DEF seen, expires
<1>4. QED BY <1>2, <1>3 DEF Row, Ordered

\* Revoking keeps a row well-formed.
LEMMA RevokedRow ==
    ASSUME NEW row \in Row, Ordered(row), NEW now \in Time
    PROVE  LET new == [row EXCEPT !.revoked = now]
           IN  /\ new \in Row /\ Ordered(new) /\ new.owner = row.owner
               /\ new.seen = row.seen /\ new.expires = row.expires
  BY DEF Row, Ordered

\* A row that exists is a Row, and SeenAlive orders it.
LEMMA ExistingRow ==
    ASSUME SessionIInv, NEW s \in Sessions, Exists(s)
    PROVE  session[s] \in Row /\ Ordered(session[s])
  BY SessionAssumption, HandlerAssumption DEF SessionIInv, SessionTypeOK, SeenAlive, Exists, Ordered, NoRow

-----------------------------------------------------------------------------
\* What a step does to the whole table.
TableStep ==
    /\ session' \in [Sessions -> Row \cup {NoRow}]
    /\ \A s \in Sessions : session'[s].owner # None => Ordered(session'[s])
    /\ \A s \in Sessions : Exists(s) => Evolves(session[s], session'[s])

\* A step that leaves every row as it is.
LEMMA SameTable ==
    ASSUME SessionIInv, session' = session
    PROVE  TableStep
<1>1. ASSUME NEW s \in Sessions, Exists(s)
      PROVE  Ordered(session[s]) /\ Evolves(session[s], session[s])
  BY <1>1, ExistingRow, SessionAssumption, HandlerAssumption DEF Evolves, Row, Time
<1>2. QED BY <1>1 DEF TableStep, SessionIInv, SessionTypeOK, Exists

\* A step that writes one row.
LEMMA OneRow ==
    ASSUME SessionIInv, NEW s \in Sessions, NEW row \in Row, Ordered(row),
           Exists(s) => Evolves(session[s], row),
           session' = [session EXCEPT ![s] = row]
    PROVE  TableStep
<1>1. ASSUME NEW r \in Sessions, r # s
      PROVE  session'[r] = session[r]
  BY <1>1 DEF SessionIInv, SessionTypeOK
<1>2. session'[s] = row
  BY DEF SessionIInv, SessionTypeOK
<1>3. session' \in [Sessions -> Row \cup {NoRow}]
  BY DEF SessionIInv, SessionTypeOK
<1>4. ASSUME NEW r \in Sessions, session'[r].owner # None
      PROVE  Ordered(session'[r])
  BY <1>1, <1>2, <1>4, ExistingRow DEF Exists
<1>5. ASSUME NEW r \in Sessions, Exists(r)
      PROVE  Evolves(session[r], session'[r])
  <2>1. CASE r = s
    BY <1>2, <1>5, <2>1
  <2>2. CASE r # s
    BY <1>1, <1>5, <2>2, ExistingRow, SessionAssumption, HandlerAssumption DEF Evolves, Row, Time
  <2>3. QED BY <2>1, <2>2
<1>6. QED BY <1>3, <1>4, <1>5 DEF TableStep

LEMMA RowStep ==
    ASSUME SessionIInv, [SessionNext]_sessionVars
    PROVE  TableStep
<1>1. CASE Tick \/ UNCHANGED sessionVars
  BY <1>1, SameTable DEF Tick, sessionVars
<1>2. ASSUME NEW now \in Time, NEW s \in Sessions, NEW u \in Users, Issue(u, s, now)
      PROVE  TableStep
  BY <1>2, InsertedRow, OneRow DEF Issue
<1>3. ASSUME NEW now \in Time, NEW s \in Sessions, Authenticate(s, now)
      PROVE  TableStep
  <2> DEFINE row == Slid(session[s], now)
  <2>1. session[s] \in Row /\ Ordered(session[s])
    BY <1>3, ExistingRow DEF Authenticate, Alive
  <2>2. /\ row \in Row /\ Ordered(row) /\ row.owner = session[s].owner
        /\ session[s].seen <= row.seen /\ session[s].expires <= row.expires
    BY <1>3, <2>1, SlidRow DEF Authenticate, Alive
  <2>3. /\ session[s].revoked = None /\ session[s].expires > now /\ clock - Drift <= now
        /\ session' = [session EXCEPT ![s] = row]
    BY <1>3 DEF Authenticate, Alive, Stamps
  <2> HIDE DEF row
  <2>4. ~(session[s].expires + Drift <= clock)
    BY <2>1, <2>3, SessionAssumption, HandlerAssumption DEF Row, Time, SessionIInv, SessionTypeOK
  <2>5. Evolves(session[s], row)
    BY <2>2, <2>3, <2>4 DEF Evolves
  <2>6. QED BY <2>2, <2>3, <2>5, OneRow
<1>4. ASSUME NEW now \in Time, NEW s \in Sessions, Revoke(s, now)
      PROVE  TableStep
  <2> DEFINE row == [session[s] EXCEPT !.revoked = now]
  <2>1. session[s] \in Row /\ Ordered(session[s])
    BY <1>4, ExistingRow DEF Revoke
  <2>2. /\ row \in Row /\ Ordered(row) /\ row.owner = session[s].owner
        /\ row.seen = session[s].seen /\ row.expires = session[s].expires
    BY <2>1, RevokedRow
  <2>3. session[s].revoked = None /\ session' = [session EXCEPT ![s] = row]
    BY <1>4 DEF Revoke
  <2> HIDE DEF row
  <2>4. Evolves(session[s], row)
    BY <2>1, <2>2, <2>3 DEF Evolves, Row, Time
  <2>5. QED BY <2>2, <2>3, <2>4, OneRow
<1>5. ASSUME NEW now \in Time, NEW u \in Users, RevokeAll(u, now)
      PROVE  TableStep
  <2>1. ASSUME NEW s \in Sessions, Evicted(s, u, now)
        PROVE  /\ session'[s] \in Row /\ Ordered(session'[s])
               /\ Evolves(session[s], session'[s])
    <3> DEFINE row == [session[s] EXCEPT !.revoked = now]
    <3>1. session[s] \in Row /\ Ordered(session[s]) /\ session[s].revoked = None
      BY <2>1, ExistingRow DEF Evicted
    <3>2. /\ row \in Row /\ Ordered(row) /\ row.owner = session[s].owner
          /\ row.seen = session[s].seen /\ row.expires = session[s].expires
      BY <3>1, RevokedRow
    <3>3. session'[s] = row
      BY <1>5, <2>1 DEF RevokeAll
    <3> HIDE DEF row
    <3>4. QED BY <3>1, <3>2, <3>3 DEF Evolves, Row, Time
  <2>2. ASSUME NEW s \in Sessions, ~Evicted(s, u, now)
        PROVE  /\ session'[s] = session[s]
               /\ Exists(s) => Ordered(session[s]) /\ Evolves(session[s], session[s])
    <3>1. session'[s] = session[s]
      BY <1>5, <2>2 DEF RevokeAll
    <3>2. QED BY <3>1, ExistingRow, SessionAssumption, HandlerAssumption DEF Evolves, Row, Time
  <2>3. session' = [s \in Sessions |-> session'[s]]
    BY <1>5 DEF RevokeAll
  <2>4. ASSUME NEW s \in Sessions
        PROVE  /\ session'[s] \in Row \cup {NoRow}
               /\ session'[s].owner # None => Ordered(session'[s])
               /\ Exists(s) => Evolves(session[s], session'[s])
    BY <2>1, <2>2 DEF Exists, SessionIInv, SessionTypeOK
  <2>5. QED BY <2>3, <2>4 DEF TableStep
<1>6. QED BY <1>1, <1>2, <1>3, <1>4, <1>5 DEF SessionNext

-----------------------------------------------------------------------------
LEMMA SessionInitInv == SessionInit => SessionIInv
  BY SessionAssumption, HandlerAssumption DEF SessionInit, SessionIInv, SessionTypeOK, SeenAlive, Exists, NoRow, Time

LEMMA SessionNextInv == SessionIInv /\ [SessionNext]_sessionVars => SessionIInv'
<1> SUFFICES ASSUME SessionIInv, [SessionNext]_sessionVars PROVE SessionIInv'
  OBVIOUS
<1>1. TableStep
  BY RowStep
<1>2. clock' \in Time
  BY SessionAssumption, HandlerAssumption DEF SessionIInv, SessionTypeOK, SessionNext, Tick, Issue, Authenticate, Revoke, RevokeAll, sessionVars, Time
<1>3. QED BY <1>1, <1>2 DEF SessionIInv, SessionTypeOK, SeenAlive, Exists, TableStep, Ordered

\* The inductive invariant holds in every reachable state.
THEOREM SessionInvariant == SessionSpec => []SessionIInv
  BY SessionInitInv, SessionNextInv, PTL DEF SessionSpec

\* The session table is always well-formed.
THEOREM SessionsTyped == SessionSpec => []SessionTypeOK
<1>1. SessionIInv => SessionTypeOK
  BY DEF SessionIInv
<1>2. QED BY SessionInvariant, <1>1, PTL

\* last_seen_at lies before the expiry, and the expiry within the absolute
\* lifetime, for any lifetimes and any drift of the clocks.
THEOREM SessionsAlive == SessionSpec => []SeenAlive
<1>1. SessionIInv => SeenAlive
  BY DEF SessionIInv
<1>2. QED BY SessionInvariant, <1>1, PTL

\* No statement changes a revoked session.
THEOREM RevokedForGood == SessionSpec => RevocationFinal
<1>1. ASSUME SessionIInv, NEW s \in Sessions, session[s].revoked # None
      PROVE  Exists(s)
  BY <1>1, SessionAssumption, HandlerAssumption DEF SessionIInv, SessionTypeOK, Exists, Row, NoRow
<1>2. SessionIInv /\ [SessionNext]_sessionVars => [\A s \in Sessions : session[s].revoked # None => session'[s] = session[s]]_sessionVars
  BY <1>1, RowStep DEF TableStep, Evolves
<1>3. QED BY SessionInvariant, <1>2, PTL DEF SessionSpec, RevocationFinal

\* last_seen_at and the expiry of every session only grow.
THEOREM SlidesForward == SessionSpec => SlideMonotone
<1>1. SessionIInv /\ [SessionNext]_sessionVars =>
        [\A s \in Sessions : Exists(s) =>
          /\ session[s].seen <= session'[s].seen
          /\ session[s].expires <= session'[s].expires]_sessionVars
  BY RowStep DEF TableStep, Evolves
<1>2. QED BY SessionInvariant, <1>1, PTL DEF SessionSpec, SlideMonotone

\* A session that has run out on every clock is never slid again.
THEOREM ExpiredForGood == SessionSpec => ExpiredStaysDead
<1>1. SessionIInv /\ [SessionNext]_sessionVars =>
        [\A s \in Sessions : Exists(s) /\ session[s].expires + Drift <= clock =>
          /\ session'[s].seen = session[s].seen
          /\ session'[s].expires = session[s].expires]_sessionVars
  BY RowStep DEF TableStep, Evolves
<1>2. QED BY SessionInvariant, <1>1, PTL DEF SessionSpec, ExpiredStaysDead

-----------------------------------------------------------------------------
(* Jwks                                                                    *)

LEMMA JwksInitInv == JwksInit => JwksIInv
  BY DEF JwksInit, JwksIInv, JwksTypeOK, CacheOK, VerifyOK, NotVerifying

\* A login that looks nothing up holds nothing.
LEMMA NotLookingUp ==
    ASSUME NEW p \in Procs, verify'[p] \in {NotVerifying, Answered(TRUE), Answered(FALSE)}
    PROVE  VerifyOK(p)'
  BY DEF VerifyOK, NotVerifying, Answered

LEMMA AnsweredType ==
    \A found : Answered(found) \in {NotVerifying, Answered(TRUE), Answered(FALSE)}
  BY DEF Answered

\* What a lookup knows, field by field.
LEMMA VerifyTypes ==
    ASSUME JwksTypeOK, NEW p \in Procs
    PROVE  \/ verify[p] \in Verification
           \/ verify[p] \in {NotVerifying, Answered(TRUE), Answered(FALSE)}
  BY DEF JwksTypeOK

\* Keys are retired now or were before, so what was recent stays so.
LEMMA RecentStays ==
    ASSUME JwksTypeOK, NEW k \in Kids, NEW since \in Nat, Recent(k, since),
           \/ retiredAt'[k] = retiredAt[k] /\ (k \in published => k \in published')
           \/ since <= retiredAt'[k]
    PROVE  Recent(k, since)'
  BY DEF Recent, JwksTypeOK

\* A step of one login that leaves keys and clock alone.
LEMMA OneLookup ==
    ASSUME JwksIInv, NEW p \in Procs,
           NEW v \in Verification \cup {NotVerifying, Answered(TRUE), Answered(FALSE)},
           verify' = [verify EXCEPT ![p] = v], UNCHANGED <<jwksNow, published, retiredAt>>,
           (verify'[p] = v) => VerifyOK(p)',
           jwks' \in [keys : SUBSET Kids, at : Nat \cup {None}], CacheOK'
    PROVE  JwksIInv'
<1>1. JwksTypeOK /\ \A q \in Procs : VerifyOK(q)
  BY DEF JwksIInv
<1>2. verify'[p] = v /\ \A q \in Procs \ {p} : verify'[q] = verify[q]
  BY <1>1 DEF JwksTypeOK
<1>3. JwksTypeOK'
  BY <1>1 DEF JwksTypeOK, Verification, NotVerifying, Answered
<1>4. ASSUME NEW q \in Procs PROVE VerifyOK(q)'
  BY <1>1, <1>2 DEF VerifyOK, Recent
<1>5. QED BY <1>3, <1>4 DEF JwksIInv

LEMMA AskForKeyInv ==
    ASSUME JwksIInv, NEW p \in Procs, NEW k \in Kids, AskForKey(p, k)
    PROVE  JwksIInv'
<1> DEFINE v == [pc |-> "wait", kid |-> k, sent |-> 0, served |-> None, always |-> k \in published]
<1>1. v \in Verification
  BY DEF Verification
<1>2. verify'[p] = v => VerifyOK(p)'
  <2>1. v.pc = "wait" /\ v.kid = k /\ v.served = None /\ (v.always => k \in published)
    OBVIOUS
  <2> HIDE DEF v
  <2>2. QED BY <2>1 DEF AskForKey, VerifyOK
<1>3. jwks' \in [keys : SUBSET Kids, at : Nat \cup {None}] /\ CacheOK'
  BY DEF AskForKey, JwksIInv, JwksTypeOK, CacheOK
<1>4. QED BY <1>1, <1>2, <1>3, OneLookup DEF AskForKey

LEMMA LookUpInv ==
    ASSUME JwksIInv, NEW p \in Procs, LookUp(p)
    PROVE  JwksIInv'
<1>1. /\ JwksTypeOK /\ VerifyOK(p) /\ verify[p].pc = "wait"
      /\ UNCHANGED <<jwksNow, published, retiredAt, jwks>>
  BY DEF JwksIInv, LookUp
<1>2. jwks' \in [keys : SUBSET Kids, at : Nat \cup {None}] /\ CacheOK'
  BY <1>1 DEF JwksIInv, JwksTypeOK, CacheOK
<1>3. verify[p] \in Verification
  BY <1>1, VerifyTypes DEF NotVerifying, Answered
<1>4. CASE MustFetch(p)
  <2> DEFINE v == [verify[p] EXCEPT !.pc = "fetch", !.sent = jwksNow]
  <2>1. /\ v \in Verification /\ v.pc = "fetch" /\ v.sent = jwksNow
        /\ v.kid = verify[p].kid /\ v.always = verify[p].always /\ v.served = verify[p].served
    BY <1>1, <1>3 DEF Verification, JwksTypeOK
  <2>2. verify' = [verify EXCEPT ![p] = v]
    BY <1>4 DEF LookUp
  <2>3. verify[p].served = None
    BY <1>1 DEF VerifyOK
  <2> HIDE DEF v
  <2>4. verify'[p] = v => VerifyOK(p)'
    BY <1>1, <2>1, <2>3, JwksAssumption DEF VerifyOK, JwksTypeOK
  <2>5. QED BY <1>1, <1>2, <2>1, <2>2, <2>4, OneLookup
<1>5. CASE ~MustFetch(p)
  <2>1. verify' = [verify EXCEPT ![p] = Answered(verify[p].kid \in jwks.keys)]
    BY <1>5 DEF LookUp
  <2>2. Answered(verify[p].kid \in jwks.keys) \in {NotVerifying, Answered(TRUE), Answered(FALSE)}
    BY AnsweredType
  <2>3. QED BY <1>1, <1>2, <2>1, <2>2, NotLookingUp, OneLookup
<1>6. QED BY <1>4, <1>5

LEMMA ServeKeysInv ==
    ASSUME JwksIInv, NEW p \in Procs, ServeKeys(p)
    PROVE  JwksIInv'
<1> DEFINE v == [verify[p] EXCEPT !.served = published]
<1>1. /\ JwksTypeOK /\ VerifyOK(p) /\ verify[p].pc = "fetch" /\ verify[p].served = None
      /\ UNCHANGED <<jwksNow, published, retiredAt, jwks>> /\ verify' = [verify EXCEPT ![p] = v]
  BY DEF JwksIInv, ServeKeys
<1>2. jwks' \in [keys : SUBSET Kids, at : Nat \cup {None}] /\ CacheOK'
  BY <1>1 DEF JwksIInv, JwksTypeOK, CacheOK
<1>3. verify[p] \in Verification
  BY <1>1, VerifyTypes DEF NotVerifying, Answered
<1>4. /\ v \in Verification /\ v.pc = "fetch" /\ v.sent = verify[p].sent
      /\ v.kid = verify[p].kid /\ v.always = verify[p].always /\ v.served = published
  BY <1>1, <1>3 DEF Verification, JwksTypeOK
<1> HIDE DEF v
<1>5. verify'[p] = v => VerifyOK(p)'
  BY <1>1, <1>4 DEF VerifyOK, Recent
<1>6. QED BY <1>1, <1>2, <1>4, <1>5, OneLookup

LEMMA ReceiveKeysInv ==
    ASSUME JwksIInv, NEW p \in Procs, ReceiveKeys(p)
    PROVE  JwksIInv'
<1>1. /\ JwksTypeOK /\ VerifyOK(p) /\ verify[p].pc = "fetch" /\ verify[p].served # None
      /\ UNCHANGED <<jwksNow, published, retiredAt>>
      /\ jwks' = [keys |-> verify[p].served, at |-> jwksNow]
      /\ verify' = [verify EXCEPT ![p] = Answered(verify[p].kid \in verify[p].served)]
  BY DEF JwksIInv, ReceiveKeys
<1>2. verify[p] \in Verification
  BY <1>1, VerifyTypes DEF NotVerifying, Answered
<1>3. /\ verify[p].served \in SUBSET Kids /\ verify[p].sent \in Nat /\ jwksNow \in Nat
      /\ jwksNow <= verify[p].sent + RoundTrip
      /\ \A k \in verify[p].served : Recent(k, verify[p].sent)
  BY <1>1, <1>2 DEF Verification, VerifyOK, JwksTypeOK
<1>4. jwks' \in [keys : SUBSET Kids, at : Nat \cup {None}]
  BY <1>1, <1>3
<1>5. CacheOK'
  BY <1>1, <1>3, JwksAssumption DEF CacheOK, Recent, JwksTypeOK
<1>6. Answered(verify[p].kid \in verify[p].served) \in {NotVerifying, Answered(TRUE), Answered(FALSE)}
  BY AnsweredType
<1>7. QED BY <1>1, <1>4, <1>5, <1>6, NotLookingUp, OneLookup

LEMMA LeaveVerifyInv ==
    ASSUME JwksIInv, NEW p \in Procs, LeaveVerify(p)
    PROVE  JwksIInv'
<1>1. jwks' \in [keys : SUBSET Kids, at : Nat \cup {None}] /\ CacheOK'
  BY DEF LeaveVerify, JwksIInv, JwksTypeOK, CacheOK
<1>2. QED BY <1>1, NotLookingUp, OneLookup DEF LeaveVerify

LEMMA PublishKeyInv ==
    ASSUME JwksIInv, NEW k \in Kids, PublishKey(k)
    PROVE  JwksIInv'
<1>1. /\ JwksTypeOK /\ CacheOK /\ published' = published \cup {k}
      /\ UNCHANGED <<jwksNow, retiredAt, jwks, verify>>
  BY DEF JwksIInv, PublishKey
<1>2. JwksTypeOK' /\ CacheOK'
  BY <1>1 DEF JwksTypeOK, CacheOK, Verification, NotVerifying, Answered
<1>3. ASSUME NEW p \in Procs PROVE VerifyOK(p)'
  BY <1>1 DEF JwksIInv, VerifyOK, Recent
<1>4. QED BY <1>2, <1>3 DEF JwksIInv

LEMMA RetireKeyInv ==
    ASSUME JwksIInv, NEW k \in Kids, RetireKey(k)
    PROVE  JwksIInv'
<1>1. /\ JwksTypeOK /\ CacheOK /\ published' = published \ {k}
      /\ retiredAt' = [retiredAt EXCEPT ![k] = jwksNow]
      /\ verify' = [p \in Procs |-> IF verify[p].kid = k THEN [verify[p] EXCEPT !.always = FALSE]
                                    ELSE verify[p]]
      /\ UNCHANGED <<jwksNow, jwks>>
  BY DEF JwksIInv, RetireKey
<1>2. /\ retiredAt' \in [Kids -> Nat] /\ published' \subseteq Kids
      /\ \A l \in Kids : retiredAt'[l] = retiredAt[l] \/ (l = k /\ retiredAt'[l] = jwksNow)
      /\ retiredAt'[k] = jwksNow /\ jwksNow \in Nat
  BY <1>1 DEF JwksTypeOK
<1>3. ASSUME NEW p \in Procs
      PROVE  /\ verify'[p] \in Verification \cup {NotVerifying, Answered(TRUE), Answered(FALSE)}
             /\ verify'[p].pc = verify[p].pc /\ verify'[p].kid = verify[p].kid
             /\ verify'[p].sent = verify[p].sent /\ verify'[p].served = verify[p].served
             /\ (verify'[p].always => verify[p].always /\ verify[p].kid # k)
  <2>1. CASE verify[p] \in Verification
    BY <1>1, <2>1 DEF Verification
  <2>2. CASE verify[p] \in {NotVerifying, Answered(TRUE), Answered(FALSE)}
    <3>1. ~verify[p].always /\ [verify[p] EXCEPT !.always = FALSE] = verify[p]
      <4>1. CASE verify[p] = NotVerifying
        <5>1. /\ verify[p] \in [pc : {"idle"}, kid : {None}, sent : Nat, served : {None},
                                always : BOOLEAN]
              /\ verify[p].always = FALSE
          BY <4>1 DEF NotVerifying
        <5>2. QED BY <5>1
      <4>2. ASSUME NEW found \in BOOLEAN, verify[p] = Answered(found)
            PROVE  ~verify[p].always /\ [verify[p] EXCEPT !.always = FALSE] = verify[p]
        BY <4>2 DEF NotVerifying, Answered
      <4>3. QED BY <2>2, <4>1, <4>2
    <3>2. QED BY <1>1, <2>2, <3>1
  <2>3. QED BY <1>1, <2>1, <2>2, VerifyTypes
<1>4. JwksTypeOK'
  <2>1. verify' \in [Procs -> Verification \cup {NotVerifying, Answered(TRUE), Answered(FALSE)}]
    BY <1>1, <1>3
  <2>2. QED BY <1>1, <1>2, <2>1 DEF JwksTypeOK, Verification, NotVerifying, Answered
<1>5. CacheOK'
  <2>1. SUFFICES ASSUME jwks.at # None, NEW l \in jwks.keys
        PROVE  jwks.at <= jwksNow /\ (l \in published' \/ jwks.at <= retiredAt'[l] + RoundTrip)
    BY <1>1 DEF CacheOK
  <2>2. /\ jwks.at \in Nat /\ l \in Kids /\ jwks.at <= jwksNow
        /\ l \in published \/ jwks.at <= retiredAt[l] + RoundTrip
    BY <1>1, <2>1 DEF CacheOK, JwksTypeOK
  <2>3. QED BY <1>1, <1>2, <2>2, JwksAssumption
<1>6. ASSUME NEW p \in Procs PROVE VerifyOK(p)'
  <2>1. VerifyOK(p)
    BY DEF JwksIInv
  <2>2. CASE verify[p].pc \notin {"wait", "fetch"}
    BY <1>3, <2>2 DEF VerifyOK
  <2>3. CASE verify[p].pc \in {"wait", "fetch"}
    <3>1. verify[p] \in Verification
      BY <1>1, <2>3, VerifyTypes DEF NotVerifying, Answered
    <3>2. verify[p].kid \in Kids /\ verify[p].sent \in Nat
          /\ verify[p].served \in (SUBSET Kids) \cup {None}
      BY <3>1 DEF Verification
    <3>3. verify[p].pc = "fetch" /\ verify[p].served # None =>
            \A l \in verify[p].served : l \in published' \/ verify[p].sent <= retiredAt'[l]
      BY <1>1, <1>2, <2>1, <3>2 DEF VerifyOK, Recent, JwksTypeOK
    <3>4. QED BY <1>1, <1>3, <2>1, <3>3 DEF VerifyOK, Recent
  <2>4. QED BY <2>2, <2>3
<1>7. QED BY <1>4, <1>5, <1>6 DEF JwksIInv

LEMMA JwksTickInv == ASSUME JwksIInv, JwksTick PROVE JwksIInv'
<1>1. /\ JwksTypeOK /\ CacheOK /\ jwksNow' = jwksNow + 1 /\ jwksNow \in Nat
      /\ UNCHANGED <<published, retiredAt, jwks, verify>>
  BY DEF JwksIInv, JwksTick, JwksTypeOK
<1>2. JwksTypeOK' /\ CacheOK'
  <2>1. JwksTypeOK'
    <3>1. jwksNow' \in Nat
      BY <1>1
    <3>2. QED BY <1>1, <3>1 DEF JwksTypeOK, Verification, NotVerifying, Answered
  <2>2. CacheOK'
    BY <1>1 DEF JwksTypeOK, CacheOK
  <2>3. QED BY <2>1, <2>2
<1>3. ASSUME NEW p \in Procs PROVE VerifyOK(p)'
  <2>1. VerifyOK(p) /\ (verify[p].pc = "fetch" => jwksNow < verify[p].sent + RoundTrip)
    BY DEF JwksIInv, JwksTick
  <2>2. verify[p].pc = "fetch" => verify[p].sent \in Nat
    BY <1>1, VerifyTypes DEF Verification, NotVerifying, Answered
  <2>3. QED BY <1>1, <2>1, <2>2, JwksAssumption DEF VerifyOK, Recent
<1>4. QED BY <1>2, <1>3 DEF JwksIInv

LEMMA JwksInductive ==
    ASSUME JwksIInv, [JwksNext]_jwksVars
    PROVE  JwksIInv'
<1>1. CASE JwksTick
  BY <1>1, JwksTickInv
<1>2. ASSUME NEW k \in Kids, PublishKey(k) \/ RetireKey(k) PROVE JwksIInv'
  BY <1>2, PublishKeyInv, RetireKeyInv
<1>3. ASSUME NEW p \in Procs, NEW k \in Kids, AskForKey(p, k) PROVE JwksIInv'
  BY <1>3, AskForKeyInv
<1>4. ASSUME NEW p \in Procs, LookUp(p) \/ ServeKeys(p) \/ ReceiveKeys(p) \/ LeaveVerify(p)
      PROVE  JwksIInv'
  BY <1>4, LookUpInv, ServeKeysInv, ReceiveKeysInv, LeaveVerifyInv
<1>5. CASE UNCHANGED jwksVars
  BY <1>5 DEF jwksVars, JwksIInv, JwksTypeOK, CacheOK, VerifyOK, Recent, Verification, NotVerifying, Answered
<1>6. QED BY <1>1, <1>2, <1>3, <1>4, <1>5 DEF JwksNext

\* The cache of signing keys, for any number of logins and keys, any lifetime
\* of the cache and any longest fetch (google.rs:535-552).
THEOREM JwksInvariant == JwksSpec => []JwksIInv
  BY JwksInitInv, JwksInductive, PTL DEF JwksSpec

\* What one step answers.
LEMMA AnswerStep ==
    ASSUME JwksIInv, [JwksNext]_jwksVars, NEW p \in Procs
    PROVE  /\ verify[p].pc # "unknown" /\ verify'[p].pc = "unknown" => ~verify[p].always
           /\ verify[p].pc # "found" /\ verify'[p].pc = "found" =>
                 \/ verify[p].kid \in published
                 \/ jwksNow < retiredAt[verify[p].kid] + Ttl + RoundTrip
<1>1. /\ JwksTypeOK /\ CacheOK /\ VerifyOK(p) /\ jwksNow \in Nat /\ Ttl \in Nat \ {0}
      /\ RoundTrip \in Nat
  BY JwksAssumption DEF JwksIInv, JwksTypeOK
<1>2. CASE verify'[p].pc = verify[p].pc
  BY <1>2
<1>3. CASE ReceiveKeys(p)
  <2>1. /\ verify[p].pc = "fetch" /\ verify[p].served # None /\ verify[p] \in Verification
        /\ verify'[p] = Answered(verify[p].kid \in verify[p].served)
    BY <1>1, <1>3, VerifyTypes DEF ReceiveKeys, NotVerifying, Answered, JwksTypeOK
  <2>2. /\ verify[p].served \in SUBSET Kids /\ verify[p].sent \in Nat /\ verify[p].kid \in Kids
        /\ retiredAt[verify[p].kid] \in Nat
    BY <1>1, <2>1 DEF Verification, JwksTypeOK
  <2>3. CASE verify[p].kid \in verify[p].served
    <3>1. verify'[p].pc = "found" /\ Recent(verify[p].kid, verify[p].sent)
      BY <1>1, <2>1, <2>3 DEF Answered, VerifyOK
    <3>2. jwksNow <= verify[p].sent + RoundTrip
      BY <1>1, <2>1 DEF VerifyOK
    <3>3. QED BY <1>1, <2>2, <3>1, <3>2 DEF Recent
  <2>4. CASE verify[p].kid \notin verify[p].served
    <3>1. verify'[p].pc = "unknown" /\ ~verify[p].always
      BY <1>1, <2>1, <2>4 DEF Answered, VerifyOK
    <3>2. QED BY <3>1
  <2>5. QED BY <2>3, <2>4
<1>4. CASE LookUp(p)
  <2>1. verify[p].pc = "wait" /\ verify[p] \in Verification
    BY <1>1, <1>4, VerifyTypes DEF LookUp, NotVerifying, Answered
  <2>2. CASE MustFetch(p)
    BY <1>1, <1>4, <2>1, <2>2 DEF LookUp, JwksTypeOK, Verification
  <2>3. CASE ~MustFetch(p)
    <3>1. /\ jwks.at # None /\ ~(jwksNow >= jwks.at + Ttl) /\ verify[p].kid \in jwks.keys
          /\ verify'[p] = Answered(TRUE)
      BY <1>1, <1>4, <2>3 DEF LookUp, MustFetch, Stale, JwksTypeOK
    <3>2. jwks.at \in Nat /\ retiredAt[verify[p].kid] \in Nat
      BY <1>1, <3>1 DEF JwksTypeOK
    <3>3. verify'[p].pc = "found"
      BY <3>1 DEF Answered
    <3>4. verify[p].kid \in published \/ jwks.at <= retiredAt[verify[p].kid] + RoundTrip
      BY <1>1, <3>1 DEF CacheOK
    <3>5. verify[p].kid \in published \/ jwksNow < retiredAt[verify[p].kid] + Ttl + RoundTrip
      BY <1>1, <3>1, <3>2, <3>4
    <3>6. QED BY <3>3, <3>5
  <2>4. QED BY <2>2, <2>3
<1>5. CASE verify'[p].pc \notin {"unknown", "found"}
  BY <1>5
<1>6. ASSUME NEW q \in Procs, q # p, verify' = [verify EXCEPT ![q] = verify'[q]]
      PROVE  verify'[p].pc = verify[p].pc
  BY <1>1, <1>6 DEF JwksTypeOK
<1>7. CASE JwksTick \/ (\E k \in Kids : PublishKey(k)) \/ UNCHANGED jwksVars
  BY <1>2, <1>7 DEF JwksTick, PublishKey, jwksVars
<1>8. CASE \E k \in Kids : RetireKey(k)
  <2>1. verify'[p].pc = verify[p].pc
    <3>1. CASE verify[p] \in Verification
      BY <1>8, <3>1 DEF RetireKey, Verification
    <3>2. CASE verify[p] \in {NotVerifying, Answered(TRUE), Answered(FALSE)}
      BY <1>8, <3>2 DEF RetireKey, NotVerifying, Answered
    <3>3. QED BY <1>1, <3>1, <3>2, VerifyTypes
  <2>2. QED BY <1>2, <2>1
<1>9. ASSUME NEW q \in Procs,
             \/ \E k \in Kids : AskForKey(q, k)
             \/ LookUp(q) \/ ServeKeys(q) \/ ReceiveKeys(q) \/ LeaveVerify(q)
      PROVE  \/ verify'[p].pc = verify[p].pc
             \/ verify'[p].pc \notin {"unknown", "found"}
             \/ LookUp(p) \/ ReceiveKeys(p)
  <2>1. CASE q # p
    BY <1>1, <1>9, <2>1 DEF JwksTypeOK, AskForKey, LookUp, ServeKeys, ReceiveKeys, LeaveVerify
  <2>2. CASE q = p /\ (LeaveVerify(p) \/ \E k \in Kids : AskForKey(p, k))
    BY <1>1, <2>2 DEF JwksTypeOK, AskForKey, LeaveVerify, NotVerifying
  <2>3. CASE q = p /\ ServeKeys(p)
    <3>1. verify[p] \in Verification
      BY <1>1, <2>3, VerifyTypes DEF ServeKeys, NotVerifying, Answered
    <3>2. QED BY <1>1, <2>3, <3>1 DEF ServeKeys, JwksTypeOK, Verification
  <2>4. QED BY <1>9, <2>1, <2>2, <2>3
<1>10. QED
  <2>1. CASE \E q \in Procs : \/ \E k \in Kids : AskForKey(q, k)
                              \/ LookUp(q) \/ ServeKeys(q) \/ ReceiveKeys(q) \/ LeaveVerify(q)
    <3>1. \/ verify'[p].pc = verify[p].pc
          \/ verify'[p].pc \notin {"unknown", "found"}
          \/ LookUp(p) \/ ReceiveKeys(p)
      BY <1>9, <2>1
    <3>2. QED BY <1>2, <1>3, <1>4, <1>5, <3>1
  <2>2. QED BY <1>7, <1>8, <2>1 DEF JwksNext

\* A rotation of the keys locks out nobody whose key was there all along, and
\* a retired key is accepted for a TTL and a round trip at most
\* (google.rs:451-456, :535-552).
THEOREM KeysAnswered == JwksSpec => KeyAnswers
<1>1. JwksIInv /\ [JwksNext]_jwksVars =>
        [\A p \in Procs :
          /\ verify[p].pc # "unknown" /\ verify'[p].pc = "unknown" => ~verify[p].always
          /\ verify[p].pc # "found" /\ verify'[p].pc = "found" =>
                \/ verify[p].kid \in published
                \/ jwksNow < retiredAt[verify[p].kid] + Ttl + RoundTrip]_jwksVars
  BY AnswerStep
<1>2. QED BY <1>1, JwksInvariant, PTL DEF JwksSpec, KeyAnswers

-----------------------------------------------------------------------------
(* Playground                                                              *)

\* A message appended is under way with those that were.
LEMMA UnderWayAppend ==
    ASSUME NEW M, NEW box \in Seq(M), NEW m, NEW kind
    PROVE  UnderWay(Append(box, m), kind) <=> UnderWay(box, kind) \/ m \in kind
<1>1. /\ Len(Append(box, m)) = Len(box) + 1
      /\ \A i \in 1 .. Len(box) : Append(box, m)[i] = box[i]
      /\ Append(box, m)[Len(box) + 1] = m
      /\ Len(box) \in Nat
      /\ DOMAIN box = 1 .. Len(box)
      /\ DOMAIN Append(box, m) = 1 .. (Len(box) + 1)
    BY SMT
<1> QED  BY <1>1, SMT DEF UnderWay

\* What is under way is the head or behind it.
LEMMA UnderWayTail ==
    ASSUME NEW M, NEW box \in Seq(M), box # <<>>, NEW kind
    PROVE  UnderWay(box, kind) <=> Head(box) \in kind \/ UnderWay(Tail(box), kind)
<1> DEFINE n == Len(box)
<1>1. /\ n \in Nat /\ n > 0
      /\ DOMAIN box = 1 .. n /\ DOMAIN Tail(box) = 1 .. (n - 1)
      /\ Head(box) = box[1]
      /\ \A i \in 1 .. (n - 1) : Tail(box)[i] = box[i + 1]
    BY SMT
<1>2. ASSUME UnderWay(box, kind), Head(box) \notin kind  PROVE UnderWay(Tail(box), kind)
  <2>1. PICK i \in 1 .. n : box[i] \in kind
      BY <1>1, <1>2 DEF UnderWay
  <2>2. i # 1 /\ i - 1 \in 1 .. (n - 1) /\ Tail(box)[i - 1] = box[i]
      BY <1>1, <1>2, <2>1, SMT
  <2> QED  BY <2>1, <2>2, <1>1 DEF UnderWay
<1>3. ASSUME UnderWay(Tail(box), kind)  PROVE UnderWay(box, kind)
  <2>1. PICK i \in 1 .. (n - 1) : Tail(box)[i] \in kind
      BY <1>1, <1>3 DEF UnderWay
  <2> QED  BY <2>1, <1>1, SMT DEF UnderWay
<1>4. Head(box) \in kind => UnderWay(box, kind)
    BY <1>1, SMT DEF UnderWay
<1> QED  BY <1>2, <1>3, <1>4

LEMMA UnderWayNothing == ASSUME NEW kind PROVE ~UnderWay(<<>>, kind)
BY SMT DEF UnderWay

\* A message of another kind does not change what the last of this kind says.
LEMMA LastSaysOther ==
    ASSUME NEW M, NEW box \in Seq(M), NEW m, NEW kind, m \notin kind, NEW s,
           LastSays(box, kind, s)
    PROVE  LastSays(Append(box, m), kind, s)
<1> DEFINE more == Append(box, m)
<1>1. /\ Len(box) \in Nat
      /\ DOMAIN box = 1 .. Len(box) /\ DOMAIN more = 1 .. (Len(box) + 1)
      /\ \A i \in 1 .. Len(box) : more[i] = box[i]
      /\ more[Len(box) + 1] = m
    BY SMT
<1> SUFFICES ASSUME NEW i \in DOMAIN more, more[i] \in kind,
                    \A j \in DOMAIN more : j > i => more[j] \notin kind
             PROVE  more[i].state = s
    BY DEF LastSays
<1>2. i \in DOMAIN box /\ more[i] = box[i]
    BY <1>1, SMT
<1>3. \A j \in DOMAIN box : j > i => box[j] \notin kind
    BY <1>1, SMT
<1> QED  BY <1>2, <1>3 DEF LastSays

\* A new message of the kind is the last.
LEMMA LastSaysNew ==
    ASSUME NEW M, NEW box \in Seq(M), NEW m, NEW kind, m \in kind
    PROVE  LastSays(Append(box, m), kind, m.state)
<1> DEFINE more == Append(box, m)
<1>1. /\ Len(box) \in Nat
      /\ DOMAIN more = 1 .. (Len(box) + 1)
      /\ more[Len(box) + 1] = m
    BY SMT
<1> SUFFICES ASSUME NEW i \in DOMAIN more, more[i] \in kind,
                    \A j \in DOMAIN more : j > i => more[j] \notin kind
             PROVE  more[i].state = m.state
    BY DEF LastSays
<1>2. i = Len(box) + 1
    BY <1>1, SMT
<1> QED  BY <1>1, <1>2

\* Taking the first message off leaves the last of the kind, if there is one.
LEMMA LastSaysTail ==
    ASSUME NEW M, NEW box \in Seq(M), box # <<>>, NEW kind, NEW s, LastSays(box, kind, s)
    PROVE  /\ LastSays(Tail(box), kind, s)
           /\ Head(box) \in kind /\ ~UnderWay(Tail(box), kind) => Head(box).state = s
<1> DEFINE n == Len(box)
<1>1. /\ n \in Nat /\ n > 0
      /\ DOMAIN box = 1 .. n /\ DOMAIN Tail(box) = 1 .. (n - 1)
      /\ Head(box) = box[1]
      /\ \A i \in 1 .. (n - 1) : Tail(box)[i] = box[i + 1]
    BY SMT
<1>2. ASSUME NEW i \in DOMAIN Tail(box), Tail(box)[i] \in kind,
             \A j \in DOMAIN Tail(box) : j > i => Tail(box)[j] \notin kind
      PROVE  Tail(box)[i].state = s
  <2>1. i + 1 \in 1 .. n /\ box[i + 1] = Tail(box)[i]
      BY <1>1, SMT
  <2>2. ASSUME NEW j \in 1 .. n, j > i + 1  PROVE box[j] \notin kind
    <3>1. j - 1 \in 1 .. (n - 1) /\ j - 1 > i /\ Tail(box)[j - 1] = box[j]
        BY <1>1, <2>2, SMT
    <3> QED  BY <3>1, <1>1, <1>2
  <2> QED  BY <1>1, <1>2, <2>1, <2>2 DEF LastSays
<1>3. ASSUME Head(box) \in kind, ~UnderWay(Tail(box), kind)  PROVE Head(box).state = s
  <2>1. ASSUME NEW j \in 1 .. n, j > 1  PROVE box[j] \notin kind
    <3>1. j - 1 \in 1 .. (n - 1) /\ Tail(box)[j - 1] = box[j]
        BY <1>1, <2>1, SMT
    <3> QED  BY <3>1, <1>1, <1>3 DEF UnderWay
  <2>2. 1 \in 1 .. n
      BY <1>1, SMT
  <2> QED  BY <1>1, <1>3, <2>1, <2>2 DEF LastSays
<1> QED  BY <1>2, <1>3 DEF LastSays

\* The three messages a page gets, and the two its shim gets.
LEMMA ParentMessage ==
    ASSUME NEW m \in MessagesToParent
    PROVE  /\ m.type = "ready" \/ m.type = "state" \/ m.type = "call"
           /\ m.type = "ready" => m \in Readies /\ m \notin NewStates /\ \A c : m \notin CallsOf(c)
           /\ m.type = "state" =>
                m \in NewStates /\ m \notin Readies /\ m.state \in AppStates /\ \A c : m \notin CallsOf(c)
           /\ m.type = "call" =>
                /\ m \notin Readies /\ m \notin NewStates /\ m.id \in AppCalls /\ m.allowed \in BOOLEAN
                /\ m \in CallsOf(m.id) /\ \A c : m \in CallsOf(c) => c = m.id
BY SMT DEF MessagesToParent, Readies, NewStates, CallsOf

LEMMA ChildMessage ==
    ASSUME NEW m \in MessagesToChild
    PROVE  /\ m.type = "init" \/ m.type = "response"
           /\ m.type = "init" =>
                m \in Inits /\ m.state \in Linked /\ \A c : m \notin ResponsesTo(c)
           /\ m.type = "response" =>
                /\ m \notin Inits /\ m.id \in AppCalls /\ m = ApiResponse(m.id)
                /\ \A c : m \in ResponsesTo(c) <=> c = m.id
BY SMT DEF MessagesToChild, Inits, ResponsesTo, ApiResponse

LEMMA HostMessages ==
    /\ \A s \in Linked : [type |-> "init", state |-> s] \in MessagesToChild
    /\ \A s \in Linked : [type |-> "init", state |-> s] \in Inits
    /\ \A s \in Linked : [type |-> "init", state |-> s].state = s
    /\ \A s \in Linked : [type |-> "init", state |-> s].type = "init"
    /\ \A c \in AppCalls : ApiResponse(c) \in MessagesToChild /\ ApiResponse(c) \in ResponsesTo(c)
BY SMT DEF MessagesToChild, Inits, ResponsesTo, ApiResponse

LEMMA ShimMessages ==
    /\ [type |-> "ready"] \in MessagesToParent /\ [type |-> "ready"].type = "ready"
    /\ \A s \in AppStates : LET m == [type |-> "state", state |-> s]
                            IN  m \in MessagesToParent /\ m.type = "state" /\ m.state = s
    /\ \A c \in AppCalls, a \in BOOLEAN :
           LET m == [type |-> "call", id |-> c, allowed |-> a]
           IN  m \in MessagesToParent /\ m.type = "call" /\ m.id = c
BY SMT DEF MessagesToParent

\* Appending to a box and taking its head keep what every message says.
LEMMA EveryMessage ==
    ASSUME NEW M, NEW box \in Seq(M), NEW S, \A i \in DOMAIN box : box[i] \in S
    PROVE  /\ \A m \in S : \A i \in DOMAIN Append(box, m) : Append(box, m)[i] \in S
           /\ box # <<>> => Head(box) \in S /\ \A i \in DOMAIN Tail(box) : Tail(box)[i] \in S
<1>1. ASSUME NEW m \in S, NEW i \in DOMAIN Append(box, m)  PROVE Append(box, m)[i] \in S
  <2>1. /\ DOMAIN box = 1 .. Len(box) /\ DOMAIN Append(box, m) = 1 .. (Len(box) + 1)
        /\ \A j \in 1 .. Len(box) : Append(box, m)[j] = box[j]
        /\ Append(box, m)[Len(box) + 1] = m /\ Len(box) \in Nat
      BY SMT
  <2> QED  BY <2>1, SMT
<1>2. ASSUME box # <<>>
      PROVE  Head(box) \in S /\ \A i \in DOMAIN Tail(box) : Tail(box)[i] \in S
  <2>1. /\ DOMAIN box = 1 .. Len(box) /\ DOMAIN Tail(box) = 1 .. (Len(box) - 1)
        /\ Len(box) \in Nat /\ Len(box) > 0 /\ Head(box) = box[1]
        /\ \A j \in 1 .. (Len(box) - 1) : Tail(box)[j] = box[j + 1]
      BY <1>2, SMT
  <2> QED  BY <2>1, SMT
<1> QED  BY <1>1, <1>2

LEMMA BoxTypes ==
    ASSUME NEW M, NEW box \in Seq(M)
    PROVE  /\ \A m \in M : Append(box, m) \in Seq(M)
           /\ box # <<>> => Head(box) \in M /\ Tail(box) \in Seq(M)
           /\ <<>> \in Seq(M)
BY SMT

LEMMA InitMessageFacts ==
    ASSUME PlaygroundTypeOK
    PROVE  /\ InitMessage \in MessagesToChild /\ InitMessage \in Inits
           /\ InitMessage.type = "init" /\ InitMessage.state = shareLink
BY HostMessages DEF PlaygroundTypeOK, InitMessage

LEMMA PlaygroundInitInv == PlaygroundInit => PlaygroundIInv
<1> SUFFICES ASSUME PlaygroundInit PROVE PlaygroundIInv
    OBVIOUS
<1>1. PlaygroundTypeOK
  <2>1. <<>> \in Seq(MessagesToChild) /\ <<>> \in Seq(MessagesToParent)
      BY SMT
  <2>2. fetches \in [AppCalls -> {"none", "pending", "settled"}]
      BY DEF PlaygroundInit
  <2> QED  BY <2>1, <2>2 DEF PlaygroundInit, PlaygroundTypeOK, Linked
<1>2. PageInv /\ HandshakeInv /\ FreshInv
    BY SMT DEF PlaygroundInit, PageInv, HandshakeInv, FreshInv
<1>3. StateInv
    BY SMT DEF PlaygroundInit, StateInv, LastSays
<1>4. FetchInv
    BY SMT DEF PlaygroundInit, FetchInv
<1> QED  BY <1>1, <1>2, <1>3, <1>4 DEF PlaygroundIInv

\* The host comes up: the frame has had nothing from it yet.
LEMMA AttachInv == PlaygroundIInv /\ Attach => PlaygroundIInv'
<1> SUFFICES ASSUME PlaygroundIInv, Attach PROVE PlaygroundIInv'
    OBVIOUS
<1> USE DEF PlaygroundIInv
<1>1. /\ toChild = <<>> /\ ~initialised /\ toChild \in Seq(MessagesToChild)
      /\ InitMessage \in MessagesToChild /\ InitMessage \in Inits
    BY InitMessageFacts DEF Attach, PageInv, PlaygroundTypeOK
<1>2. PlaygroundTypeOK'
    BY <1>1, BoxTypes DEF Attach, PlaygroundTypeOK, shimVars
<1>3. PageInv'
    BY DEF Attach, PageInv, shimVars
<1>4. UnderWay(toChild', Inits)
    BY <1>1, UnderWayAppend DEF Attach
<1>5. HandshakeInv'
    BY <1>4 DEF Attach, HandshakeInv, UnderWay
<1>6. \A i \in DOMAIN toChild' : toChild'[i] \in {InitMessage}
  <2>1. \A i \in DOMAIN toChild : toChild[i] \in {InitMessage}
      BY <1>1
  <2> QED  BY <1>1, <2>1, EveryMessage DEF Attach
<1>7. FreshInv'
    BY <1>1, <1>6 DEF Attach, FreshInv, InitMessage, shimVars
<1>8. StateInv'
    BY DEF Attach, StateInv, LastSays, UnderWay, shimVars
<1>9. FetchInv'
    BY <1>1 DEF Attach, FetchInv, FreshInv, shimVars
<1> QED  BY <1>2, <1>3, <1>5, <1>7, <1>8, <1>9

\* The timer fires: the address bar shows what it holds, unless it is too large.
LEMMA UpdateUrlInv == PlaygroundIInv /\ UpdateUrl => PlaygroundIInv'
<1> SUFFICES ASSUME PlaygroundIInv, UpdateUrl PROVE PlaygroundIInv'
    OBVIOUS
<1> USE DEF PlaygroundIInv
<1>1. initialised /\ frame # "none"
    BY DEF UpdateUrl, FreshInv, PageInv
<1>2. PlaygroundTypeOK'
    BY DEF UpdateUrl, PlaygroundTypeOK, Linked, shimVars
<1>3. PageInv' /\ HandshakeInv' /\ FreshInv'
    BY <1>1 DEF UpdateUrl, PageInv, HandshakeInv, FreshInv, UnderWay, shimVars
<1>4. StateInv'
    BY DEF UpdateUrl, StateInv, LastSays, UnderWay, shimVars
<1>5. FetchInv'
    BY DEF UpdateUrl, FetchInv, UnderWay, shimVars
<1> QED  BY <1>2, <1>3, <1>4, <1>5

\* A fetch comes back: the call is answered.
LEMMA ProxyAnswersInv ==
    ASSUME PlaygroundIInv, NEW c \in AppCalls, ProxyAnswers(c)
    PROVE  PlaygroundIInv'
<1> USE DEF PlaygroundIInv
<1>1. /\ initialised /\ hosted /\ frame # "none"
      /\ toChild \in Seq(MessagesToChild) /\ ApiResponse(c) \in MessagesToChild
    BY HostMessages DEF ProxyAnswers, FreshInv, PageInv, PlaygroundTypeOK
<1>2. PlaygroundTypeOK'
    BY <1>1, BoxTypes DEF ProxyAnswers, PlaygroundTypeOK, shimVars
<1>3. PageInv' /\ HandshakeInv' /\ FreshInv'
    BY <1>1 DEF ProxyAnswers, PageInv, HandshakeInv, FreshInv, shimVars
<1>4. StateInv'
    BY DEF ProxyAnswers, StateInv, LastSays, UnderWay, shimVars
<1>5. ASSUME NEW d \in AppCalls, fetches'[d] = "pending"
      PROVE  (d \in proxied \/ UnderWay(toParent, CallsOf(d)) \/ UnderWay(toChild, ResponsesTo(d)))'
  <2>1. d \in proxied \/ UnderWay(toParent, CallsOf(d)) \/ UnderWay(toChild, ResponsesTo(d))
      BY <1>5 DEF ProxyAnswers, FetchInv, shimVars
  <2>2. \A kind : UnderWay(toChild', kind) <=> UnderWay(toChild, kind) \/ ApiResponse(c) \in kind
      BY <1>1, UnderWayAppend DEF ProxyAnswers
  <2>3. UnderWay(toChild', ResponsesTo(d)) <=> UnderWay(toChild, ResponsesTo(d))'
      BY DEF UnderWay, ResponsesTo
  <2>4. d = c => UnderWay(toChild', ResponsesTo(d))
      BY <2>2, HostMessages
  <2>5. UnderWay(toChild, ResponsesTo(d)) => UnderWay(toChild', ResponsesTo(d))
      BY <2>2
  <2>6. UnderWay(toParent, CallsOf(d)) => UnderWay(toParent, CallsOf(d))'
      BY DEF ProxyAnswers, UnderWay, CallsOf
  <2>7. d \in proxied /\ d # c => d \in proxied'
      BY DEF ProxyAnswers
  <2> QED  BY <2>1, <2>3, <2>4, <2>5, <2>6, <2>7
<1>6. FetchInv'
    BY <1>5 DEF FetchInv
<1> QED  BY <1>2, <1>3, <1>4, <1>6

\* The blank page goes, with the INIT posted to it: the shim has not started.
LEMMA DocumentStartsInv == PlaygroundIInv /\ DocumentStarts => PlaygroundIInv'
<1> SUFFICES ASSUME PlaygroundIInv, DocumentStarts PROVE PlaygroundIInv'
    OBVIOUS
<1> USE DEF PlaygroundIInv
<1>1. ~initialised
    BY DEF DocumentStarts, PageInv
<1>2. PlaygroundTypeOK'
  <2>1. <<>> \in Seq(MessagesToChild)
      BY SMT
  <2> QED  BY <2>1 DEF DocumentStarts, PlaygroundTypeOK, hostVars, shimVars
<1>3. PageInv' /\ HandshakeInv'
    BY <1>1 DEF DocumentStarts, PageInv, HandshakeInv, hostVars, shimVars
<1>4. FreshInv'
  <2>1. DOMAIN toChild' = {}
      BY SMT DEF DocumentStarts
  <2> QED  BY <1>1, <2>1 DEF DocumentStarts, FreshInv, hostVars, shimVars
<1>5. StateInv'
    BY DEF DocumentStarts, StateInv, LastSays, UnderWay, hostVars, shimVars
<1>6. FetchInv'
    BY <1>1 DEF DocumentStarts, FetchInv, FreshInv, hostVars, shimVars
<1> QED  BY <1>2, <1>3, <1>4, <1>5, <1>6

\* The shim says READY, which is what a host already there will answer.
LEMMA ShimRunsInv == PlaygroundIInv /\ ShimRuns => PlaygroundIInv'
<1> SUFFICES ASSUME PlaygroundIInv, ShimRuns PROVE PlaygroundIInv'
    OBVIOUS
<1> USE DEF PlaygroundIInv
<1> DEFINE m == [type |-> "ready"]
<1>1. /\ ~initialised /\ toParent \in Seq(MessagesToParent)
      /\ m \in MessagesToParent /\ m \in Readies /\ m \notin NewStates
    BY ShimMessages, ParentMessage DEF ShimRuns, PageInv, PlaygroundTypeOK
<1>2. toParent' = Append(toParent, m)
    BY DEF ShimRuns
<1> HIDE DEF m
<1>3. PlaygroundTypeOK'
    BY <1>1, <1>2, BoxTypes DEF ShimRuns, PlaygroundTypeOK, hostVars, shimVars
<1>4. PageInv'
    BY DEF ShimRuns, PageInv, hostVars, shimVars
<1>5. \A kind : UnderWay(toParent', kind) <=> UnderWay(toParent, kind) \/ m \in kind
    BY <1>1, <1>2, UnderWayAppend
<1>6. HandshakeInv'
    BY <1>1, <1>5 DEF HandshakeInv, UnderWay
<1>7. FreshInv'
  <2>1. \A i \in DOMAIN toParent' : toParent'[i] \in Readies
      BY <1>1, <1>2, EveryMessage DEF FreshInv
  <2> QED  BY <2>1, <1>1 DEF ShimRuns, FreshInv, InitMessage, hostVars, shimVars
<1>8. StateInv'
  <2>1. LastSays(toParent', NewStates, told)
      BY <1>1, <1>2, LastSaysOther DEF StateInv
  <2>2. LastSays(toParent, NewStates, told)'
      BY <2>1 DEF ShimRuns, LastSays, shimVars
  <2>3. UnderWay(toParent, NewStates)' <=> UnderWay(toParent, NewStates)
      BY <1>1, <1>5 DEF UnderWay
  <2> QED  BY <2>2, <2>3 DEF ShimRuns, StateInv, hostVars, shimVars
<1>9. FetchInv'
    BY <1>1 DEF ShimRuns, FetchInv, FreshInv, hostVars, shimVars
<1> QED  BY <1>3, <1>4, <1>6, <1>7, <1>8, <1>9

\* One more INIT, for a frame that loads or that says READY.
LEMMA InitPosted ==
    ASSUME PlaygroundIInv, hosted, toChild' = Append(toChild, InitMessage),
           UNCHANGED <<shareLink, shimVars>>
    PROVE  /\ toChild' \in Seq(MessagesToChild)
           /\ UnderWay(toChild', Inits)
           /\ ~initialised => \A i \in DOMAIN toChild' : toChild'[i] = InitMessage'
           /\ \A kind : UnderWay(toChild, kind) => UnderWay(toChild', kind)
<1> USE DEF PlaygroundIInv
<1>1. toChild \in Seq(MessagesToChild) /\ InitMessage \in MessagesToChild /\ InitMessage \in Inits
    BY InitMessageFacts DEF PlaygroundTypeOK
<1>2. \A kind : UnderWay(toChild', kind) <=> UnderWay(toChild, kind) \/ InitMessage \in kind
    BY <1>1, UnderWayAppend
<1>3. ASSUME ~initialised  PROVE \A i \in DOMAIN toChild' : toChild'[i] = InitMessage
  <2>1. \A i \in DOMAIN toChild : toChild[i] \in {InitMessage}
      BY <1>3 DEF FreshInv
  <2>2. \A i \in DOMAIN toChild' : toChild'[i] \in {InitMessage}
      BY <2>1, <1>1, EveryMessage
  <2> QED  BY <2>2
<1>4. InitMessage' = InitMessage
    BY DEF InitMessage
<1> QED  BY <1>1, <1>2, <1>3, <1>4, BoxTypes

LEMMA FrameLoadsInv == PlaygroundIInv /\ FrameLoads => PlaygroundIInv'
<1> SUFFICES ASSUME PlaygroundIInv, FrameLoads PROVE PlaygroundIInv'
    OBVIOUS
<1> USE DEF PlaygroundIInv
<1>1. CASE hosted
  <2>1. toChild' = Append(toChild, InitMessage) /\ UNCHANGED <<shareLink, shimVars>>
      BY <1>1 DEF FrameLoads, hostVars
  <2>2. /\ toChild' \in Seq(MessagesToChild)
        /\ UnderWay(toChild', Inits)
        /\ ~initialised => \A i \in DOMAIN toChild' : toChild'[i] = InitMessage'
        /\ \A kind : UnderWay(toChild, kind) => UnderWay(toChild', kind)
      BY <2>1, <1>1, InitPosted
  <2>3. PlaygroundTypeOK'
      BY <2>2 DEF FrameLoads, PlaygroundTypeOK, hostVars, shimVars
  <2>4. PageInv' /\ HandshakeInv'
      BY <1>1, <2>2 DEF FrameLoads, PageInv, HandshakeInv, UnderWay, hostVars, shimVars
  <2>5. FreshInv'
      BY <2>2 DEF FrameLoads, FreshInv, hostVars, shimVars
  <2>6. StateInv'
      BY DEF FrameLoads, StateInv, LastSays, UnderWay, hostVars, shimVars
  <2>7. FetchInv'
    <3>1. \A c : UnderWay(toChild, ResponsesTo(c)) => UnderWay(toChild, ResponsesTo(c))'
        BY <2>2 DEF UnderWay, ResponsesTo
    <3>2. \A c : UnderWay(toParent, CallsOf(c)) => UnderWay(toParent, CallsOf(c))'
        BY DEF FrameLoads, UnderWay, CallsOf
    <3> QED  BY <3>1, <3>2 DEF FrameLoads, FetchInv, hostVars, shimVars
  <2> QED  BY <2>3, <2>4, <2>5, <2>6, <2>7
<1>2. CASE ~hosted
  <2>1. UNCHANGED <<hostVars, shimVars, toChild, toParent>>
      BY <1>2 DEF FrameLoads
  <2>2. PlaygroundTypeOK'
      BY <2>1 DEF FrameLoads, PlaygroundTypeOK, hostVars, shimVars
  <2>3. PageInv' /\ HandshakeInv' /\ FreshInv'
      BY <1>2, <2>1 DEF FrameLoads, PageInv, HandshakeInv, FreshInv, InitMessage, hostVars, shimVars
  <2>4. StateInv' /\ FetchInv'
      BY <2>1 DEF StateInv, FetchInv, LastSays, UnderWay, CallsOf, ResponsesTo, hostVars, shimVars
  <2> QED  BY <2>2, <2>3, <2>4
<1> QED  BY <1>1, <1>2

\* The child is told its state once: what the link says, which is what it was
\* given with the page.
LEMMA ChildHearsInv == PlaygroundIInv /\ ChildHears => PlaygroundIInv'
<1> SUFFICES ASSUME PlaygroundIInv, ChildHears PROVE PlaygroundIInv'
    OBVIOUS
<1> USE DEF PlaygroundIInv
<1> DEFINE m == Head(toChild)
<1>1. /\ toChild # <<>> /\ toChild \in Seq(MessagesToChild)
      /\ m \in MessagesToChild /\ toChild' = Tail(toChild) /\ toChild' \in Seq(MessagesToChild)
    BY BoxTypes DEF ChildHears, PlaygroundTypeOK
<1>2. UNCHANGED <<frame, hosted, shareLink, latestState, urlTimer, proxied, toParent>>
    BY DEF ChildHears, hostVars
<1>3. \A kind : UnderWay(toChild, kind) <=> m \in kind \/ UnderWay(toChild', kind)
    BY <1>1, UnderWayTail
<1>4. ~initialised => /\ m = InitMessage /\ m.type = "init" /\ m.state = shareLink
                      /\ \A i \in DOMAIN toChild' : toChild'[i] = InitMessage
  <2>1. SUFFICES ASSUME ~initialised
                 PROVE  m = InitMessage /\ \A i \in DOMAIN toChild' : toChild'[i] = InitMessage
      BY InitMessageFacts
  <2>2. \A i \in DOMAIN toChild : toChild[i] \in {InitMessage}
      BY <2>1 DEF FreshInv
  <2>3. m \in {InitMessage} /\ \A i \in DOMAIN Tail(toChild) : Tail(toChild)[i] \in {InitMessage}
      BY <2>2, <1>1, EveryMessage
  <2> QED  BY <2>3, <1>1
<1>5. CASE frame \notin {"shim", "loaded"}
  <2>1. UNCHANGED shimVars /\ ~initialised
      BY <1>5 DEF ChildHears, PageInv
  <2>2. PlaygroundTypeOK'
      BY <1>1, <1>2, <2>1 DEF PlaygroundTypeOK, shimVars
  <2>3. hosted
      BY <1>1 DEF PageInv
  <2>4. PageInv' /\ HandshakeInv'
      BY <1>2, <1>5, <2>1, <2>3 DEF PageInv, HandshakeInv, shimVars
  <2>5. FreshInv'
      BY <1>2, <1>4, <2>1 DEF FreshInv, InitMessage, shimVars
  <2>6. StateInv' /\ FetchInv'
      BY <1>2, <2>1 DEF StateInv, FetchInv, FreshInv, LastSays, UnderWay, shimVars
  <2> QED  BY <2>2, <2>4, <2>5, <2>6
<1>6. CASE frame \in {"shim", "loaded"} /\ m.type = "init"
  <2>1. /\ initialised' = TRUE /\ fetches' = fetches
        /\ told' = IF initialised THEN told ELSE m.state
      BY <1>6 DEF ChildHears, PlaygroundTypeOK
  <2>2. told' = told
      BY <1>4, <2>1 DEF FreshInv
  <2>3. hosted
      BY <1>1 DEF PageInv
  <2>4. PlaygroundTypeOK'
      BY <1>1, <1>2, <2>1, <2>2 DEF PlaygroundTypeOK
  <2>5. PageInv' /\ HandshakeInv' /\ FreshInv'
      BY <1>2, <1>6, <2>1, <2>3 DEF PageInv, HandshakeInv, FreshInv
  <2>6. StateInv'
      BY <1>2, <2>2 DEF StateInv, LastSays, UnderWay
  <2>7. FetchInv'
    <3>1. \A c : m \notin ResponsesTo(c)
        BY <1>1, <1>6, ChildMessage
    <3>2. \A c : UnderWay(toChild, ResponsesTo(c)) => UnderWay(toChild, ResponsesTo(c))'
        BY <1>3, <3>1 DEF UnderWay, ResponsesTo
    <3>3. \A c : UnderWay(toParent, CallsOf(c)) => UnderWay(toParent, CallsOf(c))'
        BY <1>2 DEF UnderWay, CallsOf
    <3> QED  BY <1>2, <2>1, <3>2, <3>3 DEF FetchInv
  <2> QED  BY <2>4, <2>5, <2>6, <2>7
<1>7. CASE frame \in {"shim", "loaded"} /\ m.type = "response"
  <2>1. initialised
      BY <1>4, <1>7
  <2>2. m.id \in AppCalls /\ \A c : m \in ResponsesTo(c) <=> c = m.id
      BY <1>1, <1>7, ChildMessage
  <2>3. /\ initialised' = TRUE /\ told' = told
        /\ fetches' = [fetches EXCEPT ![m.id] = "settled"]
      BY <1>7, <2>1 DEF ChildHears
  <2>4. hosted
      BY <1>1 DEF PageInv
  <2>5. PlaygroundTypeOK'
      BY <1>1, <1>2, <2>2, <2>3 DEF PlaygroundTypeOK
  <2>6. PageInv' /\ HandshakeInv' /\ FreshInv'
      BY <1>2, <1>7, <2>3, <2>4 DEF PageInv, HandshakeInv, FreshInv
  <2>7. StateInv'
      BY <1>2, <2>3 DEF StateInv, LastSays, UnderWay
  <2>8. FetchInv'
    <3>1. \A c \in AppCalls : fetches'[c] = "pending" => c # m.id /\ fetches[c] = "pending"
        BY <2>2, <2>3 DEF PlaygroundTypeOK
    <3>2. \A c : c # m.id /\ UnderWay(toChild, ResponsesTo(c)) => UnderWay(toChild, ResponsesTo(c))'
        BY <1>3, <2>2 DEF UnderWay, ResponsesTo
    <3>3. \A c : UnderWay(toParent, CallsOf(c)) => UnderWay(toParent, CallsOf(c))'
        BY <1>2 DEF UnderWay, CallsOf
    <3> QED  BY <1>2, <3>1, <3>2, <3>3 DEF FetchInv
  <2> QED  BY <2>5, <2>6, <2>7, <2>8
<1> QED  BY <1>1, <1>5, <1>6, <1>7, ChildMessage

\* The app sets a state: the message is the last one that says so.
LEMMA SetStateInv ==
    ASSUME PlaygroundIInv, NEW s \in AppStates, SetState(s)
    PROVE  PlaygroundIInv'
<1> USE DEF PlaygroundIInv
<1> DEFINE m == [type |-> "state", state |-> s]
<1>1. /\ initialised /\ initialised' /\ hosted /\ toParent \in Seq(MessagesToParent)
      /\ m \in MessagesToParent /\ m \in NewStates /\ m.state = s
    BY ShimMessages, ParentMessage DEF SetState, PageInv, PlaygroundTypeOK
<1>2. toParent' = Append(toParent, m)
    BY DEF SetState
<1> HIDE DEF m
<1>3. PlaygroundTypeOK'
    BY <1>1, <1>2, BoxTypes DEF SetState, PlaygroundTypeOK, hostVars
<1>4. PageInv' /\ HandshakeInv' /\ FreshInv'
    BY <1>1 DEF SetState, PageInv, HandshakeInv, FreshInv, hostVars
<1>5. \A kind : UnderWay(toParent', kind) <=> UnderWay(toParent, kind) \/ m \in kind
    BY <1>1, <1>2, UnderWayAppend
<1>6. StateInv'
  <2>1. told' = s /\ LastSays(toParent', NewStates, m.state)
      BY <1>1, <1>2, LastSaysNew DEF SetState
  <2>2. LastSays(toParent, NewStates, told)' /\ UnderWay(toParent, NewStates)'
      BY <1>1, <1>5, <2>1 DEF LastSays, UnderWay
  <2> QED  BY <2>2 DEF StateInv
<1>7. FetchInv'
  <2>1. \A c : UnderWay(toParent, CallsOf(c)) => UnderWay(toParent, CallsOf(c))'
      BY <1>5 DEF UnderWay, CallsOf
  <2>2. \A c : UnderWay(toChild, ResponsesTo(c)) => UnderWay(toChild, ResponsesTo(c))'
      BY DEF SetState, UnderWay, ResponsesTo
  <2> QED  BY <2>1, <2>2 DEF SetState, FetchInv, hostVars
<1> QED  BY <1>3, <1>4, <1>6, <1>7

\* The app calls: the call is under way.
LEMMA FetchStepInv ==
    ASSUME PlaygroundIInv, NEW c \in AppCalls, NEW allowed \in BOOLEAN, Fetch(c, allowed)
    PROVE  PlaygroundIInv'
<1> USE DEF PlaygroundIInv
<1> DEFINE m == [type |-> "call", id |-> c, allowed |-> allowed]
<1>1. /\ initialised /\ initialised' /\ hosted /\ toParent \in Seq(MessagesToParent)
      /\ m \in MessagesToParent /\ m \notin NewStates /\ m \in CallsOf(c)
    BY ShimMessages, ParentMessage DEF Fetch, PageInv, PlaygroundTypeOK
<1>2. toParent' = Append(toParent, m)
    BY DEF Fetch
<1> HIDE DEF m
<1>3. PlaygroundTypeOK'
    BY <1>1, <1>2, BoxTypes DEF Fetch, PlaygroundTypeOK, hostVars
<1>4. PageInv' /\ HandshakeInv' /\ FreshInv'
    BY <1>1 DEF Fetch, PageInv, HandshakeInv, FreshInv, hostVars
<1>5. \A kind : UnderWay(toParent', kind) <=> UnderWay(toParent, kind) \/ m \in kind
    BY <1>1, <1>2, UnderWayAppend
<1>6. StateInv'
  <2>1. LastSays(toParent', NewStates, told)
      BY <1>1, <1>2, LastSaysOther DEF StateInv
  <2>2. LastSays(toParent, NewStates, told)'
      BY <2>1 DEF Fetch, LastSays
  <2>3. UnderWay(toParent, NewStates)' <=> UnderWay(toParent, NewStates)
      BY <1>1, <1>5 DEF UnderWay
  <2> QED  BY <2>2, <2>3 DEF Fetch, StateInv, hostVars
<1>7. FetchInv'
  <2>1. \A d : UnderWay(toParent, CallsOf(d)) => UnderWay(toParent, CallsOf(d))'
      BY <1>5 DEF UnderWay, CallsOf
  <2>2. \A d : UnderWay(toChild, ResponsesTo(d)) => UnderWay(toChild, ResponsesTo(d))'
      BY DEF Fetch, UnderWay, ResponsesTo
  <2>3. UnderWay(toParent, CallsOf(c))'
      BY <1>1, <1>5 DEF UnderWay, CallsOf
  <2>4. \A d \in AppCalls : d # c => fetches'[d] = fetches[d]
      BY DEF Fetch, PlaygroundTypeOK
  <2> QED  BY <2>1, <2>2, <2>3, <2>4 DEF Fetch, FetchInv, hostVars
<1> QED  BY <1>3, <1>4, <1>6, <1>7

LEMMA EnterPageInv ==
    ASSUME PlaygroundIInv, NEW s \in Linked, EnterPage(s)
    PROVE  PlaygroundIInv'
<1> USE DEF PlaygroundIInv
<1>1. ~hosted /\ ~initialised /\ toChild = <<>> /\ toParent = <<>> /\ toChild' = <<>> /\ toParent' = <<>>
    BY DEF EnterPage, PageInv
<1>2. PlaygroundTypeOK'
    BY DEF EnterPage, PlaygroundTypeOK, Linked
<1>3. PageInv' /\ HandshakeInv'
    BY <1>1 DEF EnterPage, PageInv, HandshakeInv
<1>4. FreshInv'
  <2>1. DOMAIN toChild' = {}
      BY <1>1, SMT
  <2> QED  BY <1>1, <2>1 DEF EnterPage, FreshInv
<1>5. StateInv'
  <2>1. DOMAIN toParent' = {}
      BY <1>1, SMT
  <2> QED  BY <1>1, <2>1 DEF EnterPage, StateInv, FreshInv, LastSays
<1>6. FetchInv'
    BY <1>1 DEF EnterPage, FetchInv, FreshInv
<1> QED  BY <1>2, <1>3, <1>4, <1>5, <1>6

\* A page that is left leaves nothing behind.
LEMMA LeavePageInv == PlaygroundIInv /\ LeavePage => PlaygroundIInv'
<1> SUFFICES ASSUME PlaygroundIInv, LeavePage PROVE PlaygroundIInv'
    OBVIOUS
<1> USE DEF PlaygroundIInv
<1>1. toChild' = <<>> /\ toParent' = <<>> /\ DOMAIN toChild' = {} /\ DOMAIN toParent' = {}
    BY SMT DEF LeavePage, PageGone
<1>2. PlaygroundTypeOK'
  <2>1. <<>> \in Seq(MessagesToChild) /\ <<>> \in Seq(MessagesToParent)
      BY SMT
  <2> QED  BY <2>1 DEF LeavePage, PageGone, PlaygroundTypeOK, Linked
<1>3. PageInv' /\ HandshakeInv' /\ FreshInv'
    BY <1>1 DEF LeavePage, PageGone, PageInv, HandshakeInv, FreshInv
<1>4. StateInv'
    BY <1>1 DEF LeavePage, PageGone, StateInv, LastSays
<1>5. FetchInv'
    BY DEF LeavePage, PageGone, FetchInv
<1> QED  BY <1>2, <1>3, <1>4, <1>5

\* The page hears the shim: READY brings an INIT, a state waits for the timer, a
\* call is being fetched or is refused at once.
LEMMA ParentHearsInv == PlaygroundIInv /\ ParentHears => PlaygroundIInv'
<1> SUFFICES ASSUME PlaygroundIInv, ParentHears PROVE PlaygroundIInv'
    OBVIOUS
<1> USE DEF PlaygroundIInv
<1> DEFINE m == Head(toParent)
<1>1. /\ toParent # <<>> /\ toParent \in Seq(MessagesToParent)
      /\ m \in MessagesToParent /\ toParent' = Tail(toParent) /\ toParent' \in Seq(MessagesToParent)
    BY BoxTypes DEF ParentHears, PlaygroundTypeOK
<1>2. UNCHANGED <<frame, hosted, shareLink, shimVars, initialised, fetches, told>>
    BY DEF ParentHears, shimVars
<1>3. \A kind : UnderWay(toParent, kind) <=> m \in kind \/ UnderWay(toParent', kind)
    BY <1>1, UnderWayTail
<1>4. /\ ~initialised => m \in Readies /\ \A i \in DOMAIN toParent' : toParent'[i] \in Readies
    BY <1>1, EveryMessage DEF FreshInv
<1>5. /\ LastSays(toParent, NewStates, told)'
      /\ m \in NewStates /\ ~UnderWay(toParent, NewStates)' => m.state = told
  <2>1. /\ LastSays(Tail(toParent), NewStates, told)
        /\ m \in NewStates /\ ~UnderWay(Tail(toParent), NewStates) => m.state = told
      BY <1>1, LastSaysTail DEF StateInv
  <2> QED  BY <2>1, <1>1, <1>2 DEF LastSays, UnderWay
<1>6. UnderWay(toParent, NewStates) <=> m \in NewStates \/ UnderWay(toParent, NewStates)'
    BY <1>3 DEF UnderWay
<1>7. /\ m.type = "ready" \/ m.type = "state" \/ m.type = "call"
      /\ m.type = "ready" => m \in Readies /\ m \notin NewStates /\ \A c : m \notin CallsOf(c)
      /\ m.type = "state" =>
           m \in NewStates /\ m \notin Readies /\ m.state \in AppStates /\ \A c : m \notin CallsOf(c)
      /\ m.type = "call" =>
           /\ m \notin Readies /\ m \notin NewStates /\ m.id \in AppCalls /\ m.allowed \in BOOLEAN
           /\ m \in CallsOf(m.id) /\ \A c : m \in CallsOf(c) => c = m.id
    BY <1>1, ParentMessage
<1>8. \A c : UnderWay(toParent, CallsOf(c)) => m \in CallsOf(c) \/ UnderWay(toParent, CallsOf(c))'
    BY <1>3 DEF UnderWay, CallsOf
<1> HIDE DEF m
<1>9. CASE ~hosted
  <2>1. ~initialised /\ UNCHANGED <<latestState, urlTimer, proxied, toChild>>
      BY <1>9 DEF ParentHears, PageInv
  <2>2. PlaygroundTypeOK' /\ PageInv' /\ HandshakeInv'
      BY <1>1, <1>2, <1>9, <2>1 DEF PlaygroundTypeOK, PageInv, HandshakeInv
  <2>3. FreshInv'
      BY <1>2, <1>4, <2>1 DEF FreshInv, InitMessage
  <2>4. StateInv'
      BY <1>2, <1>4, <1>5, <1>6, <1>7, <2>1, <1>1 DEF StateInv, FreshInv
  <2>5. FetchInv'
      BY <1>2, <2>1 DEF FetchInv, FreshInv
  <2> QED  BY <2>2, <2>3, <2>4, <2>5
<1>10. CASE hosted /\ m.type = "ready"
  <2>1. toChild' = Append(toChild, InitMessage) /\ UNCHANGED <<latestState, urlTimer, proxied>>
      BY <1>10 DEF ParentHears, HandleMessage, m
  <2>2. /\ toChild' \in Seq(MessagesToChild)
        /\ UnderWay(toChild', Inits)
        /\ ~initialised => \A i \in DOMAIN toChild' : toChild'[i] = InitMessage'
        /\ \A kind : UnderWay(toChild, kind) => UnderWay(toChild', kind)
      BY <1>2, <1>10, <2>1, InitPosted
  <2>3. PlaygroundTypeOK'
      BY <1>1, <1>2, <2>1, <2>2 DEF PlaygroundTypeOK
  <2>4. PageInv' /\ HandshakeInv'
      BY <1>2, <1>10, <2>2 DEF PageInv, HandshakeInv, UnderWay
  <2>5. FreshInv'
      BY <1>2, <1>4, <2>1, <2>2 DEF FreshInv
  <2>6. StateInv'
      BY <1>2, <1>5, <1>6, <1>7, <1>10, <2>1 DEF StateInv
  <2>7. FetchInv'
    <3>1. \A c : UnderWay(toChild, ResponsesTo(c)) => UnderWay(toChild, ResponsesTo(c))'
        BY <2>2 DEF UnderWay, ResponsesTo
    <3> QED  BY <1>2, <1>7, <1>8, <1>10, <2>1, <3>1 DEF FetchInv
  <2> QED  BY <2>3, <2>4, <2>5, <2>6, <2>7
<1>11. CASE hosted /\ m.type = "state"
  <2>1. latestState' = m.state /\ urlTimer' = TRUE /\ UNCHANGED <<proxied, toChild>>
      BY <1>11 DEF ParentHears, HandleMessage, m
  <2>2. initialised
      BY <1>4, <1>7, <1>11
  <2>3. PlaygroundTypeOK'
      BY <1>1, <1>2, <1>7, <1>11, <2>1 DEF PlaygroundTypeOK
  <2>4. PageInv' /\ HandshakeInv' /\ FreshInv'
      BY <1>2, <1>11, <2>1, <2>2 DEF PageInv, HandshakeInv, FreshInv
  <2>5. StateInv'
      BY <1>2, <1>5, <1>7, <1>11, <2>1 DEF StateInv
  <2>6. FetchInv'
    <3>1. \A c : UnderWay(toChild, ResponsesTo(c)) => UnderWay(toChild, ResponsesTo(c))'
        BY <2>1 DEF UnderWay, ResponsesTo
    <3> QED  BY <1>2, <1>7, <1>8, <1>11, <2>1, <3>1 DEF FetchInv
  <2> QED  BY <2>3, <2>4, <2>5, <2>6
<1>12. CASE hosted /\ m.type = "call"
  <2>1. PICK c \in AppCalls : c = m.id
      BY <1>7, <1>12
  <2>2. /\ UNCHANGED <<latestState, urlTimer>>
        /\ \/ proxied' = proxied \cup {c} /\ toChild' = toChild
           \/ toChild' = Append(toChild, ApiResponse(c)) /\ proxied' = proxied
      BY <1>12, <2>1 DEF ParentHears, HandleMessage, m
  <2>3. initialised
      BY <1>4, <1>7, <1>12
  <2>4. /\ toChild \in Seq(MessagesToChild)
        /\ ApiResponse(c) \in MessagesToChild /\ ApiResponse(c) \in ResponsesTo(c)
      BY HostMessages DEF PlaygroundTypeOK
  <2>5. toChild' \in Seq(MessagesToChild) /\ proxied' \subseteq AppCalls
      BY <2>2, <2>4, BoxTypes DEF PlaygroundTypeOK
  <2>6. PlaygroundTypeOK'
      BY <1>1, <1>2, <2>2, <2>5 DEF PlaygroundTypeOK
  <2>7. PageInv' /\ HandshakeInv' /\ FreshInv'
      BY <1>2, <1>12, <2>2, <2>3 DEF PageInv, HandshakeInv, FreshInv
  <2>8. StateInv'
      BY <1>2, <1>5, <1>6, <1>7, <1>12, <2>2 DEF StateInv
  <2>9. FetchInv'
    <3>1. CASE proxied' = proxied \cup {c} /\ toChild' = toChild
      <4>1. \A d : UnderWay(toChild, ResponsesTo(d)) => UnderWay(toChild, ResponsesTo(d))'
          BY <3>1 DEF UnderWay, ResponsesTo
      <4> QED  BY <1>2, <1>7, <1>8, <1>12, <2>1, <3>1, <4>1 DEF FetchInv
    <3>2. CASE toChild' = Append(toChild, ApiResponse(c)) /\ proxied' = proxied
      <4>1. \A kind : UnderWay(toChild', kind) <=> UnderWay(toChild, kind) \/ ApiResponse(c) \in kind
          BY <2>4, <3>2, UnderWayAppend
      <4>2. \A d : UnderWay(toChild, ResponsesTo(d)) => UnderWay(toChild, ResponsesTo(d))'
          BY <4>1 DEF UnderWay, ResponsesTo
      <4>3. UnderWay(toChild, ResponsesTo(c))'
          BY <2>4, <4>1 DEF UnderWay, ResponsesTo
      <4> QED  BY <1>2, <1>7, <1>8, <1>12, <2>1, <3>2, <4>2, <4>3 DEF FetchInv
    <3> QED  BY <2>2, <3>1, <3>2
  <2> QED  BY <2>6, <2>7, <2>8, <2>9
<1> QED  BY <1>7, <1>9, <1>10, <1>11, <1>12

THEOREM PlaygroundInvariant == PlaygroundSpec => []PlaygroundIInv
<1>1. PlaygroundIInv /\ [PlaygroundNext]_playgroundVars => PlaygroundIInv'
  <2> SUFFICES ASSUME PlaygroundIInv, [PlaygroundNext]_playgroundVars  PROVE PlaygroundIInv'
      OBVIOUS
  <2>1. CASE UNCHANGED playgroundVars
      BY <2>1 DEF PlaygroundIInv, PlaygroundTypeOK, PageInv, HandshakeInv, FreshInv, StateInv,
                  FetchInv, UnderWay, LastSays, CallsOf, ResponsesTo, InitMessage,
                  playgroundVars, hostVars, shimVars
  <2>2. CASE PlaygroundNext
      BY <2>2, AttachInv, ParentHearsInv, UpdateUrlInv, DocumentStartsInv, ShimRunsInv,
         FrameLoadsInv, ChildHearsInv, SetStateInv, FetchStepInv, ProxyAnswersInv, EnterPageInv,
         LeavePageInv DEF PlaygroundNext
  <2> QED  BY <2>1, <2>2
<1> QED  BY PlaygroundInitInv, <1>1, PTL DEF PlaygroundSpec

THEOREM PlaygroundSettles == PlaygroundSpec => []AtRest
<1>1. PlaygroundIInv => AtRest
  <2> SUFFICES ASSUME PlaygroundIInv  PROVE AtRest
      OBVIOUS
  <2>1. frame = "none" => shareLink = None
      BY DEF PlaygroundIInv, PageInv
  <2>2. ASSUME hosted, Quiet, frame \in {"shim", "loaded"}
        PROVE  /\ initialised
               /\ told \notin TooLarge => shareLink = told
               /\ \A c \in AppCalls : fetches[c] # "pending"
    <3>1. \A kind : ~UnderWay(toParent, kind) /\ ~UnderWay(toChild, kind)
        BY <2>2, UnderWayNothing DEF Quiet
    <3> QED  BY <2>2, <3>1 DEF PlaygroundIInv, HandshakeInv, StateInv, FetchInv, Quiet
  <2> QED  BY <2>1, <2>2 DEF AtRest
<1> QED  BY PlaygroundInvariant, <1>1, PTL

-----------------------------------------------------------------------------
(* Calendar                                                                *)

\* The name of a solar term is that of one index.
LEMMA QingMingIsSeventh ==
    \A t \in 1 .. 24 : SolarTerms[t] = "QingMing" <=> t = 7
<1> SUFFICES ASSUME NEW t \in 1 .. 24 PROVE SolarTerms[t] = "QingMing" <=> t = 7
    OBVIOUS
<1> QED  BY SMT DEF SolarTerms

LEMMA QingMingHoliday ==
    ASSUME NEW date, Supported(date.year)
    PROVE  "QingMing" \in HolidaysOn(date) <=>
             MovableHolidays[date.year].QingMing = <<date.month, date.day>>
<1>1. date.year = 2024 \/ date.year = 2025 \/ date.year = 2026 \/ date.year = 2027
    BY DEF Supported
<1>2. "QingMing" \notin DOMAIN FixedHolidays
    BY DEF FixedHolidays
<1>3. "QingMing" \in DOMAIN MovableHolidays[date.year]
    BY <1>1 DEF MovableHolidays
<1>4. MovableHolidays[date.year]["QingMing"] = MovableHolidays[date.year].QingMing
    OBVIOUS
<1> QED  BY <1>2, <1>3, <1>4 DEF HolidaysOn, OnDay

LEMMA QingMingTerm ==
    ASSUME NEW date, Supported(date.year)
    PROVE  "QingMing" \in SolarTermOn(date) <=> date.month = 4 /\ date.day = TermDays[date.year][7]
<1>1. SolarTermOn(date) = {SolarTerms[t] : t \in {t \in 1..24 :
             (t + 1) \div 2 = date.month /\ TermDays[date.year][t] = date.day}}
    BY DEF SolarTermOn
<1>2. "QingMing" \in SolarTermOn(date) <=>
          (7 + 1) \div 2 = date.month /\ TermDays[date.year][7] = date.day
    BY <1>1, QingMingIsSeventh
<1> QED  BY <1>2

LEMMA TablesAgree ==
    \A y \in 2024 .. 2027 : MovableHolidays[y].QingMing = <<4, TermDays[y][7]>>
<1> SUFFICES ASSUME NEW y \in 2024 .. 2027 PROVE MovableHolidays[y].QingMing = <<4, TermDays[y][7]>>
    OBVIOUS
<1>1. CASE y = 2024  BY <1>1 DEF MovableHolidays, TermDays
<1>2. CASE y = 2025  BY <1>2 DEF MovableHolidays, TermDays
<1>3. CASE y = 2026  BY <1>3 DEF MovableHolidays, TermDays
<1>4. CASE y = 2027  BY <1>4 DEF MovableHolidays, TermDays
<1> QED  BY <1>1, <1>2, <1>3, <1>4

\* Whatever the day.
THEOREM QingMingEveryDay == CalendarSpec => []QingMingAgrees
<1>1. QingMingAgrees
  <2>1. CASE ~Supported(today.year)
      BY <2>1 DEF QingMingAgrees, HolidaysOn, SolarTermOn
  <2>2. CASE Supported(today.year)
    <3>1. MovableHolidays[today.year].QingMing = <<4, TermDays[today.year][7]>>
        BY <2>2, TablesAgree DEF Supported
    <3> QED  BY <2>2, <3>1, QingMingHoliday, QingMingTerm DEF QingMingAgrees
  <2> QED  BY <2>1, <2>2
<1> QED  BY <1>1, PTL

-----------------------------------------------------------------------------
(* LlmsTxt: the pages of a snapshot                                        *)

\* Induction over the naturals, for a set instead of a predicate.
LEMMA NatSetInduction ==
    ASSUME NEW S, 0 \in S, \A n \in Nat : n \in S => n + 1 \in S
    PROVE  Nat \subseteq S
<1> DEFINE R == OpToRel(<, Nat)
           T == Nat \ S
<1>1. IsWellFoundedOn(R, Nat)
    BY NatLessThanWellFounded, Zenon
<1>2. \A x, y \in Nat : x < y => <<x, y>> \in R
    BY DEF OpToRel
<1>3. SUFFICES ASSUME T # {} PROVE FALSE
    OBVIOUS
<1> HIDE DEF R
<1>4. PICK x \in T : \A y \in T : ~(<<y, x>> \in R)
  <2>1. T \subseteq Nat
      OBVIOUS
  <2> HIDE DEF T
  <2> QED  BY <1>1, <1>3, <2>1, WFMin
<1>5. x \in Nat /\ x # 0 /\ x - 1 \in Nat /\ x - 1 < x
    OBVIOUS
<1>6. x - 1 \in T
    BY <1>5
<1> QED  BY <1>2, <1>4, <1>5, <1>6


\* f takes steps 1 to n from the base.
Iterates(f, n, S, base, step) ==
    f \in [0 .. n -> S] /\ f[0] = base /\ \A i \in 1 .. n : f[i] = step[i][f[i - 1]]

StepsOn(n, S) == [1 .. n -> [S -> S]]

\* There is such a function, whatever the steps.
LEMMA Iteration ==
    ASSUME NEW n \in Nat, NEW S, NEW base \in S, NEW step \in StepsOn(n, S)
    PROVE  \E f : Iterates(f, n, S, base, step)
<1> DEFINE Good == {k \in Nat : k <= n => \E f : Iterates(f, k, S, base, step)}
<1>1. 0 \in Good
  <2>1. Iterates([i \in 0 .. 0 |-> base], 0, S, base, step)
      BY DEF Iterates
  <2> QED  BY <2>1
<1>2. ASSUME NEW k \in Nat, k \in Good  PROVE k + 1 \in Good
  <2>1. SUFFICES ASSUME k + 1 <= n  PROVE \E g : Iterates(g, k + 1, S, base, step)
      OBVIOUS
  <2>2. PICK f : Iterates(f, k, S, base, step)
      BY <1>2, <2>1
  <2>3. f \in [0 .. k -> S] /\ f[0] = base /\ \A i \in 1 .. k : f[i] = step[i][f[i - 1]]
      BY <2>2 DEF Iterates
  <2> DEFINE g == [i \in 0 .. (k + 1) |-> IF i = k + 1 THEN step[k + 1][f[k]] ELSE f[i]]
  <2>4. step[k + 1][f[k]] \in S
      BY <2>1, <2>3 DEF StepsOn
  <2>5. g \in [0 .. (k + 1) -> S]
      BY <2>3, <2>4
  <2>6. g[0] = base
      BY <2>3
  <2>7. ASSUME NEW i \in 1 .. (k + 1)  PROVE g[i] = step[i][g[i - 1]]
    <3>1. i - 1 \in 0 .. k /\ i \in 0 .. (k + 1) /\ i - 1 \in 0 .. (k + 1) /\ i - 1 # k + 1
        OBVIOUS
    <3>2. g[i - 1] = f[i - 1] /\ g[i] = IF i = k + 1 THEN step[k + 1][f[k]] ELSE f[i]
        BY <3>1
    <3>3. CASE i = k + 1
        BY <3>2, <3>3
    <3>4. CASE i \in 1 .. k
        BY <2>3, <3>2, <3>4
    <3> QED  BY <3>3, <3>4
  <2> HIDE DEF g
  <2>8. Iterates(g, k + 1, S, base, step)
      BY <2>5, <2>6, <2>7 DEF Iterates
  <2> QED  BY <2>8
<1> HIDE DEF Good
<1>3. Nat \subseteq Good
    BY <1>1, <1>2, NatSetInduction
<1> QED  BY <1>3 DEF Good

\* The size of hits is the sum of their weights, one after the other.
Sums(hits) == CHOOSE sum : sum = [i \in 0 .. Len(hits) |-> IF i = 0 THEN 0 ELSE sum[i - 1] + Weight[hits[i]]]

LEMMA SumsOfHits ==
    ASSUME NEW hits \in Seq(Entries)
    PROVE  /\ Sums(hits) \in [0 .. Len(hits) -> Nat] /\ Sums(hits)[0] = 0
           /\ \A i \in 1 .. Len(hits) : Sums(hits)[i] = Sums(hits)[i - 1] + Weight[hits[i]]
           /\ Size(hits) = Sums(hits)[Len(hits)]
<1> DEFINE n == Len(hits)
           w == [i \in 1 .. n |-> Weight[hits[i]]]
           step == [i \in 1 .. n |-> [x \in Nat |-> x + w[i]]]
           sum == Sums(hits)
<1>1. n \in Nat /\ w \in [1 .. n -> Nat]
    BY LlmsAssumption
<1>2. Size(hits) = sum[n]
    BY DEF Size, Sums
<1> HIDE DEF n, w, sum
<1>4. step \in StepsOn(n, Nat)
    BY <1>1 DEF StepsOn
<1>5. PICK h : Iterates(h, n, Nat, 0, step)
  <2> HIDE DEF step
  <2> QED BY <1>1, <1>4, Iteration
<1>6. \A i \in 1 .. n : h[i - 1] \in Nat /\ h[i] = h[i - 1] + w[i]
  <2> SUFFICES ASSUME NEW i \in 1 .. n  PROVE h[i - 1] \in Nat /\ h[i] = h[i - 1] + w[i]
      OBVIOUS
  <2>1. h[i - 1] \in Nat
    <3>1. i - 1 \in 0 .. n
        BY <1>1
    <3> QED  BY <3>1, <1>5 DEF Iterates
  <2>2. h[i] = step[i][h[i - 1]]
      BY <1>5 DEF Iterates
  <2> QED  BY <2>1, <2>2
<1> HIDE DEF step
<1>7. h \in [0 .. n -> Nat] /\ h[0] = 0
    BY <1>5 DEF Iterates
<1>8. h = [i \in 0 .. n |-> IF i = 0 THEN 0 ELSE h[i - 1] + Weight[hits[i]]]
  <2>1. \A i \in 1 .. n : w[i] = Weight[hits[i]]
      BY DEF w, n
  <2>2. \A i \in 0 .. n : h[i] = IF i = 0 THEN 0 ELSE h[i - 1] + Weight[hits[i]]
      BY <1>1, <1>6, <1>7, <2>1
  <2> QED  BY <1>7, <2>2
<1>9. sum = [i \in 0 .. n |-> IF i = 0 THEN 0 ELSE sum[i - 1] + Weight[hits[i]]]
    BY <1>8, Zenon DEF sum, Sums, n
<1>10. \A i \in 0 .. n : sum[i] = IF i = 0 THEN 0 ELSE sum[i - 1] + w[i]
  <2>1. \A i \in 1 .. n : w[i] = Weight[hits[i]]
      BY DEF w, n
  <2> QED  BY <1>1, <1>9, <2>1
<1>11. \A i \in 0 .. n : sum[i] \in Nat
  <2> DEFINE Good == {k \in Nat : k <= n => sum[k] \in Nat}
  <2>1. 0 \in Good
      BY <1>1, <1>10
  <2>2. ASSUME NEW k \in Nat, k \in Good  PROVE k + 1 \in Good
    <3>1. CASE k + 1 <= n
      <4>1. sum[k + 1] = sum[k] + w[k + 1] /\ w[k + 1] \in Nat
          BY <1>1, <1>10, <3>1
      <4> QED  BY <1>1, <2>2, <3>1, <4>1
    <3> QED  BY <3>1, <1>1
  <2> HIDE DEF Good
  <2>3. Nat \subseteq Good
      BY <2>1, <2>2, NatSetInduction
  <2> QED  BY <2>3, <1>1 DEF Good
<1>12. sum \in [0 .. n -> Nat]
    BY <1>9, <1>11
<1>13. \A i \in 1 .. n : sum[i] = sum[i - 1] + Weight[hits[i]]
    BY <1>1, <1>9
<1>14. sum[0] = 0
    BY <1>1, <1>10
<1> QED  BY <1>2, <1>12, <1>13, <1>14 DEF sum, n

LEMMA SizeType == ASSUME NEW hits \in Seq(Entries) PROVE Size(hits) \in Nat
BY SumsOfHits

\* One more hit weighs what it weighs.
LEMMA SizeAppend ==
    ASSUME NEW hits \in Seq(Entries), NEW d \in Entries
    PROVE  Size(Append(hits, d)) = Size(hits) + Weight[d]
<1> DEFINE n == Len(hits)
           more == Append(hits, d)
<1>1. /\ more \in Seq(Entries) /\ n \in Nat /\ Len(more) = n + 1
      /\ more[n + 1] = d /\ \A i \in 1 .. n : more[i] = hits[i]
    OBVIOUS
<1>2. /\ Sums(hits)[0] = 0 /\ Size(hits) = Sums(hits)[n]
      /\ \A i \in 1 .. n : Sums(hits)[i] = Sums(hits)[i - 1] + Weight[hits[i]]
    BY SumsOfHits
<1> HIDE DEF more, n
<1>3. /\ Sums(more)[0] = 0 /\ Size(more) = Sums(more)[n + 1]
      /\ \A i \in 1 .. (n + 1) : Sums(more)[i] = Sums(more)[i - 1] + Weight[more[i]]
    BY <1>1, SumsOfHits
<1> DEFINE Good == {k \in Nat : k <= n => Sums(more)[k] = Sums(hits)[k]}
<1>4. 0 \in Good
    BY <1>2, <1>3
<1>5. ASSUME NEW k \in Nat, k \in Good  PROVE k + 1 \in Good
  <2>1. CASE k + 1 <= n
    <3>1. k + 1 \in 1 .. n /\ k + 1 \in 1 .. (n + 1) /\ (k + 1) - 1 = k
        BY <1>1, <2>1
    <3>2. Sums(more)[k + 1] = Sums(more)[k] + Weight[more[k + 1]]
        BY <1>3, <3>1
    <3>3. Sums(hits)[k + 1] = Sums(hits)[k] + Weight[hits[k + 1]]
        BY <1>2, <3>1
    <3>4. Sums(more)[k] = Sums(hits)[k] /\ more[k + 1] = hits[k + 1]
        BY <1>1, <1>5, <2>1, <3>1
    <3>5. Sums(more)[k + 1] = Sums(hits)[k + 1]
        BY <3>2, <3>3, <3>4
    <3> QED  BY <3>5
  <2> QED  BY <2>1, <1>1
<1> HIDE DEF Good
<1>6. Nat \subseteq Good
    BY <1>4, <1>5, NatSetInduction
<1>7. Sums(more)[n] = Sums(hits)[n]
    BY <1>1, <1>6 DEF Good
<1>8. Sums(more)[n + 1] = Sums(more)[n] + Weight[more[n + 1]]
  <2>1. n + 1 \in 1 .. (n + 1) /\ (n + 1) - 1 = n
      BY <1>1
  <2> QED  BY <1>3, <2>1
<1> QED  BY <1>1, <1>2, <1>3, <1>7, <1>8 DEF more

\* Reading pages one after the other.
Books == Seq(Seq(Entries)) \ {<<>>}

Reading(pages) ==
    CHOOSE flatten : flatten = [i \in 1 .. Len(pages) |->
        IF i = 1 THEN pages[i] ELSE flatten[i - 1] \o pages[i]]

LEMMA ReadingPages ==
    ASSUME NEW pages \in Books
    PROVE  /\ Len(pages) \in Nat \ {0}
           /\ Reading(pages)[1] = pages[1]
           /\ \A i \in 2 .. Len(pages) : Reading(pages)[i] = Reading(pages)[i - 1] \o pages[i]
           /\ \A i \in 1 .. Len(pages) : Reading(pages)[i] \in Seq(Entries)
           /\ FlattenSeq(pages) = Reading(pages)[Len(pages)]
<1> DEFINE n == Len(pages)
           S == Seq(Entries)
           step == [i \in 1 .. n |-> [x \in S |-> x \o pages[i]]]
           read == Reading(pages)
<1>1. /\ n \in Nat \ {0} /\ <<>> \in S
      /\ \A i \in 1 .. n : pages[i] \in S
      /\ \A x \in S, y \in S : x \o y \in S
      /\ \A x \in S : <<>> \o x = x
    BY DEF Books
<1>2. FlattenSeq(pages) = read[n]
    BY <1>1 DEF FlattenSeq, Reading
<1> HIDE DEF n, S, read
<1>3. step \in StepsOn(n, S)
    BY <1>1 DEF StepsOn
<1>4. PICK h : Iterates(h, n, S, <<>>, step)
  <2> HIDE DEF step
  <2> QED  BY <1>1, <1>3, Iteration
<1>5. ASSUME NEW i \in 1 .. n  PROVE h[i - 1] \in S /\ h[i] = h[i - 1] \o pages[i]
  <2>1. h[i - 1] \in S
    <3>1. i - 1 \in 0 .. n
        BY <1>1
    <3> QED  BY <3>1, <1>4 DEF Iterates
  <2>2. h[i] = step[i][h[i - 1]]
      BY <1>4 DEF Iterates
  <2> QED  BY <2>1, <2>2
<1> HIDE DEF step
<1> DEFINE g == [i \in 1 .. n |-> h[i]]
<1>6. \A i \in 1 .. n : g[i] = IF i = 1 THEN pages[i] ELSE g[i - 1] \o pages[i]
  <2>1. h[0] = <<>>
      BY <1>4 DEF Iterates
  <2> SUFFICES ASSUME NEW i \in 1 .. n  PROVE g[i] = IF i = 1 THEN pages[i] ELSE g[i - 1] \o pages[i]
      OBVIOUS
  <2>2. CASE i = 1
    <3>1. h[i] = h[i - 1] \o pages[i]
        BY <1>5
    <3>2. i - 1 = 0
        BY <2>2
    <3>3. h[i] = <<>> \o pages[i]
        BY <2>1, <3>1, <3>2
    <3>4. h[i] = pages[i]
        BY <1>1, <3>3
    <3> QED  BY <2>2, <3>4
  <2>3. CASE i # 1
    <3>1. i - 1 \in 1 .. n
        BY <1>1, <2>3
    <3> QED  BY <1>5, <2>3, <3>1
  <2> QED  BY <2>2, <2>3
<1>7. g = [i \in 1 .. n |-> IF i = 1 THEN pages[i] ELSE g[i - 1] \o pages[i]]
    BY <1>6
<1> HIDE DEF g
<1>8. read = [i \in 1 .. n |-> IF i = 1 THEN pages[i] ELSE read[i - 1] \o pages[i]]
    BY <1>7, Zenon DEF read, Reading, n
<1>9. read[1] = pages[1] /\ \A i \in 2 .. n : i \in 1 .. n /\ read[i] = read[i - 1] \o pages[i]
  <2>1. \A i \in 1 .. n : read[i] = IF i = 1 THEN pages[i] ELSE read[i - 1] \o pages[i]
      BY <1>8, Zenon
  <2>2. 1 \in 1 .. n /\ \A i \in 2 .. n : i \in 1 .. n /\ i # 1
      BY <1>1
  <2> QED  BY <2>1, <2>2
<1>10. \A i \in 1 .. n : read[i] \in S
  <2> DEFINE Good == {k \in Nat : k + 1 <= n => read[k + 1] \in S}
  <2>1. 0 \in Good
      BY <1>1, <1>9
  <2>2. ASSUME NEW k \in Nat, k \in Good  PROVE k + 1 \in Good
    <3>1. CASE k + 2 <= n
      <4>1. k + 2 \in 2 .. n /\ k + 2 \in 1 .. n /\ (k + 2) - 1 = k + 1 /\ (k + 1) + 1 = k + 2
          BY <1>1, <3>1
      <4>2. read[k + 2] = read[k + 1] \o pages[k + 2]
          BY <1>9, <4>1
      <4>3. read[k + 2] \in S
          BY <1>1, <2>2, <3>1, <4>1, <4>2
      <4> QED  BY <4>1, <4>3
    <3> QED  BY <3>1, <1>1
  <2> HIDE DEF Good
  <2>3. Nat \subseteq Good
      BY <2>1, <2>2, NatSetInduction
  <2>4. \A i \in 1 .. n : i - 1 \in Good /\ (i - 1) + 1 = i
      BY <1>1, <2>3
  <2> QED  BY <2>4, <1>1 DEF Good
<1> QED  BY <1>1, <1>2, <1>9, <1>10 DEF n, read, S

LEMMA FlattenOne == ASSUME NEW q \in Seq(Entries) PROVE FlattenSeq(<<q>>) = q
<1>1. <<q>> \in Books /\ Len(<<q>>) = 1 /\ <<q>>[1] = q
    BY DEF Books
<1> QED  BY <1>1, ReadingPages

\* One more page is read after those before it.
LEMMA FlattenAppend ==
    ASSUME NEW pages \in Seq(Seq(Entries)), NEW q \in Seq(Entries)
    PROVE  /\ FlattenSeq(pages) \in Seq(Entries)
           /\ FlattenSeq(Append(pages, q)) = FlattenSeq(pages) \o q
<1>1. CASE pages = <<>>
  <2>1. FlattenSeq(pages) = <<>> /\ Append(pages, q) = <<q>> /\ <<>> \o q = q /\ <<>> \in Seq(Entries)
      BY <1>1 DEF FlattenSeq
  <2> QED  BY <2>1, FlattenOne
<1>2. CASE pages # <<>>
  <2> DEFINE n == Len(pages)
             more == Append(pages, q)
  <2>1. /\ pages \in Books /\ n \in Nat \ {0}
        /\ more \in Books /\ Len(more) = n + 1
        /\ more[n + 1] = q /\ \A i \in 1 .. n : more[i] = pages[i]
    <3>1. more \in Seq(Seq(Entries)) /\ more # <<>> /\ Len(more) = n + 1
        BY AppendProperties
    <3>2. more[n + 1] = q /\ \A i \in 1 .. n : more[i] = pages[i]
        BY AppendProperties
    <3>3. n \in Nat \ {0}
        BY <1>2
    <3> QED  BY <1>2, <3>1, <3>2, <3>3 DEF Books
  <2>2. /\ Reading(pages)[1] = pages[1]
        /\ \A i \in 2 .. n : Reading(pages)[i] = Reading(pages)[i - 1] \o pages[i]
        /\ FlattenSeq(pages) = Reading(pages)[n]
        /\ \A i \in 1 .. n : Reading(pages)[i] \in Seq(Entries)
      BY <2>1, ReadingPages
  <2> HIDE DEF n, more
  <2>3. /\ Reading(more)[1] = more[1]
        /\ \A i \in 2 .. (n + 1) : Reading(more)[i] = Reading(more)[i - 1] \o more[i]
        /\ FlattenSeq(more) = Reading(more)[n + 1]
      BY <2>1, ReadingPages
  <2> DEFINE Good == {k \in Nat : k + 1 <= n => Reading(more)[k + 1] = Reading(pages)[k + 1]}
  <2>4. 0 \in Good
      BY <2>1, <2>2, <2>3
  <2>5. ASSUME NEW k \in Nat, k \in Good  PROVE k + 1 \in Good
    <3>1. CASE k + 2 <= n
      <4>1. /\ k + 2 \in 2 .. n /\ k + 2 \in 2 .. (n + 1) /\ k + 2 \in 1 .. n
            /\ (k + 2) - 1 = k + 1 /\ (k + 1) + 1 = k + 2
          BY <2>1, <3>1
      <4>2. Reading(more)[k + 2] = Reading(more)[k + 1] \o more[k + 2]
          BY <2>3, <4>1
      <4>3. Reading(pages)[k + 2] = Reading(pages)[k + 1] \o pages[k + 2]
          BY <2>2, <4>1
      <4>4. Reading(more)[k + 1] = Reading(pages)[k + 1] /\ more[k + 2] = pages[k + 2]
          BY <2>1, <2>5, <3>1, <4>1
      <4>5. Reading(more)[k + 2] = Reading(pages)[k + 2]
          BY <4>2, <4>3, <4>4
      <4> QED  BY <4>1, <4>5
    <3> QED  BY <3>1, <2>1
  <2> HIDE DEF Good
  <2>6. n - 1 \in Good
    <3>1. Nat \subseteq Good
        BY <2>4, <2>5, NatSetInduction
    <3>2. n - 1 \in Nat
        BY <2>1
    <3> QED  BY <3>1, <3>2
  <2>7. Reading(more)[n] = Reading(pages)[n]
      BY <2>1, <2>6 DEF Good
  <2>8. Reading(more)[n + 1] = Reading(more)[n] \o more[n + 1]
    <3>1. n + 1 \in 2 .. (n + 1) /\ (n + 1) - 1 = n
        BY <2>1
    <3> QED  BY <2>3, <3>1
  <2>9. FlattenSeq(more) = FlattenSeq(pages) \o q
      BY <2>1, <2>2, <2>3, <2>7, <2>8
  <2>10. FlattenSeq(pages) \in Seq(Entries)
      BY <2>1, <2>2
  <2> QED  BY <2>9, <2>10 DEF more
<1> QED  BY <1>1, <1>2

\* What a page of a snapshot of several may be.
PageFits(page) == page # <<>> /\ (Len(page) = 1 \/ Size(page) <= PageBudget)

\* An entry is read after those before it, and it leaves every page as it should be.
LEMMA AddEntryFits ==
    ASSUME NEW pages \in Books, NEW d \in Entries
    PROVE  /\ AddEntry(pages, d) \in Books
           /\ FlattenSeq(AddEntry(pages, d)) = Append(FlattenSeq(pages), d)
           /\ pages = <<<<>>>> \/ (\A i \in DOMAIN pages : PageFits(pages[i])) =>
                \A i \in DOMAIN AddEntry(pages, d) : PageFits(AddEntry(pages, d)[i])
<1> DEFINE n == Len(pages)
           front == Front(pages)
           last == Last(pages)
<1>1. /\ pages \in Seq(Seq(Entries)) /\ n \in Nat \ {0} /\ DOMAIN pages = 1 .. n
      /\ last \in Seq(Entries) /\ last = pages[n]
    BY DEF Books, Last
<1>2. /\ front \in Seq(Seq(Entries)) /\ Len(front) = n - 1
      /\ \A i \in 1 .. (n - 1) : front[i] = pages[i]
    BY <1>1 DEF Front
<1> HIDE DEF n, front, last
<1>3. pages = Append(front, last)
  <2>1. Append(front, last) \in Seq(Seq(Entries)) /\ Len(Append(front, last)) = n
      BY <1>1, <1>2, AppendProperties
  <2>2. \A i \in 1 .. n : Append(front, last)[i] = pages[i]
    <3>1. /\ Append(front, last)[(n - 1) + 1] = last
          /\ \A i \in 1 .. (n - 1) : Append(front, last)[i] = front[i]
        BY <1>1, <1>2, AppendProperties
    <3> QED  BY <1>1, <1>2, <3>1
  <2> QED  BY <1>1, <2>1, <2>2, SeqEqual DEF n
<1>4. FlattenSeq(front) \in Seq(Entries) /\ FlattenSeq(pages) = FlattenSeq(front) \o last
    BY <1>1, <1>2, <1>3, FlattenAppend
<1>5. /\ <<d>> \in Seq(Entries) /\ Append(last, d) \in Seq(Entries) /\ Append(last, d) # <<>>
      /\ Size(last) \in Nat /\ Size(Append(last, d)) = Size(last) + Weight[d]
  <2>1. <<d>> \in Seq(Entries)
      OBVIOUS
  <2>2. Append(last, d) \in Seq(Entries) /\ Append(last, d) # <<>>
      BY <1>1, AppendProperties
  <2>3. Size(last) \in Nat
      BY <1>1, SizeType
  <2>4. Size(Append(last, d)) = Size(last) + Weight[d]
      BY <1>1, SizeAppend
  <2> QED  BY <2>1, <2>2, <2>3, <2>4
<1>6. CASE Size(last) + Weight[d] > PageBudget /\ last # <<>>
  <2>1. AddEntry(pages, d) = Append(pages, <<d>>)
      BY <1>6 DEF AddEntry, last
  <2>2. FlattenSeq(Append(pages, <<d>>)) = FlattenSeq(pages) \o <<d>>
      BY <1>1, <1>5, FlattenAppend
  <2>3. FlattenSeq(pages) \o <<d>> = Append(FlattenSeq(pages), d)
      BY <1>1, FlattenAppend
  <2>4. Append(pages, <<d>>) \in Books
    <3>1. \A q \in Seq(Entries) : Append(pages, q) \in Seq(Seq(Entries)) /\ Append(pages, q) # <<>>
        BY <1>1, AppendProperties
    <3> QED  BY <1>5, <3>1 DEF Books
  <2>5. ASSUME pages = <<<<>>>> \/ \A i \in DOMAIN pages : PageFits(pages[i]),
               NEW i \in DOMAIN Append(pages, <<d>>)
        PROVE  PageFits(Append(pages, <<d>>)[i])
    <3>1. pages # <<<<>>>>
        BY <1>1, <1>6 DEF n
    <3>2. CASE i \in 1 .. n
        BY <1>1, <2>5, <3>1, <3>2 DEF n
    <3>3. CASE i = n + 1
      <4>1. Append(pages, <<d>>)[i] = <<d>> /\ <<d>> # <<>> /\ Len(<<d>>) = 1
          BY <1>1, <3>3 DEF n
      <4> QED  BY <4>1 DEF PageFits
    <3> QED  BY <1>1, <3>2, <3>3 DEF n
  <2> QED  BY <2>1, <2>2, <2>3, <2>4, <2>5
<1>7. CASE ~(Size(last) + Weight[d] > PageBudget /\ last # <<>>)
  <2> DEFINE more == Append(front, Append(last, d))
  <2>1. AddEntry(pages, d) = more
    <3>1. AddEntry(pages, d) = front \o <<Append(last, d)>>
        BY <1>7 DEF AddEntry, last, front
    <3> QED  BY <1>2, <1>5, <3>1
  <2>2. FlattenSeq(more) = FlattenSeq(front) \o Append(last, d)
      BY <1>2, <1>5, FlattenAppend
  <2>3. FlattenSeq(front) \o Append(last, d) = Append(FlattenSeq(front) \o last, d)
      BY <1>1, <1>4
  <2>4. /\ more \in Books /\ DOMAIN more = 1 .. n /\ more[n] = Append(last, d)
        /\ \A i \in 1 .. (n - 1) : more[i] = pages[i]
    <3>1. more \in Seq(Seq(Entries)) /\ more # <<>> /\ Len(more) = n
      <4>1. \A q \in Seq(Entries) :
               /\ Append(front, q) \in Seq(Seq(Entries)) /\ Append(front, q) # <<>>
               /\ Len(Append(front, q)) = (n - 1) + 1
          BY <1>1, <1>2, AppendProperties
      <4>2. Append(last, d) \in Seq(Entries) /\ (n - 1) + 1 = n
          BY <1>1, <1>5
      <4> QED  BY <4>1, <4>2, Zenon
    <3>2. more[(n - 1) + 1] = Append(last, d) /\ \A i \in 1 .. (n - 1) : more[i] = front[i]
        BY <1>1, <1>2, <1>5, AppendProperties
    <3> HIDE DEF more
    <3> QED  BY <1>1, <1>2, <3>1, <3>2, LenProperties DEF Books
  <2> HIDE DEF more
  <2>5. ASSUME pages = <<<<>>>> \/ \A i \in DOMAIN pages : PageFits(pages[i]), NEW i \in DOMAIN more
        PROVE  PageFits(more[i])
    <3>1. CASE i = n
      <4>1. CASE last = <<>>
        <5>1. Len(Append(last, d)) = 1
            BY <4>1
        <5> QED  BY <1>5, <2>4, <3>1, <5>1 DEF PageFits
      <4>2. CASE last # <<>>
        <5>1. Size(Append(last, d)) <= PageBudget
            BY <1>5, <1>7, <4>2, LlmsAssumption
        <5> QED  BY <1>5, <2>4, <3>1, <5>1 DEF PageFits
      <4> QED  BY <4>1, <4>2
    <3>2. CASE i \in 1 .. (n - 1)
      <4>1. pages # <<<<>>>>
          BY <1>1, <3>2 DEF n
      <4>2. i \in DOMAIN pages /\ more[i] = pages[i]
          BY <1>1, <2>4, <3>2
      <4> QED  BY <2>5, <4>1, <4>2
    <3> QED  BY <1>1, <2>4, <3>1, <3>2
  <2> QED  BY <1>4, <2>1, <2>2, <2>3, <2>4, <2>5
<1> QED  BY <1>6, <1>7

Paged(hits) ==
    CHOOSE pages : pages = [i \in 0 .. Len(hits) |->
        IF i = 0 THEN <<<<>>>> ELSE AddEntry(pages[i - 1], hits[i])]

\* The pages that the hits make, read one after the other, are the hits.
LEMMA PagesOfHits ==
    ASSUME NEW hits \in Seq(Entries)
    PROVE  /\ FlattenSeq(PagesOf(hits)) = hits
           /\ hits # <<>> => \A i \in DOMAIN PagesOf(hits) : PageFits(PagesOf(hits)[i])
           /\ hits = <<>> => PagesOf(hits) = <<<<>>>>
<1> DEFINE n == Len(hits)
           step == [i \in 1 .. n |-> [x \in Books |-> AddEntry(x, hits[i])]]
           pages == Paged(hits)
<1>1. n \in Nat /\ (\A i \in 1 .. n : hits[i] \in Entries) /\ (n = 0 <=> hits = <<>>)
    OBVIOUS
<1>2. <<<<>>>> \in Books
    BY DEF Books
<1>3. PagesOf(hits) = pages[n]
    BY DEF PagesOf, Paged
<1> HIDE DEF n, pages
<1>4. step \in StepsOn(n, Books)
    BY <1>1, AddEntryFits DEF StepsOn
<1>5. PICK h : Iterates(h, n, Books, <<<<>>>>, step)
  <2> HIDE DEF step
  <2> QED  BY <1>1, <1>2, <1>4, Iteration
<1>6. ASSUME NEW i \in 1 .. n  PROVE h[i] = AddEntry(h[i - 1], hits[i])
  <2>1. h[i - 1] \in Books
    <3>1. i - 1 \in 0 .. n
        BY <1>1
    <3> QED  BY <3>1, <1>5 DEF Iterates
  <2>2. h[i] = step[i][h[i - 1]]
      BY <1>5 DEF Iterates
  <2> QED  BY <2>1, <2>2
<1> HIDE DEF step
<1>7. h \in [0 .. n -> Books] /\ h[0] = <<<<>>>>
    BY <1>5 DEF Iterates
<1>8. h = [i \in 0 .. n |-> IF i = 0 THEN <<<<>>>> ELSE AddEntry(h[i - 1], hits[i])]
  <2>1. \A i \in 0 .. n : h[i] = IF i = 0 THEN <<<<>>>> ELSE AddEntry(h[i - 1], hits[i])
    <3> SUFFICES ASSUME NEW i \in 0 .. n
                 PROVE  h[i] = IF i = 0 THEN <<<<>>>> ELSE AddEntry(h[i - 1], hits[i])
        OBVIOUS
    <3>1. i = 0 \/ i \in 1 .. n
        BY <1>1
    <3>2. CASE i = 0
        BY <1>7, <3>2
    <3>3. CASE i \in 1 .. n
      <4>1. i # 0
          BY <3>3
      <4> QED  BY <1>6, <3>3, <4>1
    <3> QED  BY <3>1, <3>2, <3>3
  <2> QED  BY <1>7, <2>1
<1>9. pages = [i \in 0 .. n |-> IF i = 0 THEN <<<<>>>> ELSE AddEntry(pages[i - 1], hits[i])]
    BY <1>8, Zenon DEF pages, Paged, n
<1>10. pages[0] = <<<<>>>> /\ \A i \in 1 .. n : pages[i] = AddEntry(pages[i - 1], hits[i])
  <2>1. \A i \in 0 .. n : pages[i] = IF i = 0 THEN <<<<>>>> ELSE AddEntry(pages[i - 1], hits[i])
      BY <1>9, Zenon
  <2>2. 0 \in 0 .. n /\ \A i \in 1 .. n : i \in 0 .. n /\ i # 0
      BY <1>1
  <2> QED  BY <2>1, <2>2
<1> DEFINE Fit(k) == \A i \in DOMAIN pages[k] : PageFits(pages[k][i])
           Good == {k \in Nat : k <= n =>
                       /\ pages[k] \in Books /\ FlattenSeq(pages[k]) = SubSeq(hits, 1, k)
                       /\ k # 0 => Fit(k)}
<1>11. 0 \in Good
  <2>1. SubSeq(hits, 1, 0) = <<>> /\ <<>> \in Seq(Entries)
      OBVIOUS
  <2>2. FlattenSeq(<<<<>>>>) = <<>>
      BY <2>1, FlattenOne
  <2> QED  BY <1>2, <1>10, <2>1, <2>2
<1>12. ASSUME NEW k \in Nat, k \in Good  PROVE k + 1 \in Good
  <2> SUFFICES ASSUME k + 1 <= n
               PROVE  /\ pages[k + 1] \in Books /\ FlattenSeq(pages[k + 1]) = SubSeq(hits, 1, k + 1)
                      /\ Fit(k + 1)
      OBVIOUS
  <2>1. k + 1 \in 1 .. n /\ (k + 1) - 1 = k /\ k <= n
      BY <1>1
  <2>2. pages[k] \in Books /\ FlattenSeq(pages[k]) = SubSeq(hits, 1, k) /\ (k # 0 => Fit(k))
      BY <1>12, <2>1
  <2>3. pages[k + 1] = AddEntry(pages[k], hits[k + 1]) /\ hits[k + 1] \in Entries
      BY <1>1, <1>10, <2>1
  <2>4. pages[k] = <<<<>>>> \/ Fit(k)
      BY <1>10, <2>2
  <2>5. /\ pages[k + 1] \in Books
        /\ FlattenSeq(pages[k + 1]) = Append(FlattenSeq(pages[k]), hits[k + 1])
        /\ Fit(k + 1)
      BY <2>2, <2>3, <2>4, AddEntryFits
  <2>6. Append(SubSeq(hits, 1, k), hits[k + 1]) = SubSeq(hits, 1, k + 1)
    <3>1. SubSeq(hits, 1, k + 1) = SubSeq(hits, 1, (k + 1) - 1) \o <<hits[k + 1]>>
        BY <2>1, SubSeqRecursiveSecond DEF n
    <3>2. SubSeq(hits, 1, k) \in Seq(Entries)
        BY <2>1 DEF n
    <3> QED  BY <2>1, <2>3, <3>1, <3>2
  <2> QED  BY <2>2, <2>5, <2>6
<1> HIDE DEF Good
<1>13. Nat \subseteq Good
    BY <1>11, <1>12, NatSetInduction
<1>14. SubSeq(hits, 1, n) = hits
    BY SubSeqFull DEF n
<1>15. FlattenSeq(pages[n]) = hits /\ (n # 0 => Fit(n))
  <2>1. n \in Good
      BY <1>1, <1>13
  <2> QED  BY <1>1, <1>14, <2>1 DEF Good
<1> QED  BY <1>1, <1>3, <1>10, <1>15

\* Whatever the hits, their pages are the hits again, and each is as it should be.
LEMMA RenderedWhole ==
    ASSUME NEW hits \in Seq(Entries)
    PROVE  LET pages == RenderedPages(hits)
           IN  /\ FlattenSeq(pages) = hits
               /\ Len(pages) > 1 => \A i \in DOMAIN pages :
                     pages[i] # <<>> /\ (Len(pages[i]) = 1 \/ Size(pages[i]) <= PageBudget)
<1>1. CASE Size(hits) <= SinglePageCap
  <2>1. RenderedPages(hits) = <<hits>> /\ Len(<<hits>>) = 1
      BY <1>1 DEF RenderedPages
  <2> QED  BY <2>1, FlattenOne
<1>2. CASE ~(Size(hits) <= SinglePageCap)
  <2>1. RenderedPages(hits) = PagesOf(hits)
      BY <1>2 DEF RenderedPages
  <2>2. CASE hits = <<>>
    <3>1. PagesOf(hits) = <<<<>>>> /\ Len(<<<<>>>>) = 1
        BY <2>2, PagesOfHits
    <3> QED  BY <2>1, <3>1, PagesOfHits
  <2>3. CASE hits # <<>>
      BY <2>1, <2>3, PagesOfHits DEF PageFits
  <2> QED  BY <2>2, <2>3
<1> QED  BY <1>1, <1>2

-----------------------------------------------------------------------------
(* LlmsTxt: the walk                                                       *)

\* A query's rows list every dataset once; without equal dates those before a
\* dataset are the newer ones.
LEMMA RowsAhead ==
    ASSUME IsFiniteSet(Listed), NEW rows \in SetToSeqs(Listed), NewestFirst(rows), NoTies,
           stamp \in [Entries -> Dates], MaxStamp \in Nat
    PROVE  /\ rows \in [1 .. Cardinality(Listed) -> Listed] /\ Len(rows) = Cardinality(Listed)
           /\ Len(rows) \in Nat
           /\ \A d \in Listed : \E p \in 1 .. Len(rows) :
                 rows[p] = d /\ Cardinality(Ahead(d)) = p - 1
<1> DEFINE n == Cardinality(Listed)
<1>1. /\ n \in Nat /\ rows \in [1 .. n -> Listed]
      /\ \A i, j \in 1 .. n : i # j => rows[i] # rows[j]
    BY FS_CardinalityType DEF SetToSeqs
<1>2. Len(rows) = n /\ DOMAIN rows = 1 .. n
    BY <1>1, SMT
<1> HIDE DEF n
<1>3. rows \in Surjection(1 .. n, Listed)
  <2>1. rows \in Injection(1 .. n, Listed)
      BY <1>1 DEF Injection, IsInjective
  <2>2. Cardinality(1 .. n) = n
      BY <1>1, FS_Interval
  <2> QED  BY <2>1, <2>2, FS_Injection DEF n
<1>4. ASSUME NEW d \in Listed
      PROVE  \E p \in 1 .. n : rows[p] = d /\ Cardinality(Ahead(d)) = p - 1
  <2>1. PICK p \in 1 .. n : rows[p] = d
      BY <1>3 DEF Surjection
  <2>2. \A i \in 1 .. n : stamp[rows[i]] \in Nat
      BY <1>1 DEF Listed, Dates
  <2>3. \A i \in 1 .. n : i < p => stamp[rows[i]] > stamp[d]
    <3> SUFFICES ASSUME NEW i \in 1 .. n, i < p  PROVE stamp[rows[i]] > stamp[d]
        OBVIOUS
    <3>1. stamp[rows[i]] >= stamp[rows[p]]
        BY <1>1, <1>2 DEF NewestFirst
    <3>2. stamp[rows[i]] # stamp[rows[p]]
        BY <1>1 DEF NoTies
    <3> QED  BY <2>1, <2>2, <3>1, <3>2
  <2>4. \A i \in 1 .. n : i >= p => ~(stamp[rows[i]] > stamp[d])
    <3> SUFFICES ASSUME NEW i \in 1 .. n, i > p  PROVE ~(stamp[rows[i]] > stamp[d])
        BY <2>1, <2>2, <1>1
    <3>1. stamp[rows[p]] >= stamp[rows[i]]
        BY <1>1, <1>2 DEF NewestFirst
    <3> QED  BY <2>1, <2>2, <3>1
  <2> DEFINE f == [i \in 1 .. (p - 1) |-> rows[i]]
  <2>5. f \in [1 .. (p - 1) -> Ahead(d)]
    <3>1. \A i \in 1 .. (p - 1) : i \in 1 .. n /\ i < p
        BY <1>1
    <3> QED  BY <3>1, <1>1, <2>3 DEF Ahead
  <2>6. \A i, j \in 1 .. (p - 1) : f[i] = f[j] => i = j
    <3>1. \A i \in 1 .. (p - 1) : i \in 1 .. n
        BY <1>1
    <3> QED  BY <3>1, <1>1
  <2>7. \A c \in Ahead(d) : \E i \in 1 .. (p - 1) : f[i] = c
    <3> SUFFICES ASSUME NEW c \in Ahead(d)  PROVE \E i \in 1 .. (p - 1) : f[i] = c
        OBVIOUS
    <3>1. PICK i \in 1 .. n : rows[i] = c
        BY <1>3 DEF Surjection, Ahead
    <3>2. i \in 1 .. (p - 1)
        BY <2>4, <3>1, <1>1 DEF Ahead
    <3> QED  BY <3>1, <3>2
  <2> HIDE DEF f
  <2>8. f \in Bijection(1 .. (p - 1), Ahead(d))
      BY <2>5, <2>6, <2>7 DEF Bijection, Injection, Surjection, IsInjective
  <2>9. IsFiniteSet(1 .. (p - 1)) /\ Cardinality(1 .. (p - 1)) = p - 1
      BY <1>1, FS_Interval
  <2>10. Cardinality(Ahead(d)) = p - 1
      BY <2>8, <2>9, FS_Bijection DEF ExistsBijection
  <2> QED  BY <2>1, <2>10
<1> QED  BY <1>1, <1>2, <1>4 DEF n

\* The hits after a query are those before it and the rows of the page.
LEMMA HitsGrow ==
    ASSUME NEW hits \in Seq(Entries), NEW n \in Nat, NEW rows \in [1 .. n -> Entries],
           NEW from \in Nat, NEW to \in Nat, to <= n
    PROVE  LET more == hits \o SubSeq(rows, from + 1, to)
           IN  /\ more \in Seq(Entries)
               /\ Range(hits) \subseteq Range(more)
               /\ \A p \in (from + 1) .. to : rows[p] \in Range(more)
<1> DEFINE sub == SubSeq(rows, from + 1, to)
           more == hits \o sub
<1>1. rows \in Seq(Entries) /\ Len(rows) = n
    BY SMT
<1>2. /\ sub \in Seq(Entries)
      /\ Len(sub) = IF from + 1 <= to THEN to - from ELSE 0
      /\ \A i \in 1 .. (to - from) : sub[i] = rows[from + i]
    BY <1>1, SMT
<1> HIDE DEF sub
<1>3. /\ more \in Seq(Entries) /\ DOMAIN more = 1 .. (Len(hits) + Len(sub))
      /\ Len(hits) \in Nat /\ DOMAIN hits = 1 .. Len(hits)
      /\ \A i \in 1 .. Len(hits) : more[i] = hits[i]
      /\ \A i \in 1 .. Len(sub) : more[Len(hits) + i] = sub[i]
  <2>1. sub \in Seq(Entries)
      BY <1>2
  <2>2. more \in Seq(Entries) /\ Len(more) = Len(hits) + Len(sub) /\ Len(hits) \in Nat /\ Len(sub) \in Nat
      BY <2>1
  <2>3. /\ DOMAIN more = 1 .. Len(more) /\ DOMAIN hits = 1 .. Len(hits)
        /\ \A i \in 1 .. Len(hits) : more[i] = hits[i]
      BY <2>1
  <2>4. ASSUME NEW i \in 1 .. Len(sub)  PROVE more[Len(hits) + i] = sub[i]
      BY <2>1
  <2> HIDE DEF more
  <2> QED  BY <2>2, <2>3, <2>4
<1> HIDE DEF more
<1>4. ASSUME NEW c \in Range(hits)  PROVE c \in Range(more)
  <2>1. PICK i \in 1 .. Len(hits) : hits[i] = c
      BY <1>3 DEF Range
  <2>2. i \in DOMAIN more
    <3>1. Len(sub) \in Nat
        BY <1>2
    <3> QED  BY <1>3, <3>1
  <2>3. more[i] = c
      BY <1>3, <2>1
  <2> QED  BY <2>2, <2>3 DEF Range
<1>5. ASSUME NEW p \in (from + 1) .. to  PROVE rows[p] \in Range(more)
  <2>1. p - from \in 1 .. Len(sub) /\ sub[p - from] = rows[p]
      BY <1>2
  <2>2. Len(hits) + (p - from) \in DOMAIN more
      BY <2>1, <1>2, <1>3
  <2> QED  BY <1>3, <2>1, <2>2 DEF Range
<1> QED  BY <1>3, <1>4, <1>5 DEF more, sub

LEMMA LlmsInitInv == LlmsInit => LlmsIInv
<1> SUFFICES ASSUME LlmsInit  PROVE LlmsIInv
    OBVIOUS
<1>1. Listed = {} /\ IsFiniteSet(Listed)
    BY FS_EmptySet DEF LlmsInit, Listed
<1>2. LlmsTypeOK
  <2>1. <<>> \in Seq(Entries)
      BY SMT
  <2>2. stamp \in [Entries -> Dates]
      BY LlmsAssumption DEF LlmsInit, Dates
  <2> QED  BY <2>1, <2>2 DEF LlmsInit, LlmsTypeOK, NoWalk
<1> QED  BY <1>1, <1>2 DEF LlmsInit, NoWalk, LlmsIInv, WalkInv

\* An upsert may move a dataset to the front, never one that was ahead behind.
LEMMA UpsertInv ==
    ASSUME LlmsIInv, NEW d \in Entries, NEW s \in Dates, Upsert(d, s)
    PROVE  LlmsIInv'
<1>1. LlmsTypeOK /\ IsFiniteSet(Listed) /\ build.still \subseteq Listed /\ MaxStamp \in Nat
    BY LlmsAssumption DEF LlmsIInv
<1>2. stamp' = [stamp EXCEPT ![d] = s] /\ s # 0 /\ stamp' \in [Entries -> Dates]
    BY <1>1 DEF Upsert, LlmsTypeOK
<1>3. Listed' = Listed \cup {d}
    BY <1>1, <1>2 DEF Listed, LlmsTypeOK
<1>4. IsFiniteSet(Listed')
    BY <1>1, <1>3, FS_AddElement
<1> DEFINE T == [pc : {"idle", "walk", "built"}, offset : Nat, hits : Seq(Entries),
                 still : SUBSET Entries, ordered : BOOLEAN]
<1>5. build \in T
    BY <1>1 DEF LlmsTypeOK
<1>6. /\ build' \in T /\ build'.pc = build.pc
      /\ build.pc = "idle" => build' = build
      /\ build'.offset = build.offset /\ build'.hits = build.hits
      /\ build'.still \subseteq build.still
      /\ build.pc # "idle" => d \notin build'.still /\ (build'.ordered => build.ordered /\ s > stamp[d])
    BY <1>5 DEF Upsert
<1> HIDE DEF T
<1>7. LlmsTypeOK'
    BY <1>1, <1>2, <1>6 DEF LlmsTypeOK, Upsert, T
<1>8. ASSUME build'.pc # "idle", build'.ordered, NEW c \in build'.still \ Range(build'.hits)
      PROVE  build'.pc = "walk" /\ Cardinality(Ahead(c)') >= build'.offset
  <2>1. c \in build.still \ Range(build.hits) /\ c # d /\ s > stamp[d] /\ c \in Listed
      BY <1>1, <1>6, <1>8
  <2>2. build.pc = "walk" /\ Cardinality(Ahead(c)) >= build.offset
      BY <1>6, <1>8, <2>1 DEF LlmsIInv, WalkInv
  <2>3. Ahead(c) \subseteq Ahead(c)'
    <3> SUFFICES ASSUME NEW e \in Ahead(c)  PROVE e \in Ahead(c)'
        OBVIOUS
    <3>1. e \in Listed' /\ e \in Entries /\ c \in Entries /\ stamp'[c] = stamp[c] /\ stamp[e] > stamp[c]
        BY <1>1, <1>2, <1>3, <2>1 DEF Ahead, Listed, LlmsTypeOK
    <3>2. stamp'[e] > stamp[c]
      <4>1. stamp[e] \in Int /\ stamp[c] \in Int /\ s \in Int /\ stamp[d] \in Int
          BY <1>1, <3>1 DEF LlmsTypeOK, Dates
      <4>2. stamp'[e] = IF e = d THEN s ELSE stamp[e]
          BY <1>1, <1>2, <3>1 DEF LlmsTypeOK
      <4> QED  BY <2>1, <3>1, <4>1, <4>2
    <3> QED  BY <3>1, <3>2 DEF Ahead
  <2>4. IsFiniteSet(Ahead(c)')
      BY <1>4, FS_Subset DEF Ahead
  <2>5. Cardinality(Ahead(c)') \in Nat /\ Cardinality(Ahead(c)) \in Nat /\ build.offset \in Nat
        /\ Cardinality(Ahead(c)) <= Cardinality(Ahead(c)')
      BY <2>3, <2>4, FS_Subset, FS_CardinalityType, <1>5 DEF T
  <2> QED  BY <2>2, <2>5, <1>6
<1>9. WalkInv'
    BY <1>8 DEF WalkInv
<1> QED  BY <1>1, <1>3, <1>4, <1>6, <1>7, <1>9 DEF LlmsIInv

\* A query lists the datasets at its offset, and those behind it have as many
\* before them as the next one will skip.
LEMMA FetchPageInv ==
    ASSUME LlmsIInv, NEW rows \in SetToSeqs(Listed), FetchPage(rows)
    PROVE  LlmsIInv'
<1> DEFINE T == [pc : {"idle", "walk", "built"}, offset : Nat, hits : Seq(Entries),
                 still : SUBSET Entries, ordered : BOOLEAN]
           o == build.offset
           end == o + SearchPageSize
           to == Smallest(end, Len(rows))
<1>1. /\ LlmsTypeOK /\ IsFiniteSet(Listed) /\ build.still \subseteq Listed
      /\ MaxStamp \in Nat /\ SearchPageSize \in Nat
    BY LlmsAssumption DEF LlmsIInv
<1>2. build \in T /\ o \in Nat /\ build.hits \in Seq(Entries)
    BY <1>1 DEF LlmsTypeOK
<1>3. rows \in [1 .. Cardinality(Listed) -> Listed] /\ Len(rows) = Cardinality(Listed) /\ Len(rows) \in Nat
  <2>1. Cardinality(Listed) \in Nat /\ rows \in [1 .. Cardinality(Listed) -> Listed]
      BY <1>1, FS_CardinalityType DEF SetToSeqs
  <2> QED  BY <2>1, SMT
<1>4. rows \in [1 .. Len(rows) -> Entries]
    BY <1>3 DEF Listed
<1>5. to \in Nat /\ to <= Len(rows) /\ end \in Nat
    BY <1>1, <1>2, <1>3 DEF Smallest
<1> DEFINE more == build.hits \o SubSeq(rows, o + 1, to)
<1>6. /\ more \in Seq(Entries) /\ Range(build.hits) \subseteq Range(more)
      /\ \A p \in (o + 1) .. to : rows[p] \in Range(more)
    BY <1>2, <1>3, <1>4, <1>5, HitsGrow
<1>7. /\ build.pc = "walk" /\ NewestFirst(rows)
      /\ build' = [build EXCEPT !.hits = more, !.ordered = @ /\ NoTies,
                     !.offset = IF Len(rows) > end THEN end ELSE 0,
                     !.pc = IF Len(rows) > end THEN "walk" ELSE "built"]
      /\ UNCHANGED <<stamp, warm>>
    BY DEF FetchPage
<1> HIDE DEF more, end, to
<1>8. /\ build' \in T
      /\ build'.hits = more /\ build'.still = build.still
      /\ build'.ordered => build.ordered /\ NoTies
      /\ IF Len(rows) > end THEN build'.pc = "walk" /\ build'.offset = end
         ELSE build'.pc = "built" /\ build'.offset = 0
    BY <1>2, <1>5, <1>6, <1>7
<1> HIDE DEF T
<1>9. LlmsTypeOK' /\ IsFiniteSet(Listed)' /\ (build.still \subseteq Listed)'
    BY <1>1, <1>7, <1>8 DEF LlmsTypeOK, T, Listed
<1>10. ASSUME build'.ordered, NEW d \in build'.still \ Range(build'.hits)
       PROVE  build'.pc = "walk" /\ Cardinality(Ahead(d)') >= build'.offset
  <2>1. NoTies /\ build.ordered /\ d \in build.still \ Range(build.hits) /\ d \notin Range(more) /\ d \in Listed
      BY <1>1, <1>6, <1>8, <1>10
  <2>2. PICK p \in 1 .. Len(rows) : rows[p] = d /\ Cardinality(Ahead(d)) = p - 1
    <3>1. stamp \in [Entries -> Dates]
        BY <1>1 DEF LlmsTypeOK
    <3>2. IsFiniteSet(Listed) /\ NewestFirst(rows) /\ NoTies /\ MaxStamp \in Nat /\ d \in Listed
        BY <1>1, <1>7, <2>1
    <3> QED  BY <3>1, <3>2, RowsAhead, Zenon
  <2>3. p - 1 >= o
      BY <1>7, <2>1, <2>2 DEF LlmsIInv, WalkInv
  <2>4. p \notin (o + 1) .. to
      BY <1>6, <2>1, <2>2
  <2>5. p > end /\ Len(rows) > end
      BY <1>1, <1>2, <1>3, <1>5, <2>2, <2>3, <2>4 DEF Smallest, to, end
  <2>6. Ahead(d)' = Ahead(d)
      BY <1>7 DEF Ahead, Listed
  <2> QED  BY <1>5, <1>8, <2>2, <2>5, <2>6
<1>11. WalkInv'
    BY <1>10 DEF WalkInv
<1> QED  BY <1>9, <1>11 DEF LlmsIInv

THEOREM LlmsInvariant == LlmsSpec => []LlmsIInv
<1>1. LlmsIInv /\ [LlmsNext]_llmsVars => LlmsIInv'
  <2> SUFFICES ASSUME LlmsIInv, [LlmsNext]_llmsVars  PROVE LlmsIInv'
      OBVIOUS
  <2>1. ASSUME BeginBuild  PROVE LlmsIInv'
    <3>1. LlmsTypeOK'
      <4>1. <<>> \in Seq(Entries) /\ Listed \subseteq Entries
          BY SMT DEF Listed
      <4> QED  BY <2>1, <4>1 DEF LlmsIInv, LlmsTypeOK, BeginBuild, NoWalk
    <3>2. Listed' = Listed /\ build'.still = Listed /\ build'.offset = 0
        BY <2>1 DEF BeginBuild, NoWalk, Listed
    <3>3. WalkInv'
      <4>1. \A d : Ahead(d)' \subseteq Listed
          BY <3>2 DEF Ahead
      <4>2. \A d : Cardinality(Ahead(d)') \in Nat
          BY <4>1, FS_Subset, FS_CardinalityType DEF LlmsIInv
      <4>3. build'.pc = "walk"
          BY <2>1 DEF BeginBuild, NoWalk
      <4> QED  BY <3>2, <4>2, <4>3 DEF WalkInv
    <3> QED  BY <3>1, <3>2, <3>3 DEF LlmsIInv
  <2>2. ASSUME build' = NoWalk, UNCHANGED stamp, warm' \in BOOLEAN  PROVE LlmsIInv'
    <3>1. <<>> \in Seq(Entries)
        BY SMT
    <3>2. LlmsTypeOK'
        BY <2>2, <3>1 DEF LlmsIInv, LlmsTypeOK, NoWalk
    <3> QED  BY <2>2, <3>2 DEF LlmsIInv, WalkInv, NoWalk, Listed
  <2>3. CASE UNCHANGED llmsVars
      BY <2>3 DEF LlmsIInv, LlmsTypeOK, WalkInv, Ahead, Listed, llmsVars
  <2>4. CASE Install \/ BuildFails
      BY <2>2, <2>4 DEF Install, BuildFails, LlmsIInv, LlmsTypeOK
  <2>5. CASE LlmsNext
      BY <2>1, <2>4, <2>5, UpsertInv, FetchPageInv DEF LlmsNext, FirstRequest
  <2> QED  BY <2>3, <2>5
<1> QED  BY LlmsInitInv, <1>1, PTL DEF LlmsSpec

\* Two builds of one snapshot differ in nothing but what the crawler did meanwhile.
THEOREM SnapshotsWhole == LlmsSpec => []SnapshotWhole
<1>1. LlmsIInv => SnapshotWhole
  <2> SUFFICES ASSUME LlmsIInv, build.pc = "built"  PROVE SnapshotWhole
      BY DEF SnapshotWhole
  <2>1. build.hits \in Seq(Entries)
      BY DEF LlmsIInv, LlmsTypeOK
  <2>2. build.ordered => build.still \subseteq Range(build.hits)
      BY DEF LlmsIInv, WalkInv
  <2> QED  BY <2>1, <2>2, RenderedWhole DEF SnapshotWhole
<1> QED  BY LlmsInvariant, <1>1, PTL

-----------------------------------------------------------------------------
(* All the services                                                        *)

\* A step of the whole is a step of the service observed, and the others stutter.
LEMMA StepOfEach ==
    ASSUME [ServicesNext]_allVars
    PROVE  /\ [SessionNext]_sessionVars
           /\ [SubmissionNext]_submissionVars
           /\ [CommentNext]_commentVars
           /\ [OAuthNext]_oauthVars
           /\ [RateLimitNext]_rateLimitVars
           /\ [MaterialiseNext]_materialiseVars
           /\ [ThrottleNext]_throttleVars
           /\ [TiersNext]_tierVars
           /\ [PagesNext]_pageVars
           /\ [CalendarNext]_calendarVars
           /\ [BookmarkNext]_bookmarkVars
           /\ [CollectionNext]_collectionVars
           /\ [LlmsNext]_llmsVars
           /\ [JwksNext]_jwksVars
           /\ [PlaygroundNext]_playgroundVars
<1>1. CASE UNCHANGED allVars
    BY <1>1 DEF allVars
<1>2. CASE ServicesNext
    BY <1>2 DEF ServicesNext, OthersStill, Still
<1> QED  BY <1>1, <1>2

\* So each service behaves, among the others, as it does alone ..
THEOREM EachAsAlone ==
    ServicesSpec =>
        /\ SessionSpec
        /\ SubmissionSpec
        /\ CommentSpec
        /\ OAuthSpec
        /\ RateLimitSpec
        /\ MaterialiseSpec
        /\ ThrottleSpec
        /\ TiersSpec
        /\ PagesSpec
        /\ CalendarSpec
        /\ BookmarkSpec
        /\ CollectionSpec
        /\ LlmsSpec
        /\ JwksSpec
        /\ PlaygroundSpec
<1>1. ServicesInit =>
        SessionInit /\ SubmissionInit /\ CommentInit /\ OAuthInit /\ RateLimitInit
        /\ MaterialiseInit /\ ThrottleInit /\ TiersInit /\ PagesInit /\ CalendarInit
        /\ BookmarkInit /\ CollectionInit /\ LlmsInit /\ JwksInit /\ PlaygroundInit
    BY DEF ServicesInit
<1> QED  BY <1>1, StepOfEach, PTL DEF ServicesSpec,
        SessionSpec, SubmissionSpec, CommentSpec, OAuthSpec, RateLimitSpec, MaterialiseSpec, ThrottleSpec, TiersSpec,
        PagesSpec, CalendarSpec, BookmarkSpec, CollectionSpec, LlmsSpec, JwksSpec, PlaygroundSpec

\* .. and every invariant that one of them has holds of the whole.
THEOREM ServicesSafe ==
    ServicesSpec =>
        [](/\ SeenAlive /\ OneVerdict /\ RepliesHang /\ DenialExplained /\ LoginsBound
           /\ WindowCapped /\ LimitersAgree /\ OneSigner /\ Spaced /\ RobotsObeyed
           /\ WalkAddsUp /\ QingMingAgrees /\ HeartTells /\ OneAnswer /\ SnapshotWhole /\ AtRest)
<1> QED  BY EachAsAlone, SessionsAlive, DecidedOnce, ThreadsHang, RefusalsTrue, LoginsStayBound,
            Capped, Agree, SignsAlone, SlotsSpaced, RulesObeyed, PagesAddUp, QingMingEveryDay,
            HeartStaysTrue, AnswersAgree, SnapshotsWhole, PlaygroundSettles, PTL
=============================================================================

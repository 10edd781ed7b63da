---------------------------- MODULE LimitsProofs ----------------------------
(***************************************************************************)
(* Proofs about the rate limiter, the signing of files, the polite client, *)
(* the cache pipeline and the pages of an aggregate, for any sets of keys, *)
(* datasets, origins and calls, any limits, intervals, clocks, results and *)
(* page size, and any bound of the runs.                                   *)
(***************************************************************************)
EXTENDS RateLimit, Materialise, Throttle, Tiers, Pages, FiniteSetTheorems, TLAPS

-----------------------------------------------------------------------------
(* RateLimit                                                               *)

\* Every reading belongs to a window, which is a natural number.
LEMMA FloorType ==
    ASSUME NEW now \in Clock
    PROVE  Floor(now) \in Windows
  BY DEF Windows

LEMMA WindowsNat == Windows \subseteq Nat
<1>1. ASSUME NEW now \in Clock PROVE Floor(now) \in Nat
  <2>1. now \in Nat /\ WindowLength \in Nat /\ WindowLength > 0
    BY HandlerAssumption, RateLimitAssumption
  <2>2. now % WindowLength \in Nat /\ now % WindowLength <= now
    BY <2>1
  <2>3. QED BY <2>1, <2>2 DEF Floor
<1>2. QED BY <1>1 DEF Windows

LEMMA RateLimitInitInv == RateLimitInit => RateLimitIInv
  BY RateLimitAssumption DEF RateLimitInit, RateLimitIInv, RateLimitTypeOK, AdmittedInv, WindowCapped,
     LimitersAgree

\* The UPSERT and the limiter in memory make the same entry, a Tick.
LEMMA TickType ==
    ASSUME NEW row \in Ticks \cup {None}, NEW w \in Windows
    PROVE  PgTick(row, w) \in Ticks /\ MemoryTick(row, w) = PgTick(row, w)
<1>1. w \in Nat
  BY WindowsNat
<1>2. CASE row = None
  BY <1>1, <1>2 DEF PgTick, MemoryTick, Ticks
<1>3. CASE row # None
  <2>1. row \in Ticks /\ row.window \in Nat /\ row.count \in Nat /\ row.count # 0
    BY <1>3, WindowsNat DEF Ticks
  <2>2. CASE row.window < w
    BY <1>1, <1>3, <2>1, <2>2 DEF PgTick, MemoryTick, Ticks
  <2>3. CASE ~(row.window < w)
    <3>1. row.window >= w
      BY <1>1, <2>1, <2>3
    <3>2. PgTick(row, w) = [window |-> row.window, count |-> row.count + 1]
      BY <1>3, <2>3 DEF PgTick
    <3>3. MemoryTick(row, w) = [row EXCEPT !.count = row.count + 1]
      BY <1>3, <3>1 DEF MemoryTick
    <3>4. QED BY <2>1, <3>2, <3>3 DEF Ticks
  <2>4. QED BY <2>2, <2>3
<1>4. QED BY <1>2, <1>3

\* A check of one key keeps what was let through equal to the counts.
LEMMA CheckInv ==
    ASSUME RateLimitIInv, NEW k \in Keys, NEW now \in Clock, Check(k, now)
    PROVE  RateLimitIInv'
<1> DEFINE w0 == Floor(now)
           row == counter[k]
           tick == PgTick(row, w0)
<1>1. w0 \in Windows /\ w0 \in Nat /\ Windows \subseteq Nat
  BY FloorType, WindowsNat
<1>2. row \in Ticks \cup {None}
  BY DEF RateLimitIInv, RateLimitTypeOK
<1> HIDE DEF w0
<1>3. tick \in Ticks /\ MemoryTick(row, w0) = tick
  BY <1>1, <1>2, TickType
<1>4. tick.window \in Windows /\ tick.count \in Nat \ {0}
  BY <1>3 DEF Ticks
<1>5. /\ row = None => tick.window = w0 /\ tick.count = 1
      /\ row # None => \/ row.window < w0 /\ tick.window = w0 /\ tick.count = 1
                       \/ ~(row.window < w0) /\ tick.window = row.window /\ tick.count = row.count + 1
  BY DEF PgTick
<1>6. row # None => row.window \in Nat /\ row.count \in Nat \ {0}
  BY <1>1, <1>2 DEF Ticks
<1>7. /\ counter' = [counter EXCEPT ![k] = tick]
      /\ memory' = [memory EXCEPT ![k] = MemoryTick(memory[k], w0)]
      /\ admitted' = IF tick.count <= Limit
                     THEN [admitted EXCEPT ![k][tick.window] = @ + 1]
                     ELSE admitted
  <2>1. /\ counter' = [counter EXCEPT ![k] = tick]
        /\ memory' = [memory EXCEPT ![k] = MemoryTick(memory[k], w0)]
    BY DEF Check, w0
  <2>2. CASE tick.count <= Limit
    <3>1. admitted' = [admitted EXCEPT ![k][tick.window] = @ + 1]
      BY <2>2 DEF Check, Allowed, w0
    <3>2. QED BY <2>1, <2>2, <3>1
  <2>3. CASE ~(tick.count <= Limit)
    BY <2>1, <2>3, Zenon DEF Check, Allowed, w0
  <2>4. QED BY <2>1, <2>2, <2>3
<1> HIDE DEF tick
<1>8. memory' = counter'
  BY <1>3, <1>7 DEF RateLimitIInv, LimitersAgree
<1>9. /\ counter \in [Keys -> Ticks \cup {None}] /\ admitted \in [Keys -> [Windows -> Nat]]
      /\ Limit \in Nat
  BY RateLimitAssumption DEF RateLimitIInv, RateLimitTypeOK
<1>10. counter' \in [Keys -> Ticks \cup {None}]
  BY <1>3, <1>7, <1>9
<1> DEFINE more == [admitted[k] EXCEPT ![tick.window] = admitted[k][tick.window] + 1]
<1>21. admitted' = [admitted EXCEPT ![k] = IF tick.count <= Limit THEN more ELSE admitted[k]]
  <2>1. CASE tick.count <= Limit
    <3>1. admitted' = [admitted EXCEPT ![k][tick.window] = @ + 1]
      BY <1>7, <2>1
    <3>2. /\ DOMAIN admitted' = Keys
          /\ \A j \in Keys \ {k} : admitted'[j] = admitted[j]
      BY <3>1, <1>9
    <3>3. admitted'[k] = more
      <4>1. admitted[k] \in [Windows -> Nat]
        BY <1>9
      <4>2. admitted'[k] = [admitted[k] EXCEPT ![tick.window] = @ + 1]
        BY <3>1, <1>9
      <4>3. QED BY <4>1, <4>2
    <3>4. admitted' = [admitted EXCEPT ![k] = more]
      BY <3>1, <3>2, <3>3, <1>9
    <3>5. QED BY <2>1, <3>4
  <2>2. CASE ~(tick.count <= Limit)
    <3>1. admitted' = admitted
      BY <1>7, <2>2
    <3>2. admitted = [admitted EXCEPT ![k] = admitted[k]]
      BY <1>9
    <3>3. QED BY <2>2, <3>1, <3>2
  <2>3. QED BY <2>1, <2>2
<1>22. admitted[k] \in [Windows -> Nat] /\ more \in [Windows -> Nat]
  BY <1>4, <1>9
<1>23. ASSUME NEW w \in Windows
       PROVE  more[w] = IF w = tick.window THEN admitted[k][w] + 1 ELSE admitted[k][w]
  BY <1>22
<1> HIDE DEF more
<1>11. admitted' \in [Keys -> [Windows -> Nat]]
  BY <1>21, <1>22, <1>9
<1>12. ASSUME NEW j \in Keys \ {k}
       PROVE  counter'[j] = counter[j] /\ admitted'[j] = admitted[j]
  BY <1>7, <1>9, <1>21
<1>13. counter'[k] = tick /\ tick # None
  <2>1. counter'[k] = tick
    BY <1>7, <1>9
  <2>2. tick # None
    BY <1>1, <1>3, RateLimitAssumption DEF Ticks
  <2>3. QED BY <2>1, <2>2
<1>14. ASSUME NEW w \in Windows
       PROVE  /\ admitted'[k][w] = IF tick.count <= Limit /\ w = tick.window
                                   THEN admitted[k][w] + 1 ELSE admitted[k][w]
              /\ admitted[k][w] \in Nat
  BY <1>9, <1>21, <1>22, <1>23
<1>15. ASSUME NEW w \in Windows
       PROVE  /\ row = None => admitted[k][w] = 0
              /\ row # None /\ w = row.window => admitted[k][w] = Smaller(row.count, Limit)
              /\ row # None /\ w > row.window => admitted[k][w] = 0
              /\ admitted[k][w] <= Limit
  BY DEF RateLimitIInv, AdmittedInv, WindowCapped
<1>16. ASSUME NEW w \in Windows
       PROVE  /\ w = tick.window => admitted'[k][w] = Smaller(tick.count, Limit)
              /\ w > tick.window => admitted'[k][w] = 0
              /\ admitted'[k][w] <= Limit
  <2>1. w \in Nat
    BY <1>1
  <2>2. CASE row = None
    BY <1>1, <1>4, <1>5, <1>9, <1>14, <1>15, <2>1, <2>2 DEF Smaller
  <2>3. CASE row # None /\ row.window < w0
    BY <1>1, <1>4, <1>5, <1>6, <1>9, <1>14, <1>15, <2>1, <2>3 DEF Smaller
  <2>4. CASE row # None /\ ~(row.window < w0)
    BY <1>1, <1>4, <1>5, <1>6, <1>9, <1>14, <1>15, <2>1, <2>4 DEF Smaller
  <2>5. QED BY <2>2, <2>3, <2>4
<1>17. AdmittedInv'
  <2>1. SUFFICES ASSUME NEW j \in Keys, NEW w \in Windows
        PROVE  /\ counter'[j] = None => admitted'[j][w] = 0
               /\ counter'[j] # None /\ w = counter'[j].window =>
                     admitted'[j][w] = Smaller(counter'[j].count, Limit)
               /\ counter'[j] # None /\ w > counter'[j].window => admitted'[j][w] = 0
    BY DEF AdmittedInv, Windows, Floor, Smaller
  <2>2. CASE j = k
    BY <1>13, <1>16, <2>2
  <2>3. CASE j # k
    BY <1>12, <2>3 DEF RateLimitIInv, AdmittedInv
  <2>4. QED BY <2>2, <2>3
<1>18. WindowCapped'
  <2>1. SUFFICES ASSUME NEW j \in Keys, NEW w \in Windows PROVE admitted'[j][w] <= Limit
    BY DEF WindowCapped, Windows, Floor
  <2>2. CASE j = k
    BY <1>16, <2>2
  <2>3. CASE j # k
    BY <1>12, <2>3 DEF RateLimitIInv, WindowCapped
  <2>4. QED BY <2>2, <2>3
<1>19. RateLimitTypeOK'
  BY <1>8, <1>10, <1>11 DEF RateLimitTypeOK, Ticks, Windows, Floor
<1>20. QED BY <1>8, <1>17, <1>18, <1>19 DEF RateLimitIInv, LimitersAgree

LEMMA RateLimitInductive ==
    ASSUME RateLimitIInv, [RateLimitNext]_rateLimitVars
    PROVE  RateLimitIInv'
<1>1. CASE \E k \in Keys, now \in Clock : Check(k, now)
  BY <1>1, CheckInv
<1>2. CASE UNCHANGED rateLimitVars
  BY <1>2 DEF rateLimitVars, RateLimitIInv, RateLimitTypeOK, AdmittedInv, WindowCapped, LimitersAgree,
     Ticks, Windows, Floor, Smaller
<1>3. QED BY <1>1, <1>2 DEF RateLimitNext, Uncounted

THEOREM RateLimitInvariant == RateLimitSpec => []RateLimitIInv
  BY RateLimitInitInv, RateLimitInductive, PTL DEF RateLimitSpec

\* No window lets through more requests of a key than the limit, for any
\* limit and whatever the clocks of the instances say (rate_limit.rs:209-231,
\* rate_limit_repo.rs:82-96).
THEOREM Capped == RateLimitSpec => []WindowCapped
<1>1. RateLimitIInv => WindowCapped
  BY DEF RateLimitIInv
<1>2. QED BY <1>1, RateLimitInvariant, PTL

\* The limiter in memory and the UPSERT make the same entries from the same
\* requests (rate_limit.rs:158-190).
THEOREM Agree == RateLimitSpec => []LimitersAgree
<1>1. RateLimitIInv => LimitersAgree
  BY DEF RateLimitIInv
<1>2. QED BY <1>1, RateLimitInvariant, PTL

-----------------------------------------------------------------------------
(* Materialise                                                             *)

LEMMA MaterialiseInitInv == MaterialiseInit => MaterialiseIInv
  BY SlotAssumption DEF MaterialiseInit, MaterialiseIInv, MaterialiseTypeOK, SlotInv, NoPresign, Presign,
     Signing

\* A call that stands anywhere has fields of their types.
LEMMA PresignTypes ==
    ASSUME MaterialiseTypeOK, NEW p \in Procs
    PROVE  /\ presigning[p].pc \in {"idle", "slot", "lock", "sign", "record"}
           /\ presigning[p].pair \in Pairs \cup {None}
           /\ presigning[p].slot \in Slots \cup {None}
  BY DEF MaterialiseTypeOK, Presign

LEMMA AskInv ==
    ASSUME MaterialiseIInv, NEW p \in Procs, NEW k \in Pairs, Ask(p, k)
    PROVE  MaterialiseIInv'
<1>1. MaterialiseTypeOK /\ SlotInv
  BY DEF MaterialiseIInv
<1>2. /\ presigning' = [presigning EXCEPT ![p] = [pc |-> "slot", pair |-> k, slot |-> None]]
      /\ UNCHANGED <<inflight, guarding>>
  BY DEF Ask
<1>3. /\ presigning'[p] = [pc |-> "slot", pair |-> k, slot |-> None]
      /\ \A q \in Procs \ {p} : presigning'[q] = presigning[q]
  BY <1>1, <1>2 DEF MaterialiseTypeOK
<1>4. MaterialiseTypeOK'
  BY <1>1, <1>2 DEF MaterialiseTypeOK, Presign
<1>5. SlotInv'
  BY <1>1, <1>2, <1>3, SlotAssumption DEF SlotInv, Signing
<1>6. QED BY <1>4, <1>5 DEF MaterialiseIInv

LEMMA TakeSlotInv ==
    ASSUME MaterialiseIInv, NEW p \in Procs, NEW s \in Slots, TakeSlot(p, s)
    PROVE  MaterialiseIInv'
<1> DEFINE k == presigning[p].pair
           kept == [j \in Pairs |-> IF inflight[j] # None /\ Live(inflight[j]) THEN inflight[j] ELSE None]
<1>1. MaterialiseTypeOK /\ SlotInv
  BY DEF MaterialiseIInv
<1>2. presigning[p].pc = "slot" /\ k \in Pairs /\ presigning[p].slot = None /\ s # None
  BY <1>1, PresignTypes, SlotAssumption DEF TakeSlot, SlotInv
<1>3. /\ presigning' = [presigning EXCEPT ![p] = [@ EXCEPT !.pc = "lock", !.slot = s]]
      /\ UNCHANGED guarding
      /\ \/ kept[k] = s /\ inflight' = kept
         \/ kept[k] = None /\ Holders(s) = {} /\ inflight' = [kept EXCEPT ![k] = s]
  BY DEF TakeSlot
<1>4. /\ presigning'[p].pc = "lock" /\ presigning'[p].pair = k /\ presigning'[p].slot = s
      /\ \A q \in Procs \ {p} : presigning'[q] = presigning[q]
  BY <1>1, <1>3 DEF MaterialiseTypeOK, Presign
<1>5. kept \in [Pairs -> Slots \cup {None}] /\ inflight' \in [Pairs -> Slots \cup {None}]
  BY <1>1, <1>3 DEF MaterialiseTypeOK
<1>6. MaterialiseTypeOK'
  <2>1. presigning' \in [Procs -> Presign]
    <3>1. [presigning[p] EXCEPT !.pc = "lock", !.slot = s] \in Presign
      BY <1>1 DEF MaterialiseTypeOK, Presign
    <3>2. QED BY <1>1, <1>3, <3>1 DEF MaterialiseTypeOK
  <2>2. QED BY <1>1, <1>3, <1>5, <2>1 DEF MaterialiseTypeOK
<1>7. ASSUME NEW q \in Procs, presigning[q].pc \in {"lock"} \cup Signing
      PROVE  inflight'[presigning[q].pair] = presigning[q].slot
  <2>1. /\ presigning[q].slot # None /\ presigning[q].slot = inflight[presigning[q].pair]
        /\ presigning[q].pair \in Pairs
    BY <1>1, <1>7, PresignTypes DEF SlotInv, Signing
  <2>2. Live(presigning[q].slot) /\ Holders(presigning[q].slot) # {}
    BY DEF Live, Holders
  <2>3. kept[presigning[q].pair] = presigning[q].slot
    BY <2>1, <2>2
  <2> HIDE DEF kept
  <2>4. CASE inflight' = kept
    BY <2>3, <2>4
  <2>5. CASE kept[k] = None /\ Holders(s) = {} /\ inflight' = [kept EXCEPT ![k] = s]
    BY <1>5, <2>1, <2>3, <2>5
  <2>6. QED BY <1>3, <2>4, <2>5
<1>8. ASSUME NEW q \in Procs, NEW j \in Pairs, inflight'[j] # None, presigning'[q].slot = inflight'[j]
      PROVE  presigning'[q].pair = j
  <2>1. ASSUME kept[j] # None
        PROVE  kept[j] = inflight[j] /\ Live(inflight[j])
    BY <2>1
  <2>2. CASE kept[k] = s /\ inflight' = kept
    <3>1. inflight[j] = inflight'[j] /\ inflight[j] # None /\ inflight[k] = s
      BY <1>2, <1>8, <2>2
    <3>2. CASE q = p
      <4>1. inflight[j] = s /\ Live(s)
        BY <1>4, <1>8, <2>1, <2>2, <3>1, <3>2
      <4>2. PICK r \in Procs : presigning[r].slot = s
        BY <4>1 DEF Live, Holders
      <4>3. presigning[r].pair = j /\ presigning[r].pair = k
        BY <1>1, <1>2, <3>1, <4>1, <4>2 DEF SlotInv
      <4>4. QED BY <1>4, <3>2, <4>3
    <3>3. CASE q # p
      BY <1>1, <1>4, <1>8, <3>1, <3>3 DEF SlotInv
    <3>4. QED BY <3>2, <3>3
  <2>3. CASE kept[k] = None /\ Holders(s) = {} /\ inflight' = [kept EXCEPT ![k] = s]
    <3>1. ~Live(s) /\ \A r \in Procs : presigning[r].slot # s
      BY <2>3 DEF Live, Holders
    <3>2. CASE j = k
      <4>1. inflight'[j] = s
        BY <1>2, <1>5, <2>3, <3>2
      <4>2. q = p
        BY <1>4, <1>8, <3>1, <4>1
      <4>3. QED BY <1>4, <3>2, <4>2
    <3>3. CASE j # k
      <4>1. inflight'[j] = kept[j]
        BY <1>5, <2>3, <3>3
      <4>2. kept[j] = inflight[j] /\ Live(inflight[j]) /\ inflight[j] = inflight'[j]
        BY <1>8, <2>1, <4>1
      <4>3. q # p
        BY <1>4, <1>8, <3>1, <4>2
      <4>4. QED BY <1>1, <1>4, <1>8, <4>2, <4>3 DEF SlotInv
    <3>4. QED BY <3>2, <3>3
  <2>4. QED BY <1>3, <2>2, <2>3
<1>9. inflight'[k] = s
  <2> HIDE DEF kept
  <2>1. QED BY <1>2, <1>3, <1>5
<1> HIDE DEF k, kept
<1>10. SlotInv'
  <2>1. ASSUME NEW q \in Procs
        PROVE  /\ presigning'[q].pc # "idle" => presigning'[q].pair # None
               /\ presigning'[q].pc \in {"idle", "slot"} => presigning'[q].slot = None
               /\ presigning'[q].pc \in {"lock"} \cup Signing =>
                     presigning'[q].slot # None /\ inflight'[presigning'[q].pair] = presigning'[q].slot
               /\ presigning'[q].pc \in Signing => guarding'[presigning'[q].slot] = q
    <3>1. CASE q = p
      BY <1>2, <1>4, <1>9, <3>1, SlotAssumption DEF Signing
    <3>2. CASE q # p
      BY <1>1, <1>3, <1>4, <1>7, <3>2 DEF SlotInv, Signing
    <3>3. QED BY <3>1, <3>2
  <2>2. QED BY <1>8, <2>1 DEF SlotInv, Signing
<1>11. QED BY <1>6, <1>10 DEF MaterialiseIInv

LEMMA LockInv ==
    ASSUME MaterialiseIInv, NEW p \in Procs, Lock(p)
    PROVE  MaterialiseIInv'
<1> DEFINE s == presigning[p].slot
<1>1. MaterialiseTypeOK /\ SlotInv
  BY DEF MaterialiseIInv
<1>2. presigning[p].pc = "lock" /\ s \in Slots /\ guarding[s] = None
  BY <1>1, PresignTypes DEF Lock, SlotInv
<1>3. /\ presigning' = [presigning EXCEPT ![p] = [@ EXCEPT !.pc = "sign"]]
      /\ guarding' = [guarding EXCEPT ![s] = p]
      /\ UNCHANGED inflight
  BY DEF Lock
<1>4. /\ presigning'[p].pc = "sign" /\ presigning'[p].pair = presigning[p].pair /\ presigning'[p].slot = s
      /\ \A q \in Procs \ {p} : presigning'[q] = presigning[q]
  BY <1>1, <1>3 DEF MaterialiseTypeOK, Presign
<1>5. guarding'[s] = p /\ \A r \in Slots \ {s} : guarding'[r] = guarding[r]
  BY <1>1, <1>2, <1>3 DEF MaterialiseTypeOK
<1>6. MaterialiseTypeOK'
  BY <1>1, <1>2, <1>3 DEF MaterialiseTypeOK, Presign
<1>7. ASSUME NEW q \in Procs \ {p}, presigning[q].pc \in Signing
      PROVE  guarding'[presigning[q].slot] = q
  <2>1. presigning[q].slot \in Slots /\ guarding[presigning[q].slot] = q
    BY <1>1, <1>7, PresignTypes DEF SlotInv
  <2>2. presigning[q].slot # s
    BY <1>2, <2>1, HandlerAssumption
  <2>3. QED BY <1>5, <2>1, <2>2
<1>8. SlotInv'
  <2> HIDE DEF s
  <2>1. ASSUME NEW q \in Procs
        PROVE  /\ presigning'[q].pc # "idle" => presigning'[q].pair # None
               /\ presigning'[q].pc \in {"idle", "slot"} => presigning'[q].slot = None
               /\ presigning'[q].pc \in {"lock"} \cup Signing =>
                     presigning'[q].slot # None /\ inflight'[presigning'[q].pair] = presigning'[q].slot
               /\ presigning'[q].pc \in Signing => guarding'[presigning'[q].slot] = q
    <3>1. CASE q = p
      BY <1>1, <1>2, <1>3, <1>4, <1>5, <3>1 DEF SlotInv, Signing, s
    <3>2. CASE q # p
      BY <1>1, <1>3, <1>4, <1>7, <3>2 DEF SlotInv, Signing
    <3>3. QED BY <3>1, <3>2
  <2>2. ASSUME NEW q \in Procs, NEW k \in Pairs, inflight'[k] # None, presigning'[q].slot = inflight'[k]
        PROVE  presigning'[q].pair = k
    BY <1>1, <1>3, <1>4, <2>2 DEF SlotInv, s
  <2>3. QED BY <2>1, <2>2 DEF SlotInv, Signing
<1>9. QED BY <1>6, <1>8 DEF MaterialiseIInv

LEMMA PresignGetInv ==
    ASSUME MaterialiseIInv, NEW p \in Procs, PresignGet(p)
    PROVE  MaterialiseIInv'
<1>1. MaterialiseTypeOK /\ SlotInv
  BY DEF MaterialiseIInv
<1>2. /\ presigning[p].pc = "sign"
      /\ presigning' = [presigning EXCEPT ![p] = [@ EXCEPT !.pc = "record"]]
      /\ UNCHANGED <<inflight, guarding>>
  BY DEF PresignGet
<1>3. /\ presigning'[p].pc = "record" /\ presigning'[p].pair = presigning[p].pair
      /\ presigning'[p].slot = presigning[p].slot
      /\ \A q \in Procs \ {p} : presigning'[q] = presigning[q]
  BY <1>1, <1>2 DEF MaterialiseTypeOK, Presign
<1>4. MaterialiseTypeOK'
  BY <1>1, <1>2 DEF MaterialiseTypeOK, Presign
<1>5. SlotInv'
  BY <1>1, <1>2, <1>3 DEF SlotInv, Signing
<1>6. QED BY <1>4, <1>5 DEF MaterialiseIInv

\* However a call ends, it leaves the map alone and holds nothing.
LEMMA ReleaseInv ==
    ASSUME MaterialiseIInv, NEW p \in Procs, Release(p), UNCHANGED inflight
    PROVE  MaterialiseIInv'
<1>1. MaterialiseTypeOK /\ SlotInv
  BY DEF MaterialiseIInv
<1>2. /\ presigning' = [presigning EXCEPT ![p] = [pc |-> "idle", pair |-> None, slot |-> None]]
      /\ guarding' = [s \in Slots |-> IF guarding[s] = p THEN None ELSE guarding[s]]
  BY DEF Release, NoPresign
<1>3. /\ presigning'[p] = [pc |-> "idle", pair |-> None, slot |-> None]
      /\ \A q \in Procs \ {p} : presigning'[q] = presigning[q]
  BY <1>1, <1>2 DEF MaterialiseTypeOK
<1>4. MaterialiseTypeOK'
  BY <1>1, <1>2 DEF MaterialiseTypeOK, Presign
<1>5. ASSUME NEW q \in Procs \ {p}, presigning[q].pc \in Signing
      PROVE  guarding'[presigning[q].slot] = q
  <2>1. presigning[q].slot \in Slots /\ guarding[presigning[q].slot] = q
    BY <1>1, <1>5, PresignTypes DEF SlotInv
  <2>2. QED BY <1>2, <2>1
<1>6. SlotInv'
  <2>1. ASSUME NEW q \in Procs
        PROVE  /\ presigning'[q].pc # "idle" => presigning'[q].pair # None
               /\ presigning'[q].pc \in {"idle", "slot"} => presigning'[q].slot = None
               /\ presigning'[q].pc \in {"lock"} \cup Signing =>
                     presigning'[q].slot # None /\ inflight'[presigning'[q].pair] = presigning'[q].slot
               /\ presigning'[q].pc \in Signing => guarding'[presigning'[q].slot] = q
    <3>1. CASE q = p
      BY <1>3, <3>1 DEF Signing
    <3>2. CASE q # p
      BY <1>1, <1>3, <1>5, <3>2 DEF SlotInv, Signing
    <3>3. QED BY <3>1, <3>2
  <2>2. ASSUME NEW q \in Procs, NEW k \in Pairs, inflight'[k] # None, presigning'[q].slot = inflight'[k]
        PROVE  presigning'[q].pair = k
    BY <1>1, <1>3, <2>2 DEF SlotInv
  <2>3. QED BY <2>1, <2>2 DEF SlotInv, Signing
<1>7. QED BY <1>4, <1>6 DEF MaterialiseIInv

LEMMA MaterialiseInductive ==
    ASSUME MaterialiseIInv, [MaterialiseNext]_materialiseVars
    PROVE  MaterialiseIInv'
<1>1. ASSUME NEW p \in Procs, NEW k \in Pairs, Ask(p, k) PROVE MaterialiseIInv'
  BY <1>1, AskInv
<1>2. ASSUME NEW p \in Procs, NEW s \in Slots, TakeSlot(p, s) PROVE MaterialiseIInv'
  BY <1>2, TakeSlotInv
<1>3. ASSUME NEW p \in Procs, Lock(p) PROVE MaterialiseIInv'
  BY <1>3, LockInv
<1>4. ASSUME NEW p \in Procs, PresignGet(p) PROVE MaterialiseIInv'
  BY <1>4, PresignGetInv
<1>5. ASSUME NEW p \in Procs, Record(p) \/ GiveUp(p) PROVE MaterialiseIInv'
  BY <1>5, ReleaseInv DEF Record, GiveUp
<1>6. CASE UNCHANGED materialiseVars
  BY <1>6 DEF materialiseVars, MaterialiseIInv, MaterialiseTypeOK, SlotInv, Presign, Signing
<1>7. QED BY <1>1, <1>2, <1>3, <1>4, <1>5, <1>6 DEF MaterialiseNext

\* Who signs holds the mutex of the slot of its pair, so no two sign for one
\* pair (materialize_dataset.rs:24-41, 233-250).
THEOREM SignsAlone == MaterialiseSpec => []OneSigner
<1>1. MaterialiseIInv => OneSigner
  <2>1. SUFFICES ASSUME MaterialiseIInv, NEW p \in Procs, NEW q \in Procs,
                        presigning[p].pc \in Signing, presigning[q].pc \in Signing,
                        presigning[p].pair = presigning[q].pair
                 PROVE  p = q
    BY DEF OneSigner
  <2>2. presigning[p].slot = presigning[q].slot
    BY <2>1 DEF MaterialiseIInv, SlotInv
  <2>3. QED BY <2>1, <2>2 DEF MaterialiseIInv, SlotInv
<1>2. QED BY <1>1, MaterialiseInitInv, MaterialiseInductive, PTL DEF MaterialiseSpec

-----------------------------------------------------------------------------
(* Tiers                                                                   *)

LEMMA TiersInitInv == TiersInit => TiersIInv
  BY DEF TiersInit, TiersIInv, TiersTypeOK, ColdInv, TierNames

\* A tick that begins, of either job.
LEMMA BeginTickInv ==
    ASSUME TiersIInv, NEW p \in Procs, NEW run \in TickRuns,
           run.cold # None => run.cold \subseteq run.idle,
           ticking' = [ticking EXCEPT ![p] = run], UNCHANGED <<dataset, calls, queried>>
    PROVE  TiersIInv'
<1>1. TiersTypeOK /\ ColdInv
  BY DEF TiersIInv
<1>2. /\ ticking'[p] = run
      /\ \A q \in Procs \ {p} : ticking'[q] = ticking[q]
      /\ ticking' \in [Procs -> TickRuns \cup {None}]
  BY <1>1 DEF TiersTypeOK
<1>3. TiersTypeOK'
  BY <1>1, <1>2 DEF TiersTypeOK, TickRuns, TierNames
<1>4. ColdInv'
  BY <1>1, <1>2 DEF ColdInv
<1>5. QED BY <1>3, <1>4 DEF TiersIInv

\* Everything else that leaves the ticks as they are.
LEMMA TicksStandInv ==
    ASSUME TiersIInv, UNCHANGED ticking,
           dataset' \in [Datasets -> [tier : TierNames, override : TierNames \cup {None},
                                      cached : BOOLEAN]],
           calls' \in [Datasets -> Nat], queried' \subseteq Datasets
    PROVE  TiersIInv'
  BY DEF TiersIInv, TiersTypeOK, ColdInv, TickRuns, TierNames

LEMMA EndTickInv ==
    ASSUME TiersIInv, NEW p \in Procs, ticking' = [ticking EXCEPT ![p] = None],
           dataset' \in [Datasets -> [tier : TierNames, override : TierNames \cup {None},
                                      cached : BOOLEAN]],
           UNCHANGED <<calls, queried>>
    PROVE  TiersIInv'
<1>1. TiersTypeOK /\ ColdInv
  BY DEF TiersIInv
<1>2. /\ ticking'[p] = None
      /\ \A q \in Procs \ {p} : ticking'[q] = ticking[q]
      /\ ticking' \in [Procs -> TickRuns \cup {None}]
  BY <1>1 DEF TiersTypeOK
<1>3. TiersTypeOK'
  BY <1>1, <1>2 DEF TiersTypeOK, TickRuns, TierNames
<1>4. ColdInv'
  BY <1>1, <1>2 DEF ColdInv
<1>5. QED BY <1>3, <1>4 DEF TiersIInv

LEMMA DemoteInv ==
    ASSUME TiersIInv, NEW p \in Procs, NEW d \in Datasets, Demote(p, d)
    PROVE  TiersIInv'
<1> DEFINE run == [ticking[p] EXCEPT !.cold = ticking[p].cold \ {d}]
<1>1. TiersTypeOK /\ ColdInv
  BY DEF TiersIInv
<1>2. ticking[p] \in TickRuns /\ ticking[p].cold \subseteq Datasets /\ ticking[p].cold # None
  BY <1>1 DEF Demote, TiersTypeOK, TickRuns
<1>3. ticking' = [ticking EXCEPT ![p] = run] /\ UNCHANGED <<calls, queried>>
  BY DEF Demote
<1>4. run \in TickRuns /\ run.cold = ticking[p].cold \ {d} /\ run.idle = ticking[p].idle
  BY <1>2 DEF TickRuns
<1> HIDE DEF run
<1>5. run.cold \subseteq run.idle
  BY <1>1, <1>2, <1>4 DEF ColdInv, Demote
<1>6. dataset' \in [Datasets -> [tier : TierNames, override : TierNames \cup {None},
                                 cached : BOOLEAN]]
  <2>1. [dataset[d] EXCEPT !.cached = FALSE] \in
           [tier : TierNames, override : TierNames \cup {None}, cached : BOOLEAN]
    BY <1>1 DEF TiersTypeOK
  <2>2. CASE Demotable(d)
    BY <1>1, <2>1, <2>2 DEF Demote, TiersTypeOK
  <2>3. CASE ~Demotable(d)
    BY <1>1, <2>3 DEF Demote, TiersTypeOK
  <2>4. QED BY <2>2, <2>3
<1>7. /\ ticking'[p] = run
      /\ \A q \in Procs \ {p} : ticking'[q] = ticking[q]
      /\ ticking' \in [Procs -> TickRuns \cup {None}]
  BY <1>1, <1>3, <1>4 DEF TiersTypeOK
<1>8. TiersTypeOK'
  BY <1>1, <1>3, <1>6, <1>7 DEF TiersTypeOK, TickRuns, TierNames
<1>9. ColdInv'
  BY <1>1, <1>5, <1>7 DEF ColdInv
<1>10. QED BY <1>8, <1>9 DEF TiersIInv

\* Time adds to what was idle, and takes from the counts.
LEMMA AgeOutInv ==
    ASSUME TiersIInv, NEW d \in Datasets, AgeOut(d)
    PROVE  TiersIInv'
<1>1. TiersTypeOK /\ ColdInv
  BY DEF TiersIInv
<1>2. CASE calls[d] > 0 /\ calls' = [calls EXCEPT ![d] = @ - 1] /\ UNCHANGED <<queried, ticking>>
  <2>1. calls' \in [Datasets -> Nat] /\ dataset' = dataset
    BY <1>1, <1>2 DEF TiersTypeOK, AgeOut
  <2>2. QED BY <1>1, <1>2, <2>1, TicksStandInv DEF TiersTypeOK
<1>3. CASE /\ queried' = queried \ {d}
           /\ ticking' = [p \in Procs |-> IF ticking[p] = None THEN None
                          ELSE [ticking[p] EXCEPT !.idle = ticking[p].idle \cup {d}]]
           /\ UNCHANGED <<calls, dataset>>
  <2>1. ASSUME NEW p \in Procs
        PROVE  /\ ticking'[p] \in TickRuns \cup {None}
               /\ ticking'[p] # None /\ ticking'[p].cold # None =>
                     ticking'[p].cold \subseteq ticking'[p].idle
    <3>1. CASE ticking[p] = None
      BY <1>3, <3>1
    <3>2. CASE ticking[p] # None
      <4> DEFINE run == [ticking[p] EXCEPT !.idle = ticking[p].idle \cup {d}]
      <4>1. ticking'[p] = run
        BY <1>3, <3>2
      <4>2. ticking[p] \in TickRuns
        BY <1>1, <3>2 DEF TiersTypeOK
      <4>3. run \in TickRuns /\ run.cold = ticking[p].cold /\ run.idle = ticking[p].idle \cup {d}
        BY <4>2 DEF TickRuns
      <4> HIDE DEF run
      <4>4. ticking[p].cold # None => ticking[p].cold \subseteq ticking[p].idle
        BY <1>1, <3>2 DEF ColdInv
      <4>5. QED BY <4>1, <4>3, <4>4
    <3>3. QED BY <3>1, <3>2
  <2>2. ticking' = [p \in Procs |-> ticking'[p]]
    BY <1>3
  <2>3. ticking' \in [Procs -> TickRuns \cup {None}]
    BY <2>1, <2>2
  <2>4. TiersTypeOK'
    BY <1>1, <1>3, <2>3 DEF TiersTypeOK, TickRuns, TierNames
  <2>5. ColdInv'
    BY <2>1 DEF ColdInv
  <2>6. QED BY <2>4, <2>5 DEF TiersIInv
<1>4. QED BY <1>2, <1>3 DEF AgeOut

LEMMA TiersInductive ==
    ASSUME TiersIInv, [TiersNext]_tierVars
    PROVE  TiersIInv'
<1>1. TiersTypeOK
  BY DEF TiersIInv
<1>2. ASSUME NEW p \in Procs, ListForTiering(p) PROVE TiersIInv'
  <2> DEFINE run == [tiers |-> [d \in Datasets |-> Classify(Score(d))], cold |-> None, idle |-> {}]
  <2>1. run \in TickRuns /\ run.cold = None
    BY DEF TickRuns, Classify, TierNames
  <2>2. ticking' = [ticking EXCEPT ![p] = run] /\ UNCHANGED <<dataset, calls, queried>>
    BY <1>2 DEF ListForTiering
  <2> HIDE DEF run
  <2>3. QED BY <2>1, <2>2, BeginTickInv
<1>3. ASSUME NEW p \in Procs, ApplyComputedTiers(p) PROVE TiersIInv'
  <2>1. ASSUME NEW d \in Datasets
        PROVE  Tiered(dataset[d], ticking[p].tiers[d]) \in
                  [tier : TierNames, override : TierNames \cup {None}, cached : BOOLEAN]
    <3>1. ticking[p].tiers[d] \in TierNames
      BY <1>1, <1>3 DEF ApplyComputedTiers, TiersTypeOK, TickRuns
    <3>2. dataset[d] \in [tier : TierNames, override : TierNames \cup {None}, cached : BOOLEAN]
      BY <1>1 DEF TiersTypeOK
    <3>3. QED BY <3>1, <3>2 DEF Tiered
  <2>2. dataset' = [d \in Datasets |-> Tiered(dataset[d], ticking[p].tiers[d])]
    BY <1>3 DEF ApplyComputedTiers
  <2>3. dataset' \in [Datasets -> [tier : TierNames, override : TierNames \cup {None},
                                   cached : BOOLEAN]]
    BY <2>1, <2>2
  <2>4. QED BY <1>3, <2>3, EndTickInv DEF ApplyComputedTiers
<1>4. ASSUME NEW p \in Procs, ColdCandidates(p) PROVE TiersIInv'
  <2> DEFINE cold == {d \in Datasets : dataset[d].cached /\ Effective(d) # "gold" /\ d \notin queried}
             run == [tiers |-> None, cold |-> cold, idle |-> Datasets \ queried]
  <2>1. cold \subseteq Datasets \ queried
    OBVIOUS
  <2>2. ticking' = [ticking EXCEPT ![p] = run] /\ UNCHANGED <<dataset, calls, queried>>
    BY <1>4 DEF ColdCandidates
  <2> HIDE DEF cold
  <2>3. run \in TickRuns /\ run.cold = cold /\ run.idle = Datasets \ queried
    BY <2>1 DEF TickRuns
  <2> HIDE DEF run
  <2>4. QED BY <2>1, <2>2, <2>3, BeginTickInv
<1>5. ASSUME NEW p \in Procs, EndTick(p) PROVE TiersIInv'
  BY <1>1, <1>5, EndTickInv DEF EndTick, TiersTypeOK
<1>6. ASSUME NEW p \in Procs, NEW d \in Datasets, Demote(p, d) PROVE TiersIInv'
  BY <1>6, DemoteInv
<1>7. ASSUME NEW d \in Datasets, QueryRows(d) \/ RecordMaterialise(d) PROVE TiersIInv'
  <2>1. /\ calls' = [calls EXCEPT ![d] = @ + 1] /\ UNCHANGED <<dataset, ticking>>
        /\ queried' = queried \/ queried' = queried \cup {d}
    BY <1>7 DEF QueryRows, RecordMaterialise
  <2>2. calls' \in [Datasets -> Nat] /\ queried' \subseteq Datasets
    BY <1>1, <2>1 DEF TiersTypeOK
  <2>3. QED BY <1>1, <2>1, <2>2, TicksStandInv DEF TiersTypeOK
<1>8. ASSUME NEW d \in Datasets, AgeOut(d) PROVE TiersIInv'
  BY <1>8, AgeOutInv
<1>9. ASSUME NEW d \in Datasets, NEW tier \in TierNames \cup {None}, Pin(d, tier) \/ EnterCache(d)
      PROVE  TiersIInv'
  <2>1. /\ [dataset[d] EXCEPT !.override = tier] \in
              [tier : TierNames, override : TierNames \cup {None}, cached : BOOLEAN]
        /\ [dataset[d] EXCEPT !.cached = TRUE] \in
              [tier : TierNames, override : TierNames \cup {None}, cached : BOOLEAN]
    BY <1>1 DEF TiersTypeOK
  <2>2. dataset' \in [Datasets -> [tier : TierNames, override : TierNames \cup {None},
                                   cached : BOOLEAN]]
    BY <1>1, <1>9, <2>1 DEF Pin, EnterCache, TiersTypeOK
  <2>3. QED BY <1>1, <1>9, <2>2, TicksStandInv DEF Pin, EnterCache, TiersTypeOK
<1>10. CASE UNCHANGED tierVars
  BY <1>1, <1>10, TicksStandInv DEF tierVars, TiersTypeOK
<1>11. QED BY <1>2, <1>3, <1>4, <1>5, <1>6, <1>7, <1>8, <1>9, <1>10 DEF TiersNext

LEMMA TiersInvariant == TiersSpec => []TiersIInv
  BY TiersInitInv, TiersInductive, PTL DEF TiersSpec

\* A dataset leaves the cache by a tick alone, only while it is not held at
\* platinum or gold, and only if it was unqueried at some moment since the
\* list was made (dataset_repo.rs:1206-1235, cache_pipeline.rs:31-36).
THEOREM LeavesByTick == TiersSpec => CacheFollowsTier
<1>1. ASSUME TiersIInv, [TiersNext]_tierVars, NEW d \in Datasets, Leaves(d)
      PROVE  /\ Effective(d) # "gold"
             /\ \E p \in Procs : ticking[p] # None /\ ticking[p].cold # None
                                 /\ d \in ticking[p].cold /\ d \in ticking[p].idle
  <2>1. /\ dataset \in [Datasets -> [tier : TierNames, override : TierNames \cup {None},
                                     cached : BOOLEAN]]
        /\ dataset[d].cached /\ ~dataset'[d].cached
    BY <1>1 DEF TiersIInv, TiersTypeOK, Leaves
  <2>2. dataset' # dataset
    BY <2>1
  <2>3. ASSUME NEW p \in Procs, ApplyComputedTiers(p) PROVE FALSE
    <3>1. dataset'[d] = Tiered(dataset[d], ticking[p].tiers[d])
      BY <2>3 DEF ApplyComputedTiers
    <3>2. dataset'[d].cached = dataset[d].cached
      BY <2>1, <3>1 DEF Tiered
    <3>3. QED BY <2>1, <3>2
  <2>4. ASSUME NEW c \in Datasets, NEW tier \in TierNames \cup {None}, Pin(c, tier) \/ EnterCache(c)
        PROVE  FALSE
    <3>1. dataset'[d].cached = dataset[d].cached \/ dataset'[d].cached = TRUE
      BY <2>1, <2>4 DEF Pin, EnterCache
    <3>2. QED BY <2>1, <3>1
  <2>5. ASSUME NEW p \in Procs, NEW c \in Datasets, Demote(p, c)
        PROVE  c = d /\ Demotable(c)
    <3>1. Demotable(c) /\ dataset' = [dataset EXCEPT ![c] = [@ EXCEPT !.cached = FALSE]]
      BY <2>2, <2>5 DEF Demote
    <3>2. c # d => dataset'[d] = dataset[d]
      BY <2>1, <3>1
    <3>3. QED BY <2>1, <3>1, <3>2
  <2>6. PICK p \in Procs : Demote(p, d) /\ Demotable(d)
    BY <1>1, <2>2, <2>3, <2>4, <2>5 DEF TiersNext, tierVars, ListForTiering, ColdCandidates, EndTick,
       QueryRows, RecordMaterialise, AgeOut
  <2>7. QED BY <1>1, <2>6 DEF Demote, Demotable, TiersIInv, ColdInv
<1>2. TiersIInv /\ [TiersNext]_tierVars =>
        [\A d \in Datasets : Leaves(d) =>
          /\ Effective(d) # "gold"
          /\ \E p \in Procs : ticking[p] # None /\ ticking[p].cold # None
                              /\ d \in ticking[p].cold /\ d \in ticking[p].idle]_tierVars
  BY <1>1
<1>3. QED BY <1>2, TiersInvariant, PTL DEF TiersSpec, CacheFollowsTier

-----------------------------------------------------------------------------
(* Throttle                                                                *)

LEMMA ThrottleInitInv == ThrottleInit => ThrottleIInv
  BY DEF ThrottleInit, ThrottleIInv, ThrottleTypeOK, ClaimInv, RobotsInv, Spaced, RobotsObeyed

LEMMA DeadlineFacts ==
    ASSUME ThrottleIInv
    PROVE  /\ Deadline \in Nat /\ SlotAfter \in Nat /\ SlotAfter = Deadline + Interval
           /\ Len(slots) \in Nat
           /\ \A m \in 1 .. Len(slots) : slots[m] \in Nat /\ slots[m] + Interval <= Deadline
<1>1. /\ instant \in Nat /\ nextAllowed \in Nat \cup {None} /\ slots \in Seq(Nat)
      /\ Interval \in Nat /\ None \notin Nat
  BY ThrottleAssumption DEF ThrottleIInv, ThrottleTypeOK
<1>2. Deadline \in Nat /\ SlotAfter \in Nat /\ SlotAfter = Deadline + Interval
  BY <1>1 DEF Deadline, SlotAfter
<1>3. ASSUME NEW m \in 1 .. Len(slots)
      PROVE  slots[m] \in Nat /\ slots[m] + Interval <= Deadline
  <2>1. Len(slots) \in Nat /\ Len(slots) \in 1 .. Len(slots) /\ slots # <<>>
    BY <1>1
  <2>2. slots[m] \in Nat /\ slots[Len(slots)] \in Nat
    BY <1>1, <2>1
  <2>3. nextAllowed = slots[Len(slots)] + Interval /\ nextAllowed \in Nat
    BY <1>1, <2>1, <2>2 DEF ThrottleIInv, ClaimInv
  <2>4. nextAllowed <= Deadline
    BY <1>1, <2>3 DEF Deadline
  <2>5. m # Len(slots) => slots[m] + Interval <= slots[Len(slots)]
    BY <2>1 DEF ThrottleIInv, Spaced
  <2>6. QED BY <1>1, <1>2, <2>2, <2>3, <2>4, <2>5
<1>4. QED BY <1>1, <1>2, <1>3

\* A claim appends a slot that keeps its distance, and owns it.
LEMMA ClaimStep ==
    ASSUME ThrottleIInv, NEW p \in Procs, NEW o \in Origins, NEW path \in Paths \cup {None},
           fetching[p] = None, Claim(p, o, path)
    PROVE  /\ ThrottleTypeOK' /\ ClaimInv' /\ Spaced'
           /\ fetching'[p].origin = o /\ fetching'[p].path = path
           /\ \A q \in Procs \ {p} : fetching'[q] = fetching[q]
           /\ UNCHANGED <<robots, client, sent>>
<1> DEFINE new == [origin |-> o, path |-> path, slot |-> Len(slots) + 1, deadline |-> Deadline]
           n0 == Len(slots) + 1
<1>1. ThrottleTypeOK /\ ClaimInv /\ Spaced /\ Interval \in Nat /\ None \notin Nat
  BY ThrottleAssumption DEF ThrottleIInv
<1>2. /\ Deadline \in Nat /\ SlotAfter \in Nat /\ SlotAfter = Deadline + Interval
      /\ \A m \in 1 .. Len(slots) : slots[m] \in Nat /\ slots[m] + Interval <= Deadline
      /\ Len(slots) \in Nat
  BY DeadlineFacts
<1>3. /\ nextAllowed' = SlotAfter /\ slots' = Append(slots, Deadline)
      /\ fetching' = [fetching EXCEPT ![p] = new]
      /\ UNCHANGED <<instant, robots, client, sent>>
  BY DEF Claim
<1>4. /\ slots' \in Seq(Nat) /\ Len(slots') = n0 /\ slots' # <<>>
      /\ slots'[n0] = Deadline
      /\ \A m \in 1 .. Len(slots) : slots'[m] = slots[m]
      /\ \A m \in 1 .. Len(slots') : m \in 1 .. Len(slots) \/ m = n0
  <2>1. slots \in Seq(Nat) /\ Len(slots) \in Nat /\ Deadline \in Nat /\ slots' = Append(slots, Deadline)
    BY <1>1, <1>2, <1>3 DEF ThrottleTypeOK
  <2>2. /\ slots' \in Seq(Nat) /\ Len(slots') = n0
        /\ slots'[n0] = Deadline
        /\ \A m \in 1 .. Len(slots) : slots'[m] = slots[m]
    BY <2>1
  <2>3. slots' # <<>>
    BY <2>1, <2>2
  <2>4. \A m \in 1 .. Len(slots') : m \in 1 .. Len(slots) \/ m = n0
    BY <2>1, <2>2
  <2>5. QED BY <2>2, <2>3, <2>4
<1>5. new \in Fetches /\ new.slot = n0 /\ new.deadline = Deadline
  BY <1>2 DEF Fetches
<1>6. fetching'[p] = new /\ \A q \in Procs \ {p} : fetching'[q] = fetching[q]
  BY <1>1, <1>3 DEF ThrottleTypeOK
<1>7. new.origin = o /\ new.path = path
  OBVIOUS
<1> HIDE DEF new, n0
<1>8. ThrottleTypeOK'
  BY <1>1, <1>2, <1>3, <1>4, <1>5 DEF ThrottleTypeOK, Fetches, Sends
<1>9. \A s \in sent : s.slot \in 1 .. Len(slots) /\ slots[s.slot] <= s.at
  BY <1>1 DEF Spaced
<1>10. n0 = Len(slots) + 1 /\ n0 \notin 1 .. Len(slots) /\ n0 \in 1 .. Len(slots')
  BY <1>2, <1>4 DEF n0
<1>11. Spaced'
  <2>1. ASSUME NEW n \in 1 .. Len(slots'), NEW m \in 1 .. Len(slots'), m < n
        PROVE  slots'[m] + Interval <= slots'[n]
    <3>1. m \in 1 .. Len(slots)
      BY <1>2, <1>4, <1>10, <2>1
    <3>2. CASE n \in 1 .. Len(slots)
      BY <1>1, <1>4, <2>1, <3>1, <3>2 DEF Spaced
    <3>3. CASE n = n0
      BY <1>2, <1>4, <3>1, <3>3
    <3>4. QED BY <1>4, <3>2, <3>3
  <2>2. ASSUME NEW s \in sent
        PROVE  s.slot \in 1 .. Len(slots') /\ slots'[s.slot] <= s.at
    BY <1>2, <1>4, <1>9, <1>10
  <2>3. QED BY <1>1, <1>3, <2>1, <2>2 DEF Spaced
<1>12. ClaimInv'
  <2>1. nextAllowed' = IF slots' = <<>> THEN None ELSE slots'[Len(slots')] + Interval
    BY <1>2, <1>3, <1>4
  <2>2. ASSUME NEW q \in Procs, fetching'[q] # None
        PROVE  /\ fetching'[q].slot \in 1 .. Len(slots')
               /\ slots'[fetching'[q].slot] = fetching'[q].deadline
               /\ \A s \in sent' : s.slot # fetching'[q].slot
               /\ \A r \in Procs \ {q} : fetching'[r] # None => fetching'[r].slot # fetching'[q].slot
    <3>1. ASSUME NEW r \in Procs \ {p}, fetching[r] # None
          PROVE  /\ fetching[r].slot \in 1 .. Len(slots)
                 /\ slots[fetching[r].slot] = fetching[r].deadline
                 /\ \A s \in sent : s.slot # fetching[r].slot
                 /\ \A t \in Procs \ {r} : fetching[t] # None => fetching[t].slot # fetching[r].slot
      BY <1>1, <3>1 DEF ClaimInv
    <3>2. CASE q = p
      BY <1>3, <1>4, <1>5, <1>6, <1>9, <1>10, <3>1, <3>2
    <3>3. CASE q # p
      <4>1. fetching'[q] = fetching[q] /\ fetching[q].slot \in 1 .. Len(slots)
        BY <1>6, <2>2, <3>1, <3>3
      <4>2. fetching[q].slot \in 1 .. Len(slots') /\ slots'[fetching[q].slot] = slots[fetching[q].slot]
        BY <1>2, <1>4, <1>10, <4>1
      <4>3. ASSUME NEW r \in Procs \ {q}, fetching'[r] # None
            PROVE  fetching'[r].slot # fetching[q].slot
        BY <1>5, <1>6, <1>10, <2>2, <3>1, <3>3, <4>1, <4>3
      <4>4. QED BY <1>3, <2>2, <3>1, <3>3, <4>1, <4>2, <4>3
    <3>4. QED BY <3>2, <3>3
  <2>3. QED BY <2>1, <2>2 DEF ClaimInv
<1>13. QED BY <1>3, <1>6, <1>7, <1>8, <1>11, <1>12

LEMMA AskRobotsInv ==
    ASSUME ThrottleIInv, NEW p \in Procs, NEW o \in Origins, AskRobots(p, o)
    PROVE  ThrottleIInv'
<1>1. client = "building" /\ robots[o] = None /\ (\A q \in Procs : fetching[q] = None) /\ Claim(p, o, None)
  BY DEF AskRobots
<1>2. /\ ThrottleTypeOK' /\ ClaimInv' /\ Spaced'
      /\ fetching'[p].origin = o /\ fetching'[p].path = None
      /\ \A q \in Procs \ {p} : fetching'[q] = fetching[q]
      /\ UNCHANGED <<robots, client, sent>>
  BY <1>1, ClaimStep
<1>3. RobotsInv'
  BY <1>1, <1>2 DEF RobotsInv
<1>4. RobotsObeyed'
  BY <1>2 DEF ThrottleIInv, RobotsObeyed
<1>5. QED BY <1>2, <1>3, <1>4 DEF ThrottleIInv

LEMMA PoliteGetInv ==
    ASSUME ThrottleIInv, NEW p \in Procs, NEW o \in Origins, NEW path \in Paths, PoliteGet(p, o, path)
    PROVE  ThrottleIInv'
<1>1. client = "ready" /\ fetching[p] = None /\ path \notin robots[o] /\ Claim(p, o, path)
  <2>1. robots[o] # None
    BY DEF ThrottleIInv, RobotsInv, PoliteGet
  <2>2. QED BY <2>1 DEF PoliteGet, PathAllowed
<1>2. /\ ThrottleTypeOK' /\ ClaimInv' /\ Spaced'
      /\ fetching'[p].origin = o /\ fetching'[p].path = path
      /\ \A q \in Procs \ {p} : fetching'[q] = fetching[q]
      /\ UNCHANGED <<robots, client, sent>>
  BY <1>1, ClaimStep
<1>3. RobotsInv'
  BY <1>1, <1>2, ThrottleAssumption DEF RobotsInv, ThrottleIInv
<1>4. RobotsObeyed'
  BY <1>2 DEF ThrottleIInv, RobotsObeyed
<1>5. QED BY <1>2, <1>3, <1>4 DEF ThrottleIInv

\* A request that ends frees its call, and sends no slot but its own.
LEMMA EndFetchStep ==
    ASSUME ThrottleIInv, NEW p \in Procs, fetching[p] # None,
           fetching' = [fetching EXCEPT ![p] = None],
           UNCHANGED <<instant, nextAllowed, slots>>,
           \/ sent' = sent
           \/ /\ instant >= fetching[p].deadline
              /\ sent' = sent \cup {[origin |-> fetching[p].origin, path |-> fetching[p].path,
                                     slot |-> fetching[p].slot, at |-> instant]},
           robots' \in [Origins -> (SUBSET Paths) \cup {None}],
           client' \in {"building", "ready", "failed"}
    PROVE  /\ ThrottleTypeOK' /\ ClaimInv' /\ Spaced'
           /\ \A q \in Procs : fetching'[q] # None => q # p /\ fetching'[q] = fetching[q]
<1> DEFINE new == [origin |-> fetching[p].origin, path |-> fetching[p].path,
                   slot |-> fetching[p].slot, at |-> instant]
<1>1. ThrottleTypeOK /\ ClaimInv /\ Spaced
  BY DEF ThrottleIInv
<1>2. fetching'[p] = None /\ \A q \in Procs \ {p} : fetching'[q] = fetching[q]
  BY <1>1 DEF ThrottleTypeOK
<1>3. fetching[p] \in Fetches
  BY <1>1 DEF ThrottleTypeOK
<1>4. new \in Sends /\ new.slot = fetching[p].slot /\ new.at = instant
  BY <1>1, <1>3 DEF ThrottleTypeOK, Fetches, Sends
<1>5. \A s \in sent' : s \in sent \/ (s = new /\ instant >= fetching[p].deadline)
  OBVIOUS
<1> HIDE DEF new
<1>6. /\ fetching[p].slot \in 1 .. Len(slots)
      /\ slots[fetching[p].slot] = fetching[p].deadline
      /\ \A s \in sent : s.slot # fetching[p].slot
  BY <1>1 DEF ClaimInv
<1>7. instant \in Nat /\ fetching[p].deadline \in Nat
  BY <1>1, <1>3 DEF ThrottleTypeOK, Fetches
<1>8. sent' \subseteq Sends
  BY <1>1, <1>4, <1>5 DEF ThrottleTypeOK
<1>9. ThrottleTypeOK'
  BY <1>1, <1>8 DEF ThrottleTypeOK, Fetches, Sends
<1>10. ClaimInv'
  <2>1. ASSUME NEW q \in Procs, fetching'[q] # None
        PROVE  /\ fetching'[q].slot \in 1 .. Len(slots')
               /\ slots'[fetching'[q].slot] = fetching'[q].deadline
               /\ \A s \in sent' : s.slot # fetching'[q].slot
               /\ \A r \in Procs \ {q} : fetching'[r] # None => fetching'[r].slot # fetching'[q].slot
    <3>1. q # p /\ fetching'[q] = fetching[q]
      BY <1>2, <2>1
    <3>2. /\ fetching[q].slot \in 1 .. Len(slots)
          /\ slots[fetching[q].slot] = fetching[q].deadline
          /\ \A s \in sent : s.slot # fetching[q].slot
          /\ \A r \in Procs \ {q} : fetching[r] # None => fetching[r].slot # fetching[q].slot
      BY <1>1, <2>1, <3>1 DEF ClaimInv
    <3>3. fetching[p].slot # fetching[q].slot
      BY <3>1, <3>2
    <3>4. QED BY <1>2, <1>4, <1>5, <3>1, <3>2, <3>3
  <2>2. QED BY <1>1, <2>1 DEF ClaimInv
<1>11. Spaced'
  <2>1. ASSUME NEW s \in sent'
        PROVE  s.slot \in 1 .. Len(slots) /\ slots[s.slot] <= s.at
    BY <1>1, <1>4, <1>5, <1>6, <1>7 DEF Spaced
  <2>2. ASSUME NEW s \in sent', NEW t \in sent', s.slot = t.slot
        PROVE  s = t
    BY <1>1, <1>4, <1>5, <1>6, <2>2 DEF Spaced
  <2>3. QED BY <1>1, <2>1, <2>2 DEF Spaced
<1>12. QED BY <1>2, <1>9, <1>10, <1>11

LEMMA SendPageInv ==
    ASSUME ThrottleIInv, NEW p \in Procs, SendPage(p)
    PROVE  ThrottleIInv'
<1> DEFINE new == [origin |-> fetching[p].origin, path |-> fetching[p].path,
                   slot |-> fetching[p].slot, at |-> instant]
<1>1. /\ fetching[p] # None /\ instant >= fetching[p].deadline /\ fetching[p].path # None
      /\ sent' = sent \cup {new} /\ fetching' = [fetching EXCEPT ![p] = None]
      /\ UNCHANGED <<instant, nextAllowed, robots, client, slots>>
  BY DEF SendPage, Wake
<1>2. /\ ThrottleTypeOK' /\ ClaimInv' /\ Spaced'
      /\ \A q \in Procs : fetching'[q] # None => q # p /\ fetching'[q] = fetching[q]
  BY <1>1, EndFetchStep DEF ThrottleIInv, ThrottleTypeOK
<1>3. new.origin = fetching[p].origin /\ new.path = fetching[p].path
  OBVIOUS
<1> HIDE DEF new
<1>4. RobotsInv'
  BY <1>1, <1>2 DEF ThrottleIInv, RobotsInv
<1>5. RobotsObeyed'
  BY <1>1, <1>3 DEF ThrottleIInv, RobotsInv, RobotsObeyed
<1>6. QED BY <1>2, <1>4, <1>5 DEF ThrottleIInv

LEMMA SendRobotsInv ==
    ASSUME ThrottleIInv, NEW p \in Procs, NEW disallowed \in SUBSET Paths, SendRobots(p, disallowed)
    PROVE  ThrottleIInv'
<1> DEFINE new == [origin |-> fetching[p].origin, path |-> fetching[p].path,
                   slot |-> fetching[p].slot, at |-> instant]
           o == fetching[p].origin
<1>1. /\ fetching[p] # None /\ instant >= fetching[p].deadline /\ fetching[p].path = None
      /\ sent' = sent \cup {new} /\ fetching' = [fetching EXCEPT ![p] = None]
      /\ UNCHANGED <<instant, nextAllowed, slots>>
      /\ \/ robots' = [robots EXCEPT ![o] = disallowed] /\ UNCHANGED client
         \/ client' = "failed" /\ UNCHANGED robots
  BY DEF SendRobots, Wake
<1>2. /\ robots \in [Origins -> (SUBSET Paths) \cup {None}] /\ o \in Origins
      /\ client \in {"building", "ready", "failed"}
  BY <1>1 DEF ThrottleIInv, ThrottleTypeOK, Fetches
<1>3. /\ robots' \in [Origins -> (SUBSET Paths) \cup {None}]
      /\ client' \in {"building", "ready", "failed"}
      /\ \A other \in Origins \ {o} : robots'[other] = robots[other]
  BY <1>1, <1>2
<1>4. /\ ThrottleTypeOK' /\ ClaimInv' /\ Spaced'
      /\ \A q \in Procs : fetching'[q] # None => q # p /\ fetching'[q] = fetching[q]
  BY <1>1, <1>3, EndFetchStep
<1>5. client = "building" /\ robots[o] = None /\ \A q \in Procs : fetching[q] # None => q = p
  BY <1>1 DEF ThrottleIInv, RobotsInv
<1>6. \A q \in Procs : fetching'[q] = None
  BY <1>4, <1>5
<1>7. new.path = None
  BY <1>1
<1>8. sent \subseteq Sends
  BY DEF ThrottleIInv, ThrottleTypeOK
<1> HIDE DEF new, o
<1>9. RobotsInv'
  BY <1>1, <1>5, <1>6 DEF RobotsInv
<1>10. ASSUME NEW s \in sent', s.path # None
       PROVE  robots'[s.origin] # None /\ s.path \notin robots'[s.origin]
  <2>1. s \in sent /\ s.origin \in Origins
    BY <1>1, <1>7, <1>8, <1>10 DEF Sends
  <2>2. robots[s.origin] # None /\ s.path \notin robots[s.origin]
    BY <1>10, <2>1 DEF ThrottleIInv, RobotsObeyed
  <2>3. QED BY <1>3, <1>5, <2>1, <2>2
<1>11. RobotsObeyed'
  BY <1>10 DEF RobotsObeyed
<1>12. QED BY <1>4, <1>9, <1>11 DEF ThrottleIInv

LEMMA DropFetchInv ==
    ASSUME ThrottleIInv, NEW p \in Procs, DropFetch(p)
    PROVE  ThrottleIInv'
<1>1. /\ fetching[p] # None /\ fetching' = [fetching EXCEPT ![p] = None]
      /\ client' = IF client = "building" THEN "failed" ELSE client
      /\ UNCHANGED <<instant, nextAllowed, robots, slots, sent>>
  BY DEF DropFetch
<1>2. client' \in {"building", "ready", "failed"} /\ robots' \in [Origins -> (SUBSET Paths) \cup {None}]
  BY <1>1 DEF ThrottleIInv, ThrottleTypeOK
<1>3. /\ ThrottleTypeOK' /\ ClaimInv' /\ Spaced'
      /\ \A q \in Procs : fetching'[q] # None => q # p /\ fetching'[q] = fetching[q]
  BY <1>1, <1>2, EndFetchStep
<1>4. RobotsInv'
  BY <1>1, <1>3 DEF ThrottleIInv, RobotsInv
<1>5. RobotsObeyed'
  BY <1>1 DEF ThrottleIInv, RobotsObeyed
<1>6. QED BY <1>3, <1>4, <1>5 DEF ThrottleIInv

LEMMA ThrottleInductive ==
    ASSUME ThrottleIInv, [ThrottleNext]_throttleVars
    PROVE  ThrottleIInv'
<1>1. ASSUME NEW p \in Procs, NEW o \in Origins, AskRobots(p, o) PROVE ThrottleIInv'
  BY <1>1, AskRobotsInv
<1>2. ASSUME NEW p \in Procs, NEW o \in Origins, NEW path \in Paths, PoliteGet(p, o, path)
      PROVE  ThrottleIInv'
  BY <1>2, PoliteGetInv
<1>3. ASSUME NEW p \in Procs, SendPage(p) PROVE ThrottleIInv'
  BY <1>3, SendPageInv
<1>4. ASSUME NEW p \in Procs, DropFetch(p) PROVE ThrottleIInv'
  BY <1>4, DropFetchInv
<1>5. ASSUME NEW p \in Procs, NEW disallowed \in SUBSET Paths, SendRobots(p, disallowed)
      PROVE  ThrottleIInv'
  BY <1>5, SendRobotsInv
<1>6. CASE Built
  BY <1>6 DEF Built, ThrottleIInv, ThrottleTypeOK, ClaimInv, RobotsInv, Spaced, RobotsObeyed, Fetches, Sends
<1>7. CASE Pass
  BY <1>7 DEF Pass, ThrottleIInv, ThrottleTypeOK, ClaimInv, RobotsInv, Spaced, RobotsObeyed, Fetches, Sends
<1>8. CASE UNCHANGED throttleVars
  BY <1>8 DEF throttleVars, ThrottleIInv, ThrottleTypeOK, ClaimInv, RobotsInv, Spaced, RobotsObeyed,
     Fetches, Sends
<1>9. QED BY <1>1, <1>2, <1>3, <1>4, <1>5, <1>6, <1>7, <1>8 DEF ThrottleNext, RefusePath

LEMMA ThrottleInvariant == ThrottleSpec => []ThrottleIInv
  BY ThrottleInitInv, ThrottleInductive, PTL DEF ThrottleSpec

\* Whatever is claimed at once, dropped or woken late, slots keep the
\* interval and requests wait for their own (twse.rs:441-508).
THEOREM SlotsSpaced == ThrottleSpec => []Spaced
<1>1. ThrottleIInv => Spaced
  BY DEF ThrottleIInv
<1>2. QED BY <1>1, ThrottleInvariant, PTL

\* No page goes out before the robots.txt of its origin has been read, or
\* against it (twse.rs:141-193, 636-655).
THEOREM RulesObeyed == ThrottleSpec => []RobotsObeyed
<1>1. ThrottleIInv => RobotsObeyed
  BY DEF ThrottleIInv
<1>2. QED BY <1>1, ThrottleInvariant, PTL

-----------------------------------------------------------------------------
(* Pages                                                                   *)

LEMMA ResultSize ==
    ASSUME NEW result \in Results
    PROVE  /\ Cardinality(result) \in Nat /\ Height(result) \in Nat /\ PageSize \in Nat \ {0}
           /\ Total(result) = Height(result)
  BY PageAssumption, FS_CardinalityType DEF Height, Total, Lesser

\* A page further on.
LEMMA OnePageMore ==
    ASSUME NEW h \in Nat, NEW page \in Nat \ {0}
    PROVE  Lesser((page - 1) * PageSize, h) + Slice(page, h) = Lesser(page * PageSize, h)
<1> DEFINE offset == (page - 1) * PageSize
<1>1. PageSize \in Nat /\ page - 1 \in Nat
  BY PageAssumption
<1>2. offset \in Nat /\ page * PageSize = offset + PageSize
  BY <1>1
<1>3. Slice(page, h) = IF offset >= h THEN 0 ELSE Lesser(PageSize, h - offset)
  BY DEF Slice
<1> HIDE DEF offset
<1>4. Lesser(offset, h) + Slice(page, h) = Lesser(offset + PageSize, h)
  BY <1>1, <1>2, <1>3 DEF Lesser
<1>5. QED BY <1>2, <1>4 DEF offset

\* All pages together hold every row.
LEMMA PagesCover ==
    ASSUME NEW result \in Results, NEW page \in Nat \ {0}, page > TotalPages(result)
    PROVE  Height(result) <= (page - 1) * PageSize
<1> DEFINE h == Height(result)
           n == h + PageSize - 1
           q == n \div PageSize
           r == n % PageSize
<1>1. h \in Nat /\ PageSize \in Nat /\ PageSize > 0 /\ n \in Nat /\ Total(result) = h
  BY ResultSize
<1>2. CASE h = 0
  BY <1>1, <1>2
<1>3. CASE h # 0
  <2>1. TotalPages(result) = q
    BY <1>1, <1>3 DEF TotalPages
  <2> HIDE DEF n
  <2>2. q \in Nat /\ r \in 0 .. PageSize - 1 /\ n = PageSize * q + r
    BY <1>1
  <2> HIDE DEF q, r
  <2>3. page - 1 - q \in Nat
    BY <2>1, <2>2
  <2>4. (page - 1 - q) * PageSize \in Nat
    BY <1>1, <2>3
  <2>5. (page - 1) * PageSize = (page - 1 - q) * PageSize + PageSize * q
    BY <1>1, <2>2
  <2>6. PageSize * q = n - r
    BY <1>1, <2>2
  <2>7. h <= n - r
    BY <1>1, <2>2 DEF n
  <2>8. QED BY <1>1, <2>2, <2>4, <2>5, <2>6, <2>7
<1>4. QED BY <1>2, <1>3

LEMMA PagesInductive ==
    ASSUME PagesIInv, [PagesNext]_pageVars
    PROVE  PagesIInv'
<1>1. ASSUME NEW p \in Procs, NEW tool \in Tools, NEW result \in Results, NEW force \in BOOLEAN,
             StartWalk(p, tool, result, force)
      PROVE  PagesIInv'
  <2> DEFINE w == [tool |-> tool, result |-> result, page |-> 1, given |-> 0, seen |-> {}]
  <2>1. w \in Walks /\ w.given = 0 /\ w.page = 1 /\ w.result = result /\ walk' = [walk EXCEPT ![p] = w]
    BY <1>1 DEF Walks, StartWalk
  <2> HIDE DEF w
  <2>2. walk'[p] = w /\ \A q \in Procs \ {p} : walk'[q] = walk[q]
    BY <2>1 DEF PagesIInv, PagesTypeOK
  <2>3. PagesTypeOK'
    BY <2>1 DEF PagesIInv, PagesTypeOK, Walks
  <2>4. GivenOK(p)'
    BY <2>1, <2>2, ResultSize DEF GivenOK, Lesser
  <2>5. QED BY <2>2, <2>3, <2>4 DEF PagesIInv, GivenOK
<1>2. ASSUME NEW p \in Procs, AskPage(p) PROVE PagesIInv'
  <2> DEFINE w == walk[p]
             h == Height(w.result)
             New(rows) == [w EXCEPT !.page = @ + 1, !.given = @ + Cardinality(rows), !.seen = @ \cup rows]
  <2>1. PICK rows \in kSubset(Slice(w.page, h), w.result) :
          walk' = [walk EXCEPT ![p] = New(rows)]
    BY <1>2 DEF AskPage
  <2>2. /\ w \in Walks /\ w # None /\ h \in Nat /\ w.page \in Nat \ {0} /\ w.given \in Nat
        /\ w.result \in Results /\ w.seen \subseteq UNION Results
        /\ w.given = Lesser((w.page - 1) * PageSize, h) /\ PageSize \in Nat \ {0}
    BY <1>2, ResultSize DEF AskPage, More, PagesIInv, PagesTypeOK, GivenOK, Walks
  <2>3. rows \subseteq w.result /\ Cardinality(rows) = Slice(w.page, h)
    BY DEF kSubset
  <2>4. Slice(w.page, h) \in Nat
    BY <2>2 DEF Slice, Lesser
  <2> DEFINE new == New(rows)
  <2>5. /\ new \in Walks /\ new.page = w.page + 1 /\ new.result = w.result
        /\ new.given = w.given + Slice(w.page, h)
    <3>1. w.seen \cup rows \subseteq UNION Results
      BY <2>2, <2>3
    <3>2. w.given + Cardinality(rows) \in Nat /\ Cardinality(rows) = Slice(w.page, h)
      BY <2>2, <2>3, <2>4
    <3> HIDE DEF w, h
    <3>3. w \in Walks /\ w.page + 1 \in Nat \ {0}
      BY <2>2
    <3>4. QED BY <3>1, <3>2, <3>3 DEF Walks
  <2> HIDE DEF new, h
  <2>6. walk' = [walk EXCEPT ![p] = new]
    BY <2>1 DEF new
  <2>7. walk'[p] = new /\ \A q \in Procs \ {p} : walk'[q] = walk[q]
    BY <2>6 DEF PagesIInv, PagesTypeOK
  <2>8. PagesTypeOK'
    BY <2>5, <2>6 DEF PagesIInv, PagesTypeOK, Walks
  <2>9. new.given = Lesser((new.page - 1) * PageSize, Height(new.result))
    <3>1. new.page - 1 = w.page
      BY <2>2, <2>5
    <3>2. new.given = Lesser(w.page * PageSize, h)
      BY <2>2, <2>5, OnePageMore
    <3>3. QED BY <2>5, <3>1, <3>2 DEF h
  <2>10. QED BY <2>7, <2>8, <2>9 DEF PagesIInv, GivenOK
<1>3. ASSUME NEW p \in Procs, EndWalk(p) PROVE PagesIInv'
  BY <1>3 DEF EndWalk, PagesIInv, PagesTypeOK, GivenOK, Walks
<1>4. CASE UNCHANGED walk
  BY <1>4 DEF PagesIInv, PagesTypeOK, GivenOK, Walks
<1>5. QED BY <1>1, <1>2, <1>3, <1>4 DEF PagesNext, RefuseWalk, pageVars

LEMMA PagesInvariant == PagesSpec => []PagesIInv
<1>1. PagesInit => PagesIInv
  BY DEF PagesInit, PagesIInv, PagesTypeOK, GivenOK
<1>2. QED BY <1>1, PagesInductive, PTL DEF PagesSpec

\* Who walks to the end has been given the announced total, for any results, any
\* cap and any size of page (join_datasets.rs:326-356, aggregate_dataset.rs:298-330).
THEOREM PagesAddUp == PagesSpec => []WalkAddsUp
<1>1. PagesIInv => WalkAddsUp
  <2>1. SUFFICES ASSUME PagesIInv, NEW p \in Procs, Walked(p)
        PROVE  walk[p].given = Total(walk[p].result)
    BY DEF WalkAddsUp
  <2> DEFINE w == walk[p]
  <2>2. /\ w # None /\ w.result \in Results /\ w.page \in Nat \ {0}
        /\ w.given = Lesser((w.page - 1) * PageSize, Height(w.result))
        /\ ~(w.page <= TotalPages(w.result))
    BY <2>1 DEF Walked, More, PagesIInv, PagesTypeOK, GivenOK, Walks
  <2>3. TotalPages(w.result) \in Nat
    BY <2>2, ResultSize DEF TotalPages
  <2>4. Height(w.result) <= (w.page - 1) * PageSize /\ Height(w.result) = Total(w.result)
        /\ Height(w.result) \in Nat /\ (w.page - 1) * PageSize \in Nat
    BY <2>2, <2>3, ResultSize, PagesCover
  <2>5. QED BY <2>2, <2>4 DEF Lesser
<1>2. QED BY <1>1, PagesInvariant, PTL
=============================================================================

--------------------------- MODULE ApiKeysProofs ----------------------------
(***************************************************************************)
(* Proofs about ApiKeys, for any users, keys, handlers, bound on time and  *)
(* drift between the clocks.                                               *)
(***************************************************************************)
EXTENDS ApiKeys, TLAPS

\* A touch changes last_used_at only, and only forward.
LEMMA TouchedRow ==
    ASSUME NEW row \in Row, NEW now \in Time, row.used # Null => row.created <= row.used
    PROVE  /\ Touched(row, now) \in Row
           /\ Touched(row, now).owner = row.owner /\ Touched(row, now).grant = row.grant
           /\ Touched(row, now).revoked = row.revoked
           /\ Touched(row, now).created = row.created
           /\ Touched(row, now).used # Null /\ row.created <= Touched(row, now).used
           /\ row.used # Null => row.used <= Touched(row, now).used
<1> DEFINE seen == IF row.used = Null \/ row.used < now THEN now ELSE row.used
           used == IF seen < row.created THEN row.created ELSE seen
<1>1. now \in Int /\ row.created \in Time /\ row.used \in Time \cup {Null}
  BY DEF Row, Time
<1>2. used \in Time
  BY <1>1
<1>3. used # Null
  BY <1>2, KeyAssumption DEF Time
<1>4. row.created <= used /\ (row.used # Null => row.used <= used)
  BY <1>1, KeyAssumption DEF Time
<1>5. Touched(row, now) = [row EXCEPT !.used = used]
  BY DEF Touched
<1> HIDE DEF used
<1>6. QED BY <1>2, <1>3, <1>4, <1>5 DEF Row

\* A fresh row is well-formed and unused.
LEMMA InsertedRow ==
    ASSUME NEW u \in Users, NEW grant \in Grants, NEW now \in Time
    PROVE  /\ Inserted(u, grant, now) \in Row
           /\ Inserted(u, grant, now).owner = u /\ Inserted(u, grant, now).grant = grant
           /\ Inserted(u, grant, now).used = Null
  BY DEF Inserted, Row

\* What one statement may do to a row that exists: keep its owner and grant,
\* move last_used_at forward, and set revoked_at once.
Evolves(old, new) ==
    /\ new.owner = old.owner /\ new.grant = old.grant
    /\ old.revoked # Null => new = old
    /\ old.used # Null => new.used # Null /\ old.used <= new.used

\* The same for the whole table: at most row k is new.
TableStep ==
    /\ key' \in [Keys -> Row \cup {NoRow}]
    /\ UseTimeline'
    /\ \A k \in Keys : key[k].owner # Null => Evolves(key[k], key'[k])

LEMMA SameTable ==
    ASSUME KeyTypeOK, UseTimeline, key' = key
    PROVE  TableStep
  BY KeyAssumption DEF KeyTypeOK, UseTimeline, TableStep, Evolves, Row, NoRow, Time

LEMMA InsertTable ==
    ASSUME KeyTypeOK, UseTimeline, NEW u \in Users, NEW grant \in Grants, NEW now \in Time,
           NEW k \in Keys, key[k].owner = Null,
           key' = [key EXCEPT ![k] = Inserted(u, grant, now)]
    PROVE  /\ TableStep
           /\ key'[k].owner = u /\ key'[k].grant = grant
<1> DEFINE row == Inserted(u, grant, now)
<1>1. row \in Row /\ row.owner = u /\ row.grant = grant /\ row.used = Null
  BY InsertedRow
<1>2. key' = [key EXCEPT ![k] = row]
  OBVIOUS
<1> HIDE DEF row
<1>3. QED BY <1>1, <1>2, KeyAssumption DEF KeyTypeOK, UseTimeline, TableStep, Evolves, Row, NoRow, Time

LEMMA TouchTable ==
    ASSUME KeyTypeOK, UseTimeline, NEW now \in Time, NEW k \in Keys, LiveKey(k),
           key' = [key EXCEPT ![k] = Touched(@, now)]
    PROVE  TableStep
<1> DEFINE row == Touched(key[k], now)
<1>1. /\ row \in Row /\ row.owner = key[k].owner /\ row.grant = key[k].grant
      /\ row.created = key[k].created /\ row.used # Null /\ row.created <= row.used
      /\ key[k].used # Null => key[k].used <= row.used
  <2>1. key[k] \in Row
    BY DEF KeyTypeOK, LiveKey, NoRow
  <2>2. QED BY <2>1, TouchedRow DEF UseTimeline
<1>2. key' = [key EXCEPT ![k] = row]
  OBVIOUS
<1> HIDE DEF row
<1>3. QED BY <1>1, <1>2, KeyAssumption
          DEF KeyTypeOK, UseTimeline, TableStep, Evolves, LiveKey, Row, NoRow, Time

LEMMA RevokeTable ==
    ASSUME KeyTypeOK, UseTimeline, NEW now \in Time, NEW k \in Keys, NEW u,
           key' = AfterRevoke(u, k, now)
    PROVE  TableStep
<1>1. CASE ~(LiveKey(k) /\ key[k].owner = u)
  BY <1>1, SameTable DEF AfterRevoke
<1>2. CASE LiveKey(k) /\ key[k].owner = u
  <2> DEFINE row == [key[k] EXCEPT !.revoked = now]
  <2>1. /\ row \in Row /\ row.owner = key[k].owner /\ row.grant = key[k].grant
        /\ row.created = key[k].created /\ row.used = key[k].used
    <3>1. key[k] \in Row
      BY <1>2 DEF KeyTypeOK, LiveKey, NoRow
    <3>2. QED BY <3>1 DEF Row
  <2>2. key' = [key EXCEPT ![k] = row]
    BY <1>2 DEF AfterRevoke
  <2> HIDE DEF row
  <2>3. QED BY <1>2, <2>1, <2>2, KeyAssumption
            DEF KeyTypeOK, UseTimeline, TableStep, Evolves, LiveKey, Row, NoRow, Time
<1>3. QED BY <1>1, <1>2

-----------------------------------------------------------------------------
\* Every step changes the table as TableStep says.
LEMMA KeyStep ==
    ASSUME KeyTypeOK, CallInv, UseTimeline, [KeyNext]_keyVars
    PROVE  TableStep
<1>1. CASE Tick \/ UNCHANGED keyVars
  BY <1>1, SameTable DEF Tick, keyVars
<1>2. ASSUME NEW k \in Keys, NEW now \in Time, NEW u \in Users, NEW grant \in Grants,
             Issue(u, k, grant, now)
      PROVE  TableStep
  BY <1>2, InsertTable DEF Issue
<1>3. ASSUME NEW k \in Keys, NEW now \in Time, Verify(k, now) PROVE TableStep
  BY <1>3, TouchTable DEF Verify
<1>4. ASSUME NEW k \in Keys, NEW now \in Time, NEW u \in Users, Revoke(u, k, now)
      PROVE  TableStep
  BY <1>4, RevokeTable DEF Revoke
<1>5. ASSUME NEW k \in Keys, NEW now \in Time, NEW h \in Rotators, Mint(h, k, now)
      PROVE  TableStep
  <2>1. rotation[h].user \in Users /\ rotation[h].grant \in Grants
    BY <1>5 DEF CallInv, Mint
  <2>2. QED BY <1>5, <2>1, InsertTable DEF Mint
<1>6. ASSUME NEW h \in Rotators, NEW u \in Users, NEW k \in Keys, Rotate(h, u, k)
      PROVE  TableStep
  BY <1>6, SameTable DEF Rotate
<1>7. ASSUME NEW h \in Rotators, NEW now \in Time, Retire(h, now) PROVE TableStep
  <2>1. rotation[h].old \in Keys
    BY <1>7 DEF CallInv, Retire
  <2>2. QED BY <1>7, <2>1, RevokeTable DEF Retire
<1>8. ASSUME NEW h \in Rotators, Fail(h) PROVE TableStep
  BY <1>8, SameTable DEF Fail
<1>9. QED BY <1>1, <1>2, <1>3, <1>4, <1>5, <1>6, <1>7, <1>8 DEF KeyNext
-----------------------------------------------------------------------------
\* Type correctness is preserved.
LEMMA TypeStep ==
    ASSUME KeyTypeOK, CallInv, TableStep, [KeyNext]_keyVars
    PROVE  KeyTypeOK'
<1>1. key' \in [Keys -> Row \cup {NoRow}]
  BY DEF TableStep
<1>2. clock' \in Time
  <2>1. CASE Tick
    BY <2>1, KeyAssumption DEF KeyTypeOK, Tick, Time
  <2>2. CASE clock' = clock
    BY <2>2 DEF KeyTypeOK
  <2>3. QED BY <2>1, <2>2 DEF KeyNext, Issue, Verify, Revoke, Mint, Rotate, Retire, Fail, keyVars
<1>3. rotation' \in [Rotators -> Rotation]
  <2>1. ASSUME NEW h \in Rotators, NEW u \in Users, NEW k \in Keys, Rotate(h, u, k)
        PROVE  rotation' \in [Rotators -> Rotation]
    <3>1. key[k].grant \in Grants
      BY <2>1 DEF Rotate, LiveKey, KeyTypeOK, Row, NoRow
    <3> DEFINE next == [NoRotation EXCEPT !.pc = "mint", !.user = u, !.grant = key[k].grant, !.old = k]
    <3>2. next \in Rotation
      BY <3>1 DEF NoRotation, Rotation
    <3>3. rotation' = [rotation EXCEPT ![h] = next]
      BY <2>1 DEF Rotate
    <3> HIDE DEF next
    <3>4. QED BY <3>2, <3>3 DEF KeyTypeOK
  <2>2. ASSUME NEW h \in Rotators, NEW k \in Keys, NEW now \in Time, Mint(h, k, now)
        PROVE  rotation' \in [Rotators -> Rotation]
    <3> DEFINE next == [rotation[h] EXCEPT !.pc = "retire", !.new = k]
    <3> rotation[h] \in Rotation
      BY DEF KeyTypeOK
    <3>1. next \in Rotation
      BY DEF Rotation
    <3>2. rotation' = [rotation EXCEPT ![h] = next]
      BY <2>2 DEF Mint
    <3> HIDE DEF next
    <3>3. QED BY <3>1, <3>2 DEF KeyTypeOK
  <2>3. NoRotation \in Rotation
    BY DEF NoRotation, Rotation
  <2>4. ASSUME NEW h \in Rotators, rotation' = [rotation EXCEPT ![h] = NoRotation]
        PROVE  rotation' \in [Rotators -> Rotation]
    BY <2>3, <2>4 DEF KeyTypeOK
  <2>5. CASE rotation' = rotation
    BY <2>5 DEF KeyTypeOK
  <2>6. QED BY <2>1, <2>2, <2>4, <2>5 DEF KeyNext, Tick, Issue, Verify, Revoke, Retire, Fail, keyVars
<1>4. QED BY <1>1, <1>2, <1>3 DEF KeyTypeOK

\* What a rotation knows of its two rows stays true.
LEMMA CallStep ==
    ASSUME KeyTypeOK, CallInv, UseTimeline, TableStep, [KeyNext]_keyVars
    PROVE  CallInv'
<1>1. \A k \in Keys : key[k].owner # Null =>
         key'[k].owner = key[k].owner /\ key'[k].grant = key[k].grant
  BY DEF TableStep, Evolves
<1>2. ASSUME NEW h \in Rotators, rotation'[h] = rotation[h], rotation'[h].pc # "idle"
      PROVE  /\ rotation'[h].user \in Users /\ rotation'[h].grant \in Grants /\ rotation'[h].old \in Keys
             /\ key'[rotation'[h].old].owner = rotation'[h].user
             /\ key'[rotation'[h].old].grant = rotation'[h].grant
             /\ rotation'[h].pc = "retire" =>
                  /\ rotation'[h].new \in Keys
                  /\ key'[rotation'[h].new].owner = rotation'[h].user
                  /\ key'[rotation'[h].new].grant = rotation'[h].grant
  BY <1>1, <1>2, KeyAssumption DEF CallInv
<1>3. ASSUME NEW h \in Rotators, NEW u \in Users, NEW k \in Keys, Rotate(h, u, k)
      PROVE  CallInv'
  <2>1. key[k].owner = u /\ key[k].grant \in Grants
    BY <1>3 DEF Rotate, LiveKey, KeyTypeOK, Row, NoRow
  <2>2. /\ rotation'[h].pc = "mint" /\ rotation'[h].user = u /\ rotation'[h].grant = key[k].grant
        /\ rotation'[h].old = k
        /\ \A g \in Rotators : g # h => rotation'[g] = rotation[g]
        /\ key' = key
    BY <1>3 DEF Rotate, KeyTypeOK, NoRotation
  <2>3. QED BY <1>2, <2>1, <2>2 DEF CallInv
<1>4. ASSUME NEW h \in Rotators, NEW k \in Keys, NEW now \in Time, Mint(h, k, now)
      PROVE  CallInv'
  <2>1. rotation[h].user \in Users /\ rotation[h].grant \in Grants /\ rotation[h].pc = "mint"
    BY <1>4 DEF Mint, CallInv
  <2>2. key'[k].owner = rotation[h].user /\ key'[k].grant = rotation[h].grant
    <3> DEFINE row == Inserted(rotation[h].user, rotation[h].grant, now)
    <3>1. row.owner = rotation[h].user /\ row.grant = rotation[h].grant
      BY <1>4, <2>1, InsertedRow
    <3>2. key' = [key EXCEPT ![k] = row]
      BY <1>4 DEF Mint
    <3> HIDE DEF row
    <3>3. key'[k] = row
      BY <1>4, <3>2 DEF KeyTypeOK
    <3>4. QED BY <3>1, <3>3
  <2>3. /\ rotation'[h].pc = "retire" /\ rotation'[h].user = rotation[h].user
        /\ rotation'[h].grant = rotation[h].grant /\ rotation'[h].old = rotation[h].old /\ rotation'[h].new = k
        /\ \A g \in Rotators : g # h => rotation'[g] = rotation[g]
    BY <1>4 DEF Mint, KeyTypeOK, Rotation
  <2>4. /\ rotation[h].old \in Keys /\ key[rotation[h].old].owner = rotation[h].user
        /\ key[rotation[h].old].grant = rotation[h].grant
    BY <2>1 DEF CallInv
  <2>5. key'[rotation[h].old].owner = rotation[h].user /\ key'[rotation[h].old].grant = rotation[h].grant
    BY <1>1, <2>1, <2>4, KeyAssumption
  <2>6. QED BY <1>2, <2>1, <2>2, <2>3, <2>4, <2>5 DEF CallInv
<1>5. ASSUME NEW h \in Rotators, rotation' = [rotation EXCEPT ![h] = NoRotation]
      PROVE  CallInv'
  <2>1. /\ rotation'[h].pc = "idle"
        /\ \A g \in Rotators : g # h => rotation'[g] = rotation[g]
    BY <1>5 DEF KeyTypeOK, NoRotation
  <2>2. QED BY <1>2, <2>1 DEF CallInv
<1>6. CASE rotation' = rotation
  BY <1>2, <1>6 DEF CallInv
<1>7. QED BY <1>3, <1>4, <1>5, <1>6 DEF KeyNext, Tick, Issue, Verify, Revoke, Retire, Fail, keyVars
-----------------------------------------------------------------------------
LEMMA InitInv == KeyInit => KeyIInv
<1> SUFFICES ASSUME KeyInit PROVE KeyIInv
  OBVIOUS
<1>1. KeyTypeOK
  BY KeyAssumption DEF KeyInit, KeyTypeOK, NoRotation, Rotation, Time
<1>2. CallInv /\ UseTimeline
  BY DEF KeyInit, CallInv, UseTimeline, NoRotation, NoRow
<1>3. QED BY <1>1, <1>2 DEF KeyIInv

LEMMA NextInv == KeyIInv /\ [KeyNext]_keyVars => KeyIInv'
<1> SUFFICES ASSUME KeyIInv, [KeyNext]_keyVars PROVE KeyIInv'
  OBVIOUS
<1>1. KeyTypeOK /\ CallInv /\ UseTimeline
  BY DEF KeyIInv
<1>2. TableStep
  BY <1>1, KeyStep
<1>3. KeyTypeOK' /\ CallInv'
  BY <1>1, <1>2, TypeStep, CallStep
<1>4. QED BY <1>2, <1>3 DEF KeyIInv, TableStep

\* The inductive invariant holds in every reachable state.
THEOREM Inductive == KeySpec => []KeyIInv
  BY InitInv, NextInv, PTL DEF KeySpec

\* The table and the rotations in flight are always well-formed.
THEOREM TypeCorrect == KeySpec => []KeyTypeOK
<1>1. KeyIInv => KeyTypeOK
  BY DEF KeyIInv
<1>2. QED BY Inductive, <1>1, PTL

\* No key is recorded as used before it was created, for any drift between
\* the instances' clocks.
THEOREM Timeline == KeySpec => []UseTimeline
<1>1. KeyIInv => UseTimeline
  BY DEF KeyIInv
<1>2. QED BY Inductive, <1>1, PTL

\* A rotation's two rows have one owner and one grant.
THEOREM KeepsGrant == KeySpec => []RotationKeepsGrant
<1>1. KeyIInv => RotationKeepsGrant
  BY DEF KeyIInv, CallInv, RotationKeepsGrant
<1>2. QED BY Inductive, <1>1, PTL

\* Only rows that exist are used or revoked.
LEMMA UsedExists ==
    ASSUME KeyTypeOK, NEW k \in Keys, key[k].used # Null \/ key[k].revoked # Null
    PROVE  key[k].owner # Null
  BY KeyAssumption DEF KeyTypeOK, Row, NoRow

\* No statement of anybody changes a revoked row.
THEOREM Final == KeySpec => RevocationFinal
<1>1. KeyIInv /\ [KeyNext]_keyVars =>
        [\A k \in Keys : key[k].revoked # Null => key'[k] = key[k]]_keyVars
  BY KeyStep, UsedExists DEF KeyIInv, TableStep, Evolves
<1>2. QED BY Inductive, <1>1, PTL DEF KeySpec, RevocationFinal

\* last_used_at of every key only grows.
THEOREM Monotone == KeySpec => UseMonotone
<1>1. KeyIInv /\ [KeyNext]_keyVars =>
        [\A k \in Keys : key[k].used # Null =>
            key'[k].used # Null /\ key[k].used <= key'[k].used]_keyVars
  BY KeyStep, UsedExists DEF KeyIInv, TableStep, Evolves
<1>2. QED BY Inductive, <1>1, PTL DEF KeySpec, UseMonotone

\* A rotation never revokes its source without a successor in the table.
THEOREM NotStranded == KeySpec => NeverStranded
<1> DEFINE Strands(k, h) == /\ rotation[h].old = k /\ rotation'[h] # rotation[h]
                            /\ LiveKey(k) /\ key'[k].revoked # Null
           Succeeded(k, h) == rotation[h].new # Null /\ key[rotation[h].new].owner = key[k].owner
<1>1. ASSUME KeyIInv, [KeyNext]_keyVars, NEW k \in Keys, NEW h \in Rotators, Strands(k, h)
      PROVE  Succeeded(k, h)
  <2>1. ASSUME NEW now \in Time, Retire(h, now) PROVE Succeeded(k, h)
    BY <1>1, <2>1, KeyAssumption DEF KeyIInv, CallInv, Retire
  <2>2. ASSUME NEW g \in Rotators, g # h, rotation'[g] # rotation[g] PROVE FALSE
    BY <1>1, <2>2 DEF KeyIInv, KeyTypeOK, KeyNext, Tick, Issue, Verify, Revoke, Mint, Rotate, Retire,
                      Fail, keyVars
  <2>3. ASSUME NEW j \in Keys, NEW now \in Time, Mint(h, j, now) PROVE FALSE
    <3>1. rotation[h].user \in Users /\ rotation[h].grant \in Grants
      BY <1>1, <2>3 DEF KeyIInv, CallInv, Mint
    <3>2. j # k
      BY <1>1, <2>3 DEF Mint, LiveKey
    <3>3. key'[k] = key[k]
      BY <1>1, <2>3, <3>2 DEF Mint, KeyIInv, KeyTypeOK
    <3>4. QED BY <1>1, <3>3 DEF LiveKey
  <2>4. key' = key \/ (\E now \in Time : Retire(h, now)) \/ (\E j \in Keys, now \in Time : Mint(h, j, now))
    BY <1>1 DEF KeyIInv, KeyTypeOK, KeyNext, Tick, Issue, Verify, Revoke, Mint, Rotate, Retire, Fail, keyVars
  <2>5. QED BY <1>1, <2>1, <2>3, <2>4 DEF LiveKey
<1>2. KeyIInv /\ [KeyNext]_keyVars => [\A k \in Keys, h \in Rotators : Strands(k, h) => Succeeded(k, h)]_keyVars
  BY <1>1
<1>3. QED BY Inductive, <1>2, PTL DEF KeySpec, NeverStranded
=============================================================================

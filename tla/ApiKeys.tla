------------------------------ MODULE ApiKeys -------------------------------
(***************************************************************************)
(* crates/auth/src/api_key.rs over crates/storage/src/api_key_repo.rs: the *)
(* life of a row of mcp_api_keys.  Every statement is atomic; `rotate` is  *)
(* three of them (list, issue, revoke) with no transaction around, run by  *)
(* the request handlers Rotators.  A statement carries the time its        *)
(* gateway instance read before sending it, so a time that reaches the     *)
(* row may be off the true time by up to Drift, either way.                *)
(***************************************************************************)
EXTENDS Integers

CONSTANTS
    Users, Keys, Rotators,
    Grants,     \* name, scopes and rate_limit_tier of a key
    Null,       \* SQL NULL, and no key
    MaxTime,    \* bound on the true time and on the clocks
    Drift       \* bound on clock skew and on the delay of a statement

ASSUME KeyAssumption ==
    /\ MaxTime \in Nat /\ Drift \in Nat
    /\ Null \notin Users /\ Null \notin Keys /\ Null \notin Int /\ Null \notin Grants

VARIABLES
    clock,  \* the true time
    key,    \* key[k], a row of mcp_api_keys; owner Null is "no such row"
    rotation    \* rotation[h], what handler h is running

keyVars == <<clock, key, rotation>>

Time == 0 .. MaxTime
Row == [owner : Users, grant : Grants, created : Time,
        used : Time \cup {Null}, revoked : Time \cup {Null}]
NoRow == [owner |-> Null, grant |-> Null, created |-> 0, used |-> Null, revoked |-> Null]

Rotation == [pc : {"idle", "mint", "retire"}, user : Users \cup {Null}, grant : Grants \cup {Null},
         old : Keys \cup {Null}, new : Keys \cup {Null}]
NoRotation == [pc |-> "idle", user |-> Null, grant |-> Null, old |-> Null, new |-> Null]

KeyTypeOK ==
    /\ clock \in Time
    /\ key \in [Keys -> Row \cup {NoRow}]
    /\ rotation \in [Rotators -> Rotation]

KeyInit ==
    /\ clock = 0
    /\ key = [k \in Keys |-> NoRow]
    /\ rotation = [h \in Rotators |-> NoRotation]

LiveKey(k) == key[k].owner # Null /\ key[k].revoked = Null

\* The times a statement that runs now may carry.
Stamps == {t \in Time : clock - Drift <= t /\ t <= clock + Drift}

Tick ==
    /\ clock < MaxTime
    /\ clock' = clock + 1
    /\ UNCHANGED <<key, rotation>>

-----------------------------------------------------------------------------
\* Mutant: no GREATEST(.., created_at).
TouchedUnclamped(row, now) ==
    [row EXCEPT !.used = IF @ = Null \/ @ < now THEN now ELSE @]

\* GREATEST(COALESCE(last_used_at, now), now, created_at).
Touched(row, now) ==
    LET seen == IF row.used = Null \/ row.used < now THEN now ELSE row.used
    IN  [row EXCEPT !.used = IF seen < row.created THEN row.created ELSE seen]

\* INSERT of a fresh row; a colliding hash is drawn again.
Inserted(u, grant, now) ==
    [owner |-> u, grant |-> grant, created |-> now, used |-> Null, revoked |-> Null]

Issue(u, k, grant, now) ==
    /\ key[k].owner = Null /\ now \in Stamps
    /\ key' = [key EXCEPT ![k] = Inserted(u, grant, now)]
    /\ UNCHANGED <<clock, rotation>>

\* Mutant: the lookup does not ask for revoked_at IS NULL.
VerifyAny(k, now) ==
    /\ key[k].owner # Null /\ now \in Stamps
    /\ key' = [key EXCEPT ![k] = Touched(@, now)]
    /\ UNCHANGED <<clock, rotation>>

\* A request with the key's cleartext: validity check and touch in one UPDATE.
Verify(k, now) ==
    /\ LiveKey(k) /\ now \in Stamps
    /\ key' = [key EXCEPT ![k] = Touched(@, now)]
    /\ UNCHANGED <<clock, rotation>>

\* UPDATE .. SET revoked_at WHERE id AND user_id AND revoked_at IS NULL: what
\* it leaves in the table.
AfterRevoke(u, k, now) ==
    IF LiveKey(k) /\ key[k].owner = u THEN [key EXCEPT ![k] = [@ EXCEPT !.revoked = now]] ELSE key

Revoke(u, k, now) ==
    /\ now \in Stamps
    /\ key' = AfterRevoke(u, k, now)
    /\ UNCHANGED <<clock, rotation>>

-----------------------------------------------------------------------------
\* `rotate`: the live row k among the caller's own.
Rotate(h, u, k) ==
    /\ rotation[h].pc = "idle" /\ LiveKey(k) /\ key[k].owner = u
    /\ rotation' = [rotation EXCEPT ![h] = [NoRotation EXCEPT !.pc = "mint", !.user = u,
                                                      !.grant = key[k].grant, !.old = k]]
    /\ UNCHANGED <<clock, key>>

\* Mutant: the old key goes before the new one exists.
MintLast(h, k, now) ==
    /\ rotation[h].pc = "mint" /\ now \in Stamps
    /\ key' = AfterRevoke(rotation[h].user, rotation[h].old, now)
    /\ rotation' = [rotation EXCEPT ![h] = [@ EXCEPT !.pc = "retire", !.new = k]]
    /\ UNCHANGED clock

\* `issue` of the successor.
Mint(h, k, now) ==
    /\ rotation[h].pc = "mint" /\ key[k].owner = Null /\ now \in Stamps
    /\ key' = [key EXCEPT ![k] = Inserted(rotation[h].user, rotation[h].grant, now)]
    /\ rotation' = [rotation EXCEPT ![h] = [@ EXCEPT !.pc = "retire", !.new = k]]
    /\ UNCHANGED clock

\* The best-effort `revoke` of the source row.
Retire(h, now) ==
    /\ rotation[h].pc = "retire" /\ now \in Stamps
    /\ key' = AfterRevoke(rotation[h].user, rotation[h].old, now)
    /\ rotation' = [rotation EXCEPT ![h] = NoRotation]
    /\ UNCHANGED clock

\* `issue` or `revoke` fails, or the request future is dropped.
Fail(h) ==
    /\ rotation[h].pc # "idle"
    /\ rotation' = [rotation EXCEPT ![h] = NoRotation]
    /\ UNCHANGED <<clock, key>>

KeyNext ==
    \/ Tick
    \/ \E k \in Keys, now \in Time :
        \/ \E u \in Users, grant \in Grants : Issue(u, k, grant, now)
        \/ Verify(k, now)
        \/ \E u \in Users : Revoke(u, k, now)
        \/ \E h \in Rotators : Mint(h, k, now)
    \/ \E h \in Rotators :
        \/ \E u \in Users, k \in Keys : Rotate(h, u, k)
        \/ \E now \in Time : Retire(h, now)
        \/ Fail(h)

KeySpec == KeyInit /\ [][KeyNext]_keyVars

-----------------------------------------------------------------------------
(* The inductive invariant the proofs rest on (ApiKeysProofs): what a      *)
(* rotation read of its source row still holds, because no statement       *)
(* changes the owner or the grant of a row that exists.                    *)

CallInv ==
    \A h \in Rotators : rotation[h].pc # "idle" =>
        /\ rotation[h].user \in Users /\ rotation[h].grant \in Grants /\ rotation[h].old \in Keys
        /\ key[rotation[h].old].owner = rotation[h].user /\ key[rotation[h].old].grant = rotation[h].grant
        /\ rotation[h].pc = "retire" =>
              /\ rotation[h].new \in Keys
              /\ key[rotation[h].new].owner = rotation[h].user
              /\ key[rotation[h].new].grant = rotation[h].grant

-----------------------------------------------------------------------------
(* Properties.                                                             *)

\* A revocation is final, whatever is still in flight: no later request
\* verifies the key or touches its row, no second revoke moves revoked_at
\* (api_key_repo.rs:147-191, 208-234).
RevocationFinal ==
    [][\A k \in Keys : key[k].revoked # Null => key'[k] = key[k]]_keyVars

\* last_used_at never precedes created_at, although the key may be issued by
\* an instance whose clock is ahead (api_key_repo.rs:169-178).
UseTimeline ==
    \A k \in Keys : key[k].used # Null => key[k].created <= key[k].used

\* last_used_at never goes back, whichever instance serves the request
\* (api_key_repo.rs:163-169).
UseMonotone ==
    [][\A k \in Keys : key[k].used # Null =>
          key'[k].used # Null /\ key[k].used <= key'[k].used]_keyVars

KeyIInv == KeyTypeOK /\ CallInv /\ UseTimeline

\* While a rotation has both keys, the new one is its caller's own, with the
\* grant of the old one: nobody rotates a key into an account or a tier it
\* did not have (api_key.rs:345-364).
RotationKeepsGrant ==
    \A h \in Rotators : rotation[h].pc = "retire" =>
        LET old == key[rotation[h].old]
            new == key[rotation[h].new]
        IN  new.owner = old.owner /\ new.grant = old.grant

\* A rotation that stops half way strands nobody: it revokes a key only when
\* the successor is in the table (api_key.rs:325-335, "issue new, then
\* revoke old").
NeverStranded ==
    [][\A k \in Keys, h \in Rotators :
          /\ rotation[h].old = k /\ rotation'[h] # rotation[h]
          /\ LiveKey(k) /\ key'[k].revoked # Null
          => rotation[h].new # Null /\ key[rotation[h].new].owner = key[k].owner]_keyVars

\* What api_key.rs:323-324 says: "rotate-rotate is a no-op on the second
\* call", so no key gets two successors.
RotateRotateNoop ==
    \A g, h \in Rotators :
        g # h /\ rotation[g].pc = "retire" /\ rotation[h].pc = "retire" => rotation[g].old # rotation[h].old
=============================================================================

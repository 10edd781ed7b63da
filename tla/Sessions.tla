------------------------------ MODULE Sessions -------------------------------
(***************************************************************************)
(* crates/auth/src/session.rs over crates/storage/src/session_repo.rs: the *)
(* life of a row of `sessions`.  Every operation is one SQL statement; it  *)
(* carries the time its gateway instance read before sending it, which may *)
(* be off the true time by up to Drift, either way.                        *)
(***************************************************************************)
EXTENDS Handlers, Integers

CONSTANTS
    Sessions,       \* SHA-256 of the tokens, the primary key
    IdleTtl,        \* idle_ttl
    AbsoluteMax,    \* absolute_max
    MaxTime,        \* bound on the true time and on the clocks
    Drift           \* bound on clock skew and on the delay of a statement

ASSUME SessionAssumption ==
    /\ MaxTime \in Nat /\ Drift \in Nat
    /\ IdleTtl \in Nat \ {0} /\ AbsoluteMax \in Nat \ {0}
    /\ None \notin Int

VARIABLES
    clock,      \* the true time
    session     \* session[s], a row of `sessions`; owner None is "no such row"

sessionVars == <<clock, session>>

Time == 0 .. MaxTime
Row == [owner : Users, created : Time, seen : Time, expires : Nat, absolute : Nat,
        revoked : Time \cup {None}]
NoRow == [owner |-> None, created |-> 0, seen |-> 0, expires |-> 0, absolute |-> 0,
          revoked |-> None]

SessionTypeOK ==
    /\ clock \in Time
    /\ session \in [Sessions -> Row \cup {NoRow}]

SessionInit ==
    /\ clock = 0
    /\ session = [s \in Sessions |-> NoRow]

Exists(s) == session[s].owner # None

\* The times a statement that runs now may carry.
Stamps == {t \in Time : clock - Drift <= t /\ t <= clock + Drift}

Tick ==
    /\ clock < MaxTime
    /\ clock' = clock + 1
    /\ UNCHANGED session

-----------------------------------------------------------------------------
Least(a, b) == IF a <= b THEN a ELSE b
Greatest(a, b) == IF a <= b THEN b ELSE a

\* INSERT: the idle window, cut off at the absolute one.
Inserted(u, now) ==
    [owner |-> u, created |-> now, seen |-> now,
     expires |-> Least(now + IdleTtl, now + AbsoluteMax),
     absolute |-> now + AbsoluteMax, revoked |-> None]

\* `issue`; a colliding hash is drawn again.
Issue(u, s, now) ==
    /\ ~Exists(s) /\ now \in Stamps
    /\ session' = [session EXCEPT ![s] = Inserted(u, now)]
    /\ UNCHANGED clock

\* Mutant: no LEAST(.., absolute_expires_at).
SlidUncapped(row, now) ==
    [row EXCEPT !.seen = Greatest(@, now), !.expires = Greatest(now + IdleTtl, @)]

\* The sliding window: forward only, never past the absolute expiry.
Slid(row, now) ==
    [row EXCEPT !.seen = Greatest(@, now),
                !.expires = Least(Greatest(now + IdleTtl, @), row.absolute)]

\* Mutant: an idle session is refreshed as long as its hard cap allows.
AliveIdle(s, now) == Exists(s) /\ session[s].revoked = None /\ session[s].absolute > now

\* Mutant: a revoked row passes.
AliveRevoked(s, now) == Exists(s) /\ session[s].expires > now /\ session[s].absolute > now

\* The WHERE of the lookup.
Alive(s, now) ==
    /\ Exists(s) /\ session[s].revoked = None
    /\ session[s].expires > now /\ session[s].absolute > now

\* A request with the session's cookie: check, touch and slide in one UPDATE.
Authenticate(s, now) ==
    /\ Alive(s, now) /\ now \in Stamps
    /\ session' = [session EXCEPT ![s] = Slid(@, now)]
    /\ UNCHANGED clock

\* `revoke` (log out).
Revoke(s, now) ==
    /\ Exists(s) /\ session[s].revoked = None /\ now \in Stamps
    /\ session' = [session EXCEPT ![s] = [@ EXCEPT !.revoked = now]]
    /\ UNCHANGED clock

\* `revoke_all_for_user`: the rows that are unexpired on the caller's clock.
Evicted(s, u, now) ==
    Exists(s) /\ session[s].owner = u /\ session[s].revoked = None /\ session[s].expires > now

RevokeAll(u, now) ==
    /\ now \in Stamps
    /\ session' = [s \in Sessions |-> IF Evicted(s, u, now)
                                      THEN [session[s] EXCEPT !.revoked = now] ELSE session[s]]
    /\ UNCHANGED clock

SessionNext ==
    \/ Tick
    \/ \E now \in Time :
        \/ \E s \in Sessions :
            \/ \E u \in Users : Issue(u, s, now)
            \/ Authenticate(s, now)
            \/ Revoke(s, now)
        \/ \E u \in Users : RevokeAll(u, now)

SessionSpec == SessionInit /\ [][SessionNext]_sessionVars

-----------------------------------------------------------------------------
(* Properties.                                                             *)

\* Nobody was ever let in to a session that had run out, and no slide
\* outlives the absolute lifetime the session was issued with, whichever
\* clocks issued it and slid it
\* (session.rs:23-37, session_repo.rs:150-165).
SeenAlive ==
    \A s \in Sessions : Exists(s) =>
        /\ session[s].created <= session[s].seen
        /\ session[s].seen < session[s].expires
        /\ session[s].expires <= session[s].absolute
        /\ session[s].absolute = session[s].created + AbsoluteMax

SessionIInv == SessionTypeOK /\ SeenAlive

\* A logged-out session stays out, whatever request of it is in flight: it
\* is neither slid nor revoked anew (session.rs:7-9, "revocation is
\* immediate").
RevocationFinal ==
    [][\A s \in Sessions : session[s].revoked # None => session'[s] = session[s]]_sessionVars

\* Requests that arrive from a trailing clock, or overtaken by others, never
\* log anybody out early nor turn last_seen_at back (session_repo.rs:158-175).
SlideMonotone ==
    [][\A s \in Sessions : Exists(s) =>
          /\ session[s].seen <= session'[s].seen
          /\ session[s].expires <= session'[s].expires]_sessionVars

\* A session that has run out on every instance's clock never comes back.
ExpiredStaysDead ==
    [][\A s \in Sessions : Exists(s) /\ session[s].expires + Drift <= clock =>
          /\ session'[s].seen = session[s].seen
          /\ session'[s].expires = session[s].expires]_sessionVars
=============================================================================

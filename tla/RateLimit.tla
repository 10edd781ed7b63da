----------------------------- MODULE RateLimit ------------------------------
(***************************************************************************)
(* crates/auth/src/rate_limit.rs over storage's rate_limit_repo.rs, as the *)
(* gateway's rate_limit_middleware.rs calls it: a fixed window per key,    *)
(* counted by one UPSERT, for instances whose clocks differ.  The limiter  *)
(* in memory keeps the same promise behind a mutex.                        *)
(***************************************************************************)
EXTENDS Handlers, Integers

CONSTANTS
    Keys,           \* ip:<address>, session:<user>
    Limit,          \* max_rpm
    WindowLength,   \* WINDOW_SECONDS
    MaxCount        \* bound: a window counts no further

ASSUME RateLimitAssumption ==
    /\ Limit \in Nat /\ WindowLength \in Nat \ {0} /\ MaxCount \in Nat
    /\ None \notin [window : Nat, count : Nat]

VARIABLES
    counter,        \* counter[k], the row of rate_limit_counters, or None
    memory,         \* memory[k], the entry an InMemoryRateLimiter would hold
    admitted        \* admitted[k][w], the requests let through in window w (history)

rateLimitVars == <<counter, memory, admitted>>

\* floor_to_window
Floor(now) == now - (now % WindowLength)
Windows == {Floor(now) : now \in Clock}
Ticks == [window : Windows, count : Nat \ {0}]

RateLimitTypeOK ==
    /\ counter \in [Keys -> Ticks \cup {None}]
    /\ memory \in [Keys -> Ticks \cup {None}]
    /\ admitted \in [Keys -> [Windows -> Nat]]

RateLimitInit ==
    /\ counter = [k \in Keys |-> None]
    /\ memory = [k \in Keys |-> None]
    /\ admitted = [k \in Keys |-> [w \in Windows |-> 0]]

-----------------------------------------------------------------------------
\* Mutant: any other window, also an older one, starts the count again.
PgTickAnyOther(row, w) ==
    IF row = None THEN [window |-> w, count |-> 1]
    ELSE [window |-> w, count |-> IF row.window # w THEN 1 ELSE row.count + 1]

\* INSERT .. ON CONFLICT DO UPDATE SET count = CASE .., window_start = CASE ..
PgTick(row, w) ==
    IF row = None THEN [window |-> w, count |-> 1]
    ELSE [window |-> IF row.window < w THEN w ELSE row.window,
          count  |-> IF row.window < w THEN 1 ELSE row.count + 1]

\* InMemoryRateLimiter::check
MemoryTick(entry, w) ==
    IF entry # None /\ entry.window >= w THEN [entry EXCEPT !.count = @ + 1]
                                         ELSE [window |-> w, count |-> 1]

\* outcome_from_tick
Allowed(tick) == tick.count <= Limit

\* One request of key k at an instance whose clock reads now.  The bound
\* cuts off requests that are refused anyway.
Check(k, now) ==
    LET tick == PgTick(counter[k], Floor(now))
    IN  /\ tick.count <= MaxCount
        /\ counter' = [counter EXCEPT ![k] = tick]
        /\ memory' = [memory EXCEPT ![k] = MemoryTick(memory[k], Floor(now))]
        /\ admitted' = IF Allowed(tick)
                       THEN [admitted EXCEPT ![k][tick.window] = @ + 1]
                       ELSE admitted

\* The statement fails, and both middlewares let the request through; the
\* probes and requests without a session are not counted at all.
Uncounted == UNCHANGED rateLimitVars

RateLimitNext == (\E k \in Keys, now \in Clock : Check(k, now)) \/ Uncounted

RateLimitSpec == RateLimitInit /\ [][RateLimitNext]_rateLimitVars
-----------------------------------------------------------------------------
\* No window lets through more counted requests of a key than the limit,
\* however the clocks of the instances differ: a clock that lags counts in
\* the newest window and never reopens an older one (rate_limit.rs:209-231,
\* rate_limit_repo.rs:82-96).
WindowCapped == \A k \in Keys, w \in Windows : admitted[k][w] <= Limit

\* The limiter in memory, which the tests use, decides as the table does.
LimitersAgree == memory = counter

Smaller(x, y) == IF x <= y THEN x ELSE y

\* What was let through of the newest window is its count as far as the
\* limit, and nothing has been let through of a window still to come.
AdmittedInv ==
    \A k \in Keys, w \in Windows :
        /\ counter[k] = None => admitted[k][w] = 0
        /\ counter[k] # None /\ w = counter[k].window =>
              admitted[k][w] = Smaller(counter[k].count, Limit)
        /\ counter[k] # None /\ w > counter[k].window => admitted[k][w] = 0

RateLimitIInv == RateLimitTypeOK /\ AdmittedInv /\ WindowCapped /\ LimitersAgree
=============================================================================

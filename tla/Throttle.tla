------------------------------ MODULE Throttle ------------------------------
(***************************************************************************)
(* The polite client of the scraping connectors (twse.rs; moea.rs, cwa.rs  *)
(* and fishery_moa.rs carry the same code): robots.txt is fetched when the *)
(* client is built, and every request claims a slot under a lock and then  *)
(* sleeps until it with the lock released.  Time is tokio's Instant, which *)
(* is one for the process and does not go back.                            *)
(***************************************************************************)
EXTENDS Handlers, Sequences

CONSTANTS
    Origins,        \* scheme://host[:port] of the base URLs
    Paths,
    Interval,       \* min_interval
    MaxInstant,     \* bound: the clock stops here
    MaxSlots        \* bound: slots claimed

ASSUME ThrottleAssumption ==
    /\ None \notin Paths /\ None \notin Nat
    /\ Interval \in Nat /\ MaxInstant \in Nat /\ MaxSlots \in Nat

VARIABLES
    instant,        \* Instant::now()
    nextAllowed,    \* next_allowed_at, None until the first tick
    robots,         \* robots[o], the paths o disallows, None until fetched
    client,         \* what has become of Builder::build
    fetching,       \* fetching[p], a request that sleeps until its slot
    slots,          \* the deadlines handed out, in order (history)
    sent            \* the requests that went out (history)

throttleVars == <<instant, nextAllowed, robots, client, fetching, slots, sent>>

\* path None: robots.txt itself.  slot and deadline are the claim.
Fetches == [origin : Origins, path : Paths \cup {None}, slot : Nat, deadline : Nat]
Sends == [origin : Origins, path : Paths \cup {None}, slot : Nat, at : Nat]

ThrottleTypeOK ==
    /\ instant \in Nat
    /\ nextAllowed \in Nat \cup {None}
    /\ robots \in [Origins -> (SUBSET Paths) \cup {None}]
    /\ client \in {"building", "ready", "failed"}
    /\ fetching \in [Procs -> Fetches \cup {None}]
    /\ slots \in Seq(Nat)
    /\ sent \subseteq Sends

ThrottleInit ==
    /\ instant = 0
    /\ nextAllowed = None
    /\ robots = [o \in Origins |-> None]
    /\ client = "building"
    /\ fetching = [p \in Procs |-> None]
    /\ slots = <<>>
    /\ sent = {}

-----------------------------------------------------------------------------
\* deadline = prior.max(now)
Deadline == IF nextAllowed = None \/ nextAllowed < instant THEN instant ELSE nextAllowed

\* Mutant: the next slot is reckoned from now, not from the one just claimed.
SlotAfterNow == instant + Interval

SlotAfter == Deadline + Interval

\* RequestThrottle::tick as far as the sleep.
Claim(p, o, path) ==
    /\ Len(slots) < MaxSlots
    /\ nextAllowed' = SlotAfter
    /\ slots' = Append(slots, Deadline)
    /\ fetching' = [fetching EXCEPT ![p] =
          [origin |-> o, path |-> path, slot |-> Len(slots) + 1, deadline |-> Deadline]]
    /\ UNCHANGED <<instant, robots, client, sent>>

\* build asks each origin it has no rules of, one after the other.
AskRobots(p, o) ==
    /\ client = "building" /\ robots[o] = None
    /\ \A q \in Procs : fetching[q] = None
    /\ Claim(p, o, None)

\* path_allowed_for_origin, which lets pass what it has no rules for; a path
\* is a prefix an origin may disallow.
PathAllowed(o, path) == robots[o] # None => path \notin robots[o]

\* polite_get.  A path that is disallowed or leaves the host (RefusePath)
\* is refused before the tick, and costs no slot.
PoliteGet(p, o, path) ==
    /\ client = "ready" /\ fetching[p] = None
    /\ PathAllowed(o, path)
    /\ Claim(p, o, path)

RefusePath == client = "ready" /\ UNCHANGED throttleVars

Wake(p) ==
    /\ fetching[p] # None /\ instant >= fetching[p].deadline
    /\ sent' = sent \cup {[origin |-> fetching[p].origin, path |-> fetching[p].path,
                           slot |-> fetching[p].slot, at |-> instant]}
    /\ fetching' = [fetching EXCEPT ![p] = None]

\* Whatever a page answers, redirects included, goes to the caller.
SendPage(p) ==
    /\ Wake(p) /\ fetching[p].path # None
    /\ UNCHANGED <<instant, nextAllowed, robots, client, slots>>

\* 404 is an empty list; another status, or none, fails the build.
SendRobots(p, disallowed) ==
    /\ Wake(p) /\ fetching[p].path = None
    /\ \/ /\ robots' = [robots EXCEPT ![fetching[p].origin] = disallowed]
          /\ UNCHANGED client
       \/ /\ client' = "failed"
          /\ UNCHANGED robots
    /\ UNCHANGED <<instant, nextAllowed, slots>>

\* Mutant: the rules of one origin are enough.
BuiltEarly ==
    /\ client = "building" /\ \E o \in Origins : robots[o] # None
    /\ client' = "ready"
    /\ UNCHANGED <<instant, nextAllowed, robots, fetching, slots, sent>>

Built ==
    /\ client = "building" /\ \A o \in Origins : robots[o] # None
    /\ client' = "ready"
    /\ UNCHANGED <<instant, nextAllowed, robots, fetching, slots, sent>>

\* The caller's future is dropped while it sleeps; the slot stays claimed.
\* Dropping build drops the client with it.
DropFetch(p) ==
    /\ fetching[p] # None
    /\ fetching' = [fetching EXCEPT ![p] = None]
    /\ client' = IF client = "building" THEN "failed" ELSE client
    /\ UNCHANGED <<instant, nextAllowed, robots, slots, sent>>

Pass ==
    /\ instant < MaxInstant
    /\ instant' = instant + 1
    /\ UNCHANGED <<nextAllowed, robots, client, fetching, slots, sent>>

ThrottleNext ==
    \/ \E p \in Procs :
          \/ \E o \in Origins : AskRobots(p, o) \/ \E path \in Paths : PoliteGet(p, o, path)
          \/ SendPage(p) \/ DropFetch(p)
          \/ \E disallowed \in SUBSET Paths : SendRobots(p, disallowed)
    \/ RefusePath \/ Built \/ Pass

ThrottleSpec == ThrottleInit /\ [][ThrottleNext]_throttleVars
-----------------------------------------------------------------------------
\* However many requests claim at once, sleep, are dropped and wake late,
\* no two have slots closer than the interval, no slot is used twice, and
\* nothing goes out before its own (twse.rs:441-508).
Spaced ==
    /\ \A n \in 1 .. Len(slots), m \in 1 .. Len(slots) : m < n => slots[m] + Interval <= slots[n]
    /\ \A s \in sent : s.slot \in 1 .. Len(slots) /\ slots[s.slot] <= s.at
    /\ \A s, t \in sent : s.slot = t.slot => s = t

\* No page is fetched that the robots.txt of its own origin disallows, and
\* none before that was read (twse.rs:141-193, 636-655).
RobotsObeyed ==
    \A s \in sent : s.path # None => robots[s.origin] # None /\ s.path \notin robots[s.origin]

\* A claim in flight is of a slot that has been handed out, to it alone.
ClaimInv ==
    /\ nextAllowed = IF slots = <<>> THEN None ELSE slots[Len(slots)] + Interval
    /\ \A p \in Procs : fetching[p] # None =>
          /\ fetching[p].slot \in 1 .. Len(slots)
          /\ slots[fetching[p].slot] = fetching[p].deadline
          /\ \A s \in sent : s.slot # fetching[p].slot
          /\ \A q \in Procs \ {p} : fetching[q] # None => fetching[q].slot # fetching[p].slot

RobotsInv ==
    /\ client = "ready" => \A o \in Origins : robots[o] # None
    /\ \A p \in Procs : fetching[p] # None =>
          /\ client = "ready" \/ fetching[p].path = None
          /\ fetching[p].path # None =>
                robots[fetching[p].origin] # None /\ fetching[p].path \notin robots[fetching[p].origin]
          /\ fetching[p].path = None => client = "building" /\ robots[fetching[p].origin] = None
    /\ client = "building" =>
          \A p, q \in Procs : fetching[p] # None /\ fetching[q] # None => p = q

ThrottleIInv == ThrottleTypeOK /\ ClaimInv /\ RobotsInv /\ Spaced /\ RobotsObeyed
=============================================================================

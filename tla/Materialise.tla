---------------------------- MODULE Materialise -----------------------------
(***************************************************************************)
(* crates/tools-data/src/materialize_dataset.rs: calls for one dataset and *)
(* format sign and audit one at a time.  The map that finds the mutex of a *)
(* pair holds weak references and is pruned on every call, so that it does *)
(* not grow; a mutex lives as long as a call waits for it or holds it.     *)
(***************************************************************************)
EXTENDS Handlers, FiniteSets

CONSTANTS
    Pairs,      \* (dataset_id, format)
    Slots       \* mutexes: one that no call refers to is freed and used again

ASSUME SlotAssumption == None \notin Slots /\ None \notin Pairs

VARIABLES
    inflight,   \* inflight[k], the slot the map refers to weakly, or None
    guarding,   \* guarding[s], the call that holds the mutex of slot s
    presigning  \* presigning[p], what p is at

materialiseVars == <<inflight, guarding, presigning>>

Presign == [pc : {"idle", "slot", "lock", "sign", "record"},
            pair : Pairs \cup {None}, slot : Slots \cup {None}]
NoPresign == [pc |-> "idle", pair |-> None, slot |-> None]

MaterialiseTypeOK ==
    /\ inflight \in [Pairs -> Slots \cup {None}]
    /\ guarding \in [Slots -> Procs \cup {None}]
    /\ presigning \in [Procs -> Presign]

MaterialiseInit ==
    /\ inflight = [k \in Pairs |-> None]
    /\ guarding = [s \in Slots |-> None]
    /\ presigning = [p \in Procs |-> NoPresign]

-----------------------------------------------------------------------------
\* The Arcs of a slot.
Holders(s) == {p \in Procs : presigning[p].slot = s}

\* Mutant: the map forgets a slot that only its holder refers to.
Contended(s) == Cardinality(Holders(s)) > 1

\* map.retain(|_, weak| weak.strong_count() > 0)
Live(s) == Holders(s) # {}

\* Request::parse, latest_materialise_view and pick_file: the pair is that
\* of the file the view has now.  A bad request, an unknown dataset and one
\* without such a file are refused, and leave nothing behind.
Ask(p, k) ==
    /\ presigning[p].pc = "idle"
    /\ presigning' = [presigning EXCEPT ![p] = [pc |-> "slot", pair |-> k, slot |-> None]]
    /\ UNCHANGED <<inflight, guarding>>

\* lock_slot under the lock of the map: prune, then upgrade or insert.
TakeSlot(p, s) ==
    LET k == presigning[p].pair
        kept == [j \in Pairs |-> IF inflight[j] # None /\ Live(inflight[j]) THEN inflight[j] ELSE None]
    IN  /\ presigning[p].pc = "slot"
        /\ \/ kept[k] = s /\ inflight' = kept
           \/ /\ kept[k] = None /\ Holders(s) = {}
              /\ inflight' = [kept EXCEPT ![k] = s]
        /\ presigning' = [presigning EXCEPT ![p] = [@ EXCEPT !.pc = "lock", !.slot = s]]
        /\ UNCHANGED guarding

Lock(p) ==
    LET s == presigning[p].slot
    IN  /\ presigning[p].pc = "lock"
        /\ guarding[s] = None
        /\ guarding' = [guarding EXCEPT ![s] = p]
        /\ presigning' = [presigning EXCEPT ![p] = [@ EXCEPT !.pc = "sign"]]
        /\ UNCHANGED inflight

\* The guard is dropped with the call, and so is its Arc.
Release(p) ==
    /\ guarding' = [s \in Slots |-> IF guarding[s] = p THEN None ELSE guarding[s]]
    /\ presigning' = [presigning EXCEPT ![p] = NoPresign]

PresignGet(p) ==
    /\ presigning[p].pc = "sign"
    /\ presigning' = [presigning EXCEPT ![p] = [@ EXCEPT !.pc = "record"]]
    /\ UNCHANGED <<inflight, guarding>>

\* record_usage; if it fails the URL is out, and the failure only logged.
Record(p) ==
    /\ presigning[p].pc = "record"
    /\ Release(p)
    /\ UNCHANGED inflight

\* No backend for the URI, a failed presign, or a dropped call.
GiveUp(p) ==
    /\ presigning[p].pc # "idle"
    /\ Release(p)
    /\ UNCHANGED inflight

MaterialiseNext ==
    \E p \in Procs :
        \/ \E k \in Pairs : Ask(p, k)
        \/ \E s \in Slots : TakeSlot(p, s)
        \/ Lock(p) \/ PresignGet(p) \/ Record(p) \/ GiveUp(p)

MaterialiseSpec == MaterialiseInit /\ [][MaterialiseNext]_materialiseVars
-----------------------------------------------------------------------------
\* At most one call per dataset and format is between its lock and its audit
\* row, however the map is pruned while calls come, wait and hang up: the
\* mutex they meet at is never forgotten while one of them refers to it
\* (materialize_dataset.rs:24-41, 233-250).
Signing == {"sign", "record"}
OneSigner ==
    \A p, q \in Procs :
        presigning[p].pc \in Signing /\ presigning[q].pc \in Signing
            /\ presigning[p].pair = presigning[q].pair => p = q

\* Every call past the map refers to the slot the map has for its pair, and
\* a slot in the map is referred to by calls for that pair alone.
SlotInv ==
    /\ \A p \in Procs :
          /\ presigning[p].pc # "idle" => presigning[p].pair # None
          /\ presigning[p].pc \in {"idle", "slot"} => presigning[p].slot = None
          /\ presigning[p].pc \in {"lock"} \cup Signing =>
                presigning[p].slot # None /\ inflight[presigning[p].pair] = presigning[p].slot
          /\ presigning[p].pc \in Signing => guarding[presigning[p].slot] = p
    /\ \A p \in Procs, k \in Pairs :
          inflight[k] # None /\ presigning[p].slot = inflight[k] => presigning[p].pair = k

MaterialiseIInv == MaterialiseTypeOK /\ SlotInv
=============================================================================

---------------------------- MODULE Collections -----------------------------
(***************************************************************************)
(* The collections of crates/storage/src/bookmark_repo.rs behind the       *)
(* handlers of crates/gateway/src/bookmarks_routes.rs: create, rename,     *)
(* delete, add, remove and list, each statement atomic.  Adding an item    *)
(* and listing the items take a second statement to tell why the first one *)
(* came back empty, and anything may happen in between.                    *)
(***************************************************************************)
EXTENDS Handlers

CONSTANTS
    Folders,    \* values of collections.id, never used twice
    Names,      \* names as `validate_inputs` leaves them
    Items       \* what can be saved: a target_kind and a target_id

VARIABLES
    folder,     \* folder[f], a row of `collections`; owner None is "no such row"
    spent,      \* ids that have been used
    lookup      \* lookup[p], the call whose first statement came back empty

collectionVars == <<folder, spent, lookup>>

Folder == [owner : Users, name : Names, items : SUBSET Items]
NoFolder == [owner |-> None, name |-> None, items |-> {}]

\* Ghosts: `held` is the caller's view of the collection at the first
\* statement, NoFolder if it was nobody's or another's.
Lookup == [pc : {"reread", "recount", "saved", "unknown", "empty"},
           user : Users, folder : Folders, item : Items, held : Folder \cup {NoFolder}]
NoLookup == [pc |-> "idle", user |-> None, folder |-> None, item |-> None, held |-> NoFolder]

CollectionTypeOK ==
    /\ folder \in [Folders -> Folder \cup {NoFolder}]
    /\ spent \subseteq Folders
    /\ lookup \in [Procs -> Lookup \cup {NoLookup}]

CollectionInit ==
    /\ folder = [f \in Folders |-> NoFolder]
    /\ spent = {}
    /\ lookup = [p \in Procs |-> NoLookup]

Owns(u, f) == folder[f].owner = u

\* collections_unique_name_per_user
NameTaken(u, n, f) == \E g \in Folders \ {f} : Owns(u, g) /\ folder[g].name = n

-----------------------------------------------------------------------------
\* `insert`; a taken name is refused, and the drawn id with it.
CreateFolder(u, f, n) ==
    /\ f \notin spent /\ ~NameTaken(u, n, f)
    /\ folder' = [folder EXCEPT ![f] = [owner |-> u, name |-> n, items |-> {}]]
    /\ spent' = spent \cup {f}
    /\ UNCHANGED lookup

\* `update`, scoped to the owner.
RenameFolder(u, f, n) ==
    /\ Owns(u, f) /\ ~NameTaken(u, n, f)
    /\ folder' = [folder EXCEPT ![f].name = n]
    /\ UNCHANGED <<spent, lookup>>

\* `delete` takes the items with it.
DeleteFolder(u, f) ==
    /\ Owns(u, f)
    /\ folder' = [folder EXCEPT ![f] = NoFolder]
    /\ UNCHANGED <<spent, lookup>>

RemoveItem(u, f, i) ==
    /\ Owns(u, f) /\ i \in folder[f].items
    /\ folder' = [folder EXCEPT ![f].items = @ \ {i}]
    /\ UNCHANGED <<spent, lookup>>

-----------------------------------------------------------------------------
View(u, f) == IF Owns(u, f) THEN folder[f] ELSE NoFolder

FirstCameBackEmpty(p, u, f, i, pc) ==
    /\ lookup[p].pc = "idle" /\ f \in spent
    /\ lookup' = [lookup EXCEPT ![p] =
          [pc |-> pc, user |-> u, folder |-> f, item |-> i, held |-> View(u, f)]]

\* INSERT .. SELECT .. WHERE EXISTS (the caller's collection) ON CONFLICT DO
\* NOTHING.  A row that lands answers 201.
AddItem(u, f, i) ==
    /\ Owns(u, f) /\ i \notin folder[f].items
    /\ folder' = [folder EXCEPT ![f].items = @ \cup {i}]
    /\ UNCHANGED <<spent, lookup>>

\* No row lands: already there, or not the caller's.  An id that was never
\* anybody's is answered like one that is gone.
AddNothing(p, u, f, i) ==
    /\ ~Owns(u, f) \/ i \in folder[f].items
    /\ FirstCameBackEmpty(p, u, f, i, "reread")
    /\ UNCHANGED <<folder, spent>>

\* The JOIN of `list_items` finds no row; one that does answers at once.
ListNothing(p, u, f, i) ==
    /\ ~Owns(u, f) \/ folder[f].items = {}
    /\ FirstCameBackEmpty(p, u, f, i, "recount")
    /\ UNCHANGED <<folder, spent>>

\* Mutant: the second statement does not ask whose collection it is.
RereadAnyones(p) ==
    LET c == lookup[p]
    IN  /\ c.pc \in {"reread", "recount"}
        /\ lookup' = [lookup EXCEPT ![p] = [@ EXCEPT !.pc =
              IF folder[c.folder] = NoFolder THEN "unknown"
              ELSE IF c.pc = "reread" THEN "saved" ELSE "empty"]]
        /\ UNCHANGED <<folder, spent>>

\* `get_for_user`, or COUNT(*), on the caller's collection: 204 or an empty
\* list if it is still there, else 404.
Reread(p) ==
    LET c == lookup[p]
    IN  /\ c.pc \in {"reread", "recount"}
        /\ lookup' = [lookup EXCEPT ![p] = [@ EXCEPT !.pc =
              IF ~Owns(c.user, c.folder) THEN "unknown"
              ELSE IF c.pc = "reread" THEN "saved" ELSE "empty"]]
        /\ UNCHANGED <<folder, spent>>

\* The answer is on its way, or the request is gone.
LeaveLookup(p) ==
    /\ lookup[p].pc # "idle"
    /\ lookup' = [lookup EXCEPT ![p] = NoLookup]
    /\ UNCHANGED <<folder, spent>>

CollectionNext ==
    \/ \E u \in Users, f \in Folders :
        \/ DeleteFolder(u, f)
        \/ \E n \in Names : CreateFolder(u, f, n) \/ RenameFolder(u, f, n)
        \/ \E i \in Items : RemoveItem(u, f, i) \/ AddItem(u, f, i)
        \/ \E p \in Procs, i \in Items : AddNothing(p, u, f, i) \/ ListNothing(p, u, f, i)
    \/ \E p \in Procs : Reread(p) \/ LeaveLookup(p)

CollectionSpec == CollectionInit /\ [][CollectionNext]_collectionVars

-----------------------------------------------------------------------------
(* Properties.                                                             *)

\* The two statements give one answer, whatever is created, deleted, added or
\* removed in between: what is reported as saved already was, when the call
\* came, in that collection and the collection the caller's; what is listed as
\* empty was the caller's and empty; and 404 is only ever said of what is not
\* the caller's (bookmarks_routes.rs:358-377, bookmark_repo.rs:494-509).
OneAnswer ==
    \A p \in Procs :
        LET c == lookup[p]
        IN  /\ c.pc = "saved" => c.held.owner = c.user /\ c.item \in c.held.items
            /\ c.pc = "empty" => c.held.owner = c.user /\ c.held.items = {}
            /\ c.pc = "unknown" => ~Owns(c.user, c.folder)

-----------------------------------------------------------------------------
(* The inductive invariant: what is the caller's at the second statement   *)
(* was the caller's at the first, for a spent id finds no new owner.       *)

UnspentInv == \A f \in Folders \ spent : folder[f] = NoFolder

LookupInv ==
    \A p \in Procs : lookup[p].pc # "idle" =>
        LET c == lookup[p]
        IN  /\ c.folder \in spent
            /\ Owns(c.user, c.folder) => c.held.owner = c.user
            /\ c.held.owner = c.user =>
                  IF c.pc \in {"reread", "saved"} THEN c.item \in c.held.items
                  ELSE c.pc # "unknown" => c.held.items = {}

CollectionIInv == CollectionTypeOK /\ UnspentInv /\ LookupInv /\ OneAnswer
=============================================================================

----------------------------- MODULE SearchIndex -----------------------------
(***************************************************************************)
(* One catalog's row in catalog_search, which only triggers write, while   *)
(* transactions change the catalog: editors (AdminCatalogWriter), imports  *)
(* (import_catalog_document) and hand-written SQL adding a subdivision.    *)
(*                                                                         *)
(* READ COMMITTED: a statement sees what is committed when it starts, and  *)
(* its own transaction's changes.  title, status, subs and entry are what  *)
(* is committed; draft[t] is what transaction t has changed.  Two          *)
(* statements matter below their own grain: a DELETE sees its rows first   *)
(* and then waits for those another transaction is deleting, and a trigger *)
(* waits for the catalog's row lock before its function reads anything.    *)
(***************************************************************************)
EXTENDS Naturals, FiniteSets, Lifecycle

CONSTANTS
    Editors, Imports, Hands,   \* transactions, one each
    Subdivisions,
    titleOf,                   \* titleOf[i]: the title of an import's document
    subsOf,                    \* subsOf[t]: the subdivisions an import's document, or hand, has
    FirstTitle,                \* the title at the start
    Nobody, NoEntry,
    Keep                       \* a transaction has left the catalog, or its entry, as it is

Transactions == Editors \cup Imports \cup Hands

ASSUME TransactionsAssumption ==
    /\ Editors \cap Imports = {} /\ Editors \cap Hands = {} /\ Imports \cap Hands = {}
    /\ Nobody \notin Transactions
    /\ subsOf \in [Imports \cup Hands -> SUBSET Subdivisions]
    /\ DOMAIN titleOf = Imports

Titles   == {FirstTitle} \cup {titleOf[i] : i \in Imports}
Versions == [title : Titles, status : Statuses]
Entries  == [title : Titles, subs : SUBSET Subdivisions] \cup {NoEntry}

ASSUME KeepAssumption == Keep \notin Versions \cup Entries

VARIABLES
    catalog,  \* [title, status], committed
    subs,     \* its catalog_subdivisions rows, committed
    entry,    \* its catalog_search row, committed
    lock,     \* the transaction holding the catalog's row
    pc,       \* pc[t]: the next statement of t
    loaded,   \* loaded[i]: the catalog as the import's SELECT returned it
    seen,     \* seen[i]: the rows the import's DELETE is to delete
    draft     \* draft[t]: [catalog, added, removed, entry] as t has changed them

vars == <<catalog, subs, entry, lock, pc, loaded, seen, draft>>

\* What catalog_search should hold.
Document(version, subdivisions) ==
    IF version.status = "published"
      THEN [title |-> version.title, subs |-> subdivisions] ELSE NoEntry

\* A transaction that has changed nothing.
Clean  == [catalog |-> Keep, added |-> {}, removed |-> {}, entry |-> Keep]
Drafts == [catalog : Versions \cup {Keep}, added : SUBSET Subdivisions,
           removed : SUBSET Subdivisions, entry : Entries \cup {Keep}]

Init ==
    /\ catalog \in [title : {FirstTitle}, status : {"draft", "published"}]
    /\ subs \in SUBSET Subdivisions
    /\ entry  = Document(catalog, subs)
    /\ lock   = Nobody
    /\ pc     = [t \in Transactions |->
                    IF t \in Editors THEN "lock" ELSE IF t \in Imports THEN "load" ELSE "insert"]
    /\ loaded = [i \in Imports |-> catalog]
    /\ seen   = [i \in Imports |-> {}]
    /\ draft  = [t \in Transactions |-> Clean]

-----------------------------------------------------------------------------
(* What a statement of t sees. *)
SeenCatalog(t) == IF draft[t].catalog = Keep THEN catalog ELSE draft[t].catalog
SeenSubs(t)    == (subs \ draft[t].removed) \cup draft[t].added

Free(t) == lock \in {Nobody, t}

\* refresh_catalog_search, once it has the row: a fresh look at everything, its own change included.
Reindexed(change) ==
    [catalog |-> change.catalog, added |-> change.added, removed |-> change.removed,
     entry   |-> Document(IF change.catalog = Keep THEN catalog ELSE change.catalog,
                          (subs \ change.removed) \cup change.added)]

Goto(t, where) == pc' = [pc EXCEPT ![t] = where]

\* Mutant: the function does not lock the row.
RefreshWithoutLock(t) ==
    /\ pc[t] \in {"refresh deleted", "refresh inserted"}
    /\ draft' = [draft EXCEPT ![t] = Reindexed(@)]
    /\ Goto(t, IF pc[t] = "refresh deleted" THEN "update" ELSE "commit")
    /\ UNCHANGED <<catalog, subs, entry, lock, loaded, seen>>

\* A subdivision trigger: SELECT ... FOR NO KEY UPDATE, then the rebuild.
Refresh(t) ==
    /\ pc[t] \in {"refresh deleted", "refresh inserted"}
    /\ Free(t)
    /\ lock'  = t
    /\ draft' = [draft EXCEPT ![t] = Reindexed(@)]
    /\ Goto(t, IF pc[t] = "refresh deleted" THEN "update" ELSE "commit")
    /\ UNCHANGED <<catalog, subs, entry, loaded, seen>>

-----------------------------------------------------------------------------
(* An editor's transition: FOR UPDATE also waits for the key share of a subdivision being added. *)
KeyShared(t) == t \in Hands /\ pc[t] \in {"refresh inserted", "commit"}

LockForUpdate(t) ==
    /\ t \in Editors /\ pc[t] = "lock"
    /\ Free(t)
    /\ ~ \E h \in Hands : KeyShared(h)
    /\ lock' = t
    /\ Goto(t, "set status")
    /\ UNCHANGED <<catalog, subs, entry, loaded, seen, draft>>

\* _SET_STATUS and the trigger on catalogs.
SetStatus(t) ==
    /\ t \in Editors /\ pc[t] = "set status"
    /\ \E action \in TRANSITION_ACTIONS : \E status \in Targets(catalog.status, action) :
          draft' = [draft EXCEPT ![t] =
                       Reindexed([Clean EXCEPT !.catalog =
                                     [title |-> catalog.title, status |-> status]])]
    /\ Goto(t, "commit")
    /\ UNCHANGED <<catalog, subs, entry, lock, loaded, seen>>

-----------------------------------------------------------------------------
(* An import of the catalog. *)
Load(t) ==
    /\ t \in Imports /\ pc[t] = "load"
    /\ loaded' = [loaded EXCEPT ![t] = catalog]
    /\ Goto(t, "delete")
    /\ UNCHANGED <<catalog, subs, entry, lock, seen, draft>>

SeeSubdivisions(t) ==
    /\ t \in Imports /\ pc[t] = "delete"
    /\ seen' = [seen EXCEPT ![t] = subs]
    /\ Goto(t, "deleting")
    /\ UNCHANGED <<catalog, subs, entry, lock, loaded, draft>>

\* Rows another transaction has deleted meanwhile are skipped; new ones are not looked for.
DeleteSubdivisions(t) ==
    /\ t \in Imports /\ pc[t] = "deleting"
    /\ \A other \in Transactions \ {t} : draft[other].removed \cap seen[t] = {}
    /\ draft' = [draft EXCEPT ![t].removed = seen[t] \cap subs]
    /\ Goto(t, IF seen[t] \cap subs = {} THEN "update" ELSE "refresh deleted")
    /\ UNCHANGED <<catalog, subs, entry, lock, loaded, seen>>

\* The UPDATE of the columns that differ from what was loaded.  It always happens (created_at),
\* so it always locks; the trigger fires when title or status is among them.
UpdateCatalog(t) ==
    LET seenNow == SeenCatalog(t)
        updated == [title  |-> IF titleOf[t] # loaded[t].title THEN titleOf[t] ELSE seenNow.title,
                    status |-> IF loaded[t].status = "draft" THEN "published"
                                                             ELSE seenNow.status]
        fires   == titleOf[t] # loaded[t].title \/ loaded[t].status = "draft"
        change  == [draft[t] EXCEPT !.catalog = updated]
    IN  /\ t \in Imports /\ pc[t] = "update"
        /\ Free(t)
        /\ lock'  = t
        /\ draft' = [draft EXCEPT ![t] = IF fires THEN Reindexed(change) ELSE change]
        /\ Goto(t, IF subsOf[t] = {} THEN "commit" ELSE "insert")
        /\ UNCHANGED <<catalog, subs, entry, loaded, seen>>

-----------------------------------------------------------------------------
(* INSERT INTO catalog_subdivisions, by an import or by hand. *)

\* Waits for a transaction inserting or deleting the same key, and for an editor's FOR UPDATE.
InsertMayProceed(t) ==
    /\ t \in Imports \cup Hands /\ pc[t] = "insert"
    /\ lock \notin Editors
    /\ \A other \in Transactions \ {t} :
          (draft[other].added \cup draft[other].removed) \cap subsOf[t] = {}

InsertSubdivisions(t) ==
    /\ InsertMayProceed(t)
    /\ subsOf[t] \cap SeenSubs(t) = {}
    /\ draft' = [draft EXCEPT ![t].added = subsOf[t]]
    /\ Goto(t, "refresh inserted")
    /\ UNCHANGED <<catalog, subs, entry, lock, loaded, seen>>

-----------------------------------------------------------------------------
Release(t) == lock' = IF lock = t THEN Nobody ELSE lock

\* pk_catalog_subdivisions refuses the row.
FailToInsert(t) ==
    /\ InsertMayProceed(t)
    /\ subsOf[t] \cap SeenSubs(t) # {}
    /\ draft' = [draft EXCEPT ![t] = Clean]
    /\ Goto(t, "failed")
    /\ Release(t)
    /\ UNCHANGED <<catalog, subs, entry, loaded, seen>>

Commit(t) ==
    /\ pc[t] = "commit"
    /\ catalog' = SeenCatalog(t)
    /\ subs'    = SeenSubs(t)
    /\ entry'   = IF draft[t].entry = Keep THEN entry ELSE draft[t].entry
    /\ draft'   = [draft EXCEPT ![t] = Clean]
    /\ Goto(t, "done")
    /\ Release(t)
    /\ UNCHANGED <<loaded, seen>>

\* A lost connection, or a deadlock PostgreSQL breaks.
Abort(t) ==
    /\ pc[t] \notin {"done", "failed"}
    /\ draft' = [draft EXCEPT ![t] = Clean]
    /\ Goto(t, "failed")
    /\ Release(t)
    /\ UNCHANGED <<catalog, subs, entry, loaded, seen>>

Next ==
    \E t \in Transactions :
        \/ Refresh(t)
        \/ LockForUpdate(t) \/ SetStatus(t)
        \/ Load(t) \/ SeeSubdivisions(t) \/ DeleteSubdivisions(t) \/ UpdateCatalog(t)
        \/ InsertSubdivisions(t) \/ FailToInsert(t)
        \/ Commit(t) \/ Abort(t)

Spec == Init /\ [][Next]_vars

-----------------------------------------------------------------------------
\* Type invariant.
TypeOK ==
    /\ catalog \in Versions
    /\ subs \subseteq Subdivisions
    /\ entry \in Entries
    /\ lock \in Transactions \cup {Nobody}
    /\ pc \in [Transactions -> {"lock", "set status", "load", "delete", "deleting",
                                "refresh deleted", "update", "insert", "refresh inserted",
                                "commit", "done", "failed"}]
    /\ loaded \in [Imports -> Versions]
    /\ seen \in [Imports -> SUBSET Subdivisions]
    /\ draft \in [Transactions -> Drafts]

\* "Same transaction as the change, so search is never stale": whatever transactions ran at once,
\* the committed search row is the one the committed catalog and subdivisions call for, and there
\* is none unless the catalog is published (847ef861dbdb, refresh_catalog_search).
SearchIsFresh == entry = Document(catalog, subs)

\* "The source document is the whole truth for this catalog" (import_catalog_document): the
\* subdivisions after an import are its document's.  The code deletes what its DELETE sees, and
\* locks the catalog later.
ImportIsWholeTruth == [][\A t \in Imports : Commit(t) => subs' = subsOf[t]]_vars
=============================================================================

---------------------------- MODULE CatalogWrites ----------------------------
(***************************************************************************)
(* Everything that writes a catalog's row: the editors of AdminWrites and  *)
(* the imports `seed` and `add` (cli/seed.py), each one transaction over a *)
(* whole feed, on the same rows.                                           *)
(*                                                                         *)
(* An import reads a catalog with a plain SELECT, assigns to the ORM       *)
(* object, and the session flushes an UPDATE of the columns that differ    *)
(* from what was read: before the next document's lookup (autoflush), or   *)
(* at commit.  The UPDATE waits for the row's lock and keeps it to the end *)
(* of the transaction, and applies to the row as it is by then.            *)
(***************************************************************************)
EXTENDS AdminWrites, Sequences, SequencesExt

CONSTANTS
    Imports,        \* runs of `seed` or `add`, one each
    feedOf,         \* feedOf[i]: the catalogs of its document, in order
    recommendedOf   \* recommendedOf[i]: FALSE for --no-recommended

ASSUME ImportsAssumption ==
    /\ Imports \cap (Sessions \cup {Nobody}) = {}
    /\ \A i \in Imports : /\ feedOf[i] \in Seq(Catalogs) /\ feedOf[i] # << >>
                          /\ IsInjective(feedOf[i])
                          /\ recommendedOf[i] \in BOOLEAN

VARIABLES
    ipc,       \* ipc[i]: "ready", "lookup", "flush", "commit", "done" or "failed"
    position,  \* position[i]: the document being imported
    started,   \* started[i]: now() in the import's transaction
    loaded,    \* loaded[i][c]: the row as the lookup of its document returned it
    pending    \* pending[i][c]: the row the transaction has written and not committed

importVars == <<ipc, position, started, loaded, pending>>
writesVars == <<vars, importVars>>

Unread == [c \in Catalogs |-> NoRow]

WritesInit ==
    /\ Init
    /\ ipc      = [i \in Imports |-> "ready"]
    /\ position = [i \in Imports |-> 1]
    /\ started  = [i \in Imports |-> 0]
    /\ loaded   = [i \in Imports |-> Unread]
    /\ pending  = [i \in Imports |-> Unread]

-----------------------------------------------------------------------------
Document(i) == feedOf[i][position[i]]

\* The session's first statement opens the transaction, and fixes its now().
BeginImport(i) ==
    /\ ipc[i] = "ready"
    /\ ipc'     = [ipc EXCEPT ![i] = "lookup"]
    /\ started' = [started EXCEPT ![i] = clock]
    /\ UNCHANGED <<vars, position, loaded, pending>>

\* resolve_existing_catalog: what is committed, and nothing is locked.
LookUp(i) ==
    /\ ipc[i] = "lookup"
    /\ loaded' = [loaded EXCEPT ![i][Document(i)] = row[Document(i)]]
    /\ ipc'    = [ipc EXCEPT ![i] = "flush"]
    /\ UNCHANGED <<vars, position, started, pending>>

\* build_catalog, for a catalog the lookup did not find.
BuiltRow(recommended, now) ==
    [status |-> "published", version |-> 1, recommended |-> recommended, published_at |-> now]

\* Mutant: every mapped column is in the UPDATE, with the value that was read.
UpdatedWholeRow(current, seen, recommended, now) ==
    [status       |-> IF seen.status = "draft" THEN "published" ELSE seen.status,
     version      |-> seen.version,
     recommended  |-> recommended,
     published_at |-> IF seen.published_at = Never THEN now ELSE seen.published_at]

\* Mutant: a draft is published without a date.
UpdatedWithoutDate(current, seen, recommended, now) ==
    [status       |-> IF seen.status = "draft" THEN "published" ELSE current.status,
     version      |-> current.version,
     recommended  |-> IF seen.recommended = recommended THEN current.recommended
                                                        ELSE recommended,
     published_at |-> current.published_at]

\* Mutant: a draft is given the status name of the schema before a3f19c7d8e42.
UpdatedToActive(current, seen, recommended, now) ==
    [status       |-> IF seen.status = "draft" THEN "active" ELSE current.status,
     version      |-> current.version,
     recommended  |-> IF seen.recommended = recommended THEN current.recommended
                                                        ELSE recommended,
     published_at |-> IF seen.published_at = Never THEN now ELSE current.published_at]

\* The UPDATE of an existing catalog: current is the row it applies to, seen what was read.
\* The version is not among the columns the import writes.
UpdatedRow(current, seen, recommended, now) ==
    [status       |-> IF seen.status = "draft" THEN "published" ELSE current.status,
     version      |-> current.version,
     recommended  |-> IF seen.recommended = recommended THEN current.recommended
                                                        ELSE recommended,
     published_at |-> IF seen.published_at = Never THEN now ELSE current.published_at]

\* The end of the transaction, whichever way: its row locks are gone.
Released(i) == [c \in Catalogs |-> IF lock[c] = i THEN Nobody ELSE lock[c]]

\* Mutant: a failed import leaves its connection open in the transaction.
EndImportKeepingLocks(i, outcome) ==
    /\ ipc'     = [ipc EXCEPT ![i] = outcome]
    /\ started' = [started EXCEPT ![i] = 0]
    /\ loaded'  = [loaded EXCEPT ![i] = Unread]
    /\ pending' = [pending EXCEPT ![i] = Unread]
    /\ lock'    = IF outcome = "failed" THEN lock ELSE Released(i)
    /\ UNCHANGED <<position, peopleVars, sessionVars>>

EndImport(i, outcome) ==
    /\ ipc'     = [ipc EXCEPT ![i] = outcome]
    /\ started' = [started EXCEPT ![i] = 0]
    /\ loaded'  = [loaded EXCEPT ![i] = Unread]
    /\ pending' = [pending EXCEPT ![i] = Unread]
    /\ lock'    = Released(i)
    /\ UNCHANGED <<position, peopleVars, sessionVars>>

\* Waits for the row (an INSERT: for the other insert of the same key), writes, goes on.
Flush(i) ==
    LET c     == Document(i)
        seen  == loaded[i][c]
        write == IF seen = NoRow
                   THEN BuiltRow(recommendedOf[i], started[i])
                   ELSE UpdatedRow(row[c], seen, recommendedOf[i], started[i])
    IN  /\ ipc[i] = "flush"
        /\ lock[c] = Nobody
        /\ seen = NoRow => row[c] = NoRow
        /\ lock'    = [lock EXCEPT ![c] = i]
        /\ pending' = [pending EXCEPT ![i][c] = write]
        /\ IF position[i] < Len(feedOf[i])
             THEN /\ ipc'      = [ipc EXCEPT ![i] = "lookup"]
                  /\ position' = [position EXCEPT ![i] = @ + 1]
             ELSE /\ ipc'      = [ipc EXCEPT ![i] = "commit"]
                  /\ UNCHANGED position
        /\ UNCHANGED <<row, clock, downAt, peopleVars, sessionVars, started, loaded>>

\* The other import has inserted the catalog since the lookup: IntegrityError, whoever holds the
\* row by now, and the whole feed is rolled back.
FailToInsert(i) ==
    /\ ipc[i] = "flush"
    /\ loaded[i][Document(i)] = NoRow
    /\ row[Document(i)] # NoRow
    /\ EndImport(i, "failed")
    /\ UNCHANGED <<row, clock, downAt>>

CommitImport(i) ==
    /\ ipc[i] = "commit"
    /\ row'   = [c \in Catalogs |-> IF pending[i][c] # NoRow THEN pending[i][c] ELSE row[c]]
    /\ clock' = clock + 1
    /\ EndImport(i, "done")
    /\ UNCHANGED downAt

\* The process is killed, or loses the database.
CrashImport(i) ==
    /\ ipc[i] \in {"lookup", "flush", "commit"}
    /\ EndImport(i, "failed")
    /\ UNCHANGED <<row, clock, downAt>>

\* Imports that wait for each other in a circle; an editor holds one row and waits for none.
WaitsFor(j, k) == ipc[j] = "flush" /\ lock[Document(j)] = k
Circles ==
    {circle \in SUBSET Imports : \A j \in circle : /\ \E k \in circle : WaitsFor(j, k)
                                                   /\ \E k \in circle : WaitsFor(k, j)}

\* PostgreSQL aborts one of them after deadlock_timeout.
BreakDeadlock(i) ==
    /\ \E circle \in Circles : i \in circle
    /\ EndImport(i, "failed")
    /\ UNCHANGED <<row, clock, downAt>>

-----------------------------------------------------------------------------
\* The steps an import that has begun takes by itself.
RunImport(i) == LookUp(i) \/ Flush(i) \/ FailToInsert(i) \/ CommitImport(i) \/ BreakDeadlock(i)

WritesNext ==
    \/ Next /\ UNCHANGED importVars
    \/ \E i \in Imports : BeginImport(i) \/ RunImport(i) \/ CrashImport(i)

WritesSpec == WritesInit /\ [][WritesNext]_writesVars

(***************************************************************************)
(* As in AdminWrites, a handler runs to its end and a row lock is granted  *)
(* in turn; so does an import, and PostgreSQL looks for deadlocks.         *)
(***************************************************************************)
FairWritesSpec ==
    /\ WritesSpec
    /\ \A s \in Sessions : /\ WF_writesVars(Serve(s) /\ UNCHANGED importVars)
                           /\ SF_writesVars(LockCatalog(s) /\ UNCHANGED importVars)
    /\ \A i \in Imports  : WF_writesVars(RunImport(i)) /\ SF_writesVars(Flush(i))

-----------------------------------------------------------------------------
\* Type invariant.
WritesTypeOK ==
    /\ row \in [Catalogs -> Rows \cup {NoRow}]
    /\ lock \in [Catalogs -> Sessions \cup Imports \cup {Nobody}]
    /\ page \in [Sessions -> Rows \cup {NoRow}]
    /\ work \in [Sessions -> Rows \cup {NoRow}]
    /\ ipc \in [Imports -> {"ready", "lookup", "flush", "commit", "done", "failed"}]
    /\ position \in [Imports -> Nat \ {0}]
    /\ started \in [Imports -> Nat]
    /\ loaded \in [Imports -> [Catalogs -> Rows \cup {NoRow}]]
    /\ pending \in [Imports -> [Catalogs -> Rows \cup {NoRow}]]

\* ck_catalogs_published_when_published never refuses a write, an editor's or an import's: also
\* an UPDATE computed from a read that is no longer true leaves a published row dated
\* (import_catalog_document: "publishing it without one fails the constraint at commit").
PublishedIsDated ==
    /\ \A c \in Catalogs : row[c].status = "published" => row[c].published_at # Never
    /\ \A s \in Sessions : work[s].status = "published" => work[s].published_at # Never
    /\ \A i \in Imports, c \in Catalogs :
          pending[i][c].status = "published" => pending[i][c].published_at # Never

\* An import replaces contents and leaves the editors' columns alone: whatever editors do between
\* its read and its commit, the version they count by stays, and so does the status of a catalog
\* that was not a draft when it was read (import_catalog_document assigns columns, not the row).
ImportSparesEditors ==
    [][\A i \in Imports : CommitImport(i) =>
          \A c \in Catalogs : loaded[i][c] # NoRow =>
              /\ row'[c].version = row[c].version
              /\ loaded[i][c].status # "draft" => row'[c].status = row[c].status]_writesVars

\* "It does not undo an editor: an unpublished or archived catalog stays that way."  The code
\* decides by what it read without a lock.
ImportUndoesNoEditor ==
    [][\A i \in Imports : CommitImport(i) =>
          \A c \in Catalogs :
              row[c].status \in {"unpublished", "archived"} =>
                  row'[c].status = row[c].status]_writesVars

\* An import that has begun ends, also when another one takes the same rows in another order.
ImportsEnd ==
    \A i \in Imports : ipc[i] \in {"lookup", "flush", "commit"} ~> ipc[i] \in {"done", "failed"}
=============================================================================

------------------------------ MODULE Migrations ------------------------------
(***************************************************************************)
(* The six revisions of migrations/versions, up and down, on a database    *)
(* that is in use between two commands and, for imports, during one.       *)
(*                                                                         *)
(* db is what is committed.  A command of Alembic is one transaction over  *)
(* all its revisions (migrations/env.py): tx holds its own view of the     *)
(* database, which also takes in what others commit meanwhile, as a        *)
(* statement at READ COMMITTED does.  Catalogs stand in one country; the   *)
(* reference rows are the names of that country and the subdivisions.      *)
(***************************************************************************)
EXTENDS Naturals, FiniteSets, Lifecycle

CONSTANTS
    Catalogs,
    InitialCodes, AddedCodes, HandCodes,  \* subdivisions: of c8e1, of b41f, of nobody's
    OurNames, TheirNames,                 \* name rows: what 2eb4 inserts, and other values
    ImportsWhileMigrating,                \* may an import be running during a command?
    NoRow, NoEntry, NoIndexer, NoTransaction

ASSUME MigrationsAssumption ==
    /\ ImportsWhileMigrating \in BOOLEAN
    /\ OurNames \cap TheirNames = {}

\* The chain, from an empty database: c8e1b73f2d04, b41f7c9ade52, 847ef861dbdb, 2eb49a8f4664,
\* 6d2a91c5e7b3, a3f19c7d8e42.
base == 0
initial_schema == 1
more_subdivisions == 2
search_schema == 3
reference_data == 4
search_labels == 5
status_lifecycle == 6
Revisions == base..status_lifecycle

Codes    == InitialCodes \cup AddedCodes \cup HandCodes
AllNames == OurNames \cup TheirNames

\* catalog_status, before and from a3f19c7d8e42 on.
OldStatuses == {"suggested", "active"}
StatusesAt(revision) == IF revision < status_lifecycle THEN OldStatuses ELSE Statuses

\* A row of catalogs at any revision: its status, and whether published_at is set.
AnyRow == [status : OldStatuses \cup Statuses, dated : BOOLEAN]

ASSUME NoRowAssumption == NoRow \notin AnyRow

\* What refresh_catalog_search does: where it puts countries and city, and whom it indexes.
Indexers == [labels : {"countries before city", "city before countries"},
             searchable : {"active", "published"}]
Entries  == [labels : {"countries before city", "city before countries"},
             names : SUBSET AllNames]

VARIABLES
    db,      \* [revision, catalogs, subdivisions, names, index, indexer], committed
    tx,      \* the command in progress: [view, goal, locked], or NoTransaction
    inserted \* inserted[c]: [row, entry] of an import that has not committed, or NoRow

vars == <<db, tx, inserted>>

NoCatalogs == [c \in Catalogs |-> NoRow]
NoIndex    == [c \in Catalogs |-> NoEntry]

Empty == [revision |-> base, catalogs |-> NoCatalogs, subdivisions |-> [k \in Codes |-> "absent"],
          names |-> {}, index |-> NoIndex, indexer |-> NoIndexer]

Init ==
    /\ db       = Empty
    /\ tx       = NoTransaction
    /\ inserted = [c \in Catalogs |-> NoRow]

-----------------------------------------------------------------------------
(* refresh_catalog_search. *)

Document(view, row) ==
    IF row # NoRow /\ row.status = view.indexer.searchable
      THEN [labels |-> view.indexer.labels, names |-> view.names] ELSE NoEntry

\* SELECT refresh_catalog_search(array_agg(id)) FROM catalogs: every catalog the view has.
Rebuilt(view) ==
    [view EXCEPT !.index =
        [c \in Catalogs |-> IF view.catalogs[c] = NoRow THEN view.index[c]
                                                        ELSE Document(view, view.catalogs[c])]]

-----------------------------------------------------------------------------
(* The revisions, each from one view of the database to the next. *)

initial_schema_upgrade(view) ==
    [view EXCEPT !.subdivisions = [k \in Codes |-> IF k \in InitialCodes THEN "ours" ELSE @[k]]]

initial_schema_downgrade(view) ==
    [[view EXCEPT !.catalogs = NoCatalogs] EXCEPT !.subdivisions = [k \in Codes |-> "absent"]]

\* ON CONFLICT (code) DO NOTHING: a row somebody added by hand stays theirs.
more_subdivisions_upgrade(view) ==
    [view EXCEPT !.subdivisions =
        [k \in Codes |-> IF k \in AddedCodes /\ @[k] = "absent" THEN "ours" ELSE @[k]]]

\* Deliberately a no-op.
more_subdivisions_downgrade(view) == view

\* The tables and the triggers; nothing is rebuilt until the next revision.
search_schema_upgrade(view) ==
    [view EXCEPT !.indexer = [labels |-> "countries before city", searchable |-> "active"]]

search_schema_downgrade(view) ==
    [[[view EXCEPT !.indexer = NoIndexer] EXCEPT !.index = NoIndex] EXCEPT !.names = {}]

reference_data_upgrade(view) == Rebuilt([view EXCEPT !.names = @ \cup OurNames])

\* Mutant: the downgrade empties the tables.
reference_data_downgrade_All(view) == Rebuilt([view EXCEPT !.names = {}])

\* Deletes by value.
reference_data_downgrade(view) == Rebuilt([view EXCEPT !.names = @ \ OurNames])

search_labels_upgrade(view) ==
    Rebuilt([view EXCEPT !.indexer.labels = "city before countries"])

\* Mutant: the old function is back, the rows are not rebuilt with it.
search_labels_downgrade_Lazy(view) ==
    [view EXCEPT !.indexer.labels = "countries before city"]

search_labels_downgrade(view) ==
    Rebuilt([view EXCEPT !.indexer.labels = "countries before city"])

\* ALTER COLUMN status TYPE ... USING: every row, whoever wrote it.
Retyped(view, newStatus) ==
    LET typed(row) == IF row = NoRow THEN NoRow ELSE [row EXCEPT !.status = newStatus[@]]
    IN  [view EXCEPT !.catalogs = [c \in Catalogs |-> typed(view.catalogs[c])]]

\* Mutant: every catalog the registry holds is published.
status_lifecycle_upgrade_Publishing(view) ==
    [Retyped(view, [status \in OldStatuses |-> "published"]) EXCEPT !.indexer.searchable = "published"]

\* The same catalogs qualify for search, so nothing is rebuilt.
status_lifecycle_upgrade(view) ==
    [Retyped(view, [active |-> "published", suggested |-> "draft"])
        EXCEPT !.indexer.searchable = "published"]

\* Mutant: only a draft goes back to suggested.
status_lifecycle_downgrade_Reviving(view) ==
    Rebuilt([Retyped(view, [status \in Statuses |-> IF status = "draft" THEN "suggested" ELSE "active"])
                EXCEPT !.indexer.searchable = "active"])

\* Mutant: the two new statuses are forgotten, and kept.
status_lifecycle_downgrade_Partial(view) ==
    Rebuilt([Retyped(view, [published   |-> "active",      draft    |-> "suggested",
                           unpublished |-> "unpublished", archived |-> "archived"])
                EXCEPT !.indexer.searchable = "active"])

status_lifecycle_downgrade(view) ==
    Rebuilt([Retyped(view, [status \in Statuses |-> IF status = "published" THEN "active" ELSE "suggested"])
                EXCEPT !.indexer.searchable = "active"])

-----------------------------------------------------------------------------
(* A command. *)

\* The tables or rows a revision takes from other writers.  CREATE and DROP TRIGGER, ALTER and
\* DROP TABLE wait for every transaction that has written to catalogs; a rebuild locks the rows it
\* sees, and replacing a function or inserting names locks nothing.
LockOf(revision) ==
    CASE revision \in {search_schema, status_lifecycle, initial_schema} -> "table"
      [] revision \in {reference_data, search_labels}              -> "rows"
      [] revision = more_subdivisions                                  -> "none"

MayWrite(c) ==
    tx # NoTransaction =>
        \/ tx.locked = "none"
        \/ tx.locked = "rows" /\ tx.view.catalogs[c] = NoRow

BeginMigration(goal) ==
    /\ tx = NoTransaction
    /\ goal # db.revision
    /\ ~ ImportsWhileMigrating => \A c \in Catalogs : inserted[c] = NoRow
    /\ tx' = [view |-> db, goal |-> goal, locked |-> "none"]
    /\ UNCHANGED <<db, inserted>>

\* One revision run, up or down, as *changed*; its row in alembic_version is written with it.
Run(revision, reached, changed) ==
    LET lock == LockOf(revision) IN
    /\ lock = "table" => \A c \in Catalogs : inserted[c] = NoRow
    /\ tx' = [view   |-> [changed EXCEPT !.revision = reached],
              goal   |-> tx.goal,
              locked |-> IF "table" \in {lock, tx.locked} THEN "table"
                         ELSE IF "rows" \in {lock, tx.locked} THEN "rows" ELSE "none"]
    /\ UNCHANGED <<db, inserted>>

UpgradeStep ==
    /\ tx # NoTransaction /\ tx.view.revision < tx.goal
    /\ LET next == tx.view.revision + 1
           view == tx.view
       IN  \/ next = initial_schema  /\ Run(next, next, initial_schema_upgrade(view))
           \/ next = more_subdivisions  /\ Run(next, next, more_subdivisions_upgrade(view))
           \/ next = search_schema /\ Run(next, next, search_schema_upgrade(view))
           \/ next = reference_data /\ Run(next, next, reference_data_upgrade(view))
           \/ next = search_labels /\ Run(next, next, search_labels_upgrade(view))
           \/ next = status_lifecycle  /\ Run(next, next, status_lifecycle_upgrade(view))

DowngradeStep ==
    /\ tx # NoTransaction /\ tx.view.revision > tx.goal
    /\ LET now  == tx.view.revision
           view == tx.view
       IN  \/ now = initial_schema  /\ Run(now, now - 1, initial_schema_downgrade(view))
           \/ now = more_subdivisions  /\ Run(now, now - 1, more_subdivisions_downgrade(view))
           \/ now = search_schema /\ Run(now, now - 1, search_schema_downgrade(view))
           \/ now = reference_data /\ Run(now, now - 1, reference_data_downgrade(view))
           \/ now = search_labels /\ Run(now, now - 1, search_labels_downgrade(view))
           \/ now = status_lifecycle  /\ Run(now, now - 1, status_lifecycle_downgrade(view))

CommitMigration ==
    /\ tx # NoTransaction /\ tx.view.revision = tx.goal
    /\ db' = tx.view
    /\ tx' = NoTransaction
    /\ UNCHANGED inserted

\* A missing privilege, a lost connection, a deadlock: the whole command is rolled back.
AbortMigration ==
    /\ tx # NoTransaction
    /\ tx' = NoTransaction
    /\ UNCHANGED <<db, inserted>>

-----------------------------------------------------------------------------
(* The database in use. *)

\* A committed row and its search entry: the command's view has them too, being of a row it has
\* not locked.
Committed(c, row, entry) ==
    LET Stored(view) == [[view EXCEPT !.catalogs[c] = row] EXCEPT !.index[c] = entry]
    IN  /\ db' = Stored(db)
        /\ tx' = IF tx = NoTransaction THEN tx ELSE [tx EXCEPT !.view = Stored(@)]

RowsAt(revision) ==
    {row \in [status : StatusesAt(revision) \ {"unpublished", "archived"}, dated : BOOLEAN] :
        row.dated = (row.status \in {"active", "published"})}

\* An import, or the back office, inserts a catalog: the trigger indexes it in the same
\* transaction, with the function and the names committed by then.
InsertCatalog(c) ==
    /\ db.revision >= initial_schema
    /\ db.catalogs[c] = NoRow /\ inserted[c] = NoRow
    /\ MayWrite(c)
    /\ ~ ImportsWhileMigrating => tx = NoTransaction
    /\ \E row \in RowsAt(db.revision) :
          inserted' = [inserted EXCEPT ![c] =
              [row   |-> row,
               entry |-> IF db.revision < search_schema THEN NoEntry ELSE Document(db, row)]]
    /\ UNCHANGED <<db, tx>>

CommitInsert(c) ==
    /\ inserted[c] # NoRow
    /\ Committed(c, inserted[c].row, inserted[c].entry)
    /\ inserted' = [inserted EXCEPT ![c] = NoRow]

\* An editor's transition, once there are editors; the trigger on status follows it.
Transition(c) ==
    /\ db.revision = status_lifecycle
    /\ db.catalogs[c] # NoRow
    /\ MayWrite(c)
    /\ \E action \in TRANSITION_ACTIONS : \E to \in Targets(db.catalogs[c].status, action) :
          LET row == [status |-> to, dated |-> db.catalogs[c].dated \/ to = "published"] IN
          Committed(c, row, Document(db, row))
    /\ UNCHANGED inserted

\* An operator adds a subdivision a seed needs, or a name a search needs, ahead of the revision
\* that brings it.  No trigger watches the names: they wait for the next rebuild.
AddSubdivision(code) ==
    /\ tx = NoTransaction
    /\ db.revision >= initial_schema /\ db.subdivisions[code] = "absent"
    /\ db' = [db EXCEPT !.subdivisions[code] = "theirs"]
    /\ UNCHANGED <<tx, inserted>>

AddName(name) ==
    /\ tx = NoTransaction
    /\ db.revision = search_schema
    /\ db' = [db EXCEPT !.names = @ \cup {name}]
    /\ UNCHANGED <<tx, inserted>>

Next ==
    \/ \E goal \in Revisions : BeginMigration(goal)
    \/ UpgradeStep
    \/ DowngradeStep
    \/ CommitMigration
    \/ AbortMigration
    \/ \E c \in Catalogs : InsertCatalog(c) \/ CommitInsert(c) \/ Transition(c)
    \/ \E code \in Codes : AddSubdivision(code)
    \/ \E name \in AllNames : AddName(name)

Spec == Init /\ [][Next]_vars

-----------------------------------------------------------------------------
Databases ==
    [revision : Revisions,
     catalogs : [Catalogs -> AnyRow \cup {NoRow}],
     subdivisions : [Codes -> {"absent", "ours", "theirs"}],
     names : SUBSET AllNames,
     index : [Catalogs -> Entries \cup {NoEntry}],
     indexer : Indexers \cup {NoIndexer}]

\* The statuses of the rows are values of the enum the revision has.
EnumHolds(view) ==
    \A c \in Catalogs : view.catalogs[c] # NoRow =>
        view.catalogs[c].status \in StatusesAt(view.revision)

\* Type invariant: also the view of a command, which PostgreSQL would otherwise not have cast.
TypeOK ==
    /\ db \in Databases /\ EnumHolds(db)
    /\ tx # NoTransaction =>
          /\ tx.view \in Databases /\ EnumHolds(tx.view)
          /\ tx.goal \in Revisions /\ tx.locked \in {"none", "rows", "table"}

Public(view, c) == view.catalogs[c].status \in {"active", "published"}

\* "Nothing becomes visible or invisible to a reader", and "a downgrade never makes a catalog more
\* visible than it was" (a3f19c7d8e42), over commands of any length.
MigrationKeepsVisibility ==
    [][CommitMigration => \A c \in Catalogs :
          db.catalogs[c] # NoRow /\ db'.catalogs[c] # NoRow => (Public(db', c) <=> Public(db, c))]_vars

\* ck_catalogs_published_when_active and ..._when_published, which each direction of a3f19c7d8e42
\* adds back over rows the other code has written: a command that breaks them can never be run.
VisibleIsDated ==
    \A view \in {db} \cup (IF tx = NoTransaction THEN {} ELSE {tx.view}) :
        \A c \in Catalogs :
            view.catalogs[c] # NoRow /\ Public(view, c) => view.catalogs[c].dated

\* "No write path can forget it" (847ef861dbdb): from the first rebuild on, each committed search
\* row is the one the revision's own function would write, after any commands up and down.
SearchFollowsRevision ==
    db.revision >= reference_data =>
        \A c \in Catalogs : db.index[c] = Document(db, db.catalogs[c])

\* "Deleting these rows could destroy data this migration never wrote" (b41f7c9ade52), "A name an
\* operator added by hand has a different value and is left alone" (2eb49a8f4664): what an operator
\* added stays as long as its table does.
OperatorRowsSurvive ==
    [][CommitMigration =>
          /\ db'.revision >= search_schema => db.names \cap TheirNames \subseteq db'.names
          /\ db'.revision >= initial_schema => \A code \in Codes :
                db.subdivisions[code] = "theirs" => db'.subdivisions[code] = "theirs"]_vars
=============================================================================

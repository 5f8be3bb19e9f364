--------------------------- MODULE MigrationsProofs ---------------------------
(***************************************************************************)
(* The schema's moves, for any catalogs, reference rows and length of      *)
(* history.  Each revision's run is a lemma about one view of the          *)
(* database; the steps of a command and of the users put them together.    *)
(***************************************************************************)
EXTENDS Migrations, TLAPS

-----------------------------------------------------------------------------
(* One field of a view replaced, the others as they were. *)

LEMMA WithRevision ==
  ASSUME NEW view \in Databases, NEW x \in Revisions
  PROVE  LET new == [view EXCEPT !.revision = x]
         IN  /\ new \in Databases /\ new.revision = x
             /\ new.catalogs = view.catalogs /\ new.names = view.names
             /\ new.index = view.index /\ new.indexer = view.indexer
             /\ new.subdivisions = view.subdivisions
  BY DEF Databases

LEMMA WithCatalogs ==
  ASSUME NEW view \in Databases, NEW x \in [Catalogs -> AnyRow \cup {NoRow}]
  PROVE  LET new == [view EXCEPT !.catalogs = x]
         IN  /\ new \in Databases /\ new.catalogs = x
             /\ new.revision = view.revision /\ new.names = view.names
             /\ new.index = view.index /\ new.indexer = view.indexer
             /\ new.subdivisions = view.subdivisions
  BY DEF Databases

LEMMA WithSubdivisions ==
  ASSUME NEW view \in Databases, NEW x \in [Codes -> {"absent", "ours", "theirs"}]
  PROVE  LET new == [view EXCEPT !.subdivisions = x]
         IN  /\ new \in Databases /\ new.subdivisions = x
             /\ new.revision = view.revision /\ new.names = view.names
             /\ new.index = view.index /\ new.indexer = view.indexer
             /\ new.catalogs = view.catalogs
  BY DEF Databases

LEMMA WithNames ==
  ASSUME NEW view \in Databases, NEW x \in SUBSET AllNames
  PROVE  LET new == [view EXCEPT !.names = x]
         IN  /\ new \in Databases /\ new.names = x
             /\ new.revision = view.revision /\ new.catalogs = view.catalogs
             /\ new.index = view.index /\ new.indexer = view.indexer
             /\ new.subdivisions = view.subdivisions
  BY DEF Databases

LEMMA WithIndex ==
  ASSUME NEW view \in Databases, NEW x \in [Catalogs -> Entries \cup {NoEntry}]
  PROVE  LET new == [view EXCEPT !.index = x]
         IN  /\ new \in Databases /\ new.index = x
             /\ new.revision = view.revision /\ new.catalogs = view.catalogs
             /\ new.names = view.names /\ new.indexer = view.indexer
             /\ new.subdivisions = view.subdivisions
  BY DEF Databases

LEMMA WithIndexer ==
  ASSUME NEW view \in Databases, NEW x \in Indexers \cup {NoIndexer}
  PROVE  LET new == [view EXCEPT !.indexer = x]
         IN  /\ new \in Databases /\ new.indexer = x
             /\ new.revision = view.revision /\ new.catalogs = view.catalogs
             /\ new.names = view.names /\ new.index = view.index
             /\ new.subdivisions = view.subdivisions
  BY DEF Databases

LEMMA Fields ==
  ASSUME NEW view \in Databases
  PROVE  /\ view.revision \in Revisions
         /\ view.catalogs \in [Catalogs -> AnyRow \cup {NoRow}]
         /\ view.subdivisions \in [Codes -> {"absent", "ours", "theirs"}]
         /\ view.names \in SUBSET AllNames
         /\ view.index \in [Catalogs -> Entries \cup {NoEntry}]
         /\ view.indexer \in Indexers \cup {NoIndexer}
  BY DEF Databases

-----------------------------------------------------------------------------
(* What holds of every view, committed or a command's. *)

SearchableAt(view, revision) ==
    /\ revision >= search_schema => view.indexer \in Indexers
    /\ revision \in search_schema..search_labels => view.indexer.searchable = "active"
    /\ revision = status_lifecycle => view.indexer.searchable = "published"

EnumAt(view, revision) ==
    \A c \in Catalogs : view.catalogs[c] # NoRow => view.catalogs[c].status \in StatusesAt(revision)

Dated(view) ==
    \A c \in Catalogs : view.catalogs[c] # NoRow /\ Public(view, c) => view.catalogs[c].dated

\* Nobody's rows stand in a table that is not there yet.
Bare(view) ==
    view.revision = base => \A code \in Codes : view.subdivisions[code] # "theirs"

Good(view) ==
    /\ view \in Databases /\ Bare(view)
    /\ EnumAt(view, view.revision) /\ SearchableAt(view, view.revision) /\ Dated(view)

\* The search rows of a view are those its own function would write.
IndexedAt(view, revision) ==
    /\ \A c \in Catalogs : view.catalogs[c] = NoRow => view.index[c] = NoEntry
    /\ revision < search_schema => \A c \in Catalogs : view.index[c] = NoEntry
    /\ revision >= reference_data =>
          \A c \in Catalogs : view.index[c] = Document(view, view.catalogs[c])

Indexed(view) == IndexedAt(view, view.revision)

\* No row of new is more or less visible than it was.
AsVisible(view, new) ==
    \A c \in Catalogs : new.catalogs[c] # NoRow =>
        view.catalogs[c] # NoRow /\ (Public(new, c) <=> Public(view, c))

\* What an operator added stays, but for a downgrade past the revision that made its table.
KeepsNames(view, new) == view.names \cap TheirNames \subseteq new.names

KeepsCodes(view, new) ==
    \A code \in Codes : view.subdivisions[code] = "theirs" => new.subdivisions[code] = "theirs"

Spares(view, new, revision) ==
    /\ (revision < view.revision /\ revision < search_schema)  \/ KeepsNames(view, new)
    /\ (revision < view.revision /\ revision < initial_schema) \/ KeepsCodes(view, new)

Moves(view, new, revision) ==
    /\ Spares(view, new, revision)
    /\ Good(new) /\ new.revision = revision /\ AsVisible(view, new)
    /\ Indexed(view) => Indexed(new)

LEMMA DocumentType ==
  ASSUME NEW view \in Databases, view.indexer \in Indexers, NEW row \in AnyRow \cup {NoRow}
  PROVE  Document(view, row) \in Entries \cup {NoEntry}
  BY Fields DEF Document, Entries, Indexers

LEMMA RebuiltFields ==
  ASSUME NEW view \in Databases, view.indexer \in Indexers
  PROVE  /\ Rebuilt(view) \in Databases
         /\ Rebuilt(view).revision = view.revision /\ Rebuilt(view).catalogs = view.catalogs
         /\ Rebuilt(view).names = view.names /\ Rebuilt(view).indexer = view.indexer
         /\ Rebuilt(view).subdivisions = view.subdivisions
         /\ \A c \in Catalogs :
               Rebuilt(view).index[c] = IF view.catalogs[c] = NoRow THEN view.index[c]
                                        ELSE Document(view, view.catalogs[c])
<1> DEFINE index == [c \in Catalogs |-> IF view.catalogs[c] = NoRow THEN view.index[c]
                                        ELSE Document(view, view.catalogs[c])]
<1>1. index \in [Catalogs -> Entries \cup {NoEntry}]
  <2> SUFFICES ASSUME NEW c \in Catalogs
               PROVE  (IF view.catalogs[c] = NoRow THEN view.index[c]
                       ELSE Document(view, view.catalogs[c])) \in Entries \cup {NoEntry}
    OBVIOUS
  <2> QED BY Fields, DocumentType
<1>2. Rebuilt(view) = [view EXCEPT !.index = index]
  BY DEF Rebuilt
<1>3. \A c \in Catalogs : index[c] = IF view.catalogs[c] = NoRow THEN view.index[c]
                                     ELSE Document(view, view.catalogs[c])
  OBVIOUS
<1> HIDE DEF index
<1> QED BY <1>1, <1>2, <1>3, WithIndex

LEMMA RetypedFields ==
  ASSUME NEW view \in Databases, NEW newStatus,
         \A c \in Catalogs : view.catalogs[c] # NoRow =>
             newStatus[view.catalogs[c].status] \in OldStatuses \cup Statuses
  PROVE  /\ Retyped(view, newStatus) \in Databases
         /\ Retyped(view, newStatus).revision = view.revision
         /\ Retyped(view, newStatus).names = view.names
         /\ Retyped(view, newStatus).index = view.index
         /\ Retyped(view, newStatus).subdivisions = view.subdivisions
         /\ Retyped(view, newStatus).indexer = view.indexer
         /\ \A c \in Catalogs :
               LET row == Retyped(view, newStatus).catalogs[c]
               IN  IF view.catalogs[c] = NoRow THEN row = NoRow
                   ELSE /\ row # NoRow
                        /\ row.status = newStatus[view.catalogs[c].status]
                        /\ row.dated = view.catalogs[c].dated
<1> DEFINE changed(row) == [row EXCEPT !.status = newStatus[@]]
           catalogs == [c \in Catalogs |-> IF view.catalogs[c] = NoRow THEN NoRow
                                           ELSE changed(view.catalogs[c])]
<1>1. \A c \in Catalogs : view.catalogs[c] # NoRow =>
         /\ changed(view.catalogs[c]) \in AnyRow
         /\ changed(view.catalogs[c]).status = newStatus[view.catalogs[c].status]
         /\ changed(view.catalogs[c]).dated = view.catalogs[c].dated
  <2> SUFFICES ASSUME NEW row \in AnyRow, newStatus[row.status] \in OldStatuses \cup Statuses
               PROVE  /\ changed(row) \in AnyRow
                      /\ changed(row).status = newStatus[row.status] /\ changed(row).dated = row.dated
    BY Fields
  <2> QED BY DEF AnyRow
<1>2. Retyped(view, newStatus) = [view EXCEPT !.catalogs = catalogs]
  BY DEF Retyped
<1> HIDE DEF changed
<1>3. catalogs \in [Catalogs -> AnyRow \cup {NoRow}]
  BY <1>1
<1>4. \A c \in Catalogs : catalogs[c] = IF view.catalogs[c] = NoRow THEN NoRow
                                        ELSE changed(view.catalogs[c])
  OBVIOUS
<1> HIDE DEF catalogs
<1>5. /\ Retyped(view, newStatus) \in Databases /\ Retyped(view, newStatus).catalogs = catalogs
      /\ Retyped(view, newStatus).revision = view.revision
      /\ Retyped(view, newStatus).names = view.names
      /\ Retyped(view, newStatus).index = view.index
      /\ Retyped(view, newStatus).subdivisions = view.subdivisions
      /\ Retyped(view, newStatus).indexer = view.indexer
  BY <1>2, <1>3, WithCatalogs
<1>6. ASSUME NEW c \in Catalogs
      PROVE  IF view.catalogs[c] = NoRow THEN catalogs[c] = NoRow
             ELSE /\ catalogs[c] # NoRow
                  /\ catalogs[c].status = newStatus[view.catalogs[c].status]
                  /\ catalogs[c].dated = view.catalogs[c].dated
  BY <1>1, <1>4, NoRowAssumption
<1> QED BY <1>5, <1>6

-----------------------------------------------------------------------------
(* One revision's run, up and down. *)

\* What a run has to show of the view it leaves, before its revision is written down.
LEMMA Reached ==
  ASSUME NEW view, NEW changed \in Databases, NEW revision \in Revisions,
         EnumAt(changed, revision), SearchableAt(changed, revision), Dated(changed),
         AsVisible(view, changed), Indexed(view) => IndexedAt(changed, revision),
         Spares(view, changed, revision),
         revision = base => \A code \in Codes : changed.subdivisions[code] # "theirs"
  PROVE  Moves(view, [changed EXCEPT !.revision = revision], revision)
<1> DEFINE new == [changed EXCEPT !.revision = revision]
<1>1. /\ new \in Databases /\ new.revision = revision
      /\ new.catalogs = changed.catalogs /\ new.names = changed.names
      /\ new.index = changed.index /\ new.indexer = changed.indexer
      /\ new.subdivisions = changed.subdivisions
  BY WithRevision
<1> HIDE DEF new
<1>2. EnumAt(new, revision) /\ SearchableAt(new, revision) /\ Dated(new) /\ AsVisible(view, new)
  BY <1>1 DEF EnumAt, SearchableAt, Dated, AsVisible, Public
<1>3. \A row : Document(new, row) = Document(changed, row)
  BY <1>1 DEF Document
<1>4. IndexedAt(changed, revision) => IndexedAt(new, revision)
  BY <1>1, <1>3 DEF IndexedAt
<1>5. Spares(view, new, revision) /\ Bare(new)
  BY <1>1 DEF Spares, KeepsNames, KeepsCodes, Bare
<1>6. Moves(view, new, revision)
  BY <1>1, <1>2, <1>4, <1>5 DEF Moves, Good, Indexed
<1> QED BY <1>6 DEF new

LEMMA Chain ==
  /\ base = 0 /\ initial_schema = 1 /\ more_subdivisions = 2 /\ search_schema = 3
  /\ reference_data = 4 /\ search_labels = 5 /\ status_lifecycle = 6
  /\ \A revision \in Revisions : revision \in 0..6
  /\ {base, initial_schema, more_subdivisions, search_schema, reference_data, search_labels,
      status_lifecycle} \subseteq Revisions
  /\ \A revision \in 0..5 : StatusesAt(revision) = OldStatuses
  /\ StatusesAt(6) = Statuses
  BY DEF base, initial_schema, more_subdivisions, search_schema, reference_data, search_labels,
         status_lifecycle, Revisions, StatusesAt

\* The rows stay as they are.
LEMMA SameRows ==
  ASSUME NEW view, Good(view), NEW changed, changed.catalogs = view.catalogs,
         NEW revision, StatusesAt(revision) = StatusesAt(view.revision)
  PROVE  EnumAt(changed, revision) /\ Dated(changed) /\ AsVisible(view, changed)
  BY DEF Good, EnumAt, Dated, AsVisible, Public

\* Only subdivisions change, which no search row names.
LEMMA SubdivisionsMove ==
  ASSUME NEW view, Good(view), NEW x \in [Codes -> {"absent", "ours", "theirs"}],
         NEW changed, changed = [view EXCEPT !.subdivisions = x], NEW revision \in Revisions,
         view.revision < search_schema, revision < search_schema, revision # base,
         \A code \in Codes : view.subdivisions[code] = "theirs" => x[code] = "theirs"
  PROVE  /\ Moves(view, [changed EXCEPT !.revision = revision], revision)
         /\ changed.indexer = view.indexer /\ changed.names = view.names
<1>1. /\ changed \in Databases /\ changed.catalogs = view.catalogs /\ changed.names = view.names
      /\ changed.index = view.index /\ changed.indexer = view.indexer
      /\ changed.subdivisions = x
  BY WithSubdivisions DEF Good
<1>2. view.revision \in 0..2 /\ revision \in 0..2
  BY Chain, Fields DEF Good
<1>3. EnumAt(changed, revision) /\ Dated(changed) /\ AsVisible(view, changed)
  <2>1. view.revision \in 0..5 /\ revision \in 0..5
    BY <1>2
  <2>2. StatusesAt(revision) = StatusesAt(view.revision)
    BY <2>1, Chain
  <2> QED BY <1>1, <2>2, SameRows
<1>4. SearchableAt(changed, revision)
  BY <1>2, Chain DEF SearchableAt
<1>5. Indexed(view) => IndexedAt(changed, revision)
  BY <1>1, <1>2, Chain DEF Indexed, IndexedAt
<1>6. Spares(view, changed, revision)
  BY <1>1 DEF Spares, KeepsNames, KeepsCodes
<1> QED BY <1>1, <1>3, <1>4, <1>5, <1>6, Reached

LEMMA InitialSchemaUp ==
  ASSUME NEW view, Good(view), view.revision = base
  PROVE  Moves(view, [initial_schema_upgrade(view) EXCEPT !.revision = initial_schema], initial_schema)
<1> DEFINE kept == view.subdivisions
           subdivisions == [k \in Codes |-> IF k \in InitialCodes THEN "ours" ELSE kept[k]]
<1>1. subdivisions \in [Codes -> {"absent", "ours", "theirs"}]
  BY Fields DEF Good
<1>2. initial_schema_upgrade(view) = [view EXCEPT !.subdivisions = subdivisions]
  BY DEF initial_schema_upgrade
<1>4. \A code \in Codes : view.subdivisions[code] = "theirs" => subdivisions[code] = "theirs"
  BY DEF Good, Bare
<1> HIDE DEF subdivisions
<1>3. /\ initial_schema \in Revisions /\ initial_schema < search_schema
      /\ view.revision < search_schema /\ initial_schema # base
  BY Chain
<1> QED BY <1>1, <1>2, <1>3, <1>4, SubdivisionsMove

LEMMA MoreSubdivisionsUp ==
  ASSUME NEW view, Good(view), view.revision = initial_schema
  PROVE  Moves(view, [more_subdivisions_upgrade(view) EXCEPT !.revision = more_subdivisions],
               more_subdivisions)
<1> DEFINE kept == view.subdivisions
           subdivisions == [k \in Codes |-> IF k \in AddedCodes /\ kept[k] = "absent" THEN "ours"
                                                                               ELSE kept[k]]
<1>1. subdivisions \in [Codes -> {"absent", "ours", "theirs"}]
  BY Fields DEF Good
<1>2. more_subdivisions_upgrade(view) = [view EXCEPT !.subdivisions = subdivisions]
  BY DEF more_subdivisions_upgrade
<1>4. \A code \in Codes : view.subdivisions[code] = "theirs" => subdivisions[code] = "theirs"
  OBVIOUS
<1> HIDE DEF subdivisions
<1>3. /\ more_subdivisions \in Revisions /\ more_subdivisions < search_schema
      /\ view.revision < search_schema /\ more_subdivisions # base
  BY Chain
<1> QED BY <1>1, <1>2, <1>3, <1>4, SubdivisionsMove

LEMMA MoreSubdivisionsDown ==
  ASSUME NEW view, Good(view), view.revision = more_subdivisions
  PROVE  Moves(view, [more_subdivisions_downgrade(view) EXCEPT !.revision = initial_schema],
               initial_schema)
<1> DEFINE kept == view.subdivisions
<1>1. kept \in [Codes -> {"absent", "ours", "theirs"}]
  BY Fields DEF Good
<1>2. more_subdivisions_downgrade(view) = [view EXCEPT !.subdivisions = kept]
  BY DEF more_subdivisions_downgrade, Good, Databases
<1>4. \A code \in Codes : view.subdivisions[code] = "theirs" => kept[code] = "theirs"
  OBVIOUS
<1> HIDE DEF kept
<1>3. /\ initial_schema \in Revisions /\ initial_schema < search_schema
      /\ view.revision < search_schema /\ initial_schema # base
  BY Chain
<1> QED BY <1>1, <1>2, <1>3, <1>4, SubdivisionsMove

\* The first revision's downgrade drops every catalog.
LEMMA InitialSchemaDown ==
  ASSUME NEW view, Good(view), view.revision = initial_schema
  PROVE  Moves(view, [initial_schema_downgrade(view) EXCEPT !.revision = base], base)
<1> DEFINE dropped == [view EXCEPT !.catalogs = NoCatalogs]
           changed == initial_schema_downgrade(view)
<1>1. NoCatalogs \in [Catalogs -> AnyRow \cup {NoRow}] /\ \A c \in Catalogs : NoCatalogs[c] = NoRow
  BY DEF NoCatalogs
<1>2. /\ dropped \in Databases /\ dropped.catalogs = NoCatalogs /\ dropped.index = view.index
      /\ dropped.names = view.names
  BY <1>1, WithCatalogs DEF Good
<1> DEFINE none == [k \in Codes |-> "absent"]
<1>3. changed = [dropped EXCEPT !.subdivisions = none]
  BY DEF initial_schema_downgrade
<1>4. none \in [Codes -> {"absent", "ours", "theirs"}] /\ \A k \in Codes : none[k] # "theirs"
  OBVIOUS
<1> HIDE DEF dropped, changed, none
<1>5. /\ changed \in Databases /\ changed.catalogs = NoCatalogs /\ changed.index = view.index
      /\ changed.subdivisions = none /\ changed.names = view.names
  BY <1>2, <1>3, <1>4, WithSubdivisions
<1>6. EnumAt(changed, base) /\ Dated(changed) /\ AsVisible(view, changed)
  BY <1>1, <1>5 DEF EnumAt, Dated, AsVisible
<1>7. SearchableAt(changed, base)
  BY Chain DEF SearchableAt
<1>8. Indexed(view) => IndexedAt(changed, base)
  BY <1>5, Chain DEF Indexed, IndexedAt
<1>9. base \in Revisions
  BY Chain
<1>10. Spares(view, changed, base)
  BY Chain DEF Spares
<1>11. Moves(view, [changed EXCEPT !.revision = base], base)
  BY <1>4, <1>5, <1>6, <1>7, <1>8, <1>9, <1>10, Reached
<1> QED BY <1>11 DEF changed

LEMMA SearchSchemaUp ==
  ASSUME NEW view, Good(view), view.revision = more_subdivisions
  PROVE  Moves(view, [search_schema_upgrade(view) EXCEPT !.revision = search_schema], search_schema)
<1> DEFINE indexer == [labels |-> "countries before city", searchable |-> "active"]
           changed == search_schema_upgrade(view)
<1>1. indexer \in Indexers /\ indexer.searchable = "active"
  BY DEF Indexers
<1>2. changed = [view EXCEPT !.indexer = indexer]
  BY DEF search_schema_upgrade
<1> HIDE DEF indexer, changed
<1>3. /\ changed \in Databases /\ changed.catalogs = view.catalogs
      /\ changed.index = view.index /\ changed.indexer = indexer
      /\ changed.names = view.names /\ changed.subdivisions = view.subdivisions
  BY <1>1, <1>2, WithIndexer DEF Good
<1>4. EnumAt(changed, search_schema) /\ Dated(changed) /\ AsVisible(view, changed)
  <2>1. StatusesAt(search_schema) = StatusesAt(view.revision)
    BY Chain
  <2> QED BY <1>3, <2>1, SameRows
<1>5. SearchableAt(changed, search_schema)
  BY <1>1, <1>3, Chain DEF SearchableAt
<1>6. Indexed(view) => IndexedAt(changed, search_schema)
  BY <1>3, Chain DEF Indexed, IndexedAt
<1>7. search_schema \in Revisions /\ search_schema # base
  BY Chain
<1>8. Spares(view, changed, search_schema)
  BY <1>3 DEF Spares, KeepsNames, KeepsCodes
<1>9. Moves(view, [changed EXCEPT !.revision = search_schema], search_schema)
  BY <1>3, <1>4, <1>5, <1>6, <1>7, <1>8, Reached
<1> QED BY <1>9 DEF changed

LEMMA SearchSchemaDown ==
  ASSUME NEW view, Good(view), view.revision = search_schema
  PROVE  Moves(view, [search_schema_downgrade(view) EXCEPT !.revision = more_subdivisions],
               more_subdivisions)
<1> DEFINE bare    == [view EXCEPT !.indexer = NoIndexer]
           empty   == [bare EXCEPT !.index = NoIndex]
           changed == [empty EXCEPT !.names = {}]
<1>1. search_schema_downgrade(view) = changed
  BY DEF search_schema_downgrade
<1>2. /\ bare \in Databases /\ bare.catalogs = view.catalogs
      /\ bare.subdivisions = view.subdivisions
  BY WithIndexer DEF Good
<1>3. NoIndex \in [Catalogs -> Entries \cup {NoEntry}] /\ \A c \in Catalogs : NoIndex[c] = NoEntry
  BY DEF NoIndex
<1> HIDE DEF bare
<1>4. /\ empty \in Databases /\ empty.catalogs = view.catalogs /\ empty.index = NoIndex
      /\ empty.subdivisions = view.subdivisions
  BY <1>2, <1>3, WithIndex
<1> HIDE DEF empty
<1>5. /\ changed \in Databases /\ changed.catalogs = view.catalogs /\ changed.index = NoIndex
      /\ changed.subdivisions = view.subdivisions
  BY <1>4, WithNames
<1> HIDE DEF changed
<1>6. EnumAt(changed, more_subdivisions) /\ Dated(changed) /\ AsVisible(view, changed)
  <2>1. StatusesAt(more_subdivisions) = StatusesAt(view.revision)
    BY Chain
  <2> QED BY <1>5, <2>1, SameRows
<1>7. SearchableAt(changed, more_subdivisions)
  BY Chain DEF SearchableAt
<1>8. Indexed(view) => IndexedAt(changed, more_subdivisions)
  BY <1>3, <1>5, Chain DEF IndexedAt
<1>9. more_subdivisions \in Revisions /\ more_subdivisions # base
  BY Chain
<1>10. Spares(view, changed, more_subdivisions)
  BY <1>5, Chain DEF Spares, KeepsCodes
<1> QED BY <1>1, <1>5, <1>6, <1>7, <1>8, <1>9, <1>10, Reached

\* A revision that changes what every search row says rebuilds them all.
LEMMA RebuildMoves ==
  ASSUME NEW view, Good(view), NEW named \in Databases,
         named.catalogs = view.catalogs, named.index = view.index,
         named.indexer \in Indexers, named.indexer.searchable = "active",
         NEW revision \in Revisions,
         view.revision \in search_schema..search_labels, revision \in search_schema..search_labels,
         named.subdivisions = view.subdivisions, KeepsNames(view, named)
  PROVE  Moves(view, [Rebuilt(named) EXCEPT !.revision = revision], revision)
<1> DEFINE changed == Rebuilt(named)
<1>1. /\ changed \in Databases /\ changed.catalogs = view.catalogs
      /\ changed.names = named.names /\ changed.indexer = named.indexer
      /\ changed.subdivisions = named.subdivisions
      /\ \A c \in Catalogs : changed.index[c] = IF view.catalogs[c] = NoRow THEN view.index[c]
                                                ELSE Document(named, view.catalogs[c])
  BY RebuiltFields
<1> HIDE DEF changed
<1>2. EnumAt(changed, revision) /\ Dated(changed) /\ AsVisible(view, changed)
  <2>1. view.revision \in 0..5 /\ revision \in 0..5
    BY Chain
  <2>2. StatusesAt(revision) = StatusesAt(view.revision)
    BY <2>1, Chain
  <2> QED BY <1>1, <2>2, SameRows
<1>3. SearchableAt(changed, revision)
  BY <1>1, Chain DEF SearchableAt
<1>4. \A row : Document(changed, row) = Document(named, row)
  BY <1>1 DEF Document
<1>5. Indexed(view) => IndexedAt(changed, revision)
  <2> SUFFICES ASSUME Indexed(view) PROVE IndexedAt(changed, revision)
    OBVIOUS
  <2>1. ASSUME NEW c \in Catalogs, view.catalogs[c] = NoRow PROVE changed.index[c] = NoEntry
    BY <1>1, <2>1 DEF Indexed, IndexedAt
  <2>2. ASSUME NEW c \in Catalogs
        PROVE  changed.index[c] = Document(changed, changed.catalogs[c])
    BY <1>1, <1>4, <2>1 DEF Document
  <2>3. ~ revision < search_schema
    BY Chain
  <2> QED BY <1>1, <2>1, <2>2, <2>3 DEF IndexedAt
<1>6. Spares(view, changed, revision) /\ revision # base
  BY <1>1, Chain DEF Spares, KeepsNames, KeepsCodes
<1>7. Moves(view, [changed EXCEPT !.revision = revision], revision)
  BY <1>1, <1>2, <1>3, <1>5, <1>6, Reached
<1> QED BY <1>7 DEF changed

\* What a view at one of these revisions indexes with.
LEMMA ActiveIndexer ==
  ASSUME NEW view, Good(view), view.revision \in search_schema..search_labels
  PROVE  view.indexer \in Indexers /\ view.indexer.searchable = "active"
  BY Chain DEF Good, SearchableAt

LEMMA ReferenceDataUp ==
  ASSUME NEW view, Good(view), view.revision = search_schema
  PROVE  Moves(view, [reference_data_upgrade(view) EXCEPT !.revision = reference_data], reference_data)
<1> DEFINE names == view.names \cup OurNames
           named == [view EXCEPT !.names = names]
<1>1. names \in SUBSET AllNames
  BY Fields DEF Good, AllNames
<1>2. reference_data_upgrade(view) = Rebuilt(named)
  BY DEF reference_data_upgrade
<1>6. view.names \cap TheirNames \subseteq names
  OBVIOUS
<1> HIDE DEF names
<1>3. /\ named \in Databases /\ named.catalogs = view.catalogs /\ named.index = view.index
      /\ named.indexer = view.indexer /\ named.names = names
      /\ named.subdivisions = view.subdivisions
  BY <1>1, WithNames DEF Good
<1> HIDE DEF named
<1>4. /\ view.revision \in search_schema..search_labels
      /\ reference_data \in search_schema..search_labels /\ reference_data \in Revisions
  BY Chain
<1>5. named.indexer \in Indexers /\ named.indexer.searchable = "active"
  BY <1>3, <1>4, ActiveIndexer
<1>7. KeepsNames(view, named)
  BY <1>3, <1>6 DEF KeepsNames
<1> QED BY <1>2, <1>3, <1>4, <1>5, <1>7, RebuildMoves

LEMMA ReferenceDataDown ==
  ASSUME NEW view, Good(view), view.revision = reference_data
  PROVE  Moves(view, [reference_data_downgrade(view) EXCEPT !.revision = search_schema], search_schema)
<1> DEFINE names == view.names \ OurNames
           named == [view EXCEPT !.names = names]
<1>1. names \in SUBSET AllNames
  BY Fields DEF Good
<1>2. reference_data_downgrade(view) = Rebuilt(named)
  BY DEF reference_data_downgrade
<1>6. view.names \cap TheirNames \subseteq names
  BY MigrationsAssumption
<1> HIDE DEF names
<1>3. /\ named \in Databases /\ named.catalogs = view.catalogs /\ named.index = view.index
      /\ named.indexer = view.indexer /\ named.names = names
      /\ named.subdivisions = view.subdivisions
  BY <1>1, WithNames DEF Good
<1> HIDE DEF named
<1>4. /\ view.revision \in search_schema..search_labels
      /\ search_schema \in search_schema..search_labels /\ search_schema \in Revisions
  BY Chain
<1>5. named.indexer \in Indexers /\ named.indexer.searchable = "active"
  BY <1>3, <1>4, ActiveIndexer
<1>7. KeepsNames(view, named)
  BY <1>3, <1>6 DEF KeepsNames
<1> QED BY <1>2, <1>3, <1>4, <1>5, <1>7, RebuildMoves

\* Only the labels of the function change.
LEMMA Relabelled ==
  ASSUME NEW view, Good(view), view.revision \in search_schema..search_labels,
         NEW label \in {"countries before city", "city before countries"},
         NEW named, named = [view EXCEPT !.indexer.labels = label]
  PROVE  /\ named \in Databases /\ named.catalogs = view.catalogs /\ named.index = view.index
         /\ named.names = view.names /\ named.subdivisions = view.subdivisions
         /\ named.indexer \in Indexers /\ named.indexer.searchable = "active"
<1> DEFINE indexer == [view.indexer EXCEPT !.labels = label]
<1>1. view.indexer \in Indexers /\ view.indexer.searchable = "active"
  BY ActiveIndexer
<1>2. indexer \in Indexers /\ indexer.searchable = "active"
  BY <1>1 DEF Indexers
<1>3. named = [view EXCEPT !.indexer = indexer]
  OBVIOUS
<1> HIDE DEF indexer
<1>4. view \in Databases
  BY DEF Good
<1>5. /\ named \in Databases /\ named.catalogs = view.catalogs /\ named.index = view.index
      /\ named.names = view.names /\ named.subdivisions = view.subdivisions
      /\ named.indexer = indexer
  <2>1. indexer \in Indexers \cup {NoIndexer}
    BY <1>2
  <2> DEFINE new == [view EXCEPT !.indexer = indexer]
  <2>2. /\ new \in Databases /\ new.catalogs = view.catalogs /\ new.index = view.index
        /\ new.names = view.names /\ new.subdivisions = view.subdivisions
        /\ new.indexer = indexer
    BY <1>4, <2>1, WithIndexer
  <2> HIDE DEF new
  <2>3. named = new
    BY <1>3 DEF new
  <2> QED BY <2>2, <2>3
<1> QED BY <1>2, <1>5

LEMMA SearchLabelsUp ==
  ASSUME NEW view, Good(view), view.revision = reference_data
  PROVE  Moves(view, [search_labels_upgrade(view) EXCEPT !.revision = search_labels], search_labels)
<1> DEFINE named == [view EXCEPT !.indexer.labels = "city before countries"]
<1>1. search_labels_upgrade(view) = Rebuilt(named)
  BY DEF search_labels_upgrade
<1>2. /\ view.revision \in search_schema..search_labels
      /\ search_labels \in search_schema..search_labels /\ search_labels \in Revisions
  BY Chain
<1> HIDE DEF named
<1>3. /\ named \in Databases /\ named.catalogs = view.catalogs /\ named.index = view.index
      /\ named.names = view.names /\ named.subdivisions = view.subdivisions
      /\ named.indexer \in Indexers /\ named.indexer.searchable = "active"
  BY <1>2, Relabelled DEF named
<1>4. KeepsNames(view, named)
  BY <1>3 DEF KeepsNames
<1> QED BY <1>1, <1>2, <1>3, <1>4, RebuildMoves

LEMMA SearchLabelsDown ==
  ASSUME NEW view, Good(view), view.revision = search_labels
  PROVE  Moves(view, [search_labels_downgrade(view) EXCEPT !.revision = reference_data],
               reference_data)
<1> DEFINE named == [view EXCEPT !.indexer.labels = "countries before city"]
<1>1. search_labels_downgrade(view) = Rebuilt(named)
  BY DEF search_labels_downgrade
<1>2. /\ view.revision \in search_schema..search_labels
      /\ reference_data \in search_schema..search_labels /\ reference_data \in Revisions
  BY Chain
<1> HIDE DEF named
<1>3. /\ named \in Databases /\ named.catalogs = view.catalogs /\ named.index = view.index
      /\ named.names = view.names /\ named.subdivisions = view.subdivisions
      /\ named.indexer \in Indexers /\ named.indexer.searchable = "active"
  BY <1>2, Relabelled DEF named
<1>4. KeepsNames(view, named)
  BY <1>3 DEF KeepsNames
<1> QED BY <1>1, <1>2, <1>3, <1>4, RebuildMoves

\* The statuses of every row, and whom the function indexes, change together.
Recasting(view, newStatus, status) ==
    [Retyped(view, newStatus) EXCEPT !.indexer.searchable = status]

RowsFollow(view, new, newStatus) ==
    \A c \in Catalogs :
        IF view.catalogs[c] = NoRow THEN new.catalogs[c] = NoRow
        ELSE /\ new.catalogs[c] # NoRow
             /\ new.catalogs[c].status = newStatus[view.catalogs[c].status]
             /\ new.catalogs[c].dated = view.catalogs[c].dated

LEMMA Recast ==
  ASSUME NEW view \in Databases, view.indexer \in Indexers, NEW newStatus,
         \A c \in Catalogs : view.catalogs[c] # NoRow =>
             newStatus[view.catalogs[c].status] \in OldStatuses \cup Statuses,
         NEW status \in {"active", "published"}
  PROVE  LET changed == Recasting(view, newStatus, status)
         IN  /\ changed \in Databases /\ changed.names = view.names /\ changed.index = view.index
             /\ changed.subdivisions = view.subdivisions
             /\ changed.indexer \in Indexers /\ changed.indexer.searchable = status
             /\ changed.indexer.labels = view.indexer.labels
             /\ RowsFollow(view, changed, newStatus)
<1> DEFINE retyped == Retyped(view, newStatus)
           changed == Recasting(view, newStatus, status)
           indexer == [view.indexer EXCEPT !.searchable = status]
           new     == [retyped EXCEPT !.indexer = indexer]
<1>1. /\ retyped \in Databases /\ retyped.names = view.names /\ retyped.index = view.index
      /\ retyped.subdivisions = view.subdivisions
      /\ retyped.indexer = view.indexer /\ RowsFollow(view, retyped, newStatus)
  BY RetypedFields DEF RowsFollow
<1>2. /\ indexer \in Indexers /\ indexer.searchable = status
      /\ indexer.labels = view.indexer.labels
  BY DEF Indexers
<1>3. changed = [retyped EXCEPT !.indexer = [retyped.indexer EXCEPT !.searchable = status]]
  BY DEF Recasting
<1> HIDE DEF retyped, changed
<1>4. changed = new
  BY <1>1, <1>3
<1> HIDE DEF indexer
<1>5. indexer \in Indexers \cup {NoIndexer}
  BY <1>2
<1>6. /\ new \in Databases /\ new.names = retyped.names /\ new.index = retyped.index
      /\ new.subdivisions = retyped.subdivisions
      /\ new.catalogs = retyped.catalogs /\ new.indexer = indexer
  BY <1>1, <1>5, WithIndexer
<1> HIDE DEF new
<1>7. RowsFollow(view, new, newStatus)
  BY <1>1, <1>6 DEF RowsFollow
<1>8. /\ changed \in Databases /\ changed.names = view.names /\ changed.index = view.index
      /\ changed.subdivisions = view.subdivisions
      /\ changed.indexer \in Indexers /\ changed.indexer.searchable = status
      /\ changed.indexer.labels = view.indexer.labels
      /\ RowsFollow(view, changed, newStatus)
  BY <1>1, <1>2, <1>4, <1>6, <1>7
<1> QED BY <1>8 DEF changed

LEMMA StatusLifecycleUp ==
  ASSUME NEW view, Good(view), view.revision = search_labels
  PROVE  Moves(view, [status_lifecycle_upgrade(view) EXCEPT !.revision = status_lifecycle],
               status_lifecycle)
<1> DEFINE changed   == status_lifecycle_upgrade(view)
           newStatus == [active |-> "published", suggested |-> "draft"]
<1>1. newStatus["active"] = "published" /\ newStatus["suggested"] = "draft"
  OBVIOUS
<1>2. view \in Databases /\ view.indexer \in Indexers /\ view.indexer.searchable = "active"
  <2>1. view.revision \in search_schema..search_labels
    BY Chain
  <2> QED BY <2>1, ActiveIndexer DEF Good
<1>3. changed = Recasting(view, newStatus, "published")
  BY DEF status_lifecycle_upgrade, Recasting
<1> HIDE DEF changed, newStatus
<1>4. \A c \in Catalogs : view.catalogs[c] # NoRow =>
          view.catalogs[c].status \in {"active", "suggested"}
  <2>1. StatusesAt(view.revision) = {"active", "suggested"}
    BY Chain DEF OldStatuses
  <2> QED BY <2>1 DEF Good, EnumAt
<1>5. \A c \in Catalogs : view.catalogs[c] # NoRow =>
          newStatus[view.catalogs[c].status] \in OldStatuses \cup Statuses
  BY <1>1, <1>4 DEF Statuses
<1>6. /\ changed \in Databases /\ changed.names = view.names /\ changed.index = view.index
      /\ changed.subdivisions = view.subdivisions
      /\ changed.indexer \in Indexers /\ changed.indexer.searchable = "published"
      /\ changed.indexer.labels = view.indexer.labels
      /\ RowsFollow(view, changed, newStatus)
  <2>1. "published" \in {"active", "published"}
    OBVIOUS
  <2> QED BY <1>2, <1>3, <1>5, <2>1, Recast
<1>7. EnumAt(changed, status_lifecycle)
  <2>1. StatusesAt(status_lifecycle) = Statuses
    BY Chain
  <2> QED BY <1>1, <1>4, <1>6, <2>1 DEF EnumAt, Statuses, RowsFollow
<1>8. Dated(changed)
  BY <1>1, <1>4, <1>6 DEF Dated, Public, Good, RowsFollow
<1>9. AsVisible(view, changed)
  BY <1>1, <1>4, <1>6 DEF AsVisible, Public, RowsFollow
<1>10. SearchableAt(changed, status_lifecycle)
  BY <1>6, Chain DEF SearchableAt
<1>11. ASSUME Indexed(view) PROVE IndexedAt(changed, status_lifecycle)
  <2>1. \A c \in Catalogs : /\ view.catalogs[c] = NoRow => view.index[c] = NoEntry
                            /\ view.index[c] = Document(view, view.catalogs[c])
    BY <1>11, Chain DEF Indexed, IndexedAt
  <2>2. ASSUME NEW c \in Catalogs
        PROVE  Document(changed, changed.catalogs[c]) = Document(view, view.catalogs[c])
    <3>1. CASE view.catalogs[c] = NoRow
      BY <1>6, <3>1 DEF Document, RowsFollow
    <3>2. CASE view.catalogs[c] # NoRow
      <4>1. changed.catalogs[c] # NoRow
        BY <1>6, <3>2 DEF RowsFollow
      <4>2. changed.catalogs[c].status = "published" <=> view.catalogs[c].status = "active"
        BY <1>1, <1>4, <1>6, <3>2 DEF RowsFollow
      <4> QED BY <1>2, <1>6, <3>2, <4>1, <4>2 DEF Document
    <3> QED BY <3>1, <3>2
  <2>3. ~ status_lifecycle < search_schema
    BY Chain
  <2> QED BY <1>6, <2>1, <2>2, <2>3 DEF IndexedAt, RowsFollow
<1>12. status_lifecycle \in Revisions /\ status_lifecycle # base
  BY Chain
<1>13. Spares(view, changed, status_lifecycle)
  BY <1>6 DEF Spares, KeepsNames, KeepsCodes
<1>14. Moves(view, [changed EXCEPT !.revision = status_lifecycle], status_lifecycle)
  BY <1>6, <1>7, <1>8, <1>9, <1>10, <1>11, <1>12, <1>13, Reached
<1> QED BY <1>14 DEF changed

LEMMA StatusLifecycleDown ==
  ASSUME NEW view, Good(view), view.revision = status_lifecycle
  PROVE  Moves(view, [status_lifecycle_downgrade(view) EXCEPT !.revision = search_labels],
               search_labels)
<1> DEFINE newStatus == [status \in Statuses |->
                            IF status = "published" THEN "active" ELSE "suggested"]
           recast    == Recasting(view, newStatus, "active")
           changed   == Rebuilt(recast)
<1>1. \A status \in Statuses :
         newStatus[status] = IF status = "published" THEN "active" ELSE "suggested"
  OBVIOUS
<1>2. status_lifecycle_downgrade(view) = changed
  BY DEF status_lifecycle_downgrade, Recasting
<1>3. view \in Databases /\ view.indexer \in Indexers
  BY Chain DEF Good, SearchableAt
<1> HIDE DEF newStatus
<1>4. \A c \in Catalogs : view.catalogs[c] # NoRow => view.catalogs[c].status \in Statuses
  <2>1. StatusesAt(view.revision) = Statuses
    BY Chain
  <2> QED BY <2>1 DEF Good, EnumAt
<1>5. \A c \in Catalogs : view.catalogs[c] # NoRow =>
          newStatus[view.catalogs[c].status] \in OldStatuses \cup Statuses
  BY <1>1, <1>4 DEF OldStatuses
<1> HIDE DEF recast
<1>6. /\ recast \in Databases /\ recast.index = view.index
      /\ recast.names = view.names /\ recast.subdivisions = view.subdivisions
      /\ recast.indexer \in Indexers /\ recast.indexer.searchable = "active"
      /\ RowsFollow(view, recast, newStatus)
  <2>1. "active" \in {"active", "published"}
    OBVIOUS
  <2> QED BY <1>3, <1>5, <2>1, Recast DEF recast
<1>7. /\ changed \in Databases /\ changed.catalogs = recast.catalogs
      /\ changed.names = recast.names /\ changed.indexer = recast.indexer
      /\ changed.subdivisions = recast.subdivisions
      /\ \A c \in Catalogs : changed.index[c] = IF recast.catalogs[c] = NoRow THEN recast.index[c]
                                                ELSE Document(recast, recast.catalogs[c])
  BY <1>6, RebuiltFields
<1> HIDE DEF changed
<1>8. EnumAt(changed, search_labels)
  <2>1. StatusesAt(search_labels) = OldStatuses
    BY Chain
  <2> QED BY <1>1, <1>4, <1>6, <1>7, <2>1 DEF EnumAt, OldStatuses, RowsFollow
<1>9. Dated(changed)
  BY <1>1, <1>4, <1>6, <1>7 DEF Dated, Public, Good, RowsFollow
<1>10. AsVisible(view, changed)
  <2>1. \A c \in Catalogs : view.catalogs[c] # NoRow => view.catalogs[c].status # "active"
    BY <1>4 DEF Statuses
  <2> QED BY <1>1, <1>4, <1>6, <1>7, <2>1 DEF AsVisible, Public, RowsFollow
<1>11. SearchableAt(changed, search_labels)
  BY <1>6, <1>7, Chain DEF SearchableAt
<1>12. ASSUME Indexed(view) PROVE IndexedAt(changed, search_labels)
  <2>1. \A row : Document(changed, row) = Document(recast, row)
    BY <1>7 DEF Document
  <2>2. ASSUME NEW c \in Catalogs, changed.catalogs[c] = NoRow PROVE changed.index[c] = NoEntry
    BY <1>6, <1>7, <1>12, <2>2 DEF Indexed, IndexedAt, RowsFollow
  <2>3. ASSUME NEW c \in Catalogs
        PROVE  changed.index[c] = Document(changed, changed.catalogs[c])
    BY <1>7, <2>1, <2>2 DEF Document
  <2>4. ~ search_labels < search_schema
    BY Chain
  <2> QED BY <2>2, <2>3, <2>4 DEF IndexedAt
<1>13. search_labels \in Revisions /\ search_labels # base
  BY Chain
<1>14. Spares(view, changed, search_labels)
  BY <1>6, <1>7 DEF Spares, KeepsNames, KeepsCodes
<1>15. Moves(view, [changed EXCEPT !.revision = search_labels], search_labels)
  BY <1>7, <1>8, <1>9, <1>10, <1>11, <1>12, <1>13, <1>14, Reached
<1> QED BY <1>2, <1>15

-----------------------------------------------------------------------------
(* A row and its search entry, stored in a view. *)

Storing(view, c, row, entry) ==
    [[view EXCEPT !.catalogs[c] = row] EXCEPT !.index[c] = entry]

LEMMA StoredFields ==
  ASSUME NEW view \in Databases, NEW c \in Catalogs, NEW row \in AnyRow,
         NEW entry \in Entries \cup {NoEntry}
  PROVE  LET new == Storing(view, c, row, entry)
         IN  /\ new \in Databases /\ new.revision = view.revision
             /\ new.names = view.names /\ new.indexer = view.indexer
             /\ new.subdivisions = view.subdivisions
             /\ \A d \in Catalogs : new.catalogs[d] = IF d = c THEN row ELSE view.catalogs[d]
             /\ \A d \in Catalogs : new.index[d] = IF d = c THEN entry ELSE view.index[d]
<1> DEFINE catalogs == [view.catalogs EXCEPT ![c] = row]
           between  == [view EXCEPT !.catalogs = catalogs]
           index    == [between.index EXCEPT ![c] = entry]
           new      == [between EXCEPT !.index = index]
<1>1. Storing(view, c, row, entry) = new
  BY DEF Storing
<1>2. /\ catalogs \in [Catalogs -> AnyRow \cup {NoRow}]
      /\ \A d \in Catalogs : catalogs[d] = IF d = c THEN row ELSE view.catalogs[d]
  BY Fields
<1> HIDE DEF catalogs
<1>3. /\ between \in Databases /\ between.catalogs = catalogs /\ between.index = view.index
      /\ between.revision = view.revision /\ between.names = view.names
      /\ between.indexer = view.indexer /\ between.subdivisions = view.subdivisions
  BY <1>2, WithCatalogs
<1> HIDE DEF between
<1>4. /\ index \in [Catalogs -> Entries \cup {NoEntry}]
      /\ \A d \in Catalogs : index[d] = IF d = c THEN entry ELSE view.index[d]
  BY <1>3, Fields
<1> HIDE DEF index
<1>5. /\ new \in Databases /\ new.catalogs = catalogs /\ new.index = index
      /\ new.revision = view.revision /\ new.names = view.names /\ new.indexer = view.indexer
      /\ new.subdivisions = view.subdivisions
  BY <1>3, <1>4, WithIndex
<1> HIDE DEF new
<1> QED BY <1>1, <1>2, <1>4, <1>5

LEMMA StoredGood ==
  ASSUME NEW view, Good(view), NEW c \in Catalogs, NEW row \in AnyRow,
         NEW entry \in Entries \cup {NoEntry}, row.status \in StatusesAt(view.revision),
         row.status \in {"active", "published"} => row.dated
  PROVE  Good(Storing(view, c, row, entry))
<1> DEFINE new == Storing(view, c, row, entry)
<1>1. /\ new \in Databases /\ new.revision = view.revision /\ new.indexer = view.indexer
      /\ \A d \in Catalogs : new.catalogs[d] = IF d = c THEN row ELSE view.catalogs[d]
      /\ new.subdivisions = view.subdivisions
  BY StoredFields DEF Good
<1> HIDE DEF new
<1>2. EnumAt(new, new.revision)
  BY <1>1 DEF Good, EnumAt
<1>3. Dated(new)
  BY <1>1 DEF Good, Dated, Public
<1>4. SearchableAt(new, new.revision)
  BY <1>1 DEF Good, SearchableAt
<1>5. Good(new)
  BY <1>1, <1>2, <1>3, <1>4 DEF Good, Bare
<1> QED BY <1>5 DEF new

LEMMA StoredIndexed ==
  ASSUME NEW view \in Databases, Indexed(view), NEW c \in Catalogs, NEW row \in AnyRow,
         NEW entry \in Entries \cup {NoEntry},
         view.revision < search_schema => entry = NoEntry,
         view.revision >= reference_data => entry = Document(view, row)
  PROVE  Indexed(Storing(view, c, row, entry))
<1> DEFINE new == Storing(view, c, row, entry)
<1>1. /\ new.revision = view.revision /\ new.names = view.names /\ new.indexer = view.indexer
      /\ \A d \in Catalogs : new.catalogs[d] = IF d = c THEN row ELSE view.catalogs[d]
      /\ \A d \in Catalogs : new.index[d] = IF d = c THEN entry ELSE view.index[d]
  BY StoredFields
<1> HIDE DEF new
<1>2. \A any : Document(new, any) = Document(view, any)
  BY <1>1 DEF Document
<1>3. row # NoRow
  BY NoRowAssumption
<1>4. \A d \in Catalogs : new.catalogs[d] = NoRow => new.index[d] = NoEntry
  BY <1>1, <1>3 DEF Indexed, IndexedAt
<1>5. new.revision < search_schema => \A d \in Catalogs : new.index[d] = NoEntry
  BY <1>1 DEF Indexed, IndexedAt
<1>6. new.revision >= reference_data =>
         \A d \in Catalogs : new.index[d] = Document(new, new.catalogs[d])
  BY <1>1, <1>2 DEF Indexed, IndexedAt
<1>7. Indexed(new)
  BY <1>4, <1>5, <1>6 DEF Indexed, IndexedAt
<1> QED BY <1>7 DEF new

LEMMA StoredAsVisible ==
  ASSUME NEW one \in Databases, NEW other \in Databases, AsVisible(one, other),
         NEW c \in Catalogs, NEW row \in AnyRow, NEW entry \in Entries \cup {NoEntry}
  PROVE  AsVisible(Storing(one, c, row, entry), Storing(other, c, row, entry))
<1> DEFINE one1   == Storing(one, c, row, entry)
           other1 == Storing(other, c, row, entry)
<1>1. /\ \A d \in Catalogs : one1.catalogs[d] = IF d = c THEN row ELSE one.catalogs[d]
      /\ \A d \in Catalogs : other1.catalogs[d] = IF d = c THEN row ELSE other.catalogs[d]
  BY StoredFields
<1> HIDE DEF one1, other1
<1>2. row # NoRow
  BY NoRowAssumption
<1>3. AsVisible(one1, other1)
  BY <1>1, <1>2 DEF AsVisible, Public
<1> QED BY <1>3 DEF one1, other1

-----------------------------------------------------------------------------
(* The strengthening. *)

Commands == [view : Databases, goal : Revisions, locked : {"none", "rows", "table"}]

Insertions == [row : AnyRow, entry : Entries \cup {NoEntry}]

\* A command that has not taken the tables still has the enum it found, and at the last revision
\* has not touched what the index is made with.
Untouched ==
    /\ StatusesAt(tx.view.revision) = StatusesAt(db.revision)
    /\ db.revision = status_lifecycle =>
          /\ tx.view.revision = status_lifecycle
          /\ tx.view.indexer = db.indexer /\ tx.view.names = db.names

InsertsKnown ==
    /\ inserted \in [Catalogs -> Insertions \cup {NoRow}]
    /\ \A c \in Catalogs : inserted[c] # NoRow => inserted[c].row \in RowsAt(db.revision)

CommandKnown ==
    tx # NoTransaction =>
        /\ tx \in Commands /\ Good(tx.view) /\ AsVisible(db, tx.view)
        /\ tx.locked = "table" => \A c \in Catalogs : inserted[c] = NoRow
        /\ tx.locked # "table" => Untouched

Sound == Good(db) /\ InsertsKnown /\ CommandKnown

\* Without imports during a command, the index too.
InsertsIndexed ==
    \A c \in Catalogs : inserted[c] # NoRow =>
        /\ tx = NoTransaction
        /\ db.revision < search_schema => inserted[c].entry = NoEntry
        /\ db.revision >= reference_data => inserted[c].entry = Document(db, inserted[c].row)

Searched ==
    /\ Indexed(db) /\ (tx # NoTransaction => Indexed(tx.view))
    /\ InsertsIndexed

-----------------------------------------------------------------------------
(* The steps of a command. *)

CommandMoved ==
    /\ tx # NoTransaction /\ db' = db /\ inserted' = inserted
    /\ tx' \in Commands /\ tx'.goal = tx.goal
    /\ Moves(tx.view, tx'.view, tx'.view.revision)
    /\ tx'.locked = "table" => tx.locked = "table" \/ \A c \in Catalogs : inserted[c] = NoRow
    /\ tx'.locked # "table" =>
          /\ tx.locked # "table"
          /\ tx.view.revision \in 0..5 /\ tx'.view.revision \in 0..5

LEMMA RunMoves ==
  ASSUME tx # NoTransaction, tx \in Commands, NEW revision, NEW reached \in Revisions, NEW changed,
         Run(revision, reached, changed),
         Moves(tx.view, [changed EXCEPT !.revision = reached], reached),
         LockOf(revision) \in {"none", "rows", "table"},
         LockOf(revision) = "table" \/ (tx.view.revision \in 0..5 /\ reached \in 0..5)
  PROVE  CommandMoved /\ tx'.view.revision = reached
<1> DEFINE lock   == LockOf(revision)
           view   == [changed EXCEPT !.revision = reached]
           locked == IF "table" \in {lock, tx.locked} THEN "table"
                     ELSE IF "rows" \in {lock, tx.locked} THEN "rows" ELSE "none"
<1>1. /\ lock = "table" => \A c \in Catalogs : inserted[c] = NoRow
      /\ tx' = [view |-> view, goal |-> tx.goal, locked |-> locked]
      /\ db' = db /\ inserted' = inserted
  BY DEF Run
<1>2. view \in Databases /\ view.revision = reached
  BY DEF Moves, Good
<1>3. tx.goal \in Revisions /\ tx.locked \in {"none", "rows", "table"}
  BY DEF Commands
<1>4. Moves(tx.view, view, reached)
  OBVIOUS
<1>5. /\ locked \in {"none", "rows", "table"}
      /\ locked = "table" <=> (lock = "table" \/ tx.locked = "table")
  BY <1>3
<1>6. lock = "table" \/ (tx.view.revision \in 0..5 /\ reached \in 0..5)
  OBVIOUS
<1> HIDE DEF lock, view, locked
<1>7. tx' \in Commands /\ tx'.view = view /\ tx'.locked = locked /\ tx'.goal = tx.goal
  BY <1>1, <1>2, <1>3, <1>5 DEF Commands
<1> QED BY <1>1, <1>2, <1>4, <1>5, <1>6, <1>7 DEF CommandMoved

LEMMA Locks ==
  /\ LockOf(initial_schema) = "table" /\ LockOf(more_subdivisions) = "none"
  /\ LockOf(search_schema) = "table" /\ LockOf(reference_data) = "rows"
  /\ LockOf(search_labels) = "rows" /\ LockOf(status_lifecycle) = "table"
  BY Chain DEF LockOf

LEMMA UpgradeMoves ==
  ASSUME Sound, UpgradeStep
  PROVE  CommandMoved /\ tx'.view.revision = tx.view.revision + 1
<1> DEFINE view == tx.view
<1>1. tx # NoTransaction /\ tx \in Commands /\ Good(view)
  BY DEF UpgradeStep, Sound, CommandKnown
<1>2. view.revision \in 0..6
  BY <1>1, Fields, Chain DEF Good
<1>3. ASSUME view.revision + 1 = initial_schema,
             Run(initial_schema, initial_schema, initial_schema_upgrade(view))
      PROVE  CommandMoved /\ tx'.view.revision = view.revision + 1
  <2>1. view.revision = base /\ initial_schema \in Revisions
    BY <1>2, <1>3, Chain
  <2>2. Moves(view, [initial_schema_upgrade(view) EXCEPT !.revision = initial_schema], initial_schema)
    BY <1>1, <2>1, InitialSchemaUp
  <2>3. LockOf(initial_schema) = "table" \/ (view.revision \in 0..5 /\ initial_schema \in 0..5)
    BY <2>1, Chain, Locks
  <2> QED BY <1>1, <1>3, <2>1, <2>2, <2>3, Locks, RunMoves
<1>4. ASSUME view.revision + 1 = more_subdivisions,
             Run(more_subdivisions, more_subdivisions, more_subdivisions_upgrade(view))
      PROVE  CommandMoved /\ tx'.view.revision = view.revision + 1
  <2>1. view.revision = initial_schema /\ more_subdivisions \in Revisions
    BY <1>2, <1>4, Chain
  <2>2. Moves(view, [more_subdivisions_upgrade(view) EXCEPT !.revision = more_subdivisions], more_subdivisions)
    BY <1>1, <2>1, MoreSubdivisionsUp
  <2>3. LockOf(more_subdivisions) = "table" \/ (view.revision \in 0..5 /\ more_subdivisions \in 0..5)
    BY <2>1, Chain, Locks
  <2> QED BY <1>1, <1>4, <2>1, <2>2, <2>3, Locks, RunMoves
<1>5. ASSUME view.revision + 1 = search_schema,
             Run(search_schema, search_schema, search_schema_upgrade(view))
      PROVE  CommandMoved /\ tx'.view.revision = view.revision + 1
  <2>1. view.revision = more_subdivisions /\ search_schema \in Revisions
    BY <1>2, <1>5, Chain
  <2>2. Moves(view, [search_schema_upgrade(view) EXCEPT !.revision = search_schema], search_schema)
    BY <1>1, <2>1, SearchSchemaUp
  <2>3. LockOf(search_schema) = "table" \/ (view.revision \in 0..5 /\ search_schema \in 0..5)
    BY <2>1, Chain, Locks
  <2> QED BY <1>1, <1>5, <2>1, <2>2, <2>3, Locks, RunMoves
<1>6. ASSUME view.revision + 1 = reference_data,
             Run(reference_data, reference_data, reference_data_upgrade(view))
      PROVE  CommandMoved /\ tx'.view.revision = view.revision + 1
  <2>1. view.revision = search_schema /\ reference_data \in Revisions
    BY <1>2, <1>6, Chain
  <2>2. Moves(view, [reference_data_upgrade(view) EXCEPT !.revision = reference_data], reference_data)
    BY <1>1, <2>1, ReferenceDataUp
  <2>3. LockOf(reference_data) = "table" \/ (view.revision \in 0..5 /\ reference_data \in 0..5)
    BY <2>1, Chain, Locks
  <2> QED BY <1>1, <1>6, <2>1, <2>2, <2>3, Locks, RunMoves
<1>7. ASSUME view.revision + 1 = search_labels,
             Run(search_labels, search_labels, search_labels_upgrade(view))
      PROVE  CommandMoved /\ tx'.view.revision = view.revision + 1
  <2>1. view.revision = reference_data /\ search_labels \in Revisions
    BY <1>2, <1>7, Chain
  <2>2. Moves(view, [search_labels_upgrade(view) EXCEPT !.revision = search_labels], search_labels)
    BY <1>1, <2>1, SearchLabelsUp
  <2>3. LockOf(search_labels) = "table" \/ (view.revision \in 0..5 /\ search_labels \in 0..5)
    BY <2>1, Chain, Locks
  <2> QED BY <1>1, <1>7, <2>1, <2>2, <2>3, Locks, RunMoves
<1>8. ASSUME view.revision + 1 = status_lifecycle,
             Run(status_lifecycle, status_lifecycle, status_lifecycle_upgrade(view))
      PROVE  CommandMoved /\ tx'.view.revision = view.revision + 1
  <2>1. view.revision = search_labels /\ status_lifecycle \in Revisions
    BY <1>2, <1>8, Chain
  <2>2. Moves(view, [status_lifecycle_upgrade(view) EXCEPT !.revision = status_lifecycle], status_lifecycle)
    BY <1>1, <2>1, StatusLifecycleUp
  <2>3. LockOf(status_lifecycle) = "table" \/ (view.revision \in 0..5 /\ status_lifecycle \in 0..5)
    BY <2>1, Chain, Locks
  <2> QED BY <1>1, <1>8, <2>1, <2>2, <2>3, Locks, RunMoves
<1> QED BY <1>3, <1>4, <1>5, <1>6, <1>7, <1>8 DEF UpgradeStep

LEMMA DowngradeMoves ==
  ASSUME Sound, DowngradeStep
  PROVE  CommandMoved /\ tx'.view.revision = tx.view.revision - 1
<1> DEFINE view == tx.view
<1>1. tx # NoTransaction /\ tx \in Commands /\ Good(view)
  BY DEF DowngradeStep, Sound, CommandKnown
<1>2. ASSUME view.revision = initial_schema,
             Run(initial_schema, initial_schema - 1, initial_schema_downgrade(view))
      PROVE  CommandMoved /\ tx'.view.revision = view.revision - 1
  <2>1. initial_schema - 1 = base /\ base \in Revisions
    BY Chain
  <2>2. Moves(view, [initial_schema_downgrade(view) EXCEPT !.revision = base], base)
    BY <1>1, <1>2, InitialSchemaDown
  <2>3. LockOf(initial_schema) = "table" \/ (view.revision \in 0..5 /\ base \in 0..5)
    BY <1>2, Chain, Locks
  <2>4. Run(initial_schema, base, initial_schema_downgrade(view))
    BY <1>2, <2>1
  <2> QED BY <1>1, <1>2, <2>1, <2>2, <2>3, <2>4, Locks, RunMoves
<1>3. ASSUME view.revision = more_subdivisions,
             Run(more_subdivisions, more_subdivisions - 1, more_subdivisions_downgrade(view))
      PROVE  CommandMoved /\ tx'.view.revision = view.revision - 1
  <2>1. more_subdivisions - 1 = initial_schema /\ initial_schema \in Revisions
    BY Chain
  <2>2. Moves(view, [more_subdivisions_downgrade(view) EXCEPT !.revision = initial_schema], initial_schema)
    BY <1>1, <1>3, MoreSubdivisionsDown
  <2>3. LockOf(more_subdivisions) = "table" \/ (view.revision \in 0..5 /\ initial_schema \in 0..5)
    BY <1>3, Chain, Locks
  <2>4. Run(more_subdivisions, initial_schema, more_subdivisions_downgrade(view))
    BY <1>3, <2>1
  <2> QED BY <1>1, <1>3, <2>1, <2>2, <2>3, <2>4, Locks, RunMoves
<1>4. ASSUME view.revision = search_schema,
             Run(search_schema, search_schema - 1, search_schema_downgrade(view))
      PROVE  CommandMoved /\ tx'.view.revision = view.revision - 1
  <2>1. search_schema - 1 = more_subdivisions /\ more_subdivisions \in Revisions
    BY Chain
  <2>2. Moves(view, [search_schema_downgrade(view) EXCEPT !.revision = more_subdivisions], more_subdivisions)
    BY <1>1, <1>4, SearchSchemaDown
  <2>3. LockOf(search_schema) = "table" \/ (view.revision \in 0..5 /\ more_subdivisions \in 0..5)
    BY <1>4, Chain, Locks
  <2>4. Run(search_schema, more_subdivisions, search_schema_downgrade(view))
    BY <1>4, <2>1
  <2> QED BY <1>1, <1>4, <2>1, <2>2, <2>3, <2>4, Locks, RunMoves
<1>5. ASSUME view.revision = reference_data,
             Run(reference_data, reference_data - 1, reference_data_downgrade(view))
      PROVE  CommandMoved /\ tx'.view.revision = view.revision - 1
  <2>1. reference_data - 1 = search_schema /\ search_schema \in Revisions
    BY Chain
  <2>2. Moves(view, [reference_data_downgrade(view) EXCEPT !.revision = search_schema], search_schema)
    BY <1>1, <1>5, ReferenceDataDown
  <2>3. LockOf(reference_data) = "table" \/ (view.revision \in 0..5 /\ search_schema \in 0..5)
    BY <1>5, Chain, Locks
  <2>4. Run(reference_data, search_schema, reference_data_downgrade(view))
    BY <1>5, <2>1
  <2> QED BY <1>1, <1>5, <2>1, <2>2, <2>3, <2>4, Locks, RunMoves
<1>6. ASSUME view.revision = search_labels,
             Run(search_labels, search_labels - 1, search_labels_downgrade(view))
      PROVE  CommandMoved /\ tx'.view.revision = view.revision - 1
  <2>1. search_labels - 1 = reference_data /\ reference_data \in Revisions
    BY Chain
  <2>2. Moves(view, [search_labels_downgrade(view) EXCEPT !.revision = reference_data], reference_data)
    BY <1>1, <1>6, SearchLabelsDown
  <2>3. LockOf(search_labels) = "table" \/ (view.revision \in 0..5 /\ reference_data \in 0..5)
    BY <1>6, Chain, Locks
  <2>4. Run(search_labels, reference_data, search_labels_downgrade(view))
    BY <1>6, <2>1
  <2> QED BY <1>1, <1>6, <2>1, <2>2, <2>3, <2>4, Locks, RunMoves
<1>7. ASSUME view.revision = status_lifecycle,
             Run(status_lifecycle, status_lifecycle - 1, status_lifecycle_downgrade(view))
      PROVE  CommandMoved /\ tx'.view.revision = view.revision - 1
  <2>1. status_lifecycle - 1 = search_labels /\ search_labels \in Revisions
    BY Chain
  <2>2. Moves(view, [status_lifecycle_downgrade(view) EXCEPT !.revision = search_labels], search_labels)
    BY <1>1, <1>7, StatusLifecycleDown
  <2>3. LockOf(status_lifecycle) = "table" \/ (view.revision \in 0..5 /\ search_labels \in 0..5)
    BY <1>7, Chain, Locks
  <2>4. Run(status_lifecycle, search_labels, status_lifecycle_downgrade(view))
    BY <1>7, <2>1
  <2> QED BY <1>1, <1>7, <2>1, <2>2, <2>3, <2>4, Locks, RunMoves
<1> QED BY <1>2, <1>3, <1>4, <1>5, <1>6, <1>7 DEF DowngradeStep

LEMMA MovedSound ==
  ASSUME Sound, CommandMoved
  PROVE  Sound' /\ (Searched => Searched')
<1>1. /\ tx # NoTransaction /\ db' = db /\ inserted' = inserted /\ tx' \in Commands
      /\ Good(tx'.view) /\ AsVisible(tx.view, tx'.view)
      /\ Indexed(tx.view) => Indexed(tx'.view)
  BY DEF CommandMoved, Moves
<1>2. AsVisible(db, tx'.view)
  BY <1>1 DEF Sound, CommandKnown, AsVisible
<1>3. ASSUME tx'.locked = "table" PROVE \A c \in Catalogs : inserted[c] = NoRow
  BY <1>1, <1>3 DEF CommandMoved, Sound, CommandKnown
<1>4. ASSUME tx'.locked # "table" PROVE Untouched'
  <2>1. /\ StatusesAt(tx.view.revision) = OldStatuses
        /\ StatusesAt(tx'.view.revision) = OldStatuses
    BY <1>4, Chain DEF CommandMoved
  <2>2. StatusesAt(tx.view.revision) = StatusesAt(db.revision)
    BY <1>1, <1>4 DEF CommandMoved, Sound, CommandKnown, Untouched
  <2>3. db.revision # status_lifecycle
    BY <2>1, <2>2, Chain DEF OldStatuses, Statuses
  <2> QED BY <1>1, <2>1, <2>2, <2>3 DEF Untouched
<1>5. Sound'
  BY <1>1, <1>2, <1>3, <1>4 DEF Sound, InsertsKnown, CommandKnown
<1>6. ASSUME Searched PROVE Searched'
  BY <1>1, <1>6 DEF Searched, InsertsIndexed
<1> QED BY <1>5, <1>6

-----------------------------------------------------------------------------
(* The steps of those who use the database. *)

LEMMA RowsKnown ==
  ASSUME NEW revision, NEW row \in RowsAt(revision)
  PROVE  /\ row \in AnyRow /\ row.status \in StatusesAt(revision)
         /\ row.status \in {"active", "published"} => row.dated
<1>1. StatusesAt(revision) \subseteq OldStatuses \cup Statuses
  BY DEF StatusesAt
<1>2. /\ row \in [status : StatusesAt(revision) \ {"unpublished", "archived"}, dated : BOOLEAN]
      /\ row.dated = (row.status \in {"active", "published"})
  BY DEF RowsAt
<1>3. row.status \in StatusesAt(revision)
  BY <1>2
<1>4. row \in AnyRow
  BY <1>1, <1>2 DEF AnyRow
<1> QED BY <1>2, <1>3, <1>4

\* A row is stored in what is committed and in the view of a command that left its table alone.
\* A row that is stored leaves the reference rows, and the command, where they are.
SameReference ==
    /\ db'.revision = db.revision /\ db'.names = db.names /\ db'.subdivisions = db.subdivisions
    /\ tx' # NoTransaction =>
          /\ tx # NoTransaction /\ tx'.goal = tx.goal /\ tx'.view.revision = tx.view.revision
          /\ tx'.view.names = tx.view.names /\ tx'.view.subdivisions = tx.view.subdivisions

LEMMA CommittedSound ==
  ASSUME Sound, NEW c \in Catalogs, NEW row \in AnyRow, NEW entry \in Entries \cup {NoEntry},
         row.status \in StatusesAt(db.revision),
         row.status \in {"active", "published"} => row.dated,
         tx # NoTransaction => tx.locked # "table",
         Committed(c, row, entry)
  PROVE  /\ SameReference
         /\ Good(db') /\ db' = Storing(db, c, row, entry)
         /\ db'.revision = db.revision /\ db'.names = db.names /\ db'.indexer = db.indexer
         /\ tx = NoTransaction => tx' = NoTransaction
         /\ tx # NoTransaction =>
               /\ tx' \in Commands /\ tx'.view = Storing(tx.view, c, row, entry)
               /\ tx'.locked = tx.locked
               /\ Good(tx'.view) /\ AsVisible(db', tx'.view) /\ Untouched'
<1> DEFINE stored == Storing(db, c, row, entry)
           seen   == Storing(tx.view, c, row, entry)
<1>1. /\ db' = stored
      /\ tx = NoTransaction => tx' = NoTransaction
      /\ tx # NoTransaction => tx' = [tx EXCEPT !.view = seen]
  BY DEF Committed, Storing
<1>2. Good(stored)
  BY StoredGood DEF Sound
<1>3. /\ stored.revision = db.revision /\ stored.names = db.names /\ stored.indexer = db.indexer
      /\ stored.subdivisions = db.subdivisions
  BY StoredFields DEF Sound, Good
<1>4. ASSUME tx # NoTransaction
      PROVE  /\ tx' \in Commands /\ tx'.view = seen /\ tx'.locked = tx.locked
             /\ tx'.goal = tx.goal /\ seen.revision = tx.view.revision
             /\ seen.names = tx.view.names /\ seen.subdivisions = tx.view.subdivisions
             /\ Good(seen) /\ AsVisible(stored, seen) /\ Untouched'
  <2>1. /\ tx \in Commands /\ Good(tx.view) /\ AsVisible(db, tx.view) /\ Untouched
        /\ tx.view \in Databases /\ db \in Databases
    BY <1>4 DEF Sound, CommandKnown, Good
  <2>2. row.status \in StatusesAt(tx.view.revision)
    BY <2>1 DEF Untouched
  <2>3. Good(seen)
    BY <2>1, <2>2, StoredGood
  <2>4. /\ seen \in Databases /\ seen.revision = tx.view.revision
        /\ seen.names = tx.view.names /\ seen.indexer = tx.view.indexer
        /\ seen.subdivisions = tx.view.subdivisions
    BY <2>1, StoredFields
  <2>5. AsVisible(stored, seen)
    BY <2>1, StoredAsVisible
  <2> HIDE DEF stored, seen
  <2>6. tx' \in Commands /\ tx'.view = seen /\ tx'.locked = tx.locked /\ tx'.goal = tx.goal
    BY <1>1, <1>4, <2>1, <2>4 DEF Commands
  <2>7. Untouched'
    BY <1>1, <1>3, <2>1, <2>4, <2>6 DEF Untouched
  <2> QED BY <2>3, <2>4, <2>5, <2>6, <2>7
<1> HIDE DEF stored, seen
<1>5. /\ Good(db')
      /\ db'.revision = db.revision /\ db'.names = db.names /\ db'.indexer = db.indexer
      /\ tx = NoTransaction => tx' = NoTransaction
      /\ tx # NoTransaction =>
            /\ tx' \in Commands /\ tx'.view = seen /\ tx'.locked = tx.locked
            /\ Good(tx'.view) /\ AsVisible(db', tx'.view) /\ Untouched'
  BY <1>1, <1>2, <1>3, <1>4
<1>6. SameReference
  BY <1>1, <1>3, <1>4 DEF SameReference
<1> QED BY <1>1, <1>5, <1>6 DEF stored, seen

LEMMA CommitInsertSound ==
  ASSUME Sound, NEW c \in Catalogs, CommitInsert(c)
  PROVE  Sound' /\ SameReference /\ (Searched => Searched')
<1> DEFINE row   == inserted[c].row
           entry == inserted[c].entry
<1>1. /\ inserted[c] # NoRow /\ Committed(c, row, entry)
      /\ inserted' = [inserted EXCEPT ![c] = NoRow]
  BY DEF CommitInsert
<1>2. /\ inserted \in [Catalogs -> Insertions \cup {NoRow}]
      /\ \A d \in Catalogs : inserted[d] # NoRow => inserted[d].row \in RowsAt(db.revision)
  BY DEF Sound, InsertsKnown
<1>3. entry \in Entries \cup {NoEntry} /\ row \in RowsAt(db.revision)
  BY <1>1, <1>2 DEF Insertions
<1>4. /\ row \in AnyRow /\ row.status \in StatusesAt(db.revision)
      /\ row.status \in {"active", "published"} => row.dated
  BY <1>3, RowsKnown
<1>5. tx # NoTransaction => tx.locked # "table"
  BY <1>1 DEF Sound, CommandKnown
<1>6. /\ inserted' \in [Catalogs -> Insertions \cup {NoRow}]
      /\ \A d \in Catalogs : inserted'[d] = IF d = c THEN NoRow ELSE inserted[d]
  BY <1>1, <1>2
<1> HIDE DEF row, entry
<1>7. /\ SameReference
      /\ Good(db') /\ db' = Storing(db, c, row, entry)
      /\ db'.revision = db.revision /\ db'.names = db.names /\ db'.indexer = db.indexer
      /\ tx = NoTransaction => tx' = NoTransaction
      /\ tx # NoTransaction =>
            /\ tx' \in Commands /\ tx'.view = Storing(tx.view, c, row, entry)
            /\ tx'.locked = tx.locked
            /\ Good(tx'.view) /\ AsVisible(db', tx'.view) /\ Untouched'
  BY <1>1, <1>3, <1>4, <1>5, CommittedSound
<1>8. InsertsKnown'
  BY <1>2, <1>6, <1>7 DEF InsertsKnown
<1>9. CommandKnown'
  BY <1>5, <1>7 DEF CommandKnown
<1>10. ASSUME Searched PROVE Searched'
  <2>1. tx = NoTransaction
    BY <1>1, <1>10 DEF Searched, InsertsIndexed
  <2>2. /\ db.revision < search_schema => entry = NoEntry
        /\ db.revision >= reference_data => entry = Document(db, row)
    BY <1>1, <1>10 DEF Searched, InsertsIndexed, row, entry
  <2>3. Indexed(db')
    <3>1. db \in Databases /\ Indexed(db)
      BY <1>10 DEF Searched, Sound, Good
    <3> QED BY <1>3, <1>4, <1>7, <2>2, <3>1, StoredIndexed
  <2>4. \A any : Document(db', any) = Document(db, any)
    BY <1>7 DEF Document
  <2>5. InsertsIndexed'
    BY <1>6, <1>7, <1>10, <2>1, <2>4 DEF Searched, InsertsIndexed
  <2> QED BY <1>7, <2>1, <2>3, <2>5 DEF Searched
<1> QED BY <1>7, <1>8, <1>9, <1>10 DEF Sound
\* An editor can only move a catalog of the last revision, which a command would have to lock.
LEMMA TransitionSound ==
  ASSUME Sound, NEW c \in Catalogs, Transition(c)
  PROVE  Sound' /\ SameReference /\ (Searched => Searched')
<1>1. PICK to \in Statuses :
         LET row == [status |-> to, dated |-> db.catalogs[c].dated \/ to = "published"]
         IN  Committed(c, row, Document(db, row))
  BY DEF Transition, Targets
<1> DEFINE row   == [status |-> to, dated |-> db.catalogs[c].dated \/ to = "published"]
           entry == Document(db, row)
<1>2. /\ db.revision = status_lifecycle /\ db.catalogs[c] # NoRow /\ inserted' = inserted
      /\ MayWrite(c) /\ Committed(c, row, entry)
  BY <1>1 DEF Transition
<1>3. /\ db \in Databases /\ db.indexer \in Indexers /\ StatusesAt(db.revision) = Statuses
      /\ db.catalogs[c].dated \in BOOLEAN
  <2>1. db \in Databases /\ db.indexer \in Indexers
    BY <1>2, Chain DEF Sound, Good, SearchableAt
  <2>2. db.catalogs[c] \in AnyRow
    BY <1>2, <2>1, Fields
  <2>3. db.catalogs[c].dated \in BOOLEAN
    BY <2>2 DEF AnyRow
  <2> QED BY <1>2, <2>1, <2>3, Chain
<1>4. /\ row \in AnyRow /\ row.status \in StatusesAt(db.revision)
      /\ row.status \in {"active", "published"} => row.dated
  BY <1>3 DEF AnyRow, Statuses
<1> HIDE DEF row
<1>5. entry \in Entries \cup {NoEntry}
  BY <1>3, <1>4, DocumentType
<1> HIDE DEF entry
<1>6. tx # NoTransaction => tx.locked # "table"
  BY <1>2 DEF MayWrite
<1>7. /\ SameReference
      /\ Good(db') /\ db' = Storing(db, c, row, entry)
      /\ db'.revision = db.revision /\ db'.names = db.names /\ db'.indexer = db.indexer
      /\ tx = NoTransaction => tx' = NoTransaction
      /\ tx # NoTransaction =>
            /\ tx' \in Commands /\ tx'.view = Storing(tx.view, c, row, entry)
            /\ tx'.locked = tx.locked
            /\ Good(tx'.view) /\ AsVisible(db', tx'.view) /\ Untouched'
  BY <1>2, <1>4, <1>5, <1>6, CommittedSound
<1>8. InsertsKnown'
  BY <1>2, <1>7 DEF Sound, InsertsKnown
<1>9. CommandKnown'
  BY <1>6, <1>7 DEF CommandKnown
<1>10. ASSUME Searched PROVE Searched'
  <2>1. ~ db.revision < search_schema /\ entry = Document(db, row)
    BY <1>2, Chain DEF entry
  <2>2. Indexed(db')
    BY <1>3, <1>4, <1>5, <1>7, <1>10, <2>1, StoredIndexed DEF Searched
  <2>3. ASSUME tx # NoTransaction PROVE Indexed(tx'.view)
    <3>1. /\ tx.view \in Databases /\ Indexed(tx.view)
          /\ tx.view.revision = status_lifecycle
          /\ tx.view.indexer = db.indexer /\ tx.view.names = db.names
      BY <1>2, <1>6, <1>10, <2>3 DEF Sound, CommandKnown, Searched, Good, Untouched
    <3>2. entry = Document(tx.view, row)
      BY <2>1, <3>1 DEF Document
    <3>3. ~ tx.view.revision < search_schema
      BY <3>1, Chain
    <3> QED BY <1>4, <1>5, <1>7, <2>3, <3>1, <3>2, <3>3, StoredIndexed
  <2>4. \A any : Document(db', any) = Document(db, any)
    BY <1>7 DEF Document
  <2>5. InsertsIndexed'
    BY <1>2, <1>7, <1>10, <2>4 DEF Searched, InsertsIndexed
  <2> QED BY <1>7, <2>2, <2>3, <2>5 DEF Searched
<1> QED BY <1>7, <1>8, <1>9, <1>10 DEF Sound

LEMMA InsertCatalogSound ==
  ASSUME Sound, NEW c \in Catalogs, InsertCatalog(c)
  PROVE  Sound' /\ (Searched /\ ~ ImportsWhileMigrating => Searched')
<1>1. PICK row \in RowsAt(db.revision) :
         inserted' = [inserted EXCEPT ![c] =
             [row   |-> row,
              entry |-> IF db.revision < search_schema THEN NoEntry ELSE Document(db, row)]]
  BY DEF InsertCatalog
<1> DEFINE entry  == IF db.revision < search_schema THEN NoEntry ELSE Document(db, row)
           insert == [row |-> row, entry |-> entry]
<1>2. /\ db' = db /\ tx' = tx /\ MayWrite(c) /\ inserted' = [inserted EXCEPT ![c] = insert]
      /\ ~ ImportsWhileMigrating => tx = NoTransaction
  BY <1>1 DEF InsertCatalog
<1>3. row \in AnyRow
  BY RowsKnown
<1>4. entry \in Entries \cup {NoEntry}
  <2>1. CASE db.revision < search_schema
    BY <2>1
  <2>2. CASE ~ db.revision < search_schema
    <3>1. db \in Databases /\ db.revision \in 0..6
      BY Fields, Chain DEF Sound, Good
    <3>2. db.indexer \in Indexers
      BY <2>2, <3>1, Chain DEF Sound, Good, SearchableAt
    <3> QED BY <1>3, <2>2, <3>1, <3>2, DocumentType
  <2> QED BY <2>1, <2>2
<1>5. /\ db.revision < search_schema => entry = NoEntry
      /\ db.revision >= reference_data => entry = Document(db, row)
  <2>1. db.revision \in 0..6
    BY Fields, Chain DEF Sound, Good
  <2> QED BY <2>1, Chain
<1> HIDE DEF entry
<1>6. insert \in Insertions /\ insert.row = row /\ insert.entry = entry
  BY <1>3, <1>4 DEF Insertions
<1> HIDE DEF insert
<1>7. /\ inserted' \in [Catalogs -> Insertions \cup {NoRow}]
      /\ \A d \in Catalogs : inserted'[d] = IF d = c THEN insert ELSE inserted[d]
  BY <1>2, <1>6 DEF Sound, InsertsKnown
<1>8. InsertsKnown'
  BY <1>2, <1>6, <1>7 DEF Sound, InsertsKnown
<1>9. tx # NoTransaction => tx.locked # "table"
  BY <1>2 DEF MayWrite
<1>10. CommandKnown'
  <2>1. Untouched => Untouched'
    BY <1>2 DEF Untouched
  <2> QED BY <1>2, <1>9, <2>1 DEF Sound, CommandKnown
<1>11. ASSUME Searched, ~ ImportsWhileMigrating PROVE Searched'
  <2>1. tx = NoTransaction
    BY <1>2, <1>11
  <2>2. InsertsIndexed'
    BY <1>2, <1>5, <1>6, <1>7, <1>11, <2>1 DEF Searched, InsertsIndexed
  <2> QED BY <1>2, <1>11, <2>2 DEF Searched
<1> QED BY <1>2, <1>8, <1>10, <1>11 DEF Sound

\* An operator's rows are of no status, and of no search row of the revisions that can have them.
LEMMA AddSound ==
  ASSUME Sound, tx = NoTransaction, tx' = tx, inserted' = inserted,
         db' \in Databases, db'.revision = db.revision, db'.catalogs = db.catalogs,
         db'.index = db.index, db'.indexer = db.indexer,
         db'.names = db.names \/ db.revision = search_schema,
         db'.subdivisions = db.subdivisions \/ db.revision # base
  PROVE  Sound' /\ (Searched => Searched')
<1>1. Good(db')
  BY DEF Sound, Good, Bare, EnumAt, SearchableAt, Dated, Public
<1>2. InsertsKnown' /\ CommandKnown'
  BY DEF Sound, InsertsKnown, CommandKnown
<1>3. ASSUME Searched PROVE Searched'
  <2>1. db.revision >= reference_data => \A row : Document(db', row) = Document(db, row)
    BY Chain DEF Document
  <2>2. Indexed(db')
    BY <1>3, <2>1 DEF Searched, Indexed, IndexedAt
  <2>3. InsertsIndexed'
    BY <1>3, <2>1 DEF Searched, InsertsIndexed
  <2> QED BY <2>2, <2>3 DEF Searched
<1> QED BY <1>1, <1>2, <1>3 DEF Sound

LEMMA AddSubdivisionSound ==
  ASSUME Sound, NEW code \in Codes, AddSubdivision(code)
  PROVE  Sound' /\ (Searched => Searched')
<1> DEFINE subdivisions == [db.subdivisions EXCEPT ![code] = "theirs"]
           new          == [db EXCEPT !.subdivisions = subdivisions]
<1>1. /\ tx = NoTransaction /\ tx' = tx /\ inserted' = inserted /\ db' = new
      /\ db.revision # base
  BY Chain DEF AddSubdivision
<1>2. db \in Databases /\ subdivisions \in [Codes -> {"absent", "ours", "theirs"}]
  BY Fields DEF Sound, Good
<1> HIDE DEF subdivisions
<1>3. /\ new \in Databases /\ new.revision = db.revision /\ new.catalogs = db.catalogs
      /\ new.names = db.names /\ new.index = db.index /\ new.indexer = db.indexer
  BY <1>2, WithSubdivisions
<1> HIDE DEF new
<1> QED BY <1>1, <1>3, AddSound

LEMMA AddNameSound ==
  ASSUME Sound, NEW name \in AllNames, AddName(name)
  PROVE  Sound' /\ (Searched => Searched')
<1> DEFINE names == db.names \cup {name}
           new   == [db EXCEPT !.names = names]
<1>1. /\ tx = NoTransaction /\ tx' = tx /\ inserted' = inserted /\ db' = new
      /\ db.revision = search_schema
  BY DEF AddName
<1>2. db \in Databases /\ names \in SUBSET AllNames
  BY Fields DEF Sound, Good
<1> HIDE DEF names
<1>3. /\ new \in Databases /\ new.revision = db.revision /\ new.catalogs = db.catalogs
      /\ new.index = db.index /\ new.indexer = db.indexer
      /\ new.subdivisions = db.subdivisions
  BY <1>2, WithNames
<1> HIDE DEF new
<1> QED BY <1>1, <1>3, AddSound

-----------------------------------------------------------------------------
(* A command's beginning and its ends. *)

LEMMA BeginSound ==
  ASSUME Sound, NEW goal \in Revisions, BeginMigration(goal)
  PROVE  Sound' /\ (Searched /\ ~ ImportsWhileMigrating => Searched')
<1>1. /\ db' = db /\ inserted' = inserted
      /\ tx' = [view |-> db, goal |-> goal, locked |-> "none"]
      /\ ~ ImportsWhileMigrating => \A c \in Catalogs : inserted[c] = NoRow
  BY DEF BeginMigration
<1>2. db \in Databases
  BY DEF Sound, Good
<1>3. tx' \in Commands /\ tx'.view = db /\ tx'.locked = "none"
  BY <1>1, <1>2 DEF Commands
<1>4. AsVisible(db, db)
  BY DEF AsVisible
<1>5. Untouched'
  BY <1>1, <1>3 DEF Untouched
<1>6. Sound'
  BY <1>1, <1>3, <1>4, <1>5 DEF Sound, InsertsKnown, CommandKnown
<1>7. ASSUME Searched, ~ ImportsWhileMigrating PROVE Searched'
  BY <1>1, <1>3, <1>7 DEF Searched, InsertsIndexed
<1> QED BY <1>6, <1>7

LEMMA CommitSound ==
  ASSUME Sound, CommitMigration
  PROVE  Sound' /\ (Searched => Searched')
<1>1. /\ tx # NoTransaction /\ db' = tx.view /\ tx' = NoTransaction /\ inserted' = inserted
  BY DEF CommitMigration
<1>2. Good(db') /\ CommandKnown'
  BY <1>1 DEF Sound, CommandKnown
<1>3. ASSUME NEW c \in Catalogs, inserted[c] # NoRow
      PROVE  inserted[c].row \in RowsAt(db'.revision)
  <2>1. StatusesAt(db'.revision) = StatusesAt(db.revision)
    BY <1>1, <1>3 DEF Sound, CommandKnown, Untouched
  <2>2. RowsAt(db'.revision) = RowsAt(db.revision)
    BY <2>1 DEF RowsAt
  <2> QED BY <1>3, <2>2 DEF Sound, InsertsKnown
<1>4. InsertsKnown'
  BY <1>1, <1>3 DEF Sound, InsertsKnown
<1>5. ASSUME Searched PROVE Searched'
  <2>1. \A c \in Catalogs : inserted[c] = NoRow
    BY <1>1, <1>5 DEF Searched, InsertsIndexed
  <2> QED BY <1>1, <1>5, <2>1 DEF Searched, InsertsIndexed
<1> QED BY <1>2, <1>4, <1>5 DEF Sound

LEMMA AbortSound ==
  ASSUME Sound, AbortMigration
  PROVE  Sound' /\ (Searched => Searched')
  BY DEF AbortMigration, Sound, InsertsKnown, CommandKnown, Searched, InsertsIndexed

LEMMA IdleSound ==
  ASSUME Sound, UNCHANGED vars
  PROVE  Sound' /\ (Searched => Searched')
<1>1. db' = db /\ tx' = tx /\ inserted' = inserted
  BY DEF vars
<1>2. Untouched => Untouched'
  BY <1>1 DEF Untouched
<1> QED BY <1>1, <1>2 DEF Sound, InsertsKnown, CommandKnown, Searched, InsertsIndexed

LEMMA InitSound ==
  ASSUME Init
  PROVE  Sound /\ Searched
<1>1. db = Empty /\ tx = NoTransaction /\ inserted = [c \in Catalogs |-> NoRow]
  BY DEF Init
<1>2. /\ NoCatalogs \in [Catalogs -> AnyRow \cup {NoRow}]
      /\ NoIndex \in [Catalogs -> Entries \cup {NoEntry}]
      /\ \A c \in Catalogs : NoCatalogs[c] = NoRow /\ NoIndex[c] = NoEntry
  BY DEF NoCatalogs, NoIndex
<1> DEFINE none == [k \in Codes |-> "absent"]
<1>3. none \in [Codes -> {"absent", "ours", "theirs"}] /\ \A k \in Codes : none[k] # "theirs"
  OBVIOUS
<1>4. /\ db = [revision |-> base, catalogs |-> NoCatalogs, subdivisions |-> none,
               names |-> {}, index |-> NoIndex, indexer |-> NoIndexer]
  BY <1>1 DEF Empty
<1> HIDE DEF none
<1>5. /\ db \in Databases /\ db.revision = base /\ db.catalogs = NoCatalogs /\ db.index = NoIndex
      /\ db.subdivisions = none
  BY <1>2, <1>3, <1>4, Chain DEF Databases
<1>6. Good(db)
  BY <1>2, <1>3, <1>5, Chain DEF Good, Bare, EnumAt, SearchableAt, Dated
<1>7. Indexed(db)
  BY <1>2, <1>5, Chain DEF Indexed, IndexedAt
<1>8. InsertsKnown /\ CommandKnown /\ InsertsIndexed
  BY <1>1 DEF InsertsKnown, CommandKnown, InsertsIndexed
<1> QED BY <1>1, <1>6, <1>7, <1>8 DEF Sound, Searched

LEMMA NextSound ==
  ASSUME Sound, [Next]_vars
  PROVE  Sound' /\ (Searched /\ ~ ImportsWhileMigrating => Searched')
<1>1. ASSUME NEW goal \in Revisions, BeginMigration(goal)
      PROVE  Sound' /\ (Searched /\ ~ ImportsWhileMigrating => Searched')
  BY <1>1, BeginSound
<1>2. CASE UpgradeStep
  BY <1>2, UpgradeMoves, MovedSound
<1>3. CASE DowngradeStep
  BY <1>3, DowngradeMoves, MovedSound
<1>4. CASE CommitMigration
  BY <1>4, CommitSound
<1>5. CASE AbortMigration
  BY <1>5, AbortSound
<1>6. ASSUME NEW c \in Catalogs, InsertCatalog(c)
      PROVE  Sound' /\ (Searched /\ ~ ImportsWhileMigrating => Searched')
  BY <1>6, InsertCatalogSound
<1>7. ASSUME NEW c \in Catalogs, CommitInsert(c)
      PROVE  Sound' /\ (Searched => Searched')
  BY <1>7, CommitInsertSound
<1>8. ASSUME NEW c \in Catalogs, Transition(c)
      PROVE  Sound' /\ (Searched => Searched')
  BY <1>8, TransitionSound
<1>9. ASSUME NEW code \in Codes, AddSubdivision(code)
      PROVE  Sound' /\ (Searched => Searched')
  BY <1>9, AddSubdivisionSound
<1>10. ASSUME NEW name \in AllNames, AddName(name)
       PROVE  Sound' /\ (Searched => Searched')
  BY <1>10, AddNameSound
<1>11. CASE UNCHANGED vars
  BY <1>11, IdleSound
<1> QED
  BY <1>1, <1>2, <1>3, <1>4, <1>5, <1>6, <1>7, <1>8, <1>9, <1>10, <1>11 DEF Next

-----------------------------------------------------------------------------
(* What an operator added.  A command goes one way: an upgrade drops no table, so its view has all *)
(* that was committed; a downgrade that has dropped one does not come up again past it.            *)

Spared ==
    tx # NoTransaction =>
        \/ /\ db.revision <= tx.view.revision /\ tx.view.revision <= tx.goal
           /\ KeepsNames(db, tx.view) /\ KeepsCodes(db, tx.view)
        \/ /\ tx.goal <= tx.view.revision /\ tx.view.revision <= db.revision
           /\ tx.goal < db.revision
           /\ tx.view.revision >= search_schema => KeepsNames(db, tx.view)
           /\ tx.view.revision >= initial_schema => KeepsCodes(db, tx.view)

\* The revisions are numbers.
LEMMA Numbers ==
  ASSUME Sound
  PROVE  /\ db.revision \in 0..6
         /\ tx # NoTransaction => tx.view.revision \in 0..6 /\ tx.goal \in 0..6
<1>1. db.revision \in Revisions
  BY Fields DEF Sound, Good
<1>2. ASSUME tx # NoTransaction PROVE tx.view.revision \in Revisions /\ tx.goal \in Revisions
  BY <1>2, Fields DEF Sound, CommandKnown, Good, Commands
<1> QED BY <1>1, <1>2, Chain

LEMMA KeepsOn ==
  ASSUME NEW view, NEW between, NEW new
  PROVE  /\ KeepsNames(view, between) /\ KeepsNames(between, new) => KeepsNames(view, new)
         /\ KeepsCodes(view, between) /\ KeepsCodes(between, new) => KeepsCodes(view, new)
  BY DEF KeepsNames, KeepsCodes

LEMMA UpgradeSpared ==
  ASSUME Sound, Spared, UpgradeStep
  PROVE  Spared'
<1>1. /\ tx # NoTransaction /\ db' = db /\ tx'.goal = tx.goal
      /\ tx'.view.revision = tx.view.revision + 1
      /\ Spares(tx.view, tx'.view, tx'.view.revision)
  BY UpgradeMoves DEF CommandMoved, Moves
<1>2. tx.view.revision \in 0..6 /\ tx.goal \in 0..6 /\ tx.view.revision < tx.goal
  BY Numbers DEF UpgradeStep
<1>3. /\ db.revision <= tx.view.revision
      /\ KeepsNames(db, tx.view) /\ KeepsCodes(db, tx.view)
  BY <1>1, <1>2 DEF Spared
<1>4. KeepsNames(tx.view, tx'.view) /\ KeepsCodes(tx.view, tx'.view)
  <2>1. ~ (tx'.view.revision < tx.view.revision)
    BY <1>1, <1>2
  <2> QED BY <1>1, <2>1 DEF Spares
<1>5. KeepsNames(db, tx'.view) /\ KeepsCodes(db, tx'.view)
  BY <1>3, <1>4, KeepsOn
<1>6. db.revision <= tx'.view.revision /\ tx'.view.revision <= tx.goal
  BY <1>1, <1>2, <1>3, Numbers
<1>7. KeepsNames(db', tx'.view) /\ KeepsCodes(db', tx'.view)
  BY <1>1, <1>5
<1> QED BY <1>1, <1>6, <1>7 DEF Spared

LEMMA DowngradeSpared ==
  ASSUME Sound, Spared, DowngradeStep
  PROVE  Spared'
<1>1. /\ tx # NoTransaction /\ db' = db /\ tx'.goal = tx.goal
      /\ tx'.view.revision = tx.view.revision - 1
      /\ Spares(tx.view, tx'.view, tx'.view.revision)
  BY DowngradeMoves DEF CommandMoved, Moves
<1>2. /\ tx.view.revision \in 0..6 /\ tx.goal \in 0..6 /\ db.revision \in 0..6
      /\ tx.goal < tx.view.revision
  BY Numbers DEF DowngradeStep
<1>3. /\ tx.view.revision <= db.revision
      /\ tx.view.revision >= search_schema => KeepsNames(db, tx.view)
      /\ tx.view.revision >= initial_schema => KeepsCodes(db, tx.view)
  BY <1>1, <1>2 DEF Spared
<1>4. ASSUME tx'.view.revision >= search_schema PROVE KeepsNames(db', tx'.view)
  <2>1. tx.view.revision >= search_schema /\ ~ (tx'.view.revision < search_schema)
    BY <1>1, <1>2, <1>4, Chain
  <2>2. KeepsNames(db, tx.view) /\ KeepsNames(tx.view, tx'.view)
    BY <1>1, <1>3, <2>1 DEF Spares
  <2> QED BY <1>1, <2>2, KeepsOn
<1>5. ASSUME tx'.view.revision >= initial_schema PROVE KeepsCodes(db', tx'.view)
  <2>1. tx.view.revision >= initial_schema /\ ~ (tx'.view.revision < initial_schema)
    BY <1>1, <1>2, <1>5, Chain
  <2>2. KeepsCodes(db, tx.view) /\ KeepsCodes(tx.view, tx'.view)
    BY <1>1, <1>3, <2>1 DEF Spares
  <2> QED BY <1>1, <2>2, KeepsOn
<1>6. /\ tx.goal <= tx'.view.revision /\ tx'.view.revision <= db.revision
      /\ tx.goal < db.revision
  BY <1>1, <1>2, <1>3
<1> QED BY <1>1, <1>4, <1>5, <1>6 DEF Spared

LEMMA BeginSpared ==
  ASSUME Sound, NEW goal \in Revisions, BeginMigration(goal)
  PROVE  Spared'
<1>1. /\ db' = db /\ tx' = [view |-> db, goal |-> goal, locked |-> "none"]
      /\ goal # db.revision
  BY DEF BeginMigration
<1>2. tx'.view = db /\ tx'.goal = goal
  BY <1>1
<1>3. db.revision \in 0..6 /\ goal \in 0..6
  BY Numbers, Chain
<1>4. KeepsNames(db, db) /\ KeepsCodes(db, db)
  BY DEF KeepsNames, KeepsCodes
<1>5. (db.revision <= db.revision) /\ (db.revision <= goal \/ goal < db.revision)
      /\ (goal < db.revision => goal <= db.revision)
  BY <1>3
<1> QED BY <1>1, <1>2, <1>4, <1>5 DEF Spared

LEMMA NextSpared == Sound /\ Spared /\ [Next]_vars => Spared'
<1> SUFFICES ASSUME Sound, Spared, [Next]_vars PROVE Spared'
  OBVIOUS
<1>a. ASSUME db' = db, tx' = tx PROVE Spared'
  BY <1>a DEF Spared, KeepsNames, KeepsCodes
<1>b. ASSUME tx' = NoTransaction PROVE Spared'
  BY <1>b DEF Spared
<1>c. ASSUME SameReference PROVE Spared'
  BY <1>c DEF SameReference, Spared, KeepsNames, KeepsCodes
<1>1. ASSUME NEW goal \in Revisions, BeginMigration(goal) PROVE Spared'
  BY <1>1, BeginSpared
<1>2. CASE UpgradeStep
  BY <1>2, UpgradeSpared
<1>3. CASE DowngradeStep
  BY <1>3, DowngradeSpared
<1>4. CASE CommitMigration \/ AbortMigration
  BY <1>4, <1>b DEF CommitMigration, AbortMigration
<1>5. ASSUME NEW c \in Catalogs, InsertCatalog(c) PROVE Spared'
  BY <1>5, <1>a DEF InsertCatalog
<1>6. ASSUME NEW c \in Catalogs, CommitInsert(c) \/ Transition(c) PROVE Spared'
  BY <1>6, <1>c, CommitInsertSound, TransitionSound
<1>7. ASSUME NEW code \in Codes, AddSubdivision(code) PROVE Spared'
  BY <1>7, <1>b DEF AddSubdivision
<1>8. ASSUME NEW name \in AllNames, AddName(name) PROVE Spared'
  BY <1>8, <1>b DEF AddName
<1>9. CASE UNCHANGED vars
  BY <1>9, <1>a DEF vars
<1> QED BY <1>1, <1>2, <1>3, <1>4, <1>5, <1>6, <1>7, <1>8, <1>9 DEF Next

-----------------------------------------------------------------------------
(* What is proved. *)

LEMMA AlwaysSound == Spec => []Sound
<1>1. Init => Sound
  BY InitSound
<1>2. Sound /\ [Next]_vars => Sound'
  BY NextSound
<1> QED BY <1>1, <1>2, PTL DEF Spec

LEMMA SoundView ==
  ASSUME NEW view, Good(view)
  PROVE  view \in Databases /\ EnumHolds(view)
  BY DEF Good, EnumAt, EnumHolds

\* Every row a revision or a user leaves, committed or in a command's view, has a status of the
\* enum the revision has, whatever commands were run: the casts of a3f19c7d8e42 cannot fail.
THEOREM TypeCorrect == Spec => []TypeOK
<1>1. Sound => TypeOK
  <2> SUFFICES ASSUME Sound PROVE TypeOK
    OBVIOUS
  <2>1. db \in Databases /\ EnumHolds(db)
    BY SoundView DEF Sound
  <2>2. ASSUME tx # NoTransaction
        PROVE  /\ tx.view \in Databases /\ EnumHolds(tx.view)
               /\ tx.goal \in Revisions /\ tx.locked \in {"none", "rows", "table"}
    <3>1. tx \in Commands /\ Good(tx.view)
      BY <2>2 DEF Sound, CommandKnown
    <3>2. tx.goal \in Revisions /\ tx.locked \in {"none", "rows", "table"}
      BY <3>1 DEF Commands
    <3> QED BY <3>1, <3>2, SoundView
  <2> QED BY <2>1, <2>2 DEF TypeOK
<1> QED BY <1>1, AlwaysSound, PTL

\* The check constraint either direction of a3f19c7d8e42 puts back over the rows of the other code
\* holds of them, in the command's view and in what is committed.
THEOREM VisibleRowsAreDated == Spec => []VisibleIsDated
<1>1. Sound => VisibleIsDated
  <2> SUFFICES ASSUME Sound PROVE VisibleIsDated
    OBVIOUS
  <2>1. Dated(db) /\ (tx # NoTransaction => Dated(tx.view))
    BY DEF Sound, CommandKnown, Good
  <2> QED BY <2>1 DEF VisibleIsDated, Dated
<1> QED BY <1>1, AlwaysSound, PTL

\* "Nothing becomes visible or invisible to a reader": a command of any length, up or down,
\* commits no catalog more or less visible than it is, even with imports and editors about.
THEOREM VisibilityIsKept == Spec => MigrationKeepsVisibility
<1>1. Sound => (CommitMigration => \A c \in Catalogs :
         db.catalogs[c] # NoRow /\ db'.catalogs[c] # NoRow => (Public(db', c) <=> Public(db, c)))
  BY DEF Sound, CommandKnown, AsVisible, CommitMigration
<1> QED BY <1>1, AlwaysSound, PTL DEF MigrationKeepsVisibility

\* "No write path can forget it": with no import running during a command, each committed search
\* row is the one the revision's own function would write, from the first rebuild on.
THEOREM SearchStaysOfItsRevision ==
  ASSUME ~ ImportsWhileMigrating
  PROVE  Spec => []SearchFollowsRevision
<1> DEFINE Strong == Sound /\ Searched
<1>1. Init => Strong
  BY InitSound
<1>2. Strong /\ [Next]_vars => Strong'
  BY NextSound
<1>3. Strong => SearchFollowsRevision
  BY DEF Searched, Indexed, IndexedAt, SearchFollowsRevision
<1> HIDE DEF Strong
<1> QED BY <1>1, <1>2, <1>3, PTL DEF Spec

\* "Deleting these rows could destroy data this migration never wrote": a command of any length, up
\* or down, commits every subdivision and every name an operator added before it, unless it goes
\* back past the revision that made their table.
THEOREM OperatorRowsStay == Spec => OperatorRowsSurvive
<1>1. Init => Spared
  BY DEF Init, Spared
<1>2. Spec => []Spared
  BY <1>1, NextSpared, AlwaysSound, PTL DEF Spec
<1>3. ASSUME Sound, Spared, CommitMigration
      PROVE  /\ db'.revision >= search_schema => db.names \cap TheirNames \subseteq db'.names
             /\ db'.revision >= initial_schema => \A code \in Codes :
                   db.subdivisions[code] = "theirs" => db'.subdivisions[code] = "theirs"
  <2>1. db' = tx.view /\ tx # NoTransaction
    BY <1>3 DEF CommitMigration
  <2>2. /\ tx.view.revision >= search_schema => KeepsNames(db, tx.view)
        /\ tx.view.revision >= initial_schema => KeepsCodes(db, tx.view)
    BY <1>3, <2>1 DEF Spared
  <2> QED BY <2>1, <2>2 DEF KeepsNames, KeepsCodes
<1> QED BY <1>2, <1>3, AlwaysSound, PTL DEF OperatorRowsSurvive
================================================================================

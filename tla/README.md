# A TLA+ model of the catalog registry

The registry stores OPDS catalogs in PostgreSQL, lists them in a feed and a search, and lets a back
office move them through a lifecycle. This directory holds its specification: modules that model
the parts where concurrency, failure and long sequences of legal steps decide whether the data stay
right, TLC configurations that check them on small instances, and TLAPS proofs of what matters most.

Paths below are relative to `src/registry/` of the repository unless they start with `migrations/`.

## 1. The system

| Component | State it keeps | Operations | Who it talks to |
|---|---|---|---|
| Lifecycle and roles (`domain/lifecycle.py`, `domain/permissions.py`) | none, tables | `TRANSITIONS`, `STATUS_ACTIONS`, `UNDO_ACTIONS`, `build_allowed_actions`, `build_permissions` | the admin services |
| Admin API, one catalog (`api/routes/admin.py`, `services/admin_service.py`, `repositories/admin_repository.py`) | `catalogs.status, version, recommended, published_at` | page, transition, recommendation | main engine for writes, read pool for the answer |
| Actors (`repositories/actor_repository.py`, `cli/actor.py`) | `actors` | login (find or create), `actor set` | every admin request |
| Imports (`cli/seed.py`, `cli/add.py`) | `catalogs`, `links`, child tables | check a feed, look each document up, insert or replace, one commit | the same rows as the editors |
| Search index (`migrations/.../847ef861dbdb`, `a3f19c7d8e42`) | `catalog_search` | triggers that rebuild a catalog's row | fires inside editors' and imports' transactions |
| Schema and data migrations (`migrations/`) | `alembic_version`, every table | six revisions up and down, one transaction per command | the rows and the triggers of everything above |
| Public search (`domain/search_query.py`, `repositories/search_repository.py`, `services/search_service.py`) | none | parse, one statement, page | search pool |
| Public feed and catalog page (`services/feed_service.py`, `domain/language.py`, `domain/restrictions.py`, `rendering/`) | none | negotiate, order, project | catalog read pool |
| Read pools (`db/session.py`, `repositories/catalog_rows.py`, `main.py`) | pooled connections | run one statement, retry once | every read |
| Admin lists, statistics, countries (`repositories/admin_repository.py`, `services/admin_service.py`) | none | filter, count, page | catalog read pool |
| Admin identity (`services/admin_identity.py`, `api/admin_dependencies.py`, `core/config.py`) | cached signing keys, `failed_at` | verify key and token | the issuer's key endpoint |
| Refusal log (`api/admin_log.py`) | `_recent` | count and log refusals | error handlers |
| Middlewares and error handlers (`api/middleware.py`, `api/compression.py`, `api/exception_handlers.py`) | one request's scope and buffer | headers, CORS, coding, log lines, problems | every response |
| Development console, scripts, configuration | | | |

What is hard here:

* **Editors against editors.** Each request is at least three transactions: the login, the write, and
  the read its answer is built from. Between reading a page and locking the row, and between the
  commit and the answer, others act. The role was read in the first transaction and is used in the
  second. An answer may be lost after the commit.
* **Imports against editors.** An import reads a row without a lock, decides, and writes later; it
  does not touch `version`. It holds its locks for a whole feed.
* **Imports against imports.** Opposite orders deadlock; the same new catalog is inserted twice; child
  rows are deleted before the catalog is locked.
* **Years of seeds.** What row a document is depends on hrefs and identifiers that change from one run
  to the next; each run is legal by itself.
* **Triggers.** The search row is rebuilt inside transactions that do not see each other.
* **Revisions.** A command of Alembic may run any number of revisions in one transaction, up after down
  after up, over rows that editors and operators changed at every revision in between.
* **Dead connections.** A pooled connection looks alive until it is used; the one retry may meet
  another dead one, a full pool or a database that is away.
* **Shared waiting.** All admin requests share one key client with one lock, one cached key set and one
  memory of the last failure, and the key server fails, stalls and rotates its keys meanwhile.
* **Layers.** An answer may come from the route, from one of four error handlers, from a middleware that
  never calls the app, or from outside all of them; each path must set headers and log by itself.
* **Two statements of one rule.** Restrictions are written in Python and in SQL, counts in one statement
  and lists in another, pages are cut from a ranking computed again for every page.
* **Time.** `now()` is when a transaction began, not when it got the row.

What makes each part correct:

* admin writes: no lost update; a version names one state; a refusal is true; the undo leads back;
  buttons and lifecycle agree; only granted people write; dates are in order; every request ends;
* imports: documents are stored and not overwritten, one catalog is one row, a re-run changes
  nothing, the editors' columns are left alone, every import ends;
* search index: the committed search row is the one the committed catalog calls for, at every revision;
* migrations: nothing becomes visible or invisible, a command can always be run, operators' rows stay;
* public reads: the feed is in the client's order, both forms of a restriction agree, pages add up, a
  dead connection costs a retry and never the answer;
* admin lists: what is counted is what is listed;
* identity: only proven callers get in, an outage ends with its window and is not told as a bad token;
* refusal log: counts are true, no refusal is kept quiet for longer than a window;
* responses: only codings the client takes, the headers and the log lines every path owes.

## 2. The modules

| Module | Models | Extends / composes |
|---|---|---|
| `Lifecycle` | the lifecycle and role tables | |
| `OptimisticCatalog` | what an editor is promised: an atomic compare-and-set from the row the tab shows | `Lifecycle` |
| `AdminWrites` | the admin API's requests, step by step, with the actors | `Lifecycle`; implements `OptimisticCatalog` |
| `CatalogWrites` | editors and imports on the same rows | `AdminWrites` |
| `SeedImport` | which row a document is, over any number of seed runs | |
| `SearchIndex` | one catalog's search row under editors, imports and hand-written SQL | `Lifecycle` |
| `Migrations` | the six revisions, up and down, over a database in use | `Lifecycle` |
| `Registry` | the stored catalogs as reads see them | `Lifecycle` |
| `Ordering` | ORDER BY, stable sort and filter of lists, by what they promise | |
| `Languages` | Accept-Language: parsing, matching, ranking | `Ordering` |
| `PublicReads` | feed, search and catalog page as functions of the rows | `Registry`, `Languages` |
| `AdminLists` | admin lists, statistics, countries, filter options as functions of the rows | `PublicReads` |
| `ReadService` | requests on two pools, with faults and editors | `AdminLists` |
| `AdminFront` | who is let into `/admin`: configuration, service key, token, signing keys | |
| `RefusalLog` | the table of refusals already logged | |
| `Responses` | one request through the ASGI stack: coding, headers, log lines | |
| `WritesProofs` | the theorems about `AdminWrites` and `CatalogWrites` | `CatalogWrites` |
| `SeedImportProofs`, `SearchIndexProofs`, `MigrationsProofs`, `ReadServiceProofs`, `AdminFrontProofs`, `RefusalLogProofs`, `ResponsesProofs` | the theorems about the module of that name; those of `PublicReads` and `AdminLists` are in `ReadServiceProofs` | each its module |
| `MC...` | small instances for TLC | each its module |

### How the state corresponds

`AdminWrites`. `row[c]` is the committed `catalogs` row cut down to the four columns editors write;
`NoRow` is a missing one. `lock[c]` is the holder of its row lock. `actors[p]` is the `actors` row of
an email. A *session* is a browser tab: `pc[s]` is where its request is, `page[s]` the catalog as the
API last described it to that tab, `role[s]` what its login returned, `began[s]` the `now()` of its
write transaction, `work[s]` the row as that transaction read or wrote it, `undo[s]` the
`undo_action` of its answer. `clock` ticks once per committed change. `downAt` and `granted` are
history only.

| Action | Code |
|---|---|
| `SendView`, `SendWrite` | the requests of `api/routes/admin.py`; the version sent is the page's |
| `Authenticate` | `authenticate_admin_actor`, `require_permission("catalog.view")` |
| `ReadDetail` | `resolve_admin_catalog_detail` |
| `RequireCatalogPermission` | `_require_catalog_permission`, and the start of the write transaction |
| `LockCatalog` | `_LOCK_CATALOG` |
| `Refuse` | the raises of `_lock_seen_catalog` and of both services |
| `PersistStatus`, `PersistRecommended` | `_SET_STATUS`, `_SET_RECOMMENDED` |
| `Commit`, `Respond` | `commit_admin_write`, and the second read of the route |
| `LoseResponse`, `Abort` | a failure after, and before, the commit |
| `SetActor` | `persist_actor` |

PostgreSQL is modelled at READ COMMITTED: `LockCatalog` waits and then reads the latest commit, the
UPDATE applies to the row as it is, a transaction's writes appear at `Commit`. The refusal of a
missing row and of the permission come before anything is locked, in the code's order.

`CatalogWrites` adds the imports: `ipc[i]`, `position[i]` (the document), `started[i]`, `loaded[i]`
(what the lookup returned), `pending[i]` (what the transaction has written). `LookUp` is a plain
SELECT; `Flush` is the ORM's UPDATE of the columns that differ, which waits for the row and keeps it.
For a catalog with subdivisions the row lock is already taken by the search trigger of the DELETE;
that only shortens the unlocked stretch `LookUp`–`Flush` and is modelled in `SearchIndex`.

`SeedImport` keeps `stored` (committed rows, id to content), `staged` (the transaction's view) and
`unflushed` (the object the session has not written yet). `ImportDocument` is
`import_catalog_document`: autoflush, both lookups, then an insert or a replacement whose links are
deleted at once and written at the next flush. `FlushFails` is the two unique constraints a flush may
break. A catalog's content is its title and its set of `<<rel, href>>`. The other metadata and the
checks that only refuse a file before anything is read (schema, ISO codes, known subdivisions) are
left out.

`SearchIndex` takes one catalog and a handful of one-shot transactions. It is the one module that
goes below the statement: a DELETE sees its rows, then waits for those another transaction is
deleting (`SeeSubdivisions`, `DeleteSubdivisions`), and a trigger waits for the row before its
function reads (`Refresh`). The document is abstracted to a title and a set of subdivisions: words,
weights and folding do not matter to freshness.

`Migrations`. `db` is the committed database cut down to the revision, the catalogs' status and whether
they are dated, the reference rows, the search rows and the function that writes them; `tx` is one
`alembic` command with its own view of it. `UpgradeStep` and `DowngradeStep` run one revision (the six
`..._upgrade` and `..._downgrade` operators), `CommitMigration` and `AbortMigration` end the command
(`migrations/env.py`: one transaction for all revisions). `LockOf` says which locks a revision takes:
DDL on a table waits for its writers, a rebuild locks rows. Between commands, and where no lock forbids
it, the database is in use: `InsertCatalog`/`CommitInsert`, `Transition`, `AddSubdivision`, `AddName`.
Reference rows stand in two classes, those the revision inserts and those an operator added.

`ReadService`. `pc[r]`, `asked[r]`, `page[r]` and `attempt[r]` are a reader's request; `idle[p]` counts a
pool's waiting connections, alive and dead; `held[r]` is the connection a request has checked out.
`Checkout`, `Execute`, `TimeOut`, `Disconnect` are `fetch_rows`; `FailToConnect` and `WaitInVain` the two
ways a pool gives no connection; `DropIdle`, `DropAll`, `ComeBack`, `Recycle` the network, the database
and `pool_recycle`. The dead connection that a statement meets invalidates the pool's others, as
SQLAlchemy does. What a statement returns is a function of the committed rows: the operators of
`PublicReads` and `AdminLists`, named after the functions they model. Words, similarity and titles are
numbers and sets: only their order matters to pages. `shown`, `steady` and `trouble` are history. `OrderBy`
is SQL's ORDER BY over keys that are never alike (each ends in the row's id): a row's place is the number
of rows before it. `SortedBy`, Python's stable sort, orders the places of a list by key and then place, and
`Kept` is a list comprehension with a condition. `Hits` and `SearchKey` are the FROM and the ORDER BY of `_SEARCH_SQL`.

`Languages`. A tag is the sequence of its subtags; a quality is in thousandths, or `nan`, which Python's
`float` reads. `parse_accept_language`, `rank_language_match` and `match_depth` are the code's;
`Sortings` are the orders the list sort may give. Without a `nan` that is the stable one; a `nan` is neither
less nor greater than anything, what comes out depends on which elements CPython happens to compare, and
every order is allowed. So `parse_accept_language`, `resolve_top_level_feed` and `Served` are sets, of which
`Execute` takes a member.

`AdminFront`. `settings` are those `Settings` lets start, `issuer` its key server, `client` the
`PyJWKClient` (cached keys, who holds its lock, since when), `failed_at` the resolver's memory, `req[r]`
a request's stage between two awaits. `Check` is everything before the key search; `FindCached`,
`BeginFetch`, `EndFetch` run in the thread; `Resume` is the rest, back on the event loop. Time is in
ticks: `Tick` happens only when no code is ready to run.

`RefusalLog`. `recent` is `_recent`; `Skip` and `Log` are the two paths of `log_admin_refusal`; `untold`
and `quiet` are history, against which the table is compared.

`Responses`. `stage` is the layer a request has reached, `message` what the app sends, `sent` what leaves
the stack with the headers each layer adds, `lines` what was logged. Each layer's paths are actions:
`AnswerPreflight`, `RefuseCoding`, the four handlers, `RespondHead`, `Respond`. A body is its size, small
or large around `MINIMUM_SIZE`; a q-value is a member of the eight ways to write one.

## 3. What the runs check

Passing runs, one for each question:

| Run | Config | Instance | Shows |
|---|---|---|---|
| `admin_edits` | `AdminEdits` | 1 catalog, 2 tabs of 2 people, roles granted: editor, versions below 3 writable | type, `NoLostUpdate`, `VersionNamesState`, `AnswersAreTrue`, `OfferedIsAccepted`, `UndoReverses`, `LiveDateFollowsTakedown`, `OnlyGrantedWrite`, and that the requests implement `OptimisticCatalog` |
| `imports` | `Imports` | 1 tab, 2 imports of the same catalog, one with `--no-recommended`, fairness | `WritesTypeOK`, `PublishedIsDated`, `ImportSparesEditors`, and that `RequestsAreAnswered` and `RevocationTakesEffect` with imports about |
| `import_deadlock` | `ImportDeadlock` | 2 catalogs, 2 imports in opposite orders, fairness | `ImportsEnd` |
| `seed` | `Seed` | two worlds of documents: 5 documents of 3 catalogs that keep their hrefs, files up to 3; 6 documents whose hrefs move between catalogs and rels, files up to 2, where feeds do fail | `DocumentsAreStored`, `OneRowPerCatalog`, `CheckedFeedIsTaken`, `LookupIsUnambiguous`, `ReseedChangesNothing` |
| `search_freshness` | `SearchFreshness` | 1 editor, 2 imports, 1 hand-written insert, 2 subdivisions | `SearchIsFresh` |
| `schema_moves` | `SchemaMoves` | 2 catalogs, one subdivision of each origin, a name of each origin, commands between any two of the seven revisions | type, `VisibleIsDated`, `SearchFollowsRevision`, `MigrationKeepsVisibility`, `OperatorRowsSurvive` |
| `public_reads` | `PublicReads` | 4 catalogs, 2 readers, pools of 2 and 1, 2 faults, 1 edit | `ReadFailsForAReason`, `SearchPagesAddUp`; and, of the rows an edit leads to, `FeedFollowsPreference`, `RestrictionsAgree`, `CountsMatchLists` (lists cut into pages of 1 to 3) |
| `admin_front` | `AdminFront` | 3 requests, 2 keys and a stray one, 6 kinds of caller, every configuration the validator accepts | `OnlyProvenCallers`, `OutageEnds` |
| `refusal_log` | `RefusalLog` | 4 kinds of refusal, a table of 3, a window of 3 ticks | type and bound, `CountsAreTrue`, `NoRefusalStaysQuiet` |
| `responses` | `Responses` | every site, method and origin, Accept-Encoding of up to two parts and those of the console's clients | `CodingIsTaken`, `LinesTellTheAnswer`, `AnswersCarryHeaders` |

Runs that TLC must find violated, each a disagreement between the code and what it says of itself:

| Run | Claim | What happens |
|---|---|---|
| `import_over_editor` | "It does not undo an editor" (`cli/seed.py:341`) | a row read as draft is published and taken down by an editor, then published by the import |
| `seed_shared_shelf` | "Both keys the upsert can match on are checked" (`cli/seed.py:366`) | one document's shelf is another's catalog link; the second overwrites the first |

Seven more configurations show, each in a trace of its own, what else was met while modelling. They are
run by hand (`tlc -config X.cfg MCModule`) and are expected to be violated:

| Config (module) | Claim | What happens |
|---|---|---|
| `AdminUndo` (`MCAdminWrites`) | "What reverses this change in one step, or null" (`schemas/admin.py:217`) | the catalog in the answer is read after the commit (`api/routes/admin.py:212`); another editor has acted, and the undo beside it does not apply to it or leads elsewhere |
| `ImportVersions` (`MCCatalogWrites`) | the version is there "so an editor can detect that a catalog changed under them" (`migrations/.../a3f19c7d8e42:22`) | an import changes the row and not the version (`cli/seed.py:336`) |
| `SearchWholeTruth` (`MCSearchIndex`) | "the source document is the whole truth for this catalog" (`cli/seed.py:319`) | two imports of one catalog at once leave subdivisions of both (`:328`) |
| `SchemaDuringImport` (`MCMigrations`) | "so search is never stale and no write path … can forget it" (`migrations/.../847ef861dbdb:213`) | a row inserted before a rebuild and committed after it was indexed with the old function and names, and stays so: neither revision that rebuilds takes a table lock |
| `KeyOutage` (`MCAdminFront`) | "every request would otherwise wait out its own 5 s timeout, one after another" (`services/admin_identity.py:46`) | requests already waiting for the client's lock when the first fetch fails do exactly that: `failed_at` is looked at only before the wait |
| `RefusalCounts` (`MCRefusalLog`) | "with a count of the ones skipped since the last line" (`api/admin_log.py:10`) | emptying the full table loses the counts (`:79`) |
| `RejectedIsServed` (`MCReadService`) | a `q=0` range is kept, or "a client that explicitly rejected French would be served it" (`domain/language.py:82`) | `*, fr;q=0` is served French: the wildcard meets it (`:178`) |

Smaller disagreements, none of which needs a run: a client that takes gzip and refuses identity is past
the 406, and a body below `MINIMUM_SIZE` is then sent as identity (`api/compression.py:192` against
`:236`; `NothingRefusedIsSent` states the claim). A request of an unknown actor answered 406 has neither
an admin line nor a refusal (`api/admin_log.py:50`; `RefusalsAreLogged`). `restrictions.py:9` says the
SQL repeats its rules, but `str.strip` takes every white space and SQL's `trim` only spaces:
`RestrictionsAgree` excepts that case. The host the admin list searches is any of a catalog's links
(`LIMIT 1` without an order), the host it shows the first in order; `CountsMatchLists` holds for every
choice. A `nan` quality leaves the order to the sort: `FeedFollowsPreference` then says what is in the feed,
for every order. `MAX_RESULTS` must be a multiple of `PAGE_SIZE`
(`PagesAssumption`), or the last page shows more than the total says. A second page is cut from a new
ranking: `SearchPagesAddUp` promises that pages fit only while no catalog moves.

### Bounds, and why they are enough

* `MaxVersion`: no write is *sent* from a page at that version. It bounds `clock` too. Three lets one
  tab publish, unpublish or archive while the other holds each of the earlier pages, which is every
  pattern of stale page, refusal and retry; four (in `AdminUndo` and `ImportOverEditor`) leaves room
  for the step after publish–takedown–publish that their traces need. `Imports` has two, to be small
  enough for liveness: an import publishes without moving the version, so the editor's one write falls
  before, between and after each read and write of both imports.
* One catalog for the concurrent modules: an editor's request touches one row, so two rows do not
  interact except through locks, which `ImportDeadlock` gives its own instance.
* Two tabs: the properties relate a request to the one that came between its read and its write. A
  third tab is covered by the proofs.
* `MaxFeed` and the worlds of documents: three documents are needed for a flush to hit a row written two
  documents before. Runs of `seed` are unbounded in number. The two collections are not mixed in one
  history; each has what the other's properties except.
* `SearchIndex`'s transactions run once; each kind of writer is present, imports twice.
* `Migrations`: two catalogs so that a command meets rows of different age and status; the reference
  rows only differ by who wrote them, one of each is enough. Commands are unbounded in number.
  `SchemaMoves` lets no import run during a command (`ImportsWhileMigrating = FALSE`), as in the
  order of `docs/development.md` (migrate, then seed); `SchemaDuringImport` does.
* `ReadService`: two readers on a pool of two can hold both connections when a fault strikes, on a pool
  of one they wait for each other; two faults are what it takes to fail a retry. `PAGE_SIZE` 1 and
  `MAX_RESULTS` 2 over four catalogs give a first, a last and a cut-off page. The headers are all those
  of up to two elements over six tags and five qualities, and those of three over a smaller set; the
  properties of the statements are evaluated in the states before a first request, since a statement's
  result depends on the rows alone and an edit leads to every other set of rows.
* `AdminFront`: two requests can wait while a third fetches; a timeout of two ticks and a window of three
  let a server fail, come back and fail again within a window, and a fetch begin before the server is
  back and fail after. Two keys are one rotation.
* `RefusalLog`: one kind more than the table holds empties it. `MaxUntold` bounds counting only.
* `Responses`: one request at a time, since requests share nothing there. Two parts are enough for a
  repeated name and for every order of two codings; `HeadersOnEveryAnswer` needs no bound.
* `CHECK_DEADLOCK FALSE` is used for `SearchIndex` only, where all transactions end.

Symmetry is used where nothing tells the members of a set apart and no liveness is checked: the places
for requests in `AdminFront`, the kinds of refusal in `RefusalLog`.

### Fairness

A handler that has started runs to its end: weak fairness of `Serve(s)` (and of `RunImport(i)`), the
server's own steps only. `SendView`, `SendWrite`, `SetActor`, `Abort`, `LoseResponse`, `BeginImport`
and `CrashImport` are the environment's and are never assumed. A row lock is granted in turn, since
PostgreSQL queues its waiters: strong fairness of `LockCatalog(s)` and of `Flush(i)`.
`BreakDeadlock` is among the steps of an import because PostgreSQL looks for a circle after
`deadlock_timeout`. `ReadService` and `AdminFront` assume none: that an outage ends is said by
`OutageEnds` as a bound in ticks, which is stronger than "eventually".

## 4. What is proved

All theorems hold for any values of the constants that satisfy the named assumptions of their module,
which TLC evaluates in every run.

| Module | Theorem | Statement |
|---|---|---|
| `WritesProofs` | `TypeCorrect` | `Spec => []TypeOK` |
| | `VersionsNameStates` | `Spec => []VersionNamesState` |
| | `NoUpdateIsLost` | `Spec => []NoLostUpdate` |
| | `RefusalsAreTrue` | `Spec => []AnswersAreTrue` |
| | `OffersAreAccepted` | `Spec => []OfferedIsAccepted` |
| | `UndoIsExact` | `Spec => []UndoReverses` |
| | `OnlyGrantedPeopleWrite` | `Spec => []OnlyGrantedWrite` |
| | `LiveDates` | `Spec => []LiveDateFollowsTakedown` |
| | `CompareAndSet` | `Spec => ImplementsOptimisticCatalog` |
| | `WritesAreTyped` | `WritesSpec => []WritesTypeOK` |
| | `PublishedRowsAreDated` | `WritesSpec => []PublishedIsDated` |
| | `ImportsSpareEditors` | `WritesSpec => ImportSparesEditors` |
| `SearchIndexProofs` | `TypeCorrect`, `SearchStaysFresh` | `Spec => []TypeOK`, `Spec => []SearchIsFresh` |
| `SeedImportProofs` | `TypeCorrect`, `OneCatalogPerHref` | `Spec => []TypeOK`, `Spec => []LookupIsUnambiguous` |
| | `EveryDocumentStays`, `CatalogsStayOneRow` | `Spec => []DocumentsAreStored`, `Spec => []OneRowPerCatalog` |
| | `CheckedFeedsAreTaken`, `ReseedIsIdempotent` | `Spec => []CheckedFeedIsTaken`, `Spec => ReseedChangesNothing` |
| `AdminFrontProofs` | `TypeCorrect`, `OnlyProvenAreAdmitted` | `Spec => []TypeOK`, `Spec => []OnlyProvenCallers` |
| | `OutagesEnd` | `Spec => []OutageEnds` |
| `RefusalLogProofs` | `TypeCorrect`, `CountsNeverLie`, `NoKindStaysQuiet` | `Spec => []TypeOK`, `[]CountsAreTrue`, `[]NoRefusalStaysQuiet` |
| `ResponsesProofs` | `HeadersOnEveryAnswer` | `Spec => []AnswersCarryHeaders` |
| | `CodingFollowsHeader`, `LinesFollowAnswer` | `Spec => []CodingIsTaken`, `Spec => []LinesTellTheAnswer` |
| `MigrationsProofs` | `TypeCorrect`, `VisibleRowsAreDated` | `Spec => []TypeOK`, `Spec => []VisibleIsDated` |
| | `VisibilityIsKept`, `OperatorRowsStay` | `Spec => MigrationKeepsVisibility`, `Spec => OperatorRowsSurvive` |
| | `SearchStaysOfItsRevision` | `~ ImportsWhileMigrating` entails `Spec => []SearchFollowsRevision` |
| `ReadServiceProofs` | `FailuresHaveReasons` | `Spec => []ReadFailsForAReason` |
| | `PagesAddUp` | `Spec => []SearchPagesAddUp` |
| | `RestrictionsAreOne`, `CountsAreLists` | `Spec => []RestrictionsAgree`, `Spec => []CountsMatchLists` |
| | `FeedIsByPreference` | `Spec => []FeedFollowsPreference` |

**AdminWrites.** Assumptions: `SessionsAssumption` (each tab has a person, and no tab is called `Nobody`)
and `BoundsAssumption`. None of the safety properties is inductive by itself. The argument goes in layers,
each proved from the ones before it:

1. *Locking* (`RowLocked`, `RequestShape`): a transaction between its SELECT … FOR UPDATE and its end
   holds the row, and what it read is still the row. Without this nothing can be said at `Commit`.
2. *Versioning* (`VersionNamesState`, `NoLostUpdate`, `WorkFollowsRow`): pages and pending writes never
   run ahead of the row, and equal versions mean equal rows. `NoLostUpdate` needs it because the code
   compares versions, not rows; `VersionNamesState` needs `WorkFollowsRow` because `Commit` installs
   `work`.
3. *Grants*, *offers* and *buttons*: `actors` and `granted` agree, so a role that may write was granted;
   an undo in hand fits the work it belongs to; a button is shown exactly for the actions the lifecycle
   has a target for (`ButtonsFollowLifecycle`, a fact about the two tables of `lifecycle.py`).
4. *Dating* (`DatesArePast`): a transaction that can still succeed began after the last takedown of
   its catalog. This is where the version check earns its keep for time as well: `now()` may be old,
   but a takedown after it would have moved the version.
5. The refinement: `at`, `row` and `page` are the abstract state itself; `Commit` maps to `Edit` or
   to a stutter, `SendView` to `Open`, `ReadDetail` and `Respond` to `Look`, everything else to a
   stutter.

**CatalogWrites.** Adds `ImportsAssumption` (imports are no tabs; a feed names a catalog at most once,
which the uniqueness check of `seed_catalogs` sees to). Three invariants: *Holding* (`WritesTypeOK`,
`RowLocked`, and for both kinds of transaction that what it has written it holds), *Dating*
(`PublishedIsDated` and `DatesStay`: a date once set is never taken away, by the row or by anybody who has
read or written it; without it an UPDATE computed from an old read could undate the row), and
`WrittenOverRow` (what an import has written differs from the row it will replace in no column the editors
own). `RowsChangeUnderLock` ties them: a row changes only by the commit of whoever holds it.

**SearchIndex.** Assumes the three kinds of transaction are distinct and that `Keep` is no value.
`SearchIsFresh` becomes inductive with `Ready(t)`: a transaction that may commit holds the row, and the
entry it would leave is the document of what it would leave (`Coherent`). That holds because nobody else
can commit in between, and because each trigger waits for the row *before* its function reads.

**SeedImport.** Assumes every document has a catalog or shelf link (the schema's rule). `HrefsApart` says
no two rows share an identifying href, of the committed rows and of the transaction's view; a flush that
breaks no constraint keeps it (`FlushKeepsHrefs`), and a commit makes the one the other. The other four
hold of well-named files, and have one invariant, `Followed`: a catalog is told by its title, so every row
that holds one has the id its documents resolve to (`AllNamed`, `StagedNamed`; the one exception is the
row the session is about to rewrite, `PendingNamed`); what a document is looked up as is then that row or
none, no flush meets another catalog's href, and no later document of a checked file writes over an
earlier one (`RunFollowed`, `HistoryKept`). That a re-run changes nothing is the clause `feed = previous
=> Flushed = stored`: each document of the last file is found as itself.

**AdminFront.** Assumes the sets are disjoint where the code's values are. `RequestsAreSound` says what
each stage has already passed: a request in the key search showed a service key and holds a token, under a
configuration with an issuer; one whose key was found has a key the issuer did publish. `OutageEnds` is a
bound over several requests' fetches. `OutagesAreTimed` relates the ages to each other: a fetch that has
been waiting began before the server was back, so that a failure is found within a timeout of its return,
is remembered for the window from then on, and is told at once to the request that found it.
`KeysAreKnown` says a key that signed a token is published or withdrawn, so that a fetch that does not
find it came after its withdrawal.

**RefusalLog.** No strengthening but the type: counts and ages move together with their history.

**Responses.** `AppAnswers`: what the app hands to the middlewares carries no header but those its handler
sets; so what leaves is what the middlewares add, on every path (`SentHeaders`). For the coding, headers
of any length: what the code's dictionary holds of a name is the weight of the last readable part that
names it (`ParsedAsNamed`); that a non-empty set of parts has a last one is the least-number principle.
`CodingSettled` then says that past the 406 something can be sent. For the lines, `LinesSoFar` and
`ActorKnown`: before the answer at most the one refusal is there, of a request whose actor is not known,
and who is asking is known exactly where a back-office route is at work.

**Migrations.** Assumes `NoRow` is no row and that no name is both ours and an operator's. Each of the
twelve revision runs is a lemma about one view of the database (`Moves`): from a view whose rows fit their
revision (`Good`), it leaves one that fits the next, with every row as visible as it was, and with an
index that fits if the old one did. The invariant `Sound` then ties the command's view to what is
committed: it shows every row as visible (`AsVisible`), which composes over the runs of one command; and
while the command has not locked `catalogs`, it still has the enum it found and, at the last revision, the
function and the names (`Untouched`). That is what makes a row committed by an import or an editor fit
both. `Searched` adds the index, and holds only without an import that spans a command:
`SchemaDuringImport` shows why. `Spared` is for the operators' rows: a command goes one way, so the view
of an upgrade has all that was committed, and one of a downgrade that has dropped a table never comes up
again past it.

**ReadService.** Assumes what the routes check before they ask anything (`ReadServiceAssumption`: a page
in `1..MAX_PAGE`, a sort among the four) and that the data are what their columns hold (`PagesAssumption`,
`AdminListsAssumption`: dates, titles and similarities that can be compared, kinds of the enum, a finite
document). `PagesAssumption` also says that `MAX_RESULTS` is a multiple of `PAGE_SIZE`, as in
`domain/search_query.py`.

1. *A retry is enough.* `ReadFailsForAReason` is inductive with `RetryIsClean`: while nothing has happened
   since it began, a request on its second attempt has no dead connection in its hands, none waits in its
   pool, and those others hold will not come back to it. That is what the invalidation of the whole pool on
   the first dead connection gives.
2. *Pages.* That `OrderBy` lists each row once is a fact about finite sets of lists that differ
   (`KeysDiffer`, `KeysChain`, `Ordered`): the number of rows before a row is an injection into
   `0..Cardinality - 1`, hence onto. `Hits`, hence the ranking, holds no catalog with an excluded word
   (`HitsAreClean`). `PagesSoFar` then says where a reader stands: what it was shown is
   `Through(listed, first, number)`, which one more page extends (`PagesAdd`), and `next` is given exactly
   while something of the bounded list is left. It needs the multiple: the last page of the cap would
   otherwise run over it.
3. *Counts.* Each number and the list it leads to have the same set of catalogs behind them, two
   predicates of the code at a time (`CountryCounts`, `StatisticsCount`, `OptionsCount`); a page is a slice
   of an ORDER BY, and a place in the list is in one slice (`PlacedOnce`, `ListsHoldEach`).
4. *Restrictions.* The Python and the SQL form are compared case by case on one catalog
   (`SameRestrictions`).
5. *The feed.* A list in the order of keys that differ is unique (`OneOrder`: an element's place is the
   number of those before it, `PlaceCounts`), so it is enough that the feed lists the accepted catalogs and
   that of two the wanted one comes first. A header is read as its elements by a bijection of places, best
   liked first (`Parsed`); the first range that meets a catalog is then its favourite, at the depth the
   property calls closeness (`MatchIsFirst`, `FavouriteIsFirst`, from `DepthIsShared` and `Closest`); and
   catalogs sorted by rank, with the statement's order under it, are sorted by what the client wants
   (`RanksAreWanted`). With a `nan` only the bijection is left, and with it membership. The assumptions used
   are that headers are made of subtags `lower` is defined for, that `lower` makes a `*` of nothing else, and
   that a catalog's language tags are not empty.

Only model-checked:

* all liveness (`RequestsAreAnswered`, `RevocationTakesEffect`, `ImportsEnd`): TLAPS has no rules for
  fairness and ENABLED;
* the runs and configurations that are expected to be violated.

Induction over numbers is used in the proofs as the least-number principle, from the library's
`NatLessThanWellFounded` and `WFMin`. The theorems that take a predicate as a parameter cannot be
instantiated by the installed provers, nor can the folds and filters of the community modules be unfolded.

## 5. What is left

* `SearchIndex` keeps one catalog: a rebuild of several at once, with the triggers of all of them, is
  only in `Migrations`, where it is one step.
* `AdminLists` leaves out the languages found by name and the labels shown.

## 6. Not modelled

* The download `add` starts with, and the live fetch of the development console: sequential HTTP with no
  shared state. What `add` makes of a download is a document of `SeedImport`.
* An identifier added to a catalog that is already stored: the row keeps the id derived from its first
  URL, as the docstring of `resolve_catalog_id` says, so a later move of the URL makes a second row.
  The documents name their identifier from the start or never.
* The numbers of text search (`ts_rank`, `pg_trgm`, `unaccent` are PostgreSQL's): a score is any number
  of the document and the query alone.
* Rendering, labels and error texts: formatting of values that are modelled. JSON Schema validation: it
  only refuses a file before anything is read.
* Offline migrations (`--sql`), which write a script and touch no state.
* Cryptography: a token is signed by a key or not.
* The scripts that generate reference data and measure: nothing they keep is read by the program.

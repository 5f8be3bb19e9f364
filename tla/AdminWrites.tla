----------------------------- MODULE AdminWrites -----------------------------
(***************************************************************************)
(* The admin API's reads and writes of a catalog's row, request by         *)
(* request: login, permission, row lock, version check, lifecycle, UPDATE, *)
(* commit, and the separate read the response is built from.               *)
(*                                                                         *)
(* The database is PostgreSQL at READ COMMITTED.  row is what is committed;*)
(* a transaction's own UPDATE lives in work until Commit installs it, and  *)
(* lock[c] is the holder of the row lock SELECT ... FOR UPDATE takes.      *)
(* A session is one browser tab: at most one request in flight, and a page *)
(* holding the catalog as the API last described it to that tab.  Two      *)
(* sessions may belong to one person.                                      *)
(***************************************************************************)
EXTENDS Integers, FiniteSets, Lifecycle

CONSTANTS
    Catalogs,        \* catalog ids a request may name
    Sessions,        \* browser tabs
    People,          \* email addresses
    personOf,        \* whose tab it is
    GrantableRoles,  \* roles the `actor set` command is run with
    MaxVersion,      \* bound: no write is sent from a page at this version
    Nobody           \* the holder of a free row lock

ASSUME SessionsAssumption ==
    /\ personOf \in [Sessions -> People]
    /\ Nobody \notin Sessions
ASSUME BoundsAssumption ==
    /\ GrantableRoles \subseteq Roles
    /\ MaxVersion \in Nat

Never == -1     \* published_at IS NULL

Rows == [status : Statuses, version : Nat \ {0}, recommended : BOOLEAN,
         published_at : Nat \cup {Never}]

\* No such catalog; also the page of a tab that shows none.
NoRow == [status |-> "absent", version |-> 0, recommended |-> FALSE, published_at |-> Never]

Actors  == [role : Roles, is_active : BOOLEAN]
NoActor == [role |-> "none", is_active |-> FALSE]

WriteRequests == TRANSITION_ACTIONS \cup {"recommend", "unrecommend"}
Requests      == {"view"} \cup WriteRequests

\* What a request was answered with last: "ok" is a 200, "failed" no answer or a 5xx.
Answers == {"none", "ok", "forbidden", "not-found", "version-conflict",
            "invalid-transition", "not-published", "failed"}

\* An undo_action, and (history) the status it is meant to bring back.
UndoOffers == [action : TRANSITION_ACTIONS, back : Statuses]

VARIABLES
    row,      \* row[c]: the committed catalogs row
    lock,     \* lock[c]: the session whose transaction holds the row
    clock,    \* the database clock, ticking once per committed change of a row
    actors,   \* actors[p]: the committed actors row
    pc,       \* pc[s]: where the session's request is
    at,       \* at[s]: the catalog the tab is on
    page,     \* page[s]: that catalog as the tab last saw it
    want,     \* want[s]: the request in flight or the last one
    role,     \* role[s]: the role the login of this request returned
    began,    \* began[s]: now() in the session's write transaction
    work,     \* work[s]: the row as the write transaction read or wrote it
    undo,     \* undo[s]: the undo_action of the answer, as a set of at most one
    answer,   \* answer[s]: the last answer
    downAt,   \* history: downAt[c] is when the catalog last stopped being published
    granted   \* history: the people `actor set` ever made editor or admin

dbVars      == <<row, lock, clock, downAt>>
peopleVars  == <<actors, granted>>
sessionVars == <<pc, at, page, want, role, began, work, undo, answer>>
vars        == <<dbVars, peopleVars, sessionVars>>

Init ==
    /\ row \in [Catalogs -> {NoRow} \cup
                  [status : {"draft"}, version : {1}, recommended : {FALSE},
                   published_at : {Never}] \cup
                  [status : {"published"}, version : {1}, recommended : BOOLEAN,
                   published_at : {0}]]
    /\ lock    = [c \in Catalogs |-> Nobody]
    /\ clock   = 1
    /\ downAt  = [c \in Catalogs |-> Never]
    /\ actors  = [p \in People |-> NoActor]
    /\ granted = {}
    /\ pc      = [s \in Sessions |-> "idle"]
    /\ at      \in [Sessions -> Catalogs]
    /\ page    = [s \in Sessions |-> NoRow]
    /\ want    = [s \in Sessions |-> "view"]
    /\ role    = [s \in Sessions |-> "none"]
    /\ began   = [s \in Sessions |-> 0]
    /\ work    = [s \in Sessions |-> NoRow]
    /\ undo    = [s \in Sessions |-> {}]
    /\ answer  = [s \in Sessions |-> "none"]

-----------------------------------------------------------------------------
(* People. *)

\* Mutant: the INSERT leaves the role to the command, which may not name one.
SetActorWithoutDefault(p) ==
    /\ \E chosen \in GrantableRoles \cup {"keep"}, active \in BOOLEAN :
          LET after == IF chosen = "keep" THEN actors[p].role ELSE chosen
          IN  /\ actors'  = [actors EXCEPT ![p] = [role |-> after, is_active |-> active]]
              /\ granted' = IF chosen \in {"editor", "admin"} THEN granted \cup {p} ELSE granted
    /\ UNCHANGED <<dbVars, sessionVars>>

\* persist_actor: `--role` is optional, access is set to what the command says every time.
SetActor(p) ==
    /\ \E chosen \in GrantableRoles \cup {"keep"}, active \in BOOLEAN :
          LET before == IF actors[p] = NoActor THEN "viewer" ELSE actors[p].role
              after  == IF chosen = "keep" THEN before ELSE chosen
          IN  /\ actors'  = [actors EXCEPT ![p] = [role |-> after, is_active |-> active]]
              /\ granted' = IF chosen \in {"editor", "admin"} THEN granted \cup {p} ELSE granted
    /\ UNCHANGED <<dbVars, sessionVars>>

\* Mutant: a first login creates an editor.
LoggedInAsEditor(actor) ==
    IF actor = NoActor THEN [role |-> "editor", is_active |-> TRUE] ELSE actor

\* persist_actor_login: find the person by email, or create a viewer; never change a role.
LoggedIn(actor) ==
    IF actor = NoActor THEN [role |-> "viewer", is_active |-> TRUE] ELSE actor

-----------------------------------------------------------------------------
(* A request. *)

\* Every answer ends the request and leaves no transaction behind.
Finish(s, code) ==
    /\ pc'     = [pc EXCEPT ![s] = "idle"]
    /\ answer' = [answer EXCEPT ![s] = code]
    /\ role'   = [role EXCEPT ![s] = "none"]
    /\ began'  = [began EXCEPT ![s] = 0]
    /\ work'   = [work EXCEPT ![s] = NoRow]

\* The tab asks for a catalog's page: it shows nothing until the answer is in.
SendView(s, c) ==
    /\ pc[s] = "idle"
    /\ pc'     = [pc EXCEPT ![s] = "sent"]
    /\ at'     = [at EXCEPT ![s] = c]
    /\ page'   = [page EXCEPT ![s] = NoRow]
    /\ want'   = [want EXCEPT ![s] = "view"]
    /\ undo'   = [undo EXCEPT ![s] = {}]
    /\ answer' = [answer EXCEPT ![s] = "none"]
    /\ UNCHANGED <<dbVars, peopleVars, role, began, work>>

\* A transition or a recommendation, carrying the version the page shows.
SendWrite(s, w) ==
    /\ pc[s] = "idle"
    /\ page[s] # NoRow
    /\ page[s].version < MaxVersion
    /\ pc'     = [pc EXCEPT ![s] = "sent"]
    /\ want'   = [want EXCEPT ![s] = w]
    /\ undo'   = [undo EXCEPT ![s] = {}]
    /\ answer' = [answer EXCEPT ![s] = "none"]
    /\ UNCHANGED <<dbVars, peopleVars, at, page, role, began, work>>

\* Mutant: is_active is not looked at.
AuthenticateAnyone(s) ==
    LET p     == personOf[s]
        actor == LoggedIn(actors[p])
    IN  /\ pc[s] = "sent"
        /\ actors' = [actors EXCEPT ![p] = actor]
        /\ pc'     = [pc EXCEPT ![s] = "admitted"]
        /\ role'   = [role EXCEPT ![s] = actor.role]
        /\ UNCHANGED <<dbVars, granted, at, page, want, began, work, undo, answer>>

\* authenticate_admin_actor and require_permission("catalog.view"), in a transaction of their own.
Authenticate(s) ==
    LET p     == personOf[s]
        actor == LoggedIn(actors[p])
    IN  /\ pc[s] = "sent"
        /\ actors' = [actors EXCEPT ![p] = actor]
        /\ IF actor.is_active /\ "catalog.view" \in build_permissions(actor.role)
             THEN /\ pc'   = [pc EXCEPT ![s] = "admitted"]
                  /\ role' = [role EXCEPT ![s] = actor.role]
                  /\ UNCHANGED <<began, work, answer>>
             ELSE Finish(s, "forbidden")
        /\ UNCHANGED <<dbVars, granted, at, page, want, undo>>

\* GET /admin/catalogs/{id}: one autocommitted SELECT.
ReadDetail(s) ==
    /\ pc[s] = "admitted"
    /\ want[s] = "view"
    /\ page' = [page EXCEPT ![s] = row[at[s]]]
    /\ Finish(s, IF row[at[s]] = NoRow THEN "not-found" ELSE "ok")
    /\ UNCHANGED <<dbVars, peopleVars, at, want, undo>>

\* _require_catalog_permission: the role the login returned, before the catalog is looked at.
WritePermission(w) ==
    CatalogPermission[IF w \in {"recommend", "unrecommend"} THEN "recommend" ELSE w]

RequireCatalogPermission(s) ==
    /\ pc[s] = "admitted"
    /\ want[s] \in WriteRequests
    /\ IF WritePermission(want[s]) \in build_permissions(role[s])
         THEN /\ pc'    = [pc EXCEPT ![s] = "waiting"]
              /\ began' = [began EXCEPT ![s] = clock]
              /\ UNCHANGED <<role, work, answer>>
         ELSE Finish(s, "forbidden")
    /\ UNCHANGED <<dbVars, peopleVars, at, page, want, undo>>

\* Mutant: a plain SELECT, which neither waits for the row nor holds it.
LockCatalogWithoutLock(s) ==
    /\ pc[s] = "waiting"
    /\ work' = [work EXCEPT ![s] = row[at[s]]]
    /\ pc'   = [pc EXCEPT ![s] = "locked"]
    /\ UNCHANGED <<dbVars, peopleVars, at, page, want, role, began, undo, answer>>

\* SELECT status, version ... FOR UPDATE: waits for the row, then reads its latest commit.
LockCatalog(s) ==
    /\ pc[s] = "waiting"
    /\ lock[at[s]] = Nobody
    /\ lock' = [lock EXCEPT ![at[s]] = s]
    /\ work' = [work EXCEPT ![s] = row[at[s]]]
    /\ pc'   = [pc EXCEPT ![s] = "locked"]
    /\ UNCHANGED <<row, clock, downAt, peopleVars, at, page, want, role, began, undo, answer>>

\* Mutant: the lifecycle is looked at before the version.
RefusalLifecycleFirst(found, seen, w) ==
    CASE found = NoRow -> "not-found"
      [] found # NoRow /\ w \in TRANSITION_ACTIONS /\ Targets(found.status, w) = {}
           -> "invalid-transition"
      [] found # NoRow /\ w \notin TRANSITION_ACTIONS /\ found.status # "published"
           -> "not-published"
      [] OTHER -> IF found.version # seen.version THEN "version-conflict" ELSE "none"

\* Version, then lifecycle: the refusals of _lock_seen_catalog and of the two write services.
Refusal(found, seen, w) ==
    CASE found = NoRow                 -> "not-found"
      [] found # NoRow /\ found.version # seen.version -> "version-conflict"
      [] found # NoRow /\ found.version = seen.version
           -> IF w \in TRANSITION_ACTIONS
                THEN IF Targets(found.status, w) = {} THEN "invalid-transition" ELSE "none"
                ELSE IF found.status # "published" THEN "not-published" ELSE "none"

\* Mutant: the transaction of a refused write stays open.
RefuseKeepingLock(s) ==
    /\ pc[s] = "locked"
    /\ Refusal(work[s], page[s], want[s]) # "none"
    /\ Finish(s, Refusal(work[s], page[s], want[s]))
    /\ UNCHANGED <<dbVars, peopleVars, at, page, want, undo>>

\* The exception leaves `async with open_admin_writer()`: rollback, and the lock is gone.
Refuse(s) ==
    /\ pc[s] = "locked"
    /\ Refusal(work[s], page[s], want[s]) # "none"
    /\ Finish(s, Refusal(work[s], page[s], want[s]))
    /\ lock' = [lock EXCEPT ![at[s]] = Nobody]
    /\ UNCHANGED <<row, clock, downAt, peopleVars, at, page, want, undo>>

\* Mutant: published_at is set once and kept (COALESCE).
SetStatusKeepingDate(current, status, now) ==
    [status       |-> status,
     version      |-> current.version + 1,
     recommended  |-> current.recommended,
     published_at |-> IF status = "published" /\ current.published_at = Never
                        THEN now ELSE current.published_at]

\* Mutant: a catalog that leaves the feed also loses its recommendation.
SetStatusUnrecommending(current, status, now) ==
    [status       |-> status,
     version      |-> current.version + 1,
     recommended  |-> current.recommended /\ status = "published",
     published_at |-> IF status = "published" THEN now ELSE current.published_at]

\* _SET_STATUS: the UPDATE reads the row as it is, not as the SELECT returned it.
SetStatus(current, status, now) ==
    [status       |-> status,
     version      |-> current.version + 1,
     recommended  |-> current.recommended,
     published_at |-> IF status = "published" THEN now ELSE current.published_at]

PersistStatus(s) ==
    /\ pc[s] = "locked"
    /\ want[s] \in TRANSITION_ACTIONS
    /\ Refusal(work[s], page[s], want[s]) = "none"
    /\ \E target \in Targets(work[s].status, want[s]) :
          work' = [work EXCEPT ![s] = SetStatus(row[at[s]], target, began[s])]
    /\ undo' = [undo EXCEPT ![s] =
                   [action : Undos(work[s].status, want[s]), back : {work[s].status}]]
    /\ pc'   = [pc EXCEPT ![s] = "written"]
    /\ UNCHANGED <<dbVars, peopleVars, at, page, want, role, began, answer>>

\* Mutant: the flag changes and the version does not.
SetRecommendedKeepingVersion(current, recommended) ==
    [status       |-> current.status,
     version      |-> current.version,
     recommended  |-> recommended,
     published_at |-> current.published_at]

\* _SET_RECOMMENDED: setting the value it already has changes nothing, the version included.
SetRecommended(current, recommended) ==
    IF current.recommended = recommended THEN current
    ELSE [status       |-> current.status,
          version      |-> current.version + 1,
          recommended  |-> recommended,
          published_at |-> current.published_at]

PersistRecommended(s) ==
    /\ pc[s] = "locked"
    /\ want[s] \in {"recommend", "unrecommend"}
    /\ Refusal(work[s], page[s], want[s]) = "none"
    /\ work' = [work EXCEPT ![s] = SetRecommended(row[at[s]], want[s] = "recommend")]
    /\ pc'   = [pc EXCEPT ![s] = "written"]
    /\ UNCHANGED <<dbVars, peopleVars, at, page, want, role, began, undo, answer>>

Commit(s) ==
    LET c == at[s] IN
    /\ pc[s] = "written"
    /\ row'   = [row EXCEPT ![c] = work[s]]
    /\ lock'  = [lock EXCEPT ![c] = Nobody]
    /\ clock' = IF work[s] = row[c] THEN clock ELSE clock + 1
    /\ downAt' = IF row[c].status = "published" /\ work[s].status # "published"
                   THEN [downAt EXCEPT ![c] = clock] ELSE downAt
    /\ pc'    = [pc EXCEPT ![s] = "committed"]
    /\ UNCHANGED <<peopleVars, at, page, want, role, began, work, undo, answer>>

\* The answer describes the catalog as a reader session finds it after the commit.
Respond(s) ==
    /\ pc[s] = "committed"
    /\ page' = [page EXCEPT ![s] = row[at[s]]]
    /\ Finish(s, "ok")
    /\ UNCHANGED <<dbVars, peopleVars, at, want, undo>>

\* The write is in, the answer is not: the reader fails, or the connection to the client does.
LoseResponse(s) ==
    /\ pc[s] = "committed"
    /\ Finish(s, "failed")
    /\ undo' = [undo EXCEPT ![s] = {}]
    /\ UNCHANGED <<dbVars, peopleVars, at, page, want>>

\* The request dies before its commit (client gone, connection lost, process killed): rollback.
Abort(s) ==
    /\ pc[s] \in {"sent", "admitted", "waiting", "locked", "written"}
    /\ Finish(s, "failed")
    /\ undo' = [undo EXCEPT ![s] = {}]
    /\ lock' = IF lock[at[s]] = s THEN [lock EXCEPT ![at[s]] = Nobody] ELSE lock
    /\ UNCHANGED <<row, clock, downAt, peopleVars, at, page, want>>

-----------------------------------------------------------------------------
\* The server's own steps; the tabs, the operator and the failures are the environment.
Serve(s) ==
    \/ Authenticate(s)
    \/ ReadDetail(s)
    \/ RequireCatalogPermission(s)
    \/ LockCatalog(s)
    \/ Refuse(s)
    \/ PersistStatus(s)
    \/ PersistRecommended(s)
    \/ Commit(s)
    \/ Respond(s)

Next ==
    \/ \E p \in People : SetActor(p)
    \/ \E s \in Sessions :
          \/ \E c \in Catalogs : SendView(s, c)
          \/ \E w \in WriteRequests : SendWrite(s, w)
          \/ Serve(s)
          \/ LoseResponse(s)
          \/ Abort(s)

Spec == Init /\ [][Next]_vars

(***************************************************************************)
(* A handler runs to its end (WF), and PostgreSQL queues the waiters of a  *)
(* row lock, so one that keeps waiting is granted the row (SF).            *)
(***************************************************************************)
FairSpec ==
    /\ Spec
    /\ \A s \in Sessions : WF_vars(Serve(s)) /\ SF_vars(LockCatalog(s))

-----------------------------------------------------------------------------
(* Type invariant. *)
TypeOK ==
    /\ row \in [Catalogs -> Rows \cup {NoRow}]
    /\ lock \in [Catalogs -> Sessions \cup {Nobody}]
    /\ clock \in Nat \ {0}
    /\ downAt \in [Catalogs -> Nat \cup {Never}]
    /\ actors \in [People -> Actors \cup {NoActor}]
    /\ granted \subseteq People
    /\ pc \in [Sessions -> {"idle", "sent", "admitted", "waiting", "locked", "written",
                            "committed"}]
    /\ at \in [Sessions -> Catalogs]
    /\ page \in [Sessions -> Rows \cup {NoRow}]
    /\ want \in [Sessions -> Requests]
    /\ role \in [Sessions -> Roles \cup {"none"}]
    /\ began \in [Sessions -> Nat]
    /\ work \in [Sessions -> Rows \cup {NoRow}]
    /\ undo \in [Sessions -> SUBSET UndoOffers]
    /\ answer \in [Sessions -> Answers]

\* A transaction between its SELECT ... FOR UPDATE and its end holds the row, and until it
\* writes, what it read is the row.
RowLocked ==
    \A s \in Sessions :
        /\ pc[s] \in {"locked", "written"} => lock[at[s]] = s
        /\ pc[s] = "locked" => work[s] = row[at[s]]

-----------------------------------------------------------------------------
(* Safety. *)

\* A version names one state of a row: a page never shows a version the row has not reached, and
\* one that shows the row's current version shows the row as it is.  This is what makes the
\* version a request carries worth checking (a3f19c7d8e42: "so an editor can detect that a
\* catalog changed under them").
VersionNamesState ==
    \A s \in Sessions : page[s] # NoRow =>
        /\ page[s].version <= row[at[s]].version
        /\ page[s].version = row[at[s]].version => page[s] = row[at[s]]

\* No lost update: a write about to be committed replaces exactly the row its editor was looking
\* at, whatever other editors did since the page was read and while the row lock was awaited
\* (admin_repository.py, the comment on _LOCK_CATALOG).
NoLostUpdate ==
    \A s \in Sessions : pc[s] = "written" => page[s] # NoRow /\ row[at[s]] = page[s]

\* A refusal says something true of what the editor saw: a version conflict only when the row
\* did change, a refused transition or recommendation only when the row the editor is looking at
\* does not allow it (apply_admin_transition: "a stale version is reported before a transition
\* that may only be refused because of it").
AnswersAreTrue ==
    \A s \in Sessions :
        /\ answer[s] = "version-conflict" => row[at[s]].version > page[s].version
        /\ answer[s] = "invalid-transition" => Targets(page[s].status, want[s]) = {}
        /\ answer[s] = "not-published" => page[s].status # "published"

\* The page's buttons and the lifecycle agree: what the lifecycle refuses was not among the
\* allowed_actions of the page the request was sent from, whatever the role ("Clients never
\* re-implement it: they render the allowed_actions computed here", lifecycle.py).
OfferedIsAccepted ==
    \A s \in Sessions :
        answer[s] \in {"invalid-transition", "not-published"} =>
            (IF want[s] \in TRANSITION_ACTIONS THEN want[s] ELSE "recommend")
                \notin build_allowed_actions(page[s].status, build_permissions("admin"))

\* The undo a write earns takes the catalog back to the status it had, for as long as nobody
\* has changed the catalog after that write (lifecycle.py, the comment on UNDO_ACTIONS).
UndoReverses ==
    \A s \in Sessions :
        pc[s] = "committed" /\ row[at[s]].version = work[s].version =>
            \A offer \in undo[s] : Targets(row[at[s]].status, offer.action) = {offer.back}

\* published_at "is when it last went live" (admin_repository.py, _SET_STATUS): a published
\* catalog is dated after it last stopped being published, although now() is the start of the
\* transaction and the row lock may be awaited for long after that.
LiveDateFollowsTakedown ==
    \A c \in Catalogs : row[c].status = "published" => row[c].published_at > downAt[c]

\* Nobody writes on the strength of a login alone: whoever gets as far as the row lock was made
\* editor or admin by `actor set` at some time (actor_repository.py: "a login can never change
\* a role").
OnlyGrantedWrite ==
    \A s \in Sessions :
        pc[s] \in {"waiting", "locked", "written", "committed"} => personOf[s] \in granted

\* The concurrent requests implement an atomic compare-and-set on the row that was seen: what is
\* committed, where a tab is and what it shows, the rest of the requests' state hidden.
Promise == INSTANCE OptimisticCatalog WITH row <- row, at <- at, page <- page
ImplementsOptimisticCatalog == Promise!Spec

\* What the answer offers as undo fits the catalog the same answer shows (schemas/admin.py:
\* "What reverses this change in one step").  The code does not guarantee it: the catalog is
\* read after the commit, in another transaction.
UndoFitsAnswer ==
    \A s \in Sessions :
        answer[s] = "ok" =>
            \A offer \in undo[s] : Targets(page[s].status, offer.action) = {offer.back}

-----------------------------------------------------------------------------
(* The strengthening that makes the safety properties above inductive. *)

\* A request that may write has a page behind it, and offers no undo before it has written.
RequestShape ==
    \A s \in Sessions :
        /\ pc[s] \in {"waiting", "locked", "written", "committed"} => want[s] \in WriteRequests
        /\ pc[s] # "idle" /\ want[s] \in WriteRequests => page[s] # NoRow
        /\ pc[s] \in {"sent", "admitted", "waiting", "locked"} => undo[s] = {}

\* What a write transaction is about to install is the row it locked, or its next version; what it
\* has installed is what the row is until somebody changes it again.
WorkFollowsRow ==
    \A s \in Sessions :
        /\ pc[s] = "written" =>
              work[s] = row[at[s]] \/ work[s].version = row[at[s]].version + 1
        /\ pc[s] = "committed" =>
              /\ work[s] # NoRow
              /\ work[s].version <= row[at[s]].version
              /\ work[s].version = row[at[s]].version => work[s] = row[at[s]]

\* The dates on rows and pages are past, and a transaction that can still succeed began after
\* the last takedown of its catalog and after the date its page shows.
DatesArePast ==
    /\ \A c \in Catalogs : row[c].published_at <= clock /\ downAt[c] < clock
    /\ \A s \in Sessions :
          /\ page[s].published_at <= clock /\ work[s].published_at <= clock
          /\ began[s] <= clock
          /\ pc[s] \in {"waiting", "locked", "written"} =>
                /\ page[s].published_at <= began[s]
                /\ page[s].version = row[at[s]].version => downAt[at[s]] < began[s]
          /\ pc[s] = "written" /\ work[s].status = "published" =>
                work[s].published_at > downAt[at[s]]

OptimismInv == RowLocked /\ RequestShape /\ VersionNamesState /\ NoLostUpdate
               /\ WorkFollowsRow /\ DatesArePast

-----------------------------------------------------------------------------
(* Liveness. *)

\* Every request is answered, also one that waits for a row other editors keep taking.
RequestsAreAnswered == \A s \in Sessions : pc[s] # "idle" ~> pc[s] = "idle"

\* Once a person's access is removed for good, their requests stop reaching a catalog, although
\* one that had logged in before is allowed to end.
Deactivated(p) == actors[p] # NoActor /\ ~ actors[p].is_active
RevocationTakesEffect ==
    \A s \in Sessions :
        <>[]Deactivated(personOf[s]) => <>[](pc[s] \in {"idle", "sent"})
=============================================================================

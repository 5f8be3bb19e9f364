------------------------------ MODULE ReadService ------------------------------
(***************************************************************************)
(* Public requests, served from two pools of read connections while        *)
(* editors move catalogs and the database, or something on the way to it,  *)
(* drops connections: fetch_rows (catalog_rows.py), build_read_engine      *)
(* (session.py) and the routes that use them.                              *)
(*                                                                         *)
(* A request takes a connection, runs its one statement in autocommit, and *)
(* gives the connection back.  A dead connection looks like a live one     *)
(* until a statement runs on it: then the driver's error marks it and the  *)
(* pool's other connections invalid, and the statement is sent once more   *)
(* on whatever the pool gives next.                                        *)
(***************************************************************************)
EXTENDS AdminLists

CONSTANTS
    Readers,
    requestsOf,  \* requestsOf[r]: what a reader may ask first, records
                 \*   [endpoint, header, restrictions, text, id, page]
    Capacity,    \* Capacity[p]: connections of a pool
    FirstRows,   \* the catalogs' rows at the start
    Headers,     \* Accept-Language headers
    AdminQueries,
    MaxEdits,    \* bound: changes by editors
    MaxFaults    \* bound: connection drops and outages

Pools     == {"read", "search"}
PoolOf(request) == IF request.endpoint = "search" THEN "search" ELSE "read"

ASSUME ReadServiceAssumption ==
    /\ Capacity \in [Pools -> Nat \ {0}]
    /\ FirstRows \in [Catalogs -> Rows]
    /\ MaxEdits \in Nat /\ MaxFaults \in Nat
    /\ \A r \in Readers : \A request \in requestsOf[r] :
          /\ request.endpoint \in {"feed", "catalog", "search"}
          /\ request.page \in 1..MAX_PAGE
          /\ \A c \in Catalogs :
                contentOf[c].alike[parse_search_query(request.text).positives] \in Nat
    /\ Headers \subseteq
          Seq([tag : Seq(DOMAIN Lowercase),
               q   : {Unstated, Malformed, NaN} \cup [kind : {"number"}, value : Int]])
    /\ \A query \in AdminQueries : query.sort \in {"name", "-name", "kind", "status"}

VARIABLES
    rows,      \* the catalogs' status and recommended flag, committed
    up,        \* the database takes connections
    idle,      \* idle[p][state]: the connections that wait in a pool
    pc,        \* pc[r]: "idle", "checkout" or "execute"
    asked,     \* asked[r]: the request the reader began with
    page,      \* page[r]: the page it is at
    attempt,   \* attempt[r]: 1, or 2 for the retry
    held,      \* held[r]: "none", "live" or "dead"
    expired,   \* expired[r]: the pool has given up the connection r holds
    answer,    \* answer[r]: [code, served, total, next]
    shown,     \* history: what the pages of r's search have shown so far, one after another
    steady,    \* history: no catalog has moved since r's search began
    trouble,   \* history: the database dropped connections or was away, or the pool was full,
               \*   while r's request ran
    edits, faults

poolVars   == <<up, idle, faults>>
readerVars == <<pc, asked, page, attempt, held, expired, answer, shown, steady, trouble>>
vars       == <<rows, edits, poolVars, readerVars>>

NoRequest == [endpoint |-> "none", header |-> << >>, restrictions |-> {}, text |-> << >>,
              id |-> 0, page |-> 1]
Answer(code, served, total, next) ==
    [code |-> code, served |-> served, total |-> total, next |-> next]
NoAnswer == Answer(0, << >>, 0, 0)
States   == {"live", "dead"}
Empty    == [state \in States |-> 0]

Init ==
    /\ rows    = FirstRows
    /\ up      = TRUE
    /\ idle    = [p \in Pools |-> Empty]
    /\ pc      = [r \in Readers |-> "idle"]
    /\ asked   = [r \in Readers |-> NoRequest]
    /\ page    = [r \in Readers |-> 1]
    /\ attempt = [r \in Readers |-> 1]
    /\ held    = [r \in Readers |-> "none"]
    /\ expired = [r \in Readers |-> FALSE]
    /\ answer  = [r \in Readers |-> NoAnswer]
    /\ shown   = [r \in Readers |-> << >>]
    /\ steady  = [r \in Readers |-> TRUE]
    /\ trouble = [r \in Readers |-> FALSE]
    /\ edits   = 0
    /\ faults  = 0

-----------------------------------------------------------------------------
(* The statements. *)

Query(request) == parse_search_query(request.text)

resolve_search(request, number) ==
    LET result == IF is_empty(Query(request)) THEN EmptyPage
                  ELSE search_catalogs(rows, Query(request), number, request.restrictions)
        feed   == render_search_results(Capped(result), number)
    IN  Answer(200, feed.served, feed.total, feed.next)

\* What the request's handler may answer when its statement has run.
Served(request, number) ==
    CASE request.endpoint = "feed" ->
            {Answer(200, feed, Len(feed), 0) :
                feed \in resolve_top_level_feed(rows, request.header, request.restrictions)}
      [] request.endpoint = "catalog" ->
            LET found == fetch_catalog_by_id(rows, request.id)
            IN  {Answer(IF found = << >> THEN 404 ELSE 200, found, Len(found), 0)}
      [] request.endpoint = "search" -> {resolve_search(request, number)}

-----------------------------------------------------------------------------
(* Requests. *)

Send(r, request, number) ==
    /\ pc[r] = "idle"
    /\ asked'   = [asked EXCEPT ![r] = request]
    /\ page'    = [page EXCEPT ![r] = number]
    /\ IF request.endpoint = "search" /\ is_empty(Query(request))
         THEN /\ answer'  = [answer EXCEPT ![r] = resolve_search(request, number)]
              /\ trouble' = [trouble EXCEPT ![r] = FALSE]
              /\ UNCHANGED pc
         ELSE /\ answer'  = [answer EXCEPT ![r] = NoAnswer]
              /\ trouble' = [trouble EXCEPT ![r] = ~ up]
              /\ pc'      = [pc EXCEPT ![r] = "checkout"]
    /\ UNCHANGED <<rows, edits, poolVars, attempt, held, expired>>

Ask(r) ==
    /\ \E request \in requestsOf[r] : Send(r, request, request.page)
    /\ shown'  = [shown EXCEPT ![r] = << >>]
    /\ steady' = [steady EXCEPT ![r] = TRUE]

\* The reader follows the page's `next`.
Follow(r) ==
    /\ answer[r].next # 0
    /\ Send(r, asked[r], answer[r].next)
    /\ UNCHANGED <<shown, steady>>

InUse(p) == Cardinality({r \in Readers : held[r] # "none" /\ PoolOf(asked[r]) = p})

\* The session is closed with the request, and its connection given back.
GiveBack(r) ==
    LET p == PoolOf(asked[r])
    IN  /\ held'    = [held EXCEPT ![r] = "none"]
        /\ expired' = [expired EXCEPT ![r] = FALSE]
        /\ idle'    = IF held[r] = "none" \/ expired[r] THEN idle
                        ELSE [idle EXCEPT ![p][held[r]] = @ + 1]

Finish(r, result, troubled) ==
    /\ pc'      = [pc EXCEPT ![r] = "idle"]
    /\ attempt' = [attempt EXCEPT ![r] = 1]
    /\ answer'  = [answer EXCEPT ![r] = result]
    /\ shown'   = [shown EXCEPT ![r] = @ \o result.served]
    /\ trouble' = [trouble EXCEPT ![r] = troubled /\ result.code = 500]
    /\ GiveBack(r)

\* A waiting connection, untested (no pre-ping); a new one when none waits and there is room.
Checkout(r) ==
    LET p == PoolOf(asked[r])
    IN  /\ pc[r] = "checkout"
        /\ \/ \E state \in States :
                 /\ idle[p][state] > 0
                 /\ idle' = [idle EXCEPT ![p][state] = @ - 1]
                 /\ held' = [held EXCEPT ![r] = state]
           \/ /\ idle[p] = Empty
              /\ InUse(p) < Capacity[p]
              /\ up
              /\ held' = [held EXCEPT ![r] = "live"]
              /\ UNCHANGED idle
        /\ pc' = [pc EXCEPT ![r] = "execute"]
        /\ UNCHANGED <<rows, edits, up, faults, asked, page, attempt, expired, answer, shown, steady,
                       trouble>>

\* Connecting fails: not an error fetch_rows catches.
FailToConnect(r) ==
    LET p == PoolOf(asked[r])
    IN  /\ pc[r] = "checkout"
        /\ idle[p] = Empty
        /\ InUse(p) < Capacity[p]
        /\ ~ up
        /\ Finish(r, Answer(500, << >>, 0, 0), trouble[r])
        /\ UNCHANGED <<rows, edits, up, faults, asked, page, steady>>

\* Every connection of the pool is in use for longer than its timeout.
WaitInVain(r) ==
    LET p == PoolOf(asked[r])
    IN  /\ pc[r] = "checkout"
        /\ idle[p] = Empty
        /\ InUse(p) >= Capacity[p]
        /\ Finish(r, Answer(500, << >>, 0, 0), TRUE)
        /\ UNCHANGED <<rows, edits, up, faults, asked, page, steady>>

Execute(r) ==
    /\ pc[r] = "execute"
    /\ held[r] = "live"
    /\ \E result \in Served(asked[r], page[r]) : Finish(r, result, FALSE)
    /\ UNCHANGED <<rows, edits, up, faults, asked, page, steady>>

\* statement_timeout: ReadTimeoutError, a 503, from either attempt.
TimeOut(r) ==
    /\ pc[r] = "execute"
    /\ held[r] = "live"
    /\ Finish(r, Answer(503, << >>, 0, 0), FALSE)
    /\ UNCHANGED <<rows, edits, up, faults, asked, page, steady>>

\* Mutant: the error is passed on.
MayRetry_Never(r) == FALSE

MayRetry(r) == attempt[r] = 1

\* The statement meets a dead connection; the pool gives up every other one too.
Disconnect(r) ==
    LET p == PoolOf(asked[r])
    IN  /\ pc[r] = "execute"
        /\ held[r] = "dead"
        /\ idle'    = [idle EXCEPT ![p] = Empty]
        /\ held'    = [held EXCEPT ![r] = "none"]
        /\ expired' = [s \in Readers |-> /\ s # r
                                         /\ \/ expired[s]
                                            \/ held[s] # "none" /\ PoolOf(asked[s]) = p]
        /\ IF MayRetry(r)
             THEN /\ attempt' = [attempt EXCEPT ![r] = 2]
                  /\ pc'      = [pc EXCEPT ![r] = "checkout"]
                  /\ UNCHANGED answer
             ELSE /\ answer'  = [answer EXCEPT ![r] = Answer(500, << >>, 0, 0)]
                  /\ pc'      = [pc EXCEPT ![r] = "idle"]
                  /\ attempt' = [attempt EXCEPT ![r] = 1]
        /\ UNCHANGED <<rows, edits, up, faults, asked, page, shown, steady, trouble>>

-----------------------------------------------------------------------------
(* The environment. *)

Fault ==
    /\ faults < MaxFaults
    /\ faults'  = faults + 1
    /\ trouble' = [r \in Readers |-> trouble[r] \/ pc[r] # "idle"]

IdleDropped == [p \in Pools |-> [Empty EXCEPT !["dead"] = idle[p]["live"] + idle[p]["dead"]]]
HeldDropped == [r \in Readers |-> IF held[r] = "live" THEN "dead" ELSE held[r]]

\* An intermediary closes connections nobody uses.
DropIdle ==
    /\ Fault
    /\ idle' = IdleDropped
    /\ UNCHANGED <<rows, edits, up, pc, asked, page, attempt, held, expired, answer, shown, steady>>

\* The database restarts at once, or goes away.
DropAll(staysUp) ==
    /\ up
    /\ Fault
    /\ up'   = staysUp
    /\ idle' = IdleDropped
    /\ held' = HeldDropped
    /\ UNCHANGED <<rows, edits, pc, asked, page, attempt, expired, answer, shown, steady>>

ComeBack ==
    /\ ~ up
    /\ up' = TRUE
    /\ UNCHANGED <<rows, edits, idle, faults, readerVars>>

\* pool_recycle: connections that have waited too long are replaced when next wanted.
Recycle(p) ==
    /\ idle[p] # Empty
    /\ idle' = [idle EXCEPT ![p] = Empty]
    /\ UNCHANGED <<rows, edits, up, faults, readerVars>>

\* An editor moves a catalog, or changes its flag.
Edit(c) ==
    /\ edits < MaxEdits
    /\ edits' = edits + 1
    /\ \/ \E action \in TRANSITION_ACTIONS : \E to \in Targets(rows[c].status, action) :
             rows' = [rows EXCEPT ![c].status = to]
       \/ /\ rows[c].status = "published"
          /\ rows' = [rows EXCEPT ![c].recommended = ~ @]
    /\ steady' = [r \in Readers |-> FALSE]
    /\ UNCHANGED <<poolVars, pc, asked, page, attempt, held, expired, answer, shown, trouble>>

Serve(r) ==
    \/ Checkout(r)
    \/ FailToConnect(r)
    \/ WaitInVain(r)
    \/ Execute(r)
    \/ TimeOut(r)
    \/ Disconnect(r)

Next ==
    \/ \E r \in Readers : Ask(r) \/ Follow(r) \/ Serve(r)
    \/ DropIdle
    \/ \E staysUp \in BOOLEAN : DropAll(staysUp)
    \/ ComeBack
    \/ \E p \in Pools : Recycle(p)
    \/ \E c \in Catalogs : Edit(c)

Spec == Init /\ [][Next]_vars

-----------------------------------------------------------------------------
\* A read fails only for what happens while it runs: the database is away, its connections drop
\* again, or the pool stays full.  Connections that died before it began, all of a pool's even, cost
\* it one retry and never the answer (fetch_rows: "A connection the database dropped while it sat
\* idle is retried once").
ReadFailsForAReason ==
    \A r \in Readers : answer[r].code = 500 => trouble[r]

\* While no catalog moves, following `next` from any page shows every result from there on once, in
\* the order of the ranking, up to MAX_RESULTS; `next` never leads to an empty page or to one the
\* route refuses (render_search_results: "a link there would be dead"); and nothing shown holds a
\* word the query excludes.
SearchPagesAddUp ==
    \A r \in Readers :
        answer[r].code = 200 /\ asked[r].endpoint = "search" =>
            LET query   == Query(asked[r])
                ranking == SearchRanking(rows, query, asked[r].restrictions)
                listed  == IF is_empty(query) THEN << >> ELSE PageOf(ranking, 1, MAX_RESULTS)
                passed  == page[r] * PAGE_SIZE
            IN  /\ answer[r].next <= MAX_PAGE
                /\ \A c \in ToSet(shown[r]) :
                      ToSet(query.negatives) \cap DOMAIN contentOf[c].words = {}
                /\ steady[r] =>
                      /\ answer[r].total = Len(listed)
                      /\ shown[r] = SubSeq(listed, (asked[r].page - 1) * PAGE_SIZE + 1,
                                                   Min({passed, Len(listed)}))
                      /\ answer[r].next # 0 <=> passed < Len(listed)

-----------------------------------------------------------------------------
(* What holds of the statements on any rows: said of the states before a   *)
(* first request or fault, where editors make every other set of rows.     *)
Untouched == faults = 0 /\ \A r \in Readers : asked[r] = NoRequest

\* The elements of a header that are read and that say something.
Said(header) == {n \in 1..Min({Len(header), MAX_LANGUAGE_RANGES}) : header[n].tag # << >>}

\* One of an element's tag and a catalog's language is the beginning of the other.
Stated(element) == strip_singleton_extensions(normalise_language_tag(element.tag))
MeetsTag(element, tag) ==
    LET own == normalise_language_tag(tag)
    IN  element.tag = WILDCARD \/ IsPrefix(Stated(element), own) \/ IsPrefix(own, Stated(element))

\* The elements that accept a catalog, and the one the client likes best.
Accepting(header, c) ==
    {n \in Said(header) : /\ parse_quality(header[n].q) # Number(0)
                          /\ \E tag \in contentOf[c].languages : MeetsTag(header[n], tag)}
Liking(header, n) == parse_quality(header[n].q).value
Favourite(header, c) ==
    CHOOSE n \in Accepting(header, c) :
        \A m \in Accepting(header, c) :
            \/ Liking(header, n) > Liking(header, m)
            \/ Liking(header, n) = Liking(header, m) /\ n <= m

Closeness(element, c) ==
    IF element.tag = WILDCARD THEN 0
      ELSE Max({Min({Len(Stated(element)), Len(tag)}) :
                   tag \in {t \in contentOf[c].languages : MeetsTag(element, t)}})

\* Where the client wants a catalog that is served.
Wanted(header, c) ==
    LET age  == <<- contentOf[c].created_at, contentOf[c].title, c>>
        best == Favourite(header, c)
    IN  IF contentOf[c].languages = {} THEN <<1, 0, 0, 0>> \o age
          ELSE <<0, - Liking(header, best), best, - Closeness(header[best], c)>> \o age

\* The feed is the recommended catalogs the client accepts and the restrictions allow, unscoped ones
\* last, each at the place its best-liked range gives it: higher quality, then earlier, then closer,
\* then newer ("best match first", resolve_top_level_feed).  Where a quality is nan the order is the
\* sort's, and only the members are certain.
FeedFollowsPreference ==
    Untouched =>
        \A header \in Headers, restrictions \in SUBSET RESTRICTIONS :
            LET served  == {c \in Catalogs :
                               /\ rows[c].status = "published" /\ rows[c].recommended
                               /\ allows(c, restrictions)
                               /\ contentOf[c].languages = {} \/ Accepting(header, c) # {}}
                ordered == \A n \in Said(header) : header[n].q.kind # "nan"
                wanted  == OrderBy(served, [c \in served |-> Wanted(header, c)])
            IN  \A feed \in resolve_top_level_feed(rows, header, restrictions) :
                   /\ ToSet(feed) = served /\ IsInjective(feed)
                   /\ ordered => feed = wanted

\* Search keeps and drops the catalogs the feed does, for every restriction ("The search SQL repeats
\* these rules", restrictions.py), but for a media type with white space other than spaces around it.
RestrictionsAgree ==
    Untouched =>
        \A restrictions \in SUBSET RESTRICTIONS, c \in Catalogs :
            (\A link \in contentOf[c].links : link.type.blank # "tab") =>
                (allows(c, restrictions) <=> PassesRestrictions(c, restrictions))

\* The pages of a list hold each of its catalogs once, and each page says how many they are.
PagesHoldEach(query, found, size) ==
    LET matched == Matched(rows, query, found)
        numbers == 1..(Cardinality(Catalogs) + 1)
        part(n) == fetch_admin_catalogs(rows, query, found, n, size)
        places(n, list) == {<<n, m, list[m]>> : m \in DOMAIN list}
        placed  == UNION {places(n, part(n).rows) : n \in numbers}
    IN  /\ \A n \in numbers : part(n).total = Cardinality(matched)
        /\ {place[3] : place \in placed} = matched
        /\ \A one, other \in placed : one[3] = other[3] => one = other

\* Everything the admin screens count is what their lists list: a country's published catalogs on
\* the countries page, on its own page and under its filter ("so the two counts always agree",
\* _COUNTRIES), the statistics and the list of each status and of the recommended ones, the
\* filter's options and the list with that filter; and the pages of a list hold each catalog once.
CountsMatchLists ==
    Untouched =>
        \A found \in HostChoices :
            LET total(query) == fetch_admin_catalogs(rows, query, found, 1, 1).total
                stats        == fetch_admin_stats(rows)
                places       == fetch_used_places
                countries    == fetch_admin_countries(rows, Countries, 1, Cardinality(Countries))
            IN  /\ \A n \in DOMAIN countries.rows :
                      LET k == countries.rows[n].code
                      IN  /\ countries.rows[n].published
                                = total([Unfiltered EXCEPT !.countries = {k}])
                          /\ countries.rows[n].published
                                = fetch_admin_country(rows, k).kpis.by_status["published"]
                          /\ fetch_admin_country(rows, k).kpis.recommended
                                = total([Unfiltered EXCEPT !.countries = {k},
                                                           !.recommended = {TRUE}])
                /\ \A status \in Statuses :
                      stats.by_status[status] = total([Unfiltered EXCEPT !.statuses = {status}])
                /\ stats.recommended = total([Unfiltered EXCEPT !.recommended = {TRUE}])
                /\ \A k \in DOMAIN places.countries :
                      places.countries[k] = total([Unfiltered EXCEPT !.countries = {k},
                                                                     !.statuses = Statuses])
                /\ \A tag \in DOMAIN places.languages :
                      places.languages[tag] = total([Unfiltered EXCEPT !.languages = {tag},
                                                                       !.statuses = Statuses])
                /\ \A query \in AdminQueries, size \in 1..3 :
                      PagesHoldEach(query, found, size)

\* "A client that explicitly rejected French would be served it" is what keeping q=0 is to prevent
\* (parse_accept_language): no feed holds a catalog all of whose languages its reader rejects.
RejectedIsNotServed ==
    \A r \in Readers :
        answer[r].code = 200 /\ asked[r].endpoint = "feed" =>
            LET header   == asked[r].header
                rejected == {normalise_language_tag(header[n].tag) :
                                n \in {m \in Said(header) :
                                          parse_quality(header[m].q) = Number(0)}}
            IN  \A c \in ToSet(answer[r].served) :
                    contentOf[c].languages # {} => ~ contentOf[c].languages \subseteq rejected
=============================================================================

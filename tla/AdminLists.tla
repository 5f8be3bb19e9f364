------------------------------ MODULE AdminLists ------------------------------
(***************************************************************************)
(* What the admin API counts and lists: the statements of                  *)
(* admin_repository.py, each on the rows it sees, with what admin.py and   *)
(* admin_service.py make of their parameters and results.                  *)
(***************************************************************************)
EXTENDS PublicReads

CONSTANTS
    Countries,     \* the loaded countries
    countryRank    \* countryRank[k]: the place of its English name, then its code, in order

DEFAULT_STATUSES == {"published"}

\* The place of a kind in alphabetical order; NULLS LAST for a catalog without one.
KIND_RANK   == [academic |-> 1, open |-> 2, public |-> 3, school |-> 4, specialized |-> 5]
STATUS_RANK == [draft |-> 1, published |-> 2, unpublished |-> 3, archived |-> 4]

ASSUME AdminListsAssumption ==
    /\ NoCountry \notin Countries
    /\ \A c \in Catalogs : /\ contentOf[c].country \in Countries \cup {NoCountry}
                           /\ contentOf[c].title \in Nat
                           /\ contentOf[c].kinds \subseteq DOMAIN KIND_RANK

SortKind(c) == Min({KIND_RANK[kind] : kind \in contentOf[c].kinds} \cup {6})

\* read_admin_catalogs: a filter that is not given is empty, and no status means the default.
Unfiltered == [words |-> {}, statuses |-> {}, kinds |-> {}, coverages |-> {}, types |-> {},
               countries |-> {}, languages |-> {}, recommended |-> {}, sort |-> "name"]

\* The host the word search looks at: of the catalog and shelf links, whichever comes first.
IdentityHosts(c) ==
    {link.host : link \in {l \in contentOf[c].links : l.rel \in {"catalog", "shelf"}}}
HostChoices == {found \in [Catalogs -> UNION {IdentityHosts(c) : c \in Catalogs}] :
                  \A c \in Catalogs : found[c] \in IdentityHosts(c)}

\* The filtered set; every word must occur in the title, the place or that host.
Matched(rows, query, found) ==
    LET statuses == IF query.statuses = {} THEN DEFAULT_STATUSES ELSE query.statuses
        passes(filter, values) == filter = {} \/ filter \cap values # {}
    IN  {c \in HasStatus(rows, statuses) :
            /\ passes(query.kinds, contentOf[c].kinds)
            /\ passes(query.coverages, {contentOf[c].coverage})
            /\ passes(query.types, contentOf[c].publication_types)
            /\ passes(query.countries, {contentOf[c].country})
            /\ passes(query.languages, contentOf[c].languages)
            /\ passes(query.recommended, {rows[c].recommended})
            /\ query.words \subseteq DOMAIN contentOf[c].words \cup {found[c]}}

\* ORDER BY, each one total through the id.
OrderKey(rows, c, sort) ==
    CASE sort = "name"   -> <<contentOf[c].title, c>>
      [] sort = "-name"  -> <<- contentOf[c].title, c>>
      [] sort = "kind"   -> <<SortKind(c), contentOf[c].title, c>>
      [] sort = "status" -> <<STATUS_RANK[rows[c].status], contentOf[c].title, c>>

\* One page with the total; a page past the end is empty and the total survives it.
fetch_admin_catalogs(rows, query, found, page, per_page) ==
    LET matched == Matched(rows, query, found)
        listed  == OrderBy(matched, [c \in matched |-> OrderKey(rows, c, query.sort)])
    IN  [total |-> Cardinality(matched), rows |-> PageOf(listed, page, per_page)]

-----------------------------------------------------------------------------
Counts(rows, catalogs) ==
    [by_status   |-> [status \in Statuses |-> Cardinality({c \in catalogs :
                                                             rows[c].status = status})],
     recommended |-> Cardinality({c \in catalogs : /\ rows[c].status = "published"
                                                   /\ rows[c].recommended})]

fetch_admin_stats(rows) == Counts(rows, Catalogs)

\* The filter's options, whatever the status of the catalogs that use them.
fetch_used_places ==
    [countries |-> [k \in {contentOf[c].country : c \in Catalogs} \ {NoCountry} |->
                       Cardinality({c \in Catalogs : contentOf[c].country = k})],
     languages |-> [tag \in UNION {contentOf[c].languages : c \in Catalogs} |->
                       Cardinality({c \in Catalogs : tag \in contentOf[c].languages})]]

Located(k) == {c \in Catalogs : contentOf[c].country = k}

\* Mutant: all of a country's catalogs are counted.
PublishedIn_AnyStatus(rows, k) == Cardinality(Located(k))

PublishedIn(rows, k) ==
    Cardinality({c \in Located(k) : rows[c].status = "published"})

\* Most published first.  asked holds the countries the search text names, all without one.
fetch_admin_countries(rows, asked, page, per_page) ==
    LET matched == {k \in asked : Located(k) # {}}
        listed  == OrderBy(matched,
                           [k \in matched |-> <<- PublishedIn(rows, k), countryRank[k]>>])
    IN  [total |-> Cardinality(matched),
         rows  |-> [n \in DOMAIN PageOf(listed, page, per_page) |->
                       LET k == PageOf(listed, page, per_page)[n]
                       IN  [code |-> k, published |-> PublishedIn(rows, k)]]]

\* by_kind counts what is published.
fetch_admin_country(rows, k) ==
    [kpis    |-> Counts(rows, Located(k)),
     by_kind |-> [kind \in DOMAIN KIND_RANK |->
                     Cardinality({c \in Located(k) : /\ rows[c].status = "published"
                                                     /\ kind \in contentOf[c].kinds})]]
=============================================================================

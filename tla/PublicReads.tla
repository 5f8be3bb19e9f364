----------------------------- MODULE PublicReads -----------------------------
(***************************************************************************)
(* What a reader is served: the top-level feed (feed_service.py), a search *)
(* (search_query.py, search_service.py, the statement of                   *)
(* search_repository.py) and one catalog's page, each a function of the    *)
(* rows its one statement sees.                                            *)
(*                                                                         *)
(* A link is [rel, type, host]; a media type is [name, blank], its name in *)
(* lower case without parameters and the white space left around it.  A    *)
(* catalog's search document is words, the label each of its lexemes       *)
(* carries, and alike, how similar its names are to a typed text.          *)
(***************************************************************************)
EXTENDS Registry, Languages

CONSTANTS
    PAGE_SIZE,
    MAX_RESULTS,
    MAX_QUERY_CHUNKS,
    WORD_SIMILARITY_THRESHOLD,
    Lexemes   \* the typed words that produce a lexeme; punctuation produces none

MAX_PAGE == (MAX_RESULTS + PAGE_SIZE - 1) \div PAGE_SIZE

\* A last page that MAX_RESULTS cuts short would show more than the total says.
ASSUME PagesAssumption ==
    /\ PAGE_SIZE \in Nat \ {0} /\ MAX_RESULTS \in Nat \ {0}
    /\ MAX_RESULTS % PAGE_SIZE = 0
    /\ MAX_QUERY_CHUNKS \in Nat \ {0}
    /\ \A c \in Catalogs : /\ contentOf[c].created_at \in Nat
                           /\ contentOf[c].languages \subseteq Seq(DOMAIN Lowercase) \ {<< >>}
                           /\ DOMAIN contentOf[c].words \subseteq Lexemes
                           /\ IsFiniteSet(DOMAIN contentOf[c].words)

-----------------------------------------------------------------------------
(* Restrictions: a subset of the three names. *)

RESTRICTIONS    == {"opds", "no-open", "no-audiobook"}
OPDS_MEDIA_TYPE == "application/opds+json"

\* str.strip takes every kind of white space.
is_opds2_media_type(type) == type.name = OPDS_MEDIA_TYPE

allows(c, restrictions) ==
    /\ "opds" \in restrictions =>
          \E link \in contentOf[c].links :
             link.rel = "catalog" /\ is_opds2_media_type(link.type)
    /\ "no-open" \in restrictions => "open" \notin contentOf[c].kinds
    /\ "no-audiobook" \in restrictions => contentOf[c].publication_types # {"audiobook"}

\* Mutant: a catalog with an audiobook among others is left out too.
PassesRestrictions_AnyAudiobook(c, restrictions) ==
    /\ "opds" \in restrictions =>
          \E link \in contentOf[c].links :
             /\ link.rel = "catalog"
             /\ link.type.name = OPDS_MEDIA_TYPE /\ link.type.blank # "tab"
    /\ "no-open" \in restrictions => "open" \notin contentOf[c].kinds
    /\ "no-audiobook" \in restrictions => "audiobook" \notin contentOf[c].publication_types

\* The same rules as conditions of the search statement; trim takes spaces only.
PassesRestrictions(c, restrictions) ==
    /\ "opds" \in restrictions =>
          \E link \in contentOf[c].links :
             /\ link.rel = "catalog"
             /\ link.type.name = OPDS_MEDIA_TYPE /\ link.type.blank # "tab"
    /\ "no-open" \in restrictions => "open" \notin contentOf[c].kinds
    /\ "no-audiobook" \in restrictions =>
          ~ /\ "audiobook" \in contentOf[c].publication_types
            /\ contentOf[c].publication_types \ {"audiobook"} = {}

-----------------------------------------------------------------------------
(* The feed. *)

\* Newest first, then title, then id.
fetch_recommended_catalogs(rows) ==
    OrderBy({c \in HasStatus(rows, {"published"}) : rows[c].recommended},
            [c \in Catalogs |-> <<- contentOf[c].created_at, contentOf[c].title, c>>])

\* Mutant: within a range the shallower match leads.
Rank_Shallow(c, ranges) ==
    LET match == rank_language_match(ranges, contentOf[c].languages)
    IN  CASE contentOf[c].languages = {} -> <<1, 0, 0, - contentOf[c].created_at>>
          [] contentOf[c].languages # {} /\ match = << >> -> << >>
          [] OTHER -> <<0, match[1], match[2], - contentOf[c].created_at>>

\* The sort key, << >> for a catalog the request excludes.
Rank(c, ranges) ==
    LET match == rank_language_match(ranges, contentOf[c].languages)
    IN  CASE contentOf[c].languages = {} -> <<1, 0, 0, - contentOf[c].created_at>>
          [] contentOf[c].languages # {} /\ match = << >> -> << >>
          [] OTHER -> <<0, match[1], - match[2], - contentOf[c].created_at>>

\* The catalogs that have a rank, best first; equal ones keep the statement's order.  No ranges: only
\* what is scoped to no language.
FeedOf(catalogs, ranges) ==
    LET ranked   == Kept(catalogs, {n \in DOMAIN catalogs : Rank(catalogs[n], ranges) # << >>})
        unscoped == {n \in DOMAIN catalogs : contentOf[catalogs[n]].languages = {}}
    IN  IF ranges = << >>
          THEN Kept(catalogs, unscoped)
          ELSE SortedBy(ranked, [n \in DOMAIN ranked |-> Rank(ranked[n], ranges)])

\* The feeds a header may lead to.
resolve_top_level_feed(rows, header, restrictions) ==
    LET found    == fetch_recommended_catalogs(rows)
        catalogs == Kept(found, {n \in DOMAIN found : allows(found[n], restrictions)})
    IN  {FeedOf(catalogs, ranges) : ranges \in parse_accept_language(header)}

-----------------------------------------------------------------------------
(* Search.  A typed text is a sequence of chunks [word, quoted, negated]. *)

\* A bare OR and a blank phrase are dropped; the chunks kept are counted, and counting stops.
parse_search_query(text) ==
    LET kept  == SelectSeq(text, LAMBDA chunk :
                    IF chunk.quoted THEN chunk.word # "" ELSE chunk.word # "OR")
        read  == SubSeq(kept, 1, Min({Len(kept), MAX_QUERY_CHUNKS}))
        words(negated) ==
            LET those == SelectSeq(read, LAMBDA chunk : chunk.negated = negated)
            IN  [n \in DOMAIN those |-> those[n].word]
    IN  [positives |-> words(FALSE), negatives |-> words(TRUE)]

is_empty(query) == query.positives = << >>

\* NULL when no positive chunk has a lexeme.
NoQuery == [any |-> {}, none |-> {}]
registry_query(positives, negatives) ==
    IF positives \cap Lexemes = {} THEN NoQuery
      ELSE [any |-> positives \cap Lexemes, none |-> negatives \cap Lexemes]

\* cs.document @@ query; a NULL query matches nothing.
Holds(c, query) ==
    LET document == DOMAIN contentOf[c].words
    IN  document \cap query.any # {} /\ document \cap query.none = {}

RANK_WEIGHTS == [A |-> 10, B |-> 4, C |-> 2]

\* ts_rank, without its normalisation: what matters here is that it is a number of the document
\* and the query alone.
Score(c, positives) ==
    LET found(label) == Cardinality({word \in positives \cap DOMAIN contentOf[c].words :
                                        contentOf[c].words[word] = label})
    IN  RANK_WEIGHTS.A * found("A") + RANK_WEIGHTS.B * found("B") + RANK_WEIGHTS.C * found("C")

\* The typo half: catalogs that are no word hit, and hold no excluded word.
TrigramHits(positives, negatives, word_hits) ==
    {c \in Catalogs \ word_hits :
        /\ positives # << >>
        /\ contentOf[c].alike[positives] >= WORD_SIMILARITY_THRESHOLD
        /\ ~ Holds(c, registry_query(negatives, {}))}

\* The statement: every published hit, word hits first, and one page of them with the total.
WordHits(query) ==
    {c \in Catalogs : Holds(c, registry_query(Range(query.positives), Range(query.negatives)))}
Hits(rows, query, restrictions) ==
    {c \in WordHits(query)
              \cup TrigramHits(query.positives, Range(query.negatives), WordHits(query)) :
        c \in HasStatus(rows, {"published"}) /\ PassesRestrictions(c, restrictions)}
SearchKey(query, c) ==
    IF c \in WordHits(query)
      THEN <<1, - Score(c, Range(query.positives)), - contentOf[c].created_at, c>>
      ELSE <<2, - contentOf[c].alike[query.positives], - contentOf[c].created_at, c>>
SearchRanking(rows, query, restrictions) ==
    LET hits == Hits(rows, query, restrictions)
    IN  OrderBy(hits, [c \in hits |-> SearchKey(query, c)])

PageOf(list, page, size) ==
    SubSeq(list, (page - 1) * size + 1, Min({page * size, Len(list)}))

search_catalogs(rows, query, page, restrictions) ==
    LET ranking == SearchRanking(rows, query, restrictions)
    IN  [total |-> Len(ranking), catalogs |-> PageOf(ranking, page, PAGE_SIZE)]

\* No chunk to find: nothing is asked of the database.
EmptyPage == [total |-> 0, catalogs |-> << >>]

Capped(result) == [result EXCEPT !.total = Min({@, MAX_RESULTS})]

\* Mutant: `next` whenever the total says there is more.
HasNext_Uncapped(result, page) == page * PAGE_SIZE <= result.total

HasNext(result, page) == page < MAX_PAGE /\ page * PAGE_SIZE < result.total

render_search_results(result, page) ==
    [served |-> result.catalogs,
     total  |-> result.total,
     next   |-> IF HasNext(result, page) THEN page + 1 ELSE 0]

-----------------------------------------------------------------------------
(* One catalog's page: a published or an unpublished one. *)

fetch_catalog_by_id(rows, c) ==
    IF c \in HasStatus(rows, {"published", "unpublished"}) THEN <<c>> ELSE << >>
=============================================================================

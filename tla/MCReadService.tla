---------------------------- MODULE MCReadService ----------------------------
(* Four catalogs, their readers and the admin lists for TLC. *)
EXTENDS ReadService, TLC

CONSTANTS r1, r2

Lower == "fr" :> "fr" @@ "FR" :> "fr" @@ "be" :> "be" @@ "BE" :> "be" @@ "ca" :> "ca"
         @@ "en" :> "en" @@ "x" :> "x" @@ "*" :> "*"

Opds(blank) == [name |-> OPDS_MEDIA_TYPE, blank |-> blank]
Html        == [name |-> "text/html", blank |-> ""]
Link(rel, type, host) == [rel |-> rel, type |-> type, host |-> host]

\* How alike a catalog's names are to each text the searches below type.
Alike(lib, dot) == <<"lib">> :> lib @@ <<".">> :> dot @@ <<".", "lib">> :> lib @@ << >> :> 0

\* Two French-language libraries, one of them Belgian and also in two lists of kinds; an open
\* collection in every language; and an English audiobook shop whose name a typo away is "lib".
Shelf ==
    1 :> [title |-> 2, created_at |-> 2, languages |-> {<<"fr">>}, kinds |-> {"public"},
          publication_types |-> {"ebook"}, coverage |-> "local", country |-> "FR",
          links |-> {Link("catalog", Opds(""), "h1"), Link("shelf", Html, "h2")},
          words |-> "lib" :> "A" @@ "paris" :> "B", alike |-> Alike(9, 0)] @@
    2 :> [title |-> 1, created_at |-> 2, languages |-> {<<"fr", "be">>, <<"en">>},
          kinds |-> {"academic", "school"}, publication_types |-> {"ebook", "audiobook"},
          coverage |-> "country", country |-> "BE",
          links |-> {Link("catalog", Opds("space"), "h3")},
          words |-> "lib" :> "B" @@ "bru" :> "C", alike |-> Alike(9, 0)] @@
    3 :> [title |-> 1, created_at |-> 3, languages |-> {}, kinds |-> {"open"},
          publication_types |-> {}, coverage |-> "global", country |-> NoCountry,
          links |-> {Link("catalog", Opds("tab"), "h4"), Link("search", Opds(""), "h4")},
          words |-> "lib" :> "A", alike |-> Alike(9, 0)] @@
    4 :> [title |-> 3, created_at |-> 1, languages |-> {<<"en">>}, kinds |-> {},
          publication_types |-> {"audiobook"}, coverage |-> "country", country |-> "BE",
          links |-> {Link("shelf", Html, "h5")},
          words |-> "bru" :> "C", alike |-> Alike(6, 0)]

Published == [c \in Catalogs |-> [status |-> "published", recommended |-> TRUE]]

TwoAndOne == "read" :> 2 @@ "search" :> 1

-----------------------------------------------------------------------------
Tags      == {<<"fr">>, <<"FR", "BE">>, <<"fr", "ca">>, <<"fr", "x", "be">>, <<"*">>, << >>}
Qualities == {Unstated, Number(0), Number(4), Number(5000), NaN}
Elements  == [tag : Tags, q : Qualities]
Likely    == [tag : {<<"fr">>, <<"FR", "BE">>, <<"*">>}, q : {Unstated, Number(5000), NaN}]

SomeHeaders ==
    {<< >>} \cup [1..1 -> Elements] \cup [1..2 -> Elements] \cup [1..3 -> Likely]
      \cup { <<e, [tag |-> << >>, q |-> Unstated], f, g>> :
               e, f, g \in {[tag |-> <<"en">>, q |-> Malformed],
                            [tag |-> <<"fr">>, q |-> Number(20000)],
                            [tag |-> <<"FR">>, q |-> Number(-1)]} }

Word(word)   == [word |-> word, quoted |-> FALSE, negated |-> FALSE]
Phrase(word) == [word |-> word, quoted |-> TRUE, negated |-> FALSE]
Not(word)    == [word |-> word, quoted |-> FALSE, negated |-> TRUE]

Search(text, restrictions, number) ==
    [NoRequest EXCEPT !.endpoint = "search", !.text = text, !.restrictions = restrictions,
                      !.page = number]

\* One reader searches, beyond the cap and past the end too; the other takes a connection of each
\* pool.
SomeRequests ==
    r1 :> { [NoRequest EXCEPT !.endpoint = "catalog", !.id = 1],
            Search(<<Word("lib")>>, {}, 1),
            Search(<<Word("OR"), Word("."), Word("lib"), Not("bru"), Word("paris")>>, {"no-open"}, 1),
            Search(<<Phrase(""), Not("lib")>>, {}, 1) } @@
    r2 :> { [NoRequest EXCEPT !.endpoint = "feed"],
            Search(<<Word("lib")>>, {}, 2) }

\* Any language but French.
RefusingFrench ==
    r1 :> { [NoRequest EXCEPT !.endpoint = "feed",
                              !.header = << [tag |-> <<"*">>, q |-> Unstated],
                                            [tag |-> <<"fr">>, q |-> Number(0)] >>] } @@
    r2 :> { [NoRequest EXCEPT !.endpoint = "feed"] }

SomeAdminQueries ==
    { [Unfiltered EXCEPT !.statuses = Statuses, !.sort = sort] :
        sort \in {"name", "-name", "kind", "status"} } \cup
    { [Unfiltered EXCEPT !.words = {"lib"}, !.kinds = {"public", "open"}],
      [Unfiltered EXCEPT !.words = {"h1"}, !.types = {"ebook"}, !.coverages = {"local"}] }

ByName == "BE" :> 1 @@ "FR" :> 2 @@ "JP" :> 3
=============================================================================

--------------------------- MODULE SeedImportProofs ---------------------------
(***************************************************************************)
(* What SeedImport guarantees for any documents, in files of any length,   *)
(* over any number of runs that commit, fail or crash.                     *)
(***************************************************************************)
EXTENDS SeedImport, TLAPS

-----------------------------------------------------------------------------
(* Types. *)

WriteType == [id : Ids, created : BOOLEAN, content : Contents]

\* What the session has still to write is a document, and it is the only row in the transaction
\* whose content is not one: its links are already deleted.
Staging ==
    /\ unflushed = << >> \/ \E w \in WriteType : unflushed = <<w>>
    /\ \A id \in DOMAIN staged :
          staged[id] \in Contents \/ (unflushed # << >> /\ unflushed[1].id = id)
    /\ position = 0 => unflushed = << >> /\ staged = NoRows
    /\ position <= Len(feed) + 1

Typed == TypeOK /\ Staging

\* What a document is looked up as is the id of one, and a document has content.
LEMMA DocumentTypes ==
  ASSUME NEW d \in Documents
  PROVE  /\ resolve_catalog_id(d) \in Ids
         /\ [title |-> d.title, links |-> d.links] \in Contents
  BY DEF Ids, Contents

\* A source file is a sequence of its world's documents, within the bound.
LEMMA FeedType ==
  ASSUME NEW w \in Worlds, NEW f \in Feeds(w)
  PROVE  /\ Len(f) \in Nat \ {0} /\ Len(f) <= MaxFeed[w] /\ DOMAIN f = 1..Len(f)
         /\ \A n \in DOMAIN f : f[n] \in Documents
<1>1. PICK n \in 1..MaxFeed[w] : f \in [1..n -> w]
  BY DEF Feeds
<1>2. MaxFeed[w] \in Nat \ {0}
  BY DocumentsAssumption
<1>3. n \in Nat /\ DOMAIN f = 1..n
  BY <1>1, <1>2
<1>4. Len(f) = n
  BY <1>3
<1>5. \A m \in DOMAIN f : f[m] \in Documents
  BY <1>1, <1>3 DEF Documents
<1> QED BY <1>1, <1>2, <1>3, <1>4, <1>5

\* The transaction's rows once what is pending is written are documents, all of them.
LEMMA FlushedType ==
  ASSUME Typed
  PROVE  /\ DOMAIN Flushed \subseteq Ids
         /\ \A id \in DOMAIN Flushed : Flushed[id] \in Contents
<1>1. CASE unflushed = << >>
  BY <1>1 DEF Typed, Staging, TypeOK, Flushed
<1>2. CASE unflushed # << >>
  <2>1. PICK w \in WriteType : unflushed = <<w>>
    BY <1>2 DEF Typed, Staging
  <2>2. unflushed[1] = w /\ w.id \in Ids /\ w.content \in Contents
    BY <2>1 DEF WriteType
  <2>3. Flushed = Written(staged, w)
    BY <1>2, <2>2 DEF Flushed
  <2>4. DOMAIN staged \subseteq Ids
        /\ \A id \in DOMAIN staged : staged[id] \in Contents \/ w.id = id
    BY <2>2 DEF Typed, Staging, TypeOK
  <2> QED BY <2>2, <2>3, <2>4 DEF Written
<1> QED BY <1>1, <1>2

LEMMA InitTyped == Init => Typed
<1> SUFFICES ASSUME Init PROVE Typed
  OBVIOUS
<1>1. MaxFeed[world] \in Nat
  BY DocumentsAssumption DEF Init
<1>2. TypeOK
  BY <1>1 DEF Init, TypeOK, NoRows
<1>3. Staging
  BY DEF Init, Staging, NoRows
<1> QED BY <1>2, <1>3 DEF Typed

LEMMA NextTyped == Typed /\ [Next]_vars => Typed'
<1> SUFFICES ASSUME Typed, [Next]_vars PROVE Typed'
  OBVIOUS
<1>a. ASSUME NEW how \in {"failed", "done", "crashed"}, End(how), UNCHANGED <<world, feed>>,
             DOMAIN stored' \subseteq Ids, \A id \in DOMAIN stored' : stored'[id] \in Contents,
             previous' \in {previous, feed}
      PROVE  Typed'
  <2>1. position' = 0 /\ unflushed' = << >> /\ staged' = NoRows /\ outcome' = how
    BY <1>a DEF End
  <2>2. MaxFeed[world] \in Nat
    BY DocumentsAssumption DEF Typed, TypeOK
  <2>3. Len(feed) \in Nat
    <3>1. CASE feed = << >>
      BY <3>1
    <3>2. CASE feed \in Feeds(world)
      BY <3>2, FeedType DEF Typed, TypeOK
    <3> QED BY <3>1, <3>2 DEF Typed, TypeOK
  <2>4. TypeOK'
    BY <1>a, <2>1, <2>2 DEF Typed, TypeOK, NoRows
  <2>5. Staging'
    BY <1>a, <2>1, <2>3 DEF Staging, NoRows
  <2> QED BY <2>4, <2>5 DEF Typed
<1>1. CASE UNCHANGED vars
  BY <1>1 DEF vars, Typed, TypeOK, Staging
<1>2. ASSUME NEW f \in Feeds(world), Start(f) PROVE Typed'
  <2>1. world \in Worlds /\ MaxFeed[world] \in Nat \ {0}
    BY DocumentsAssumption DEF Typed, TypeOK
  <2>2. Len(f) \in Nat \ {0} /\ f # << >>
    BY <2>1, FeedType
  <2>3. /\ feed' = f /\ unflushed = << >> /\ staged = NoRows
        /\ UNCHANGED <<world, stored, unflushed, previous>>
    BY <1>2 DEF Start, Typed, Staging
  <2>4. \/ outcome' = "refused" /\ staged' = NoRows /\ position' = 0
        \/ outcome' = "none" /\ staged' = stored /\ position' = 1
    BY <1>2, <2>3 DEF Start
  <2>5. TypeOK'
    BY <2>1, <2>3, <2>4 DEF Typed, TypeOK, NoRows
  <2>6. Staging'
    BY <2>2, <2>3, <2>4 DEF Typed, TypeOK, Staging, NoRows
  <2> QED BY <2>5, <2>6 DEF Typed
<1>3. CASE ImportDocument
  <2> DEFINE d        == feed[position]
             content  == [title |-> d.title, links |-> d.links]
             existing == resolve_existing_catalog(Flushed, d)
  <2>1. world \in Worlds /\ MaxFeed[world] \in Nat \ {0} /\ position \in Nat
    BY DocumentsAssumption DEF Typed, TypeOK
  <2>2. feed \in Feeds(world)
    <3>1. feed # << >>
      BY <1>3 DEF ImportDocument
    <3> QED BY <3>1 DEF Typed, TypeOK
  <2>3. /\ d \in Documents /\ position \in 1..Len(feed)
        /\ Len(feed) \in Nat /\ Len(feed) <= MaxFeed[world]
    BY <1>3, <2>1, <2>2, FeedType DEF ImportDocument
  <2>4. resolve_catalog_id(d) \in Ids /\ content \in Contents
    BY <2>3, DocumentTypes
  <2>5. existing \subseteq DOMAIN Flushed
    BY DEF resolve_existing_catalog, fetch_catalog_by_identity_href
  <2>6. /\ UNCHANGED <<world, stored, feed, outcome, previous>> /\ position' = position + 1
        /\ \/ /\ staged' = Flushed
              /\ unflushed' =
                    <<[id |-> resolve_catalog_id(d), created |-> TRUE, content |-> content]>>
           \/ \E id \in existing :
              /\ staged' = Written(Flushed, [id |-> id,
                              content |-> [title |-> Flushed[id].title, links |-> {}]])
              /\ unflushed' = <<[id |-> id, created |-> FALSE, content |-> content]>>
    BY <1>3 DEF ImportDocument
  <2> HIDE DEF d, content, existing
  <2>7. /\ DOMAIN staged' \subseteq Ids
        /\ \E w \in WriteType :
              /\ unflushed' = <<w>>
              /\ \A id \in DOMAIN staged' : staged'[id] \in Contents \/ w.id = id
    <3>1. CASE /\ staged' = Flushed
               /\ unflushed' =
                     <<[id |-> resolve_catalog_id(d), created |-> TRUE, content |-> content]>>
      BY <2>4, <3>1, FlushedType DEF WriteType
    <3>2. ASSUME NEW id \in existing,
                 staged' = Written(Flushed, [id |-> id,
                              content |-> [title |-> Flushed[id].title, links |-> {}]]),
                 unflushed' = <<[id |-> id, created |-> FALSE, content |-> content]>>
          PROVE  /\ DOMAIN staged' \subseteq Ids
                 /\ \E w \in WriteType :
                       /\ unflushed' = <<w>>
                       /\ \A k \in DOMAIN staged' : staged'[k] \in Contents \/ w.id = k
      <4>1. id \in Ids
        BY <2>5, FlushedType
      <4>2. [id |-> id, created |-> FALSE, content |-> content] \in WriteType
        BY <2>4, <4>1 DEF WriteType
      <4>3. DOMAIN staged' = DOMAIN Flushed \cup {id}
        BY <3>2 DEF Written
      <4>4. \A k \in DOMAIN Flushed \ {id} : staged'[k] = Flushed[k]
        BY <3>2 DEF Written
      <4> QED BY <3>2, <4>1, <4>2, <4>3, <4>4, FlushedType
    <3> QED BY <2>6, <3>1, <3>2
  <2>8. TypeOK'
    BY <2>1, <2>3, <2>6, <2>7 DEF Typed, TypeOK
  <2>9. Staging'
    BY <2>1, <2>3, <2>6, <2>7 DEF Staging
  <2> QED BY <2>8, <2>9 DEF Typed
<1>4. CASE Fail
  BY <1>4, <1>a DEF Fail, Typed, TypeOK
<1>5. CASE Commit
  BY <1>5, <1>a, FlushedType DEF Commit
<1>6. CASE Crash
  BY <1>6, <1>a DEF Crash, Typed, TypeOK
<1> QED BY <1>1, <1>2, <1>3, <1>4, <1>5, <1>6 DEF Next

LEMMA TypedHolds == Spec => []Typed
BY InitTyped, NextTyped, PTL DEF Spec

\* Type correctness: what is committed are the documents' contents under the documents' ids.
THEOREM TypeCorrect == Spec => []TypeOK
<1>1. Typed => TypeOK
  BY DEF Typed
<1> QED BY <1>1, TypedHolds, PTL

-----------------------------------------------------------------------------
(* One URL is one catalog. *)

EachItsHrefs(rows) ==
    \A i, j \in DOMAIN rows :
        i # j => IdentityHrefs(rows[i].links) \cap IdentityHrefs(rows[j].links) = {}

\* What a flush that breaks no constraint writes shares no href with another row.
LEMMA FlushKeepsHrefs ==
  ASSUME Typed, EachItsHrefs(staged), ~ FlushFails
  PROVE  EachItsHrefs(Flushed)
<1>1. CASE unflushed = << >>
  BY <1>1 DEF Flushed
<1>2. CASE unflushed # << >>
  <2>1. PICK w \in WriteType : unflushed = <<w>>
    BY <1>2 DEF Typed, Staging
  <2> DEFINE rels == {link \in w.content.links : link[1] \in IDENTITY_RELS}
  <2>2. unflushed[1] = w /\ Flushed = Written(staged, w)
    BY <1>2, <2>1 DEF Flushed
  <2>3. IdentityHrefs(rels) = IdentityHrefs(w.content.links)
    BY DEF IdentityHrefs
  <2>4. \A id \in DOMAIN staged \ {w.id} :
           IdentityHrefs(staged[id].links) \cap IdentityHrefs(w.content.links) = {}
    BY <1>2, <2>2, <2>3 DEF FlushFails
  <2>5. /\ Flushed[w.id] = w.content
        /\ \A id \in DOMAIN Flushed \ {w.id} : id \in DOMAIN staged /\ Flushed[id] = staged[id]
    BY <2>2 DEF Written
  <2> SUFFICES ASSUME NEW i \in DOMAIN Flushed, NEW j \in DOMAIN Flushed, i # j
               PROVE  IdentityHrefs(Flushed[i].links) \cap IdentityHrefs(Flushed[j].links) = {}
    BY DEF EachItsHrefs
  <2>6. CASE i = w.id
    BY <2>4, <2>5, <2>6
  <2>7. CASE j = w.id
    BY <2>4, <2>5, <2>7
  <2>8. CASE i # w.id /\ j # w.id
    BY <2>5, <2>8 DEF EachItsHrefs
  <2> QED BY <2>6, <2>7, <2>8
<1> QED BY <1>1, <1>2

HrefsApart == EachItsHrefs(stored) /\ EachItsHrefs(staged)

LEMMA NextHrefsApart == Typed /\ HrefsApart /\ [Next]_vars => HrefsApart'
<1> SUFFICES ASSUME Typed, HrefsApart, [Next]_vars PROVE HrefsApart'
  OBVIOUS
<1>a. ASSUME NEW how, End(how), EachItsHrefs(stored') PROVE HrefsApart'
  BY <1>a DEF End, HrefsApart, EachItsHrefs, NoRows
<1>1. CASE UNCHANGED vars
  BY <1>1 DEF vars, HrefsApart, EachItsHrefs
<1>2. ASSUME NEW f \in Feeds(world), Start(f) PROVE HrefsApart'
  BY <1>2 DEF Start, HrefsApart, EachItsHrefs
<1>3. CASE ImportDocument
  <2> DEFINE existing == resolve_existing_catalog(Flushed, feed[position])
  <2>1. EachItsHrefs(Flushed)
    BY <1>3, FlushKeepsHrefs DEF ImportDocument, HrefsApart
  <2>2. /\ stored' = stored
        /\ \/ staged' = Flushed
           \/ \E id \in existing :
                 staged' = Written(Flushed, [id |-> id,
                              content |-> [title |-> Flushed[id].title, links |-> {}]])
    BY <1>3 DEF ImportDocument
  <2>3. existing \subseteq DOMAIN Flushed
    BY DEF resolve_existing_catalog, fetch_catalog_by_identity_href
  <2> HIDE DEF existing
  <2>4. ASSUME NEW id \in existing,
               staged' = Written(Flushed, [id |-> id,
                            content |-> [title |-> Flushed[id].title, links |-> {}]])
        PROVE  EachItsHrefs(staged')
    <3>1. DOMAIN staged' = DOMAIN Flushed /\ staged'[id].links = {}
      BY <2>3, <2>4 DEF Written
    <3>2. \A k \in DOMAIN Flushed \ {id} : staged'[k] = Flushed[k]
      BY <2>4 DEF Written
    <3>3. IdentityHrefs({}) = {}
      BY DEF IdentityHrefs
    <3> QED BY <2>1, <3>1, <3>2, <3>3 DEF EachItsHrefs
  <2>5. EachItsHrefs(staged')
    BY <2>1, <2>2, <2>4
  <2> QED BY <2>2, <2>5 DEF HrefsApart
<1>4. CASE Fail
  BY <1>4, <1>a DEF Fail, HrefsApart
<1>5. CASE Commit
  BY <1>5, <1>a, FlushKeepsHrefs DEF Commit, HrefsApart
<1>6. CASE Crash
  BY <1>6, <1>a DEF Crash, HrefsApart
<1> QED BY <1>1, <1>2, <1>3, <1>4, <1>5, <1>6 DEF Next

\* Whatever is imported, however badly the files name their catalogs, and whichever runs fail: a
\* href is matched on finds at most one row.
THEOREM OneCatalogPerHref == Spec => []LookupIsUnambiguous
<1>1. Init => HrefsApart
  BY DEF Init, HrefsApart, EachItsHrefs, NoRows
<1>2. Spec => []HrefsApart
  BY <1>1, NextHrefsApart, TypedHolds, PTL DEF Spec
<1>3. HrefsApart => LookupIsUnambiguous
  BY DEF HrefsApart, EachItsHrefs, LookupIsUnambiguous, fetch_catalog_by_identity_href
<1> QED BY <1>2, <1>3, PTL

-----------------------------------------------------------------------------
(* Well-named files.  A catalog is told by its title: every row that holds it has the id its     *)
(* documents resolve to, so that what a document is looked up as is that row or none, no flush   *)
(* meets another catalog's href, and no document of a checked file is written over by a later    *)
(* one.                                                                                          *)

ContentOf(d) == [title |-> d.title, links |-> d.links]

IsNamed(rows, id) ==
    \E d \in world : id = resolve_catalog_id(d) /\ rows[id] = ContentOf(d)

AllNamed(rows) == \A id \in DOMAIN rows : IsNamed(rows, id)

Holds(rows, d) ==
    resolve_catalog_id(d) \in DOMAIN rows /\ rows[resolve_catalog_id(d)] = ContentOf(d)

\* The row an object is about to rewrite is the only one that is not a document's by now; an object
\* that is new has no row.
PendingNamed ==
    unflushed # << >> =>
        /\ \E d \in world : unflushed[1].id = resolve_catalog_id(d) /\ unflushed[1].content = ContentOf(d)
        /\ unflushed[1].created => unflushed[1].id \notin DOMAIN staged

StagedNamed ==
    \A id \in DOMAIN staged : IsNamed(staged, id) \/ (unflushed # << >> /\ unflushed[1].id = id)

\* The transaction holds the documents it has read, whether flushed or not.
RunFollowed ==
    position # 0 =>
        /\ ~ identities_clash(feed)
        /\ \A n \in DOMAIN feed : n < position => Holds(Flushed, feed[n])
        /\ feed = previous => Flushed = stored

HistoryKept ==
    /\ outcome # "failed"
    /\ outcome = "done" => \A n \in DOMAIN feed : Holds(stored, feed[n])
    /\ \A n \in DOMAIN previous : Holds(stored, previous[n])

AreRows(rows) == rows = [id \in DOMAIN rows |-> rows[id]]

Followed == /\ AreRows(stored) /\ AreRows(staged)
            /\ AllNamed(stored) /\ StagedNamed /\ PendingNamed
            /\ RunFollowed /\ HistoryKept

LEMMA IdentityHref ==
  ASSUME NEW d \in Documents
  PROVE  resolve_identity_href(d) \in IdentityHrefs(d.links)
<1> DEFINE of(rel) == {link[2] : link \in {l \in d.links : l[1] = rel}}
<1>1. of("catalog") \cup of("shelf") = IdentityHrefs(d.links)
  BY DEF IdentityHrefs, IDENTITY_RELS
<1>2. of("catalog") # {} \/ of("shelf") # {}
  BY <1>1, DocumentsAssumption
<1>3. resolve_identity_href(d) = IF of("catalog") # {} THEN CHOOSE href \in of("catalog") : TRUE
                                                      ELSE CHOOSE href \in of("shelf") : TRUE
  BY DEF resolve_identity_href
<1> HIDE DEF of
<1>4. resolve_identity_href(d) \in of("catalog") \cup of("shelf")
  BY <1>2, <1>3
<1> QED BY <1>1, <1>4

\* What good names tell of two documents.
LEMMA Told ==
  ASSUME WellNamed, world \in Worlds, NEW d \in world, NEW e \in world
  PROVE  /\ d.title = e.title <=> resolve_catalog_id(d) = resolve_catalog_id(e)
         /\ d.title = e.title => d.identifier = e.identifier
         /\ IdentityHrefs(d.links) \cap IdentityHrefs(e.links) # {} => d.title = e.title
<1>1. /\ d.title = e.title => d.identifier = e.identifier
      /\ IdentityHrefs(d.links) \cap IdentityHrefs(e.links) # {} => d.title = e.title
  BY DEF WellNamed
<1>2. d.title = e.title => resolve_catalog_id(d) = resolve_catalog_id(e)
  BY DEF WellNamed, resolve_catalog_id
<1>3. ASSUME resolve_catalog_id(d) = resolve_catalog_id(e) PROVE d.title = e.title
  <2>1. CASE d.identifier # NoIdentifier \/ e.identifier # NoIdentifier
    BY <1>3, <2>1 DEF WellNamed, resolve_catalog_id
  <2>2. CASE d.identifier = NoIdentifier /\ e.identifier = NoIdentifier
    <3>1. resolve_identity_href(d) = resolve_identity_href(e)
      BY <1>3, <2>2 DEF resolve_catalog_id, Uuid5
    <3>2. d \in Documents /\ e \in Documents
      BY DEF Documents
    <3>3. resolve_identity_href(d) \in IdentityHrefs(d.links) \cap IdentityHrefs(e.links)
      BY <3>1, <3>2, IdentityHref
    <3> QED BY <1>1, <3>3
  <2> QED BY <2>1, <2>2
<1> QED BY <1>1, <1>2, <1>3

LEMMA ContentParts ==
  ASSUME NEW d
  PROVE  ContentOf(d).title = d.title /\ ContentOf(d).links = d.links
  BY DEF ContentOf

\* A document is looked up as the row of its own id, if there is one.
LEMMA LooksUpItself ==
  ASSUME WellNamed, world \in Worlds, NEW rows, AllNamed(rows), NEW d \in world
  PROVE  resolve_existing_catalog(rows, d) = {resolve_catalog_id(d)} \cap DOMAIN rows
<1> DEFINE id   == resolve_catalog_id(d)
           href == resolve_identity_href(d)
<1>1. world \subseteq Documents
  BY DEF Documents
<1>2. href \in IdentityHrefs(d.links)
  BY <1>1, IdentityHref
<1>3. ASSUME NEW k \in DOMAIN rows, href \in IdentityHrefs(rows[k].links)
      PROVE  k = id
  <2>1. PICK e \in world : k = resolve_catalog_id(e) /\ rows[k] = ContentOf(e)
    BY DEF AllNamed, IsNamed
  <2>2. href \in IdentityHrefs(e.links)
    BY <1>3, <2>1, ContentParts
  <2>3. IdentityHrefs(d.links) \cap IdentityHrefs(e.links) # {}
    BY <1>2, <2>2
  <2> QED BY <2>1, <2>3, Told
<1>4. fetch_catalog_by_identity_href(rows, href) \subseteq {id} \cap DOMAIN rows
  BY <1>3 DEF fetch_catalog_by_identity_href
<1>5. CASE d.identifier # NoIdentifier /\ id \in DOMAIN rows
  BY <1>5 DEF resolve_existing_catalog
<1>6. CASE d.identifier # NoIdentifier /\ id \notin DOMAIN rows
  <2>1. resolve_existing_catalog(rows, d) = fetch_catalog_by_identity_href(rows, href)
    BY <1>6 DEF resolve_existing_catalog
  <2> QED BY <1>4, <1>6, <2>1
<1>7. CASE d.identifier = NoIdentifier
  <2>1. resolve_existing_catalog(rows, d) = fetch_catalog_by_identity_href(rows, href)
    BY <1>7 DEF resolve_existing_catalog
  <2>2. ASSUME id \in DOMAIN rows PROVE href \in IdentityHrefs(rows[id].links)
    <3>1. PICK e \in world : id = resolve_catalog_id(e) /\ rows[id] = ContentOf(e)
      BY <2>2 DEF AllNamed, IsNamed
    <3>2. e.identifier = NoIdentifier
      BY <1>7, <3>1, Told
    <3>3. Uuid5(href) = Uuid5(resolve_identity_href(e))
      BY <1>7, <3>1, <3>2 DEF resolve_catalog_id
    <3>4. href = resolve_identity_href(e)
      BY <3>3 DEF Uuid5
    <3>5. resolve_identity_href(e) \in IdentityHrefs(e.links)
      BY <1>1, IdentityHref
    <3> QED BY <3>1, <3>4, <3>5, ContentParts
  <2>3. id \in DOMAIN rows => id \in fetch_catalog_by_identity_href(rows, href)
    BY <2>2 DEF fetch_catalog_by_identity_href
  <2> QED BY <1>4, <2>1, <2>3
<1> QED BY <1>5, <1>6, <1>7

\* The pending object, as the record it is.
LEMMA Pending ==
  ASSUME Typed, unflushed # << >>
  PROVE  /\ Flushed = Written(staged, unflushed[1])
         /\ DOMAIN Flushed = DOMAIN staged \cup {unflushed[1].id}
         /\ Flushed[unflushed[1].id] = unflushed[1].content
         /\ \A id \in DOMAIN staged \ {unflushed[1].id} : Flushed[id] = staged[id]
<1>1. Flushed = Written(staged, unflushed[1])
  BY DEF Flushed
<1> QED BY <1>1 DEF Written

LEMMA FlushedNamed ==
  ASSUME Typed, StagedNamed, PendingNamed
  PROVE  AllNamed(Flushed)
<1>1. CASE unflushed = << >>
  BY <1>1 DEF Flushed, AllNamed, StagedNamed
<1>2. CASE unflushed # << >>
  <2>1. IsNamed(Flushed, unflushed[1].id)
    BY <1>2, Pending DEF PendingNamed, IsNamed
  <2>2. ASSUME NEW id \in DOMAIN staged \ {unflushed[1].id} PROVE IsNamed(Flushed, id)
    <3>1. Flushed[id] = staged[id]
      BY <1>2, Pending
    <3>2. IsNamed(staged, id)
      BY <1>2 DEF StagedNamed
    <3> QED BY <3>1, <3>2 DEF IsNamed
  <2> QED BY <1>2, <2>1, <2>2, Pending DEF AllNamed
<1> QED BY <1>1, <1>2

\* No constraint of the database is in the way of a well-named file.
LEMMA NoFlushFails ==
  ASSUME Typed, WellNamed, StagedNamed, PendingNamed
  PROVE  ~ FlushFails
<1> SUFFICES ASSUME FlushFails PROVE FALSE
  OBVIOUS
<1> DEFINE write == unflushed[1]
           rels  == {link \in write.content.links : link[1] \in IDENTITY_RELS}
<1>1. /\ unflushed # << >>
      /\ \/ write.created /\ write.id \in DOMAIN staged
         \/ \E l, m \in rels : l # m /\ l[2] = m[2]
         \/ \E id \in DOMAIN staged \ {write.id} :
               IdentityHrefs(staged[id].links) \cap IdentityHrefs(rels) # {}
  BY DEF FlushFails
<1>2. PICK d \in world : write.id = resolve_catalog_id(d) /\ write.content = ContentOf(d)
  BY <1>1 DEF PendingNamed
<1>3. rels = {link \in d.links : link[1] \in IDENTITY_RELS}
  BY <1>2, ContentParts
<1>4. IdentityHrefs(rels) = IdentityHrefs(d.links)
  BY <1>3 DEF IdentityHrefs
<1>5. CASE write.created /\ write.id \in DOMAIN staged
  BY <1>1, <1>5 DEF PendingNamed
<1>6. ASSUME NEW l \in rels, NEW m \in rels, l # m, l[2] = m[2] PROVE FALSE
  <2>1. l \in d.links /\ m \in d.links /\ {l[1], m[1]} \subseteq IDENTITY_RELS
    BY <1>3
  <2>2. \A k, n \in d.links : {k[1], n[1]} \subseteq IDENTITY_RELS /\ k[2] = n[2] => k = n
    BY DEF WellNamed
  <2> QED BY <1>6, <2>1, <2>2
<1>7. ASSUME NEW id \in DOMAIN staged \ {write.id},
             IdentityHrefs(staged[id].links) \cap IdentityHrefs(rels) # {}
      PROVE  FALSE
  <2>1. PICK e \in world : id = resolve_catalog_id(e) /\ staged[id] = ContentOf(e)
    BY <1>1 DEF StagedNamed, IsNamed
  <2>2. IdentityHrefs(e.links) \cap IdentityHrefs(d.links) # {}
    BY <1>4, <1>7, <2>1, ContentParts
  <2>3. id = write.id
    <3>1. world \in Worlds
      BY DEF Typed, TypeOK
    <3> QED BY <1>2, <2>1, <2>2, <3>1, Told
  <2> QED BY <2>3
<1> QED BY <1>1, <1>5, <1>6, <1>7

\* The last write of a row is what counts.
LEMMA WrittenAgain ==
  ASSUME NEW rows, NEW first, NEW write, first.id = write.id
  PROVE  Written(Written(rows, first), write) = Written(rows, write)
<1> DEFINE between == Written(rows, first)
<1>1. /\ DOMAIN between = DOMAIN rows \cup {write.id}
      /\ \A id \in DOMAIN rows \ {write.id} : between[id] = rows[id]
  BY DEF Written
<1> HIDE DEF between
<1>2. Written(between, write) = Written(rows, write)
  BY <1>1 DEF Written
<1> QED BY <1>2 DEF between

\* Writing what stands there changes nothing.
LEMMA WrittenSame ==
  ASSUME NEW rows, AreRows(rows), NEW write, write.id \in DOMAIN rows,
         rows[write.id] = write.content
  PROVE  Written(rows, write) = rows
<1>1. DOMAIN Written(rows, write) = DOMAIN rows
      /\ \A id \in DOMAIN rows : Written(rows, write)[id] = rows[id]
  BY DEF Written
<1>2. AreRows(Written(rows, write))
  BY DEF Written, AreRows
<1> QED BY <1>1, <1>2 DEF AreRows

LEMMA FeedOfWorld ==
  ASSUME Typed, feed # << >>
  PROVE  /\ Len(feed) \in Nat \ {0} /\ DOMAIN feed = 1..Len(feed)
         /\ \A n \in DOMAIN feed : feed[n] \in world
<1>1. world \in Worlds /\ feed \in Feeds(world)
  BY DEF Typed, TypeOK
<1>2. PICK n \in 1..MaxFeed[world] : feed \in [1..n -> world]
  BY <1>1 DEF Feeds
<1>3. \A m \in DOMAIN feed : feed[m] \in world
  BY <1>2
<1> QED BY <1>1, <1>3, FeedType

\* The documents of a checked file are of as many catalogs, each with an id of its own.
LEMMA OwnIds ==
  ASSUME ~ identities_clash(feed), NEW m \in DOMAIN feed, NEW n \in DOMAIN feed, m # n
  PROVE  resolve_catalog_id(feed[m]) # resolve_catalog_id(feed[n])
  BY DEF identities_clash

\* One document read: the row of its id is written with its content, however it was looked up.
LEMMA Imported ==
  ASSUME Typed, WellNamed, Followed, ImportDocument,
         NEW d, d = feed[position],
         NEW write, write = [id |-> resolve_catalog_id(d), content |-> ContentOf(d)]
  PROVE  /\ d \in world /\ Flushed' = Written(Flushed, write)
         /\ AreRows(staged') /\ StagedNamed' /\ PendingNamed'
<1> DEFINE id == resolve_catalog_id(d)
<1>1. position \in DOMAIN feed /\ feed # << >> /\ UNCHANGED <<world, stored, feed, outcome, previous>>
  BY DEF ImportDocument
<1>2. d \in world /\ world \in Worlds
  BY <1>1, FeedOfWorld DEF Typed, TypeOK
<1>3. AllNamed(Flushed)
  BY FlushedNamed DEF Followed
<1>4. resolve_existing_catalog(Flushed, d) = {id} \cap DOMAIN Flushed
  BY <1>2, <1>3, LooksUpItself
<1>5. \/ /\ id \notin DOMAIN Flushed /\ staged' = Flushed
         /\ unflushed' = <<[id |-> id, created |-> TRUE, content |-> ContentOf(d)]>>
      \/ /\ id \in DOMAIN Flushed
         /\ staged' = Written(Flushed, [id |-> id,
                         content |-> [title |-> Flushed[id].title, links |-> {}]])
         /\ unflushed' = <<[id |-> id, created |-> FALSE, content |-> ContentOf(d)]>>
  <2>1. LET content  == [title |-> d.title, links |-> d.links]
            existing == {id} \cap DOMAIN Flushed
        IN  \/ /\ existing = {}
               /\ staged'    = Flushed
               /\ unflushed' =
                     <<[id |-> id, created |-> TRUE, content |-> content]>>
            \/ \E k \in existing :
               /\ staged'    = Written(Flushed, [id |-> k,
                                  content |-> [title |-> Flushed[k].title, links |-> {}]])
               /\ unflushed' = <<[id |-> k, created |-> FALSE, content |-> content]>>
    BY <1>4 DEF ImportDocument
  <2> HIDE DEF id
  <2> QED BY <2>1 DEF ContentOf
<1> HIDE DEF id
<1>6. write.id = id /\ write.content = ContentOf(d)
  BY DEF id
<1>7. AreRows(Flushed)
  <2>1. CASE unflushed = << >>
    BY <2>1 DEF Flushed, Followed
  <2>2. CASE unflushed # << >>
    BY <2>2, Pending DEF Written, AreRows
  <2> QED BY <2>1, <2>2
<1>8. CASE /\ id \notin DOMAIN Flushed /\ staged' = Flushed
           /\ unflushed' = <<[id |-> id, created |-> TRUE, content |-> ContentOf(d)]>>
  <2>1. /\ unflushed' # << >> /\ unflushed'[1].id = id /\ unflushed'[1].created
        /\ unflushed'[1].content = ContentOf(d)
    BY <1>8
  <2>2. Flushed' = Written(Flushed, unflushed'[1])
    BY <1>8, <2>1 DEF Flushed
  <2>3. Flushed' = Written(Flushed, write)
    BY <1>6, <2>1, <2>2 DEF Written
  <2>4. StagedNamed'
    BY <1>1, <1>3, <1>8 DEF StagedNamed, AllNamed, IsNamed
  <2>5. PendingNamed'
    BY <1>1, <1>2, <1>8, <2>1 DEF PendingNamed, id
  <2> QED BY <1>2, <1>7, <1>8, <2>3, <2>4, <2>5
<1>9. CASE /\ id \in DOMAIN Flushed
           /\ staged' = Written(Flushed, [id |-> id,
                           content |-> [title |-> Flushed[id].title, links |-> {}]])
           /\ unflushed' = <<[id |-> id, created |-> FALSE, content |-> ContentOf(d)]>>
  <2> DEFINE bare == [id |-> id, content |-> [title |-> Flushed[id].title, links |-> {}]]
  <2>1. /\ unflushed' # << >> /\ unflushed'[1].id = id /\ ~ unflushed'[1].created
        /\ unflushed'[1].content = ContentOf(d)
    BY <1>9
  <2>2. bare.id = id /\ staged' = Written(Flushed, bare)
    BY <1>9
  <2> HIDE DEF bare
  <2>3. Flushed' = Written(staged', unflushed'[1])
    BY <2>1 DEF Flushed
  <2>4. Written(Written(Flushed, bare), unflushed'[1]) = Written(Flushed, unflushed'[1])
    BY <2>1, <2>2, WrittenAgain
  <2>5. Flushed' = Written(Flushed, write)
    <3>1. Written(Flushed, unflushed'[1]) = Written(Flushed, write)
      BY <1>6, <2>1 DEF Written
    <3> QED BY <2>2, <2>3, <2>4, <3>1
  <2>6. /\ DOMAIN staged' = DOMAIN Flushed
        /\ \A k \in DOMAIN Flushed \ {id} : staged'[k] = Flushed[k]
        /\ AreRows(staged')
    BY <1>9, <2>2 DEF Written, AreRows
  <2>7. StagedNamed'
    BY <1>1, <1>3, <2>1, <2>6 DEF StagedNamed, AllNamed, IsNamed
  <2>8. PendingNamed'
    BY <1>1, <1>2, <2>1 DEF PendingNamed, id
  <2> QED BY <1>2, <2>5, <2>6, <2>7, <2>8
<1> QED BY <1>5, <1>8, <1>9

LEMMA ImportFollowed ==
  ASSUME Typed, WellNamed, Followed, ImportDocument
  PROVE  Followed'
<1> DEFINE d     == feed[position]
           write == [id |-> resolve_catalog_id(d), content |-> ContentOf(d)]
<1>1. /\ d \in world /\ Flushed' = Written(Flushed, write)
      /\ AreRows(staged') /\ StagedNamed' /\ PendingNamed'
  BY Imported
<1>2. /\ position \in DOMAIN feed /\ feed # << >> /\ position' = position + 1
      /\ UNCHANGED <<world, stored, feed, outcome, previous>>
  BY DEF ImportDocument
<1>3. DOMAIN feed = 1..Len(feed) /\ Len(feed) \in Nat /\ position \in Nat /\ position # 0
  BY <1>2, FeedOfWorld
<1>4. write.id = resolve_catalog_id(d) /\ write.content = ContentOf(d)
  OBVIOUS
<1> HIDE DEF write
<1>5. ~ identities_clash(feed)
  BY <1>3 DEF Followed, RunFollowed
<1>6. ASSUME NEW n \in DOMAIN feed, n < position + 1 PROVE Holds(Flushed', feed[n])
  <2>1. CASE n = position
    BY <1>1, <1>4, <2>1 DEF Holds, Written
  <2>2. CASE n # position
    <3>1. n < position
      BY <1>3, <1>6, <2>2
    <3>2. Holds(Flushed, feed[n])
      BY <1>3, <3>1 DEF Followed, RunFollowed
    <3>3. resolve_catalog_id(feed[n]) # write.id
      BY <1>2, <1>4, <1>5, <2>2, OwnIds
    <3> QED BY <1>1, <3>2, <3>3 DEF Holds, Written
  <2> QED BY <2>1, <2>2
<1>7. ASSUME feed = previous PROVE Flushed' = stored
  <2>1. Flushed = stored /\ AreRows(stored)
    BY <1>3, <1>7 DEF Followed, RunFollowed
  <2>2. Holds(stored, d)
    BY <1>2, <1>7 DEF Followed, HistoryKept
  <2> QED BY <1>1, <1>4, <2>1, <2>2, WrittenSame DEF Holds
<1>8. RunFollowed'
  <2>1. (~ identities_clash(feed))'
    BY <1>2, <1>5
  <2>2. \A n \in DOMAIN feed : n < position + 1 => Holds(Flushed', feed[n])
    BY <1>6
  <2> QED BY <1>2, <1>7, <2>1, <2>2 DEF RunFollowed, Holds
<1>9. AllNamed(stored') /\ AreRows(stored') /\ AllNamed(stored)'
  BY <1>2 DEF Followed, AllNamed, IsNamed
<1>10. HistoryKept'
  BY <1>2 DEF Followed, HistoryKept, Holds
<1> QED BY <1>1, <1>8, <1>9, <1>10 DEF Followed

\* The end of a run that stores what it leaves as it was found.
LEMMA EndFollowed ==
  ASSUME Typed, Followed, NEW how, how \notin {"failed", "done"}, End(how),
         UNCHANGED <<world, stored, feed, previous>>
  PROVE  Followed'
<1>1. position' = 0 /\ unflushed' = << >> /\ staged' = NoRows /\ outcome' = how
  BY DEF End
<1>2. AreRows(stored)' /\ AreRows(staged)' /\ AllNamed(stored)'
  BY <1>1 DEF Followed, AreRows, NoRows, AllNamed, IsNamed
<1>3. StagedNamed' /\ PendingNamed'
  BY <1>1 DEF StagedNamed, PendingNamed, NoRows
<1>4. RunFollowed'
  BY <1>1 DEF RunFollowed
<1>5. HistoryKept'
  BY <1>1 DEF Followed, HistoryKept, Holds
<1> QED BY <1>2, <1>3, <1>4, <1>5 DEF Followed

LEMMA CommitFollowed ==
  ASSUME Typed, WellNamed, Followed, Commit
  PROVE  Followed'
<1>1. /\ position = Len(feed) + 1 /\ stored' = Flushed /\ previous' = feed
      /\ UNCHANGED <<world, feed>> /\ End("done")
  BY DEF Commit
<1>2. position' = 0 /\ unflushed' = << >> /\ staged' = NoRows /\ outcome' = "done"
  BY <1>1 DEF End
<1>3. Len(feed) \in Nat /\ DOMAIN feed = 1..Len(feed)
  <2>1. CASE feed = << >>
    BY <2>1
  <2>2. CASE feed # << >>
    BY <2>2, FeedOfWorld
  <2> QED BY <2>1, <2>2
<1>4. \A n \in DOMAIN feed : Holds(Flushed, feed[n])
  BY <1>1, <1>3 DEF Followed, RunFollowed
<1>5. AllNamed(Flushed)
  BY FlushedNamed DEF Followed
<1>6. AreRows(Flushed)
  <2>1. CASE unflushed = << >>
    BY <2>1 DEF Flushed, Followed
  <2>2. CASE unflushed # << >>
    BY <2>2, Pending DEF Written, AreRows
  <2> QED BY <2>1, <2>2
<1> HIDE DEF Flushed
<1>7. AreRows(stored)' /\ AreRows(staged)' /\ AllNamed(stored)'
  BY <1>1, <1>2, <1>5, <1>6 DEF AreRows, NoRows, AllNamed, IsNamed
<1>8. StagedNamed' /\ PendingNamed'
  BY <1>2 DEF StagedNamed, PendingNamed, NoRows
<1>9. RunFollowed'
  BY <1>2 DEF RunFollowed
<1>10. HistoryKept'
  BY <1>1, <1>2, <1>4 DEF HistoryKept, Holds
<1> QED BY <1>7, <1>8, <1>9, <1>10 DEF Followed

LEMMA StartFollowed ==
  ASSUME Typed, Followed, NEW f \in Feeds(world), Start(f)
  PROVE  Followed'
<1>1. /\ position = 0 /\ feed' = f /\ UNCHANGED <<world, stored, unflushed, previous>>
      /\ \/ outcome' = "refused" /\ UNCHANGED <<staged, position>>
         \/ /\ ~ identities_clash(f)
            /\ outcome' = "none" /\ staged' = stored /\ position' = 1
  BY DEF Start
<1>2. unflushed = << >> /\ staged = NoRows
  BY <1>1 DEF Typed, Staging
<1>3. AreRows(stored)' /\ AreRows(staged)' /\ AllNamed(stored)'
  BY <1>1, <1>2 DEF Followed, AreRows, NoRows, AllNamed, IsNamed
<1>4. StagedNamed' /\ PendingNamed'
  BY <1>1, <1>2 DEF Followed, StagedNamed, PendingNamed, NoRows, AllNamed, IsNamed
<1>5. HistoryKept'
  BY <1>1 DEF Followed, HistoryKept, Holds
<1>6. RunFollowed'
  <2>1. CASE position' = 0
    BY <2>1 DEF RunFollowed
  <2>2. CASE position' # 0
    <3>1. ~ identities_clash(f) /\ staged' = stored /\ position' = 1
      BY <1>1, <2>2
    <3>2. Flushed' = stored'
      BY <1>1, <1>2, <3>1 DEF Flushed
    <3>3. world \in Worlds
      BY DEF Typed, TypeOK
    <3>4. Len(f) \in Nat /\ DOMAIN f = 1..Len(f)
      BY <3>3, FeedType
    <3>5. (~ identities_clash(feed))'
      BY <1>1, <3>1
    <3>6. \A n \in DOMAIN f : ~ (n < 1)
      BY <3>4
    <3> QED BY <1>1, <3>1, <3>2, <3>5, <3>6 DEF RunFollowed
  <2> QED BY <2>1, <2>2
<1> QED BY <1>3, <1>4, <1>5, <1>6 DEF Followed

\* The world the files are written from does not change, nor how well it is named.
NamedRuns == WellNamed => Followed

LEMMA NextNamedRuns == Typed /\ NamedRuns /\ [Next]_vars => NamedRuns'
<1> SUFFICES ASSUME Typed, NamedRuns, [Next]_vars, WellNamed' PROVE Followed'
  BY DEF NamedRuns
<1>1. world' = world
  BY DEF Next, vars, Start, ImportDocument, Fail, Commit, Crash
<1>2. WellNamed /\ Followed
  BY <1>1 DEF WellNamed, NamedRuns
<1>3. CASE UNCHANGED vars
  <2>1. UNCHANGED <<world, stored, staged, unflushed, feed, position, outcome, previous>>
    BY <1>3 DEF vars
  <2>2. Flushed' = Flushed
    BY <2>1 DEF Flushed
  <2> QED BY <1>2, <2>1, <2>2 DEF Followed, AreRows, AllNamed, IsNamed, StagedNamed, PendingNamed,
         RunFollowed, HistoryKept, Holds
<1>4. ASSUME NEW f \in Feeds(world), Start(f) PROVE Followed'
  BY <1>2, <1>4, StartFollowed
<1>5. CASE ImportDocument
  BY <1>2, <1>5, ImportFollowed
<1>6. CASE Fail
  BY <1>2, <1>6, NoFlushFails DEF Fail, Followed
<1>7. CASE Commit
  BY <1>2, <1>7, CommitFollowed
<1>8. CASE Crash
  BY <1>2, <1>8, EndFollowed DEF Crash
<1> QED BY <1>3, <1>4, <1>5, <1>6, <1>7, <1>8 DEF Next

LEMMA NamedRunsHold == Spec => []NamedRuns
<1>1. Init => NamedRuns
  BY DEF Init, NamedRuns, Followed, AreRows, NoRows, AllNamed, StagedNamed, PendingNamed,
         RunFollowed, HistoryKept
<1> QED BY <1>1, NextNamedRuns, TypedHolds, PTL DEF Spec

\* After a committed run every document of a well-named file is a catalog of its own, whatever runs
\* came before it and however they ended.
THEOREM EveryDocumentStays == Spec => []DocumentsAreStored
<1>1. NamedRuns => DocumentsAreStored
  BY DEF NamedRuns, Followed, HistoryKept, Holds, ContentOf, DocumentsAreStored, EveryDocumentIsStored
<1> QED BY <1>1, NamedRunsHold, PTL

\* A catalog stays one row while its hrefs, its rels and its metadata change in the files.
THEOREM CatalogsStayOneRow == Spec => []OneRowPerCatalog
<1>1. Typed /\ NamedRuns => OneRowPerCatalog
  <2> SUFFICES ASSUME Typed, NamedRuns, WellNamed, NEW i \in DOMAIN stored, NEW j \in DOMAIN stored,
                      stored[i].title = stored[j].title
               PROVE  i = j
    BY DEF OneRowPerCatalog
  <2>1. PICK d \in world : i = resolve_catalog_id(d) /\ stored[i] = ContentOf(d)
    BY DEF NamedRuns, Followed, AllNamed, IsNamed
  <2>2. PICK e \in world : j = resolve_catalog_id(e) /\ stored[j] = ContentOf(e)
    BY DEF NamedRuns, Followed, AllNamed, IsNamed
  <2>3. world \in Worlds
    BY DEF Typed, TypeOK
  <2> QED BY <2>1, <2>2, <2>3, ContentParts, Told
<1> QED BY <1>1, TypedHolds, NamedRunsHold, PTL

\* A well-named file that passes the uniqueness check meets no constraint of the database.
THEOREM CheckedFeedsAreTaken == Spec => []CheckedFeedIsTaken
<1>1. NamedRuns => CheckedFeedIsTaken
  BY DEF NamedRuns, Followed, HistoryKept, CheckedFeedIsTaken
<1> QED BY <1>1, NamedRunsHold, PTL

\* "Idempotent": a well-named file that was committed last changes nothing when it is run again.
THEOREM ReseedIsIdempotent == Spec => ReseedChangesNothing
<1>1. ASSUME Typed, NamedRuns, [Next]_vars, WellNamed, position # 0, feed = previous
      PROVE  stored' = stored
  <2>1. Flushed = stored
    BY <1>1 DEF NamedRuns, Followed, RunFollowed
  <2>2. stored' \in {stored, Flushed}
    BY <1>1 DEF Next, vars, Start, ImportDocument, Fail, Commit, Crash
  <2> QED BY <2>1, <2>2
<1> QED BY <1>1, TypedHolds, NamedRunsHold, PTL DEF Spec, ReseedChangesNothing
=============================================================================

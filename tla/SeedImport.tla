------------------------------ MODULE SeedImport ------------------------------
(***************************************************************************)
(* How an import decides which stored catalog a document is: cli/seed.py   *)
(* from the uniqueness check of a feed to its commit, over any number of   *)
(* runs with a source file that changes between them.                      *)
(*                                                                         *)
(* stored is what is committed.  staged is the transaction's own view, up  *)
(* to the last flush, and unflushed the object the session has not yet     *)
(* written: the ORM writes it before the next query, or at commit.         *)
(* A catalog's content is a title, standing for its metadata, and its      *)
(* links, pairs <<rel, href>>.                                             *)
(***************************************************************************)
EXTENDS Naturals, Sequences

CONSTANTS
    Worlds,        \* the sets of documents source files may be written from, each
                   \*   [title, identifier, links]
    NoIdentifier,  \* metadata.identifier is absent
    MaxFeed        \* MaxFeed[world], bound: documents in a source file

IDENTITY_RELS == {"catalog", "shelf"}

\* The links of *links* a catalog is matched on.
IdentityHrefs(links) == {link[2] : link \in {l \in links : l[1] \in IDENTITY_RELS}}

Documents == UNION Worlds

ASSUME DocumentsAssumption ==
    /\ MaxFeed \in [Worlds -> Nat \ {0}]
    /\ \A d \in Documents : IdentityHrefs(d.links) # {}

\* A source file, without the empty one.
Feeds(documents) == UNION {[1..n -> documents] : n \in 1..MaxFeed[documents]}

\* The first `catalog` href, else the first `shelf` href.
resolve_identity_href(d) ==
    LET of(rel) == {link[2] : link \in {l \in d.links : l[1] = rel}}
    IN  IF of("catalog") # {} THEN CHOOSE href \in of("catalog") : TRUE
                              ELSE CHOOSE href \in of("shelf") : TRUE

\* uuid5(NAMESPACE_URL, href): the pair is as good a name, equal only for equal hrefs.
Uuid5(href) == <<"uuid5", href>>

\* Mutant: the author's identifier is not looked at.
resolve_catalog_id_from_href(d) == Uuid5(resolve_identity_href(d))

\* The author's UUID, or the name-based one of the href.
resolve_catalog_id(d) ==
    IF d.identifier # NoIdentifier THEN d.identifier ELSE Uuid5(resolve_identity_href(d))

Ids == {resolve_catalog_id(d) : d \in Documents}
Contents == {[title |-> d.title, links |-> d.links] : d \in Documents}

VARIABLES
    world,      \* the documents the files of this history are written from
    stored,     \* committed catalogs: id -> content
    staged,     \* the same, as the open transaction sees it
    unflushed,  \* << >>, or the one object the session still has to write
    feed,       \* the file of the run in progress, or of the last one
    position,   \* its next document; 0 when no run is in progress
    outcome,    \* how the last run ended
    previous    \* history: the file of the last run that committed

vars == <<world, stored, staged, unflushed, feed, position, outcome, previous>>

NoRows == [id \in {} |-> [title |-> "", links |-> {}]]

Init ==
    /\ world \in Worlds
    /\ stored    = NoRows
    /\ staged    = NoRows
    /\ unflushed = << >>
    /\ feed      = << >>
    /\ position  = 0
    /\ outcome   = "none"
    /\ previous  = << >>

-----------------------------------------------------------------------------
\* assert_identities_are_unique: one href and one id per document.
identities_clash(f) ==
    \E m, n \in DOMAIN f :
        /\ m # n
        /\ \/ resolve_identity_href(f[m]) = resolve_identity_href(f[n])
           \/ resolve_catalog_id(f[m]) = resolve_catalog_id(f[n])

\* A write of an object: the row's content becomes the document's.
Written(rows, write) ==
    [id \in DOMAIN rows \cup {write.id} |-> IF id = write.id THEN write.content ELSE rows[id]]

Flushed == IF unflushed = << >> THEN staged ELSE Written(staged, unflushed[1])

\* Mutant: the index is on (href, rel).
FlushFailsPerRel ==
    /\ unflushed # << >>
    /\ LET write == unflushed[1]
           rels  == {link \in write.content.links : link[1] \in IDENTITY_RELS}
       IN  \/ write.created /\ write.id \in DOMAIN staged
           \/ \E id \in DOMAIN staged \ {write.id} : staged[id].links \cap rels # {}

\* pk_catalogs and uq_links_identity_href, the two constraints a flush may break.
FlushFails ==
    /\ unflushed # << >>
    /\ LET write == unflushed[1]
           rels  == {link \in write.content.links : link[1] \in IDENTITY_RELS}
       IN  \/ write.created /\ write.id \in DOMAIN staged
           \/ \E l, m \in rels : l # m /\ l[2] = m[2]
           \/ \E id \in DOMAIN staged \ {write.id} :
                 IdentityHrefs(staged[id].links) \cap IdentityHrefs(rels) # {}

\* Mutant: any link with the href makes it that catalog.
fetch_catalog_by_any_href(rows, href) ==
    {id \in DOMAIN rows : \E link \in rows[id].links : link[2] = href}

fetch_catalog_by_identity_href(rows, href) ==
    {id \in DOMAIN rows : href \in IdentityHrefs(rows[id].links)}

\* Mutant: the href is all that is looked up.
resolve_existing_by_href(rows, d) ==
    fetch_catalog_by_identity_href(rows, resolve_identity_href(d))

\* The rows a document may update, at most one: by id when it names one, then by href.
resolve_existing_catalog(rows, d) ==
    IF d.identifier # NoIdentifier /\ resolve_catalog_id(d) \in DOMAIN rows
      THEN {resolve_catalog_id(d)}
      ELSE fetch_catalog_by_identity_href(rows, resolve_identity_href(d))

-----------------------------------------------------------------------------
\* Mutant: a crashed run's session goes on with what it has not flushed.
EndWithoutRollback(how) ==
    /\ position'  = 0
    /\ unflushed' = IF how = "crashed" THEN unflushed ELSE << >>
    /\ staged'    = NoRows
    /\ outcome'   = how

\* Commit, rollback or a lost connection: the session is gone, and what it had not written.
End(how) ==
    /\ position'  = 0
    /\ unflushed' = << >>
    /\ staged'    = NoRows
    /\ outcome'   = how

Start(f) ==
    /\ position = 0
    /\ feed' = f
    /\ IF identities_clash(f)
         THEN outcome' = "refused" /\ UNCHANGED <<staged, position>>
         ELSE outcome' = "none" /\ staged' = stored /\ position' = 1
    /\ UNCHANGED <<world, stored, unflushed, previous>>

\* import_catalog_document: flush what is pending, look the document up, and either add an object
\* or delete the row's links at once and assign the new contents.
ImportDocument ==
    /\ position \in DOMAIN feed
    /\ ~ FlushFails
    /\ LET d        == feed[position]
           content  == [title |-> d.title, links |-> d.links]
           existing == resolve_existing_catalog(Flushed, d)
       IN  \/ /\ existing = {}
              /\ staged'    = Flushed
              /\ unflushed' =
                    <<[id |-> resolve_catalog_id(d), created |-> TRUE, content |-> content]>>
           \/ \E id \in existing :
              /\ staged'    = Written(Flushed, [id |-> id,
                                 content |-> [title |-> Flushed[id].title, links |-> {}]])
              /\ unflushed' = <<[id |-> id, created |-> FALSE, content |-> content]>>
    /\ position' = position + 1
    /\ UNCHANGED <<world, stored, feed, outcome, previous>>

\* IntegrityError, at the next lookup or at the commit: nothing of the feed is kept.
Fail ==
    /\ FlushFails
    /\ End("failed")
    /\ UNCHANGED <<world, stored, feed, previous>>

Commit ==
    /\ position = Len(feed) + 1
    /\ ~ FlushFails
    /\ stored'   = Flushed
    /\ previous' = feed
    /\ End("done")
    /\ UNCHANGED <<world, feed>>

Crash ==
    /\ position # 0
    /\ End("crashed")
    /\ UNCHANGED <<world, stored, feed, previous>>

Next ==
    \/ \E f \in Feeds(world) : Start(f)
    \/ ImportDocument
    \/ Fail
    \/ Commit
    \/ Crash

Spec == Init /\ [][Next]_vars

-----------------------------------------------------------------------------
\* Type invariant.
TypeOK ==
    /\ DOMAIN stored \subseteq Ids /\ \A id \in DOMAIN stored : stored[id] \in Contents
    /\ DOMAIN staged \subseteq Ids
    /\ Len(unflushed) <= 1
    /\ world \in Worlds
    /\ {feed, previous} \subseteq Feeds(world) \cup {<< >>}
    /\ position \in 0..(MaxFeed[world] + 1)
    /\ outcome \in {"none", "refused", "failed", "done", "crashed"}

\* The files name their catalogs well: a document tells its catalog by its identifier, or else by the
\* href it is matched on, the same each time; no identifier is another catalog's, nor what its href
\* would make; and no identity href is ever another catalog's, nor under two rels of one document.
WellNamed ==
    \A d, e \in world :
        /\ d.title = e.title =>
              /\ d.identifier = e.identifier
              /\ d.identifier = NoIdentifier => resolve_identity_href(d) = resolve_identity_href(e)
        /\ d.identifier # NoIdentifier /\ d.identifier = e.identifier => d.title = e.title
        /\ d.identifier = Uuid5(resolve_identity_href(e)) => d.title = e.title
        /\ IdentityHrefs(d.links) \cap IdentityHrefs(e.links) # {} => d.title = e.title
        /\ \A l, m \in d.links : {l[1], m[1]} \subseteq IDENTITY_RELS /\ l[2] = m[2] => l = m

\* After a committed run every document of the file is a catalog of its own, with that document's
\* metadata and links: none was overwritten by a later one ("A typo in a hand-edited file silently
\* deletes a catalog", assert_identities_are_unique).
EveryDocumentIsStored ==
    outcome = "done" =>
        \A n \in DOMAIN feed :
            \E id \in DOMAIN stored : stored[id] = [title |-> feed[n].title, links |-> feed[n].links]

\* ... which holds of well-named files.
DocumentsAreStored == WellNamed => EveryDocumentIsStored

\* A catalog stays one row through every change of its file ("a library moving pre-prod to prod
\* stays one row", resolve_existing_catalog).
OneRowPerCatalog ==
    WellNamed => \A i, j \in DOMAIN stored : stored[i].title = stored[j].title => i = j

\* "One URL is one catalog": whatever files were imported, and whichever of them failed, the
\* lookup by href finds at most one row (the comment on uq_links_identity_href).
LookupIsUnambiguous ==
    \A id \in DOMAIN stored : \A href \in IdentityHrefs(stored[id].links) :
        fetch_catalog_by_identity_href(stored, href) = {id}

\* No feed that passes the uniqueness check is thrown away by a database constraint ("a hard
\* failure that aborts the whole seed transaction", resolve_existing_catalog).
CheckedFeedIsTaken == WellNamed => outcome # "failed"

\* "Idempotent": the file that was imported last changes nothing when it is imported again.
ReseedChangesNothing ==
    [][WellNamed /\ position # 0 /\ feed = previous => stored' = stored]_vars
=============================================================================

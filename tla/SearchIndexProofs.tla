--------------------------- MODULE SearchIndexProofs ---------------------------
(* The committed search row is never stale, for any number of editors, imports and hands. *)
EXTENDS SearchIndex, TLAPS

USE TransactionsAssumption, KeepAssumption

LEMMA DocumentType ==
    ASSUME NEW version \in Versions, NEW subdivisions \in SUBSET Subdivisions
    PROVE  Document(version, subdivisions) \in Entries
BY DEF Document, Entries, Versions

LEMMA CleanType == Clean \in Drafts
BY DEF Clean, Drafts

LEMMA SeenType ==
    ASSUME TypeOK, NEW t \in Transactions
    PROVE  SeenCatalog(t) \in Versions /\ SeenSubs(t) \in SUBSET Subdivisions
BY DEF TypeOK, SeenCatalog, SeenSubs, Drafts

\* What refresh_catalog_search leaves in a transaction is a draft, with the entry it calls for.
LEMMA ReindexedType ==
    ASSUME TypeOK, NEW change \in Drafts
    PROVE  Reindexed(change) \in Drafts
<1>1. (IF change.catalog = Keep THEN catalog ELSE change.catalog) \in Versions
  BY DEF TypeOK, Drafts
<1>2. (subs \ change.removed) \cup change.added \in SUBSET Subdivisions
  BY DEF TypeOK, Drafts
<1>3. Reindexed(change).entry \in Entries
  BY <1>1, <1>2, DocumentType DEF Reindexed
<1> QED BY <1>3 DEF Reindexed, Drafts

\* What UpdateCatalog makes of a draft.
LEMMA UpdatedType ==
    ASSUME TypeOK, NEW t \in Imports, NEW updated,
           updated = [title  |-> IF titleOf[t] # loaded[t].title THEN titleOf[t]
                                 ELSE SeenCatalog(t).title,
                      status |-> IF loaded[t].status = "draft" THEN "published"
                                 ELSE SeenCatalog(t).status]
    PROVE  [draft[t] EXCEPT !.catalog = updated] \in Drafts
<1>1. t \in Transactions /\ titleOf[t] \in Titles
  BY DEF Transactions, Titles
<1>2. SeenCatalog(t).title \in Titles /\ SeenCatalog(t).status \in Statuses
  BY <1>1, SeenType DEF Versions
<1>3. updated \in Versions
  BY <1>1, <1>2 DEF Versions, Statuses
<1>4. draft[t] \in Drafts
  BY <1>1 DEF TypeOK
<1> QED BY <1>3, <1>4 DEF Drafts

\* Every reachable state is well typed.
THEOREM TypeCorrect == Spec => []TypeOK
<1>1. Init => TypeOK
  <2> SUFFICES ASSUME Init PROVE TypeOK
    OBVIOUS
  <2>1. catalog \in Versions /\ subs \in SUBSET Subdivisions
    BY DEF Init, Versions, Titles, Statuses
  <2>2. entry \in Entries
    BY <2>1, DocumentType DEF Init
  <2>3. draft \in [Transactions -> Drafts]
    BY CleanType DEF Init
  <2>4. pc \in [Transactions -> {"lock", "load", "insert"}]
    BY DEF Init
  <2>5. loaded \in [Imports -> Versions] /\ seen \in [Imports -> SUBSET Subdivisions]
    BY <2>1 DEF Init
  <2> QED BY <2>1, <2>2, <2>3, <2>4, <2>5 DEF Init, TypeOK
<1>2. TypeOK /\ [Next]_vars => TypeOK'
  <2> SUFFICES ASSUME TypeOK, [Next]_vars PROVE TypeOK'
    OBVIOUS
  <2> USE DEF TypeOK
  <2>1. ASSUME NEW t \in Transactions, Refresh(t) PROVE TypeOK'
    <3>1. draft[t] \in Drafts
      OBVIOUS
    <3>2. Reindexed(draft[t]) \in Drafts
      BY <3>1, ReindexedType
    <3> QED BY <2>1, <3>2 DEF Refresh, Goto
  <2>2. ASSUME NEW t \in Transactions, LockForUpdate(t) PROVE TypeOK'
    BY <2>2 DEF LockForUpdate, Goto
  <2>3. ASSUME NEW t \in Transactions, SetStatus(t) PROVE TypeOK'
    <3>1. PICK action \in TRANSITION_ACTIONS : \E status \in Targets(catalog.status, action) :
             draft' = [draft EXCEPT ![t] = Reindexed([Clean EXCEPT !.catalog =
                                     [title |-> catalog.title, status |-> status]])]
      BY <2>3 DEF SetStatus
    <3>2. PICK status \in Targets(catalog.status, action) :
             draft' = [draft EXCEPT ![t] = Reindexed([Clean EXCEPT !.catalog =
                                     [title |-> catalog.title, status |-> status]])]
      BY <3>1
    <3>3. status \in Statuses
      BY DEF Targets, TRANSITIONS, Statuses
    <3>4. [Clean EXCEPT !.catalog = [title |-> catalog.title, status |-> status]] \in Drafts
      BY <3>3 DEF Clean, Drafts, Versions
    <3>5. draft' \in [Transactions -> Drafts]
      BY <3>2, <3>4, ReindexedType
    <3> QED BY <2>3, <3>5 DEF SetStatus, Goto
  <2>4. ASSUME NEW t \in Transactions, Load(t) PROVE TypeOK'
    BY <2>4 DEF Load, Goto
  <2>5. ASSUME NEW t \in Transactions, SeeSubdivisions(t) PROVE TypeOK'
    BY <2>5 DEF SeeSubdivisions, Goto
  <2>6. ASSUME NEW t \in Transactions, DeleteSubdivisions(t) PROVE TypeOK'
    <3>1. draft' = [draft EXCEPT ![t] = [draft[t] EXCEPT !.removed = seen[t] \cap subs]]
      BY <2>6 DEF DeleteSubdivisions
    <3>2. [draft[t] EXCEPT !.removed = seen[t] \cap subs] \in Drafts
      BY DEF Drafts
    <3>3. draft' \in [Transactions -> Drafts]
      BY <3>1, <3>2
    <3> QED BY <2>6, <3>3 DEF DeleteSubdivisions, Goto
  <2>7. ASSUME NEW t \in Transactions, UpdateCatalog(t) PROVE TypeOK'
    <3> DEFINE updated == [title  |-> IF titleOf[t] # loaded[t].title THEN titleOf[t]
                                      ELSE SeenCatalog(t).title,
                           status |-> IF loaded[t].status = "draft" THEN "published"
                                      ELSE SeenCatalog(t).status]
               change == [draft[t] EXCEPT !.catalog = updated]
    <3>1. t \in Imports
      BY <2>7 DEF UpdateCatalog
    <3>2. change \in Drafts
      BY <3>1, UpdatedType
    <3>3. Reindexed(change) \in Drafts
      BY <3>2, ReindexedType
    <3>4. \/ draft' = [draft EXCEPT ![t] = Reindexed(change)]
          \/ draft' = [draft EXCEPT ![t] = change]
      BY <2>7 DEF UpdateCatalog
    <3>5. draft' \in [Transactions -> Drafts]
      BY <3>2, <3>3, <3>4
    <3> QED BY <2>7, <3>5 DEF UpdateCatalog, Goto
  <2>8. ASSUME NEW t \in Transactions, InsertSubdivisions(t) PROVE TypeOK'
    <3>1. draft' = [draft EXCEPT ![t] = [draft[t] EXCEPT !.added = subsOf[t]]]
      BY <2>8 DEF InsertSubdivisions
    <3>2. subsOf[t] \in SUBSET Subdivisions
      BY <2>8 DEF InsertSubdivisions, InsertMayProceed
    <3>3. [draft[t] EXCEPT !.added = subsOf[t]] \in Drafts
      BY <3>2 DEF Drafts
    <3>4. draft' \in [Transactions -> Drafts]
      BY <3>1, <3>3
    <3> QED BY <2>8, <3>4 DEF InsertSubdivisions, Goto
  <2>9. ASSUME NEW t \in Transactions, FailToInsert(t) \/ Abort(t) PROVE TypeOK'
    <3>1. draft' \in [Transactions -> Drafts]
      BY <2>9, CleanType DEF FailToInsert, Abort
    <3> QED BY <2>9, <3>1 DEF FailToInsert, Abort, Goto, Release
  <2>10. ASSUME NEW t \in Transactions, Commit(t) PROVE TypeOK'
    <3>1. draft' \in [Transactions -> Drafts]
      BY <2>10, CleanType DEF Commit
    <3>2. catalog' \in Versions /\ subs' \in SUBSET Subdivisions
      BY <2>10, SeenType DEF Commit
    <3>3. entry' \in Entries
      BY <2>10 DEF Commit, Drafts
    <3> QED BY <2>10, <3>1, <3>2, <3>3 DEF Commit, Goto, Release
  <2>11. CASE UNCHANGED vars
    BY <2>11 DEF vars
  <2> QED BY <2>1, <2>2, <2>3, <2>4, <2>5, <2>6, <2>7, <2>8, <2>9, <2>10, <2>11 DEF Next
<1> QED BY <1>1, <1>2, PTL DEF Spec

------------------------------------------------------------------------------
\* What t would commit is coherent: the entry is the document of the catalog and subdivisions.
Coherent(t) ==
    (IF draft[t].entry = Keep THEN entry ELSE draft[t].entry) = Document(SeenCatalog(t), SeenSubs(t))

\* A transaction that may commit holds the row and is coherent; one on its way to the UPDATE is too,
\* or has changed nothing yet.
Ready(t) ==
    /\ pc[t] \in {"set status", "commit"} => lock = t
    /\ lock = t /\ pc[t] \in {"update", "commit"} => Coherent(t)
    /\ pc[t] = "update" /\ lock # t => draft[t] = Clean
    /\ pc[t] \in {"load", "delete", "deleting"} => draft[t] = Clean

AllReady == \A t \in Transactions : Ready(t)

\* A transaction that has just rebuilt the entry is coherent.
LEMMA ReindexedIsCoherent ==
    ASSUME TypeOK, NEW t \in Transactions, NEW change \in Drafts,
           draft' = [draft EXCEPT ![t] = Reindexed(change)],
           UNCHANGED <<catalog, subs, entry>>
    PROVE  Coherent(t)'
<1>1. draft'[t] = Reindexed(change)
  BY DEF TypeOK
<1>2. Reindexed(change).entry \in Entries
  BY ReindexedType, <1>1
    DEF Drafts, Reindexed, Document, Entries, TypeOK, Versions
<1>3. Reindexed(change).entry # Keep
  BY <1>2
<1>4. SeenCatalog(t)' = (IF change.catalog = Keep THEN catalog ELSE change.catalog)
  BY <1>1 DEF SeenCatalog, Reindexed
<1>5. SeenSubs(t)' = (subs \ change.removed) \cup change.added
  BY <1>1 DEF SeenSubs, Reindexed
<1>6. Document(SeenCatalog(t), SeenSubs(t))' = Reindexed(change).entry
  BY <1>4, <1>5 DEF Reindexed, Document
<1> QED BY <1>1, <1>3, <1>6 DEF Coherent

\* A transaction is as ready as it was when another takes a step that commits nothing.
LEMMA OthersStayReady ==
    ASSUME TypeOK, NEW t \in Transactions, NEW u \in Transactions, u # t, Ready(t),
           pc'[t] = pc[t], draft'[t] = draft[t],
           lock' = lock \/ (lock \in {Nobody, u} /\ lock' \in {Nobody, u}),
           UNCHANGED <<catalog, subs, entry>> \/ lock = u
    PROVE  Ready(t)'
<1>1. lock = t => lock' = t /\ UNCHANGED <<catalog, subs, entry>>
  OBVIOUS
<1>2. lock' = t => lock = t
  OBVIOUS
<1>3. lock = t /\ Coherent(t) => Coherent(t)'
  BY <1>1 DEF Coherent, SeenCatalog, SeenSubs, Document
<1> QED BY <1>1, <1>2, <1>3 DEF Ready

\* "Search is never stale": the committed row is the document of the committed catalog and
\* subdivisions, whatever transactions run at once.
THEOREM SearchStaysFresh == Spec => []SearchIsFresh
<1>1. Init => SearchIsFresh /\ AllReady
  <2> SUFFICES ASSUME Init PROVE SearchIsFresh /\ AllReady
    OBVIOUS
  <2>1. \A t \in Transactions : pc[t] \in {"lock", "load", "insert"} /\ draft[t] = Clean
    BY DEF Init
  <2> QED BY <2>1 DEF Init, SearchIsFresh, AllReady, Ready
<1>2. TypeOK /\ SearchIsFresh /\ AllReady /\ [Next]_vars => SearchIsFresh' /\ AllReady'
  <2> SUFFICES ASSUME TypeOK, SearchIsFresh, \A t \in Transactions : Ready(t), [Next]_vars
               PROVE  SearchIsFresh' /\ \A t \in Transactions : Ready(t)'
    BY DEF AllReady
  <2> DEFINE Still  == UNCHANGED <<catalog, subs, entry>>
             Kept(u) == \A t \in Transactions \ {u} : pc'[t] = pc[t] /\ draft'[t] = draft[t]
             Handed(u) == lock' = lock \/ (lock \in {Nobody, u} /\ lock' \in {Nobody, u})
  <2>0. ASSUME NEW u \in Transactions, Still, Kept(u), Handed(u), Ready(u)'
        PROVE  SearchIsFresh' /\ \A t \in Transactions : Ready(t)'
    <3>1. SearchIsFresh'
      BY <2>0 DEF SearchIsFresh, Document
    <3>2. ASSUME NEW t \in Transactions, t # u PROVE Ready(t)'
      BY <2>0, <3>2, OthersStayReady
    <3> QED BY <2>0, <3>1, <3>2
  <2>1. ASSUME NEW u \in Transactions, Refresh(u)
        PROVE  SearchIsFresh' /\ \A t \in Transactions : Ready(t)'
    <3>1. Still /\ Kept(u) /\ Handed(u) /\ lock' = u
      BY <2>1 DEF Refresh, Goto, Free, TypeOK
    <3>2. pc'[u] \in {"update", "commit"}
      BY <2>1 DEF Refresh, Goto, TypeOK
    <3>3. Coherent(u)'
      <4>1. draft[u] \in Drafts /\ draft' = [draft EXCEPT ![u] = Reindexed(draft[u])]
        BY <2>1 DEF Refresh, TypeOK
      <4> QED BY <3>1, <4>1, ReindexedIsCoherent
    <3>4. Ready(u)'
      BY <3>1, <3>2, <3>3 DEF Ready
    <3> HIDE DEF Still, Kept, Handed
    <3> QED BY <3>1, <3>4, <2>0
  <2>2. ASSUME NEW u \in Transactions, LockForUpdate(u)
        PROVE  SearchIsFresh' /\ \A t \in Transactions : Ready(t)'
    <3>1. Still /\ Kept(u) /\ Handed(u) /\ lock' = u /\ pc'[u] = "set status"
      BY <2>2 DEF LockForUpdate, Goto, Free, TypeOK
    <3>2. Ready(u)'
      BY <3>1 DEF Ready
    <3> HIDE DEF Still, Kept, Handed
    <3> QED BY <3>1, <3>2, <2>0
  <2>3. ASSUME NEW u \in Transactions, SetStatus(u)
        PROVE  SearchIsFresh' /\ \A t \in Transactions : Ready(t)'
    <3>1. Still /\ Kept(u) /\ Handed(u) /\ pc'[u] = "commit"
      BY <2>3 DEF SetStatus, Goto, TypeOK
    <3>2. lock' = u
      BY <2>3 DEF SetStatus, Ready
    <3>3. Coherent(u)'
      <4>1. PICK action \in TRANSITION_ACTIONS : \E status \in Targets(catalog.status, action) :
               draft' = [draft EXCEPT ![u] = Reindexed([Clean EXCEPT !.catalog =
                                       [title |-> catalog.title, status |-> status]])]
        BY <2>3 DEF SetStatus
      <4>2. PICK status \in Targets(catalog.status, action) :
               draft' = [draft EXCEPT ![u] = Reindexed([Clean EXCEPT !.catalog =
                                       [title |-> catalog.title, status |-> status]])]
        BY <4>1
      <4>3. status \in Statuses
        BY DEF Targets, TRANSITIONS, Statuses
      <4>4. [Clean EXCEPT !.catalog = [title |-> catalog.title, status |-> status]] \in Drafts
        BY <4>3 DEF Clean, Drafts, Versions, TypeOK
      <4> QED BY <3>1, <4>2, <4>4, ReindexedIsCoherent
    <3>4. Ready(u)'
      BY <3>1, <3>2, <3>3 DEF Ready
    <3> HIDE DEF Still, Kept, Handed
    <3> QED BY <3>1, <3>4, <2>0
  <2>4. ASSUME NEW u \in Transactions, Load(u) \/ SeeSubdivisions(u)
        PROVE  SearchIsFresh' /\ \A t \in Transactions : Ready(t)'
    <3>1. Still /\ Kept(u) /\ Handed(u) /\ draft'[u] = draft[u]
      BY <2>4 DEF Load, SeeSubdivisions, Goto, TypeOK
    <3>2. pc[u] \in {"load", "delete"} /\ pc'[u] \in {"delete", "deleting"}
      BY <2>4 DEF Load, SeeSubdivisions, Goto, TypeOK
    <3>3. Ready(u)'
      BY <3>1, <3>2 DEF Ready
    <3> HIDE DEF Still, Kept, Handed
    <3> QED BY <3>1, <3>3, <2>0
  <2>5. ASSUME NEW u \in Transactions, DeleteSubdivisions(u)
        PROVE  SearchIsFresh' /\ \A t \in Transactions : Ready(t)'
    <3>1. Still /\ Kept(u) /\ Handed(u) /\ lock' = lock
      BY <2>5 DEF DeleteSubdivisions, Goto, TypeOK
    <3>2. draft[u] = Clean /\ draft'[u] = [Clean EXCEPT !.removed = seen[u] \cap subs]
      BY <2>5 DEF DeleteSubdivisions, Ready, TypeOK
    <3>3. CASE seen[u] \cap subs = {}
      <4>1. draft'[u] = Clean
        BY <3>2, <3>3 DEF Clean
      <4>2. Coherent(u)'
        BY <3>1, <4>1 DEF Coherent, SearchIsFresh, SeenCatalog, SeenSubs, Clean, Document
      <4>3. pc'[u] = "update"
        BY <2>5, <3>3 DEF DeleteSubdivisions, Goto, TypeOK
      <4>4. Ready(u)'
        BY <4>1, <4>2, <4>3 DEF Ready
      <4> HIDE DEF Still, Kept, Handed
      <4> QED BY <3>1, <4>4, <2>0
    <3>4. CASE seen[u] \cap subs # {}
      <4>1. pc'[u] = "refresh deleted"
        BY <2>5, <3>4 DEF DeleteSubdivisions, Goto, TypeOK
      <4>2. Ready(u)'
        BY <4>1 DEF Ready
      <4> HIDE DEF Still, Kept, Handed
      <4> QED BY <3>1, <4>2, <2>0
    <3> QED BY <3>3, <3>4
  <2>6. ASSUME NEW u \in Transactions, UpdateCatalog(u)
        PROVE  SearchIsFresh' /\ \A t \in Transactions : Ready(t)'
    <3> DEFINE updated == [title  |-> IF titleOf[u] # loaded[u].title THEN titleOf[u]
                                      ELSE SeenCatalog(u).title,
                           status |-> IF loaded[u].status = "draft" THEN "published"
                                      ELSE SeenCatalog(u).status]
               fires  == titleOf[u] # loaded[u].title \/ loaded[u].status = "draft"
               change == [draft[u] EXCEPT !.catalog = updated]
    <3>1. Still /\ Kept(u) /\ Handed(u) /\ lock' = u /\ u \in Imports
      BY <2>6 DEF UpdateCatalog, Goto, Free, TypeOK
    <3>2. pc[u] = "update" /\ pc'[u] \in {"commit", "insert"}
      BY <2>6 DEF UpdateCatalog, Goto, TypeOK
    <3>3. draft' = [draft EXCEPT ![u] = IF fires THEN Reindexed(change) ELSE change]
      BY <2>6 DEF UpdateCatalog
    <3>4. change \in Drafts
      BY <3>1, UpdatedType
    <3>5. CASE fires
      <4>1. Coherent(u)'
        BY <3>1, <3>3, <3>4, <3>5, ReindexedIsCoherent
      <4>2. Ready(u)'
        BY <3>1, <3>2, <4>1 DEF Ready
      <4> HIDE DEF Still, Kept, Handed
      <4> QED BY <3>1, <4>2, <2>0
    <3>6. CASE ~ fires
      <4>1. SeenCatalog(u) \in Versions /\ updated = SeenCatalog(u)
        BY <3>6, SeenType DEF Versions
      <4>2. Coherent(u)
        <5>1. CASE lock = u
          BY <5>1, <3>2 DEF Ready
        <5>2. CASE lock # u
          <6>1. draft[u] = Clean
            BY <5>2, <3>2 DEF Ready
          <6> QED BY <6>1 DEF Coherent, SearchIsFresh, SeenCatalog, SeenSubs, Clean
        <5> QED BY <5>1, <5>2
      <4>3. draft'[u] = change /\ draft[u] \in Drafts
        BY <3>3, <3>6 DEF TypeOK
      <4>4. /\ draft'[u].entry = draft[u].entry /\ draft'[u].added = draft[u].added
            /\ draft'[u].removed = draft[u].removed /\ draft'[u].catalog = SeenCatalog(u)
        BY <4>1, <4>3 DEF Drafts
      <4>5. SeenCatalog(u)' = SeenCatalog(u) /\ SeenSubs(u)' = SeenSubs(u)
        BY <3>1, <4>1, <4>4 DEF SeenCatalog, SeenSubs
      <4>6. Coherent(u)'
        BY <3>1, <4>2, <4>4, <4>5 DEF Coherent, Document
      <4>7. Ready(u)'
        BY <3>1, <3>2, <4>6 DEF Ready
      <4> HIDE DEF Still, Kept, Handed
      <4> QED BY <3>1, <4>7, <2>0
    <3> QED BY <3>5, <3>6
  <2>7. ASSUME NEW u \in Transactions, InsertSubdivisions(u)
        PROVE  SearchIsFresh' /\ \A t \in Transactions : Ready(t)'
    <3>1. Still /\ Kept(u) /\ Handed(u) /\ pc'[u] = "refresh inserted"
      BY <2>7 DEF InsertSubdivisions, Goto, TypeOK
    <3>2. Ready(u)'
      BY <3>1 DEF Ready
    <3> HIDE DEF Still, Kept, Handed
    <3> QED BY <3>1, <3>2, <2>0
  <2>8. ASSUME NEW u \in Transactions, FailToInsert(u) \/ Abort(u)
        PROVE  SearchIsFresh' /\ \A t \in Transactions : Ready(t)'
    <3>1. Still /\ Kept(u) /\ Handed(u) /\ pc'[u] = "failed"
      BY <2>8 DEF FailToInsert, Abort, Goto, Release, TypeOK
    <3>2. Ready(u)'
      BY <3>1 DEF Ready
    <3> HIDE DEF Still, Kept, Handed
    <3> QED BY <3>1, <3>2, <2>0
  <2>9. ASSUME NEW u \in Transactions, Commit(u)
        PROVE  SearchIsFresh' /\ \A t \in Transactions : Ready(t)'
    <3>1. lock = u /\ Coherent(u)
      BY <2>9 DEF Commit, Ready
    <3>2. /\ catalog' = SeenCatalog(u) /\ subs' = SeenSubs(u)
          /\ entry' = (IF draft[u].entry = Keep THEN entry ELSE draft[u].entry)
      BY <2>9 DEF Commit
    <3>3. SearchIsFresh'
      BY <3>1, <3>2 DEF SearchIsFresh, Coherent, Document
    <3>4. Kept(u) /\ Handed(u) /\ pc'[u] = "done"
      BY <2>9, <3>1 DEF Commit, Goto, Release, TypeOK
    <3>5. ASSUME NEW t \in Transactions, t # u PROVE Ready(t)'
      BY <3>1, <3>4, <3>5, OthersStayReady
    <3>6. Ready(u)'
      BY <3>4 DEF Ready
    <3> QED BY <3>3, <3>5, <3>6
  <2>10. CASE UNCHANGED vars
    <3>1. SearchIsFresh'
      BY <2>10 DEF vars, SearchIsFresh, Document
    <3>2. ASSUME NEW t \in Transactions PROVE Ready(t)'
      <4>1. Coherent(t) => Coherent(t)'
        BY <2>10 DEF vars, Coherent, SeenCatalog, SeenSubs, Document
      <4> QED BY <2>10, <4>1 DEF vars, Ready
    <3> QED BY <3>1, <3>2
  <2>11. CASE Next
    <3>1. PICK u \in Transactions :
             \/ Refresh(u) \/ LockForUpdate(u) \/ SetStatus(u)
             \/ Load(u) \/ SeeSubdivisions(u) \/ DeleteSubdivisions(u) \/ UpdateCatalog(u)
             \/ InsertSubdivisions(u) \/ FailToInsert(u) \/ Commit(u) \/ Abort(u)
      BY <2>11 DEF Next
    <3> QED BY <3>1, <2>1, <2>2, <2>3, <2>4, <2>5, <2>6, <2>7, <2>8, <2>9
  <2> QED BY <2>10, <2>11
<1> QED BY <1>1, <1>2, TypeCorrect, PTL DEF Spec
===============================================================================

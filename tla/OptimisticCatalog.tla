-------------------------- MODULE OptimisticCatalog --------------------------
(***************************************************************************)
(* What the admin API promises an editor, with no request, transaction or  *)
(* lock in sight: a tab looks at a catalog, and a change is one atomic     *)
(* compare-and-set from exactly the row the tab shows to a row the         *)
(* lifecycle allows next, with the next version.  (The docstring of        *)
(* VersionConflictError and the comment on the `version` column state it.) *)
(***************************************************************************)
EXTENDS Integers, Lifecycle

CONSTANTS Catalogs, Sessions, NoRow

VARIABLES row, at, page

vars == <<row, at, page>>

Init ==
    /\ \A c \in Catalogs : row[c] = NoRow \/ row[c].version = 1
    /\ at \in [Sessions -> Catalogs]
    /\ page = [s \in Sessions |-> NoRow]

\* The tab moves to a catalog and shows nothing yet.
Open(s, c) ==
    /\ at'   = [at EXCEPT ![s] = c]
    /\ page' = [page EXCEPT ![s] = NoRow]
    /\ UNCHANGED row

\* The tab shows the catalog as it is now.
Look(s) ==
    /\ page' = [page EXCEPT ![s] = row[at[s]]]
    /\ UNCHANGED <<row, at>>

\* The rows one accepted change may lead to from the row that was seen.
Moved(seen, next) ==
    /\ \E action \in TRANSITION_ACTIONS : next.status \in Targets(seen.status, action)
    /\ next.version = seen.version + 1
    /\ next.recommended = seen.recommended
    /\ IF next.status = "published" THEN next.published_at >= seen.published_at
                                    ELSE next.published_at = seen.published_at

Flagged(seen, next) ==
    /\ seen.status = "published"
    /\ next.status = seen.status
    /\ next.version = seen.version + 1
    /\ next.recommended # seen.recommended
    /\ next.published_at = seen.published_at

Edit(s) ==
    LET c == at[s] IN
    /\ page[s] # NoRow
    /\ row[c] = page[s]
    /\ Moved(page[s], row'[c]) \/ Flagged(page[s], row'[c])
    /\ row' = [row EXCEPT ![c] = row'[c]]
    /\ UNCHANGED <<at, page>>

Next ==
    \E s \in Sessions :
        \/ \E c \in Catalogs : Open(s, c)
        \/ Look(s)
        \/ Edit(s)

Spec == Init /\ [][Next]_vars
=============================================================================

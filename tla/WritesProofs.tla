----------------------------- MODULE WritesProofs -----------------------------
(***************************************************************************)
(* What editors and imports keep together (CatalogWrites), and what the    *)
(* admin requests guarantee alone (AdminWrites), for any number of         *)
(* catalogs, tabs, people and imports, and for feeds of any length.        *)
(***************************************************************************)
EXTENDS CatalogWrites, TLAPS

USE SessionsAssumption DEF Never

(***************************************************************************)
(* Editors and imports: WritesSpec.                                        *)
(***************************************************************************)
-----------------------------------------------------------------------------
(* Facts about the operators. *)

LEMMA AbsentIsNoRow == NoRow \notin Rows /\ NoRow.status = "absent" /\ NoRow.published_at = Never
  BY DEF NoRow, Rows

LEMMA EditedIsRow ==
  ASSUME NEW current \in Rows, NEW status \in Statuses, NEW now \in Nat, NEW b \in BOOLEAN
  PROVE  SetStatus(current, status, now) \in Rows /\ SetRecommended(current, b) \in Rows
  BY DEF SetStatus, SetRecommended, Rows

\* An editor's UPDATE leaves a published row dated, and no row loses its date.
LEMMA EditedIsDated ==
  ASSUME NEW current \in Rows, NEW status \in Statuses, NEW now \in Nat, NEW b \in BOOLEAN,
         current.status = "published" => current.published_at # Never
  PROVE  \A after \in {SetStatus(current, status, now), SetRecommended(current, b)} :
            /\ after.status = "published" => after.published_at # Never
            /\ current.published_at # Never => after.published_at # Never
  BY DEF SetStatus, SetRecommended, Rows

LEMMA ImportedIsRow ==
  ASSUME NEW current \in Rows, NEW seen \in Rows, NEW b \in BOOLEAN, NEW now \in Nat
  PROVE  BuiltRow(b, now) \in Rows /\ UpdatedRow(current, seen, b, now) \in Rows
  BY DEF BuiltRow, UpdatedRow, Rows, Statuses

\* So does an import's, even from a read that is no longer true: what it needs of that read is
\* only that a date seen there is still there.
LEMMA ImportedIsDated ==
  ASSUME NEW current \in Rows, NEW seen \in Rows, NEW b \in BOOLEAN, NEW now \in Nat,
         current.status = "published" => current.published_at # Never,
         seen.published_at # Never => current.published_at # Never
  PROVE  LET after == UpdatedRow(current, seen, b, now) IN
            /\ after.status = "published" => after.published_at # Never
            /\ current.published_at # Never => after.published_at # Never
            /\ after.version = current.version
            /\ seen.status # "draft" => after.status = current.status
  BY DEF UpdatedRow, Rows, Statuses

-----------------------------------------------------------------------------
(* Locking: what a transaction has read or written under a row lock stays so. *)

\* A tab's write transaction between its UPDATE and its end has a row to install.
RequestsHoldRows ==
    /\ clock \in Nat
    /\ pc \in [Sessions -> {"idle", "sent", "admitted", "waiting", "locked", "written",
                            "committed"}]
    /\ at \in [Sessions -> Catalogs]
    /\ began \in [Sessions -> Nat]
    /\ \A s \in Sessions : pc[s] = "written" => work[s] \in Rows

\* An import writes the documents of its feed in order, each once, and holds what it wrote; a
\* catalog it has found is not deleted.
ImportsHoldRows ==
    \A i \in Imports :
        /\ position[i] <= Len(feedOf[i])
        /\ ipc[i] # "commit" =>
              \A n \in DOMAIN feedOf[i] : n >= position[i] => pending[i][feedOf[i][n]] = NoRow
        /\ \A c \in Catalogs : pending[i][c] # NoRow => lock[c] = i
        /\ \A c \in Catalogs : loaded[i][c] # NoRow => row[c] # NoRow

Holding == WritesTypeOK /\ RowLocked /\ RequestsHoldRows /\ ImportsHoldRows

\* The document an import is at is a catalog of its feed, and the feed names it once.
LEMMA DocumentIsNext ==
  ASSUME Holding, NEW i \in Imports
  PROVE  /\ position[i] \in DOMAIN feedOf[i]
         /\ Document(i) \in Catalogs
         /\ \A n \in DOMAIN feedOf[i] : n > position[i] => feedOf[i][n] # Document(i)
<1>1. feedOf[i] \in Seq(Catalogs) /\ position[i] \in Nat \ {0} /\ position[i] <= Len(feedOf[i])
  BY ImportsAssumption DEF Holding, WritesTypeOK, ImportsHoldRows
<1>2. DOMAIN feedOf[i] = 1..Len(feedOf[i])
  BY <1>1
<1>3. position[i] \in DOMAIN feedOf[i]
  BY <1>1, <1>2
<1>4. Document(i) \in Catalogs
  BY <1>1, <1>2, <1>3 DEF Document
<1>5. \A n \in DOMAIN feedOf[i] : n > position[i] => feedOf[i][n] # Document(i)
  BY ImportsAssumption, <1>1, <1>2, <1>3 DEF Document, IsInjective
<1> QED BY <1>3, <1>4, <1>5

LEMMA InitHolding == WritesInit => Holding
<1> SUFFICES ASSUME WritesInit PROVE Holding
  OBVIOUS
<1>1. row \in [Catalogs -> Rows \cup {NoRow}]
  <2> DEFINE Drafts == [status : {"draft"}, version : {1}, recommended : {FALSE},
                        published_at : {Never}]
             Live   == [status : {"published"}, version : {1}, recommended : BOOLEAN,
                        published_at : {0}]
  <2>1. Drafts \subseteq Rows
    <3> SUFFICES ASSUME NEW r \in Drafts PROVE r \in Rows
      OBVIOUS
    <3>1. r = [status |-> r.status, version |-> r.version, recommended |-> r.recommended,
               published_at |-> r.published_at]
      OBVIOUS
    <3>2. r.status \in Statuses
      BY DEF Statuses
    <3>3. r.version \in Nat \ {0}
      OBVIOUS
    <3>4. r.recommended \in BOOLEAN
      OBVIOUS
    <3>5. r.published_at \in Nat \cup {Never}
      OBVIOUS
    <3> QED BY <3>1, <3>2, <3>3, <3>4, <3>5 DEF Rows
  <2>2. Live \subseteq Rows
    BY DEF Rows, Statuses
  <2>3. row \in [Catalogs -> {NoRow} \cup Drafts \cup Live]
    BY DEF WritesInit, Init
  <2> HIDE DEF Drafts, Live
  <2> QED BY <2>1, <2>2, <2>3
<1>2. WritesTypeOK
  BY <1>1 DEF WritesInit, Init, WritesTypeOK, Unread
<1>3. RowLocked /\ RequestsHoldRows
  BY DEF WritesInit, Init, RowLocked, RequestsHoldRows
<1>4. ImportsHoldRows
  <2> SUFFICES ASSUME NEW i \in Imports
               PROVE  /\ position[i] <= Len(feedOf[i])
                      /\ \A c \in Catalogs : pending[i][c] = NoRow /\ loaded[i][c] = NoRow
                      /\ \A n \in DOMAIN feedOf[i] : feedOf[i][n] \in Catalogs
    BY DEF ImportsHoldRows
  <2>1. feedOf[i] \in Seq(Catalogs) /\ feedOf[i] # << >>
    BY ImportsAssumption
  <2>2. Len(feedOf[i]) >= 1
    BY <2>1
  <2> QED BY <2>1, <2>2 DEF WritesInit, Unread
<1> QED BY <1>2, <1>3, <1>4 DEF Holding

\* Reading what is committed, or leaving rows and locks alone, disturbs nothing.
LEMMA NextHolding == Holding /\ [WritesNext]_writesVars => Holding'
<1> SUFFICES ASSUME Holding, [WritesNext]_writesVars PROVE Holding'
  OBVIOUS
<1> USE DEF Holding, RowLocked, RequestsHoldRows
<1>1. CASE UNCHANGED writesVars
  BY <1>1 DEF writesVars, importVars, vars, dbVars, peopleVars, sessionVars, WritesTypeOK,
              ImportsHoldRows
<1>2. CASE Next /\ UNCHANGED importVars
  <2> USE DEF importVars
  <2>a. ASSUME UNCHANGED <<row, lock>> PROVE ImportsHoldRows'
    BY <1>2, <2>a DEF ImportsHoldRows
  <2>1. ASSUME NEW p \in People, SetActor(p) PROVE Holding'
    BY <1>2, <2>a, <2>1 DEF SetActor, dbVars, sessionVars, WritesTypeOK
  <2>2. ASSUME NEW s \in Sessions, NEW c \in Catalogs, SendView(s, c) PROVE Holding'
    BY <1>2, <2>a, <2>2 DEF SendView, dbVars, WritesTypeOK
  <2>3. ASSUME NEW s \in Sessions, NEW w \in WriteRequests, SendWrite(s, w) PROVE Holding'
    BY <1>2, <2>a, <2>3 DEF SendWrite, dbVars, WritesTypeOK
  <2>b. ASSUME NEW s \in Sessions, NEW code, Finish(s, code)
        PROVE  /\ work' \in [Sessions -> Rows \cup {NoRow}]
               /\ pc' \in [Sessions -> {"idle", "sent", "admitted", "waiting", "locked",
                                        "written", "committed"}]
               /\ began' \in [Sessions -> Nat]
               /\ pc'[s] = "idle"
               /\ \A t \in Sessions \ {s} : pc'[t] = pc[t] /\ work'[t] = work[t]
    BY <2>b DEF Finish, WritesTypeOK
  <2>4. ASSUME NEW s \in Sessions, Authenticate(s) PROVE Holding'
    <3>1. UNCHANGED <<row, lock, clock, at, page>>
      BY <2>4 DEF Authenticate, dbVars
    <3>2. CASE Finish(s, "forbidden")
      BY <1>2, <2>a, <2>b, <3>1, <3>2 DEF WritesTypeOK
    <3>3. CASE pc' = [pc EXCEPT ![s] = "admitted"] /\ UNCHANGED <<began, work>>
      BY <1>2, <2>a, <3>1, <3>3 DEF WritesTypeOK
    <3> QED BY <2>4, <3>2, <3>3 DEF Authenticate
  <2>5. ASSUME NEW s \in Sessions, ReadDetail(s) \/ Respond(s) \/ LoseResponse(s)
        PROVE  Holding'
    <3>1. UNCHANGED <<row, lock, clock, at>> /\ \E code : Finish(s, code)
      BY <2>5 DEF ReadDetail, Respond, LoseResponse, dbVars
    <3>2. page' \in [Sessions -> Rows \cup {NoRow}]
      BY <2>5 DEF ReadDetail, Respond, LoseResponse, WritesTypeOK
    <3> QED BY <1>2, <2>a, <2>b, <3>1, <3>2 DEF WritesTypeOK
  <2>6. ASSUME NEW s \in Sessions, RequireCatalogPermission(s) PROVE Holding'
    <3>1. UNCHANGED <<row, lock, clock, at, page>>
      BY <2>6 DEF RequireCatalogPermission, dbVars
    <3>2. CASE Finish(s, "forbidden")
      BY <1>2, <2>a, <2>b, <3>1, <3>2 DEF WritesTypeOK
    <3>3. CASE /\ pc' = [pc EXCEPT ![s] = "waiting"] /\ began' = [began EXCEPT ![s] = clock]
               /\ UNCHANGED work
      BY <1>2, <2>a, <3>1, <3>3 DEF WritesTypeOK
    <3> QED BY <2>6, <3>2, <3>3 DEF RequireCatalogPermission
  <2>7. ASSUME NEW s \in Sessions, LockCatalog(s) PROVE Holding'
    <3>1. WritesTypeOK' /\ RowLocked' /\ RequestsHoldRows'
      BY <1>2, <2>7 DEF LockCatalog, WritesTypeOK
    <3>2. \A i \in Imports, c \in Catalogs : lock[c] = i => lock'[c] = i
      BY <2>7, ImportsAssumption DEF LockCatalog, WritesTypeOK
    <3> QED BY <1>2, <2>7, <3>1, <3>2 DEF LockCatalog, ImportsHoldRows
  <2>8. ASSUME NEW s \in Sessions, Refuse(s) \/ Abort(s) PROVE Holding'
    <3>1. UNCHANGED <<row, clock, at, page>> /\ \E code : Finish(s, code)
      BY <2>8 DEF Refuse, Abort
    <3>2. /\ lock' \in [Catalogs -> Sessions \cup Imports \cup {Nobody}]
          /\ \A c \in Catalogs : lock[c] # s => lock'[c] = lock[c]
      BY <2>8 DEF Refuse, Abort, WritesTypeOK
    <3>3. WritesTypeOK' /\ RequestsHoldRows'
      BY <1>2, <2>b, <3>1, <3>2 DEF WritesTypeOK
    <3>4. RowLocked'
      <4> SUFFICES ASSUME NEW t \in Sessions
                   PROVE  /\ pc'[t] \in {"locked", "written"} => lock'[at[t]] = t
                          /\ pc'[t] = "locked" => work'[t] = row[at[t]]
        BY <3>1
      <4>1. CASE t = s
        BY <2>b, <3>1, <4>1
      <4>2. CASE t # s
        BY <2>b, <3>1, <3>2, <4>2
      <4> QED BY <4>1, <4>2
    <3>5. \A i \in Imports, c \in Catalogs : lock[c] = i => lock'[c] = i
      BY <3>2, ImportsAssumption
    <3> QED BY <1>2, <3>1, <3>3, <3>4, <3>5 DEF ImportsHoldRows
  <2>9. ASSUME NEW s \in Sessions, PersistStatus(s) PROVE Holding'
    <3>1. row[at[s]] \in Rows
      BY <2>9 DEF PersistStatus, Refusal, WritesTypeOK
    <3>2. PICK target \in Targets(work[s].status, want[s]) :
             work' = [work EXCEPT ![s] = SetStatus(row[at[s]], target, began[s])]
      BY <2>9 DEF PersistStatus
    <3>3. SetStatus(row[at[s]], target, began[s]) \in Rows
      BY <3>1, EditedIsRow DEF Targets
    <3> QED BY <1>2, <2>9, <3>2, <3>3 DEF PersistStatus, dbVars, WritesTypeOK, ImportsHoldRows
  <2>10. ASSUME NEW s \in Sessions, PersistRecommended(s) PROVE Holding'
    <3>1. row[at[s]] \in Rows
      BY <2>10 DEF PersistRecommended, Refusal, WritesTypeOK
    <3>2. SetRecommended(row[at[s]], want[s] = "recommend") \in Rows
      BY <3>1, EditedIsRow DEF Statuses
    <3> QED BY <1>2, <2>10, <3>2 DEF PersistRecommended, dbVars, WritesTypeOK, ImportsHoldRows
  <2>11. ASSUME NEW s \in Sessions, Commit(s) PROVE Holding'
    <3>1. WritesTypeOK' /\ RequestsHoldRows'
      BY <1>2, <2>11 DEF Commit, WritesTypeOK
    <3>2. RowLocked'
      BY <2>11 DEF Commit, WritesTypeOK
    <3>3. \A i \in Imports, c \in Catalogs : lock[c] = i => lock'[c] = i
      BY <2>11, ImportsAssumption DEF Commit, WritesTypeOK
    <3>4. \A c \in Catalogs : row[c] # NoRow => row'[c] # NoRow
      BY <2>11, AbsentIsNoRow DEF Commit, WritesTypeOK
    <3> QED BY <1>2, <3>1, <3>2, <3>3, <3>4 DEF ImportsHoldRows
  <2> QED
    BY <1>2, <2>1, <2>2, <2>3, <2>4, <2>5, <2>6, <2>7, <2>8, <2>9, <2>10, <2>11 DEF Next, Serve
<1>3. ASSUME NEW i \in Imports, BeginImport(i) PROVE Holding'
  BY <1>3 DEF BeginImport, vars, dbVars, sessionVars, WritesTypeOK, ImportsHoldRows
<1>4. ASSUME NEW i \in Imports, LookUp(i) PROVE Holding'
  BY <1>4, DocumentIsNext DEF LookUp, vars, dbVars, sessionVars, WritesTypeOK, ImportsHoldRows
<1>5. ASSUME NEW i \in Imports, Flush(i) PROVE Holding'
  <2> DEFINE c     == Document(i)
             write == IF loaded[i][c] = NoRow
                        THEN BuiltRow(recommendedOf[i], started[i])
                        ELSE UpdatedRow(row[c], loaded[i][c], recommendedOf[i], started[i])
  <2>1. c \in Catalogs
    BY DocumentIsNext
  <2>2. /\ ipc[i] = "flush" /\ lock[c] = Nobody
        /\ lock' = [lock EXCEPT ![c] = i]
        /\ pending' = [pending EXCEPT ![i][c] = write]
        /\ UNCHANGED <<row, clock, sessionVars, started, loaded>>
        /\ IF position[i] < Len(feedOf[i])
             THEN ipc' = [ipc EXCEPT ![i] = "lookup"] /\ position' = [position EXCEPT ![i] = @ + 1]
             ELSE ipc' = [ipc EXCEPT ![i] = "commit"] /\ UNCHANGED position
    BY <1>5 DEF Flush
  <2>3. write \in Rows
    <3>1. recommendedOf[i] \in BOOLEAN /\ started[i] \in Nat
      BY ImportsAssumption DEF WritesTypeOK
    <3>2. loaded[i][c] # NoRow => row[c] \in Rows /\ loaded[i][c] \in Rows
      BY <2>1 DEF WritesTypeOK, ImportsHoldRows
    <3>3. CASE loaded[i][c] = NoRow
      BY <3>1, <3>3 DEF BuiltRow, Rows, Statuses
    <3>4. CASE loaded[i][c] # NoRow
      BY <3>1, <3>2, <3>4, ImportedIsRow
    <3> QED BY <3>3, <3>4
  <2> HIDE DEF c, write
  <2>4. WritesTypeOK'
    <3>1. lock' \in [Catalogs -> Sessions \cup Imports \cup {Nobody}]
      BY <2>2 DEF WritesTypeOK
    <3>2. pending' \in [Imports -> [Catalogs -> Rows \cup {NoRow}]]
      BY <2>2, <2>3 DEF WritesTypeOK
    <3>3. /\ ipc' \in [Imports -> {"ready", "lookup", "flush", "commit", "done", "failed"}]
          /\ position' \in [Imports -> Nat \ {0}]
      <4>1. CASE position[i] < Len(feedOf[i])
        <5>1. position[i] + 1 \in Nat \ {0}
          BY DEF WritesTypeOK
        <5>2. position' = [position EXCEPT ![i] = position[i] + 1]
          BY <2>2, <4>1
        <5> QED BY <2>2, <4>1, <5>1, <5>2 DEF WritesTypeOK
      <4>2. CASE ~ (position[i] < Len(feedOf[i]))
        BY <2>2, <4>2 DEF WritesTypeOK
      <4> QED BY <4>1, <4>2
    <3> QED BY <2>2, <3>1, <3>2, <3>3 DEF WritesTypeOK, sessionVars
  <2>5. RowLocked' /\ RequestsHoldRows'
    BY <2>1, <2>2 DEF WritesTypeOK, sessionVars
  <2>6. ImportsHoldRows'
    <3> SUFFICES ASSUME NEW j \in Imports
                 PROVE  /\ position'[j] <= Len(feedOf[j])
                        /\ ipc'[j] # "commit" =>
                              \A n \in DOMAIN feedOf[j] :
                                 n >= position'[j] => pending'[j][feedOf[j][n]] = NoRow
                        /\ \A d \in Catalogs : pending'[j][d] # NoRow => lock'[d] = j
                        /\ \A d \in Catalogs : loaded'[j][d] # NoRow => row'[d] # NoRow
      BY DEF ImportsHoldRows
    <3>1. position[j] \in Nat /\ position[j] <= Len(feedOf[j])
      BY DEF WritesTypeOK, ImportsHoldRows
    <3>2. Len(feedOf[j]) \in Nat /\ DOMAIN feedOf[j] \subseteq Nat
          /\ \A n \in DOMAIN feedOf[j] : feedOf[j][n] \in Catalogs
      BY ImportsAssumption
    <3>3. position'[j] <= Len(feedOf[j])
      <4>1. CASE j = i /\ position[i] < Len(feedOf[i])
        BY <2>2, <3>1, <3>2, <4>1 DEF WritesTypeOK
      <4>2. CASE ~ (j = i /\ position[i] < Len(feedOf[i]))
        <5>1. position'[j] = position[j]
          BY <2>2, <4>2 DEF WritesTypeOK
        <5> QED BY <3>1, <5>1
      <4> QED BY <4>1, <4>2
    <3>4. ASSUME NEW d \in Catalogs
          PROVE  /\ pending'[j][d] # NoRow => lock'[d] = j
                 /\ loaded'[j][d] # NoRow => row'[d] # NoRow
      BY <2>1, <2>2, ImportsAssumption DEF WritesTypeOK, ImportsHoldRows
    <3>5. ASSUME NEW n \in DOMAIN feedOf[j], ipc'[j] # "commit", n >= position'[j]
          PROVE  pending'[j][feedOf[j][n]] = NoRow
      <4>1. CASE j = i
        <5>1. position[i] < Len(feedOf[i]) /\ position'[i] = position[i] + 1
          BY <2>2, <3>5, <4>1 DEF WritesTypeOK
        <5>2. n > position[i]
          BY <3>1, <3>2, <3>5, <4>1, <5>1
        <5>3. feedOf[i][n] # c
          BY <4>1, <5>2, DocumentIsNext DEF c
        <5>4. pending[i][feedOf[i][n]] = NoRow
          BY <2>2, <3>1, <3>2, <4>1, <5>2 DEF ImportsHoldRows
        <5> QED BY <2>1, <2>2, <3>2, <4>1, <5>3, <5>4 DEF WritesTypeOK
      <4>2. CASE j # i
        <5>1. position'[j] = position[j] /\ ipc'[j] = ipc[j] /\ pending'[j] = pending[j]
          BY <2>2, <4>2 DEF WritesTypeOK
        <5> QED BY <3>5, <5>1 DEF ImportsHoldRows
      <4> QED BY <4>1, <4>2
    <3> QED BY <3>3, <3>4, <3>5
  <2> QED BY <2>4, <2>5, <2>6
\* The end of an import's transaction: it holds nothing, and nobody else loses a lock.
<1>a. ASSUME NEW i \in Imports, NEW outcome \in {"done", "failed"}, EndImport(i, outcome)
      PROVE  /\ lock' \in [Catalogs -> Sessions \cup Imports \cup {Nobody}]
             /\ \A c \in Catalogs : lock[c] # i => lock'[c] = lock[c]
             /\ ipc' \in [Imports -> {"ready", "lookup", "flush", "commit", "done", "failed"}]
             /\ started' \in [Imports -> Nat]
             /\ loaded' \in [Imports -> [Catalogs -> Rows \cup {NoRow}]]
             /\ pending' \in [Imports -> [Catalogs -> Rows \cup {NoRow}]]
             /\ \A c \in Catalogs : loaded'[i][c] = NoRow /\ pending'[i][c] = NoRow
             /\ \A j \in Imports \ {i} :
                   ipc'[j] = ipc[j] /\ loaded'[j] = loaded[j] /\ pending'[j] = pending[j]
             /\ UNCHANGED <<position, sessionVars>>
  BY <1>a DEF EndImport, Released, Unread, WritesTypeOK
<1>b. ASSUME NEW i \in Imports, NEW outcome \in {"done", "failed"}, EndImport(i, outcome),
             row' \in [Catalogs -> Rows \cup {NoRow}], clock' \in Nat,
             \A c \in Catalogs : /\ lock[c] # i => row'[c] = row[c]
                                 /\ row[c] # NoRow => row'[c] # NoRow
      PROVE  Holding'
  <2>1. WritesTypeOK' /\ RequestsHoldRows'
    BY <1>a, <1>b DEF WritesTypeOK, sessionVars
  <2>2. RowLocked'
    <3> SUFFICES ASSUME NEW s \in Sessions
                 PROVE  /\ pc[s] \in {"locked", "written"} => lock'[at[s]] = s
                        /\ pc[s] = "locked" => work[s] = row'[at[s]]
      BY <1>a, <1>b DEF sessionVars
    <3>1. s # i
      BY ImportsAssumption
    <3> QED BY <1>a, <1>b, <3>1
  <2>3. ImportsHoldRows'
    <3> SUFFICES ASSUME NEW j \in Imports
                 PROVE  /\ position[j] <= Len(feedOf[j])
                        /\ ipc'[j] # "commit" =>
                              \A n \in DOMAIN feedOf[j] :
                                 n >= position[j] => pending'[j][feedOf[j][n]] = NoRow
                        /\ \A c \in Catalogs : pending'[j][c] # NoRow => lock'[c] = j
                        /\ \A c \in Catalogs : loaded'[j][c] # NoRow => row'[c] # NoRow
      BY <1>a, <1>b DEF ImportsHoldRows
    <3>1. CASE j = i
      <4>1. \A n \in DOMAIN feedOf[j] : feedOf[j][n] \in Catalogs
        BY ImportsAssumption
      <4> QED BY <1>a, <1>b, <3>1, <4>1 DEF ImportsHoldRows
    <3>2. CASE j # i
      <4>1. ipc'[j] = ipc[j] /\ loaded'[j] = loaded[j] /\ pending'[j] = pending[j]
        BY <1>a, <1>b, <3>2
      <4>2. \A c \in Catalogs : lock[c] = j => lock'[c] = j
        BY <1>a, <1>b, <3>2
      <4> QED BY <1>b, <4>1, <4>2 DEF ImportsHoldRows
    <3> QED BY <3>1, <3>2
  <2> QED BY <2>1, <2>2, <2>3
<1>6. ASSUME NEW i \in Imports, CommitImport(i) PROVE Holding'
  <2>1. row' \in [Catalogs -> Rows \cup {NoRow}] /\ clock' \in Nat
    BY <1>6 DEF CommitImport, WritesTypeOK
  <2>2. \A c \in Catalogs : /\ lock[c] # i => row'[c] = row[c]
                            /\ row[c] # NoRow => row'[c] # NoRow
    BY <1>6 DEF CommitImport, ImportsHoldRows
  <2> QED BY <1>6, <1>b, <2>1, <2>2 DEF CommitImport
<1>7. ASSUME NEW i \in Imports, FailToInsert(i) \/ CrashImport(i) \/ BreakDeadlock(i)
      PROVE  Holding'
  <2>1. EndImport(i, "failed") /\ UNCHANGED <<row, clock>>
    BY <1>7 DEF FailToInsert, CrashImport, BreakDeadlock
  <2> QED BY <1>b, <2>1 DEF WritesTypeOK
<1> QED BY <1>1, <1>2, <1>3, <1>4, <1>5, <1>6, <1>7 DEF WritesNext, RunImport

LEMMA HoldingHolds == WritesSpec => []Holding
BY InitHolding, NextHolding, PTL DEF WritesSpec

\* Type correctness, also of what imports have read and not yet written.
THEOREM WritesAreTyped == WritesSpec => []WritesTypeOK
<1>1. Holding => WritesTypeOK
  BY DEF Holding
<1> QED BY <1>1, HoldingHolds, PTL

-----------------------------------------------------------------------------
(* Dates: PublishedIsDated needs that a date once set is never taken away, by anybody who has *)
(* read or written the row and not ended.                                                     *)

DatesStay ==
    /\ \A s \in Sessions :
          (pc[s] = "written" /\ row[at[s]].published_at # Never) => work[s].published_at # Never
    /\ \A i \in Imports, c \in Catalogs :
          /\ loaded[i][c].published_at # Never => row[c].published_at # Never
          /\ pending[i][c] # NoRow /\ row[c].published_at # Never =>
                pending[i][c].published_at # Never

ImportDating == PublishedIsDated /\ DatesStay

LEMMA InitImportDating == WritesInit => ImportDating
<1> SUFFICES ASSUME WritesInit PROVE ImportDating
  OBVIOUS
<1>1. ASSUME NEW c \in Catalogs, row[c].status = "published" PROVE row[c].published_at # Never
  <2>1. row[c] \in {NoRow} \cup
           [status : {"draft"}, version : {1}, recommended : {FALSE}, published_at : {Never}] \cup
           [status : {"published"}, version : {1}, recommended : BOOLEAN, published_at : {0}]
    BY DEF WritesInit, Init
  <2>2. row[c] \in
           [status : {"published"}, version : {1}, recommended : BOOLEAN, published_at : {0}]
    BY <1>1, <2>1, AbsentIsNoRow
  <2> QED BY <2>2
<1>2. \A s \in Sessions : pc[s] = "idle" /\ work[s] = NoRow
  BY DEF WritesInit, Init
<1>3. \A i \in Imports, c \in Catalogs : pending[i][c] = NoRow /\ loaded[i][c] = NoRow
  BY DEF WritesInit, Unread
<1> QED BY <1>1, <1>2, <1>3, AbsentIsNoRow DEF ImportDating, PublishedIsDated, DatesStay

\* What a commit has to show: the rows it leaves are dated and keep their dates, and whoever has
\* written another row still fits it.
LEMMA NextImportDating == Holding /\ Holding' /\ ImportDating /\ [WritesNext]_writesVars => ImportDating'
<1> SUFFICES ASSUME Holding, Holding', ImportDating, [WritesNext]_writesVars PROVE ImportDating'
  OBVIOUS
<1> USE DEF ImportDating
<1>1. CASE UNCHANGED writesVars
  BY <1>1 DEF writesVars, importVars, vars, dbVars, sessionVars, PublishedIsDated, DatesStay
<1>2. CASE Next /\ UNCHANGED importVars
  <2> USE DEF importVars
  <2>a. ASSUME NEW s \in Sessions, UNCHANGED <<row, at>>,
               \A t \in Sessions \ {s} : pc'[t] = pc[t] /\ work'[t] = work[t],
               work'[s].status = "published" => work'[s].published_at # Never,
               pc'[s] = "written" /\ row[at[s]].published_at # Never =>
                  work'[s].published_at # Never
        PROVE  ImportDating'
    BY <1>2, <2>a DEF PublishedIsDated, DatesStay
  <2>1. ASSUME NEW p \in People, SetActor(p) PROVE ImportDating'
    BY <1>2, <2>1 DEF SetActor, dbVars, sessionVars, PublishedIsDated, DatesStay
  <2>2. ASSUME NEW s \in Sessions, NEW c \in Catalogs, SendView(s, c) PROVE ImportDating'
    <3>1. UNCHANGED <<row, work>> /\ \A t \in Sessions : pc'[t] = "written" => pc[t] = "written" /\ at'[t] = at[t]
      BY <2>2 DEF SendView, dbVars, Holding, RequestsHoldRows
    <3> QED BY <1>2, <3>1 DEF PublishedIsDated, DatesStay
  <2>3. ASSUME NEW s \in Sessions, NEW w \in WriteRequests, SendWrite(s, w) PROVE ImportDating'
    <3>1. UNCHANGED <<row, at, work>> /\ \A t \in Sessions : pc'[t] = "written" => pc[t] = "written"
      BY <2>3 DEF SendWrite, dbVars, Holding, RequestsHoldRows
    <3> QED BY <1>2, <3>1 DEF PublishedIsDated, DatesStay
  <2>4. ASSUME NEW s \in Sessions,
               \/ Authenticate(s) \/ ReadDetail(s) \/ RequireCatalogPermission(s) \/ Refuse(s)
               \/ Respond(s) \/ LoseResponse(s) \/ Abort(s)
        PROVE  ImportDating'
    <3>1. UNCHANGED <<row, at>>
      BY <2>4 DEF Authenticate, ReadDetail, RequireCatalogPermission, Refuse, Respond,
                  LoseResponse, Abort, dbVars
    <3>2. \/ \E code : Finish(s, code)
          \/ (pc' = [pc EXCEPT ![s] = "admitted"] /\ UNCHANGED work)
          \/ (pc' = [pc EXCEPT ![s] = "waiting"] /\ UNCHANGED work)
      BY <2>4 DEF Authenticate, ReadDetail, RequireCatalogPermission, Refuse, Respond,
                  LoseResponse, Abort
    <3>3. CASE \E code : Finish(s, code)
      BY <2>a, <3>1, <3>3, AbsentIsNoRow DEF Finish, Holding, RequestsHoldRows, WritesTypeOK
    <3>4. CASE UNCHANGED work /\ (\/ pc' = [pc EXCEPT ![s] = "admitted"]
                                  \/ pc' = [pc EXCEPT ![s] = "waiting"])
      BY <1>2, <3>1, <3>4 DEF Holding, RequestsHoldRows, PublishedIsDated, DatesStay
    <3> QED BY <3>2, <3>3, <3>4
  <2>5. ASSUME NEW s \in Sessions, LockCatalog(s) PROVE ImportDating'
    <3>1. /\ UNCHANGED <<row, at>> /\ pc'[s] = "locked" /\ work'[s] = row[at[s]]
          /\ \A t \in Sessions \ {s} : pc'[t] = pc[t] /\ work'[t] = work[t]
      BY <2>5 DEF LockCatalog, Holding, RequestsHoldRows, WritesTypeOK
    <3>2. at[s] \in Catalogs
      BY DEF Holding, RequestsHoldRows
    <3> QED BY <2>a, <3>1, <3>2 DEF PublishedIsDated
  <2>6. ASSUME NEW s \in Sessions, PersistStatus(s) \/ PersistRecommended(s) PROVE ImportDating'
    <3>1. /\ row[at[s]] \in Rows /\ at[s] \in Catalogs /\ began[s] \in Nat
          /\ row[at[s]].status = "published" => row[at[s]].published_at # Never
      BY <2>6 DEF PersistStatus, PersistRecommended, Refusal, Holding, RowLocked,
                  RequestsHoldRows, WritesTypeOK, PublishedIsDated
    <3>2. /\ UNCHANGED <<row, at>>
          /\ \A t \in Sessions \ {s} : pc'[t] = pc[t] /\ work'[t] = work[t]
      BY <2>6 DEF PersistStatus, PersistRecommended, Holding, RequestsHoldRows, WritesTypeOK,
                  dbVars
    <3>3. \E status \in Statuses, b \in BOOLEAN :
             work'[s] \in {SetStatus(row[at[s]], status, began[s]), SetRecommended(row[at[s]], b)}
      <4>1. CASE PersistStatus(s)
        <5>1. PICK target \in Targets(work[s].status, want[s]) :
                 work' = [work EXCEPT ![s] = SetStatus(row[at[s]], target, began[s])]
          BY <4>1 DEF PersistStatus
        <5>2. target \in Statuses /\ work'[s] = SetStatus(row[at[s]], target, began[s])
          BY <5>1 DEF Targets, Holding, WritesTypeOK
        <5> QED BY <5>2
      <4>2. CASE PersistRecommended(s)
        <5>1. work'[s] = SetRecommended(row[at[s]], want[s] = "recommend")
          BY <4>2 DEF PersistRecommended, Holding, WritesTypeOK
        <5>2. "draft" \in Statuses /\ (want[s] = "recommend") \in BOOLEAN
          BY DEF Statuses
        <5> QED BY <5>1, <5>2
      <4> QED BY <2>6, <4>1, <4>2
    <3>4. /\ work'[s].status = "published" => work'[s].published_at # Never
          /\ row[at[s]].published_at # Never => work'[s].published_at # Never
      BY <3>1, <3>3, EditedIsDated
    <3> QED BY <2>a, <3>2, <3>4
  <2>7. ASSUME NEW s \in Sessions, Commit(s) PROVE ImportDating'
    <3>1. /\ row' = [row EXCEPT ![at[s]] = work[s]] /\ UNCHANGED <<at, work>>
          /\ pc' = [pc EXCEPT ![s] = "committed"] /\ pc[s] = "written" /\ lock[at[s]] = s
          /\ at[s] \in Catalogs
      BY <2>7 DEF Commit, Holding, RowLocked, RequestsHoldRows
    <3>2. \A c \in Catalogs : /\ row'[c].status = "published" => row'[c].published_at # Never
                              /\ row[c].published_at # Never => row'[c].published_at # Never
                              /\ c # at[s] => row'[c] = row[c]
      BY <3>1 DEF PublishedIsDated, DatesStay, Holding, WritesTypeOK
    <3>3. PublishedIsDated'
      BY <1>2, <3>1, <3>2 DEF PublishedIsDated
    <3>4. \A t \in Sessions : pc'[t] = "written" => pc[t] = "written" /\ at[t] # at[s]
      BY <3>1 DEF Holding, RowLocked, RequestsHoldRows
    <3>5. \A i \in Imports, c \in Catalogs : pending[i][c] # NoRow => c # at[s]
      BY <3>1, ImportsAssumption DEF Holding, ImportsHoldRows
    <3>6. \A t \in Sessions : at[t] \in Catalogs
      BY DEF Holding, RequestsHoldRows
    <3> QED BY <1>2, <3>1, <3>2, <3>3, <3>4, <3>5, <3>6 DEF DatesStay
  <2> QED
    BY <1>2, <2>1, <2>2, <2>3, <2>4, <2>5, <2>6, <2>7 DEF Next, Serve
<1>3. ASSUME NEW i \in Imports, BeginImport(i) PROVE ImportDating'
  BY <1>3 DEF BeginImport, vars, dbVars, sessionVars, PublishedIsDated, DatesStay
<1>4. ASSUME NEW i \in Imports, LookUp(i) PROVE ImportDating'
  <2>1. /\ UNCHANGED <<row, pending, pc, at, work>>
        /\ \A j \in Imports, c \in Catalogs : loaded'[j][c] \in {loaded[j][c], row[c]}
    BY <1>4, DocumentIsNext DEF LookUp, vars, dbVars, sessionVars, Holding, WritesTypeOK
  <2> QED BY <2>1 DEF PublishedIsDated, DatesStay
<1>5. ASSUME NEW i \in Imports, Flush(i) PROVE ImportDating'
  <2> DEFINE c     == Document(i)
             write == IF loaded[i][c] = NoRow
                        THEN BuiltRow(recommendedOf[i], started[i])
                        ELSE UpdatedRow(row[c], loaded[i][c], recommendedOf[i], started[i])
  <2>1. c \in Catalogs
    BY DocumentIsNext
  <2>2. /\ loaded[i][c] = NoRow => row[c] = NoRow
        /\ pending' = [pending EXCEPT ![i][c] = write]
        /\ UNCHANGED <<row, pc, at, work, loaded>>
    BY <1>5 DEF Flush, sessionVars
  <2>3. /\ write.status = "published" => write.published_at # Never
        /\ row[c].published_at # Never => write.published_at # Never
    <3>1. recommendedOf[i] \in BOOLEAN /\ started[i] \in Nat
      BY ImportsAssumption DEF Holding, WritesTypeOK
    <3>2. CASE loaded[i][c] = NoRow
      BY <2>2, <3>1, <3>2, AbsentIsNoRow DEF BuiltRow
    <3>3. CASE loaded[i][c] # NoRow
      <4>1. row[c] \in Rows /\ loaded[i][c] \in Rows
        BY <2>1, <3>3 DEF Holding, WritesTypeOK, ImportsHoldRows
      <4>2. /\ row[c].status = "published" => row[c].published_at # Never
            /\ loaded[i][c].published_at # Never => row[c].published_at # Never
        BY <2>1 DEF PublishedIsDated, DatesStay
      <4> QED BY <3>1, <3>3, <4>1, <4>2, ImportedIsDated
    <3> QED BY <3>2, <3>3
  <2> HIDE DEF c, write
  <2>4. \A j \in Imports, d \in Catalogs :
           \/ pending'[j][d] = pending[j][d]
           \/ (d = c /\ pending'[j][d] = write)
    BY <2>1, <2>2 DEF Holding, WritesTypeOK
  <2>5. PublishedIsDated'
    BY <2>2, <2>3, <2>4 DEF PublishedIsDated
  <2>6. DatesStay'
    BY <2>2, <2>3, <2>4 DEF DatesStay
  <2> QED BY <2>5, <2>6
<1>a. ASSUME NEW i \in Imports, NEW outcome, EndImport(i, outcome)
      PROVE  /\ UNCHANGED <<pc, at, work>>
             /\ \A j \in Imports, c \in Catalogs :
                   /\ loaded'[j][c] \in {loaded[j][c], NoRow}
                   /\ pending'[j][c] # NoRow => j # i /\ pending'[j][c] = pending[j][c]
  <2>1. /\ loaded' = [loaded EXCEPT ![i] = Unread] /\ pending' = [pending EXCEPT ![i] = Unread]
        /\ UNCHANGED <<pc, at, work>>
    BY <1>a DEF EndImport, sessionVars
  <2>2. loaded'[i] = Unread /\ pending'[i] = Unread
    BY <2>1 DEF Holding, WritesTypeOK
  <2>3. \A j \in Imports \ {i} : loaded'[j] = loaded[j] /\ pending'[j] = pending[j]
    BY <2>1 DEF Holding, WritesTypeOK
  <2>4. \A c \in Catalogs : Unread[c] = NoRow
    BY DEF Unread
  <2> QED BY <2>1, <2>2, <2>3, <2>4
<1>6. ASSUME NEW i \in Imports, CommitImport(i) PROVE ImportDating'
  <2>1. /\ \A c \in Catalogs : row'[c] = IF pending[i][c] # NoRow THEN pending[i][c] ELSE row[c]
        /\ EndImport(i, "done")
    BY <1>6 DEF CommitImport
  <2>2. \A c \in Catalogs : /\ row'[c].status = "published" => row'[c].published_at # Never
                            /\ row[c].published_at # Never => row'[c].published_at # Never
                            /\ lock[c] # i => row'[c] = row[c]
    BY <2>1 DEF PublishedIsDated, DatesStay, Holding, ImportsHoldRows
  <2>3. PublishedIsDated'
    BY <1>a, <2>1, <2>2, AbsentIsNoRow DEF PublishedIsDated
  <2>4. ASSUME NEW s \in Sessions, pc[s] = "written" PROVE row'[at[s]] = row[at[s]]
    <3>1. lock[at[s]] = s /\ at[s] \in Catalogs
      BY <2>4 DEF Holding, RowLocked, RequestsHoldRows
    <3>2. s # i
      BY ImportsAssumption
    <3> QED BY <2>2, <3>1, <3>2
  <2>5. ASSUME NEW j \in Imports, NEW c \in Catalogs, pending'[j][c] # NoRow
        PROVE  row'[c] = row[c]
    <3>1. j # i /\ pending[j][c] # NoRow
      BY <1>a, <2>1, <2>5
    <3>2. lock[c] = j
      BY <3>1 DEF Holding, ImportsHoldRows
    <3> QED BY <2>2, <3>1, <3>2
  <2>6. DatesStay'
    BY <1>a, <2>1, <2>2, <2>4, <2>5, AbsentIsNoRow DEF DatesStay
  <2> QED BY <2>3, <2>6
<1>7. ASSUME NEW i \in Imports, FailToInsert(i) \/ CrashImport(i) \/ BreakDeadlock(i)
      PROVE  ImportDating'
  <2>1. EndImport(i, "failed") /\ UNCHANGED row
    BY <1>7 DEF FailToInsert, CrashImport, BreakDeadlock
  <2> QED BY <1>a, <2>1, AbsentIsNoRow DEF PublishedIsDated, DatesStay
<1> QED BY <1>1, <1>2, <1>3, <1>4, <1>5, <1>6, <1>7 DEF WritesNext, RunImport

\* No write, of an editor or an import, is refused by ck_catalogs_published_when_published.
THEOREM PublishedRowsAreDated == WritesSpec => []PublishedIsDated
<1>1. WritesSpec => []ImportDating
  BY InitImportDating, NextImportDating, HoldingHolds, PTL DEF WritesSpec
<1>2. ImportDating => PublishedIsDated
  BY DEF ImportDating
<1> QED BY <1>1, <1>2, PTL

-----------------------------------------------------------------------------
(* Imports and editors: what an import has written over a row it found differs from the row in *)
(* no column the editors own.  It holds the row, so the row is still the one it wrote over.    *)

WrittenOverRow ==
    \A i \in Imports, c \in Catalogs : pending[i][c] # NoRow /\ loaded[i][c] # NoRow =>
        /\ pending[i][c].version = row[c].version
        /\ loaded[i][c].status # "draft" => pending[i][c].status = row[c].status

\* A row changes only under the lock of the transaction that writes it.
LEMMA RowsChangeUnderLock ==
  ASSUME Holding, [WritesNext]_writesVars, NEW c \in Catalogs, row'[c] # row[c]
  PROVE  \/ \E s \in Sessions : lock[c] = s /\ UNCHANGED importVars
         \/ \E i \in Imports : lock[c] = i /\ CommitImport(i)
<1>1. ~ UNCHANGED row
  OBVIOUS
<1>2. CASE \E i \in Imports : BeginImport(i) \/ RunImport(i) \/ CrashImport(i)
  <2>1. PICK i \in Imports : CommitImport(i)
    BY <1>1, <1>2 DEF BeginImport, RunImport, LookUp, Flush, FailToInsert, BreakDeadlock,
                      CrashImport, vars, dbVars
  <2>2. pending[i][c] # NoRow
    BY <2>1 DEF CommitImport
  <2> QED BY <2>1, <2>2 DEF Holding, ImportsHoldRows
<1>3. CASE Next /\ UNCHANGED importVars
  <2>1. PICK s \in Sessions : Commit(s)
    BY <1>1, <1>3 DEF Next, Serve, SetActor, SendView, SendWrite, Authenticate, ReadDetail,
                      RequireCatalogPermission, LockCatalog, Refuse, PersistStatus,
                      PersistRecommended, Respond, LoseResponse, Abort, dbVars
  <2>2. c = at[s] /\ lock[at[s]] = s
    BY <2>1 DEF Commit, Holding, WritesTypeOK, RowLocked
  <2> QED BY <1>3, <2>1, <2>2
<1> QED BY <1>1, <1>2, <1>3 DEF WritesNext, writesVars, vars, dbVars

LEMMA NextWrittenOverRow ==
  Holding /\ Holding' /\ WrittenOverRow /\ [WritesNext]_writesVars => WrittenOverRow'
<1> SUFFICES ASSUME Holding, Holding', WrittenOverRow, [WritesNext]_writesVars,
                    NEW i \in Imports, NEW c \in Catalogs,
                    pending'[i][c] # NoRow, loaded'[i][c] # NoRow
             PROVE  /\ pending'[i][c].version = row'[c].version
                    /\ loaded'[i][c].status # "draft" => pending'[i][c].status = row'[c].status
  BY DEF WrittenOverRow
<1>1. CASE pending'[i] = pending[i] /\ loaded'[i] = loaded[i]
  <2>1. lock[c] = i
    BY <1>1 DEF Holding, ImportsHoldRows
  <2>2. ~ CommitImport(i)
    <3> SUFFICES ASSUME CommitImport(i) PROVE FALSE
      OBVIOUS
    <3>1. pending'[i] = Unread
      BY DEF CommitImport, EndImport, Holding, WritesTypeOK
    <3> QED BY <3>1 DEF Unread
  <2>3. row'[c] = row[c]
    BY <2>1, <2>2, RowsChangeUnderLock, ImportsAssumption
  <2> QED BY <1>1, <2>3 DEF WrittenOverRow
<1>2. CASE LookUp(i)
  <2>1. /\ loaded' = [loaded EXCEPT ![i][Document(i)] = row[Document(i)]]
        /\ UNCHANGED <<row, pending>> /\ ipc[i] = "lookup"
    BY <1>2 DEF LookUp, vars, dbVars
  <2>2. pending[i][Document(i)] = NoRow
    <3>1. position[i] \in DOMAIN feedOf[i] /\ position[i] \in Nat
      BY DocumentIsNext DEF Holding, WritesTypeOK
    <3>2. position[i] >= position[i]
      BY <3>1
    <3> QED BY <2>1, <3>1, <3>2 DEF Holding, ImportsHoldRows, Document
  <2>3. c # Document(i)
    BY <2>1, <2>2
  <2>4. loaded'[i][c] = loaded[i][c]
    BY <2>1, <2>3 DEF Holding, WritesTypeOK
  <2> QED BY <2>1, <2>4 DEF WrittenOverRow
<1>3. CASE Flush(i)
  <2> DEFINE d     == Document(i)
             write == IF loaded[i][d] = NoRow
                        THEN BuiltRow(recommendedOf[i], started[i])
                        ELSE UpdatedRow(row[d], loaded[i][d], recommendedOf[i], started[i])
  <2>1. UNCHANGED <<row, loaded>> /\ pending' = [pending EXCEPT ![i][d] = write]
    BY <1>3 DEF Flush
  <2>2. CASE c = d
    <3>1. pending'[i][c] = UpdatedRow(row[c], loaded[i][c], recommendedOf[i], started[i])
      BY <2>1, <2>2 DEF Holding, WritesTypeOK
    <3> QED BY <2>1, <3>1 DEF UpdatedRow
  <2>3. CASE c # d
    <3>1. pending'[i][c] = pending[i][c]
      BY <2>1, <2>3 DEF Holding, WritesTypeOK
    <3> QED BY <2>1, <3>1 DEF WrittenOverRow
  <2> QED BY <2>2, <2>3
<1>4. ASSUME NEW outcome, EndImport(i, outcome) PROVE FALSE
  <2>1. pending'[i] = Unread
    BY <1>4 DEF EndImport, Holding, WritesTypeOK
  <2> QED BY <2>1 DEF Unread
<1>5. ASSUME NEW j \in Imports \ {i}, BeginImport(j) \/ RunImport(j) \/ CrashImport(j)
      PROVE  pending'[i] = pending[i] /\ loaded'[i] = loaded[i]
  BY <1>5 DEF BeginImport, RunImport, LookUp, Flush, CommitImport, FailToInsert, BreakDeadlock,
              CrashImport, EndImport, Holding, WritesTypeOK
<1>6. CASE BeginImport(i)
  BY <1>1, <1>6 DEF BeginImport
<1> QED
  BY <1>1, <1>2, <1>3, <1>4, <1>5, <1>6 DEF WritesNext, RunImport, CommitImport, FailToInsert,
     CrashImport, BreakDeadlock, writesVars, importVars

\* An import commits the version it wrote over, and the status of a catalog it did not find as a
\* draft, whatever editors have done since its lookup.
THEOREM ImportsSpareEditors == WritesSpec => ImportSparesEditors
<1>1. WritesInit => WrittenOverRow
  BY DEF WritesInit, Unread, WrittenOverRow
<1>2. Holding /\ WrittenOverRow /\ [WritesNext]_writesVars =>
         [\A i \in Imports : CommitImport(i) =>
             \A c \in Catalogs : loaded[i][c] # NoRow =>
                 /\ row'[c].version = row[c].version
                 /\ loaded[i][c].status # "draft" => row'[c].status = row[c].status]_writesVars
  <2> SUFFICES ASSUME Holding, WrittenOverRow,
                      NEW i \in Imports, CommitImport(i), NEW c \in Catalogs, loaded[i][c] # NoRow
               PROVE  /\ row'[c].version = row[c].version
                      /\ loaded[i][c].status # "draft" => row'[c].status = row[c].status
    OBVIOUS
  <2>1. row'[c] = IF pending[i][c] # NoRow THEN pending[i][c] ELSE row[c]
    BY DEF CommitImport
  <2> QED BY <2>1 DEF WrittenOverRow
<1> QED
  BY <1>1, <1>2, NextWrittenOverRow, HoldingHolds, PTL DEF WritesSpec, ImportSparesEditors

(***************************************************************************)
(* The admin requests: Spec.                                               *)
(***************************************************************************)
USE BoundsAssumption

-----------------------------------------------------------------------------
(* Facts about the operators. *)

LEMMA NoRowIsNoRow == NoRow \notin Rows /\ NoRow.version = 0 /\ NoActor \notin Actors
  BY DEF NoRow, Rows, NoActor, Actors, Roles, Statuses

LEMMA VersionIsNat ==
  ASSUME NEW r \in Rows \cup {NoRow}
  PROVE  r.version \in Nat /\ (r # NoRow => r.version > 0)
  BY DEF Rows, NoRow

LEMMA RefusalType ==
  ASSUME NEW found \in Rows \cup {NoRow}, NEW seen, NEW w
  PROVE  Refusal(found, seen, w) \in Answers
  BY DEF Refusal, Answers

LEMMA SetStatusType ==
  ASSUME NEW current \in Rows, NEW status \in Statuses, NEW now \in Nat
  PROVE  SetStatus(current, status, now) \in Rows
  BY DEF SetStatus, Rows

LEMMA SetRecommendedType ==
  ASSUME NEW current \in Rows, NEW b \in BOOLEAN
  PROVE  SetRecommended(current, b) \in Rows
  BY DEF SetRecommended, Rows


\* Types and the row lock go together: that an UPDATE yields a row needs the row it updates to be
\* the one that was locked.
Locking == TypeOK /\ RowLocked

LEMMA InitLocking == Init => Locking
<1> SUFFICES ASSUME Init PROVE Locking
  OBVIOUS
<1>1. row \in [Catalogs -> Rows \cup {NoRow}]
  <2> DEFINE Drafts == [status : {"draft"}, version : {1}, recommended : {FALSE},
                        published_at : {Never}]
             Live   == [status : {"published"}, version : {1}, recommended : BOOLEAN,
                        published_at : {0}]
  <2>1. Drafts \subseteq Rows
    <3> SUFFICES ASSUME NEW r \in Drafts PROVE r \in Rows
      OBVIOUS
    <3>1. r.status \in Statuses
      BY DEF Statuses
    <3>3. r.version \in Nat \ {0}
      OBVIOUS
    <3>4. r.recommended \in BOOLEAN
      OBVIOUS
    <3>5. r.published_at \in Nat \cup {Never}
      OBVIOUS
    <3>2. r = [status |-> r.status, version |-> r.version, recommended |-> r.recommended,
               published_at |-> r.published_at]
      OBVIOUS
    <3> QED BY <3>1, <3>2, <3>3, <3>4, <3>5 DEF Rows
  <2>2. Live \subseteq Rows
    BY DEF Rows, Statuses
  <2>3. row \in [Catalogs -> {NoRow} \cup Drafts \cup Live]
    BY DEF Init
  <2> HIDE DEF Drafts, Live
  <2> QED BY <2>1, <2>2, <2>3
<1>2. TypeOK
  BY <1>1 DEF Init, TypeOK, Requests, Answers
<1>3. RowLocked
  BY DEF Init, RowLocked
<1> QED BY <1>2, <1>3 DEF Locking

LEMMA NextLocking == Locking /\ [Next]_vars => Locking'
<1> SUFFICES ASSUME Locking, [Next]_vars PROVE Locking'
  OBVIOUS
<1> USE DEF Locking, RowLocked
<1>1. CASE UNCHANGED vars
  BY <1>1 DEF vars, dbVars, peopleVars, sessionVars, TypeOK
<1>2. ASSUME NEW p \in People, SetActor(p) PROVE Locking'
  BY <1>2 DEF SetActor, TypeOK, dbVars, sessionVars, Actors, NoActor, Roles
<1>3. ASSUME NEW s \in Sessions, NEW c \in Catalogs, SendView(s, c) PROVE Locking'
  BY <1>3 DEF SendView, TypeOK, dbVars, peopleVars, Requests, Answers
<1>4. ASSUME NEW s \in Sessions, NEW w \in WriteRequests, SendWrite(s, w) PROVE Locking'
  BY <1>4 DEF SendWrite, TypeOK, dbVars, peopleVars, Requests, Answers
<1>5. ASSUME NEW s \in Sessions, Authenticate(s) PROVE Locking'
  <2> DEFINE actor == LoggedIn(actors[personOf[s]])
  <2>1. actor \in Actors
    BY DEF LoggedIn, TypeOK, Actors, NoActor, Roles
  <2>2. CASE actor.is_active /\ "catalog.view" \in build_permissions(actor.role)
    BY <1>5, <2>1, <2>2 DEF Authenticate, TypeOK, dbVars, Actors
  <2>3. CASE ~ (actor.is_active /\ "catalog.view" \in build_permissions(actor.role))
    BY <1>5, <2>1, <2>3 DEF Authenticate, Finish, TypeOK, dbVars, Answers
  <2> QED BY <2>2, <2>3
<1>6. ASSUME NEW s \in Sessions, ReadDetail(s) PROVE Locking'
  BY <1>6 DEF ReadDetail, Finish, TypeOK, dbVars, peopleVars, Answers
<1>7. ASSUME NEW s \in Sessions, RequireCatalogPermission(s) PROVE Locking'
  BY <1>7 DEF RequireCatalogPermission, Finish, TypeOK, dbVars, peopleVars, Answers
<1>8. ASSUME NEW s \in Sessions, LockCatalog(s) PROVE Locking'
  BY <1>8 DEF LockCatalog, TypeOK, peopleVars
<1>9. ASSUME NEW s \in Sessions, Refuse(s) PROVE Locking'
  BY <1>9, RefusalType DEF Refuse, Finish, TypeOK, peopleVars
<1>10. ASSUME NEW s \in Sessions, PersistStatus(s) PROVE Locking'
  <2>1. row[at[s]] \in Rows
    BY <1>10 DEF PersistStatus, Refusal, TypeOK
  <2>2. PICK target \in Targets(work[s].status, want[s]) :
           work' = [work EXCEPT ![s] = SetStatus(row[at[s]], target, began[s])]
    BY <1>10 DEF PersistStatus
  <2>3. SetStatus(row[at[s]], target, began[s]) \in Rows
    BY <2>1, SetStatusType DEF Targets, TypeOK
  <2>4. [action : Undos(work[s].status, want[s]), back : {work[s].status}] \subseteq UndoOffers
    BY <2>1, <1>10 DEF Undos, UndoOffers, Rows, PersistStatus
  <2> QED
    BY <1>10, <2>2, <2>3, <2>4 DEF PersistStatus, TypeOK, dbVars, peopleVars
<1>11. ASSUME NEW s \in Sessions, PersistRecommended(s) PROVE Locking'
  <2>1. row[at[s]] \in Rows
    BY <1>11 DEF PersistRecommended, Refusal, TypeOK
  <2>2. SetRecommended(row[at[s]], want[s] = "recommend") \in Rows
    BY <2>1, SetRecommendedType
  <2> QED
    BY <1>11, <2>2 DEF PersistRecommended, TypeOK, dbVars, peopleVars
<1>12. ASSUME NEW s \in Sessions, Commit(s) PROVE Locking'
  BY <1>12 DEF Commit, TypeOK, peopleVars
<1>13. ASSUME NEW s \in Sessions, Respond(s) PROVE Locking'
  BY <1>13 DEF Respond, Finish, TypeOK, dbVars, peopleVars, Answers
<1>14. ASSUME NEW s \in Sessions, LoseResponse(s) PROVE Locking'
  BY <1>14 DEF LoseResponse, Finish, TypeOK, dbVars, peopleVars, Answers
<1>15. ASSUME NEW s \in Sessions, Abort(s) PROVE Locking'
  BY <1>15 DEF Abort, Finish, TypeOK, dbVars, peopleVars, Answers
<1> QED
  BY <1>1, <1>2, <1>3, <1>4, <1>5, <1>6, <1>7, <1>8, <1>9, <1>10, <1>11, <1>12, <1>13,
     <1>14, <1>15 DEF Next, Serve

LEMMA LockingHolds == Spec => []Locking
BY InitLocking, NextLocking, PTL DEF Spec

\* Type correctness, for every number of catalogs, tabs and people.
THEOREM TypeCorrect == Spec => []TypeOK
<1>1. Locking => TypeOK
  BY DEF Locking
<1> QED BY <1>1, LockingHolds, PTL

-----------------------------------------------------------------------------
(* Optimistic locking: the version a page shows is worth checking. *)

\* A request that is not refused works on the row its page shows.
LEMMA UnrefusedIsSeen ==
  ASSUME Locking, VersionNamesState, RequestShape,
         NEW s \in Sessions, pc[s] = "locked",
         Refusal(work[s], page[s], want[s]) = "none"
  PROVE  /\ work[s] = row[at[s]]
         /\ row[at[s]] = page[s]
         /\ page[s] \in Rows
         /\ want[s] \in TRANSITION_ACTIONS => Targets(page[s].status, want[s]) # {}
         /\ want[s] \notin TRANSITION_ACTIONS => page[s].status = "published"
<1>1. work[s] = row[at[s]] /\ work[s] # NoRow /\ work[s].version = page[s].version
  BY DEF Locking, RowLocked, Refusal
<1>2. want[s] \in WriteRequests /\ page[s] # NoRow
  BY DEF RequestShape
<1>3. row[at[s]] = page[s]
  BY <1>1, <1>2 DEF VersionNamesState
<1> QED BY <1>1, <1>2, <1>3 DEF Refusal, Locking, TypeOK

Versioning == RequestShape /\ VersionNamesState /\ NoLostUpdate /\ WorkFollowsRow

LEMMA InitVersioning == Init => Versioning
BY DEF Init, Versioning, RequestShape, VersionNamesState, NoLostUpdate, WorkFollowsRow,
       WriteRequests, TRANSITION_ACTIONS

LEMMA NextVersioning == Locking /\ Locking' /\ Versioning /\ [Next]_vars => Versioning'
<1> SUFFICES ASSUME Locking, Locking', Versioning, [Next]_vars PROVE Versioning'
  OBVIOUS
<1> USE DEF Versioning, RequestShape, VersionNamesState, NoLostUpdate, WorkFollowsRow, Locking
<1>a. "view" \notin WriteRequests
  BY DEF WriteRequests, TRANSITION_ACTIONS
<1>1. CASE UNCHANGED vars
  BY <1>1 DEF vars, dbVars, peopleVars, sessionVars
<1>2. ASSUME NEW p \in People, SetActor(p) PROVE Versioning'
  BY <1>2 DEF SetActor, dbVars, sessionVars
<1>3. ASSUME NEW s \in Sessions, NEW c \in Catalogs, SendView(s, c) PROVE Versioning'
  BY <1>3, <1>a DEF SendView, TypeOK, dbVars, peopleVars
<1>4. ASSUME NEW s \in Sessions, NEW w \in WriteRequests, SendWrite(s, w) PROVE Versioning'
  BY <1>4 DEF SendWrite, TypeOK, dbVars, peopleVars
<1>5. ASSUME NEW s \in Sessions, Authenticate(s) PROVE Versioning'
  BY <1>5 DEF Authenticate, Finish, TypeOK, dbVars
<1>6. ASSUME NEW s \in Sessions, ReadDetail(s) PROVE Versioning'
  BY <1>6, <1>a, VersionIsNat DEF ReadDetail, Finish, TypeOK, dbVars, peopleVars
<1>7. ASSUME NEW s \in Sessions, RequireCatalogPermission(s) PROVE Versioning'
  BY <1>7 DEF RequireCatalogPermission, Finish, TypeOK, dbVars, peopleVars
<1>8. ASSUME NEW s \in Sessions, LockCatalog(s) PROVE Versioning'
  BY <1>8 DEF LockCatalog, TypeOK, peopleVars
<1>9. ASSUME NEW s \in Sessions, Refuse(s) PROVE Versioning'
  BY <1>9 DEF Refuse, Finish, TypeOK, peopleVars
<1>10. ASSUME NEW s \in Sessions, PersistStatus(s) PROVE Versioning'
  <2>1. row[at[s]] = page[s] /\ page[s] \in Rows
    BY <1>10, UnrefusedIsSeen DEF PersistStatus
  <2>2. \E t : work' = [work EXCEPT ![s] = SetStatus(row[at[s]], t, began[s])]
    BY <1>10 DEF PersistStatus
  <2>3. work'[s].version = row[at[s]].version + 1
    BY <2>2 DEF SetStatus, TypeOK
  <2> QED BY <1>10, <2>1, <2>3, NoRowIsNoRow DEF PersistStatus, TypeOK, dbVars, peopleVars
<1>11. ASSUME NEW s \in Sessions, PersistRecommended(s) PROVE Versioning'
  <2>1. row[at[s]] = page[s] /\ page[s] \in Rows
    BY <1>11, UnrefusedIsSeen DEF PersistRecommended
  <2>2. work'[s] = row[at[s]] \/ work'[s].version = row[at[s]].version + 1
    BY <1>11 DEF PersistRecommended, SetRecommended, TypeOK
  <2> QED BY <1>11, <2>1, <2>2, NoRowIsNoRow DEF PersistRecommended, TypeOK, dbVars, peopleVars
<1>12. ASSUME NEW s \in Sessions, Commit(s) PROVE Versioning'
  <2>1. /\ row' = [row EXCEPT ![at[s]] = work[s]]
        /\ pc' = [pc EXCEPT ![s] = "committed"]
        /\ UNCHANGED <<at, page, want, work, undo>>
    BY <1>12 DEF Commit
  <2>2. /\ page[s] # NoRow /\ row[at[s]] = page[s]
        /\ work[s] = row[at[s]] \/ work[s].version = row[at[s]].version + 1
        /\ work[s] # NoRow
    BY <1>12, VersionIsNat, NoRowIsNoRow DEF Commit, TypeOK
  <2>3. ASSUME NEW t \in Sessions
        PROVE  /\ row'[at[t]] = row[at[t]]
                  \/ row'[at[t]].version = row[at[t]].version + 1
               /\ row[at[t]].version \in Nat /\ page[t].version \in Nat
               /\ work[t].version \in Nat
    BY <2>1, <2>2, VersionIsNat DEF TypeOK
  <2>4. RequestShape'
    BY <1>12, <2>1 DEF Commit, TypeOK
  <2>5. VersionNamesState'
    BY <2>1, <2>3
  <2>6. NoLostUpdate'
    <3> SUFFICES ASSUME NEW t \in Sessions, pc'[t] = "written"
                 PROVE  page[t] # NoRow /\ row'[at[t]] = page[t]
      BY <2>1
    <3>1. pc[t] = "written" /\ t # s
      BY <2>1 DEF TypeOK
    <3>2. at[t] # at[s]
      BY <3>1, <1>12 DEF Commit, RowLocked
    <3> QED BY <3>1, <3>2, <2>1 DEF TypeOK
  <2>7. WorkFollowsRow'
    <3> SUFFICES ASSUME NEW t \in Sessions
                 PROVE  /\ pc'[t] = "written" =>
                              work[t] = row'[at[t]] \/ work[t].version = row'[at[t]].version + 1
                        /\ pc'[t] = "committed" =>
                              /\ work[t] # NoRow
                              /\ work[t].version <= row'[at[t]].version
                              /\ work[t].version = row'[at[t]].version => work[t] = row'[at[t]]
      BY <2>1
    <3>1. CASE t = s
      BY <3>1, <2>1, <2>2, <2>3 DEF TypeOK
    <3>2. CASE t # s /\ pc[t] = "written"
      <4>1. at[t] # at[s]
        BY <3>2, <1>12 DEF Commit, RowLocked
      <4> QED BY <3>2, <4>1, <2>1 DEF TypeOK
    <3>3. CASE t # s /\ pc[t] # "written"
      BY <3>3, <2>1, <2>3 DEF TypeOK
    <3> QED BY <3>1, <3>2, <3>3
  <2> QED BY <2>4, <2>5, <2>6, <2>7
<1>13. ASSUME NEW s \in Sessions, Respond(s) PROVE Versioning'
  BY <1>13, VersionIsNat DEF Respond, Finish, TypeOK, dbVars, peopleVars
<1>14. ASSUME NEW s \in Sessions, LoseResponse(s) PROVE Versioning'
  BY <1>14 DEF LoseResponse, Finish, TypeOK, dbVars, peopleVars
<1>15. ASSUME NEW s \in Sessions, Abort(s) PROVE Versioning'
  BY <1>15 DEF Abort, Finish, TypeOK, dbVars, peopleVars
<1> QED
  BY <1>1, <1>2, <1>3, <1>4, <1>5, <1>6, <1>7, <1>8, <1>9, <1>10, <1>11, <1>12, <1>13,
     <1>14, <1>15 DEF Next, Serve

LEMMA VersioningHolds == Spec => []Versioning
BY InitVersioning, NextVersioning, LockingHolds, PTL DEF Spec

\* An equal version means an equal row, for every page of every tab.
THEOREM VersionsNameStates == Spec => []VersionNamesState
<1>1. Versioning => VersionNamesState
  BY DEF Versioning
<1> QED BY <1>1, VersioningHolds, PTL

\* No accepted write overwrites a row its editor was not looking at.
THEOREM NoUpdateIsLost == Spec => []NoLostUpdate
<1>1. Versioning => NoLostUpdate
  BY DEF Versioning
<1> QED BY <1>1, VersioningHolds, PTL

-----------------------------------------------------------------------------
(* Refusals are true. *)

\* Whose answer it is: the other tabs keep theirs, and it stays true while versions only grow.
LEMMA AnswersKept ==
  ASSUME Locking, Versioning, AnswersAreTrue, NEW s \in Sessions,
         \A t \in Sessions \ {s} :
            answer'[t] = answer[t] /\ page'[t] = page[t] /\ want'[t] = want[t] /\ at'[t] = at[t],
         \A c \in Catalogs : row[c].version <= row'[c].version,
         \A c \in Catalogs : row'[c].version \in Nat,
         answer'[s] = "version-conflict" => row'[at'[s]].version > page'[s].version,
         answer'[s] = "invalid-transition" => Targets(page'[s].status, want'[s]) = {},
         answer'[s] = "not-published" => page'[s].status # "published"
  PROVE  AnswersAreTrue'
<1> SUFFICES ASSUME NEW t \in Sessions
             PROVE  /\ answer'[t] = "version-conflict" => row'[at'[t]].version > page'[t].version
                    /\ answer'[t] = "invalid-transition" => Targets(page'[t].status, want'[t]) = {}
                    /\ answer'[t] = "not-published" => page'[t].status # "published"
  BY DEF AnswersAreTrue
<1>1. CASE t = s
  BY <1>1
<1>2. CASE t # s
  <2>1. /\ answer[t] = "version-conflict" => row[at[t]].version > page[t].version
        /\ answer[t] = "invalid-transition" => Targets(page[t].status, want[t]) = {}
        /\ answer[t] = "not-published" => page[t].status # "published"
    BY DEF AnswersAreTrue
  <2>2. answer'[t] = answer[t] /\ page'[t] = page[t] /\ want'[t] = want[t] /\ at'[t] = at[t]
    BY <1>2
  <2>3. at[t] \in Catalogs /\ row[at[t]].version \in Nat /\ page[t].version \in Nat
    BY VersionIsNat DEF Locking, TypeOK
  <2> QED BY <2>1, <2>2, <2>3
<1> QED BY <1>1, <1>2

LEMMA NextAnswers ==
  Locking /\ Locking' /\ Versioning /\ AnswersAreTrue /\ [Next]_vars => AnswersAreTrue'
<1> SUFFICES ASSUME Locking, Locking', Versioning, AnswersAreTrue, [Next]_vars
             PROVE  AnswersAreTrue'
  OBVIOUS
<1>a. \A c \in Catalogs : row[c].version \in Nat /\ row'[c].version \in Nat
  BY VersionIsNat DEF Locking, TypeOK
<1>b. \A c \in Catalogs : row[c].version <= row[c].version
  BY <1>a
<1>1. CASE UNCHANGED vars
  BY <1>1 DEF vars, dbVars, peopleVars, sessionVars, AnswersAreTrue
<1>2. ASSUME NEW p \in People, SetActor(p) PROVE AnswersAreTrue'
  BY <1>2 DEF SetActor, dbVars, sessionVars, AnswersAreTrue
<1>3. ASSUME NEW s \in Sessions, NEW c \in Catalogs, SendView(s, c) PROVE AnswersAreTrue'
  <2>1. row' = row /\ answer'[s] = "none"
    BY <1>3 DEF SendView, Locking, TypeOK, dbVars
  <2> QED BY <1>3, <2>1, <1>a, <1>b, AnswersKept DEF SendView, Locking, TypeOK
<1>4. ASSUME NEW s \in Sessions, NEW w \in WriteRequests, SendWrite(s, w) PROVE AnswersAreTrue'
  <2>1. row' = row /\ answer'[s] = "none"
    BY <1>4 DEF SendWrite, Locking, TypeOK, dbVars
  <2> QED BY <1>4, <2>1, <1>a, <1>b, AnswersKept DEF SendWrite, Locking, TypeOK
<1>5. ASSUME NEW s \in Sessions,
             Authenticate(s) \/ RequireCatalogPermission(s) \/ LoseResponse(s) \/ Abort(s)
      PROVE  AnswersAreTrue'
  <2>1. /\ row' = row /\ UNCHANGED <<at, page, want>>
        /\ answer' = answer \/ \E code \in {"forbidden", "failed"} :
                                  answer' = [answer EXCEPT ![s] = code]
    BY <1>5 DEF Authenticate, RequireCatalogPermission, LoseResponse, Abort, Finish, dbVars
  <2>2. CASE answer' = answer
    BY <2>1, <2>2 DEF AnswersAreTrue
  <2>3. CASE \E code \in {"forbidden", "failed"} : answer' = [answer EXCEPT ![s] = code]
    <3>1. answer'[s] \in {"forbidden", "failed"}
      BY <2>3 DEF Locking, TypeOK
    <3> QED BY <2>1, <2>3, <3>1, <1>a, <1>b, AnswersKept DEF Locking, TypeOK
  <2> QED BY <2>1, <2>2, <2>3
<1>6. ASSUME NEW s \in Sessions, ReadDetail(s) \/ Respond(s) PROVE AnswersAreTrue'
  <2>1. row' = row /\ answer'[s] \in {"ok", "not-found"} /\ UNCHANGED <<at, want>>
    BY <1>6 DEF ReadDetail, Respond, Finish, Locking, TypeOK, dbVars
  <2>2. \A t \in Sessions \ {s} : answer'[t] = answer[t] /\ page'[t] = page[t]
    BY <1>6 DEF ReadDetail, Respond, Finish, Locking, TypeOK
  <2> QED BY <2>1, <2>2, <1>a, <1>b, AnswersKept
<1>7. ASSUME NEW s \in Sessions, Refuse(s) PROVE AnswersAreTrue'
  <2> DEFINE code == Refusal(work[s], page[s], want[s])
  <2>1. work[s] = row[at[s]] /\ page[s] # NoRow /\ page[s].version <= row[at[s]].version
    BY <1>7 DEF Refuse, Locking, RowLocked, Versioning, RequestShape, VersionNamesState
  <2>2. /\ page[s].version \in Nat /\ page[s].version > 0
        /\ row[at[s]].version \in Nat
    BY <2>1, VersionIsNat DEF Locking, TypeOK
  <2>3. row[at[s]] # NoRow
    BY <2>1, <2>2, NoRowIsNoRow
  <2>4. code = "version-conflict" => row[at[s]].version > page[s].version
    BY <2>1, <2>2, <2>3 DEF Refusal
  <2>5. row[at[s]].version = page[s].version => row[at[s]] = page[s]
    BY <2>1 DEF Versioning, VersionNamesState
  <2>6. /\ code = "invalid-transition" => Targets(page[s].status, want[s]) = {}
        /\ code = "not-published" => page[s].status # "published"
    BY <2>1, <2>3, <2>5 DEF Refusal
  <2>7. row' = row /\ UNCHANGED <<at, page, want>> /\ answer' = [answer EXCEPT ![s] = code]
    BY <1>7 DEF Refuse, Finish
  <2>8. answer'[s] = code
    BY <2>7 DEF Locking, TypeOK
  <2> HIDE DEF code
  <2> QED BY <2>4, <2>6, <2>7, <2>8, <1>a, <1>b, AnswersKept DEF Locking, TypeOK
<1>8. ASSUME NEW s \in Sessions, LockCatalog(s) \/ PersistStatus(s) \/ PersistRecommended(s)
      PROVE  AnswersAreTrue'
  <2>1. row' = row /\ UNCHANGED <<at, page, want, answer>>
    BY <1>8 DEF LockCatalog, PersistStatus, PersistRecommended, dbVars
  <2> QED BY <2>1 DEF AnswersAreTrue
<1>9. ASSUME NEW s \in Sessions, Commit(s) PROVE AnswersAreTrue'
  <2>1. row' = [row EXCEPT ![at[s]] = work[s]] /\ UNCHANGED <<at, page, want, answer>>
    BY <1>9 DEF Commit
  <2>2. work[s] = row[at[s]] \/ work[s].version = row[at[s]].version + 1
    BY <1>9 DEF Commit, Versioning, WorkFollowsRow
  <2>3. \A c \in Catalogs : row[c].version <= row'[c].version
    BY <1>a, <2>1, <2>2 DEF Locking, TypeOK
  <2>4. at[s] \in Catalogs /\ page[s].version \in Nat
    BY VersionIsNat DEF Locking, TypeOK
  <2>5. answer[s] = "version-conflict" => row'[at[s]].version > page[s].version
    BY <2>3, <2>4, <1>a DEF AnswersAreTrue
  <2>6. /\ answer[s] = "invalid-transition" => Targets(page[s].status, want[s]) = {}
        /\ answer[s] = "not-published" => page[s].status # "published"
    BY DEF AnswersAreTrue
  <2> QED BY <2>1, <2>3, <2>5, <2>6, <1>a, AnswersKept
<1> QED
  BY <1>1, <1>2, <1>3, <1>4, <1>5, <1>6, <1>7, <1>8, <1>9 DEF Next, Serve

\* A version conflict means the catalog did change since the page was read; a refused transition
\* or recommendation was impossible from the very row the editor was looking at.
THEOREM RefusalsAreTrue == Spec => []AnswersAreTrue
<1>1. Init => AnswersAreTrue
  BY DEF Init, AnswersAreTrue
<1> QED BY <1>1, NextAnswers, LockingHolds, VersioningHolds, PTL DEF Spec

-----------------------------------------------------------------------------
(* Buttons. *)

\* The table of buttons offers nothing the lifecycle refuses.
LEMMA ButtonsFollowLifecycle ==
  ASSUME NEW status \in Statuses
  PROVE  /\ \A action \in TRANSITION_ACTIONS :
               Targets(status, action) = {} => action \notin STATUS_ACTIONS[status]
         /\ status # "published" => "recommend" \notin STATUS_ACTIONS[status]
<1> USE DEF STATUS_ACTIONS, Targets, TRANSITIONS, TRANSITION_ACTIONS, Statuses
<1>1. CASE status = "draft"
  BY <1>1
<1>2. CASE status = "published"
  BY <1>2
<1>3. CASE status = "unpublished"
  BY <1>3
<1>4. CASE status = "archived"
  BY <1>4
<1> QED BY <1>1, <1>2, <1>3, <1>4

\* A lifecycle's refusal answers a write of its kind, sent from a page that shows a catalog.
RefusalsFitRequests ==
    \A s \in Sessions : answer[s] \in {"invalid-transition", "not-published"} =>
        /\ page[s] # NoRow
        /\ want[s] \in TRANSITION_ACTIONS <=> answer[s] = "invalid-transition"

LEMMA NextRefusalsFit ==
  Locking /\ Versioning /\ RefusalsFitRequests /\ [Next]_vars => RefusalsFitRequests'
<1> SUFFICES ASSUME Locking, Versioning, RefusalsFitRequests, [Next]_vars,
                    NEW t \in Sessions, answer'[t] \in {"invalid-transition", "not-published"}
             PROVE  /\ page'[t] # NoRow
                    /\ want'[t] \in TRANSITION_ACTIONS <=> answer'[t] = "invalid-transition"
  BY DEF RefusalsFitRequests
<1>a. ASSUME UNCHANGED <<answer[t], page[t], want[t]>>
      PROVE  /\ page'[t] # NoRow
             /\ want'[t] \in TRANSITION_ACTIONS <=> answer'[t] = "invalid-transition"
  BY <1>a DEF RefusalsFitRequests
<1>1. CASE UNCHANGED vars
  BY <1>1, <1>a DEF vars, sessionVars
<1>2. ASSUME NEW p \in People, SetActor(p) PROVE UNCHANGED <<answer[t], page[t], want[t]>>
  BY <1>2 DEF SetActor, sessionVars
<1>3. ASSUME NEW s \in Sessions,
             \/ \E c \in Catalogs : SendView(s, c)
             \/ \E w \in WriteRequests : SendWrite(s, w)
      PROVE  UNCHANGED <<answer[t], page[t], want[t]>>
  BY <1>3 DEF SendView, SendWrite, Locking, TypeOK
<1>4. ASSUME NEW s \in Sessions,
             Authenticate(s) \/ RequireCatalogPermission(s) \/ LoseResponse(s) \/ Abort(s)
      PROVE  UNCHANGED <<answer[t], page[t], want[t]>>
  <2>1. /\ UNCHANGED <<page, want>>
        /\ answer' = answer \/ \E code \in {"forbidden", "failed"} :
                                  answer' = [answer EXCEPT ![s] = code]
    BY <1>4 DEF Authenticate, RequireCatalogPermission, LoseResponse, Abort, Finish
  <2> QED BY <2>1 DEF Locking, TypeOK
<1>5. ASSUME NEW s \in Sessions, ReadDetail(s) \/ Respond(s)
      PROVE  UNCHANGED <<answer[t], page[t], want[t]>>
  BY <1>5 DEF ReadDetail, Respond, Finish, Locking, TypeOK
<1>6. ASSUME NEW s \in Sessions,
             LockCatalog(s) \/ PersistStatus(s) \/ PersistRecommended(s) \/ Commit(s)
      PROVE  UNCHANGED <<answer[t], page[t], want[t]>>
  BY <1>6 DEF LockCatalog, PersistStatus, PersistRecommended, Commit
<1>7. ASSUME NEW s \in Sessions, Refuse(s)
      PROVE  \/ UNCHANGED <<answer[t], page[t], want[t]>>
             \/ /\ page'[t] # NoRow
                /\ want'[t] \in TRANSITION_ACTIONS <=> answer'[t] = "invalid-transition"
  <2>1. /\ UNCHANGED <<page, want>>
        /\ answer' = [answer EXCEPT ![s] = Refusal(work[s], page[s], want[s])]
        /\ page[s] # NoRow
    BY <1>7 DEF Refuse, Finish, Versioning, RequestShape
  <2>2. CASE t # s
    BY <2>1, <2>2 DEF Locking, TypeOK
  <2>3. CASE t = s
    <3>1. answer'[t] = Refusal(work[s], page[s], want[s])
      BY <2>1, <2>3 DEF Locking, TypeOK
    <3> QED BY <2>1, <2>3, <3>1 DEF Refusal
  <2> QED BY <2>2, <2>3
<1> QED
  BY <1>a, <1>1, <1>2, <1>3, <1>4, <1>5, <1>6, <1>7 DEF Next, Serve

\* No button leads to a refusal: what the lifecycle refused was not offered on the page.
THEOREM OffersAreAccepted == Spec => []OfferedIsAccepted
<1>1. Init => RefusalsFitRequests
  BY DEF Init, RefusalsFitRequests
<1>2. Spec => []RefusalsFitRequests
  BY <1>1, NextRefusalsFit, LockingHolds, VersioningHolds, PTL DEF Spec
<1>3. Locking /\ AnswersAreTrue /\ RefusalsFitRequests => OfferedIsAccepted
  <2> SUFFICES ASSUME Locking, AnswersAreTrue, RefusalsFitRequests, NEW s \in Sessions,
                      answer[s] \in {"invalid-transition", "not-published"}
               PROVE  (IF want[s] \in TRANSITION_ACTIONS THEN want[s] ELSE "recommend")
                         \notin STATUS_ACTIONS[page[s].status]
    BY DEF OfferedIsAccepted, build_allowed_actions
  <2>1. page[s].status \in Statuses
    BY DEF RefusalsFitRequests, Locking, TypeOK, Rows
  <2>2. CASE answer[s] = "invalid-transition"
    BY <2>1, <2>2, ButtonsFollowLifecycle DEF AnswersAreTrue, RefusalsFitRequests
  <2>3. CASE answer[s] = "not-published"
    BY <2>1, <2>3, ButtonsFollowLifecycle DEF AnswersAreTrue, RefusalsFitRequests
  <2> QED BY <2>2, <2>3
<1> QED BY <1>2, <1>3, LockingHolds, RefusalsAreTrue, PTL

-----------------------------------------------------------------------------
(* Undo. *)

\* The undo table inverts the transition table: from where an action landed, its undo lands on
\* the status the action started from, and nowhere else.
LEMMA UndoLands ==
  ASSUME NEW from \in Statuses, NEW action \in TRANSITION_ACTIONS,
         NEW to \in Targets(from, action), NEW back \in Undos(from, action)
  PROVE  Targets(to, back) = {from}
BY DEF Targets, Undos, TRANSITIONS, UNDO_ACTIONS, TRANSITION_ACTIONS, Statuses

OffersFitWork ==
    \A s \in Sessions : pc[s] \in {"written", "committed"} =>
        \A offer \in undo[s] : Targets(work[s].status, offer.action) = {offer.back}

LEMMA NextOffers ==
  Locking /\ Locking' /\ Versioning /\ OffersFitWork /\ [Next]_vars => OffersFitWork'
<1> SUFFICES ASSUME Locking, Locking', Versioning, OffersFitWork, [Next]_vars
             PROVE  OffersFitWork'
  OBVIOUS
<1>1. CASE UNCHANGED vars
  BY <1>1 DEF vars, sessionVars, OffersFitWork
<1>2. ASSUME NEW p \in People, SetActor(p) PROVE OffersFitWork'
  BY <1>2 DEF SetActor, sessionVars, OffersFitWork
<1>3. ASSUME NEW s \in Sessions, pc'[s] \notin {"written", "committed"},
             \A t \in Sessions \ {s} : pc'[t] = pc[t] /\ undo'[t] = undo[t] /\ work'[t] = work[t]
      PROVE  OffersFitWork'
  BY <1>3 DEF OffersFitWork
<1>4. ASSUME NEW s \in Sessions, NEW c \in Catalogs, SendView(s, c) PROVE OffersFitWork'
  BY <1>3, <1>4 DEF SendView, Locking, TypeOK
<1>5. ASSUME NEW s \in Sessions, NEW w \in WriteRequests, SendWrite(s, w) PROVE OffersFitWork'
  BY <1>3, <1>5 DEF SendWrite, Locking, TypeOK
<1>6. ASSUME NEW s \in Sessions, Authenticate(s) \/ RequireCatalogPermission(s)
      PROVE  OffersFitWork'
  BY <1>3, <1>6 DEF Authenticate, RequireCatalogPermission, Finish, Locking, TypeOK
<1>7. ASSUME NEW s \in Sessions,
             \/ ReadDetail(s) \/ LockCatalog(s) \/ Refuse(s)
             \/ Respond(s) \/ LoseResponse(s) \/ Abort(s)
      PROVE  OffersFitWork'
  BY <1>3, <1>7 DEF ReadDetail, LockCatalog, Refuse, Respond, LoseResponse, Abort, Finish,
                    Locking, TypeOK
<1>8. ASSUME NEW s \in Sessions, PersistStatus(s) PROVE OffersFitWork'
  <2>1. row[at[s]] = page[s] /\ page[s] \in Rows /\ work[s] = row[at[s]]
    BY <1>8, UnrefusedIsSeen DEF PersistStatus, Versioning
  <2>2. PICK target \in Targets(work[s].status, want[s]) :
           work' = [work EXCEPT ![s] = SetStatus(row[at[s]], target, began[s])]
    BY <1>8 DEF PersistStatus
  <2>3. work'[s].status = target
    BY <2>2 DEF SetStatus, Locking, TypeOK
  <2>4. undo'[s] = [action : Undos(work[s].status, want[s]), back : {work[s].status}]
    BY <1>8 DEF PersistStatus, Locking, TypeOK
  <2>5. ASSUME NEW offer \in undo'[s]
        PROVE  Targets(work'[s].status, offer.action) = {offer.back}
    <3>1. offer.action \in Undos(work[s].status, want[s]) /\ offer.back = work[s].status
      BY <2>4
    <3>2. work[s].status \in Statuses /\ want[s] \in TRANSITION_ACTIONS
      BY <2>1, <1>8 DEF PersistStatus, Rows
    <3> QED BY <2>2, <2>3, <3>1, <3>2, UndoLands
  <2>6. \A t \in Sessions \ {s} : pc'[t] = pc[t] /\ undo'[t] = undo[t] /\ work'[t] = work[t]
    BY <1>8, <2>2 DEF PersistStatus, Locking, TypeOK
  <2> QED BY <2>5, <2>6 DEF OffersFitWork
<1>9. ASSUME NEW s \in Sessions, PersistRecommended(s) PROVE OffersFitWork'
  <2>1. undo'[s] = {}
    BY <1>9 DEF PersistRecommended, Versioning, RequestShape
  <2>2. \A t \in Sessions \ {s} : pc'[t] = pc[t] /\ undo'[t] = undo[t] /\ work'[t] = work[t]
    BY <1>9 DEF PersistRecommended, Locking, TypeOK
  <2> QED BY <2>1, <2>2 DEF OffersFitWork
<1>10. ASSUME NEW s \in Sessions, Commit(s) PROVE OffersFitWork'
  BY <1>10 DEF Commit, Locking, TypeOK, OffersFitWork
<1> QED
  BY <1>1, <1>2, <1>4, <1>5, <1>6, <1>7, <1>8, <1>9, <1>10 DEF Next, Serve

\* The undo an accepted write earns brings back the status it replaced, until the row's version
\* moves on.
THEOREM UndoIsExact == Spec => []UndoReverses
<1>1. Init => OffersFitWork
  BY DEF Init, OffersFitWork
<1>2. Versioning /\ OffersFitWork => UndoReverses
  BY DEF Versioning, WorkFollowsRow, OffersFitWork, UndoReverses
<1> QED BY <1>1, <1>2, NextOffers, LockingHolds, VersioningHolds, PTL DEF Spec

-----------------------------------------------------------------------------
(* Roles. *)

\* The roles a person, or a request past its login, may have without `actor set`.
GrantsRecorded ==
    /\ \A p \in People : actors[p].role \in {"editor", "admin"} => p \in granted
    /\ \A s \in Sessions : role[s] \in {"editor", "admin"} => personOf[s] \in granted
    /\ \A s \in Sessions :
          /\ pc[s] = "admitted" => role[s] \in Roles
          /\ pc[s] \in {"waiting", "locked", "written", "committed"} =>
                role[s] \in {"editor", "admin"}

\* A viewer may not send any of the writes.
LEMMA ViewersDoNotWrite ==
  ASSUME NEW w \in WriteRequests PROVE WritePermission(w) \notin build_permissions("viewer")
<1>1. w \in {"publish", "unpublish", "archive", "unarchive", "recommend", "unrecommend"}
  BY DEF WriteRequests, TRANSITION_ACTIONS
<1>2. WritePermission(w) \in {"catalog.publish", "catalog.unpublish", "catalog.archive",
                              "catalog.unarchive", "catalog.recommend"}
  BY <1>1 DEF WritePermission, CatalogPermission, CatalogActions
<1> QED BY <1>2 DEF build_permissions, VIEWER_PERMISSIONS

LEMMA NextGrants == Locking /\ GrantsRecorded /\ [Next]_vars => GrantsRecorded'
<1> SUFFICES ASSUME Locking, GrantsRecorded, [Next]_vars PROVE GrantsRecorded'
  OBVIOUS
<1> USE DEF GrantsRecorded, Locking, TypeOK
<1>1. CASE UNCHANGED vars
  BY <1>1 DEF vars, dbVars, peopleVars, sessionVars
<1>2. ASSUME NEW p \in People, SetActor(p) PROVE GrantsRecorded'
  BY <1>2 DEF SetActor, dbVars, sessionVars
<1>3. ASSUME NEW s \in Sessions, NEW c \in Catalogs, SendView(s, c) PROVE GrantsRecorded'
  BY <1>3 DEF SendView, peopleVars
<1>4. ASSUME NEW s \in Sessions, NEW w \in WriteRequests, SendWrite(s, w) PROVE GrantsRecorded'
  BY <1>4 DEF SendWrite, peopleVars
<1>5. ASSUME NEW s \in Sessions, Authenticate(s) PROVE GrantsRecorded'
  <2> DEFINE actor == LoggedIn(actors[personOf[s]])
  <2>1. /\ actor.role \in {"editor", "admin"} => personOf[s] \in granted
        /\ actor.role \in Roles
    BY DEF LoggedIn, Actors, Roles
  <2>2. CASE actor.is_active /\ "catalog.view" \in build_permissions(actor.role)
    BY <1>5, <2>1, <2>2 DEF Authenticate
  <2>3. CASE ~ (actor.is_active /\ "catalog.view" \in build_permissions(actor.role))
    BY <1>5, <2>1, <2>3 DEF Authenticate, Finish
  <2> QED BY <2>2, <2>3
<1>6. ASSUME NEW s \in Sessions, RequireCatalogPermission(s) PROVE GrantsRecorded'
  <2>1. CASE WritePermission(want[s]) \in build_permissions(role[s])
    <3>1. role[s] # "viewer"
      BY <1>6, <2>1, ViewersDoNotWrite DEF RequireCatalogPermission
    <3> QED BY <1>6, <2>1, <3>1 DEF RequireCatalogPermission, peopleVars, Roles
  <2>2. CASE WritePermission(want[s]) \notin build_permissions(role[s])
    BY <1>6, <2>2 DEF RequireCatalogPermission, Finish, peopleVars
  <2> QED BY <2>1, <2>2
<1>7. ASSUME NEW s \in Sessions,
             \/ ReadDetail(s) \/ Refuse(s) \/ Respond(s) \/ LoseResponse(s) \/ Abort(s)
      PROVE  GrantsRecorded'
  BY <1>7 DEF ReadDetail, Refuse, Respond, LoseResponse, Abort, Finish, peopleVars
<1>8. ASSUME NEW s \in Sessions,
             LockCatalog(s) \/ PersistStatus(s) \/ PersistRecommended(s) \/ Commit(s)
      PROVE  GrantsRecorded'
  BY <1>8 DEF LockCatalog, PersistStatus, PersistRecommended, Commit, peopleVars
<1> QED
  BY <1>1, <1>2, <1>3, <1>4, <1>5, <1>6, <1>7, <1>8 DEF Next, Serve

\* Only people `actor set` made editor or admin reach the row lock, however logins, role changes
\* and requests interleave.
THEOREM OnlyGrantedPeopleWrite == Spec => []OnlyGrantedWrite
<1>1. Init => GrantsRecorded
  BY DEF Init, GrantsRecorded, NoActor
<1>2. GrantsRecorded => OnlyGrantedWrite
  BY DEF GrantsRecorded, OnlyGrantedWrite
<1> QED BY <1>1, <1>2, NextGrants, LockingHolds, PTL DEF Spec

-----------------------------------------------------------------------------
(* Dates, and the compare-and-set. *)

Dating == DatesArePast /\ LiveDateFollowsTakedown

LEMMA InitDating == Init => Dating
<1> SUFFICES ASSUME Init PROVE Dating
  OBVIOUS
<1>1. \A c \in Catalogs :
        /\ row[c].published_at \in {0, Never}
        /\ row[c].status = "published" => row[c].published_at = 0
  <2> SUFFICES ASSUME NEW c \in Catalogs
               PROVE  /\ row[c].published_at \in {0, Never}
                      /\ row[c].status = "published" => row[c].published_at = 0
    OBVIOUS
  <2>1. CASE row[c] = NoRow
    BY <2>1 DEF NoRow
  <2>2. CASE row[c] \in [status : {"draft"}, version : {1}, recommended : {FALSE},
                         published_at : {Never}]
    BY <2>2
  <2>3. CASE row[c] \in [status : {"published"}, version : {1}, recommended : BOOLEAN,
                         published_at : {0}]
    BY <2>3
  <2> QED BY <2>1, <2>2, <2>3 DEF Init
<1>2. /\ clock = 1
      /\ \A c \in Catalogs : downAt[c] = -1
      /\ \A s \in Sessions :
            /\ pc[s] = "idle" /\ began[s] = 0
            /\ page[s].published_at = -1 /\ work[s].published_at = -1
  BY DEF Init, NoRow, Never
<1> HIDE DEF Init
<1> QED BY <1>1, <1>2 DEF Dating, DatesArePast, LiveDateFollowsTakedown, Never

LEMMA PublishedAtIsInt ==
  ASSUME NEW r \in Rows \cup {NoRow} PROVE r.published_at \in Nat \cup {Never}
BY DEF Rows, NoRow

\* One tab's step that leaves the rows and the clock alone.
LEMMA DatesKept ==
  ASSUME Locking, Locking', Dating, NEW s \in Sessions,
         UNCHANGED <<row, clock, downAt>>,
         \A t \in Sessions \ {s} :
            /\ pc'[t] = pc[t] /\ page'[t] = page[t] /\ at'[t] = at[t]
            /\ began'[t] = began[t] /\ work'[t] = work[t],
         page'[s].published_at <= clock,
         work'[s].published_at <= clock,
         began'[s] <= clock,
         pc'[s] \in {"waiting", "locked", "written"} =>
            /\ page'[s].published_at <= began'[s]
            /\ page'[s].version = row[at'[s]].version => downAt[at'[s]] < began'[s],
         pc'[s] = "written" /\ work'[s].status = "published" =>
            work'[s].published_at > downAt[at'[s]]
  PROVE  Dating'
<1>1. LiveDateFollowsTakedown'
  BY DEF Dating, LiveDateFollowsTakedown
<1>2. \A c \in Catalogs : row'[c].published_at <= clock' /\ downAt'[c] < clock'
  BY DEF Dating, DatesArePast
<1>3. ASSUME NEW t \in Sessions
      PROVE  /\ page'[t].published_at <= clock' /\ work'[t].published_at <= clock'
             /\ began'[t] <= clock'
             /\ pc'[t] \in {"waiting", "locked", "written"} =>
                   /\ page'[t].published_at <= began'[t]
                   /\ page'[t].version = row'[at'[t]].version => downAt'[at'[t]] < began'[t]
             /\ pc'[t] = "written" /\ work'[t].status = "published" =>
                   work'[t].published_at > downAt'[at'[t]]
  BY DEF Dating, DatesArePast
<1> QED BY <1>1, <1>2, <1>3 DEF Dating, DatesArePast

\* One tab's step that ends its request, or only admits it.
LEMMA DatesKeptAtEnd ==
  ASSUME Locking, Locking', Dating, NEW s \in Sessions,
         UNCHANGED <<row, clock, downAt, at, page>>,
         \A t \in Sessions \ {s} :
            pc'[t] = pc[t] /\ began'[t] = began[t] /\ work'[t] = work[t],
         pc'[s] \in {"idle", "admitted"},
         began'[s] \in {0, began[s]},
         work'[s] \in {NoRow, work[s]}
  PROVE  Dating'
<1>1. page[s].published_at <= clock /\ work[s].published_at <= clock /\ began[s] <= clock
  BY DEF Dating, DatesArePast
<1>2. clock \in Nat
  BY DEF Locking, TypeOK
<1>3. work'[s].published_at <= clock /\ began'[s] <= clock
  BY <1>1, <1>2 DEF NoRow, Never
<1>4. pc'[s] \notin {"waiting", "locked", "written"}
  OBVIOUS
<1> QED BY <1>1, <1>3, <1>4, DatesKept

LEMMA NextDating ==
  Locking /\ Locking' /\ Versioning /\ Dating /\ [Next]_vars => Dating'
<1> SUFFICES ASSUME Locking, Locking', Versioning, Dating, [Next]_vars PROVE Dating'
  OBVIOUS
<1>a. /\ clock \in Nat /\ clock > 0
      /\ \A c \in Catalogs : downAt[c] \in Nat \cup {Never} /\ downAt[c] < clock
      /\ \A t \in Sessions : at[t] \in Catalogs /\ began[t] \in Nat
      /\ \A t \in Sessions : page[t].published_at \in Nat \cup {Never}
      /\ \A t \in Sessions : work[t].published_at \in Nat \cup {Never}
      /\ \A c \in Catalogs : row[c].published_at \in Nat \cup {Never}
  BY PublishedAtIsInt DEF Locking, TypeOK, Dating, DatesArePast
<1>b. \A t \in Sessions : /\ page[t].published_at <= clock /\ work[t].published_at <= clock
                          /\ began[t] <= clock
  BY DEF Dating, DatesArePast
<1>1. CASE UNCHANGED vars
  BY <1>1 DEF vars, dbVars, sessionVars, Dating, DatesArePast, LiveDateFollowsTakedown
<1>2. ASSUME NEW p \in People, SetActor(p) PROVE Dating'
  BY <1>2 DEF SetActor, dbVars, sessionVars, Dating, DatesArePast, LiveDateFollowsTakedown
<1>3. ASSUME NEW s \in Sessions, NEW c \in Catalogs, SendView(s, c) PROVE Dating'
  <2>1. page'[s] = NoRow /\ began'[s] = began[s] /\ work'[s] = work[s] /\ pc'[s] = "sent"
    BY <1>3 DEF SendView, Locking, TypeOK
  <2>2. page'[s].published_at <= clock
    BY <2>1, <1>a DEF NoRow, Never
  <2> QED BY <1>3, <2>1, <2>2, <1>b, DatesKept DEF SendView, dbVars, Locking, TypeOK
<1>4. ASSUME NEW s \in Sessions, NEW w \in WriteRequests, SendWrite(s, w) PROVE Dating'
  BY <1>4, <1>b, DatesKept DEF SendWrite, dbVars, Locking, TypeOK
<1>5. ASSUME NEW s \in Sessions, Authenticate(s) PROVE Dating'
  <2>1. CASE LoggedIn(actors[personOf[s]]).is_active
             /\ "catalog.view" \in build_permissions(LoggedIn(actors[personOf[s]]).role)
    BY <1>5, <2>1, DatesKeptAtEnd DEF Authenticate, dbVars, Locking, TypeOK
  <2>2. CASE ~ (LoggedIn(actors[personOf[s]]).is_active
             /\ "catalog.view" \in build_permissions(LoggedIn(actors[personOf[s]]).role))
    BY <1>5, <2>2, DatesKeptAtEnd DEF Authenticate, Finish, dbVars, Locking, TypeOK
  <2> QED BY <2>1, <2>2
<1>6. ASSUME NEW s \in Sessions, ReadDetail(s) \/ Respond(s) PROVE Dating'
  <2>1. /\ UNCHANGED <<row, clock, downAt, at>>
        /\ pc'[s] = "idle" /\ began'[s] = 0 /\ work'[s] = NoRow /\ page'[s] = row[at[s]]
    BY <1>6 DEF ReadDetail, Respond, Finish, dbVars, Locking, TypeOK
  <2>2. \A t \in Sessions \ {s} :
            pc'[t] = pc[t] /\ page'[t] = page[t] /\ began'[t] = began[t] /\ work'[t] = work[t]
    BY <1>6 DEF ReadDetail, Respond, Finish, Locking, TypeOK
  <2>3. page'[s].published_at <= clock
    BY <2>1, <1>a DEF Dating, DatesArePast
  <2>4. work'[s].published_at <= clock /\ began'[s] <= clock
    BY <2>1, <1>a DEF NoRow, Never
  <2> QED BY <2>1, <2>2, <2>3, <2>4, DatesKept
<1>7. ASSUME NEW s \in Sessions, RequireCatalogPermission(s) PROVE Dating'
  <2>1. CASE WritePermission(want[s]) \in build_permissions(role[s])
    <3>1. /\ UNCHANGED <<row, clock, downAt, page, at, work>>
          /\ pc'[s] = "waiting" /\ began'[s] = clock
          /\ \A t \in Sessions \ {s} : pc'[t] = pc[t] /\ began'[t] = began[t]
      BY <1>7, <2>1 DEF RequireCatalogPermission, dbVars, Locking, TypeOK
    <3>2. page'[s].published_at <= began'[s] /\ downAt[at[s]] < began'[s]
      BY <3>1, <1>a, <1>b
    <3>3. began'[s] <= clock
      BY <3>1, <1>a
    <3> QED BY <3>1, <3>2, <3>3, <1>b, DatesKept
  <2>2. CASE WritePermission(want[s]) \notin build_permissions(role[s])
    BY <1>7, <2>2, DatesKeptAtEnd DEF RequireCatalogPermission, Finish, dbVars, Locking, TypeOK
  <2> QED BY <2>1, <2>2
<1>8. ASSUME NEW s \in Sessions, LockCatalog(s) PROVE Dating'
  <2>1. /\ UNCHANGED <<row, clock, downAt, page, at, began>>
        /\ pc[s] = "waiting" /\ pc'[s] = "locked" /\ work'[s] = row[at[s]]
        /\ \A t \in Sessions \ {s} : pc'[t] = pc[t] /\ work'[t] = work[t]
    BY <1>8 DEF LockCatalog, Locking, TypeOK
  <2>2. work'[s].published_at <= clock
    BY <2>1, <1>a DEF Dating, DatesArePast
  <2>3. /\ page[s].published_at <= began[s]
        /\ page[s].version = row[at[s]].version => downAt[at[s]] < began[s]
    BY <2>1 DEF Dating, DatesArePast
  <2> QED BY <2>1, <2>2, <2>3, <1>b, DatesKept
<1>9. ASSUME NEW s \in Sessions, PersistStatus(s) \/ PersistRecommended(s) PROVE Dating'
  <2>1. /\ UNCHANGED <<row, clock, downAt, page, at, began>>
        /\ pc[s] = "locked" /\ pc'[s] = "written"
        /\ \A t \in Sessions \ {s} : pc'[t] = pc[t] /\ work'[t] = work[t]
    BY <1>9 DEF PersistStatus, PersistRecommended, dbVars, Locking, TypeOK
  <2>2. row[at[s]] = page[s] /\ page[s] \in Rows
    BY <1>9, UnrefusedIsSeen DEF PersistStatus, PersistRecommended, Versioning
  <2>3. downAt[at[s]] < began[s] /\ page[s].published_at <= began[s]
    BY <2>1, <2>2 DEF Dating, DatesArePast
  <2>4. /\ row[at[s]].status = "published" => row[at[s]].published_at > downAt[at[s]]
        /\ row[at[s]].published_at <= clock
    BY <1>a DEF Dating, DatesArePast, LiveDateFollowsTakedown
  <2>5. /\ work'[s].status = "published" => work'[s].published_at > downAt[at[s]]
        /\ work'[s].published_at <= clock
    <3>1. CASE PersistStatus(s)
      <4>1. PICK target : work' = [work EXCEPT ![s] = SetStatus(row[at[s]], target, began[s])]
        BY <3>1 DEF PersistStatus
      <4>2. work'[s] = SetStatus(row[at[s]], target, began[s])
        BY <4>1 DEF Locking, TypeOK
      <4> QED BY <4>2, <2>3, <2>4, <1>a, <1>b DEF SetStatus
    <3>2. CASE PersistRecommended(s)
      <4>1. work'[s] = SetRecommended(row[at[s]], want[s] = "recommend")
        BY <3>2 DEF PersistRecommended, Locking, TypeOK
      <4> QED BY <4>1, <2>4 DEF SetRecommended
    <3> QED BY <1>9, <3>1, <3>2
  <2> QED BY <2>1, <2>3, <2>5, <1>b, DatesKept
<1>10. ASSUME NEW s \in Sessions, Commit(s) PROVE Dating'
  <2> DEFINE c == at[s]
  <2>1. /\ row' = [row EXCEPT ![c] = work[s]]
        /\ clock' = IF work[s] = row[c] THEN clock ELSE clock + 1
        /\ downAt' = IF row[c].status = "published" /\ work[s].status # "published"
                       THEN [downAt EXCEPT ![c] = clock] ELSE downAt
        /\ pc' = [pc EXCEPT ![s] = "committed"]
        /\ UNCHANGED <<at, page, began, work>>
        /\ pc[s] = "written"
    BY <1>10 DEF Commit
  <2>2. work[s] = row[c] \/ work[s].version = row[c].version + 1
    BY <2>1 DEF Versioning, WorkFollowsRow
  <2>5. pc'[s] = "committed" /\ \A t \in Sessions \ {s} : pc'[t] = pc[t]
    BY <2>1 DEF Locking, TypeOK
  <2>3. CASE work[s] = row[c]
    <3>1. UNCHANGED <<row, clock, downAt>>
      BY <2>1, <2>3 DEF Locking, TypeOK
    <3> QED BY <2>1, <3>1, <2>5, <1>b, DatesKept
  <2>4. CASE work[s] # row[c]
    <3>1. /\ clock' = clock + 1
          /\ row'[c] = work[s]
          /\ downAt'[c] = IF row[c].status = "published" /\ work[s].status # "published"
                            THEN clock ELSE downAt[c]
          /\ \A d \in Catalogs : d # c => row'[d] = row[d] /\ downAt'[d] = downAt[d]
      BY <2>1, <2>4 DEF Locking, TypeOK
    <3>2. ASSUME NEW d \in Catalogs
          PROVE  /\ row'[d].published_at <= clock' /\ downAt'[d] < clock'
                 /\ row'[d].status = "published" => row'[d].published_at > downAt'[d]
      <4>1. CASE d = c
        <5>1. work[s].status = "published" => work[s].published_at > downAt[c]
          BY <2>1 DEF Dating, DatesArePast
        <5> QED BY <3>1, <4>1, <5>1, <1>a, <1>b
      <4>2. CASE d # c
        <5>1. /\ row[d].published_at <= clock
              /\ row[d].status = "published" => row[d].published_at > downAt[d]
          BY DEF Dating, DatesArePast, LiveDateFollowsTakedown
        <5> QED BY <3>1, <4>2, <5>1, <1>a
      <4> QED BY <4>1, <4>2
    <3>3. ASSUME NEW t \in Sessions
          PROVE  /\ page[t].published_at <= clock' /\ work[t].published_at <= clock'
                 /\ began[t] <= clock'
                 /\ pc'[t] \in {"waiting", "locked", "written"} =>
                       /\ page[t].published_at <= began[t]
                       /\ page[t].version = row'[at[t]].version => downAt'[at[t]] < began[t]
                 /\ pc'[t] = "written" /\ work[t].status = "published" =>
                       work[t].published_at > downAt'[at[t]]
      <4>1. /\ page[t].published_at <= clock' /\ work[t].published_at <= clock'
            /\ began[t] <= clock'
        BY <3>1, <1>a, <1>b
      <4>2. ASSUME pc'[t] \in {"waiting", "locked", "written"}
            PROVE  /\ t # s /\ pc[t] = pc'[t]
                   /\ page[t].published_at <= began[t]
                   /\ page[t].version = row[at[t]].version => downAt[at[t]] < began[t]
                   /\ page[t] # NoRow
        BY <4>2, <2>5 DEF Dating, DatesArePast, Versioning, RequestShape
      <4>3. CASE at[t] = c
        <5>1. pc'[t] # "written"
          BY <4>3, <4>2, <2>1, <2>5 DEF Locking, RowLocked
        <5>2. pc'[t] \in {"waiting", "locked", "written"} =>
                 page[t].version # row'[at[t]].version
          <6> SUFFICES ASSUME pc'[t] \in {"waiting", "locked", "written"}
                       PROVE  page[t].version # row'[at[t]].version
            OBVIOUS
          <6>1. page[t].version <= row[c].version
            BY <4>2, <4>3 DEF Versioning, VersionNamesState
          <6>2. row'[at[t]].version = row[c].version + 1
            BY <2>2, <2>4, <3>1, <4>3
          <6>3. row[c].version \in Nat /\ page[t].version \in Nat
            BY VersionIsNat DEF Locking, TypeOK
          <6> QED BY <6>1, <6>2, <6>3
        <5> QED BY <4>1, <4>2, <5>1, <5>2
      <4>4. CASE at[t] # c
        <5>1. row'[at[t]] = row[at[t]] /\ downAt'[at[t]] = downAt[at[t]]
          BY <3>1, <4>4, <1>a
        <5>2. pc'[t] = "written" /\ work[t].status = "published" =>
                 work[t].published_at > downAt[at[t]]
          BY <4>2 DEF Dating, DatesArePast
        <5> QED BY <4>1, <4>2, <5>1, <5>2
      <4> QED BY <4>3, <4>4
    <3> QED
      BY <2>1, <3>2, <3>3 DEF Dating, DatesArePast, LiveDateFollowsTakedown
  <2> QED BY <2>3, <2>4
<1>11. ASSUME NEW s \in Sessions, Refuse(s) \/ LoseResponse(s) PROVE Dating'
  BY <1>11, DatesKeptAtEnd DEF Refuse, LoseResponse, Finish, dbVars, Locking, TypeOK
<1>12. ASSUME NEW s \in Sessions, Abort(s) PROVE Dating'
  BY <1>12, DatesKeptAtEnd DEF Abort, Finish, Locking, TypeOK
<1> QED
  BY <1>1, <1>2, <1>3, <1>4, <1>5, <1>6, <1>7, <1>8, <1>9, <1>10, <1>11, <1>12
     DEF Next, Serve

\* A published catalog is dated after its last takedown, however long its editor's transaction
\* waited for the row.
THEOREM LiveDates == Spec => []LiveDateFollowsTakedown
<1>1. Dating => LiveDateFollowsTakedown
  BY DEF Dating
<1> QED BY <1>1, InitDating, NextDating, LockingHolds, VersioningHolds, PTL DEF Spec

-----------------------------------------------------------------------------
(* The compare-and-set. *)

\* What a write transaction is about to install is one allowed change of the page it came from.
WritesAreAllowed ==
    \A s \in Sessions : pc[s] = "written" =>
        \/ work[s] = page[s]
        \/ Promise!Moved(page[s], work[s])
        \/ Promise!Flagged(page[s], work[s])

LEMMA SameLifecycle ==
  /\ Promise!TRANSITION_ACTIONS = TRANSITION_ACTIONS
  /\ \A status, w : Promise!Targets(status, w) = Targets(status, w)
<1>1. Promise!TRANSITIONS = TRANSITIONS /\ Promise!Statuses = Statuses
  BY DEF Promise!TRANSITIONS, TRANSITIONS, Promise!Statuses, Statuses
<1>2. Promise!TRANSITION_ACTIONS = TRANSITION_ACTIONS
  BY DEF Promise!TRANSITION_ACTIONS, TRANSITION_ACTIONS
<1> QED BY <1>1, <1>2 DEF Promise!Targets, Targets

LEMMA StatusIsMoved ==
  ASSUME NEW seen \in Rows, NEW w \in TRANSITION_ACTIONS,
         NEW target \in Targets(seen.status, w),
         NEW now \in Nat, seen.published_at <= now
  PROVE  Promise!Moved(seen, SetStatus(seen, target, now))
<1> DEFINE next == SetStatus(seen, target, now)
<1>1. /\ next.status = target /\ next.version = seen.version + 1
      /\ next.recommended = seen.recommended
      /\ next.published_at = IF target = "published" THEN now ELSE seen.published_at
  BY DEF SetStatus
<1> HIDE DEF next
<1>2. \E action \in TRANSITION_ACTIONS : next.status \in Targets(seen.status, action)
  BY <1>1
<1>3. IF next.status = "published" THEN next.published_at >= seen.published_at
                                   ELSE next.published_at = seen.published_at
  BY <1>1, PublishedAtIsInt DEF Never
<1>4. Promise!Moved(seen, next)
  BY <1>1, <1>2, <1>3, SameLifecycle DEF Promise!Moved
<1> QED BY <1>4 DEF next

LEMMA RecommendedIsFlagged ==
  ASSUME NEW seen \in Rows, NEW recommended \in BOOLEAN, seen.status = "published"
  PROVE  \/ SetRecommended(seen, recommended) = seen
         \/ Promise!Flagged(seen, SetRecommended(seen, recommended))
BY DEF SetRecommended, Promise!Flagged

LEMMA NextAllowed ==
  Locking /\ Versioning /\ Dating /\ WritesAreAllowed /\ [Next]_vars => WritesAreAllowed'
<1> SUFFICES ASSUME Locking, Versioning, Dating, WritesAreAllowed, [Next]_vars
             PROVE  WritesAreAllowed'
  OBVIOUS
<1>1. CASE UNCHANGED vars
  BY <1>1 DEF vars, sessionVars, WritesAreAllowed
<1>2. ASSUME NEW p \in People, SetActor(p) PROVE WritesAreAllowed'
  BY <1>2 DEF SetActor, sessionVars, WritesAreAllowed
<1>3. ASSUME NEW s \in Sessions, NEW c \in Catalogs, SendView(s, c) PROVE WritesAreAllowed'
  BY <1>3 DEF SendView, Locking, TypeOK, WritesAreAllowed
<1>4. ASSUME NEW s \in Sessions, NEW w \in WriteRequests, SendWrite(s, w)
      PROVE  WritesAreAllowed'
  BY <1>4 DEF SendWrite, Locking, TypeOK, WritesAreAllowed
<1>5. ASSUME NEW s \in Sessions, Authenticate(s) PROVE WritesAreAllowed'
  BY <1>5 DEF Authenticate, Finish, Locking, TypeOK, WritesAreAllowed
<1>6. ASSUME NEW s \in Sessions, RequireCatalogPermission(s) PROVE WritesAreAllowed'
  BY <1>6 DEF RequireCatalogPermission, Finish, Locking, TypeOK, WritesAreAllowed
<1>7. ASSUME NEW s \in Sessions,
             \/ ReadDetail(s) \/ Refuse(s) \/ Respond(s) \/ LoseResponse(s) \/ Abort(s)
             \/ LockCatalog(s) \/ Commit(s)
      PROVE  WritesAreAllowed'
  BY <1>7 DEF ReadDetail, Refuse, Respond, LoseResponse, Abort, LockCatalog, Commit, Finish,
              Locking, TypeOK, WritesAreAllowed
<1>8. ASSUME NEW s \in Sessions, PersistStatus(s) \/ PersistRecommended(s)
      PROVE  WritesAreAllowed'
  <2>1. /\ UNCHANGED page
        /\ pc[s] = "locked"
        /\ \A t \in Sessions \ {s} : pc'[t] = pc[t] /\ work'[t] = work[t]
    BY <1>8 DEF PersistStatus, PersistRecommended, Locking, TypeOK
  <2>2. row[at[s]] = page[s] /\ work[s] = page[s] /\ page[s] \in Rows
    BY <1>8, <2>1, UnrefusedIsSeen
       DEF PersistStatus, PersistRecommended, Versioning, Locking, RowLocked
  <2>3. \/ work'[s] = page[s]
        \/ Promise!Moved(page[s], work'[s])
        \/ Promise!Flagged(page[s], work'[s])
    <3>1. CASE PersistStatus(s)
      <4>1. PICK target \in Targets(work[s].status, want[s]) :
               work' = [work EXCEPT ![s] = SetStatus(row[at[s]], target, began[s])]
        BY <3>1 DEF PersistStatus
      <4>2. work'[s] = SetStatus(page[s], target, began[s])
        BY <4>1, <2>2 DEF Locking, TypeOK
      <4>3. /\ want[s] \in TRANSITION_ACTIONS
            /\ target \in Targets(page[s].status, want[s])
            /\ began[s] \in Nat
            /\ page[s].published_at <= began[s]
        BY <3>1, <4>1, <2>1, <2>2 DEF PersistStatus, Locking, TypeOK, Dating, DatesArePast
      <4>4. Promise!Moved(page[s], SetStatus(page[s], target, began[s]))
        BY <4>3, <2>2, StatusIsMoved
      <4> QED BY <4>2, <4>4
    <3>2. CASE PersistRecommended(s)
      <4>1. work'[s] = SetRecommended(page[s], want[s] = "recommend")
        BY <3>2, <2>2 DEF PersistRecommended, Locking, TypeOK
      <4>2. page[s].status = "published"
        BY <3>2, <2>2, NoRowIsNoRow
           DEF PersistRecommended, Refusal, TRANSITION_ACTIONS
      <4>3. (want[s] = "recommend") \in BOOLEAN
        OBVIOUS
      <4>4. \/ SetRecommended(page[s], want[s] = "recommend") = page[s]
            \/ Promise!Flagged(page[s], SetRecommended(page[s], want[s] = "recommend"))
        BY <4>2, <4>3, <2>2, RecommendedIsFlagged
      <4> QED BY <4>1, <4>4
    <3> QED BY <1>8, <3>1, <3>2
  <2> QED BY <2>1, <2>3 DEF WritesAreAllowed
<1> QED
  BY <1>1, <1>2, <1>3, <1>4, <1>5, <1>6, <1>7, <1>8 DEF Next, Serve

LEMMA InitRefines == Init => Promise!Init
<1> SUFFICES ASSUME Init, NEW c \in Catalogs PROVE row[c] = NoRow \/ row[c].version = 1
  BY DEF Init, Promise!Init
<1>1. CASE row[c] = NoRow
  BY <1>1
<1>2. CASE row[c] \in [status : {"draft"}, version : {1}, recommended : {FALSE},
                       published_at : {Never}]
  BY <1>2
<1>3. CASE row[c] \in [status : {"published"}, version : {1}, recommended : BOOLEAN,
                       published_at : {0}]
  BY <1>3
<1> QED BY <1>1, <1>2, <1>3 DEF Init

LEMMA NextRefines ==
  Locking /\ Versioning /\ WritesAreAllowed /\ [Next]_vars => [Promise!Next]_(Promise!vars)
<1> SUFFICES ASSUME Locking, Versioning, WritesAreAllowed, [Next]_vars
             PROVE  Promise!Next \/ UNCHANGED Promise!vars
  OBVIOUS
<1>1. CASE UNCHANGED vars
  BY <1>1 DEF vars, dbVars, sessionVars, Promise!vars
<1>2. ASSUME NEW p \in People, SetActor(p) PROVE UNCHANGED Promise!vars
  BY <1>2 DEF SetActor, dbVars, sessionVars, Promise!vars
<1>3. ASSUME NEW s \in Sessions, NEW c \in Catalogs, SendView(s, c) PROVE Promise!Next
  BY <1>3 DEF SendView, dbVars, Promise!Next, Promise!Open
<1>4. ASSUME NEW s \in Sessions, NEW w \in WriteRequests, SendWrite(s, w)
      PROVE  UNCHANGED Promise!vars
  BY <1>4 DEF SendWrite, dbVars, Promise!vars
<1>5. ASSUME NEW s \in Sessions, ReadDetail(s) \/ Respond(s) PROVE Promise!Next
  BY <1>5 DEF ReadDetail, Respond, dbVars, Promise!Next, Promise!Look
<1>6. ASSUME NEW s \in Sessions,
             \/ Authenticate(s) \/ RequireCatalogPermission(s) \/ LockCatalog(s) \/ Refuse(s)
             \/ PersistStatus(s) \/ PersistRecommended(s) \/ LoseResponse(s) \/ Abort(s)
      PROVE  UNCHANGED Promise!vars
  BY <1>6 DEF Authenticate, RequireCatalogPermission, LockCatalog, Refuse, PersistStatus,
              PersistRecommended, LoseResponse, Abort, dbVars, Promise!vars
<1>7. ASSUME NEW s \in Sessions, Commit(s)
      PROVE  Promise!Next \/ UNCHANGED Promise!vars
  <2>1. /\ row' = [row EXCEPT ![at[s]] = work[s]]
        /\ pc[s] = "written" /\ UNCHANGED <<at, page>>
    BY <1>7 DEF Commit
  <2>2. row[at[s]] = page[s] /\ page[s] # NoRow
    BY <2>1 DEF Versioning, NoLostUpdate
  <2>3. CASE work[s] = page[s]
    BY <2>1, <2>2, <2>3 DEF Promise!vars, Locking, TypeOK
  <2>4. CASE Promise!Moved(page[s], work[s]) \/ Promise!Flagged(page[s], work[s])
    <3>1. row'[at[s]] = work[s]
      BY <2>1 DEF Locking, TypeOK
    <3>2. Promise!Moved(page[s], row'[at[s]]) \/ Promise!Flagged(page[s], row'[at[s]])
      BY <3>1, <2>4
    <3>3. row' = [row EXCEPT ![at[s]] = row'[at[s]]]
      BY <3>1, <2>1
    <3>4. Promise!Edit(s)
      BY <2>1, <2>2, <3>2, <3>3 DEF Promise!Edit
    <3> QED BY <3>4 DEF Promise!Next
  <2> QED BY <2>1, <2>3, <2>4 DEF WritesAreAllowed
<1> QED
  BY <1>1, <1>2, <1>3, <1>4, <1>5, <1>6, <1>7 DEF Next, Serve

\* The requests, with their logins, locks, transactions and failures, implement one atomic
\* compare-and-set per accepted write.
THEOREM CompareAndSet == Spec => ImplementsOptimisticCatalog
<1>1. Init => WritesAreAllowed
  BY DEF Init, WritesAreAllowed
<1>2. Spec => []Dating
  BY InitDating, NextDating, LockingHolds, VersioningHolds, PTL DEF Spec
<1>3. Spec => []WritesAreAllowed
  BY <1>1, <1>2, NextAllowed, LockingHolds, VersioningHolds, PTL DEF Spec
<1> QED
  BY <1>3, InitRefines, NextRefines, LockingHolds, VersioningHolds, PTL
     DEF Spec, Promise!Spec, ImplementsOptimisticCatalog
===============================================================================

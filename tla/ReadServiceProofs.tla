-------------------------- MODULE ReadServiceProofs --------------------------
(***************************************************************************)
(* What readers are answered, for any number of catalogs, readers,         *)
(* connections and faults: why a read fails, what the pages of a search    *)
(* add up to, that the admin screens count what they list, and that the    *)
(* feed is what its header asks for.                                       *)
(***************************************************************************)
EXTENDS ReadService, FiniteSetTheorems, SequenceTheorems, TLAPS

-----------------------------------------------------------------------------
(***************************************************************************)
(* A read that fails.  What makes it inductive is what a retry can rely on *)
(* (RetryIsClean): once r has met a dead connection, its pool has given up *)
(* all the others, so that as long as nothing more happens no dead one can *)
(* wait there again, nor come back to it.                                  *)
(***************************************************************************)
Asked == UNION {requestsOf[r] : r \in Readers}

Shape ==
    /\ pc \in [Readers -> {"idle", "checkout", "execute"}]
    /\ attempt \in [Readers -> {1, 2}]
    /\ held \in [Readers -> {"none", "live", "dead"}]
    /\ asked \in [Readers -> Asked \cup {NoRequest}]
    /\ expired \in [Readers -> BOOLEAN]
    /\ trouble \in [Readers -> BOOLEAN]
    /\ up \in BOOLEAN
    /\ DOMAIN answer = Readers
    /\ idle \in [Pools -> [States -> Nat]]

\* A reader holds a connection while its statement runs, of the pool of its request.
Holding ==
    \A r \in Readers :
        /\ held[r] = "none" <=> pc[r] # "execute"
        /\ pc[r] = "idle" => attempt[r] = 1
        /\ pc[r] # "idle" => asked[r] \in Asked
        /\ asked[r] \in Asked \/ answer[r] = NoAnswer

OutagesAreTrouble == ~ up => \A r \in Readers : pc[r] # "idle" => trouble[r]

RetryIsClean ==
    \A r \in Readers :
        attempt[r] = 2 /\ ~ trouble[r] =>
            /\ held[r] # "dead"
            /\ idle[PoolOf(asked[r])]["dead"] = 0
            /\ \A s \in Readers :
                  held[s] = "dead" /\ PoolOf(asked[s]) = PoolOf(asked[r]) => expired[s]

Reasons == Shape /\ Holding /\ OutagesAreTrouble /\ RetryIsClean /\ ReadFailsForAReason

LEMMA PoolOfRequest == \A request : PoolOf(request) \in Pools
  BY DEF PoolOf, Pools

LEMMA GivesBack ==
  ASSUME Shape, NEW r \in Readers, GiveBack(r)
  PROVE  /\ held' = [held EXCEPT ![r] = "none"] /\ expired' = [expired EXCEPT ![r] = FALSE]
         /\ idle' \in [Pools -> [States -> Nat]]
         /\ \A p \in Pools : \/ idle'[p]["dead"] = idle[p]["dead"]
                             \/ p = PoolOf(asked[r]) /\ held[r] = "dead" /\ ~ expired[r]
<1> DEFINE p == PoolOf(asked[r])
<1>1. p \in Pools
  BY PoolOfRequest
<1>2. CASE held[r] = "none" \/ expired[r]
  BY <1>2 DEF GiveBack, Shape
<1>3. CASE ~ (held[r] = "none" \/ expired[r])
  <2> DEFINE state == held[r]
  <2>0. state \in States /\ idle[p] \in [States -> Nat]
    BY <1>1, <1>3 DEF Shape, States
  <2>1. idle' = [idle EXCEPT ![p] = [idle[p] EXCEPT ![state] = idle[p][state] + 1]]
    BY <1>3 DEF GiveBack
  <2> QED BY <1>1, <1>3, <2>0, <2>1 DEF Shape, GiveBack, States
<1> QED BY <1>2, <1>3

LEMMA AskedRequest ==
  ASSUME NEW request \in Asked
  PROVE  request.endpoint \in {"feed", "catalog", "search"}
  BY ReadServiceAssumption DEF Asked

\* Whatever is served is a 200 or a 404.
LEMMA ServedIsNoError ==
  ASSUME NEW request \in Asked, NEW number
  PROVE  /\ \A result \in Served(request, number) : result.code \in {200, 404}
         /\ resolve_search(request, number).code = 200
<1>1. \A code, list, total, next : Answer(code, list, total, next).code = code
  BY DEF Answer
<1>2. resolve_search(request, number).code = 200
  BY <1>1 DEF resolve_search
<1>3. CASE request.endpoint = "feed"
  BY <1>1, <1>2, <1>3 DEF Served
<1>4. CASE request.endpoint = "catalog"
  BY <1>1, <1>2, <1>4 DEF Served
<1>5. CASE request.endpoint = "search"
  BY <1>2, <1>5 DEF Served
<1> QED BY <1>2, <1>3, <1>4, <1>5, AskedRequest

\* The end of a request, with whatever result: nothing is troubled any more but what failed.
LEMMA FinishKeeps ==
  ASSUME Reasons, NEW r \in Readers, NEW result, NEW troubled \in BOOLEAN,
         Finish(r, result, troubled), result.code = 500 => troubled, pc[r] # "idle",
         UNCHANGED <<up, asked>>
  PROVE  Reasons'
<1>0. GiveBack(r) /\ Shape /\ asked[r] \in Asked
  BY DEF Finish, Reasons, Holding
<1>1. /\ held' = [held EXCEPT ![r] = "none"] /\ expired' = [expired EXCEPT ![r] = FALSE]
      /\ idle' \in [Pools -> [States -> Nat]]
      /\ \A p \in Pools : \/ idle'[p]["dead"] = idle[p]["dead"]
                          \/ p = PoolOf(asked[r]) /\ held[r] = "dead" /\ ~ expired[r]
  BY <1>0, GivesBack
<1>2. /\ pc'      = [pc EXCEPT ![r] = "idle"]
      /\ attempt' = [attempt EXCEPT ![r] = 1]
      /\ answer'  = [answer EXCEPT ![r] = result]
      /\ trouble' = [trouble EXCEPT ![r] = troubled /\ result.code = 500]
  BY DEF Finish
<1>3. Shape'
  BY <1>0, <1>1, <1>2 DEF Shape
<1>4. Holding'
  BY <1>0, <1>1, <1>2 DEF Reasons, Holding, Shape
<1>5. OutagesAreTrouble'
  BY <1>0, <1>2 DEF Reasons, OutagesAreTrouble, Shape
<1>6. RetryIsClean'
  <2> SUFFICES ASSUME NEW t \in Readers, attempt'[t] = 2, ~ trouble'[t]
               PROVE  /\ held'[t] # "dead" /\ idle'[PoolOf(asked[t])]["dead"] = 0
                      /\ \A s \in Readers :
                            held'[s] = "dead" /\ PoolOf(asked[s]) = PoolOf(asked[t]) => expired'[s]
    BY DEF RetryIsClean
  <2>1. t # r /\ attempt[t] = 2 /\ ~ trouble[t]
    BY <1>0, <1>2 DEF Shape
  <2>2. /\ held[t] # "dead" /\ idle[PoolOf(asked[t])]["dead"] = 0
        /\ \A s \in Readers :
              held[s] = "dead" /\ PoolOf(asked[s]) = PoolOf(asked[t]) => expired[s]
    BY <2>1 DEF Reasons, RetryIsClean
  <2>3. idle'[PoolOf(asked[t])]["dead"] = idle[PoolOf(asked[t])]["dead"]
    BY <1>1, <2>2, PoolOfRequest
  <2> QED BY <1>0, <1>1, <2>1, <2>2, <2>3 DEF Shape
<1>7. ReadFailsForAReason'
  BY <1>0, <1>2 DEF Reasons, ReadFailsForAReason, Shape
<1> QED BY <1>3, <1>4, <1>5, <1>6, <1>7 DEF Reasons

LEMMA SendKeeps ==
  ASSUME Reasons, NEW r \in Readers, NEW request \in Asked, NEW number, Send(r, request, number)
  PROVE  Reasons'
<1> DEFINE none == request.endpoint = "search" /\ is_empty(Query(request))
<1>0. /\ pc[r] = "idle" /\ asked' = [asked EXCEPT ![r] = request]
      /\ UNCHANGED <<up, idle, attempt, held, expired>> /\ Shape
      /\ attempt[r] = 1 /\ held[r] = "none"
  BY DEF Send, Reasons, Holding, poolVars
<1>1. \/ /\ answer' = [answer EXCEPT ![r] = resolve_search(request, number)]
         /\ trouble' = [trouble EXCEPT ![r] = FALSE] /\ UNCHANGED pc
      \/ /\ answer' = [answer EXCEPT ![r] = NoAnswer]
         /\ trouble' = [trouble EXCEPT ![r] = ~ up] /\ pc' = [pc EXCEPT ![r] = "checkout"]
  BY DEF Send
<1>2. NoAnswer.code = 0
  BY DEF NoAnswer, Answer
<1>3. Shape'
  BY <1>0, <1>1 DEF Shape
<1>4. Holding'
  BY <1>0, <1>1 DEF Reasons, Holding, Shape
<1>5. OutagesAreTrouble'
  BY <1>0, <1>1 DEF Reasons, OutagesAreTrouble, Shape
<1>6. RetryIsClean'
  BY <1>0, <1>1 DEF Reasons, RetryIsClean, Shape
<1>7. ReadFailsForAReason'
  BY <1>0, <1>1, <1>2, ServedIsNoError DEF Reasons, ReadFailsForAReason, Shape
<1> QED BY <1>3, <1>4, <1>5, <1>6, <1>7 DEF Reasons

LEMMA CheckoutKeeps ==
  ASSUME Reasons, NEW r \in Readers, Checkout(r)
  PROVE  Reasons'
<1> DEFINE p == PoolOf(asked[r])
<1>0. /\ pc[r] = "checkout" /\ pc' = [pc EXCEPT ![r] = "execute"] /\ Shape /\ p \in Pools
      /\ UNCHANGED <<up, asked, attempt, expired, answer, trouble>>
  BY PoolOfRequest DEF Checkout, Reasons
<1>1. PICK state \in States :
         /\ held' = [held EXCEPT ![r] = state]
         /\ idle' \in [Pools -> [States -> Nat]]
         /\ state = "dead" => idle[p]["dead"] > 0
         /\ \A q \in Pools : idle[q]["dead"] = 0 => idle'[q]["dead"] = 0
  <2>1. CASE \E state \in States :
                /\ idle[p][state] > 0
                /\ idle' = [idle EXCEPT ![p][state] = @ - 1]
                /\ held' = [held EXCEPT ![r] = state]
    <3>1. PICK state \in States :
             /\ idle[p][state] > 0
             /\ idle' = [idle EXCEPT ![p] = [idle[p] EXCEPT ![state] = idle[p][state] - 1]]
             /\ held' = [held EXCEPT ![r] = state]
      BY <2>1
    <3>2. idle[p] \in [States -> Nat] /\ "dead" \in States
      BY <1>0 DEF Shape, States
    <3>3. idle' \in [Pools -> [States -> Nat]]
      BY <1>0, <3>1, <3>2 DEF Shape
    <3>4. \A q \in Pools : idle[q]["dead"] = 0 => idle'[q]["dead"] = 0
      BY <1>0, <3>1, <3>2 DEF Shape
    <3> QED BY <3>1, <3>3, <3>4
  <2>2. CASE held' = [held EXCEPT ![r] = "live"] /\ UNCHANGED idle
    BY <2>2 DEF States, Reasons, Shape
  <2> QED BY <2>1, <2>2 DEF Checkout
<1>3. Shape'
  BY <1>0, <1>1 DEF Shape, States
<1>4. Holding'
  BY <1>0, <1>1 DEF Reasons, Holding, Shape, States
<1>5. OutagesAreTrouble'
  BY <1>0 DEF Reasons, OutagesAreTrouble, Shape
<1>6. RetryIsClean'
  <2> SUFFICES ASSUME NEW t \in Readers, attempt'[t] = 2, ~ trouble'[t]
               PROVE  /\ held'[t] # "dead" /\ idle'[PoolOf(asked[t])]["dead"] = 0
                      /\ \A s \in Readers :
                            held'[s] = "dead" /\ PoolOf(asked[s]) = PoolOf(asked[t]) => expired'[s]
    BY <1>0 DEF RetryIsClean
  <2>2. /\ held[t] # "dead" /\ idle[PoolOf(asked[t])]["dead"] = 0
        /\ \A s \in Readers :
              held[s] = "dead" /\ PoolOf(asked[s]) = PoolOf(asked[t]) => expired[s]
    BY <1>0 DEF Reasons, RetryIsClean
  <2>3. idle'[PoolOf(asked[t])]["dead"] = 0
    BY <1>1, <2>2, PoolOfRequest
  <2>4. p = PoolOf(asked[t]) => held'[r] = "live"
    BY <1>0, <1>1, <2>2 DEF Shape, States
  <2> QED BY <1>0, <1>1, <2>2, <2>3, <2>4 DEF Shape
<1>7. ReadFailsForAReason'
  BY <1>0 DEF Reasons, ReadFailsForAReason, Shape
<1> QED BY <1>3, <1>4, <1>5, <1>6, <1>7 DEF Reasons

\* Whoever meets a dead connection empties its pool, the held ones included.
LEMMA DisconnectKeeps ==
  ASSUME Reasons, NEW r \in Readers, Disconnect(r)
  PROVE  Reasons'
<1> DEFINE p == PoolOf(asked[r])
<1>p. p \in Pools
  BY PoolOfRequest
<1>0. /\ pc[r] = "execute" /\ held[r] = "dead" /\ Shape
      /\ idle' = [idle EXCEPT ![p] = Empty] /\ held' = [held EXCEPT ![r] = "none"]
      /\ UNCHANGED <<up, asked, trouble>>
      /\ expired' = [s \in Readers |-> /\ s # r
                                       /\ \/ expired[s]
                                          \/ held[s] # "none" /\ PoolOf(asked[s]) = p]
  BY DEF Disconnect, Reasons
<1>e. /\ expired' \in [Readers -> BOOLEAN]
      /\ \A s \in Readers : s # r /\ expired[s] => expired'[s]
      /\ \A s \in Readers : s # r /\ held[s] # "none" /\ PoolOf(asked[s]) = p => expired'[s]
  BY <1>0
<1>1. \/ /\ attempt[r] = 1 /\ attempt' = [attempt EXCEPT ![r] = 2]
         /\ pc' = [pc EXCEPT ![r] = "checkout"] /\ UNCHANGED answer
      \/ /\ attempt[r] = 2 /\ answer' = [answer EXCEPT ![r] = Answer(500, << >>, 0, 0)]
         /\ pc' = [pc EXCEPT ![r] = "idle"] /\ attempt' = [attempt EXCEPT ![r] = 1]
  BY <1>0 DEF Disconnect, MayRetry, Shape
<1>2. Empty \in [States -> Nat] /\ Empty["dead"] = 0
  BY DEF Empty, States
<1>3. Shape'
  <2>1. idle' \in [Pools -> [States -> Nat]]
    BY <1>p, <1>0, <1>2 DEF Shape
  <2>2. held' \in [Readers -> {"none", "live", "dead"}]
    BY <1>0 DEF Shape
  <2>3. /\ pc' \in [Readers -> {"idle", "checkout", "execute"}]
        /\ attempt' \in [Readers -> {1, 2}]
        /\ DOMAIN answer' = Readers
    BY <1>0, <1>1 DEF Shape
  <2> QED BY <1>0, <1>e, <2>1, <2>2, <2>3 DEF Shape
<1>4. Holding'
  BY <1>0, <1>1 DEF Reasons, Holding, Shape
<1>5. OutagesAreTrouble'
  BY <1>0, <1>1 DEF Reasons, OutagesAreTrouble, Shape
<1>6. RetryIsClean'
  <2> SUFFICES ASSUME NEW t \in Readers, attempt'[t] = 2, ~ trouble'[t]
               PROVE  /\ held'[t] # "dead" /\ idle'[PoolOf(asked[t])]["dead"] = 0
                      /\ \A s \in Readers :
                            held'[s] = "dead" /\ PoolOf(asked[s]) = PoolOf(asked[t]) => expired'[s]
    BY <1>0 DEF RetryIsClean
  <2>1. CASE t = r
    <3>1. held'[t] # "dead" /\ idle'[PoolOf(asked[t])]["dead"] = 0
      BY <1>p, <1>0, <1>2, <2>1 DEF Shape
    <3>2. ASSUME NEW s \in Readers, held'[s] = "dead", PoolOf(asked[s]) = p PROVE expired'[s]
      BY <1>0, <1>e, <3>2 DEF Shape
    <3> QED BY <2>1, <3>1, <3>2
  <2>2. CASE t # r
    <3>1. attempt[t] = 2 /\ ~ trouble[t]
      BY <1>0, <1>1, <2>2 DEF Shape
    <3>2. /\ held[t] # "dead" /\ idle[PoolOf(asked[t])]["dead"] = 0
          /\ \A s \in Readers :
                held[s] = "dead" /\ PoolOf(asked[s]) = PoolOf(asked[t]) => expired[s]
      BY <3>1 DEF Reasons, RetryIsClean
    <3>3. idle'[PoolOf(asked[t])]["dead"] = 0
      BY <1>0, <1>2, <3>2, PoolOfRequest DEF Shape
    <3>4. ASSUME NEW s \in Readers, held'[s] = "dead", PoolOf(asked[s]) = PoolOf(asked[t])
          PROVE  expired'[s]
      <4>1. s # r /\ held[s] = "dead"
        BY <1>0, <3>4 DEF Shape
      <4>2. expired[s]
        BY <3>2, <3>4, <4>1
      <4> QED BY <1>e, <4>1, <4>2
    <3> QED BY <1>0, <2>2, <3>2, <3>3, <3>4 DEF Shape
  <2> QED BY <2>1, <2>2
<1>7. ReadFailsForAReason'
  <2>1. attempt[r] = 2 => trouble[r]
    BY <1>0 DEF Reasons, RetryIsClean
  <2> QED BY <1>0, <1>1, <2>1 DEF Reasons, ReadFailsForAReason, Shape
<1> QED BY <1>3, <1>4, <1>5, <1>6, <1>7 DEF Reasons

\* Whatever breaks counts as trouble for every request that runs.
LEMMA FaultKeeps ==
  ASSUME Reasons, DropIdle \/ \E staysUp \in BOOLEAN : DropAll(staysUp)
  PROVE  Reasons'
<1>0. /\ idle' = IdleDropped /\ Shape
      /\ trouble' = [r \in Readers |-> trouble[r] \/ pc[r] # "idle"]
      /\ held' = held \/ held' = HeldDropped
      /\ up' \in BOOLEAN
      /\ UNCHANGED <<pc, asked, attempt, expired, answer>>
  BY DEF DropIdle, DropAll, Fault, Reasons, Shape
<1>1. IdleDropped \in [Pools -> [States -> Nat]]
  <2>1. ASSUME NEW p \in Pools
        PROVE  [Empty EXCEPT !["dead"] = idle[p]["live"] + idle[p]["dead"]] \in [States -> Nat]
    <3>1. idle[p] \in [States -> Nat]
      BY <1>0 DEF Shape
    <3>2. idle[p]["live"] + idle[p]["dead"] \in Nat
      BY <3>1 DEF States
    <3> QED BY <3>2 DEF Empty, States
  <2> QED BY <2>1 DEF IdleDropped
<1>2. /\ held' \in [Readers -> {"none", "live", "dead"}]
      /\ \A r \in Readers : held'[r] = "none" <=> held[r] = "none"
  BY <1>0 DEF Shape, HeldDropped
<1>t. /\ trouble' \in [Readers -> BOOLEAN]
      /\ \A r \in Readers : pc[r] # "idle" => trouble'[r]
      /\ \A r \in Readers : trouble[r] => trouble'[r]
  BY <1>0
<1>3. Shape'
  BY <1>0, <1>t, <1>1, <1>2 DEF Shape
<1>4. Holding'
  BY <1>0, <1>2 DEF Reasons, Holding
<1>5. OutagesAreTrouble'
  BY <1>0, <1>t DEF OutagesAreTrouble
<1>6. RetryIsClean'
  <2>1. \A t \in Readers : attempt[t] = 2 => trouble'[t]
    BY <1>t DEF Reasons, Holding
  <2> QED BY <1>0, <2>1 DEF RetryIsClean
<1>7. ReadFailsForAReason'
  BY <1>0, <1>t DEF Reasons, ReadFailsForAReason
<1> QED BY <1>3, <1>4, <1>5, <1>6, <1>7 DEF Reasons

\* A connection that is replaced, or a database that is back, leaves no reason behind.
LEMMA RecoveryKeeps ==
  ASSUME Reasons, ComeBack \/ \E p \in Pools : Recycle(p)
  PROVE  Reasons'
<1>0. /\ Shape /\ up' \in BOOLEAN /\ (~ up' => ~ up)
      /\ UNCHANGED <<pc, asked, attempt, held, expired, answer, trouble>>
  BY DEF ComeBack, Recycle, readerVars, Reasons, Shape
<1>1. /\ idle' \in [Pools -> [States -> Nat]]
      /\ \A q \in Pools : idle[q]["dead"] = 0 => idle'[q]["dead"] = 0
  <2>1. Empty \in [States -> Nat] /\ Empty["dead"] = 0
    BY DEF Empty, States
  <2> QED BY <1>0, <2>1 DEF ComeBack, Recycle, Shape
<1>2. Shape' /\ Holding'
  BY <1>0, <1>1 DEF Reasons, Shape, Holding
<1>3. OutagesAreTrouble' /\ ReadFailsForAReason'
  BY <1>0 DEF Reasons, OutagesAreTrouble, ReadFailsForAReason
<1>4. RetryIsClean'
  BY <1>0, <1>1, PoolOfRequest DEF Reasons, RetryIsClean
<1> QED BY <1>2, <1>3, <1>4 DEF Reasons

LEMMA ServeKeeps ==
  ASSUME Reasons, NEW r \in Readers, Serve(r)
  PROVE  Reasons'
<1>0. Shape /\ (pc[r] # "idle" => asked[r] \in Asked)
  BY DEF Reasons, Holding
<1>1. CASE Checkout(r)
  BY <1>1, CheckoutKeeps
<1>2. CASE FailToConnect(r)
  <2>1. trouble[r] \in BOOLEAN /\ trouble[r]
    BY <1>0, <1>2 DEF FailToConnect, Reasons, OutagesAreTrouble, Shape
  <2> QED BY <1>2, <2>1, FinishKeeps DEF FailToConnect
<1>3. CASE WaitInVain(r)
  BY <1>3, FinishKeeps DEF WaitInVain
<1>4. CASE Execute(r)
  <2>1. PICK result \in Served(asked[r], page[r]) : Finish(r, result, FALSE)
    BY <1>4 DEF Execute
  <2>2. result.code # 500
    BY <1>0, <1>4, <2>1, ServedIsNoError DEF Execute
  <2> QED BY <1>4, <2>1, <2>2, FinishKeeps DEF Execute
<1>5. CASE TimeOut(r)
  <2>1. Answer(503, << >>, 0, 0).code # 500
    BY DEF Answer
  <2> QED BY <1>5, <2>1, FinishKeeps DEF TimeOut
<1>6. CASE Disconnect(r)
  BY <1>6, DisconnectKeeps
<1> QED BY <1>1, <1>2, <1>3, <1>4, <1>5, <1>6 DEF Serve

LEMMA NextReasons == Reasons /\ [Next]_vars => Reasons'
<1> SUFFICES ASSUME Reasons, [Next]_vars PROVE Reasons'
  OBVIOUS
<1>1. ASSUME UNCHANGED <<up, idle, pc, asked, attempt, held, expired, answer, trouble>>
      PROVE  Reasons'
  BY <1>1 DEF Reasons, Shape, Holding, OutagesAreTrouble, RetryIsClean, ReadFailsForAReason
<1>2. CASE UNCHANGED vars
  BY <1>1, <1>2 DEF vars, poolVars, readerVars
<1>3. ASSUME NEW r \in Readers, Ask(r) PROVE Reasons'
  <2>1. PICK request \in requestsOf[r] : Send(r, request, request.page)
    BY <1>3 DEF Ask
  <2>2. request \in Asked
    BY <2>1 DEF Asked
  <2> QED BY <2>1, <2>2, SendKeeps
<1>4. ASSUME NEW r \in Readers, Follow(r) PROVE Reasons'
  <2>1. asked[r] \in Asked
    BY <1>4 DEF Follow, Reasons, Holding, NoAnswer, Answer
  <2> QED BY <1>4, <2>1, SendKeeps DEF Follow
<1>5. ASSUME NEW r \in Readers, Serve(r) PROVE Reasons'
  BY <1>5, ServeKeeps
<1>6. CASE DropIdle \/ \E staysUp \in BOOLEAN : DropAll(staysUp)
  BY <1>6, FaultKeeps
<1>7. CASE ComeBack \/ \E p \in Pools : Recycle(p)
  BY <1>7, RecoveryKeeps
<1>8. CASE \E c \in Catalogs : Edit(c)
  BY <1>1, <1>8 DEF Edit, poolVars
<1> QED BY <1>2, <1>3, <1>4, <1>5, <1>6, <1>7, <1>8 DEF Next

LEMMA InitReasons == Init => Reasons
<1> SUFFICES ASSUME Init PROVE Reasons
  OBVIOUS
<1>1. Empty \in [States -> Nat] /\ NoAnswer.code = 0
  BY DEF Empty, States, NoAnswer, Answer
<1> QED BY <1>1 DEF Init, Reasons, Shape, Holding, OutagesAreTrouble, RetryIsClean,
                    ReadFailsForAReason

\* A retry is enough: whatever died in the pool before a request began, the request fails only for
\* what happens while it runs.
THEOREM FailuresHaveReasons == Spec => []ReadFailsForAReason
<1>1. Reasons => ReadFailsForAReason
  BY DEF Reasons
<1> QED BY <1>1, InitReasons, NextReasons, PTL DEF Spec
-----------------------------------------------------------------------------
(***************************************************************************)
(* The two forms of the restrictions.                                      *)
(***************************************************************************)
\* Only a type in white space that is not spaces tells them apart.
LEMMA SameRestrictions ==
  ASSUME NEW c \in Catalogs, NEW restrictions,
         \A link \in contentOf[c].links : link.type.blank # "tab"
  PROVE  allows(c, restrictions) <=> PassesRestrictions(c, restrictions)
<1>1. (\E link \in contentOf[c].links : link.rel = "catalog" /\ is_opds2_media_type(link.type))
        <=> \E link \in contentOf[c].links :
               /\ link.rel = "catalog"
               /\ link.type.name = OPDS_MEDIA_TYPE /\ link.type.blank # "tab"
  BY DEF is_opds2_media_type
<1>2. (contentOf[c].publication_types # {"audiobook"})
        <=> ~ /\ "audiobook" \in contentOf[c].publication_types
              /\ contentOf[c].publication_types \ {"audiobook"} = {}
  OBVIOUS
<1> QED BY <1>1, <1>2 DEF allows, PassesRestrictions

\* The feed and the search restrict alike, whatever the catalogs hold.
THEOREM RestrictionsAreOne == Spec => []RestrictionsAgree
<1>1. RestrictionsAgree
  BY SameRestrictions DEF RestrictionsAgree
<1> QED BY <1>1, PTL
-----------------------------------------------------------------------------
(***************************************************************************)
(* Rows in the order of their keys.                                        *)
(***************************************************************************)
\* Lists of L numbers.
Keys(L) == {list \in Seq(Int) : Len(list) = L}

\* Induction over numbers, as a least one.
LEMMA LeastNumber ==
  ASSUME NEW S, S \subseteq Nat, S # {}
  PROVE  \E x \in S : \A y \in S : x <= y
<1> DEFINE R == {ss \in Nat \X Nat : ss[1] < ss[2]}
<1>1. IsWellFoundedOn(R, Nat)
  BY NatLessThanWellFounded DEF OpToRel
<1>2. \A x, y \in Nat : x < y => <<x, y>> \in R
  OBVIOUS
<1> HIDE DEF R
<1>3. PICK x \in S : \A y \in S : ~(<<y, x>> \in R)
  BY <1>1, WFMin
<1>4. \A y \in S : y \in Nat /\ x \in Nat
  OBVIOUS
<1>5. \A y \in S : ~(y < x)
  BY <1>2, <1>3, <1>4
<1>6. \A y \in S : x <= y
  BY <1>4, <1>5
<1> QED BY <1>6

LEMMA KeyElements ==
  ASSUME NEW L \in Nat, NEW one \in Keys(L)
  PROVE  DOMAIN one = 1..L /\ \A n \in 1..L : one[n] \in Int
  BY DEF Keys

\* The first place where two keys differ tells which is before the other.
LEMMA KeysDiffer ==
  ASSUME NEW L \in Nat, NEW one \in Keys(L), NEW other \in Keys(L), one # other
  PROVE  LexLess(one, other) \/ LexLess(other, one)
<1> DEFINE differ == {n \in 1..L : one[n] # other[n]}
<1>0. /\ DOMAIN one = 1..L /\ \A n \in 1..L : one[n] \in Int
      /\ DOMAIN other = 1..L /\ \A n \in 1..L : other[n] \in Int
  BY KeyElements
<1>1. differ # {}
  BY SeqEqual DEF Keys
<1>2. PICK n \in differ : \A m \in differ : n <= m
  <2>1. differ \in SUBSET Nat
    OBVIOUS
  <2> HIDE DEF differ
  <2> QED BY <1>1, <2>1, LeastNumber
<1>3. \A k \in 1..(n - 1) : one[k] = other[k]
  BY <1>2
<1>4. one[n] < other[n] \/ other[n] < one[n]
  BY <1>0, <1>2
<1> QED BY <1>0, <1>2, <1>3, <1>4 DEF LexLess

LEMMA KeyNotBeforeItself ==
  ASSUME NEW L \in Nat, NEW one \in Keys(L)
  PROVE  ~ LexLess(one, one)
  BY KeyElements DEF LexLess

LEMMA KeysChain ==
  ASSUME NEW L \in Nat, NEW one \in Keys(L), NEW other \in Keys(L), NEW last \in Keys(L),
         LexLess(one, other), LexLess(other, last)
  PROVE  LexLess(one, last)
<1>0. /\ DOMAIN one = 1..L /\ \A n \in 1..L : one[n] \in Int
      /\ DOMAIN other = 1..L /\ \A n \in 1..L : other[n] \in Int
      /\ DOMAIN last = 1..L /\ \A n \in 1..L : last[n] \in Int
  BY KeyElements
<1>1. PICK n \in 1..L : one[n] < other[n] /\ \A k \in 1..(n - 1) : one[k] = other[k]
  BY <1>0 DEF LexLess
<1>2. PICK m \in 1..L : other[m] < last[m] /\ \A k \in 1..(m - 1) : other[k] = last[k]
  BY <1>0 DEF LexLess
<1>3. CASE n < m
  <2>1. one[n] < last[n] /\ \A k \in 1..(n - 1) : one[k] = last[k]
    BY <1>0, <1>1, <1>2, <1>3
  <2> QED BY <1>0, <2>1 DEF LexLess
<1>4. CASE n >= m
  <2>1. one[m] < last[m] /\ \A k \in 1..(m - 1) : one[k] = last[k]
    BY <1>0, <1>1, <1>2, <1>4
  <2> QED BY <1>0, <2>1 DEF LexLess
<1> QED BY <1>3, <1>4

\* Each row has its place: the number of those before it is injective, and so takes every value
\* below their number.
LEMMA Ordered ==
  ASSUME NEW S, IsFiniteSet(S), NEW key, NEW L \in Nat, \A c \in S : key[c] \in Keys(L),
         \A c, d \in S : key[c] = key[d] => c = d
  PROVE  /\ OrderBy(S, key) \in [1..Cardinality(S) -> S]
         /\ \A n, m \in 1..Cardinality(S) : OrderBy(S, key)[n] = OrderBy(S, key)[m] => n = m
         /\ \A c \in S : \E n \in 1..Cardinality(S) : OrderBy(S, key)[n] = c
         /\ \A n, m \in 1..Cardinality(S) :
               n < m => LexLess(key[OrderBy(S, key)[n]], key[OrderBy(S, key)[m]])
<1> DEFINE keyed     == {<<key[c], c>> : c \in S}
           before(p) == {q \in keyed : LexLess(q[1], p[1])}
           N         == Cardinality(S)
           rank      == [p \in keyed |-> Cardinality(before(p))]
           placed    == {<<Cardinality(before(p)) + 1, p[2]>> : p \in keyed}
           at(n)     == CHOOSE p \in keyed : Cardinality(before(p)) = n - 1
<1>1. \A p \in keyed : p[2] \in S /\ p = <<key[p[2]], p[2]>> /\ p[1] \in Keys(L)
  OBVIOUS
<1>2. IsFiniteSet(keyed) /\ Cardinality(keyed) = N /\ N \in Nat
  <2> DEFINE pair == [c \in S |-> <<key[c], c>>]
  <2>1. pair \in Bijection(S, keyed)
    BY DEF Bijection, Injection, Surjection, IsInjective
  <2>2. ExistsBijection(S, keyed)
    BY <2>1 DEF ExistsBijection
  <2> HIDE DEF keyed
  <2> QED BY <2>2, FS_Bijection, FS_CardinalityType
<1>3. ASSUME NEW p \in keyed PROVE before(p) \in SUBSET keyed /\ p \notin before(p)
  BY <1>1, KeyNotBeforeItself
<1>4. ASSUME NEW p \in keyed, NEW q \in keyed, LexLess(p[1], q[1])
      PROVE  before(p) \in SUBSET before(q) /\ p \in before(q)
  <2>1. ASSUME NEW o \in before(p) PROVE LexLess(o[1], q[1])
    BY <1>1, <1>4, <2>1, KeysChain
  <2> QED BY <1>4, <2>1
<1>5. ASSUME NEW p \in keyed, NEW q \in keyed, p # q
      PROVE  LexLess(p[1], q[1]) \/ LexLess(q[1], p[1])
  <2>1. p[1] # q[1]
    BY <1>1, <1>5
  <2> QED BY <1>1, <2>1, KeysDiffer
<1> HIDE DEF keyed, before
<1>6. ASSUME NEW p \in keyed PROVE IsFiniteSet(before(p)) /\ Cardinality(before(p)) \in 0..(N - 1)
  <2>1. IsFiniteSet(before(p)) /\ Cardinality(before(p)) \in Nat /\ Cardinality(before(p)) <= N
    BY <1>2, <1>3, FS_Subset, FS_CardinalityType
  <2>2. Cardinality(before(p)) # N
    BY <1>2, <1>3, FS_Subset
  <2> QED BY <1>2, <2>1, <2>2
<1>7. ASSUME NEW p \in keyed, NEW q \in keyed, LexLess(p[1], q[1])
      PROVE  Cardinality(before(p)) # Cardinality(before(q))
  BY <1>3, <1>4, <1>6, <1>7, FS_Subset
<1>8. \A p, q \in keyed : Cardinality(before(p)) = Cardinality(before(q)) => p = q
  BY <1>5, <1>7
<1>9. rank \in Injection(keyed, 0..(N - 1))
  BY <1>6, <1>8 DEF Injection, IsInjective
<1>10. IsFiniteSet(0..(N - 1)) /\ Cardinality(0..(N - 1)) = N
  <2>1. /\ IsFiniteSet(0..(N - 1))
        /\ Cardinality(0..(N - 1)) = IF 0 > N - 1 THEN 0 ELSE (N - 1) - 0 + 1
    BY <1>2, FS_Interval
  <2> QED BY <1>2, <2>1
<1>11. rank \in Surjection(keyed, 0..(N - 1))
  <2> HIDE DEF rank, N
  <2> QED BY <1>2, <1>9, <1>10, FS_Injection
<1>12. ASSUME NEW n \in 1..N PROVE at(n) \in keyed /\ Cardinality(before(at(n))) = n - 1
  <2>1. n - 1 \in 0..(N - 1)
    BY <1>2
  <2>2. \E p \in keyed : rank[p] = n - 1
    <3> HIDE DEF rank
    <3> QED BY <1>11, <2>1 DEF Surjection
  <2>3. \E p \in keyed : Cardinality(before(p)) = n - 1
    BY <2>2
  <2> QED BY <2>3
<1>13. ASSUME NEW p \in keyed
       PROVE  /\ Cardinality(before(p)) + 1 \in 1..N
              /\ at(Cardinality(before(p)) + 1) = p
  <2>1. Cardinality(before(p)) + 1 \in 1..N
    BY <1>2, <1>6
  <2>2. Cardinality(before(at(Cardinality(before(p)) + 1))) = Cardinality(before(p))
    BY <1>6, <1>12, <2>1
  <2> QED BY <1>8, <1>12, <2>1, <2>2
<1> HIDE DEF at
<1>14. OrderBy(S, key) = [n \in 1..N |-> at(n)[2]]
  <2>1. OrderBy(S, key) = [n \in 1..N |-> (CHOOSE p \in placed : p[1] = n)[2]]
    BY DEF OrderBy, keyed, before
  <2>2. ASSUME NEW n \in 1..N PROVE (CHOOSE p \in placed : p[1] = n)[2] = at(n)[2]
    <3> DEFINE q == CHOOSE p \in placed : p[1] = n
               own == <<n, at(n)[2]>>
    <3>1. own \in placed
      <4>1. Cardinality(before(at(n))) + 1 = n
        BY <1>2, <1>12
      <4> QED BY <1>12, <4>1
    <3>2. own[1] = n
      OBVIOUS
    <3>3. \A o \in placed : \E p \in keyed : o[1] = Cardinality(before(p)) + 1 /\ o[2] = p[2]
      OBVIOUS
    <3> HIDE DEF placed, own
    <3>4. q \in placed /\ q[1] = n
      BY <3>1, <3>2
    <3> HIDE DEF q
    <3>5. PICK p \in keyed : n = Cardinality(before(p)) + 1 /\ q[2] = p[2]
      BY <3>3, <3>4
    <3>6. Cardinality(before(p)) = Cardinality(before(at(n)))
      BY <1>6, <1>12, <3>5
    <3>7. p = at(n)
      BY <1>8, <1>12, <3>6
    <3> QED BY <3>5, <3>7 DEF q
  <2> HIDE DEF placed
  <2> QED BY <2>1, <2>2
<1>15. OrderBy(S, key) \in [1..N -> S]
  BY <1>1, <1>12, <1>14
<1>16. ASSUME NEW n \in 1..N, NEW m \in 1..N, OrderBy(S, key)[n] = OrderBy(S, key)[m]
       PROVE  n = m
  <2>1. at(n)[2] = at(m)[2]
    BY <1>14, <1>16
  <2>2. at(n) = at(m)
    BY <1>1, <1>12, <2>1
  <2>3. n - 1 = m - 1
    BY <1>12, <2>2
  <2> QED BY <1>2, <2>3
<1>17. ASSUME NEW c \in S PROVE \E n \in 1..N : OrderBy(S, key)[n] = c
  <2> DEFINE p == <<key[c], c>>
  <2>1. p \in keyed
    BY DEF keyed
  <2>2. OrderBy(S, key)[Cardinality(before(p)) + 1] = p[2]
    BY <1>13, <1>14, <2>1
  <2> QED BY <1>13, <2>1, <2>2
<1>18. ASSUME NEW n \in 1..N, NEW m \in 1..N, n < m
       PROVE  LexLess(key[OrderBy(S, key)[n]], key[OrderBy(S, key)[m]])
  <2>1. at(n) \in keyed /\ at(m) \in keyed /\ at(n) # at(m)
    BY <1>2, <1>12, <1>18
  <2>2. ASSUME LexLess(at(m)[1], at(n)[1]) PROVE FALSE
    <3>1. Cardinality(before(at(m))) <= Cardinality(before(at(n)))
      BY <1>4, <1>6, <2>1, <2>2, FS_Subset
    <3>2. m - 1 <= n - 1
      BY <1>12, <3>1
    <3> QED BY <1>2, <1>18, <3>2
  <2>3. LexLess(at(n)[1], at(m)[1])
    BY <1>5, <2>1, <2>2
  <2>4. at(n)[1] = key[at(n)[2]] /\ at(m)[1] = key[at(m)[2]]
    BY <1>1, <2>1
  <2> QED BY <1>14, <2>3, <2>4
<1> QED BY <1>15, <1>16, <1>17, <1>18
-----------------------------------------------------------------------------
(***************************************************************************)
(* The pages of a search.                                                  *)
(***************************************************************************)
\* What following `next` from the first page on shows, while nothing moves.
Listed(table, request) ==
    IF is_empty(Query(request)) THEN << >>
      ELSE PageOf(SearchRanking(table, Query(request), request.restrictions), 1, MAX_RESULTS)

Excluded(request) == ToSet(Query(request).negatives)
Clean(request)    == {c \in Catalogs : Excluded(request) \cap DOMAIN contentOf[c].words = {}}

LEMMA MinOfTwo ==
  ASSUME NEW a \in Int, NEW b \in Int
  PROVE  Min({a, b}) = IF a <= b THEN a ELSE b
  BY DEF Min

LEMMA PagesFit == MAX_PAGE \in Nat /\ MAX_PAGE * PAGE_SIZE = MAX_RESULTS
<1> DEFINE k == MAX_RESULTS \div PAGE_SIZE
<1>1. MAX_RESULTS = PAGE_SIZE * k /\ k \in Nat
  BY PagesAssumption
<1> HIDE DEF k
<1>2. (MAX_RESULTS + PAGE_SIZE - 1) \div PAGE_SIZE = k
  BY <1>1, PagesAssumption
<1> QED BY <1>1, <1>2, PagesAssumption DEF MAX_PAGE

LEMMA KeysOfHits ==
  ASSUME NEW request \in Asked, NEW c \in Catalogs
  PROVE  SearchKey(Query(request), c) \in Keys(4) /\ SearchKey(Query(request), c)[4] = c
<1> DEFINE query == Query(request)
           score == Score(c, Range(query.positives))
           alike == contentOf[c].alike[query.positives]
           born  == contentOf[c].created_at
<1>1. score \in Int
  <2> DEFINE found(label) == {word \in Range(query.positives) \cap DOMAIN contentOf[c].words :
                                 contentOf[c].words[word] = label}
  <2>1. ASSUME NEW label PROVE Cardinality(found(label)) \in Nat
    <3>1. IsFiniteSet(DOMAIN contentOf[c].words) /\ found(label) \in SUBSET DOMAIN contentOf[c].words
      BY PagesAssumption
    <3> QED BY <3>1, FS_Subset, FS_CardinalityType
  <2>2. score = 10 * Cardinality(found("A")) + 4 * Cardinality(found("B")) + 2 * Cardinality(found("C"))
    BY DEF Score, RANK_WEIGHTS
  <2> HIDE DEF found
  <2> QED BY <2>1, <2>2
<1>2. alike \in Int
  BY ReadServiceAssumption DEF Asked, Query
<1>3. born \in Int /\ c \in Int
  BY PagesAssumption, RegistryAssumption
<1>4. SearchKey(query, c) = <<1, - score, - born, c>> \/ SearchKey(query, c) = <<2, - alike, - born, c>>
  BY DEF SearchKey
<1> HIDE DEF query, score, alike, born
<1>5. \A n, m, k, l \in Int : <<n, m, k, l>> \in Keys(4) /\ <<n, m, k, l>>[4] = l
  BY DEF Keys
<1>6. - score \in Int /\ - alike \in Int /\ - born \in Int /\ c \in Int
  BY <1>1, <1>2, <1>3
<1>7. SearchKey(query, c) \in Keys(4) /\ SearchKey(query, c)[4] = c
  BY <1>4, <1>5, <1>6
<1> QED BY <1>7 DEF query

LEMMA RankingIsHits ==
  ASSUME NEW request \in Asked, NEW table, NEW restrictions
  PROVE  SearchRanking(table, Query(request), restrictions)
            \in Seq(Hits(table, Query(request), restrictions))
<1> DEFINE hits == Hits(table, Query(request), restrictions)
           key  == [c \in hits |-> SearchKey(Query(request), c)]
<1>1. hits \in SUBSET Catalogs
  BY DEF Hits, WordHits, TrigramHits
<1>2. IsFiniteSet(hits) /\ Cardinality(hits) \in Nat
  BY <1>1, RegistryAssumption, FS_Subset, FS_CardinalityType
<1>3. \A c \in hits : key[c] \in Keys(4) /\ key[c][4] = c
  BY <1>1, KeysOfHits
<1>4. SearchRanking(table, Query(request), restrictions) = OrderBy(hits, key)
  BY DEF SearchRanking
<1> HIDE DEF hits, key
<1>5. OrderBy(hits, key) \in [1..Cardinality(hits) -> hits]
  BY <1>2, <1>3, Ordered
<1>6. OrderBy(hits, key) \in Seq(hits)
  BY <1>2, <1>5
<1> QED BY <1>4, <1>6 DEF hits

\* Neither half of the statement lets a catalog through that holds an excluded word.
LEMMA HitsAreClean ==
  ASSUME NEW request, NEW table, NEW restrictions
  PROVE  Hits(table, Query(request), restrictions) \in SUBSET Clean(request)
<1> DEFINE query == Query(request)
           none  == Range(query.negatives)
<1> SUFFICES ASSUME NEW c \in Hits(table, query, restrictions) PROVE c \in Clean(request)
  OBVIOUS
<1>1. c \in Catalogs
  BY DEF Hits, WordHits, TrigramHits
<1>2. Excluded(request) = none
  BY DEF Excluded, ToSet, Range
<1>3. DOMAIN contentOf[c].words \subseteq Lexemes
  BY <1>1, PagesAssumption
<1> HIDE DEF none
<1>4. CASE c \in WordHits(query)
  <2>1. Holds(c, registry_query(Range(query.positives), none))
    BY <1>4 DEF WordHits, none
  <2>2. DOMAIN contentOf[c].words \cap (none \cap Lexemes) = {}
    BY <2>1 DEF Holds, registry_query, NoQuery
  <2> QED BY <1>1, <1>2, <1>3, <2>2 DEF Clean
<1>5. CASE c \notin WordHits(query)
  <2>1. ~ Holds(c, registry_query(none, {}))
    BY <1>5 DEF Hits, TrigramHits, none
  <2>2. DOMAIN contentOf[c].words \cap (none \cap Lexemes) = {}
    BY <2>1 DEF Holds, registry_query, NoQuery
  <2> QED BY <1>1, <1>2, <1>3, <2>2 DEF Clean
<1> QED BY <1>4, <1>5

LEMMA CleanRanking ==
  ASSUME NEW request \in Asked, NEW table, NEW restrictions
  PROVE  SearchRanking(table, Query(request), restrictions) \in Seq(Clean(request))
  BY RankingIsHits, HitsAreClean, SeqMonotonic

LEMMA Cut ==
  ASSUME NEW S, NEW list \in Seq(S), NEW m \in Nat \ {0}, NEW n \in Int
  PROVE  /\ SubSeq(list, m, Min({n, Len(list)})) \in Seq(S)
         /\ 0 <= n => Len(SubSeq(list, 1, Min({n, Len(list)}))) = Min({n, Len(list)})
<1>1. Len(list) \in Nat /\ \A i \in 1..Len(list) : list[i] \in S
  OBVIOUS
<1>2. Min({n, Len(list)}) \in Int /\ Min({n, Len(list)}) <= Len(list)
      /\ (0 <= n => Min({n, Len(list)}) \in Nat)
  BY <1>1, MinOfTwo
<1> DEFINE k == Min({n, Len(list)})
<1> HIDE DEF k
<1>3. \A i \in m..k : list[i] \in S
  BY <1>1, <1>2 DEF k
<1>4. \A i \in 1..k : list[i] \in S
  BY <1>1, <1>2 DEF k
<1>5. SubSeq(list, m, k) \in Seq(S)
  <2>1. m \in Int /\ k \in Int
    BY <1>2 DEF k
  <2> QED BY <1>3, <2>1, SubSeqProperties
<1>6. 0 <= n => Len(SubSeq(list, 1, k)) = k
  BY <1>2, <1>4, SubSeqProperties DEF k
<1> QED BY <1>5, <1>6 DEF k

\* A page of what is listed, cut at MAX_RESULTS, is the page of the ranking: MAX_RESULTS is whole pages.
LEMMA PagesOfListed ==
  ASSUME NEW S, NEW ranking \in Seq(S), NEW number \in 1..MAX_PAGE,
         NEW listed, listed = PageOf(ranking, 1, MAX_RESULTS)
  PROVE  /\ listed \in Seq(S)
         /\ Len(listed) = Min({Len(ranking), MAX_RESULTS})
         /\ PageOf(ranking, number, PAGE_SIZE)
               = SubSeq(listed, (number - 1) * PAGE_SIZE + 1, Min({number * PAGE_SIZE, Len(listed)}))
<1>1. /\ number * PAGE_SIZE \in Nat /\ (number - 1) * PAGE_SIZE \in Nat
      /\ number * PAGE_SIZE <= MAX_RESULTS
      /\ MAX_RESULTS \in Nat \ {0} /\ Len(ranking) \in Nat
      /\ (number - 1) * PAGE_SIZE + PAGE_SIZE = number * PAGE_SIZE
  <2>1. number * PAGE_SIZE <= MAX_PAGE * PAGE_SIZE
    BY PagesFit, PagesAssumption
  <2> QED BY <2>1, PagesFit, PagesAssumption
<1> DEFINE x == (number - 1) * PAGE_SIZE
           y == number * PAGE_SIZE
           e == Min({MAX_RESULTS, Len(ranking)})
<1>2. e \in Nat /\ e <= Len(ranking) /\ e <= MAX_RESULTS /\ (e = MAX_RESULTS \/ e = Len(ranking))
  BY <1>1, MinOfTwo
<1>3. listed = SubSeq(ranking, 1, e)
  <2>1. (1 - 1) * MAX_RESULTS + 1 = 1 /\ 1 * MAX_RESULTS = MAX_RESULTS
    BY <1>1
  <2> QED BY <2>1 DEF PageOf
<1>4. listed \in Seq(S) /\ Len(listed) = e
  <2>1. 1 \in Nat \ {0} /\ MAX_RESULTS \in Int /\ 0 <= MAX_RESULTS
    BY <1>1
  <2>2. SubSeq(ranking, 1, e) \in Seq(S)
    BY <2>1, Cut
  <2>3. Len(SubSeq(ranking, 1, e)) = e
    BY <2>1, Cut
  <2> HIDE DEF e
  <2> QED BY <1>3, <2>2, <2>3
<1>5. PageOf(ranking, number, PAGE_SIZE) = SubSeq(ranking, x + 1, Min({y, Len(ranking)}))
  BY DEF PageOf
<1>6. Min({y, Len(ranking)}) = Min({y, e})
  BY <1>1, <1>2, MinOfTwo
<1>7. Min({y, e}) \in Nat /\ Min({y, e}) <= e
  BY <1>1, <1>2, MinOfTwo
<1> DEFINE k == Min({y, e})
<1> HIDE DEF x, y, e, k
<1>8. SubSeq(ranking, x + 1, k) = SubSeq(listed, x + 1, k)
  <2>1. CASE k < x + 1
    <3>1. x + 1 \in Int /\ k \in Int
      BY <1>1, <1>7 DEF x, k
    <3> QED BY <2>1, <3>1, SubSeqEmpty
  <2>2. CASE x + 1 <= k
    <3>1. x \in Nat /\ k \in 1..e /\ x + 1 \in 1..e /\ 1 \in 1..Len(ranking) /\ e \in 1..Len(ranking)
      BY <1>1, <1>2, <1>7, <2>2 DEF x, k
    <3>2. SubSeq(SubSeq(ranking, 1, e), x + 1, k) = SubSeq(ranking, 1 + (x + 1) - 1, 1 + k - 1)
      BY <1>2, <3>1, SubSeqOfSubSeq
    <3> QED BY <1>2, <1>3, <3>1, <3>2
  <2>3. x + 1 \in Int /\ k \in Int
    BY <1>1, <1>7 DEF x, k
  <2> QED BY <2>1, <2>2, <2>3
<1>9. Min({Len(ranking), MAX_RESULTS}) = e
  BY <1>1, MinOfTwo DEF e
<1> QED BY <1>4, <1>5, <1>6, <1>8, <1>9 DEF x, y, k

LEMMA ListedIsClean ==
  ASSUME NEW request \in Asked, NEW table
  PROVE  Listed(table, request) \in Seq(Clean(request)) /\ Len(Listed(table, request)) \in Nat
<1>1. << >> \in Seq(Clean(request)) /\ Len(<< >>) = 0
  OBVIOUS
<1>2. PageOf(SearchRanking(table, Query(request), request.restrictions), 1, MAX_RESULTS)
         \in Seq(Clean(request))
  <2>1. 1 \in Nat \ {0} /\ (1 - 1) * MAX_RESULTS + 1 = 1 /\ 1 * MAX_RESULTS \in Int
    BY PagesAssumption
  <2> QED BY <2>1, CleanRanking, Cut DEF PageOf
<1>3. Listed(table, request) \in Seq(Clean(request))
  BY <1>1, <1>2 DEF Listed
<1>4. \A S : \A list \in Seq(S) : Len(list) \in Nat
  OBVIOUS
<1> QED BY <1>3, <1>4

\* What the page `number` of a search holds.
LEMMA SearchServes ==
  ASSUME NEW request \in Asked, NEW number \in 1..MAX_PAGE
  PROVE  LET listed == Listed(rows, request)
             reply  == resolve_search(request, number)
         IN  /\ reply.code = 200
             /\ reply.served = SubSeq(listed, (number - 1) * PAGE_SIZE + 1,
                                              Min({number * PAGE_SIZE, Len(listed)}))
             /\ reply.total = Len(listed)
             /\ reply.next = IF number * PAGE_SIZE < Len(listed) THEN number + 1 ELSE 0
             /\ number * PAGE_SIZE < Len(listed) => number < MAX_PAGE
<1> DEFINE listed == Listed(rows, request)
           reply  == resolve_search(request, number)
           found  == SearchRanking(rows, Query(request), request.restrictions)
           result == IF is_empty(Query(request)) THEN EmptyPage
                       ELSE search_catalogs(rows, Query(request), number, request.restrictions)
<1>0. /\ number \in Nat /\ number * PAGE_SIZE \in Nat /\ (number - 1) * PAGE_SIZE \in Nat
      /\ MAX_RESULTS \in Nat /\ number <= MAX_PAGE
      /\ number = MAX_PAGE => number * PAGE_SIZE = MAX_RESULTS
  BY PagesFit, PagesAssumption
<1>1. /\ result.catalogs = SubSeq(listed, (number - 1) * PAGE_SIZE + 1,
                                          Min({number * PAGE_SIZE, Len(listed)}))
      /\ Min({result.total, MAX_RESULTS}) = Len(listed) /\ Len(listed) <= MAX_RESULTS
      /\ Len(listed) \in Nat
  <2>1. CASE is_empty(Query(request))
    <3>1. listed = << >> /\ result = [total |-> 0, catalogs |-> << >>] /\ Len(listed) = 0
      BY <2>1 DEF Listed, EmptyPage
    <3>2. Min({number * PAGE_SIZE, 0}) = 0 /\ Min({0, MAX_RESULTS}) = 0
      BY <1>0, MinOfTwo
    <3>3. SubSeq(listed, (number - 1) * PAGE_SIZE + 1, 0) = << >>
      BY <1>0, SubSeqEmpty
    <3> HIDE DEF listed, result
    <3>4. result.total = 0 /\ result.catalogs = << >> /\ Len(listed) = 0
      BY <3>1
    <3>5. Min({number * PAGE_SIZE, Len(listed)}) = 0
      BY <3>2, <3>4
    <3>6. Min({result.total, MAX_RESULTS}) = 0
      BY <3>2, <3>4
    <3>7. result.catalogs = SubSeq(listed, (number - 1) * PAGE_SIZE + 1,
                                           Min({number * PAGE_SIZE, Len(listed)}))
      BY <3>3, <3>4, <3>5
    <3>8. /\ Min({result.total, MAX_RESULTS}) = Len(listed) /\ Len(listed) <= MAX_RESULTS
          /\ Len(listed) \in Nat
      BY <1>0, <3>4, <3>6
    <3> QED BY <3>7, <3>8
  <2>2. CASE ~ is_empty(Query(request))
    <3>1. listed = PageOf(found, 1, MAX_RESULTS)
      BY <2>2 DEF Listed
    <3>2. result = [total |-> Len(found), catalogs |-> PageOf(found, number, PAGE_SIZE)]
      BY <2>2 DEF search_catalogs
    <3>3. found \in Seq(Clean(request))
      BY CleanRanking
    <3> HIDE DEF listed, found, result
    <3>4. /\ Len(listed) = Min({Len(found), MAX_RESULTS})
          /\ PageOf(found, number, PAGE_SIZE)
               = SubSeq(listed, (number - 1) * PAGE_SIZE + 1, Min({number * PAGE_SIZE, Len(listed)}))
      BY <3>1, <3>3, PagesOfListed
    <3>5. Len(found) \in Nat
      BY <3>3
    <3>6. Min({Len(found), MAX_RESULTS}) \in Nat /\ Min({Len(found), MAX_RESULTS}) <= MAX_RESULTS
      BY <1>0, <3>5, MinOfTwo
    <3> QED BY <3>2, <3>4, <3>6
  <2> QED BY <2>1, <2>2
<1> DEFINE capped == Capped(result)
<1>2. capped.catalogs = result.catalogs /\ capped.total = Len(listed)
  <2>1. result = [total |-> result.total, catalogs |-> result.catalogs]
    BY DEF search_catalogs, EmptyPage
  <2> HIDE DEF result
  <2>2. capped = [total |-> Min({result.total, MAX_RESULTS}), catalogs |-> result.catalogs]
    BY <2>1 DEF Capped
  <2>3. capped.total = Min({result.total, MAX_RESULTS}) /\ capped.catalogs = result.catalogs
    BY <2>2
  <2> HIDE DEF listed, capped
  <2> QED BY <1>1, <2>3
<1>3. reply = [code |-> 200, served |-> capped.catalogs, total |-> capped.total,
               next |-> IF HasNext(capped, number) THEN number + 1 ELSE 0]
  BY DEF resolve_search, render_search_results, Answer
<1> HIDE DEF listed, reply, result, capped
<1>4. HasNext(capped, number) <=> number * PAGE_SIZE < Len(listed)
  BY <1>0, <1>1, <1>2, PagesFit DEF HasNext
<1>5. number * PAGE_SIZE < Len(listed) => number < MAX_PAGE
  BY <1>0, <1>1, PagesFit
<1>6. /\ reply.code = 200 /\ reply.served = capped.catalogs /\ reply.total = capped.total
      /\ reply.next = IF HasNext(capped, number) THEN number + 1 ELSE 0
  BY <1>3
<1>7. reply.next = IF number * PAGE_SIZE < Len(listed) THEN number + 1 ELSE 0
  BY <1>4, <1>6
<1> QED BY <1>1, <1>2, <1>5, <1>6, <1>7 DEF listed, reply

\* The pages from first to number, one after another.
Through(listed, first, number) ==
    SubSeq(listed, (first - 1) * PAGE_SIZE + 1, Min({number * PAGE_SIZE, Len(listed)}))

LEMMA PagesBegin ==
  ASSUME NEW S, NEW listed \in Seq(S), NEW first \in Nat \ {0}
  PROVE  Through(listed, first, first - 1) = << >>
<1> DEFINE x == (first - 1) * PAGE_SIZE
<1>1. x \in Nat /\ Len(listed) \in Nat
  BY PagesAssumption
<1>2. Min({x, Len(listed)}) \in Int /\ Min({x, Len(listed)}) <= x
  BY <1>1, MinOfTwo
<1> HIDE DEF x
<1>3. SubSeq(listed, x + 1, Min({x, Len(listed)})) = << >>
  BY <1>1, <1>2, SubSeqEmpty
<1> QED BY <1>3 DEF Through, x

LEMMA PagesAdd ==
  ASSUME NEW S, NEW listed \in Seq(S), NEW first \in Nat \ {0}, NEW number \in Nat,
         first <= number, first < number => (number - 1) * PAGE_SIZE < Len(listed)
  PROVE  Through(listed, first, number - 1) \o Through(listed, number, number)
            = Through(listed, first, number)
<1> DEFINE x == (first - 1) * PAGE_SIZE
           y == (number - 1) * PAGE_SIZE
           z == number * PAGE_SIZE
           k == Min({z, Len(listed)})
<1>1. x \in Nat /\ y \in Nat /\ z \in Nat /\ Len(listed) \in Nat /\ x <= y /\ y <= z
  BY PagesAssumption
<1>2. k \in Nat /\ k <= Len(listed) /\ (k = z \/ k = Len(listed))
  BY <1>1, MinOfTwo
<1>3. Through(listed, number, number) = SubSeq(listed, y + 1, k)
  BY DEF Through
<1>4. Through(listed, first, number) = SubSeq(listed, x + 1, k)
  BY DEF Through
<1>5. CASE first = number
  <2>1. Through(listed, first, number - 1) = << >>
    BY <1>5, PagesBegin
  <2>2. Through(listed, number, number) \in Seq(S)
    <3>1. y + 1 \in Nat \ {0} /\ z \in Int
      BY <1>1
    <3> QED BY <3>1, Cut DEF Through
  <2> QED BY <1>5, <2>1, <2>2
<1>6. CASE first < number
  <2>1. y < Len(listed)
    BY <1>6
  <2>2. Through(listed, first, number - 1) = SubSeq(listed, x + 1, y)
    <3>1. Min({y, Len(listed)}) = y
      BY <1>1, <2>1, MinOfTwo
    <3> QED BY <3>1 DEF Through
  <2> HIDE DEF x, y, z, k
  <2> DEFINE m == x + 1
  <2>3. /\ m \in 1..(Len(listed) + 1) /\ y \in (m - 1)..Len(listed)
        /\ k \in y..Len(listed)
    <3>1. y <= k
      BY <1>1, <1>2, <2>1 DEF z
    <3> QED BY <1>1, <1>2, <2>1, <3>1
  <2> HIDE DEF m
  <2>4. SubSeq(listed, m, y) \o SubSeq(listed, y + 1, k) = SubSeq(listed, m, k)
    BY <2>3, ConcatAdjacentSubSeq
  <2> QED BY <1>3, <1>4, <2>2, <2>4 DEF m
<1> QED BY <1>5, <1>6

\* Where a reader stands in its search: what it has seen are the pages before the one it is at while
\* that one is on its way, and with it once it is there.
PagesOf(table, request, number, at, reply, seen, still) ==
    LET listed == Listed(table, request)
        first  == request.page
    IN  /\ number \in 1..MAX_PAGE /\ first \in 1..number
        /\ reply.code = 200 => at = "idle"
        /\ reply.next # 0 =>
              /\ request \in Asked /\ request.endpoint = "search" /\ ~ is_empty(Query(request))
              /\ reply.code = 200 /\ reply.next = number + 1 /\ reply.next <= MAX_PAGE
        /\ request.endpoint = "search" =>
              /\ seen \in Seq(Clean(request))
              /\ still /\ at # "idle" =>
                    /\ seen = Through(listed, first, number - 1)
                    /\ first < number => (number - 1) * PAGE_SIZE < Len(listed)
              /\ still /\ reply.code = 200 =>
                    /\ reply.total = Len(listed)
                    /\ seen = Through(listed, first, number)
                    /\ reply.next # 0 <=> number * PAGE_SIZE < Len(listed)

PagesSoFar ==
    \A r \in Readers : PagesOf(rows, asked[r], page[r], pc[r], answer[r], shown[r], steady[r])

Histories ==
    /\ page   = [r \in Readers |-> page[r]]
    /\ shown  = [r \in Readers |-> shown[r]]
    /\ steady = [r \in Readers |-> steady[r]]

Pages == Reasons /\ Histories /\ PagesSoFar

\* Asking for the page number, the first one or the one after what was seen.
LEMMA SendPages ==
  ASSUME NEW request \in Asked, NEW number \in 1..MAX_PAGE, request.page \in 1..number,
         NEW seen, NEW still, NEW at,
         request.endpoint = "search" =>
            /\ seen \in Seq(Clean(request))
            /\ still => /\ seen = Through(Listed(rows, request), request.page, number - 1)
                        /\ request.page < number =>
                              (number - 1) * PAGE_SIZE < Len(Listed(rows, request))
  PROVE  /\ PagesOf(rows, request, number, at, NoAnswer, seen, still)
         /\ request.endpoint = "search" /\ is_empty(Query(request)) /\ request.page = number =>
               PagesOf(rows, request, number, "idle", resolve_search(request, number), seen, still)
<1> DEFINE listed == Listed(rows, request)
           reply  == resolve_search(request, number)
<1>1. NoAnswer.code = 0 /\ NoAnswer.next = 0
  BY DEF NoAnswer, Answer
<1>2. PagesOf(rows, request, number, at, NoAnswer, seen, still)
  BY <1>1 DEF PagesOf
<1>3. ASSUME request.endpoint = "search", is_empty(Query(request)), request.page = number
      PROVE  PagesOf(rows, request, number, "idle", reply, seen, still)
  <2>1. listed = << >> /\ Len(listed) = 0
    BY <1>3 DEF Listed
  <2>2. ~ number * PAGE_SIZE < Len(listed)
    <3>1. number * PAGE_SIZE \in Nat
      BY PagesAssumption, PagesFit
    <3> QED BY <2>1, <3>1
  <2>3. reply.total = Len(listed) /\ reply.next = 0
    <3>1. reply.total = Len(listed)
      BY SearchServes
    <3>2. reply.next = IF number * PAGE_SIZE < Len(listed) THEN number + 1 ELSE 0
      BY SearchServes
    <3> QED BY <2>2, <3>1, <3>2
  <2>4. Through(listed, number, number - 1) = << >> /\ Through(listed, number, number) = << >>
    <3>1. << >> \in Seq({}) /\ number \in Nat \ {0}
      BY PagesFit
    <3>2. Through(listed, number, number - 1) = << >>
      BY <2>1, <3>1, PagesBegin
    <3>3. Through(listed, number, number) = SubSeq(listed, (number - 1) * PAGE_SIZE + 1, 0)
      <4>1. number * PAGE_SIZE \in Nat
        BY PagesAssumption, PagesFit
      <4>2. Min({number * PAGE_SIZE, 0}) = 0
        BY <4>1, MinOfTwo
      <4>3. Min({number * PAGE_SIZE, Len(listed)}) = 0
        BY <2>1, <4>2
      <4> QED BY <4>3 DEF Through
    <3>4. (number - 1) * PAGE_SIZE \in Nat
      BY PagesAssumption, PagesFit
    <3>5. SubSeq(listed, (number - 1) * PAGE_SIZE + 1, 0) = << >>
      BY <3>4, SubSeqEmpty
    <3> QED BY <3>2, <3>3, <3>5
  <2> HIDE DEF listed, reply
  <2> QED BY <1>3, <2>2, <2>3, <2>4 DEF PagesOf, listed
<1> QED BY <1>2, <1>3

\* An error ends the search where it is.
LEMMA FailPages ==
  ASSUME NEW request, NEW number, NEW at, NEW reply, NEW seen, NEW still, NEW code, code # 200,
         PagesOf(rows, request, number, at, reply, seen, still)
  PROVE  PagesOf(rows, request, number, "idle", Answer(code, << >>, 0, 0), seen \o << >>, still)
<1>1. Answer(code, << >>, 0, 0).code = code /\ Answer(code, << >>, 0, 0).next = 0
  BY DEF Answer
<1>2. request.endpoint = "search" => seen \o << >> \in Seq(Clean(request))
  BY DEF PagesOf
<1> QED BY <1>1, <1>2 DEF PagesOf

\* The page comes, and follows those before it.
LEMMA ServePages ==
  ASSUME NEW request \in Asked, NEW number, NEW at, at # "idle", NEW reply, NEW seen, NEW still,
         PagesOf(rows, request, number, at, reply, seen, still),
         NEW result \in Served(request, number)
  PROVE  PagesOf(rows, request, number, "idle", result, seen \o result.served, still)
<1> DEFINE listed == Listed(rows, request)
           first  == request.page
<1>0. /\ number \in 1..MAX_PAGE /\ first \in 1..number /\ number \in Nat /\ first \in Nat \ {0}
      /\ first <= number
  BY PagesFit DEF PagesOf
<1>1. CASE request.endpoint # "search"
  <2>1. result.next = 0
    BY <1>1, AskedRequest DEF Served, Answer
  <2> QED BY <1>0, <1>1, <2>1 DEF PagesOf
<1>2. CASE request.endpoint = "search"
  <2>1. result = resolve_search(request, number)
    BY <1>2 DEF Served
  <2>2. /\ result.code = 200 /\ result.served = Through(listed, number, number)
        /\ result.total = Len(listed)
        /\ result.next = IF number * PAGE_SIZE < Len(listed) THEN number + 1 ELSE 0
        /\ number * PAGE_SIZE < Len(listed) => number < MAX_PAGE
    <3>1. LET found == resolve_search(request, number)
          IN  /\ found.code = 200
              /\ found.served = SubSeq(listed, (number - 1) * PAGE_SIZE + 1,
                                               Min({number * PAGE_SIZE, Len(listed)}))
              /\ found.total = Len(listed)
              /\ found.next = IF number * PAGE_SIZE < Len(listed) THEN number + 1 ELSE 0
              /\ number * PAGE_SIZE < Len(listed) => number < MAX_PAGE
      BY <1>0, SearchServes
    <3> HIDE DEF listed
    <3> QED BY <2>1, <3>1 DEF Through
  <2>3. listed \in Seq(Clean(request)) /\ Len(listed) \in Nat
    BY ListedIsClean
  <2>4. Through(listed, number, number) \in Seq(Clean(request))
    <3>1. (number - 1) * PAGE_SIZE + 1 \in Nat \ {0} /\ number * PAGE_SIZE \in Int
      BY <1>0, PagesAssumption
    <3> HIDE DEF listed
    <3> QED BY <2>3, <3>1, Cut DEF Through
  <2>5. /\ seen \in Seq(Clean(request))
        /\ still => /\ seen = Through(listed, first, number - 1)
                    /\ first < number => (number - 1) * PAGE_SIZE < Len(listed)
    BY <1>2 DEF PagesOf
  <2> HIDE DEF listed
  <2>6. seen \o result.served \in Seq(Clean(request))
    BY <2>2, <2>4, <2>5
  <2>7. still => seen \o result.served = Through(listed, first, number)
    <3>1. SUFFICES ASSUME still PROVE seen \o result.served = Through(listed, first, number)
      OBVIOUS
    <3>2. Through(listed, first, number - 1) \o Through(listed, number, number)
             = Through(listed, first, number)
      BY <1>0, <2>3, <2>5, <3>1, PagesAdd
    <3> QED BY <2>2, <2>5, <3>1, <3>2
  <2>8. result.next # 0 <=> number * PAGE_SIZE < Len(listed)
    BY <1>0, <2>2
  <2>9. ~ is_empty(Query(request)) \/ result.next = 0
    <3>1. is_empty(Query(request)) => Len(listed) = 0
      BY DEF listed, Listed
    <3>2. number * PAGE_SIZE \in Nat
      BY <1>0, PagesAssumption
    <3> QED BY <2>8, <3>1, <3>2
  <2>10. result.next # 0 => result.next = number + 1 /\ result.next <= MAX_PAGE
    BY <1>0, <2>2, PagesFit
  <2> QED BY <1>0, <1>2, <2>2, <2>6, <2>7, <2>8, <2>9, <2>10 DEF PagesOf, listed
<1> QED BY <1>1, <1>2

LEMMA OthersKeepPages ==
  ASSUME PagesSoFar, UNCHANGED rows, NEW r \in Readers,
         \A t \in Readers \ {r} :
            /\ asked'[t] = asked[t] /\ page'[t] = page[t] /\ pc'[t] = pc[t]
            /\ answer'[t] = answer[t] /\ shown'[t] = shown[t] /\ steady'[t] = steady[t],
         PagesOf(rows, asked'[r], page'[r], pc'[r], answer'[r], shown'[r], steady'[r])
  PROVE  PagesSoFar'
  BY DEF PagesSoFar

LEMMA FinishKeepsPages ==
  ASSUME Pages, NEW r \in Readers, NEW result, NEW troubled, Finish(r, result, troubled),
         UNCHANGED <<rows, asked, page, steady>>,
         PagesOf(rows, asked[r], page[r], "idle", result, shown[r] \o result.served, steady[r])
  PROVE  PagesSoFar' /\ Histories'
<1>1. /\ pc'     = [pc EXCEPT ![r] = "idle"]
      /\ answer' = [answer EXCEPT ![r] = result]
      /\ shown'  = [shown EXCEPT ![r] = shown[r] \o result.served]
  BY DEF Finish
<1>2. Shape /\ Histories /\ PagesSoFar
  BY DEF Pages, Reasons
<1>3. Histories'
  BY <1>1, <1>2 DEF Histories
<1>4. PagesOf(rows, asked'[r], page'[r], pc'[r], answer'[r], shown'[r], steady'[r])
  BY <1>1, <1>2 DEF Histories, Shape
<1>5. \A t \in Readers \ {r} :
         /\ asked'[t] = asked[t] /\ page'[t] = page[t] /\ pc'[t] = pc[t]
         /\ answer'[t] = answer[t] /\ shown'[t] = shown[t] /\ steady'[t] = steady[t]
  BY <1>1, <1>2 DEF Histories, Shape
<1> QED BY <1>2, <1>3, <1>4, <1>5, OthersKeepPages

LEMMA SendKeepsPages ==
  ASSUME Pages, NEW r \in Readers, NEW request \in Asked, NEW number \in 1..MAX_PAGE,
         Send(r, request, number), request.page \in 1..number,
         NEW seen, NEW still,
         shown' = [shown EXCEPT ![r] = seen], steady' = [steady EXCEPT ![r] = still],
         request.endpoint = "search" =>
            /\ seen \in Seq(Clean(request))
            /\ still => /\ seen = Through(Listed(rows, request), request.page, number - 1)
                        /\ request.page < number =>
                              (number - 1) * PAGE_SIZE < Len(Listed(rows, request)),
         is_empty(Query(request)) => request.page = number
  PROVE  PagesSoFar' /\ Histories'
<1>1. /\ pc[r] = "idle" /\ rows' = rows
      /\ asked' = [asked EXCEPT ![r] = request] /\ page' = [page EXCEPT ![r] = number]
      /\ \/ /\ request.endpoint = "search" /\ is_empty(Query(request)) /\ UNCHANGED pc
            /\ answer' = [answer EXCEPT ![r] = resolve_search(request, number)]
         \/ /\ answer' = [answer EXCEPT ![r] = NoAnswer]
            /\ pc' = [pc EXCEPT ![r] = "checkout"]
  BY DEF Send
<1>2. Shape /\ Histories /\ PagesSoFar
  BY DEF Pages, Reasons
<1>3. Histories'
  BY <1>1, <1>2 DEF Histories
<1>4. /\ PagesOf(rows, request, number, "checkout", NoAnswer, seen, still)
      /\ request.endpoint = "search" /\ is_empty(Query(request)) =>
            PagesOf(rows, request, number, "idle", resolve_search(request, number), seen, still)
  BY SendPages
<1>5. /\ asked'[r] = request /\ page'[r] = number /\ shown'[r] = seen /\ steady'[r] = still
      /\ \/ /\ request.endpoint = "search" /\ is_empty(Query(request)) /\ pc'[r] = "idle"
            /\ answer'[r] = resolve_search(request, number)
         \/ answer'[r] = NoAnswer /\ pc'[r] = "checkout"
  BY <1>1, <1>2 DEF Histories, Shape
<1>6. PagesOf(rows, asked'[r], page'[r], pc'[r], answer'[r], shown'[r], steady'[r])
  BY <1>4, <1>5
<1>7. \A t \in Readers \ {r} :
         /\ asked'[t] = asked[t] /\ page'[t] = page[t] /\ pc'[t] = pc[t]
         /\ answer'[t] = answer[t] /\ shown'[t] = shown[t] /\ steady'[t] = steady[t]
  BY <1>1, <1>2 DEF Histories, Shape
<1> QED BY <1>1, <1>2, <1>3, <1>6, <1>7, OthersKeepPages

LEMMA AskKeepsPages ==
  ASSUME Pages, NEW r \in Readers, Ask(r)
  PROVE  PagesSoFar' /\ Histories'
<1>1. PICK request \in requestsOf[r] : Send(r, request, request.page)
  BY DEF Ask
<1>2. /\ request \in Asked /\ request.page \in 1..MAX_PAGE /\ request.page \in 1..request.page
      /\ request.page \in Nat \ {0}
  BY ReadServiceAssumption, PagesFit DEF Asked
<1>3. shown' = [shown EXCEPT ![r] = << >>] /\ steady' = [steady EXCEPT ![r] = TRUE]
  BY DEF Ask
<1>4. << >> \in Seq(Clean(request))
  OBVIOUS
<1>5. << >> = Through(Listed(rows, request), request.page, request.page - 1)
  BY <1>2, ListedIsClean, PagesBegin
<1>6. ~ request.page < request.page
  BY <1>2
<1> QED BY <1>1, <1>2, <1>3, <1>4, <1>5, <1>6, SendKeepsPages

LEMMA FollowKeepsPages ==
  ASSUME Pages, NEW r \in Readers, Follow(r)
  PROVE  PagesSoFar' /\ Histories'
<1> DEFINE request == asked[r]
           number  == page[r] + 1
<1>1. /\ Histories /\ PagesSoFar /\ answer[r].next # 0 /\ Send(r, request, answer[r].next)
      /\ UNCHANGED <<shown, steady>>
  BY DEF Follow, Pages
<1>2. PagesOf(rows, request, page[r], pc[r], answer[r], shown[r], steady[r])
  BY <1>1 DEF PagesSoFar
<1>3. /\ page[r] \in 1..MAX_PAGE /\ request.page \in 1..page[r]
      /\ request \in Asked /\ request.endpoint = "search" /\ ~ is_empty(Query(request))
      /\ answer[r].code = 200 /\ answer[r].next = number /\ number <= MAX_PAGE
      /\ shown[r] \in Seq(Clean(request))
      /\ steady[r] => /\ shown[r] = Through(Listed(rows, request), request.page, page[r])
                      /\ page[r] * PAGE_SIZE < Len(Listed(rows, request))
  BY <1>1, <1>2 DEF PagesOf
<1>4. number \in 1..MAX_PAGE /\ number - 1 = page[r] /\ request.page \in 1..number
  BY <1>3, PagesFit
<1>5. shown' = [shown EXCEPT ![r] = shown[r]] /\ steady' = [steady EXCEPT ![r] = steady[r]]
  BY <1>1 DEF Histories
<1> HIDE DEF number
<1>6. Send(r, request, number)
  BY <1>1, <1>3
<1>7. steady[r] => /\ shown[r] = Through(Listed(rows, request), request.page, number - 1)
                   /\ (number - 1) * PAGE_SIZE < Len(Listed(rows, request))
  BY <1>3, <1>4
<1>8. request.endpoint = "search" =>
         /\ shown[r] \in Seq(Clean(request))
         /\ steady[r] => /\ shown[r] = Through(Listed(rows, request), request.page, number - 1)
                         /\ request.page < number =>
                               (number - 1) * PAGE_SIZE < Len(Listed(rows, request))
  BY <1>3, <1>7
<1>9. is_empty(Query(request)) => request.page = number
  BY <1>3
<1>10. request \in Asked
  BY <1>3
<1> HIDE DEF request
<1> QED BY <1>4, <1>5, <1>6, <1>8, <1>9, <1>10, SendKeepsPages

LEMMA DisconnectKeepsPages ==
  ASSUME Pages, NEW r \in Readers, Disconnect(r)
  PROVE  PagesSoFar' /\ Histories'
<1>1. Shape /\ Histories /\ PagesSoFar /\ pc[r] = "execute"
      /\ UNCHANGED <<rows, asked, page, shown, steady>>
  BY DEF Disconnect, Pages, Reasons
<1>2. \/ pc' = [pc EXCEPT ![r] = "checkout"] /\ UNCHANGED answer
      \/ /\ pc' = [pc EXCEPT ![r] = "idle"]
         /\ answer' = [answer EXCEPT ![r] = Answer(500, << >>, 0, 0)]
  BY DEF Disconnect
<1>3. PagesOf(rows, asked[r], page[r], pc[r], answer[r], shown[r], steady[r])
  BY <1>1 DEF PagesSoFar
<1>4. PagesOf(rows, asked[r], page[r], "checkout", answer[r], shown[r], steady[r])
  BY <1>1, <1>3 DEF PagesOf
<1>5. PagesOf(rows, asked[r], page[r], "idle", Answer(500, << >>, 0, 0), shown[r], steady[r])
  <2>1. Answer(500, << >>, 0, 0).code = 500 /\ Answer(500, << >>, 0, 0).next = 0
    BY DEF Answer
  <2> QED BY <1>3, <2>1 DEF PagesOf
<1>6. PagesOf(rows, asked'[r], page'[r], pc'[r], answer'[r], shown'[r], steady'[r])
  BY <1>1, <1>2, <1>4, <1>5 DEF Shape
<1>7. \A t \in Readers \ {r} :
         /\ asked'[t] = asked[t] /\ page'[t] = page[t] /\ pc'[t] = pc[t]
         /\ answer'[t] = answer[t] /\ shown'[t] = shown[t] /\ steady'[t] = steady[t]
  BY <1>1, <1>2 DEF Shape
<1>8. PagesSoFar'
  BY <1>1, <1>6, <1>7, OthersKeepPages
<1> QED BY <1>1, <1>8 DEF Histories

LEMMA ServeKeepsPages ==
  ASSUME Pages, NEW r \in Readers, Serve(r)
  PROVE  PagesSoFar' /\ Histories'
<1>0. /\ Reasons /\ PagesSoFar /\ (pc[r] # "idle" => asked[r] \in Asked)
      /\ PagesOf(rows, asked[r], page[r], pc[r], answer[r], shown[r], steady[r])
  BY DEF Pages, PagesSoFar, Reasons, Holding
<1>1. CASE Checkout(r)
  <2>1. pc[r] = "checkout" /\ pc' = [pc EXCEPT ![r] = "execute"] /\ Shape
        /\ UNCHANGED <<rows, asked, page, answer, shown, steady>>
    BY <1>0, <1>1 DEF Checkout, Reasons
  <2>2. PagesOf(rows, asked[r], page[r], "execute", answer[r], shown[r], steady[r])
    BY <1>0, <2>1 DEF PagesOf
  <2>3. PagesOf(rows, asked'[r], page'[r], pc'[r], answer'[r], shown'[r], steady'[r])
    BY <2>1, <2>2 DEF Shape
  <2>4. \A t \in Readers \ {r} :
           /\ asked'[t] = asked[t] /\ page'[t] = page[t] /\ pc'[t] = pc[t]
           /\ answer'[t] = answer[t] /\ shown'[t] = shown[t] /\ steady'[t] = steady[t]
    BY <2>1 DEF Shape
  <2>5. PagesSoFar'
    BY <1>0, <2>1, <2>3, <2>4, OthersKeepPages
  <2> QED BY <2>1, <2>5 DEF Histories, Pages
<1>2. ASSUME NEW code, code # 200
      PROVE  PagesOf(rows, asked[r], page[r], "idle", Answer(code, << >>, 0, 0),
                     shown[r] \o Answer(code, << >>, 0, 0).served, steady[r])
  <2>1. PagesOf(rows, asked[r], page[r], "idle", Answer(code, << >>, 0, 0), shown[r] \o << >>,
                steady[r])
    BY <1>0, <1>2, FailPages
  <2>2. Answer(code, << >>, 0, 0).served = << >>
    BY DEF Answer
  <2> QED BY <2>1, <2>2
<1>3. CASE FailToConnect(r) \/ WaitInVain(r) \/ TimeOut(r)
  <2>0. 500 # 200 /\ 503 # 200
    OBVIOUS
  <2>1. CASE FailToConnect(r)
    <3>1. Finish(r, Answer(500, << >>, 0, 0), trouble[r])
      BY <2>1 DEF FailToConnect
    <3>2. UNCHANGED <<rows, asked, page, steady>>
      BY <2>1 DEF FailToConnect
    <3>3. PagesOf(rows, asked[r], page[r], "idle", Answer(500, << >>, 0, 0),
                  shown[r] \o Answer(500, << >>, 0, 0).served, steady[r])
      BY <1>2, <2>0
    <3> QED BY <3>1, <3>2, <3>3, FinishKeepsPages
  <2>2. CASE WaitInVain(r)
    <3>1. Finish(r, Answer(500, << >>, 0, 0), TRUE)
      BY <2>2 DEF WaitInVain
    <3>2. UNCHANGED <<rows, asked, page, steady>>
      BY <2>2 DEF WaitInVain
    <3>3. PagesOf(rows, asked[r], page[r], "idle", Answer(500, << >>, 0, 0),
                  shown[r] \o Answer(500, << >>, 0, 0).served, steady[r])
      BY <1>2, <2>0
    <3> QED BY <3>1, <3>2, <3>3, FinishKeepsPages
  <2>3. CASE TimeOut(r)
    <3>1. Finish(r, Answer(503, << >>, 0, 0), FALSE)
      BY <2>3 DEF TimeOut
    <3>2. UNCHANGED <<rows, asked, page, steady>>
      BY <2>3 DEF TimeOut
    <3>3. PagesOf(rows, asked[r], page[r], "idle", Answer(503, << >>, 0, 0),
                  shown[r] \o Answer(503, << >>, 0, 0).served, steady[r])
      BY <1>2, <2>0
    <3> QED BY <3>1, <3>2, <3>3, FinishKeepsPages
  <2> QED BY <1>3, <2>1, <2>2, <2>3
<1>4. CASE Execute(r)
  <2>1. PICK result \in Served(asked[r], page[r]) :
           /\ pc[r] # "idle" /\ Finish(r, result, FALSE)
           /\ UNCHANGED <<rows, asked, page, steady>>
    BY <1>4 DEF Execute
  <2>2. PagesOf(rows, asked[r], page[r], "idle", result, shown[r] \o result.served, steady[r])
    BY <1>0, <2>1, ServePages
  <2> QED BY <2>1, <2>2, FinishKeepsPages
<1>5. CASE Disconnect(r)
  BY <1>5, DisconnectKeepsPages
<1> QED BY <1>1, <1>3, <1>4, <1>5 DEF Serve

\* A catalog that moves lets a search go on, but not add up.
LEMMA EditKeepsPages ==
  ASSUME Pages, NEW c \in Catalogs, Edit(c)
  PROVE  PagesSoFar' /\ Histories'
<1>1. UNCHANGED <<asked, page, pc, answer, shown>> /\ steady' = [r \in Readers |-> FALSE]
  BY DEF Edit
<1>2. ASSUME NEW r \in Readers
      PROVE  PagesOf(rows', asked[r], page[r], pc[r], answer[r], shown[r], FALSE)
  <2>1. PagesOf(rows, asked[r], page[r], pc[r], answer[r], shown[r], steady[r])
    BY DEF Pages, PagesSoFar
  <2> QED BY <2>1 DEF PagesOf
<1>3. PagesSoFar'
  BY <1>1, <1>2 DEF PagesSoFar
<1> QED BY <1>1, <1>3 DEF Histories, Pages

LEMMA NextPages == Pages /\ [Next]_vars => PagesSoFar' /\ Histories'
<1> SUFFICES ASSUME Pages, [Next]_vars PROVE PagesSoFar' /\ Histories'
  OBVIOUS
<1>1. ASSUME UNCHANGED <<rows, asked, page, pc, answer, shown, steady>>
      PROVE  PagesSoFar' /\ Histories'
  BY <1>1 DEF Pages, PagesSoFar, Histories
<1>2. CASE UNCHANGED vars
  BY <1>1, <1>2 DEF vars, readerVars
<1>3. CASE DropIdle \/ ComeBack \/ (\E staysUp \in BOOLEAN : DropAll(staysUp))
           \/ (\E p \in Pools : Recycle(p))
  BY <1>1, <1>3 DEF DropIdle, DropAll, ComeBack, Recycle, readerVars
<1> QED BY <1>2, <1>3, AskKeepsPages, FollowKeepsPages, ServeKeepsPages, EditKeepsPages DEF Next

LEMMA InitPages == Init => PagesSoFar /\ Histories
<1> SUFFICES ASSUME Init PROVE PagesSoFar /\ Histories
  OBVIOUS
<1>1. ASSUME NEW r \in Readers
      PROVE  PagesOf(rows, NoRequest, 1, "idle", NoAnswer, << >>, TRUE)
  <2>1. NoAnswer.code = 0 /\ NoAnswer.next = 0
    BY DEF NoAnswer, Answer
  <2>2. NoRequest.page = 1 /\ NoRequest.endpoint = "none"
    BY DEF NoRequest
  <2>3. 1 \in 1..MAX_PAGE
    BY PagesFit, PagesAssumption
  <2> QED BY <2>1, <2>2, <2>3 DEF PagesOf
<1> QED BY <1>1 DEF Init, PagesSoFar, Histories

LEMMA PagesAreRight == Pages => SearchPagesAddUp
<1> SUFFICES ASSUME Pages, NEW r \in Readers, answer[r].code = 200, asked[r].endpoint = "search"
             PROVE  LET query   == Query(asked[r])
                        ranking == SearchRanking(rows, query, asked[r].restrictions)
                        listed  == IF is_empty(query) THEN << >> ELSE PageOf(ranking, 1, MAX_RESULTS)
                        passed  == page[r] * PAGE_SIZE
                    IN  /\ answer[r].next <= MAX_PAGE
                        /\ \A c \in ToSet(shown[r]) :
                              ToSet(query.negatives) \cap DOMAIN contentOf[c].words = {}
                        /\ steady[r] =>
                              /\ answer[r].total = Len(listed)
                              /\ shown[r] = SubSeq(listed, (asked[r].page - 1) * PAGE_SIZE + 1,
                                                           Min({passed, Len(listed)}))
                              /\ answer[r].next # 0 <=> passed < Len(listed)
  BY DEF SearchPagesAddUp
<1>1. PagesOf(rows, asked[r], page[r], pc[r], answer[r], shown[r], steady[r])
  BY DEF Pages, PagesSoFar
<1>2. answer[r].next <= MAX_PAGE
  BY <1>1, PagesFit DEF PagesOf
<1>3. ASSUME NEW c \in ToSet(shown[r])
      PROVE  Excluded(asked[r]) \cap DOMAIN contentOf[c].words = {}
  <2>1. shown[r] \in Seq(Clean(asked[r]))
    BY <1>1 DEF PagesOf
  <2>2. c \in Clean(asked[r])
    BY <2>1 DEF ToSet
  <2> QED BY <2>2 DEF Clean
<1>4. steady[r] => /\ answer[r].total = Len(Listed(rows, asked[r]))
                   /\ shown[r] = Through(Listed(rows, asked[r]), asked[r].page, page[r])
                   /\ answer[r].next # 0 <=> page[r] * PAGE_SIZE < Len(Listed(rows, asked[r]))
  BY <1>1 DEF PagesOf
<1> QED BY <1>2, <1>3, <1>4 DEF Listed, Through, Excluded

\* Following `next` shows a search's results once each, in their order, for any catalogs, page size,
\* queries and number of readers, whatever breaks meanwhile.
THEOREM PagesAddUp == Spec => []SearchPagesAddUp
<1>1. Init => Pages
  BY InitReasons, InitPages DEF Pages
<1>2. Pages /\ [Next]_vars => Pages'
  BY NextReasons, NextPages DEF Pages
<1> QED BY <1>1, <1>2, PagesAreRight, PTL DEF Spec
-----------------------------------------------------------------------------
(***************************************************************************)
(* What the admin screens list and count.                                  *)
(***************************************************************************)
LEMMA PageElements ==
  ASSUME NEW S, NEW list \in Seq(S), NEW n \in Nat \ {0}, NEW size \in Nat \ {0}
  PROVE  /\ DOMAIN PageOf(list, n, size) = {m \in 1..size : (n - 1) * size + m <= Len(list)}
         /\ \A m \in DOMAIN PageOf(list, n, size) :
               /\ (n - 1) * size + m \in 1..Len(list)
               /\ PageOf(list, n, size)[m] = list[(n - 1) * size + m]
<1> DEFINE x == (n - 1) * size
           k == Min({n * size, Len(list)})
<1>1. x \in Nat /\ n * size = x + size /\ Len(list) \in Nat
  OBVIOUS
<1>2. k \in Nat /\ k <= Len(list) /\ k <= x + size /\ (k = x + size \/ k = Len(list))
  BY <1>1, MinOfTwo
<1>3. PageOf(list, n, size) = SubSeq(list, x + 1, k)
  BY DEF PageOf
<1> HIDE DEF x, k
<1>4. \A i \in (x + 1)..k : list[i] \in S
  BY <1>1, <1>2
<1>5. /\ SubSeq(list, x + 1, k) \in Seq(S)
      /\ Len(SubSeq(list, x + 1, k)) = IF x + 1 <= k THEN k - (x + 1) + 1 ELSE 0
      /\ \A m \in 1..(k - (x + 1) + 1) : SubSeq(list, x + 1, k)[m] = list[(x + 1) + m - 1]
  <2>1. x + 1 \in Int /\ k \in Int
    BY <1>1, <1>2
  <2> QED BY <1>4, <2>1, SubSeqProperties
<1>6. DOMAIN SubSeq(list, x + 1, k) = 1..(k - x)
  BY <1>1, <1>2, <1>5
<1>7. 1..(k - x) = {m \in 1..size : x + m <= Len(list)}
  BY <1>1, <1>2
<1>8. \A m \in 1..(k - x) : x + m \in 1..Len(list) /\ SubSeq(list, x + 1, k)[m] = list[x + m]
  BY <1>1, <1>2, <1>5
<1> QED BY <1>3, <1>6, <1>7, <1>8 DEF x

\* A page and a place on it are one place of the list.
LEMMA OnePlace ==
  ASSUME NEW size \in Nat \ {0}, NEW n \in Nat \ {0}, NEW k \in Nat \ {0},
         NEW m \in 1..size, NEW l \in 1..size, (n - 1) * size + m = (k - 1) * size + l
  PROVE  n = k /\ m = l
<1>1. ASSUME NEW i \in Nat \ {0}, NEW j \in Nat \ {0}, i < j PROVE i * size <= (j - 1) * size
  BY <1>1
<1>2. (n - 1) * size + size = n * size /\ (k - 1) * size + size = k * size
  OBVIOUS
<1>3. n * size \in Nat /\ k * size \in Nat /\ (n - 1) * size \in Nat /\ (k - 1) * size \in Nat
  OBVIOUS
<1>4. ~ n < k
  BY <1>1, <1>2, <1>3
<1>5. ~ k < n
  BY <1>1, <1>2, <1>3
<1> QED BY <1>4, <1>5, <1>3

LEMMA SomePlace ==
  ASSUME NEW size \in Nat \ {0}, NEW i \in Nat \ {0}
  PROVE  \E n \in 1..i, m \in 1..size : (n - 1) * size + m = i
<1> DEFINE q == (i - 1) \div size
           r == (i - 1) % size
<1>1. i - 1 = size * q + r /\ q \in Nat /\ r \in 0..(size - 1)
  OBVIOUS
<1>2. q <= i - 1
  BY <1>1
<1> HIDE DEF q, r
<1>3. q + 1 \in 1..i /\ r + 1 \in 1..size /\ ((q + 1) - 1) * size + (r + 1) = i
  BY <1>1, <1>2
<1> QED BY <1>3

Placed(list, size, last) ==
    UNION {{<<n, m, PageOf(list, n, size)[m]>> : m \in DOMAIN PageOf(list, n, size)} : n \in 1..last}

\* Pages cut a list without loss or repetition.
LEMMA PlacedOnce ==
  ASSUME NEW S, NEW list \in Seq(S), NEW size \in Nat \ {0}, NEW last \in Nat, Len(list) <= last,
         \A i, j \in 1..Len(list) : list[i] = list[j] => i = j,
         \A c \in S : \E i \in 1..Len(list) : list[i] = c
  PROVE  /\ {place[3] : place \in Placed(list, size, last)} = S
         /\ \A one, other \in Placed(list, size, last) : one[3] = other[3] => one = other
<1> DEFINE spot(n, m) == (n - 1) * size + m
           page_(n)   == PageOf(list, n, size)
           placed     == Placed(list, size, last)
<1>1. ASSUME NEW n \in 1..last
      PROVE  /\ DOMAIN page_(n) = {m \in 1..size : spot(n, m) <= Len(list)}
             /\ \A m \in DOMAIN page_(n) : spot(n, m) \in 1..Len(list) /\ page_(n)[m] = list[spot(n, m)]
  <2>1. n \in Nat \ {0}
    OBVIOUS
  <2> QED BY <2>1, PageElements
<1>2. \A n, k \in 1..last, m, l \in 1..size : spot(n, m) = spot(k, l) => n = k /\ m = l
  <2>1. \A n \in 1..last : n \in Nat \ {0}
    OBVIOUS
  <2> QED BY <2>1, OnePlace
<1>3. \A i \in 1..Len(list) : \E n \in 1..last, m \in 1..size : spot(n, m) = i
  <2>1. SUFFICES ASSUME NEW i \in 1..Len(list)
                 PROVE  \E n \in 1..last, m \in 1..size : spot(n, m) = i
    OBVIOUS
  <2>2. i \in Nat \ {0} /\ i <= last
    OBVIOUS
  <2>3. PICK n \in 1..i, m \in 1..size : spot(n, m) = i
    BY <2>2, SomePlace
  <2>4. n \in 1..last
    BY <2>2
  <2> QED BY <2>3, <2>4
<1>4. placed = UNION {{<<n, m, page_(n)[m]>> : m \in DOMAIN page_(n)} : n \in 1..last}
  BY DEF Placed
<1> HIDE DEF spot, page_, placed
<1>5. ASSUME NEW place \in placed
      PROVE  \E n \in 1..last : \E m \in 1..size :
                /\ place = <<n, m, page_(n)[m]>> /\ m \in DOMAIN page_(n)
  <2>1. PICK n \in 1..last : place \in {<<n, m, page_(n)[m]>> : m \in DOMAIN page_(n)}
    BY <1>4
  <2>2. PICK m \in DOMAIN page_(n) : place = <<n, m, page_(n)[m]>>
    BY <2>1
  <2>3. m \in 1..size
    BY <1>1, <2>2
  <2> QED BY <2>2, <2>3
<1>6. ASSUME NEW place \in placed PROVE place[3] \in S
  <2>1. PICK n \in 1..last, m \in 1..size : place = <<n, m, page_(n)[m]>> /\ m \in DOMAIN page_(n)
    BY <1>5
  <2>2. spot(n, m) \in 1..Len(list) /\ place[3] = list[spot(n, m)]
    BY <1>1, <2>1
  <2> QED BY <2>2
<1>7. ASSUME NEW c \in S PROVE \E place \in placed : place[3] = c
  <2>1. PICK i \in 1..Len(list) : list[i] = c
    OBVIOUS
  <2>2. PICK n \in 1..last, m \in 1..size : spot(n, m) = i
    BY <1>3
  <2>3. m \in DOMAIN page_(n) /\ page_(n)[m] = c
    <3>1. m \in DOMAIN page_(n)
      <4>1. spot(n, m) <= Len(list)
        BY <2>2
      <4> QED BY <1>1, <4>1
    <3> QED BY <1>1, <2>1, <2>2, <3>1
  <2>4. <<n, m, page_(n)[m]>> \in placed
    BY <1>4, <2>3
  <2> QED BY <2>3, <2>4
<1>8. ASSUME NEW one \in placed, NEW other \in placed, one[3] = other[3] PROVE one = other
  <2>1. PICK n \in 1..last, m \in 1..size : one = <<n, m, page_(n)[m]>> /\ m \in DOMAIN page_(n)
    BY <1>5
  <2>2. PICK k \in 1..last, l \in 1..size : other = <<k, l, page_(k)[l]>> /\ l \in DOMAIN page_(k)
    BY <1>5
  <2>3. spot(n, m) \in 1..Len(list) /\ page_(n)[m] = list[spot(n, m)]
    BY <1>1, <2>1
  <2>4. spot(k, l) \in 1..Len(list) /\ page_(k)[l] = list[spot(k, l)]
    BY <1>1, <2>2
  <2>5. spot(n, m) = spot(k, l)
    BY <1>8, <2>1, <2>2, <2>3, <2>4
  <2> QED BY <1>2, <2>1, <2>2, <2>5
<1>9. {place[3] : place \in placed} = S
  BY <1>6, <1>7
<1> QED BY <1>8, <1>9 DEF placed

LEMMA KindsAreRanked ==
  ASSUME NEW c \in Catalogs
  PROVE  SortKind(c) \in Nat
<1> DEFINE ranks == {KIND_RANK[kind] : kind \in contentOf[c].kinds} \cup {6}
<1>1. ranks \in SUBSET Nat /\ ranks # {}
  BY AdminListsAssumption DEF KIND_RANK
<1>2. SortKind(c) = CHOOSE x \in ranks : \A y \in ranks : x <= y
  BY DEF SortKind, Min
<1> HIDE DEF ranks
<1>3. \E x \in ranks : \A y \in ranks : x <= y
  BY <1>1, LeastNumber
<1> QED BY <1>1, <1>2, <1>3

LEMMA KeysOfLists ==
  ASSUME NEW table \in [Catalogs -> Rows], NEW sort \in {"name", "-name", "kind", "status"}
  PROVE  \E L \in Nat : \A c \in Catalogs : /\ OrderKey(table, c, sort) \in Keys(L)
                                            /\ L # 0 /\ OrderKey(table, c, sort)[L] = c
<1>1. \A n, m, k \in Int : /\ <<n, m>> \in Keys(2) /\ <<n, m>>[2] = m
                           /\ <<n, m, k>> \in Keys(3) /\ <<n, m, k>>[3] = k
  BY DEF Keys
<1>2. ASSUME NEW c \in Catalogs
      PROVE  /\ c \in Int /\ contentOf[c].title \in Int /\ - contentOf[c].title \in Int
             /\ SortKind(c) \in Int /\ STATUS_RANK[table[c].status] \in Int
  <2>1. c \in Int /\ contentOf[c].title \in Int
    BY RegistryAssumption, AdminListsAssumption
  <2>2. table[c].status \in Statuses
    BY DEF Rows
  <2>3. STATUS_RANK[table[c].status] \in Int
    BY <2>2 DEF Statuses, STATUS_RANK
  <2> QED BY <2>1, <2>3, KindsAreRanked
<1>3. CASE sort \in {"name", "-name"}
  <2>1. \A c \in Catalogs : OrderKey(table, c, sort) \in Keys(2) /\ OrderKey(table, c, sort)[2] = c
    BY <1>1, <1>2, <1>3 DEF OrderKey
  <2> QED BY <2>1
<1>4. CASE sort \in {"kind", "status"}
  <2>1. \A c \in Catalogs : OrderKey(table, c, sort) \in Keys(3) /\ OrderKey(table, c, sort)[3] = c
    BY <1>1, <1>2, <1>4 DEF OrderKey
  <2> QED BY <2>1
<1> QED BY <1>3, <1>4

LEMMA ListsHoldEach ==
  ASSUME rows \in [Catalogs -> Rows], NEW query, query.sort \in {"name", "-name", "kind", "status"},
         NEW found, NEW size \in Nat \ {0}
  PROVE  PagesHoldEach(query, found, size)
<1> DEFINE matched == Matched(rows, query, found)
           last    == Cardinality(Catalogs) + 1
           key     == [c \in matched |-> OrderKey(rows, c, query.sort)]
           list    == OrderBy(matched, key)
           part(n) == fetch_admin_catalogs(rows, query, found, n, size)
           placed  == Placed(list, size, last)
<1>1. matched \in SUBSET Catalogs
  BY DEF Matched, HasStatus
<1>2. /\ IsFiniteSet(matched) /\ Cardinality(matched) \in Nat /\ Cardinality(Catalogs) \in Nat
      /\ Cardinality(matched) <= Cardinality(Catalogs)
  BY <1>1, RegistryAssumption, FS_Subset, FS_CardinalityType
<1>3. PICK L \in Nat : \A c \in Catalogs : /\ OrderKey(rows, c, query.sort) \in Keys(L)
                                           /\ L # 0 /\ OrderKey(rows, c, query.sort)[L] = c
  BY KeysOfLists
<1>4. \A c \in matched : key[c] \in Keys(L) /\ key[c][L] = c
  BY <1>1, <1>3
<1>5. \A n : part(n).total = Cardinality(matched) /\ part(n).rows = PageOf(list, n, size)
  BY DEF fetch_admin_catalogs
<1> HIDE DEF matched, key, list, part
<1>6. /\ list \in [1..Cardinality(matched) -> matched]
      /\ \A n, m \in 1..Cardinality(matched) : list[n] = list[m] => n = m
      /\ \A c \in matched : \E n \in 1..Cardinality(matched) : list[n] = c
  <2>1. \A c, d \in matched : key[c] = key[d] => c = d
    BY <1>4
  <2>2. /\ OrderBy(matched, key) \in [1..Cardinality(matched) -> matched]
        /\ \A n, m \in 1..Cardinality(matched) :
              OrderBy(matched, key)[n] = OrderBy(matched, key)[m] => n = m
        /\ \A c \in matched : \E n \in 1..Cardinality(matched) : OrderBy(matched, key)[n] = c
    BY <1>2, <1>4, <2>1, Ordered
  <2> QED BY <2>2 DEF list
<1>7. list \in Seq(matched) /\ Len(list) = Cardinality(matched)
  BY <1>2, <1>6
<1>8. last \in Nat /\ Len(list) <= last
  BY <1>2, <1>7
<1> HIDE DEF last, placed
<1>9. /\ {place[3] : place \in placed} = matched
      /\ \A one, other \in placed : one[3] = other[3] => one = other
  <2>1. /\ \A i, j \in 1..Len(list) : list[i] = list[j] => i = j
        /\ \A c \in matched : \E i \in 1..Len(list) : list[i] = c
    BY <1>6, <1>7
  <2> QED BY <1>7, <1>8, <2>1, PlacedOnce DEF placed
<1>10. placed = UNION {{<<n, m, part(n).rows[m]>> : m \in DOMAIN part(n).rows} : n \in 1..last}
  BY <1>5 DEF placed, Placed
<1> QED BY <1>5, <1>9, <1>10 DEF PagesHoldEach, matched, last, part

\* A filter that is not given lets everything pass; the others are what they say.
LEMMA Filtered ==
  ASSUME NEW table, NEW query, NEW found,
         query.words = {}, query.kinds = {}, query.coverages = {}, query.types = {}
  PROVE  Matched(table, query, found)
            = {c \in Catalogs :
                  /\ table[c].status \in IF query.statuses = {} THEN {"published"} ELSE query.statuses
                  /\ query.countries = {} \/ contentOf[c].country \in query.countries
                  /\ query.languages = {} \/ query.languages \cap contentOf[c].languages # {}
                  /\ query.recommended = {} \/ table[c].recommended \in query.recommended}
  BY DEF Matched, HasStatus, DEFAULT_STATUSES

LEMMA Unasked ==
  /\ Unfiltered.words = {} /\ Unfiltered.kinds = {} /\ Unfiltered.coverages = {}
  /\ Unfiltered.types = {} /\ Unfiltered.statuses = {} /\ Unfiltered.countries = {}
  /\ Unfiltered.languages = {} /\ Unfiltered.recommended = {}
  BY DEF Unfiltered

LEMMA TotalIsMatched ==
  \A table, query, found, n, size :
     fetch_admin_catalogs(table, query, found, n, size).total = Cardinality(Matched(table, query, found))
  BY DEF fetch_admin_catalogs

Recommended == {c \in Catalogs : rows[c].status = "published" /\ rows[c].recommended}

LEMMA CountryCounts ==
  ASSUME rows \in [Catalogs -> Rows], NEW k, NEW found
  PROVE  /\ Cardinality(Matched(rows, [Unfiltered EXCEPT !.countries = {k}], found))
               = PublishedIn(rows, k)
         /\ fetch_admin_country(rows, k).kpis.by_status["published"] = PublishedIn(rows, k)
         /\ fetch_admin_country(rows, k).kpis.recommended
               = Cardinality(Matched(rows, [Unfiltered EXCEPT !.countries = {k},
                                                              !.recommended = {TRUE}], found))
<1> DEFINE in    == [Unfiltered EXCEPT !.countries = {k}]
           inRec == [Unfiltered EXCEPT !.countries = {k}, !.recommended = {TRUE}]
<1>1. /\ in.words = {} /\ in.kinds = {} /\ in.coverages = {} /\ in.types = {} /\ in.statuses = {}
      /\ in.countries = {k} /\ in.languages = {} /\ in.recommended = {}
  BY DEF Unfiltered
<1>2. /\ inRec.words = {} /\ inRec.kinds = {} /\ inRec.coverages = {} /\ inRec.types = {}
      /\ inRec.statuses = {} /\ inRec.countries = {k} /\ inRec.languages = {}
  BY DEF Unfiltered
<1>r. inRec.recommended = {TRUE}
  BY DEF Unfiltered
<1> HIDE DEF in, inRec
<1>3. Matched(rows, in, found) = {c \in Located(k) : rows[c].status = "published"}
  BY <1>1, Filtered DEF Located
<1>4. Matched(rows, inRec, found)
         = {c \in Located(k) : rows[c].status = "published" /\ rows[c].recommended}
  <2>1. \A c \in Catalogs : rows[c].recommended \in {TRUE} <=> rows[c].recommended
    BY DEF Rows
  <2>2. \A c \in Catalogs : inRec.recommended = {} \/ rows[c].recommended \in inRec.recommended
                              <=> rows[c].recommended
    BY <1>r, <2>1
  <2>3. Matched(rows, inRec, found)
           = {c \in Catalogs :
                 /\ rows[c].status \in {"published"} /\ contentOf[c].country \in {k}
                 /\ inRec.recommended = {} \/ rows[c].recommended \in inRec.recommended}
    BY <1>2, Filtered
  <2> QED BY <2>2, <2>3 DEF Located
<1>5. /\ fetch_admin_country(rows, k).kpis.by_status["published"]
            = Cardinality({c \in Located(k) : rows[c].status = "published"})
      /\ fetch_admin_country(rows, k).kpis.recommended
            = Cardinality({c \in Located(k) : rows[c].status = "published" /\ rows[c].recommended})
  <2>1. fetch_admin_country(rows, k).kpis = Counts(rows, Located(k))
    BY DEF fetch_admin_country
  <2> QED BY <2>1 DEF Counts, Statuses
<1> QED BY <1>3, <1>4, <1>5 DEF PublishedIn, in, inRec

LEMMA StatisticsCount ==
  ASSUME rows \in [Catalogs -> Rows], NEW found
  PROVE  /\ \A status \in Statuses :
               fetch_admin_stats(rows).by_status[status]
                  = Cardinality(Matched(rows, [Unfiltered EXCEPT !.statuses = {status}], found))
         /\ fetch_admin_stats(rows).recommended
               = Cardinality(Matched(rows, [Unfiltered EXCEPT !.recommended = {TRUE}], found))
<1>1. fetch_admin_stats(rows)
         = [by_status   |-> [status \in Statuses |->
                               Cardinality({c \in Catalogs : rows[c].status = status})],
            recommended |-> Cardinality({c \in Catalogs : /\ rows[c].status = "published"
                                                          /\ rows[c].recommended})]
  BY DEF fetch_admin_stats, Counts
<1>2. ASSUME NEW status \in Statuses
      PROVE  Matched(rows, [Unfiltered EXCEPT !.statuses = {status}], found)
                = {c \in Catalogs : rows[c].status = status}
  <2> DEFINE query == [Unfiltered EXCEPT !.statuses = {status}]
  <2>1. /\ query.words = {} /\ query.kinds = {} /\ query.coverages = {} /\ query.types = {}
        /\ query.statuses = {status} /\ query.countries = {} /\ query.languages = {}
        /\ query.recommended = {}
    BY DEF Unfiltered
  <2> HIDE DEF query
  <2>2. Matched(rows, query, found) = {c \in Catalogs : rows[c].status = status}
    BY <2>1, Filtered
  <2> QED BY <2>2 DEF query
<1>3. Matched(rows, [Unfiltered EXCEPT !.recommended = {TRUE}], found)
         = {c \in Catalogs : rows[c].status = "published" /\ rows[c].recommended}
  <2> DEFINE query == [Unfiltered EXCEPT !.recommended = {TRUE}]
  <2>1. /\ query.words = {} /\ query.kinds = {} /\ query.coverages = {} /\ query.types = {}
        /\ query.statuses = {} /\ query.countries = {} /\ query.languages = {}
    BY DEF Unfiltered
  <2>r. query.recommended = {TRUE}
    BY DEF Unfiltered
  <2> HIDE DEF query
  <2>2. \A c \in Catalogs : rows[c].recommended \in {TRUE} <=> rows[c].recommended
    BY DEF Rows
  <2>3. Matched(rows, query, found)
           = {c \in Catalogs : rows[c].status = "published" /\ rows[c].recommended}
    <3>1. \A c \in Catalogs : query.recommended = {} \/ rows[c].recommended \in query.recommended
                                <=> rows[c].recommended
      BY <2>r, <2>2
    <3>2. Matched(rows, query, found)
             = {c \in Catalogs :
                   /\ rows[c].status \in {"published"}
                   /\ query.recommended = {} \/ rows[c].recommended \in query.recommended}
      BY <2>1, Filtered
    <3> QED BY <3>1, <3>2
  <2> QED BY <2>3 DEF query
<1>4. /\ \A status \in Statuses : fetch_admin_stats(rows).by_status[status]
                                    = Cardinality({c \in Catalogs : rows[c].status = status})
      /\ fetch_admin_stats(rows).recommended
            = Cardinality({c \in Catalogs : rows[c].status = "published" /\ rows[c].recommended})
  BY <1>1
<1> QED BY <1>2, <1>3, <1>4

LEMMA OptionsCount ==
  ASSUME rows \in [Catalogs -> Rows], NEW found
  PROVE  /\ \A k \in DOMAIN fetch_used_places.countries :
               fetch_used_places.countries[k]
                  = Cardinality(Matched(rows, [Unfiltered EXCEPT !.countries = {k},
                                                                 !.statuses = Statuses], found))
         /\ \A tag \in DOMAIN fetch_used_places.languages :
               fetch_used_places.languages[tag]
                  = Cardinality(Matched(rows, [Unfiltered EXCEPT !.languages = {tag},
                                                                 !.statuses = Statuses], found))
<1>0. \A c \in Catalogs : rows[c].status \in Statuses
  BY DEF Rows
<1>1. ASSUME NEW k
      PROVE  Matched(rows, [Unfiltered EXCEPT !.countries = {k}, !.statuses = Statuses], found)
                = {c \in Catalogs : contentOf[c].country = k}
  <2> DEFINE query == [Unfiltered EXCEPT !.countries = {k}, !.statuses = Statuses]
  <2>1. /\ query.words = {} /\ query.kinds = {} /\ query.coverages = {} /\ query.types = {}
        /\ query.statuses = Statuses /\ query.countries = {k} /\ query.languages = {}
        /\ query.recommended = {}
    BY DEF Unfiltered
  <2> HIDE DEF query
  <2>2. Matched(rows, query, found) = {c \in Catalogs : contentOf[c].country = k}
    BY <1>0, <2>1, Filtered
  <2> QED BY <2>2 DEF query
<1>2. ASSUME NEW tag
      PROVE  Matched(rows, [Unfiltered EXCEPT !.languages = {tag}, !.statuses = Statuses], found)
                = {c \in Catalogs : tag \in contentOf[c].languages}
  <2> DEFINE query == [Unfiltered EXCEPT !.languages = {tag}, !.statuses = Statuses]
  <2>1. /\ query.words = {} /\ query.kinds = {} /\ query.coverages = {} /\ query.types = {}
        /\ query.statuses = Statuses /\ query.countries = {} /\ query.languages = {tag}
        /\ query.recommended = {}
    BY DEF Unfiltered
  <2> HIDE DEF query
  <2>2. Matched(rows, query, found) = {c \in Catalogs : tag \in contentOf[c].languages}
    BY <1>0, <2>1, Filtered
  <2> QED BY <2>2 DEF query
<1> QED BY <1>1, <1>2 DEF fetch_used_places

LEMMA CountsAgree == rows \in [Catalogs -> Rows] => CountsMatchLists
<1> SUFFICES ASSUME rows \in [Catalogs -> Rows], NEW found
             PROVE  LET total(query) == fetch_admin_catalogs(rows, query, found, 1, 1).total
                        stats        == fetch_admin_stats(rows)
                        places       == fetch_used_places
                        countries    == fetch_admin_countries(rows, Countries, 1, Cardinality(Countries))
                    IN  /\ \A n \in DOMAIN countries.rows :
                              LET k == countries.rows[n].code
                              IN  /\ countries.rows[n].published
                                        = total([Unfiltered EXCEPT !.countries = {k}])
                                  /\ countries.rows[n].published
                                        = fetch_admin_country(rows, k).kpis.by_status["published"]
                                  /\ fetch_admin_country(rows, k).kpis.recommended
                                        = total([Unfiltered EXCEPT !.countries = {k},
                                                                   !.recommended = {TRUE}])
                        /\ \A status \in Statuses :
                              stats.by_status[status] = total([Unfiltered EXCEPT !.statuses = {status}])
                        /\ stats.recommended = total([Unfiltered EXCEPT !.recommended = {TRUE}])
                        /\ \A k \in DOMAIN places.countries :
                              places.countries[k] = total([Unfiltered EXCEPT !.countries = {k},
                                                                             !.statuses = Statuses])
                        /\ \A tag \in DOMAIN places.languages :
                              places.languages[tag] = total([Unfiltered EXCEPT !.languages = {tag},
                                                                               !.statuses = Statuses])
                        /\ \A query \in AdminQueries, size \in 1..3 :
                              PagesHoldEach(query, found, size)
  BY DEF CountsMatchLists
<1> DEFINE countries == fetch_admin_countries(rows, Countries, 1, Cardinality(Countries))
<1>1. ASSUME NEW n \in DOMAIN countries.rows
      PROVE  countries.rows[n].published = PublishedIn(rows, countries.rows[n].code)
  BY DEF fetch_admin_countries
<1>2. \A query \in AdminQueries, size \in 1..3 : PagesHoldEach(query, found, size)
  BY ListsHoldEach, ReadServiceAssumption
<1> HIDE DEF countries
<1>3. ASSUME NEW n \in DOMAIN countries.rows, NEW k, k = countries.rows[n].code
      PROVE  /\ countries.rows[n].published
                    = Cardinality(Matched(rows, [Unfiltered EXCEPT !.countries = {k}], found))
             /\ countries.rows[n].published
                    = fetch_admin_country(rows, k).kpis.by_status["published"]
             /\ fetch_admin_country(rows, k).kpis.recommended
                    = Cardinality(Matched(rows, [Unfiltered EXCEPT !.countries = {k},
                                                                   !.recommended = {TRUE}], found))
  BY <1>1, <1>3, CountryCounts
<1>4. \A query : fetch_admin_catalogs(rows, query, found, 1, 1).total
                    = Cardinality(Matched(rows, query, found))
  BY TotalIsMatched
<1> DEFINE total(query) == fetch_admin_catalogs(rows, query, found, 1, 1).total
<1>5. \A n \in DOMAIN countries.rows :
         LET k == countries.rows[n].code
         IN  /\ countries.rows[n].published = total([Unfiltered EXCEPT !.countries = {k}])
             /\ countries.rows[n].published
                   = fetch_admin_country(rows, k).kpis.by_status["published"]
             /\ fetch_admin_country(rows, k).kpis.recommended
                   = total([Unfiltered EXCEPT !.countries = {k}, !.recommended = {TRUE}])
  BY <1>3, <1>4
<1>6. /\ \A status \in Statuses :
            fetch_admin_stats(rows).by_status[status]
               = total([Unfiltered EXCEPT !.statuses = {status}])
      /\ fetch_admin_stats(rows).recommended = total([Unfiltered EXCEPT !.recommended = {TRUE}])
  BY <1>4, StatisticsCount
<1>7. /\ \A k \in DOMAIN fetch_used_places.countries :
            fetch_used_places.countries[k]
               = total([Unfiltered EXCEPT !.countries = {k}, !.statuses = Statuses])
      /\ \A tag \in DOMAIN fetch_used_places.languages :
            fetch_used_places.languages[tag]
               = total([Unfiltered EXCEPT !.languages = {tag}, !.statuses = Statuses])
  BY <1>4, OptionsCount
<1> QED BY <1>2, <1>5, <1>6, <1>7 DEF countries

\* What the admin screens count is what they list, for any catalogs, countries and lists, and a list's
\* pages hold each of its catalogs once.
THEOREM CountsAreLists == Spec => []CountsMatchLists
<1>1. Init => rows \in [Catalogs -> Rows]
  BY ReadServiceAssumption DEF Init
<1>2. rows \in [Catalogs -> Rows] /\ [Next]_vars => (rows \in [Catalogs -> Rows])'
  <2> SUFFICES ASSUME rows \in [Catalogs -> Rows], [Next]_vars PROVE rows' \in [Catalogs -> Rows]
    OBVIOUS
  <2>1. ASSUME NEW c \in Catalogs, Edit(c) PROVE rows' \in [Catalogs -> Rows]
    <3>1. CASE \E action \in TRANSITION_ACTIONS : \E to \in Targets(rows[c].status, action) :
                  rows' = [rows EXCEPT ![c].status = to]
      <4>1. PICK to \in Statuses : rows' = [rows EXCEPT ![c] = [rows[c] EXCEPT !.status = to]]
        BY <3>1 DEF Targets
      <4>2. [rows[c] EXCEPT !.status = to] \in Rows
        BY DEF Rows
      <4> QED BY <4>1, <4>2
    <3>2. CASE rows' = [rows EXCEPT ![c].recommended = ~ @]
      <4>1. rows' = [rows EXCEPT ![c] = [rows[c] EXCEPT !.recommended = ~ rows[c].recommended]]
        BY <3>2
      <4>2. [rows[c] EXCEPT !.recommended = ~ rows[c].recommended] \in Rows
        BY DEF Rows
      <4> QED BY <4>1, <4>2
    <3> QED BY <2>1, <3>1, <3>2 DEF Edit
  <2>2. CASE UNCHANGED rows
    BY <2>2
  <2> QED BY <2>1, <2>2 DEF Next, vars, Ask, Follow, Send, Serve, Checkout, FailToConnect, WaitInVain,
                            Execute, TimeOut, Disconnect, DropIdle, DropAll, ComeBack, Recycle
<1> QED BY <1>1, <1>2, CountsAgree, PTL DEF Spec

-----------------------------------------------------------------------------
(***************************************************************************)
(* The feed.  A list in the order of some keys is the only one that is     *)
(* (OneOrder), and parts and stable sorts of such lists are again in an    *)
(* order (KeptInOrder, SortedPlaces).  A header is read as its elements,   *)
(* best-liked first (Parsed); so the first range that meets a catalog is   *)
(* its favourite, as close as the property says (MatchIsFirst), and        *)
(* sorting by rank, then age, puts the catalogs where the client wants     *)
(* them (RanksAreWanted).                                                  *)
(***************************************************************************)
\* A list holds a set, each element once; and in the order of its keys.
Lists(f, S) ==
    /\ f \in [1..Cardinality(S) -> S]
    /\ \A n, m \in 1..Cardinality(S) : f[n] = f[m] => n = m
    /\ \A c \in S : \E n \in 1..Cardinality(S) : f[n] = c

InOrder(f, S, key) ==
    /\ Lists(f, S)
    /\ \A n, m \in 1..Cardinality(S) : n < m => LexLess(key[f[n]], key[f[m]])

KeysOf(S, key, L) == (\A c \in S : key[c] \in Keys(L)) /\ (\A c, d \in S : key[c] = key[d] => c = d)

LEMMA OrderByInOrder ==
  ASSUME NEW S, IsFiniteSet(S), NEW key, NEW L \in Nat, KeysOf(S, key, L)
  PROVE  InOrder(OrderBy(S, key), S, key)
BY Ordered DEF KeysOf, InOrder, Lists

\* A row's place is the number of those before it.
LEMMA PlaceCounts ==
  ASSUME NEW S, IsFiniteSet(S), NEW key, NEW L \in Nat, KeysOf(S, key, L), NEW f, InOrder(f, S, key),
         NEW n \in 1..Cardinality(S)
  PROVE  Cardinality({c \in S : LexLess(key[c], key[f[n]])}) = n - 1
<1> DEFINE before == {c \in S : LexLess(key[c], key[f[n]])}
           N      == Cardinality(S)
           first  == [m \in 1..(n - 1) |-> f[m]]
<1>1. N \in Nat
  BY FS_CardinalityType
<1>2. ASSUME NEW m \in 1..N PROVE f[m] \in S /\ key[f[m]] \in Keys(L)
  BY DEF InOrder, Lists, KeysOf
<1>3. ASSUME NEW m \in 1..N, LexLess(key[f[m]], key[f[n]]) PROVE m < n
  <2>1. CASE m = n
    BY <1>2, <1>3, <2>1, KeyNotBeforeItself
  <2>2. CASE n < m
    <3>1. LexLess(key[f[n]], key[f[m]])
      BY <1>1, <2>2 DEF InOrder
    <3>2. LexLess(key[f[n]], key[f[n]])
      BY <1>2, <1>3, <3>1, KeysChain
    <3> QED BY <1>2, <3>2, KeyNotBeforeItself
  <2> QED BY <1>1, <2>1, <2>2
<1>4. ASSUME NEW m \in 1..(n - 1) PROVE m \in 1..N /\ f[m] \in before
  BY <1>1, <1>2 DEF InOrder
<1>5. ASSUME NEW c \in before PROVE \E m \in 1..(n - 1) : f[m] = c
  <2>1. PICK m \in 1..N : f[m] = c
    BY DEF InOrder, Lists
  <2>2. m < n
    BY <1>3, <1>5, <2>1
  <2> QED BY <1>1, <2>1, <2>2
<1>6. ASSUME NEW m \in 1..(n - 1), NEW l \in 1..(n - 1), f[m] = f[l] PROVE m = l
  BY <1>4, <1>6 DEF InOrder, Lists
<1> HIDE DEF before
<1>7. first \in Bijection(1..(n - 1), before)
  BY <1>4, <1>5, <1>6 DEF Bijection, Injection, Surjection, IsInjective
<1>8. ExistsBijection(1..(n - 1), before)
  BY <1>7 DEF ExistsBijection
<1>9. IsFiniteSet(1..(n - 1)) /\ Cardinality(1..(n - 1)) = n - 1
  <2>1. n \in Nat \ {0} /\ n - 1 \in Int
    BY <1>1
  <2>2. /\ IsFiniteSet(1..(n - 1))
        /\ Cardinality(1..(n - 1)) = IF 1 > n - 1 THEN 0 ELSE (n - 1) - 1 + 1
    BY <2>1, FS_Interval
  <2> QED BY <2>1, <2>2
<1> QED BY <1>8, <1>9, FS_Bijection DEF before

\* There is one list in the order of some keys.
LEMMA OneOrder ==
  ASSUME NEW S, IsFiniteSet(S), NEW key, NEW L \in Nat, KeysOf(S, key, L), NEW f, InOrder(f, S, key)
  PROVE  f = OrderBy(S, key)
<1> DEFINE g == OrderBy(S, key)
           N == Cardinality(S)
           place(c) == Cardinality({d \in S : LexLess(key[d], key[c])})
<1>1. InOrder(g, S, key) /\ N \in Nat
  BY OrderByInOrder, FS_CardinalityType
<1> HIDE DEF g
<1>2. ASSUME NEW n \in 1..N PROVE f[n] = g[n]
  <2>1. f[n] \in S
    BY DEF InOrder, Lists
  <2>2. PICK m \in 1..N : g[m] = f[n]
    BY <1>1, <2>1 DEF InOrder, Lists
  <2>3. place(f[n]) = n - 1
    BY PlaceCounts
  <2>4. place(g[m]) = m - 1
    BY <1>1, PlaceCounts
  <2> HIDE DEF place
  <2>5. n - 1 = m - 1
    BY <2>2, <2>3, <2>4
  <2>6. n = m
    BY <1>1, <2>5
  <2> QED BY <2>2, <2>6
<1>3. f \in [1..N -> S] /\ g \in [1..N -> S]
  BY <1>1 DEF InOrder, Lists
<1>4. f = g
  <2>1. \A n \in 1..N : f[n] = g[n]
    BY <1>2
  <2> DEFINE places == 1..N
  <2>2. f \in [places -> S] /\ g \in [places -> S] /\ \A n \in places : f[n] = g[n]
    BY <1>3, <2>1
  <2> HIDE DEF places
  <2> QED BY <2>2
<1> QED BY <1>4 DEF g

LEMMA ListsAll ==
  ASSUME NEW f, NEW S, Lists(f, S)
  PROVE  ToSet(f) = S /\ IsInjective(f) /\ DOMAIN f = 1..Cardinality(S)
BY DEF Lists, ToSet, IsInjective

LEMMA Sizes ==
  ASSUME NEW N \in Nat, NEW P, P \subseteq 1..N
  PROVE  IsFiniteSet(P) /\ Cardinality(P) \in Nat /\ IsFiniteSet(1..N) /\ Cardinality(1..N) = N
<1>1. IsFiniteSet(1..N) /\ Cardinality(1..N) = IF 1 > N THEN 0 ELSE N - 1 + 1
  BY FS_Interval
<1>2. IsFiniteSet(P)
  BY <1>1, FS_Subset
<1>3. Cardinality(P) \in Nat
  BY <1>2, FS_CardinalityType
<1>4. (IF 1 > N THEN 0 ELSE N - 1 + 1) = N
  OBVIOUS
<1> QED BY <1>1, <1>2, <1>3, <1>4

\* The places of a list in their own order.
LEMMA PlacesInOrder ==
  ASSUME NEW N \in Nat, NEW P, P \subseteq 1..N
  PROVE  /\ Lists(OrderBy(P, [n \in P |-> <<n>>]), P)
         /\ \A k, l \in 1..Cardinality(P) :
               k < l => OrderBy(P, [n \in P |-> <<n>>])[k] < OrderBy(P, [n \in P |-> <<n>>])[l]
<1> DEFINE key == [n \in P |-> <<n>>]
           order == OrderBy(P, key)
<1>1. \A n \in P : n \in Int /\ key[n] = <<n>> /\ key[n] \in Keys(1)
  BY DEF Keys
<1>2. KeysOf(P, key, 1)
  BY <1>1 DEF KeysOf
<1>3. \A n, m \in P : LexLess(key[n], key[m]) => n < m
  BY <1>1 DEF LexLess
<1>4. IsFiniteSet(P)
  BY Sizes
<1> HIDE DEF key
<1>5. InOrder(order, P, key)
  BY <1>2, <1>4, OrderByInOrder
<1> HIDE DEF order
<1>6. \A k \in 1..Cardinality(P) : order[k] \in P
  BY <1>5 DEF InOrder, Lists
<1>7. Lists(order, P) /\ \A k, l \in 1..Cardinality(P) : k < l => order[k] < order[l]
  BY <1>3, <1>5, <1>6 DEF InOrder
<1> QED BY <1>7 DEF order, key

\* A part of a list in order is in order.
LEMMA KeptInOrder ==
  ASSUME NEW S, IsFiniteSet(S), NEW key, NEW f, InOrder(f, S, key),
         NEW P, P \subseteq 1..Cardinality(S)
  PROVE  InOrder(Kept(f, P), {f[n] : n \in P}, key)
<1> DEFINE N == Cardinality(S)
           order == OrderBy(P, [n \in P |-> <<n>>])
           T == {f[n] : n \in P}
           K == Cardinality(P)
           kept == Kept(f, P)
<1>1. N \in Nat
  BY FS_CardinalityType
<1>2. K \in Nat /\ IsFiniteSet(P)
  BY <1>1, Sizes
<1>3. Lists(order, P) /\ \A k, l \in 1..K : k < l => order[k] < order[l]
  BY <1>1, PlacesInOrder
<1>4. Cardinality(T) = K
  <2> DEFINE pick == [n \in P |-> f[n]]
  <2>1. pick \in Bijection(P, T)
    BY DEF InOrder, Lists, Bijection, Injection, Surjection, IsInjective
  <2>2. ExistsBijection(P, T)
    BY <2>1 DEF ExistsBijection
  <2> HIDE DEF T
  <2> QED BY <1>2, <2>2, FS_Bijection
<1>5. kept = [k \in 1..K |-> f[order[k]]]
  BY DEF Kept
<1> HIDE DEF order, kept
<1>6. \A k \in 1..K : order[k] \in P /\ order[k] \in 1..N
  BY <1>3 DEF Lists
<1>7. kept \in [1..K -> T]
  BY <1>5, <1>6
<1>8. ASSUME NEW k \in 1..K, NEW l \in 1..K, kept[k] = kept[l] PROVE k = l
  <2>1. order[k] = order[l]
    BY <1>5, <1>6, <1>8 DEF InOrder, Lists
  <2> QED BY <1>3, <2>1 DEF Lists
<1>9. ASSUME NEW c \in T PROVE \E k \in 1..K : kept[k] = c
  <2>1. PICK n \in P : f[n] = c
    OBVIOUS
  <2>2. PICK k \in 1..K : order[k] = n
    BY <1>3 DEF Lists
  <2> QED BY <1>5, <2>1, <2>2
<1>10. ASSUME NEW k \in 1..K, NEW l \in 1..K, k < l PROVE LexLess(key[kept[k]], key[kept[l]])
  BY <1>3, <1>5, <1>6, <1>10 DEF InOrder
<1> HIDE DEF T, K
<1>11. InOrder(kept, T, key)
  BY <1>4, <1>7, <1>8, <1>9, <1>10 DEF InOrder, Lists
<1> QED BY <1>11 DEF kept, T

LEMMA FilteredInOrder ==
  ASSUME NEW S, IsFiniteSet(S), NEW key, NEW f, InOrder(f, S, key),
         NEW P, P \subseteq 1..Cardinality(S), NEW T,
         \A n \in 1..Cardinality(S) : n \in P <=> f[n] \in T
  PROVE  InOrder(Kept(f, P), S \cap T, key)
<1> DEFINE kept == {f[n] : n \in P}
<1>1. kept = S \cap T
  BY DEF InOrder, Lists
<1>2. InOrder(Kept(f, P), kept, key)
  BY KeptInOrder
<1> HIDE DEF kept
<1> QED BY <1>1, <1>2

LEMMA IntervalPlaces ==
  ASSUME NEW N \in Nat
  PROVE  IsFiniteSet(1..N) /\ Cardinality(1..N) = N
BY Sizes

\* What order the elements of a list take when it is sorted by keys of its places.
Places(order, N, list, key) ==
    /\ Lists(order, 1..N)
    /\ SortedBy(list, key) = [n \in 1..N |-> list[order[n]]]
    /\ \A n, m \in 1..N :
          n < m => LexLess(Append(key[order[n]], order[n]), Append(key[order[m]], order[m]))

\* A stable sort puts the places of a list in the order of their keys, and of themselves.
LEMMA SortedPlaces ==
  ASSUME NEW N \in Nat, NEW list, DOMAIN list = 1..N, NEW key, NEW L \in Nat,
         \A n \in 1..N : key[n] \in Keys(L)
  PROVE  \E order : Places(order, N, list, key)
<1> DEFINE places == 1..N
           own   == [n \in places |-> Append(key[n], n)]
           order == OrderBy(places, own)
<1>1. IsFiniteSet(places) /\ Cardinality(places) = N
  BY IntervalPlaces
<1>2. ASSUME NEW n \in places
      PROVE  own[n] = Append(key[n], n) /\ own[n] \in Keys(L + 1) /\ own[n][L + 1] = n
  <2>1. n \in Int /\ key[n] \in Seq(Int) /\ Len(key[n]) = L
    BY DEF Keys
  <2>2. own[n] = Append(key[n], n)
    OBVIOUS
  <2>3. Append(key[n], n) \in Seq(Int) /\ Len(Append(key[n], n)) = L + 1 /\ Append(key[n], n)[L + 1] = n
    BY <2>1, AppendProperties
  <2>4. Append(key[n], n) \in Keys(L + 1)
    BY <2>3 DEF Keys
  <2> HIDE DEF own
  <2> QED BY <2>2, <2>3, <2>4
<1>3. KeysOf(places, own, L + 1)
  BY <1>2 DEF KeysOf
<1>4. SortedBy(list, key) = [n \in places |-> list[order[n]]]
  BY DEF SortedBy
<1> HIDE DEF own
<1>5. InOrder(order, places, own)
  BY <1>1, <1>3, OrderByInOrder
<1> HIDE DEF order
<1>6. \A n \in places : order[n] \in places
  BY <1>1, <1>5 DEF InOrder, Lists
<1>7. \A n, m \in places : n < m => LexLess(own[order[n]], own[order[m]])
  BY <1>1, <1>5 DEF InOrder
<1>8. Lists(order, places)
  BY <1>5 DEF InOrder
<1>9. ASSUME NEW n \in 1..N, NEW m \in 1..N, n < m
      PROVE  LexLess(Append(key[order[n]], order[n]), Append(key[order[m]], order[m]))
  BY <1>2, <1>6, <1>7, <1>9
<1> WITNESS order
<1> QED BY <1>4, <1>8, <1>9 DEF Places

LEMMA ListsOfPlaces ==
  ASSUME NEW S, IsFiniteSet(S), NEW f, Lists(f, S), NEW order, Lists(order, 1..Cardinality(S))
  PROVE  /\ Lists([n \in 1..Cardinality(S) |-> f[order[n]]], S)
         /\ \A n \in 1..Cardinality(S) : order[n] \in 1..Cardinality(S)
<1> DEFINE N == Cardinality(S)
           list == [n \in 1..N |-> f[order[n]]]
<1>1. N \in Nat /\ Cardinality(1..N) = N
  BY FS_CardinalityType, IntervalPlaces
<1>2. /\ order \in [1..N -> 1..N] /\ \A n, m \in 1..N : order[n] = order[m] => n = m
      /\ \A k \in 1..N : \E n \in 1..N : order[n] = k
  BY <1>1 DEF Lists
<1>3. list \in [1..N -> S] /\ \A n, m \in 1..N : list[n] = list[m] => n = m
  BY <1>2 DEF Lists
<1>4. ASSUME NEW c \in S PROVE \E n \in 1..N : list[n] = c
  <2>1. PICK k \in 1..N : f[k] = c
    BY DEF Lists
  <2>2. PICK n \in 1..N : order[n] = k
    BY <1>2
  <2> QED BY <2>1, <2>2
<1> QED BY <1>2, <1>3, <1>4 DEF Lists

\* The least and the greatest of some numbers.
LEMMA LeastIsMin ==
  ASSUME NEW S, S \subseteq Nat, S # {}
  PROVE  Min(S) \in S /\ \A n \in S : Min(S) <= n
<1>1. \E n \in S : \A m \in S : n <= m
  BY LeastNumber
<1> QED BY <1>1 DEF Min

LEMMA GreatestIsMax ==
  ASSUME NEW S, NEW bound \in Int, \A n \in S : n \in Int /\ n <= bound, S # {}
  PROVE  Max(S) \in S /\ \A n \in S : n <= Max(S)
<1> DEFINE below == {bound - n : n \in S}
<1>1. below \in SUBSET Nat /\ below # {}
  OBVIOUS
<1>2. PICK d \in below : \A e \in below : d <= e
  <2> HIDE DEF below
  <2> QED BY <1>1, LeastNumber
<1>3. PICK n \in S : d = bound - n
  BY <1>2
<1>4. ASSUME NEW m \in S PROVE n >= m
  <2>1. bound - n <= bound - m
    BY <1>2, <1>3
  <2> QED BY <2>1
<1>5. \E x \in S : \A y \in S : x >= y
  BY <1>4
<1>6. Max(S) \in S /\ \A n_1 \in S : Max(S) >= n_1
  BY <1>5 DEF Max
<1> QED BY <1>6

LEMMA PrefixByPlace ==
  ASSUME NEW X, NEW one \in Seq(X), NEW other \in Seq(X)
  PROVE  IsPrefix(one, other)
            <=> Len(one) <= Len(other) /\ \A k \in 1..Len(one) : one[k] = other[k]
<1> DEFINE part == SubSeq(other, 1, Len(one))
<1>1. SubSeq(one, 1, Len(one)) = one
  BY SubSeqFull
<1>2. CASE Len(one) <= Len(other)
  <2>1. /\ part \in Seq(X) /\ Len(part) = Len(one)
        /\ \A k \in 1..Len(one) : part[k] = other[k]
    BY <1>2, LenProperties, SubSeqProperties
  <2> HIDE DEF part
  <2>2. one = part <=> \A k \in 1..Len(one) : one[k] = other[k]
    BY <2>1, SeqEqual
  <2> QED BY <1>1, <1>2, <2>2 DEF IsPrefix, part
<1>3. CASE ~ (Len(one) <= Len(other))
  BY <1>3 DEF IsPrefix
<1> QED BY <1>2, <1>3

\* What two tags share, when one begins the other.
LEMMA DepthIsShared ==
  ASSUME NEW X, NEW one \in Seq(X), NEW other \in Seq(X), one # << >>, other # << >>
  PROVE  match_depth(one, other) = IF IsPrefix(one, other) \/ IsPrefix(other, one)
                                     THEN Min({Len(one), Len(other)}) ELSE NoMatch
<1> DEFINE m == Min({Len(one), Len(other)})
           same == {n \in 0..m : \A k \in 1..n : one[k] = other[k]}
           shared == Max(same)
<1>1. Len(one) \in Nat \ {0} /\ Len(other) \in Nat \ {0}
  BY EmptySeq, LenProperties
<1>2. m = (IF Len(one) <= Len(other) THEN Len(one) ELSE Len(other)) /\ m \in Nat \ {0}
  <2>1. m = IF Len(one) <= Len(other) THEN Len(one) ELSE Len(other)
    BY <1>1, MinOfTwo
  <2> QED BY <1>1, <2>1
<1> HIDE DEF m
<1>3. /\ IsPrefix(one, other) <=> Len(one) <= Len(other) /\ \A k \in 1..Len(one) : one[k] = other[k]
      /\ IsPrefix(other, one) <=> Len(other) <= Len(one) /\ \A k \in 1..Len(other) : other[k] = one[k]
  BY PrefixByPlace
<1>4. (IsPrefix(one, other) \/ IsPrefix(other, one)) <=> \A k \in 1..m : one[k] = other[k]
  BY <1>1, <1>2, <1>3
<1>5. shared \in same /\ \A n \in same : n <= shared
  <2>1. 0 \in same /\ \A n \in same : n \in Int /\ n <= m
    BY <1>2
  <2> HIDE DEF same
  <2> QED BY <1>2, <2>1, GreatestIsMax
<1>6. shared \in Nat /\ shared <= m /\ \A k \in 1..shared : one[k] = other[k]
  BY <1>2, <1>5
<1>7. match_depth(one, other) = IF shared > 0 /\ shared \in {Len(one), Len(other)}
                                  THEN shared ELSE NoMatch
  BY DEF match_depth, m
<1>8. CASE \A k \in 1..m : one[k] = other[k]
  <2>1. m \in same
    BY <1>2, <1>8
  <2>2. shared = m
    <3>1. m <= shared
      BY <1>5, <2>1
    <3> HIDE DEF shared
    <3> QED BY <1>2, <1>6, <3>1
  <2> HIDE DEF shared
  <2>3. shared > 0 /\ shared \in {Len(one), Len(other)}
    BY <1>2, <2>2
  <2> QED BY <1>4, <1>7, <1>8, <2>2, <2>3 DEF m
<1>9. CASE ~ \A k \in 1..m : one[k] = other[k]
  <2>1. shared # m
    BY <1>6, <1>9
  <2> HIDE DEF shared
  <2>2. shared \notin {Len(one), Len(other)}
    BY <1>1, <1>2, <1>6, <2>1
  <2> QED BY <1>4, <1>7, <1>9, <2>2
<1> QED BY <1>8, <1>9

Subtags  == DOMAIN Lowercase
Lowered  == {Lowercase[s] : s \in Subtags}
Tags     == Seq(Subtags) \ {<< >>}

LEMMA OneStar ==
  ASSUME NEW X, NEW tag \in Seq(X)
  PROVE  tag = WILDCARD <=> Len(tag) = 1 /\ tag[1] = "*"
<1>1. CASE Len(tag) = 1 /\ tag[1] = "*"
  <2>1. /\ tag \in Seq({"*"}) /\ WILDCARD \in Seq({"*"})
        /\ Len(WILDCARD) = 1 /\ WILDCARD[1] = "*"
    <3>1. DOMAIN tag = 1..1 /\ \A n \in 1..1 : tag[n] = "*"
      BY <1>1, LenProperties
    <3>2. tag = [n \in 1..1 |-> tag[n]]
      BY <3>1
    <3> QED BY <3>1, <3>2 DEF WILDCARD
  <2>2. tag = WILDCARD
    BY <1>1, <2>1, SeqEqual
  <2> QED BY <1>1, <2>2
<1>2. CASE ~ (Len(tag) = 1 /\ tag[1] = "*")
  BY <1>2 DEF WILDCARD
<1> QED BY <1>1, <1>2

LEMMA Normalised ==
  ASSUME NEW tag \in Tags
  PROVE  /\ normalise_language_tag(tag) \in Seq(Lowered) \ {<< >>}
         /\ Len(normalise_language_tag(tag)) = Len(tag) /\ Len(tag) \in Nat \ {0}
         /\ normalise_language_tag(tag) = WILDCARD <=> tag = WILDCARD
<1> DEFINE low == normalise_language_tag(tag)
           L   == Len(tag)
<1>1. /\ tag \in Seq(Subtags) /\ DOMAIN tag = 1..L /\ \A n \in 1..L : tag[n] \in Subtags
      /\ L \in Nat \ {0}
  BY EmptySeq, LenProperties DEF Tags
<1> HIDE DEF L
<1>2. low = [n \in 1..L |-> Lowercase[tag[n]]]
  BY <1>1 DEF normalise_language_tag
<1>3. \A n \in 1..L : Lowercase[tag[n]] \in Lowered /\ (Lowercase[tag[n]] = "*" <=> tag[n] = "*")
  BY <1>1, LanguagesAssumption DEF Lowered, Subtags
<1>4. low \in Seq(Lowered) /\ Len(low) = L /\ \A n \in 1..L : low[n] = Lowercase[tag[n]]
  BY <1>1, <1>2, <1>3
<1>5. low # << >>
  BY <1>1, <1>4
<1>7. tag = WILDCARD <=> L = 1 /\ tag[1] = "*"
  BY <1>1, OneStar DEF L
<1>8. low = WILDCARD <=> L = 1 /\ low[1] = "*"
  BY <1>4, OneStar
<1>9. low = WILDCARD <=> tag = WILDCARD
  BY <1>1, <1>3, <1>4, <1>7, <1>8
<1> QED BY <1>1, <1>4, <1>5, <1>9 DEF L

LEMMA Stripped ==
  ASSUME NEW X, NEW tag \in Seq(X) \ {<< >>}
  PROVE  strip_singleton_extensions(tag) \in Seq(X) \ {<< >>}
<1> DEFINE singles == {n \in 2..Len(tag) : tag[n] \in Singletons}
           part    == SubSeq(tag, 1, Min(singles) - 1)
<1>1. Len(tag) \in Nat
  BY LenProperties
<1>2. CASE singles = {}
  BY <1>2 DEF strip_singleton_extensions
<1>3. CASE singles # {}
  <2>1. Min(singles) \in singles
    <3>1. singles \in SUBSET Nat
      OBVIOUS
    <3> HIDE DEF singles
    <3> QED BY <1>3, <3>1, LeastIsMin
  <2>2. Min(singles) - 1 \in 1..Len(tag)
    BY <1>1, <2>1
  <2>3. part \in Seq(X) /\ Len(part) = Min(singles) - 1
    <3> DEFINE last == Min(singles) - 1
    <3>1. last \in 1..Len(tag)
      BY <2>2
    <3> HIDE DEF last
    <3>2. SubSeq(tag, 1, last) \in Seq(X) /\ Len(SubSeq(tag, 1, last)) = last
      BY <1>1, <3>1, SubSeqProperties
    <3> QED BY <3>2 DEF last
  <2>4. part # << >>
    <3>1. Len(part) # 0
      BY <1>1, <2>2, <2>3
    <3> HIDE DEF part
    <3> QED BY <3>1
  <2>5. strip_singleton_extensions(tag) = part
    <3>1. strip_singleton_extensions(tag) = IF singles = {} THEN tag ELSE part
      BY DEF strip_singleton_extensions
    <3> HIDE DEF singles, part
    <3> QED BY <1>3, <3>1
  <2> QED BY <2>3, <2>4, <2>5
<1> QED BY <1>2, <1>3

\* How deep a range meets a tag, as rank_language_match tells it.
DepthOf(range, tag) ==
    IF range.tag = WILDCARD THEN 0
      ELSE match_depth(strip_singleton_extensions(range.tag), normalise_language_tag(tag))

RangeOf(element) == [tag     |-> normalise_language_tag(element.tag),
                     quality |-> parse_quality(element.q)]

LEMMA DepthMeets ==
  ASSUME NEW element, element.tag \in Tags, NEW tag \in Tags
  PROVE  /\ DepthOf(RangeOf(element), tag) # NoMatch <=> MeetsTag(element, tag)
         /\ MeetsTag(element, tag) =>
               DepthOf(RangeOf(element), tag) = IF element.tag = WILDCARD THEN 0
                                                  ELSE Min({Len(Stated(element)), Len(tag)})
         /\ DepthOf(RangeOf(element), tag) \in Int
         /\ DepthOf(RangeOf(element), tag) <= Len(Stated(element))
<1> DEFINE own  == normalise_language_tag(tag)
           said == Stated(element)
           low  == normalise_language_tag(element.tag)
<1>1. /\ own \in Seq(Lowered) \ {<< >>} /\ Len(own) = Len(tag) /\ Len(tag) \in Nat \ {0}
      /\ low \in Seq(Lowered) \ {<< >>} /\ (low = WILDCARD <=> element.tag = WILDCARD)
  BY Normalised
<1>2. said \in Seq(Lowered) \ {<< >>} /\ Len(said) \in Nat
  BY <1>1, Stripped, LenProperties DEF Stated
<1>3. RangeOf(element).tag = low /\ strip_singleton_extensions(low) = said
  BY DEF RangeOf, Stated
<1>4. DepthOf(RangeOf(element), tag) = IF element.tag = WILDCARD THEN 0 ELSE match_depth(said, own)
  BY <1>1, <1>3 DEF DepthOf
<1>5. MeetsTag(element, tag) <=> element.tag = WILDCARD \/ IsPrefix(said, own) \/ IsPrefix(own, said)
  BY DEF MeetsTag
<1> HIDE DEF own, said, low
<1>6. match_depth(said, own) = IF IsPrefix(said, own) \/ IsPrefix(own, said)
                                 THEN Min({Len(said), Len(tag)}) ELSE NoMatch
  BY <1>1, <1>2, DepthIsShared
<1>7. Min({Len(said), Len(tag)}) \in Nat /\ Min({Len(said), Len(tag)}) <= Len(said)
  BY <1>1, <1>2, MinOfTwo
<1>8. NoMatch = -1
  BY DEF NoMatch
<1>9. CASE element.tag = WILDCARD
  BY <1>1, <1>4, <1>5, <1>8, <1>9
<1>10. CASE element.tag # WILDCARD
  BY <1>1, <1>4, <1>5, <1>6, <1>7, <1>8, <1>10 DEF said
<1> QED BY <1>9, <1>10

LEMMA MaxOfTwo ==
  ASSUME NEW a \in Int, NEW b \in Int
  PROVE  Max({a, b}) = IF a >= b THEN a ELSE b
  BY DEF Max

LEMMA MaxIs ==
  ASSUME NEW S, NEW x \in S, \A y \in S : y \in Int /\ y <= x
  PROVE  Max(S) = x
<1>1. \A y \in S : x >= y
  OBVIOUS
<1>2. Max(S) \in S /\ \A y \in S : Max(S) >= y
  BY <1>1 DEF Max
<1>3. Max(S) >= x /\ Max(S) <= x /\ Max(S) \in Int /\ x \in Int
  BY <1>2
<1> HIDE DEF Max
<1> QED BY <1>3

\* The deepest of the depths at which an element meets a catalog's languages.
LEMMA Closest ==
  ASSUME NEW c \in Catalogs, NEW element, element.tag \in Tags,
         \E tag \in contentOf[c].languages : MeetsTag(element, tag)
  PROVE  /\ Closeness(element, c) \in Int
         /\ Max({DepthOf(RangeOf(element), tag) : tag \in contentOf[c].languages})
               = Closeness(element, c)
<1> DEFINE tags   == contentOf[c].languages
           meets  == {tag \in tags : MeetsTag(element, tag)}
           depth(tag) == DepthOf(RangeOf(element), tag)
           depths == {depth(tag) : tag \in tags}
           close(tag) == Min({Len(Stated(element)), Len(tag)})
           closes == {close(tag) : tag \in meets}
           bound  == Len(Stated(element))
           deepest == Max(depths)
<1>1. tags \in SUBSET Tags
  BY PagesAssumption DEF Tags, Subtags
<1>2. bound \in Nat
  <2>1. normalise_language_tag(element.tag) \in Seq(Lowered) \ {<< >>}
    BY Normalised
  <2>2. Stated(element) \in Seq(Lowered) \ {<< >>}
    BY <2>1, Stripped DEF Stated
  <2> QED BY <2>2, LenProperties
<1>3. ASSUME NEW tag \in tags
      PROVE  /\ depth(tag) # NoMatch <=> MeetsTag(element, tag)
             /\ MeetsTag(element, tag) =>
                   /\ depth(tag) = IF element.tag = WILDCARD THEN 0 ELSE close(tag)
                   /\ depth(tag) > NoMatch
             /\ depth(tag) \in Int /\ depth(tag) <= bound
  <2>1. tag \in Tags
    BY <1>1
  <2>2. /\ depth(tag) # NoMatch <=> MeetsTag(element, tag)
        /\ MeetsTag(element, tag) => depth(tag) = IF element.tag = WILDCARD THEN 0 ELSE close(tag)
        /\ depth(tag) \in Int /\ depth(tag) <= bound
    BY <2>1, DepthMeets
  <2>3. close(tag) \in Nat
    <3>1. Len(tag) \in Nat
      BY <2>1, Normalised
    <3> QED BY <1>2, <3>1, MinOfTwo
  <2> HIDE DEF depth, close, bound
  <2> QED BY <2>2, <2>3 DEF NoMatch
<1>4. PICK some \in tags : MeetsTag(element, some)
  OBVIOUS
<1> HIDE DEF depth, close, bound
<1>5. deepest \in depths /\ \A d \in depths : d <= deepest
  <2>1. depths # {} /\ \A d \in depths : d \in Int /\ d <= bound
    BY <1>3, <1>4
  <2> HIDE DEF depths
  <2> QED BY <1>2, <2>1, GreatestIsMax
<1>6. PICK best \in tags : deepest = depth(best)
  BY <1>5
<1>7. \A tag \in tags : depth(tag) <= deepest
  BY <1>5
<1>8. deepest \in Int /\ MeetsTag(element, best)
  <2>1. depth(some) > NoMatch /\ depth(some) <= depth(best) /\ depth(best) \in Int
        /\ depth(some) \in Int
    BY <1>3, <1>4, <1>6, <1>7
  <2>2. depth(best) # NoMatch
    BY <2>1 DEF NoMatch
  <2> QED BY <1>3, <1>6, <2>1, <2>2
<1>9. CASE element.tag = WILDCARD
  BY <1>3, <1>6, <1>8, <1>9 DEF Closeness, depth
<1>10. CASE element.tag # WILDCARD
  <2>1. \A tag \in meets : close(tag) = depth(tag) /\ close(tag) \in Int /\ close(tag) <= deepest
    BY <1>3, <1>7, <1>10
  <2>2. close(best) = deepest /\ best \in meets
    BY <1>6, <1>8, <2>1
  <2>3. deepest \in closes /\ \A d \in closes : d \in Int /\ d <= deepest
    BY <2>1, <2>2
  <2>4. Closeness(element, c) = Max(closes)
    BY <1>10 DEF Closeness, close
  <2> HIDE DEF closes, deepest
  <2>5. Max(closes) = deepest
    BY <2>3, MaxIs
  <2> QED BY <1>8, <2>4, <2>5 DEF deepest, depth
<1> QED BY <1>9, <1>10

\* One element is liked better than another, or as much and stands before it.
Before(header, n, m) ==
    \/ Liking(header, n) > Liking(header, m)
    \/ Liking(header, n) = Liking(header, m) /\ n < m

Clear(header) == \A n \in Said(header) : header[n].q.kind # "nan"

LEMMA HeaderSays ==
  ASSUME NEW header \in Headers
  PROVE  /\ Min({Len(header), MAX_LANGUAGE_RANGES}) \in Nat
         /\ IsFiniteSet(Said(header)) /\ Said(header) \subseteq Nat \ {0}
         /\ \A n \in Said(header) :
               /\ header[n].tag \in Tags /\ Liking(header, n) \in Int
               /\ parse_quality(header[n].q) = NaN <=> header[n].q.kind = "nan"
<1> DEFINE qualities == {Unstated, Malformed, NaN} \cup [kind : {"number"}, value : Int]
           K == Min({Len(header), MAX_LANGUAGE_RANGES})
<1>1. header \in Seq([tag : Seq(Subtags), q : qualities])
  BY ReadServiceAssumption DEF Subtags
<1>2. Len(header) \in Nat /\ \A n \in 1..Len(header) : header[n] \in [tag : Seq(Subtags), q : qualities]
  <2> HIDE DEF qualities
  <2> QED BY <1>1, LenProperties
<1>3. K \in Nat /\ K <= Len(header)
  BY <1>2, LanguagesAssumption, MinOfTwo
<1> HIDE DEF K
<1>4. Said(header) = {n \in 1..K : header[n].tag # << >>}
  BY DEF Said, K
<1>5. ASSUME NEW q \in qualities
      PROVE  parse_quality(q).value \in Int /\ (parse_quality(q) = NaN <=> q.kind = "nan")
  <2>1. CASE q \in {Unstated, Malformed, NaN}
    BY <2>1 DEF parse_quality, Unstated, Malformed, NaN, Number
  <2>2. CASE q \in [kind : {"number"}, value : Int]
    <3> DEFINE low == Max({(q.value + 5) \div 10, 0})
               v   == Min({low, 1000})
    <3>1. q.kind = "number" /\ q.value \in Int
      BY <2>2
    <3>2. (q.value + 5) \div 10 \in Int
      BY <3>1
    <3>3. low \in Int
      BY <3>2, MaxOfTwo
    <3>4. v \in Int
      <4> HIDE DEF low
      <4> QED BY <3>3, MinOfTwo
    <3>5. parse_quality(q) = Number(v)
      BY <3>1 DEF parse_quality
    <3> HIDE DEF v
    <3> QED BY <3>1, <3>4, <3>5 DEF Number, NaN
  <2> QED BY <2>1, <2>2
<1> HIDE DEF qualities
<1>6. IsFiniteSet(Said(header)) /\ Said(header) \subseteq Nat \ {0}
  BY <1>3, <1>4, Sizes
<1>7. ASSUME NEW n \in Said(header)
      PROVE  /\ header[n].tag \in Tags /\ Liking(header, n) \in Int
             /\ parse_quality(header[n].q) = NaN <=> header[n].q.kind = "nan"
  <2>1. n \in 1..Len(header) /\ header[n].tag # << >>
    BY <1>2, <1>3, <1>4
  <2>2. header[n].tag \in Seq(Subtags) /\ header[n].q \in qualities
    BY <1>2, <2>1
  <2> QED BY <1>5, <2>1, <2>2 DEF Tags, Liking
<1> QED BY <1>3, <1>6, <1>7 DEF K

LEMMA PairAppended ==
  ASSUME NEW x \in Int, NEW y \in Int
  PROVE  Append(<<x>>, y) = <<x, y>>
<1> DEFINE one == <<x>>
           two == Append(one, y)
           pair == <<x, y>>
<1>1. one \in Seq(Int) /\ Len(one) = 1 /\ one[1] = x
  OBVIOUS
<1>2. pair \in Seq(Int) /\ Len(pair) = 2 /\ pair[1] = x /\ pair[2] = y
  OBVIOUS
<1> HIDE DEF one, pair
<1>3. two \in Seq(Int) /\ Len(two) = 2 /\ two[1] = x /\ two[2] = y
  <2> DEFINE S == Int
  <2>1. one \in Seq(S) /\ y \in S
    BY <1>1
  <2> HIDE DEF S
  <2>2. /\ two \in Seq(S)
        /\ Len(two) = Len(one) + 1
        /\ \A i \in 1..Len(one) : two[i] = one[i]
        /\ two[Len(one) + 1] = y
    BY <2>1, AppendProperties
  <2> HIDE DEF two
  <2> QED BY <1>1, <2>2 DEF S
<1> HIDE DEF two
<1>4. two = pair
  BY <1>2, <1>3, SeqEqual
<1> QED BY <1>4 DEF one, two, pair

\* What a header is read as: its elements, the best-liked first where every quality is a number.
LEMMA Parsed ==
  ASSUME NEW header \in Headers, NEW ranges \in parse_accept_language(header)
  PROVE  \E pick :
            /\ Lists(pick, Said(header))
            /\ ranges = [n \in 1..Cardinality(Said(header)) |-> RangeOf(header[pick[n]])]
            /\ Clear(header) =>
                  \A n, m \in 1..Cardinality(Said(header)) :
                     n < m => Before(header, pick[n], pick[m])
<1> DEFINE K     == Min({Len(header), MAX_LANGUAGE_RANGES})
           said  == Said(header)
           M     == Cardinality(said)
           all   == [n \in 1..K |-> RangeOf(header[n])]
           order == OrderBy(said, [n \in said |-> <<n>>])
           kept  == Kept(all, said)
           own   == [n \in 1..M |-> <<- kept[n].quality.value>>]
<1>1. /\ K \in Nat /\ IsFiniteSet(said) /\ said \subseteq Nat \ {0} /\ said \subseteq 1..K
      /\ \A n \in said : Liking(header, n) \in Int
                         /\ (parse_quality(header[n].q) = NaN <=> header[n].q.kind = "nan")
  BY HeaderSays DEF Said
<1>2. M \in Nat
  BY <1>1, FS_CardinalityType
<1>3. Lists(order, said) /\ \A k, l \in 1..M : k < l => order[k] < order[l]
  BY <1>1, PlacesInOrder
<1>4. kept = [n \in 1..M |-> all[order[n]]]
  BY DEF Kept
<1>5. parse_accept_language(header) = Sortings(kept)
  BY DEF parse_accept_language, Said, RangeOf
<1> HIDE DEF order, kept, K, said
<1>6. \A n \in 1..M : order[n] \in said
  BY <1>3 DEF Lists
<1>7. \A n \in 1..M : kept[n] = RangeOf(header[order[n]])
  BY <1>1, <1>4, <1>6
<1>8. DOMAIN kept = 1..M
  BY <1>4
<1>9. \A n \in 1..M : /\ kept[n].quality = parse_quality(header[order[n]].q)
                      /\ kept[n].quality.value = Liking(header, order[n])
  <2>1. \A element : RangeOf(element).quality = parse_quality(element.q)
    BY DEF RangeOf
  <2> QED BY <1>7, <2>1 DEF Liking
<1>10. (\A n \in 1..M : kept[n].quality # NaN) <=> Clear(header)
  <2>1. \A c \in said : \E n \in 1..M : order[n] = c
    BY <1>3 DEF Lists
  <2> QED BY <1>1, <1>6, <1>9, <2>1 DEF Clear, said
<1>11. CASE Clear(header)
  <2>1. ranges = SortedBy(kept, own)
    BY <1>5, <1>8, <1>10, <1>11 DEF Sortings
  <2>2. ASSUME NEW n \in 1..M PROVE own[n] = <<- Liking(header, order[n])>> /\ own[n] \in Keys(1)
    <3>1. own[n] = <<- Liking(header, order[n])>>
      BY <1>9
    <3>2. order[n] \in said
      BY <1>6
    <3>3. Liking(header, order[n]) \in Int
      BY <1>1, <3>2
    <3>4. \A a \in Int : <<- a>> \in Keys(1)
      BY DEF Keys
    <3> HIDE DEF own
    <3> QED BY <3>1, <3>3, <3>4
  <2> HIDE DEF own
  <2>3. PICK places :
           /\ Lists(places, 1..M) /\ SortedBy(kept, own) = [n \in 1..M |-> kept[places[n]]]
           /\ \A n, m \in 1..M :
                 n < m => LexLess(Append(own[places[n]], places[n]), Append(own[places[m]], places[m]))
    <3>1. 1 \in Nat /\ \A n \in 1..M : own[n] \in Keys(1)
      BY <2>2
    <3> HIDE DEF M
    <3>2. \E places : Places(places, M, kept, own)
      BY <1>2, <1>8, <3>1, SortedPlaces
    <3> QED BY <3>2 DEF Places
  <2> DEFINE pick == [n \in 1..M |-> order[places[n]]]
  <2>4. Lists(pick, said) /\ \A n \in 1..M : places[n] \in 1..M
    BY <1>1, <1>3, <2>3, ListsOfPlaces
  <2>5. ranges = [n \in 1..M |-> RangeOf(header[pick[n]])]
    BY <1>7, <2>1, <2>3, <2>4
  <2>6. ASSUME NEW n \in 1..M, NEW m \in 1..M, n < m PROVE Before(header, pick[n], pick[m])
    <3> DEFINE i == places[n]
               j == places[m]
               a == Liking(header, order[i])
               b == Liking(header, order[j])
    <3>1. i \in 1..M /\ j \in 1..M /\ own[i] = <<- a>> /\ own[j] = <<- b>>
      BY <2>2, <2>4
    <3>2. LexLess(Append(own[i], i), Append(own[j], j))
      BY <2>3, <2>6
    <3>3. a \in Int /\ b \in Int /\ i \in Int /\ j \in Int
      <4>1. order[i] \in said /\ order[j] \in said
        BY <1>6, <3>1
      <4>2. a \in Int /\ b \in Int
        BY <1>1, <4>1
      <4> QED BY <1>2, <3>1, <4>2
    <3> HIDE DEF a, b, i, j
    <3>4. Append(own[i], i) = <<- a, i>> /\ Append(own[j], j) = <<- b, j>>
      <4>1. \A x, y \in Int : Append(<<x>>, y) = <<x, y>>
        BY PairAppended
      <4>2. - a \in Int /\ - b \in Int
        BY <3>3
      <4> QED BY <3>1, <3>3, <4>1, <4>2
    <3>5. LexLess(<<- a, i>>, <<- b, j>>)
      BY <3>2, <3>4
    <3>6. - a < - b \/ (- a = - b /\ i < j)
      BY <3>3, <3>5 DEF LexLess
    <3>7. a > b \/ (a = b /\ i < j)
      BY <3>3, <3>6
    <3>8. i < j => order[i] < order[j]
      BY <1>3, <3>1
    <3>9. pick[n] = order[i] /\ pick[m] = order[j]
      BY DEF i, j
    <3> QED BY <3>7, <3>8, <3>9 DEF Before, a, b
  <2> HIDE DEF pick
  <2> WITNESS pick
  <2> QED BY <1>11, <2>4, <2>5, <2>6 DEF said
<1>12. CASE ~ Clear(header)
  <2>1. PICK places \in [1..M -> 1..M] :
           IsInjective(places) /\ ranges = [n \in 1..M |-> kept[places[n]]]
    <3> DEFINE all_places == DOMAIN kept
    <3>1. ~ \A n \in all_places : kept[n].quality # NaN
      BY <1>8, <1>10, <1>12
    <3>2. PICK places \in [all_places -> all_places] :
             IsInjective(places) /\ ranges = [n \in all_places |-> kept[places[n]]]
      BY <1>5, <3>1 DEF Sortings
    <3>3. all_places = 1..M
      BY <1>8
    <3> HIDE DEF all_places
    <3> QED BY <3>2, <3>3
  <2>2. Lists(places, 1..M)
    <3>1. IsFiniteSet(1..M) /\ Cardinality(1..M) = M
      BY <1>2, IntervalPlaces
    <3>2. places \in Injection(1..M, 1..M)
      BY <2>1 DEF Injection
    <3>3. places \in Surjection(1..M, 1..M)
      BY <3>1, <3>2, FS_Injection
    <3> QED BY <2>1, <3>1, <3>3 DEF Surjection, Lists, IsInjective
  <2> DEFINE pick == [n \in 1..M |-> order[places[n]]]
  <2>3. Lists(pick, said)
    BY <1>1, <1>3, <2>2, ListsOfPlaces
  <2>4. ranges = [n \in 1..M |-> RangeOf(header[pick[n]])]
    BY <1>7, <2>1
  <2> HIDE DEF pick
  <2> WITNESS pick
  <2> QED BY <1>12, <2>3, <2>4 DEF said
<1> QED BY <1>11, <1>12

ReadAs(header, ranges, pick) ==
    /\ Lists(pick, Said(header))
    /\ ranges = [n \in 1..Cardinality(Said(header)) |-> RangeOf(header[pick[n]])]
    /\ Clear(header) =>
          \A n, m \in 1..Cardinality(Said(header)) : n < m => Before(header, pick[n], pick[m])

\* The match of a catalog that states its languages: the first range that accepts it, and how close.
LEMMA MatchIsFirst ==
  ASSUME NEW header \in Headers, NEW ranges, NEW pick, ReadAs(header, ranges, pick),
         NEW c \in Catalogs
  PROVE  LET match == rank_language_match(ranges, contentOf[c].languages)
             M     == Cardinality(Said(header))
         IN  /\ Accepting(header, c) = {} => match = << >>
             /\ Accepting(header, c) # {} =>
                   \E k \in 1..M :
                      /\ pick[k] \in Accepting(header, c)
                      /\ \A l \in 1..M : pick[l] \in Accepting(header, c) => k <= l
                      /\ match = <<k, Closeness(header[pick[k]], c)>>
                      /\ Closeness(header[pick[k]], c) \in Int
<1> DEFINE said  == Said(header)
           M     == Cardinality(said)
           tags  == contentOf[c].languages
           accepting == Accepting(header, c)
           met   == {n \in DOMAIN ranges : /\ Acceptable(ranges[n])
                                          /\ \E tag \in tags : DepthOf(ranges[n], tag) # NoMatch}
           first == Min(met)
           match == rank_language_match(ranges, tags)
<1>1. match = IF met = {} THEN << >> ELSE <<first, Max({DepthOf(ranges[first], tag) : tag \in tags})>>
  BY DEF rank_language_match, DepthOf
<1>2. /\ DOMAIN ranges = 1..M /\ \A n \in 1..M : ranges[n] = RangeOf(header[pick[n]])
      /\ \A n \in 1..M : pick[n] \in said
      /\ \A m \in said : \E n \in 1..M : pick[n] = m
  BY DEF ReadAs, Lists
<1>3. \A m \in said : header[m].tag \in Tags
  BY HeaderSays
<1>4. tags \in SUBSET Tags
  BY PagesAssumption DEF Tags, Subtags
<1>5. ASSUME NEW n \in 1..M PROVE n \in met <=> pick[n] \in accepting
  <2> DEFINE element == header[pick[n]]
  <2>1. ranges[n] = RangeOf(element) /\ element.tag \in Tags /\ pick[n] \in said
    BY <1>2, <1>3
  <2>2. Acceptable(ranges[n]) <=> parse_quality(element.q) # Number(0)
    BY <2>1 DEF Acceptable, RangeOf
  <2>3. \A tag \in tags : DepthOf(ranges[n], tag) # NoMatch <=> MeetsTag(element, tag)
    BY <1>4, <2>1, DepthMeets
  <2> QED BY <1>2, <2>1, <2>2, <2>3 DEF Accepting
<1> HIDE DEF met, accepting, match
<1>6. met \subseteq 1..M
  BY <1>2 DEF met
<1>7. accepting \subseteq said
  BY DEF accepting, Accepting
<1>8. met = {} <=> accepting = {}
  BY <1>2, <1>5, <1>6, <1>7
<1>9. CASE accepting = {}
  BY <1>1, <1>8, <1>9 DEF match, accepting
<1>10. CASE accepting # {}
  <2>1. M \in Nat
    BY HeaderSays, FS_CardinalityType
  <2>2. first \in met /\ \A n \in met : first <= n
    <3>1. met \in SUBSET Nat /\ met # {}
      BY <1>6, <1>8, <1>10, <2>1
    <3> QED BY <3>1, LeastIsMin
  <2> HIDE DEF first
  <2>3. first \in 1..M /\ pick[first] \in accepting
        /\ \A l \in 1..M : pick[l] \in accepting => first <= l
    BY <1>5, <1>6, <2>2
  <2> DEFINE element == header[pick[first]]
  <2>4. ranges[first] = RangeOf(element) /\ element.tag \in Tags
    BY <1>2, <1>3, <2>3
  <2>5. \E tag \in tags : MeetsTag(element, tag)
    BY <2>3 DEF accepting, Accepting
  <2>6. /\ Closeness(element, c) \in Int
        /\ Max({DepthOf(RangeOf(element), tag) : tag \in tags}) = Closeness(element, c)
    BY <2>4, <2>5, Closest
  <2>7. match = <<first, Closeness(element, c)>>
    BY <1>1, <1>8, <1>10, <2>4, <2>6
  <2> QED BY <1>10, <2>3, <2>6, <2>7 DEF match, accepting
<1> QED BY <1>9, <1>10

LEMMA FavouriteIsFirst ==
  ASSUME NEW header \in Headers, NEW ranges, NEW pick, ReadAs(header, ranges, pick), Clear(header),
         NEW c \in Catalogs, NEW k \in 1..Cardinality(Said(header)),
         pick[k] \in Accepting(header, c),
         \A l \in 1..Cardinality(Said(header)) : pick[l] \in Accepting(header, c) => k <= l
  PROVE  pick[k] = Favourite(header, c)
<1> DEFINE M == Cardinality(Said(header))
           accepting == Accepting(header, c)
           n == pick[k]
           better(i, j) == \/ Liking(header, i) > Liking(header, j)
                           \/ Liking(header, i) = Liking(header, j) /\ i <= j
<1>1. M \in Nat
  BY HeaderSays, FS_CardinalityType
<1>2. accepting \subseteq Said(header)
  BY DEF Accepting
<1>3. \A m \in accepting : m \in Nat /\ Liking(header, m) \in Int
  BY <1>2, HeaderSays
<1> HIDE DEF accepting
<1>4. ASSUME NEW m \in accepting PROVE better(n, m)
  <2>1. PICK l \in 1..M : pick[l] = m
    BY <1>2 DEF ReadAs, Lists
  <2>2. k <= l
    BY <2>1 DEF accepting
  <2>3. CASE k = l
    BY <1>3, <2>1, <2>3
  <2>4. CASE k < l
    <3>1. Before(header, n, m)
      BY <2>1, <2>4 DEF ReadAs
    <3> QED BY <1>3, <3>1 DEF Before, accepting
  <2> QED BY <1>1, <2>2, <2>3, <2>4
<1>5. n \in accepting
  BY DEF accepting
<1>6. ASSUME NEW i \in accepting, \A m \in accepting : better(i, m) PROVE i = n
  <2>1. better(i, n) /\ better(n, i)
    BY <1>4, <1>5, <1>6
  <2>2. i \in Nat /\ n \in Nat /\ Liking(header, i) \in Int /\ Liking(header, n) \in Int
    BY <1>3, <1>5
  <2> HIDE DEF n
  <2> QED BY <2>1, <2>2
<1>7. Favourite(header, c) = CHOOSE i \in accepting : \A m \in accepting : better(i, m)
  BY DEF Favourite, accepting
<1> HIDE DEF better, n
<1>8. (CHOOSE i \in accepting : \A m \in accepting : better(i, m)) = n
  BY <1>4, <1>5, <1>6
<1> QED BY <1>7, <1>8 DEF n

Age(c) == <<- contentOf[c].created_at, contentOf[c].title, c>>

\* The two keys of a catalog, what the code sorts by and where the client wants it, side by side.
Alike(header, pick, c, rank, wanted, unscoped, k, near) ==
    /\ unscoped \in {0, 1} /\ k \in Int /\ near \in Int
    /\ rank = <<unscoped, k, near, - contentOf[c].created_at>>
    /\ wanted \in Keys(7) /\ wanted[1] = unscoped /\ wanted[4] = near
    /\ \A n \in 1..3 : wanted[4 + n] = Age(c)[n]
    /\ unscoped = 1 => k = 0 /\ wanted[2] = 0 /\ wanted[3] = 0
    /\ unscoped = 0 => /\ k \in 1..Cardinality(Said(header))
                      /\ wanted[2] = - Liking(header, pick[k]) /\ wanted[3] = pick[k]

LEMMA AgeIsKey ==
  ASSUME NEW c \in Catalogs
  PROVE  Age(c) \in Keys(3) /\ - contentOf[c].created_at \in Int /\ Age(c)[3] = c
         /\ Age(c)[1] = - contentOf[c].created_at
<1>1. c \in Int /\ contentOf[c].created_at \in Int /\ contentOf[c].title \in Int
  BY RegistryAssumption, PagesAssumption, AdminListsAssumption
<1> QED BY <1>1 DEF Age, Keys

LEMMA Joined ==
  ASSUME NEW one \in Keys(4), NEW other \in Keys(3)
  PROVE  /\ one \o other \in Keys(7)
         /\ \A n \in 1..4 : (one \o other)[n] = one[n]
         /\ \A n \in 1..3 : (one \o other)[4 + n] = other[n]
<1> DEFINE both == one \o other
<1>1. one \in Seq(Int) /\ Len(one) = 4 /\ other \in Seq(Int) /\ Len(other) = 3
  BY DEF Keys
<1>2. /\ both \in Seq(Int) /\ Len(both) = Len(one) + Len(other)
      /\ \A n \in 1..(Len(one) + Len(other)) :
            both[n] = IF n <= Len(one) THEN one[n] ELSE other[n - Len(one)]
  BY <1>1, ConcatProperties
<1> HIDE DEF both
<1>3. Len(both) = 7 /\ \A n \in 1..7 : both[n] = IF n <= 4 THEN one[n] ELSE other[n - 4]
  BY <1>1, <1>2
<1>4. both \in Keys(7)
  BY <1>2, <1>3 DEF Keys
<1>5. \A n \in 1..3 : 4 + n \in 1..7 /\ ~ (4 + n <= 4) /\ (4 + n) - 4 = n
  OBVIOUS
<1>6. \A n \in 1..3 : both[4 + n] = other[n]
  BY <1>3, <1>5
<1> QED BY <1>3, <1>4, <1>6 DEF both

\* A catalog has a rank when it is served.
LEMMA RankedIsServed ==
  ASSUME NEW header \in Headers, NEW ranges, NEW pick, ReadAs(header, ranges, pick),
         NEW c \in Catalogs
  PROVE  /\ Rank(c, ranges) # << >> <=> contentOf[c].languages = {} \/ Accepting(header, c) # {}
         /\ Rank(c, ranges) # << >> => Rank(c, ranges) \in Keys(4)
<1> DEFINE match == rank_language_match(ranges, contentOf[c].languages)
           born  == - contentOf[c].created_at
           tags  == contentOf[c].languages
<1>1. Rank(c, ranges) = IF tags = {} THEN <<1, 0, 0, born>>
                          ELSE IF match = << >> THEN << >> ELSE <<0, match[1], - match[2], born>>
  BY DEF Rank
<1>2. born \in Int
  BY AgeIsKey
<1>3. tags = {} => Rank(c, ranges) # << >> /\ Rank(c, ranges) \in Keys(4)
  BY <1>1, <1>2 DEF Keys
<1>4. Accepting(header, c) = {} => match = << >>
  BY MatchIsFirst
<1>5. ASSUME tags # {}, Accepting(header, c) # {}
      PROVE  Rank(c, ranges) # << >> /\ Rank(c, ranges) \in Keys(4)
  <2>1. PICK k \in 1..Cardinality(Said(header)) :
           match = <<k, Closeness(header[pick[k]], c)>> /\ Closeness(header[pick[k]], c) \in Int
    BY <1>5, MatchIsFirst
  <2> DEFINE near == Closeness(header[pick[k]], c)
  <2>2. match # << >> /\ match[1] = k /\ match[2] = near /\ near \in Int /\ k \in Int
    BY <2>1
  <2> HIDE DEF match, near
  <2>3. Rank(c, ranges) = <<0, k, - near, born>> /\ - near \in Int
    BY <1>1, <1>5, <2>2
  <2> HIDE DEF born
  <2> QED BY <1>2, <2>2, <2>3 DEF Keys
<1>6. tags # {} /\ Accepting(header, c) = {} => Rank(c, ranges) = << >>
  BY <1>1, <1>4
<1> QED BY <1>3, <1>5, <1>6

LEMMA RankIsAlike ==
  ASSUME NEW header \in Headers, NEW ranges, NEW pick, ReadAs(header, ranges, pick), Clear(header),
         NEW c \in Catalogs, contentOf[c].languages = {} \/ Accepting(header, c) # {}
  PROVE  \E unscoped, k, near :
            Alike(header, pick, c, Rank(c, ranges), Wanted(header, c), unscoped, k, near)
<1> DEFINE match == rank_language_match(ranges, contentOf[c].languages)
           born  == - contentOf[c].created_at
           tags  == contentOf[c].languages
           best  == Favourite(header, c)
           close == Closeness(header[best], c)
<1>1. Rank(c, ranges) = IF tags = {} THEN <<1, 0, 0, born>>
                          ELSE IF match = << >> THEN << >> ELSE <<0, match[1], - match[2], born>>
  BY DEF Rank
<1>2. born \in Int /\ Age(c) \in Keys(3)
  BY AgeIsKey
<1>3. CASE tags = {}
  <2> DEFINE head == <<1, 0, 0, 0>>
  <2>1. head \in Keys(4) /\ head[1] = 1 /\ head[2] = 0 /\ head[3] = 0 /\ head[4] = 0
    BY DEF Keys
  <2>2. Wanted(header, c) = head \o Age(c)
    BY <1>3 DEF Wanted, Age
  <2> HIDE DEF head
  <2>3. /\ Wanted(header, c) \in Keys(7) /\ \A n \in 1..4 : Wanted(header, c)[n] = head[n]
        /\ \A n \in 1..3 : Wanted(header, c)[4 + n] = Age(c)[n]
    <3>1. /\ head \o Age(c) \in Keys(7) /\ \A n \in 1..4 : (head \o Age(c))[n] = head[n]
          /\ \A n \in 1..3 : (head \o Age(c))[4 + n] = Age(c)[n]
      BY <1>2, <2>1, Joined
    <3> QED BY <2>2, <3>1
  <2>4. Alike(header, pick, c, Rank(c, ranges), Wanted(header, c), 1, 0, 0)
    BY <1>1, <1>3, <2>1, <2>3 DEF Alike
  <2> QED BY <2>4
<1>4. CASE tags # {}
  <2>1. PICK k \in 1..Cardinality(Said(header)) :
           /\ pick[k] \in Accepting(header, c)
           /\ \A l \in 1..Cardinality(Said(header)) : pick[l] \in Accepting(header, c) => k <= l
           /\ match = <<k, Closeness(header[pick[k]], c)>> /\ Closeness(header[pick[k]], c) \in Int
    BY <1>4, MatchIsFirst
  <2>2. best = pick[k]
    BY <2>1, FavouriteIsFirst
  <2>3. match # << >> /\ match[1] = k /\ match[2] = close /\ close \in Int /\ k \in Int
    BY <2>1, <2>2
  <2>4. best \in Int /\ Liking(header, best) \in Int
    <3>1. best \in Said(header)
      BY <2>1, <2>2 DEF Accepting
    <3>2. Said(header) \subseteq Nat /\ \A n \in Said(header) : Liking(header, n) \in Int
      BY HeaderSays
    <3> HIDE DEF best
    <3> QED BY <3>1, <3>2
  <2> DEFINE head == <<0, - Liking(header, best), best, - close>>
  <2>5. Wanted(header, c) = head \o Age(c)
    BY <1>4 DEF Wanted, Age
  <2> HIDE DEF best, close, match
  <2>6. /\ head \in Keys(4) /\ head[1] = 0 /\ head[2] = - Liking(header, best) /\ head[3] = best
        /\ head[4] = - close /\ - close \in Int
    BY <2>3, <2>4 DEF Keys
  <2> HIDE DEF head
  <2>7. /\ Wanted(header, c) \in Keys(7) /\ \A n \in 1..4 : Wanted(header, c)[n] = head[n]
        /\ \A n \in 1..3 : Wanted(header, c)[4 + n] = Age(c)[n]
    BY <1>2, <2>5, <2>6, Joined
  <2>8. Rank(c, ranges) = <<0, k, - close, born>>
    BY <1>1, <1>4, <2>3
  <2>9. Alike(header, pick, c, Rank(c, ranges), Wanted(header, c), 0, k, - close)
    BY <2>2, <2>3, <2>6, <2>7, <2>8 DEF Alike
  <2> QED BY <2>9
<1> QED BY <1>3, <1>4

LEMMA FirstDifference ==
  ASSUME NEW one, NEW other, NEW n \in DOMAIN one, one[n] < other[n],
         \A k \in 1..(n - 1) : one[k] = other[k]
  PROVE  LexLess(one, other)
BY DEF LexLess

\* Keys that begin alike are in the order of how they end.
LEMMA LaterDifference ==
  ASSUME NEW one, NEW two, DOMAIN one = 1..7, \A n \in 1..4 : one[n] = two[n],
         NEW a, NEW b, DOMAIN a = 1..3, \A n \in 1..3 : one[4 + n] = a[n],
         \A n \in 1..3 : two[4 + n] = b[n], LexLess(a, b)
  PROVE  LexLess(one, two)
<1>1. PICK n \in 1..3 : a[n] < b[n] /\ \A m \in 1..(n - 1) : a[m] = b[m]
  BY DEF LexLess
<1>2. one[4 + n] < two[4 + n]
  BY <1>1
<1>3. ASSUME NEW m \in 1..((4 + n) - 1) PROVE one[m] = two[m]
  <2>1. CASE m \in 1..4
    BY <2>1
  <2>2. CASE m \notin 1..4
    <3> DEFINE o == m - 4
    <3>1. o \in 1..3 /\ o \in 1..(n - 1) /\ m = 4 + o
      BY <1>1, <2>2
    <3> HIDE DEF o
    <3>2. one[4 + o] = a[o] /\ two[4 + o] = b[o] /\ a[o] = b[o]
      BY <1>1, <3>1
    <3> QED BY <3>1, <3>2
  <2> QED BY <2>1, <2>2
<1>4. 4 + n \in DOMAIN one
  OBVIOUS
<1> QED BY <1>2, <1>3, <1>4, FirstDifference

LEMMA FourAndOne ==
  ASSUME NEW one \in Keys(4), NEW i \in Int
  PROVE  /\ Append(one, i) \in Keys(5) /\ Append(one, i)[5] = i
         /\ \A n \in 1..4 : Append(one, i)[n] = one[n]
<1> DEFINE list == Append(one, i)
<1>1. one \in Seq(Int) /\ Len(one) = 4
  BY DEF Keys
<1>2. /\ list \in Seq(Int)
      /\ Len(list) = Len(one) + 1
      /\ \A n \in 1..Len(one) : list[n] = one[n]
      /\ list[Len(one) + 1] = i
  <2> DEFINE S == Int
  <2>1. one \in Seq(S) /\ i \in S
    BY <1>1
  <2> HIDE DEF S
  <2>2. /\ list \in Seq(S)
        /\ Len(list) = Len(one) + 1
        /\ \A n \in 1..Len(one) : list[n] = one[n]
        /\ list[Len(one) + 1] = i
    BY <2>1, AppendProperties
  <2> QED BY <2>2 DEF S
<1> HIDE DEF list
<1>3. Len(list) = 5 /\ list[5] = i /\ \A n \in 1..4 : list[n] = one[n]
  BY <1>1, <1>2
<1>4. list \in Keys(5)
  BY <1>2, <1>3 DEF Keys
<1> QED BY <1>3, <1>4 DEF list

\* Catalogs in the order of their ranks, then by age, are in the order the client wants.
LEMMA RanksAreWanted ==
  ASSUME NEW header \in Headers, NEW ranges, NEW pick, ReadAs(header, ranges, pick), Clear(header),
         NEW c \in Catalogs, contentOf[c].languages = {} \/ Accepting(header, c) # {},
         NEW d \in Catalogs, contentOf[d].languages = {} \/ Accepting(header, d) # {},
         NEW i \in Int, NEW j \in Int, i < j => LexLess(Age(c), Age(d)),
         LexLess(Append(Rank(c, ranges), i), Append(Rank(d, ranges), j))
  PROVE  LexLess(Wanted(header, c), Wanted(header, d))
<1> DEFINE M    == Cardinality(Said(header))
           one  == Wanted(header, c)
           two  == Wanted(header, d)
           born(b) == - contentOf[b].created_at
<1>1. PICK u, k, e : Alike(header, pick, c, Rank(c, ranges), one, u, k, e)
  BY RankIsAlike
<1>2. PICK v, l, f : Alike(header, pick, d, Rank(d, ranges), two, v, l, f)
  BY RankIsAlike
<1>3. /\ u \in {0, 1} /\ k \in Int /\ e \in Int /\ Rank(c, ranges) = <<u, k, e, born(c)>>
      /\ one \in Keys(7) /\ one[1] = u /\ one[4] = e /\ \A n \in 1..3 : one[4 + n] = Age(c)[n]
      /\ u = 1 => k = 0 /\ one[2] = 0 /\ one[3] = 0
      /\ u = 0 => k \in 1..M /\ one[2] = - Liking(header, pick[k]) /\ one[3] = pick[k]
  BY <1>1 DEF Alike
<1>4. /\ v \in {0, 1} /\ l \in Int /\ f \in Int /\ Rank(d, ranges) = <<v, l, f, born(d)>>
      /\ two \in Keys(7) /\ two[1] = v /\ two[4] = f /\ \A n \in 1..3 : two[4 + n] = Age(d)[n]
      /\ v = 1 => l = 0 /\ two[2] = 0 /\ two[3] = 0
      /\ v = 0 => l \in 1..M /\ two[2] = - Liking(header, pick[l]) /\ two[3] = pick[l]
  BY <1>2 DEF Alike
<1>5. /\ Age(c) \in Keys(3) /\ Age(d) \in Keys(3) /\ born(c) \in Int /\ born(d) \in Int
      /\ Age(c)[1] = born(c) /\ Age(d)[1] = born(d)
  BY AgeIsKey
<1>10. DOMAIN one = 1..7 /\ DOMAIN Age(c) = 1..3
  BY <1>3, <1>5, KeyElements
<1> HIDE DEF one, two, born, M
<1> SUFFICES LexLess(one, two)
  BY DEF one, two
<1>6. \/ u < v
      \/ u = v /\ k < l
      \/ u = v /\ k = l /\ e < f
      \/ u = v /\ k = l /\ e = f /\ born(c) < born(d)
      \/ u = v /\ k = l /\ e = f /\ born(c) = born(d) /\ i < j
  <2> DEFINE mine == Rank(c, ranges)
             its  == Rank(d, ranges)
  <2>1. mine \in Keys(4) /\ mine[1] = u /\ mine[2] = k /\ mine[3] = e /\ mine[4] = born(c)
    BY <1>3, <1>5 DEF Keys
  <2>2. its \in Keys(4) /\ its[1] = v /\ its[2] = l /\ its[3] = f /\ its[4] = born(d)
    BY <1>4, <1>5 DEF Keys
  <2> DEFINE long == Append(mine, i)
             other == Append(its, j)
  <2>3. long \in Keys(5) /\ long[5] = i /\ \A n \in 1..4 : long[n] = mine[n]
    BY <2>1, FourAndOne
  <2>4. other \in Keys(5) /\ other[5] = j /\ \A n \in 1..4 : other[n] = its[n]
    BY <2>2, FourAndOne
  <2>5. LexLess(long, other)
    OBVIOUS
  <2> HIDE DEF long, other, mine, its
  <2>6. DOMAIN long = 1..5
    BY <2>3, KeyElements
  <2>7. PICK n \in 1..5 : long[n] < other[n] /\ \A m \in 1..(n - 1) : long[m] = other[m]
    BY <2>5, <2>6 DEF LexLess
  <2>8. /\ long[1] = u /\ long[2] = k /\ long[3] = e /\ long[4] = born(c) /\ long[5] = i
        /\ other[1] = v /\ other[2] = l /\ other[3] = f /\ other[4] = born(d) /\ other[5] = j
    BY <2>1, <2>2, <2>3, <2>4
  <2>9. CASE n = 1
    <3>1. long[1] < other[1]
      BY <2>7, <2>9
    <3> QED BY <2>8, <3>1
  <2>10. CASE n = 2
    BY <2>7, <2>8, <2>10
  <2>11. CASE n = 3
    BY <2>7, <2>8, <2>11
  <2>12. CASE n = 4
    BY <2>7, <2>8, <2>12
  <2>13. CASE n = 5
    BY <2>7, <2>8, <2>13
  <2> QED BY <2>9, <2>10, <2>11, <2>12, <2>13
<1>7. CASE u < v
  <2>1. 1 \in DOMAIN one /\ one[1] < two[1] /\ \A n \in 1..(1 - 1) : one[n] = two[n]
    BY <1>3, <1>4, <1>7, <1>10
  <2> QED BY <2>1, FirstDifference
<1>8. CASE u = v /\ k < l
  <2>1. u = 0 /\ k \in 1..M /\ l \in 1..M
    BY <1>3, <1>4, <1>8
  <2>2. Before(header, pick[k], pick[l])
    BY <1>8, <2>1 DEF ReadAs, M
  <2>3. pick[k] \in Said(header) /\ pick[l] \in Said(header)
    BY <2>1 DEF ReadAs, Lists, M
  <2> DEFINE a == Liking(header, pick[k])
             b == Liking(header, pick[l])
  <2>4. a \in Int /\ b \in Int
    BY <2>3, HeaderSays
  <2>5. a > b \/ (a = b /\ pick[k] < pick[l])
    BY <2>2 DEF Before
  <2>6. one[2] = - a /\ two[2] = - b /\ one[3] = pick[k] /\ two[3] = pick[l] /\ one[1] = two[1]
    BY <1>3, <1>4, <1>8, <2>1
  <2> HIDE DEF a, b
  <2>7. CASE a > b
    <3>1. 2 \in DOMAIN one /\ one[2] < two[2] /\ \A n \in 1..(2 - 1) : one[n] = two[n]
      BY <1>10, <2>4, <2>6, <2>7
    <3> QED BY <3>1, FirstDifference
  <2>8. CASE a = b /\ pick[k] < pick[l]
    <3>1. 3 \in DOMAIN one /\ one[3] < two[3] /\ \A n \in 1..(3 - 1) : one[n] = two[n]
      BY <1>10, <2>6, <2>8
    <3> QED BY <3>1, FirstDifference
  <2> QED BY <2>5, <2>7, <2>8
<1>9. CASE u = v /\ k = l
  <2>1. one[1] = two[1] /\ one[2] = two[2] /\ one[3] = two[3]
    BY <1>3, <1>4, <1>9
  <2>2. CASE e < f
    <3>1. 4 \in DOMAIN one /\ one[4] < two[4] /\ \A n \in 1..(4 - 1) : one[n] = two[n]
      BY <1>10, <1>3, <1>4, <2>1, <2>2
    <3> QED BY <3>1, FirstDifference
  <2>3. CASE e = f
    <3>1. \A n \in 1..4 : one[n] = two[n]
      BY <1>3, <1>4, <2>1, <2>3
    <3>2. LexLess(Age(c), Age(d))
      <4>1. CASE born(c) < born(d)
        <5>1. 1 \in DOMAIN Age(c) /\ Age(c)[1] < Age(d)[1] /\ \A n \in 1..(1 - 1) : Age(c)[n] = Age(d)[n]
          BY <1>5, <1>10, <4>1
        <5> QED BY <5>1, FirstDifference
      <4>2. CASE i < j
        BY <4>2
      <4> QED BY <1>3, <1>4, <1>5, <1>6, <1>9, <2>3, <4>1, <4>2
    <3> QED BY <1>3, <1>4, <1>10, <3>1, <3>2, LaterDifference
  <2> QED BY <1>3, <1>4, <1>6, <1>9, <2>2, <2>3
<1> QED BY <1>3, <1>4, <1>6, <1>7, <1>8, <1>9

Accepted(header) == {c \in Catalogs : contentOf[c].languages = {} \/ Accepting(header, c) # {}}
AgeOf            == [c \in Catalogs |-> Age(c)]

\* The feed made of a list by age.
LEMMA FeedIsAccepted ==
  ASSUME NEW header \in Headers, NEW ranges \in parse_accept_language(header),
         NEW S, S \subseteq Catalogs, NEW catalogs, InOrder(catalogs, S, AgeOf)
  PROVE  LET served == S \cap Accepted(header)
         IN  /\ Lists(FeedOf(catalogs, ranges), served)
             /\ Clear(header) => InOrder(FeedOf(catalogs, ranges), served,
                                        [c \in served |-> Wanted(header, c)])
<1> DEFINE served  == S \cap Accepted(header)
           N       == Cardinality(served)
           wanted  == [c \in served |-> Wanted(header, c)]
           feed    == FeedOf(catalogs, ranges)
           scoped  == {n \in DOMAIN catalogs : Rank(catalogs[n], ranges) # << >>}
           unscoped == {n \in DOMAIN catalogs : contentOf[catalogs[n]].languages = {}}
           ranked  == Kept(catalogs, scoped)
           ranks   == [n \in DOMAIN ranked |-> Rank(ranked[n], ranges)]
<1>1. PICK pick : ReadAs(header, ranges, pick)
  BY Parsed DEF ReadAs
<1>2. IsFiniteSet(S) /\ IsFiniteSet(served) /\ N \in Nat
  <2>1. IsFiniteSet(S) /\ served \subseteq S
    BY RegistryAssumption, FS_Subset
  <2> QED BY <2>1, FS_Subset, FS_CardinalityType
<1>3. DOMAIN catalogs = 1..Cardinality(S) /\ \A n \in 1..Cardinality(S) : catalogs[n] \in S
  BY DEF InOrder, Lists
<1>4. served \subseteq Catalogs
     /\ \A c \in served : contentOf[c].languages = {} \/ Accepting(header, c) # {}
  BY DEF Accepted
<1>5. \A c \in Catalogs : AgeOf[c] = Age(c) /\ Age(c) \in Keys(3)
  BY AgeIsKey DEF AgeOf
<1>6. CASE ranges = << >>
  <2>1. feed = Kept(catalogs, unscoped)
    BY <1>6 DEF FeedOf
  <2>2. Said(header) = {}
    <3> DEFINE M == Cardinality(Said(header))
    <3>1. M \in Nat
      BY HeaderSays, FS_CardinalityType
    <3>2. DOMAIN ranges = 1..M
      BY <1>1 DEF ReadAs
    <3>3. \A m \in Said(header) : \E n \in 1..M : pick[n] = m
      BY <1>1 DEF ReadAs, Lists
    <3> HIDE DEF M
    <3>4. 1..M = {}
      BY <1>6, <3>2
    <3> QED BY <3>3, <3>4
  <2>3. \A c \in Catalogs : Accepting(header, c) = {}
    BY <2>2 DEF Accepting
  <2>4. \A n \in 1..Cardinality(S) : n \in unscoped <=> catalogs[n] \in Accepted(header)
    BY <1>3, <2>3 DEF Accepted
  <2>5. unscoped \subseteq 1..Cardinality(S)
    BY <1>3
  <2> HIDE DEF unscoped
  <2>6. InOrder(feed, served, AgeOf)
    BY <1>2, <2>1, <2>4, <2>5, FilteredInOrder
  <2> HIDE DEF feed
  <2>7. ASSUME NEW c \in served, NEW d \in served, LexLess(AgeOf[c], AgeOf[d])
        PROVE  LexLess(wanted[c], wanted[d])
    <3> DEFINE head == <<1, 0, 0, 0>>
               one  == Wanted(header, c)
               two  == Wanted(header, d)
    <3>1. one = head \o Age(c) /\ two = head \o Age(d)
      BY <1>4, <2>3 DEF Wanted, Age
    <3>2. head \in Keys(4)
      BY DEF Keys
    <3> HIDE DEF head
    <3> DEFINE left  == head \o Age(c)
               right == head \o Age(d)
    <3>3. /\ left \in Keys(7) /\ right \in Keys(7)
          /\ \A n \in 1..4 : left[n] = head[n] /\ right[n] = head[n]
          /\ \A n \in 1..3 : left[4 + n] = Age(c)[n] /\ right[4 + n] = Age(d)[n]
      BY <1>4, <1>5, <3>2, Joined
    <3> HIDE DEF left, right, one, two
    <3>4. /\ DOMAIN left = 1..7 /\ DOMAIN Age(c) = 1..3 /\ \A n \in 1..4 : left[n] = right[n]
          /\ \A n \in 1..3 : left[4 + n] = Age(c)[n]
          /\ \A n \in 1..3 : right[4 + n] = Age(d)[n]
      BY <1>4, <1>5, <3>3, KeyElements
    <3>5. LexLess(Age(c), Age(d))
      BY <1>4, <1>5, <2>7
    <3>6. LexLess(left, right)
      BY <3>4, <3>5, LaterDifference
    <3>7. wanted[c] = left /\ wanted[d] = right
      BY <3>1 DEF one, two, left, right
    <3> QED BY <3>6, <3>7
  <2> HIDE DEF wanted, served
  <2>8. \A n \in 1..N : feed[n] \in served
    BY <2>6 DEF InOrder, Lists
  <2>9. InOrder(feed, served, wanted)
    BY <2>6, <2>7, <2>8 DEF InOrder
  <2> QED BY <2>6, <2>9 DEF InOrder, served, wanted, feed
<1>7. CASE ranges # << >>
  <2>1. feed = SortedBy(ranked, ranks)
    BY <1>7 DEF FeedOf
  <2>2. \A n \in 1..Cardinality(S) : n \in scoped <=> catalogs[n] \in Accepted(header)
    BY <1>1, <1>3, RankedIsServed DEF Accepted
  <2>3. scoped \subseteq 1..Cardinality(S)
    BY <1>3
  <2> HIDE DEF scoped
  <2>4. InOrder(ranked, served, AgeOf)
    BY <1>2, <2>2, <2>3, FilteredInOrder
  <2> HIDE DEF ranked
  <2>5. DOMAIN ranked = 1..N /\ \A n \in 1..N : ranked[n] \in served
    BY <2>4 DEF InOrder, Lists
  <2>6. \A n \in 1..N : ranks[n] = Rank(ranked[n], ranges)
    BY <2>5
  <2>7. \A c \in served : Rank(c, ranges) \in Keys(4)
    BY <1>1, <1>4, RankedIsServed
  <2>8. \A n \in 1..N : ranks[n] \in Keys(4)
    BY <2>5, <2>6, <2>7
  <2> HIDE DEF ranks, served, N, feed
  <2>9. PICK order :
           /\ Lists(order, 1..N) /\ SortedBy(ranked, ranks) = [n \in 1..N |-> ranked[order[n]]]
           /\ \A n, m \in 1..N :
                 n < m => LexLess(Append(ranks[order[n]], order[n]), Append(ranks[order[m]], order[m]))
    <3> DEFINE L == 4
    <3>1. L \in Nat /\ N \in Nat /\ DOMAIN ranked = 1..N /\ \A n \in 1..N : ranks[n] \in Keys(L)
      BY <1>2, <2>5, <2>8 DEF N
    <3> HIDE DEF L
    <3>2. \E order : Places(order, N, ranked, ranks)
      BY <3>1, SortedPlaces
    <3> QED BY <3>2 DEF Places
  <2>10. feed = [n \in 1..N |-> ranked[order[n]]]
    BY <2>1, <2>9
  <2>11. Lists(feed, served) /\ \A n \in 1..N : order[n] \in 1..N
    BY <1>2, <2>4, <2>9, <2>10, ListsOfPlaces DEF InOrder, N
  <2>12. ASSUME Clear(header), NEW n \in 1..N, NEW m \in 1..N, n < m
         PROVE  LexLess(wanted[feed[n]], wanted[feed[m]])
    <3> DEFINE i == order[n]
               j == order[m]
               c == ranked[i]
               d == ranked[j]
    <3>1. /\ i \in 1..N /\ j \in 1..N /\ i \in Int /\ j \in Int /\ c \in served /\ d \in served
          /\ feed[n] = c /\ feed[m] = d /\ ranks[i] = Rank(c, ranges) /\ ranks[j] = Rank(d, ranges)
      BY <2>5, <2>6, <2>10, <2>11
    <3>2. LexLess(Append(ranks[i], i), Append(ranks[j], j))
      BY <2>9, <2>12
    <3>3. i < j => LexLess(AgeOf[c], AgeOf[d])
      BY <2>4, <3>1 DEF InOrder, N
    <3> HIDE DEF i, j, c, d
    <3>4. i < j => LexLess(Age(c), Age(d))
      BY <1>4, <1>5, <3>1, <3>3
    <3>5. LexLess(Append(Rank(c, ranges), i), Append(Rank(d, ranges), j))
      BY <3>1, <3>2
    <3>6. LexLess(Wanted(header, c), Wanted(header, d))
      BY <1>1, <1>4, <2>12, <3>1, <3>4, <3>5, RanksAreWanted
    <3> QED BY <3>1, <3>6
  <2> HIDE DEF wanted
  <2> QED BY <2>11, <2>12 DEF InOrder, N, served, wanted, feed
<1> QED BY <1>6, <1>7

LEMMA FeedFollows == FeedFollowsPreference
<1> SUFFICES ASSUME NEW header \in Headers, NEW restrictions \in SUBSET RESTRICTIONS,
                    NEW feed \in resolve_top_level_feed(rows, header, restrictions)
             PROVE  LET served  == {c \in Catalogs :
                                      /\ rows[c].status = "published" /\ rows[c].recommended
                                      /\ allows(c, restrictions)
                                      /\ contentOf[c].languages = {} \/ Accepting(header, c) # {}}
                        ordered == \A n \in Said(header) : header[n].q.kind # "nan"
                        wanted  == OrderBy(served, [c \in served |-> Wanted(header, c)])
                    IN  /\ ToSet(feed) = served /\ IsInjective(feed)
                        /\ ordered => feed = wanted
  BY DEF FeedFollowsPreference
<1> DEFINE offered == {c \in HasStatus(rows, {"published"}) : rows[c].recommended}
           found   == OrderBy(offered, AgeOf)
           allowed == {c \in Catalogs : allows(c, restrictions)}
           places  == {n \in DOMAIN found : allows(found[n], restrictions)}
           catalogs == Kept(found, places)
           S       == offered \cap allowed
           served  == {c \in Catalogs : /\ rows[c].status = "published" /\ rows[c].recommended
                                        /\ allows(c, restrictions)
                                        /\ contentOf[c].languages = {} \/ Accepting(header, c) # {}}
           keys    == [c \in served |-> Wanted(header, c)]
<1>1. offered \subseteq Catalogs /\ IsFiniteSet(offered)
  <2>1. offered \subseteq Catalogs
    BY DEF HasStatus
  <2> QED BY <2>1, RegistryAssumption, FS_Subset
<1>2. \A c \in Catalogs : AgeOf[c] = Age(c) /\ Age(c) \in Keys(3) /\ Age(c)[3] = c
  BY AgeIsKey DEF AgeOf
<1>3. fetch_recommended_catalogs(rows) = found
  BY DEF fetch_recommended_catalogs, AgeOf, Age
<1>4. InOrder(found, offered, AgeOf)
  <2>1. KeysOf(offered, AgeOf, 3)
    BY <1>1, <1>2 DEF KeysOf
  <2> HIDE DEF offered
  <2> QED BY <1>1, <2>1, OrderByInOrder
<1> HIDE DEF found, offered
<1>5. DOMAIN found = 1..Cardinality(offered) /\ \A n \in DOMAIN found : found[n] \in Catalogs
  BY <1>1, <1>4 DEF InOrder, Lists
<1>6. InOrder(catalogs, S, AgeOf)
  <2>1. \A n \in 1..Cardinality(offered) : n \in places <=> found[n] \in allowed
    BY <1>5
  <2>2. places \subseteq 1..Cardinality(offered)
    BY <1>5
  <2> HIDE DEF places, allowed
  <2> QED BY <1>1, <1>4, <2>1, <2>2, FilteredInOrder
<1>7. PICK ranges \in parse_accept_language(header) : feed = FeedOf(catalogs, ranges)
  BY <1>3 DEF resolve_top_level_feed
<1>8. S \cap Accepted(header) = served
  BY DEF Accepted, offered, HasStatus
<1>9. S \subseteq Catalogs
  BY <1>1
<1> HIDE DEF S, catalogs
<1>10. LET those == S \cap Accepted(header)
       IN  /\ Lists(FeedOf(catalogs, ranges), those)
           /\ Clear(header) => InOrder(FeedOf(catalogs, ranges), those,
                                      [c \in those |-> Wanted(header, c)])
  BY <1>6, <1>9, FeedIsAccepted
<1> HIDE DEF served
<1>11. Lists(feed, served) /\ (Clear(header) => InOrder(feed, served, keys))
  BY <1>7, <1>8, <1>10
<1>12. ToSet(feed) = served /\ IsInjective(feed)
  BY <1>11, ListsAll
<1>13. ASSUME Clear(header) PROVE feed = OrderBy(served, keys)
  <2>1. IsFiniteSet(served) /\ served \subseteq Catalogs
    BY RegistryAssumption, FS_Subset DEF served
  <2>2. PICK pick, ranges_1 : ReadAs(header, ranges_1, pick)
    BY Parsed DEF ReadAs
  <2>3. ASSUME NEW c \in served
        PROVE  keys[c] \in Keys(7) /\ \A n \in 1..3 : keys[c][4 + n] = Age(c)[n]
    <3>1. c \in Catalogs /\ (contentOf[c].languages = {} \/ Accepting(header, c) # {})
      BY DEF served
    <3>2. PICK u, k, e : Alike(header, pick, c, Rank(c, ranges_1), Wanted(header, c), u, k, e)
      BY <1>13, <2>2, <3>1, RankIsAlike
    <3> QED BY <3>2 DEF Alike
  <2>4. \A c \in served : keys[c] \in Keys(7) /\ keys[c][4 + 3] = c
    BY <1>2, <2>1, <2>3
  <2> HIDE DEF keys
  <2>5. KeysOf(served, keys, 7)
    BY <2>4 DEF KeysOf
  <2>6. InOrder(feed, served, keys)
    BY <1>11, <1>13
  <2> QED BY <2>1, <2>5, <2>6, OneOrder
<1> QED BY <1>12, <1>13 DEF served, Clear

\* FeedFollowsPreference: whatever a header says, the feed is what the client accepts, and where every
\* quality is a number it stands in the order the client wants, the one list in that order.
THEOREM FeedIsByPreference == Spec => []FeedFollowsPreference
BY FeedFollows, PTL
=============================================================================

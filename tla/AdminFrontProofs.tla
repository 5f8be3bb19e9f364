--------------------------- MODULE AdminFrontProofs ---------------------------
(***************************************************************************)
(* What AdminFront guarantees for any number of requests, any callers, any *)
(* signing keys and any timeouts: nobody is let in unproven, whatever the  *)
(* key server does meanwhile.                                              *)
(***************************************************************************)
EXTENDS AdminFront, TLAPS

USE AdminFrontAssumption

-----------------------------------------------------------------------------
(* Types.  That the age of a fetch is bounded needs that its holder is fetching, and that a tick *)
(* does not pass over a fetch that is due.                                                       *)

\* The token is looked at only after the service key, and its key only where tokens are verified.
TokenStages == {"waiting", "fetching", "found", "unknown kid", "unreachable"}

RequestsAreSound ==
    \A r \in Requests :
        /\ req[r].stage # "idle" => req[r].caller \in Callers
        /\ req[r].stage \in TokenStages =>
              /\ settings.service_keys /\ req[r].caller.key
              /\ settings.issuer /\ settings.jwks_url /\ req[r].caller.token # NoToken
        /\ req[r].stage = "found" => req[r].caller.token.kid \in Kids

Client == [keys : {NoKeys} \cup SUBSET Kids, lock : Requests \cup {NoOne}, age : 0..FetchTimeout]

LEMMA ClientParts ==
  ASSUME NEW c \in Client
  PROVE  /\ c.keys = NoKeys \/ c.keys \subseteq Kids
         /\ c.keys \in {NoKeys} \cup SUBSET Kids
         /\ c.lock \in Requests \cup {NoOne} /\ c.age \in 0..FetchTimeout
         /\ c = [keys |-> c.keys, lock |-> c.lock, age |-> c.age]
  BY DEF Client

LEMMA ClientMade ==
  ASSUME NEW keys \in {NoKeys} \cup SUBSET Kids, NEW lock \in Requests \cup {NoOne},
         NEW age \in 0..FetchTimeout
  PROVE  [keys |-> keys, lock |-> lock, age |-> age] \in Client
  BY DEF Client

Progress == [stage : Stages, caller : Callers \cup {Nothing}]

Sound ==
    /\ TypeOK
    /\ client \in Client
    /\ req \in [Requests -> Progress]
    /\ RequestsAreSound

LEMMA InitSound == Init => Sound
<1> SUFFICES ASSUME Init PROVE Sound
  OBVIOUS
<1>1. Window \in Nat
  BY DEF Window
<1>2. \A r \in Requests : req[r] = Idle /\ req[r].stage = "idle"
  BY DEF Init, Idle
<1>3. client = [keys |-> NoKeys, lock |-> NoOne, age |-> 0] /\ 0 \in 0..FetchTimeout
  BY DEF Init
<1>4. \A r \in Requests : req[r].stage = "fetching" <=> client.lock = r
  BY <1>2, <1>3
<1>5. TypeOK
  <2>1. issuer \in [state : {"up", "refusing", "slow"}, keys : SUBSET Kids, retired : SUBSET Kids]
    BY DEF Init
  <2>2. client.keys = NoKeys /\ client.age \in 0..FetchTimeout
    BY <1>3
  <2>3. upFor \in 0..Window
    BY <1>1 DEF Init
  <2>4. settings \in Settings /\ failed_at = Never
    BY DEF Init
  <2> QED BY <1>2, <1>4, <2>1, <2>2, <2>3, <2>4 DEF TypeOK, Stages
<1>7. client \in Client
  BY <1>3, ClientMade
<1>6. req \in [Requests -> Progress]
  BY DEF Init, Progress, Idle, Stages
<1> QED BY <1>2, <1>5, <1>6, <1>7 DEF Sound, RequestsAreSound, TokenStages

\* What is left to show of a step that one request takes.
LEMMA RequestStep ==
  ASSUME Sound, UNCHANGED <<settings, issuer, upFor>>, NEW r \in Requests,
         NEW after \in Progress, req' = [req EXCEPT ![r] = after],
         client' \in Client,
         client'.lock # client.lock => client.lock \in {NoOne, r} /\ client'.lock \in {NoOne, r},
         after.stage = "fetching" <=> client'.lock = r,
         failed_at' \in {Never} \cup 0..KeyFetchRetry,
         after = Idle \/ after.caller \in Callers,
         after.stage \in TokenStages =>
              /\ settings.service_keys /\ after.caller.key
              /\ settings.issuer /\ settings.jwks_url /\ after.caller.token # NoToken,
         after.stage = "found" => after.caller.token.kid \in Kids
  PROVE  Sound'
<1>1. req'[r] = after /\ \A q \in Requests \ {r} : req'[q] = req[q]
  BY DEF Sound
<1>2. ASSUME NEW q \in Requests PROVE req'[q].stage = "fetching" <=> client'.lock = q
  <2>1. CASE q = r
    BY <1>1, <2>1
  <2>2. CASE q # r
    BY <1>1, <2>2 DEF Sound, TypeOK
  <2> QED BY <2>1, <2>2
<1>3. client'.keys = NoKeys \/ client'.keys \subseteq Kids
  BY ClientParts
<1>4. client'.age \in 0..FetchTimeout
  BY ClientParts
<1>5. \A q \in Requests : req'[q].stage \in Stages /\ (req'[q] = Idle \/ req'[q].caller \in Callers)
  BY <1>1 DEF Sound, TypeOK, Progress
<1>6. TypeOK'
  BY <1>2, <1>3, <1>4, <1>5 DEF Sound, TypeOK
<1>7. RequestsAreSound'
  BY <1>1 DEF Sound, RequestsAreSound, Idle
<1>8. req' \in [Requests -> Progress]
  BY DEF Sound
<1> QED BY <1>6, <1>7, <1>8 DEF Sound

\* A request that is asking for a key shows one.
LEMMA AskingHasToken ==
  ASSUME Sound, NEW r \in Requests, req[r].stage \in TokenStages
  PROVE  /\ req[r].caller \in Callers /\ req[r].caller.token \in Tokens
         /\ req[r].caller.token # NoToken
<1>1. req[r].caller \in Callers /\ req[r].caller.token # NoToken
  BY DEF Sound, RequestsAreSound, TokenStages
<1> QED BY <1>1, CallersAssumption DEF AllCallers

LEMMA NextSound == Sound /\ [Next]_vars => Sound'
<1> SUFFICES ASSUME Sound, [Next]_vars PROVE Sound'
  OBVIOUS
<1>a. Idle \in Progress /\ Idle.stage = "idle" /\ Idle.stage \notin TokenStages
  BY DEF Idle, Progress, Stages, TokenStages
<1>b. /\ client \in Client
      /\ failed_at \in {Never} \cup 0..KeyFetchRetry
      /\ \A r \in Requests : req[r].stage = "fetching" <=> client.lock = r
  BY DEF Sound, TypeOK
\* An answer frees the request's place.
<1>c. ASSUME NEW r \in Requests, req' = [req EXCEPT ![r] = Idle],
             UNCHANGED <<settings, issuer, upFor, client>>, req[r].stage # "fetching",
             failed_at' \in {Never} \cup 0..KeyFetchRetry
      PROVE  Sound'
  BY <1>a, <1>b, <1>c, RequestStep
\* A request goes on to another stage with the caller it has.
<1>d. ASSUME NEW r \in Requests, NEW stage \in Stages, req[r].stage # "idle",
             req' = [req EXCEPT ![r].stage = stage],
             UNCHANGED <<settings, issuer, upFor, failed_at>>,
             client' \in Client,
             client'.lock # client.lock => client.lock \in {NoOne, r} /\ client'.lock \in {NoOne, r},
             stage = "fetching" <=> client'.lock = r,
             stage \in TokenStages =>
                 /\ settings.service_keys /\ req[r].caller.key
                 /\ settings.issuer /\ settings.jwks_url /\ req[r].caller.token # NoToken,
             stage = "found" => req[r].caller.token.kid \in Kids
      PROVE  Sound'
  <2> DEFINE after == [req[r] EXCEPT !.stage = stage]
  <2>1. req[r] \in Progress /\ req[r].caller \in Callers
    BY <1>d DEF Sound, RequestsAreSound
  <2>2. after \in Progress /\ after.stage = stage /\ after.caller = req[r].caller
    BY <2>1 DEF Progress
  <2>3. req' = [req EXCEPT ![r] = after]
    BY <1>d
  <2> HIDE DEF after
  <2>4. /\ after.stage = "fetching" <=> client'.lock = r
        /\ after.stage \in TokenStages =>
              /\ settings.service_keys /\ after.caller.key
              /\ settings.issuer /\ settings.jwks_url /\ after.caller.token # NoToken
        /\ after.stage = "found" => after.caller.token.kid \in Kids
    BY <1>d, <2>2
  <2>5. failed_at' \in {Never} \cup 0..KeyFetchRetry /\ after.caller \in Callers
    BY <1>b, <1>d, <2>1, <2>2
  <2> QED BY <1>d, <2>2, <2>3, <2>4, <2>5, RequestStep
<1>1. CASE UNCHANGED vars
  BY <1>1 DEF vars, Sound, TypeOK, RequestsAreSound
<1>2. ASSUME NEW r \in Requests, Arrive(r) PROVE Sound'
  <2>1. PICK caller \in Callers :
           req' = [req EXCEPT ![r] = [stage |-> "checking", caller |-> caller]]
    BY <1>2 DEF Arrive
  <2> DEFINE after == [stage |-> "checking", caller |-> caller]
  <2>2. after \in Progress /\ after.stage \notin TokenStages /\ after.stage # "fetching"
        /\ after.stage # "found" /\ after.caller \in Callers
    BY DEF Progress, Stages, TokenStages
  <2>3. req[r].stage # "fetching" /\ UNCHANGED <<settings, issuer, upFor, client, failed_at>>
    BY <1>2, <1>a DEF Arrive
  <2> HIDE DEF after
  <2> QED BY <1>b, <2>1, <2>2, <2>3, RequestStep DEF after
<1>3. ASSUME NEW r \in Requests, Check(r) PROVE Sound'
  <2>1. /\ req[r].stage = "checking" /\ UNCHANGED <<settings, issuer, upFor, client, failed_at>>
        /\ \/ req' = [req EXCEPT ![r] = Idle]
           \/ /\ req' = [req EXCEPT ![r].stage = "waiting"]
              /\ verify_service_key(req[r].caller) = Nothing
              /\ req[r].caller.token # NoToken /\ settings.jwks_url /\ settings.issuer
    BY <1>3 DEF Check, Refuse, Admit
  <2>2. CASE req' = [req EXCEPT ![r] = Idle]
    BY <1>b, <1>c, <2>1, <2>2
  <2>3. CASE /\ req' = [req EXCEPT ![r].stage = "waiting"]
             /\ verify_service_key(req[r].caller) = Nothing
             /\ req[r].caller.token # NoToken /\ settings.jwks_url /\ settings.issuer
    <3>1. req[r].caller.key \in BOOLEAN /\ settings.service_keys \in BOOLEAN
      BY <2>1, CallersAssumption
         DEF Sound, TypeOK, RequestsAreSound, AllCallers, Settings, AllSettings
    <3>2. settings.service_keys /\ req[r].caller.key
      BY <2>3, <3>1, NothingAssumption DEF verify_service_key, Reasons
    <3> QED BY <1>b, <1>d, <2>1, <2>3, <3>2 DEF Stages
  <2> QED BY <2>1, <2>2, <2>3
<1>4. ASSUME NEW r \in Requests, FindCached(r) PROVE Sound'
  <2>1. /\ req[r].stage = "waiting" /\ req' = [req EXCEPT ![r].stage = "found"]
        /\ req[r].caller.token.kid \in Kids
        /\ UNCHANGED <<settings, issuer, upFor, client, failed_at>>
    BY <1>4 DEF FindCached, HasKey, Sound, TypeOK
  <2>2. /\ settings.service_keys /\ req[r].caller.key
        /\ settings.issuer /\ settings.jwks_url /\ req[r].caller.token # NoToken
    BY <2>1 DEF Sound, RequestsAreSound, TokenStages
  <2> QED BY <1>b, <1>d, <2>1, <2>2 DEF Stages
<1>5. ASSUME NEW r \in Requests, BeginFetch(r) PROVE Sound'
  <2>1. /\ req[r].stage = "waiting" /\ req' = [req EXCEPT ![r].stage = "fetching"]
        /\ client.lock = NoOne /\ client' = [client EXCEPT !.lock = r, !.age = 0]
        /\ UNCHANGED <<settings, issuer, upFor, failed_at>>
    BY <1>5 DEF BeginFetch
  <2>2. /\ settings.service_keys /\ req[r].caller.key
        /\ settings.issuer /\ settings.jwks_url /\ req[r].caller.token # NoToken
    BY <2>1 DEF Sound, RequestsAreSound, TokenStages
  <2>3. client' = [keys |-> client.keys, lock |-> r, age |-> 0]
    BY <1>b, <2>1 DEF Client
  <2>4. client'.lock = r /\ client' \in Client
    BY <1>b, <2>3, ClientParts, ClientMade
  <2> QED BY <1>d, <2>1, <2>2, <2>4 DEF Stages
<1>6. ASSUME NEW r \in Requests, EndFetch(r) PROVE Sound'
  <2>1. /\ req[r].stage = "fetching" /\ UNCHANGED <<settings, issuer, upFor, failed_at>>
        /\ \E keys \in {NoKeys, issuer.keys} :
              client' = [keys |-> keys, lock |-> NoOne, age |-> 0]
        /\ \E stage \in {"found", "unknown kid", "unreachable"} :
              /\ req' = [req EXCEPT ![r].stage = stage]
              /\ stage = "found" => req[r].caller.token.kid \in issuer.keys
    BY <1>6 DEF EndFetch
  <2>2. /\ settings.service_keys /\ req[r].caller.key
        /\ settings.issuer /\ settings.jwks_url /\ req[r].caller.token # NoToken
    BY <2>1 DEF Sound, RequestsAreSound, TokenStages
  <2>3. client.lock = r /\ issuer.keys \subseteq Kids
    BY <1>b, <2>1 DEF Sound, TypeOK
  <2>4. client'.lock = NoOne /\ client' \in Client
    <3>1. PICK keys \in {NoKeys, issuer.keys} : client' = [keys |-> keys, lock |-> NoOne, age |-> 0]
      BY <2>1
    <3>2. keys \in {NoKeys} \cup SUBSET Kids /\ 0 \in 0..FetchTimeout
      BY <2>3, <3>1
    <3> QED BY <3>1, <3>2, ClientMade
  <2> QED BY <1>d, <2>1, <2>2, <2>3, <2>4 DEF Stages
<1>7. ASSUME NEW r \in Requests, Resume(r) PROVE Sound'
  <2>1. /\ req[r].stage \in {"found", "unknown kid", "unreachable"}
        /\ UNCHANGED <<settings, issuer, upFor, client>>
        /\ failed_at' \in {Never, failed_at, 0}
    BY <1>7 DEF Resume
  <2>2. req' = [req EXCEPT ![r] = Idle]
    <3>1. req[r].caller.token.claims \in {"good", "bad", "other domain"}
      BY <2>1, AskingHasToken DEF TokenStages, Tokens
    <3> QED BY <1>7, <3>1 DEF Resume, Verify, Admit, Refuse
  <2>3. failed_at' \in {Never} \cup 0..KeyFetchRetry
    <3>1. 0 \in 0..KeyFetchRetry
      OBVIOUS
    <3> QED BY <1>b, <2>1, <3>1
  <2> QED BY <1>c, <2>1, <2>2, <2>3
<1>8. CASE ExpireKeys
  <2>1. /\ client' = [client EXCEPT !.keys = NoKeys]
        /\ UNCHANGED <<settings, issuer, upFor, failed_at, req>>
    BY <1>8 DEF ExpireKeys
  <2>2. client' = [keys |-> NoKeys, lock |-> client.lock, age |-> client.age]
    BY <1>b, <2>1, ClientParts
  <2>3. client' \in Client
    BY <1>b, <2>2, ClientParts, ClientMade
  <2> QED BY <2>1, <2>2, <2>3 DEF Sound, TypeOK, RequestsAreSound
<1>9. CASE ChangeServer \/ Rotate
  <2>1. /\ issuer' \in [state : {"up", "refusing", "slow"}, keys : SUBSET Kids,
                        retired : SUBSET Kids]
        /\ upFor' \in {upFor, 0} /\ UNCHANGED <<settings, client, failed_at, req>>
    <3>1. issuer \in [state : {"up", "refusing", "slow"}, keys : SUBSET Kids,
                      retired : SUBSET Kids]
      BY DEF Sound, TypeOK
    <3>2. CASE ChangeServer
      BY <3>1, <3>2 DEF ChangeServer
    <3>3. CASE Rotate
      <4>1. UNCHANGED <<settings, upFor, client, failed_at, req>>
        BY <3>3 DEF Rotate
      <4>2. \E kid \in Kids : \/ issuer' = [issuer EXCEPT !.keys = @ \cup {kid}]
                            \/ issuer' = [issuer EXCEPT !.keys = @ \ {kid},
                                                       !.retired = @ \cup {kid}]
        BY <3>1, <3>3 DEF Rotate
      <4> QED BY <3>1, <4>1, <4>2
    <3> QED BY <1>9, <3>2, <3>3
  <2>2. Window \in Nat
    BY DEF Window
  <2> QED BY <2>1, <2>2 DEF Sound, TypeOK, RequestsAreSound
<1>10. CASE Tick
  <2>1. UNCHANGED <<settings, issuer, req>>
    BY <1>10 DEF Tick
  <2>2. upFor' \in 0..Window /\ failed_at' \in {Never} \cup 0..KeyFetchRetry
    <3>1. Window \in Nat
      BY DEF Window
    <3>2. upFor' \in 0..Window
      BY <1>10, <3>1 DEF Tick, Older, Sound, TypeOK
    <3>3. failed_at' \in {Never} \cup 0..KeyFetchRetry
      BY <1>10 DEF Tick, Older, Sound, TypeOK
    <3> QED BY <3>2, <3>3
  <2>3. /\ client'.lock = client.lock
        /\ client' \in Client
    <3>1. CASE client.lock = NoOne
      BY <1>10, <1>b, <3>1 DEF Tick
    <3>2. CASE client.lock # NoOne
      <4>1. client.lock \in Requests /\ req[client.lock].stage = "fetching"
        BY <1>b, <3>2, ClientParts
      <4>2. client.age # FetchTimeout
        BY <1>10, <4>1 DEF Tick, Ready
      <4>3. client.age + 1 \in 0..FetchTimeout
        BY <1>b, <4>2, ClientParts
      <4>4. client' = [keys |-> client.keys, lock |-> client.lock, age |-> client.age + 1]
        BY <1>10, <1>b, <3>2, ClientParts DEF Tick
      <4> QED BY <1>b, <4>3, <4>4, ClientParts, ClientMade
    <3> QED BY <3>1, <3>2
  <2> QED BY <2>1, <2>2, <2>3, ClientParts DEF Sound, TypeOK, RequestsAreSound
<1> QED
  BY <1>1, <1>2, <1>3, <1>4, <1>5, <1>6, <1>7, <1>8, <1>9, <1>10 DEF Next, Handle

LEMMA SoundHolds == Spec => []Sound
BY InitSound, NextSound, PTL DEF Spec

\* Type correctness: the client's lock and the requests agree on who is fetching, and no fetch
\* outlives its timeout.
THEOREM TypeCorrect == Spec => []TypeOK
<1>1. Sound => TypeOK
  BY DEF Sound
<1> QED BY <1>1, SoundHolds, PTL

-----------------------------------------------------------------------------
(* Who is let in. *)

LEMMA NextOnlyProven == Sound /\ OnlyProvenCallers /\ [Next]_vars => OnlyProvenCallers'
<1> SUFFICES ASSUME Sound, OnlyProvenCallers, [Next]_vars, Answered(200)'
             PROVE  /\ settings'.service_keys /\ answer'.caller.key
                    /\ \/ /\ settings'.issuer /\ answer'.caller.token # NoToken
                          /\ answer'.caller.token.kid \in Kids
                          /\ answer'.caller.token.claims = "good"
                       \/ ~ValidIn("deployed", settings') /\ ~settings'.issuer
                          /\ answer'.caller.dev = "an address"
  BY DEF OnlyProvenCallers
<1>a. answer' # Nothing /\ answer'.status = 200
  BY DEF Answered
<1>1. CASE UNCHANGED vars
  BY <1>1 DEF vars, OnlyProvenCallers, Answered
<1>b. \A reason : Status(reason) # 200
  BY DEF Status
<1>c. ASSUME NEW r \in Requests, NEW reason, Refuse(r, reason) PROVE FALSE
  BY <1>a, <1>b, <1>c DEF Refuse
<1>2. ASSUME NEW r \in Requests, Check(r)
      PROVE  /\ settings'.service_keys /\ answer'.caller.key
             /\ ~ValidIn("deployed", settings') /\ ~settings'.issuer
             /\ answer'.caller.dev = "an address"
  <2>1. /\ req[r].stage = "checking" /\ verify_service_key(req[r].caller) = Nothing
        /\ UsesDevIdentity(req[r].caller) /\ req[r].caller.dev = "an address"
        /\ Admit(r) /\ UNCHANGED settings
    <3>1. /\ req[r].stage = "checking" /\ UNCHANGED settings
          /\ \/ \E reason : Refuse(r, reason)
             \/ /\ verify_service_key(req[r].caller) = Nothing /\ UsesDevIdentity(req[r].caller)
                /\ req[r].caller.dev = "an address" /\ Admit(r)
             \/ answer' = Nothing
      BY <1>2 DEF Check
    <3> QED BY <1>a, <1>c, <3>1
  <2>2. answer'.caller = req[r].caller
    BY <2>1 DEF Admit
  <2>3. req[r].caller.key \in BOOLEAN /\ settings.service_keys \in BOOLEAN
        /\ settings.dev_identity \in BOOLEAN
    BY <2>1, CallersAssumption
       DEF Sound, TypeOK, RequestsAreSound, AllCallers, Settings, AllSettings
  <2>4. settings.service_keys /\ req[r].caller.key
    BY <2>1, <2>3, NothingAssumption DEF verify_service_key, Reasons
  <2>5. ~ValidIn("deployed", settings) /\ ~settings.issuer
    BY <2>1 DEF UsesDevIdentity, ValidIn
  <2> QED BY <2>1, <2>2, <2>4, <2>5
<1>3. ASSUME NEW r \in Requests, Resume(r)
      PROVE  /\ settings'.service_keys /\ answer'.caller.key
             /\ settings'.issuer /\ answer'.caller.token # NoToken
             /\ answer'.caller.token.kid \in Kids
             /\ answer'.caller.token.claims = "good"
  <2>1. req[r].stage = "found" /\ Verify(r) /\ UNCHANGED settings
    BY <1>3, <1>c DEF Resume
  <2>2. req[r].caller.token.claims \in {"good", "bad", "other domain"}
    BY <2>1, AskingHasToken DEF TokenStages, Tokens
  <2>3. req[r].caller.token.claims = "good" /\ Admit(r)
    BY <1>c, <2>1, <2>2 DEF Verify
  <2>4. answer'.caller = req[r].caller
    BY <2>3 DEF Admit
  <2> QED BY <2>1, <2>3, <2>4 DEF Sound, RequestsAreSound, TokenStages
<1>4. ASSUME NEW r \in Requests, Arrive(r) \/ FindCached(r) \/ BeginFetch(r) \/ EndFetch(r)
      PROVE  FALSE
  BY <1>4, <1>a DEF Arrive, FindCached, BeginFetch, EndFetch
<1>5. CASE ExpireKeys \/ ChangeServer \/ Rotate \/ Tick
  BY <1>5, <1>a DEF ExpireKeys, ChangeServer, Rotate, Tick
<1> QED BY <1>1, <1>2, <1>3, <1>4, <1>5 DEF Next, Handle

\* Whoever is let in has proven who they are, whatever else arrives and however the key server
\* behaves.
THEOREM OnlyProvenAreAdmitted == Spec => []OnlyProvenCallers
<1>1. Init => OnlyProvenCallers
  BY DEF Init, OnlyProvenCallers, Answered
<1> QED BY <1>1, NextOnlyProven, SoundHolds, PTL DEF Spec
-----------------------------------------------------------------------------
(* How long an outage lasts for an editor.  The ages are bounded by each other: a fetch that has   *)
(* been waiting began before the server was back, so a failure is found at most a timeout after    *)
(* that, and is remembered for the retry window.                                                   *)

OutagesAreTimed ==
    /\ issuer.state # "up" => upFor = 0
    /\ client.age > 0 => upFor < client.age /\ client.lock # NoOne
    /\ failed_at # Never => upFor < failed_at + FetchTimeout \/ failed_at = KeyFetchRetry
    /\ \A r \in Requests : req[r].stage = "unreachable" => upFor < FetchTimeout

\* A key that signed a token stays known to the issuer, published or withdrawn; a fetch that does not
\* find it came after it was withdrawn.
KeysAreKnown ==
    \A r \in Requests :
        (req[r].stage # "idle" /\ req[r].caller.token # NoToken) =>
            /\ req[r].caller.token.kid \in issuer.keys \cup issuer.retired \cup {StrayKid}
            /\ req[r].stage = "unknown kid" =>
                   req[r].caller.token.kid \in issuer.retired \cup {StrayKid}

Timely == OutagesAreTimed /\ KeysAreKnown

LEMMA InitTimely == Init => Timely
<1> SUFFICES ASSUME Init PROVE Timely
  OBVIOUS
<1>1. \A r \in Requests : req[r].stage = "idle"
  BY DEF Init, Idle
<1>2. issuer.state = "up" /\ client.age = 0 /\ failed_at = Never
  BY DEF Init
<1>3. OutagesAreTimed
  <2>1. ~(client.age > 0) /\ "idle" # "unreachable"
    BY <1>2
  <2> QED BY <1>1, <1>2, <2>1 DEF OutagesAreTimed
<1>4. KeysAreKnown
  BY <1>1 DEF KeysAreKnown
<1> QED BY <1>3, <1>4 DEF Timely

\* The ages are numbers.
LEMMA Ages ==
  ASSUME Sound
  PROVE  /\ upFor \in Nat /\ client.age \in Nat /\ client.age <= FetchTimeout
         /\ failed_at # Never => failed_at \in Nat /\ failed_at <= KeyFetchRetry
<1>1. Window \in Nat
  BY DEF Window
<1> QED BY <1>1 DEF Sound, TypeOK

\* What is left to show of a step that one request takes: where it is unreachable or has met an
\* unknown key, that this is the server's outage, or the key's withdrawal.
LEMMA TimelyStep ==
  ASSUME Sound, Timely, UNCHANGED <<issuer, upFor>>, NEW r \in Requests, NEW after,
         req' = [req EXCEPT ![r] = after],
         client'.age > 0 => client' = client,
         failed_at' # failed_at => failed_at' = Never \/ upFor < failed_at' + FetchTimeout,
         after.stage = "unreachable" => upFor < FetchTimeout,
         (after.stage # "idle" /\ after.caller.token # NoToken) =>
            /\ after.caller.token.kid \in issuer.keys \cup issuer.retired \cup {StrayKid}
            /\ after.stage = "unknown kid" =>
                   after.caller.token.kid \in issuer.retired \cup {StrayKid}
  PROVE  Timely'
<1>1. req'[r] = after /\ \A q \in Requests \ {r} : req'[q] = req[q]
  BY DEF Sound
<1>2. OutagesAreTimed'
  <2>1. issuer'.state # "up" => upFor' = 0
    BY DEF Timely, OutagesAreTimed
  <2>2. client'.age > 0 => upFor' < client'.age /\ client'.lock # NoOne
    BY DEF Timely, OutagesAreTimed
  <2>3. failed_at' # Never => upFor' < failed_at' + FetchTimeout \/ failed_at' = KeyFetchRetry
    BY DEF Timely, OutagesAreTimed
  <2>4. \A q \in Requests : req'[q].stage = "unreachable" => upFor' < FetchTimeout
    BY <1>1 DEF Timely, OutagesAreTimed
  <2> QED BY <2>1, <2>2, <2>3, <2>4 DEF OutagesAreTimed
<1>3. KeysAreKnown'
  BY <1>1 DEF Timely, KeysAreKnown
<1> QED BY <1>2, <1>3 DEF Timely

LEMMA NextTimely == Sound /\ Timely /\ [Next]_vars => Timely'
<1> SUFFICES ASSUME Sound, Timely, [Next]_vars PROVE Timely'
  OBVIOUS
<1>a. Idle.stage = "idle" /\ "idle" # "unreachable"
  BY DEF Idle
<1>b. client \in Client /\ \A r \in Requests : req[r] \in Progress
  BY DEF Sound
\* A request goes on to another stage.
<1>d. ASSUME NEW r \in Requests, NEW stage \in Stages, req[r].stage # "idle",
             req' = [req EXCEPT ![r].stage = stage],
             UNCHANGED <<issuer, upFor, failed_at>>,
             client'.age > 0 => client' = client,
             stage = "unreachable" => upFor < FetchTimeout,
             (stage = "unknown kid" /\ req[r].caller.token # NoToken) =>
                  req[r].caller.token.kid \in issuer.retired \cup {StrayKid}
      PROVE  Timely'
  <2> DEFINE after == [req[r] EXCEPT !.stage = stage]
  <2>1. after.stage = stage /\ after.caller = req[r].caller
    BY <1>b DEF Progress
  <2>2. req' = [req EXCEPT ![r] = after]
    BY <1>d
  <2>3. req[r].caller.token # NoToken =>
            req[r].caller.token.kid \in issuer.keys \cup issuer.retired \cup {StrayKid}
    BY <1>d DEF Timely, KeysAreKnown
  <2> HIDE DEF after
  <2> QED BY <1>d, <2>1, <2>2, <2>3, TimelyStep
<1>1. CASE UNCHANGED vars
  BY <1>1 DEF vars, Timely, OutagesAreTimed, KeysAreKnown
<1>2. ASSUME NEW r \in Requests, Arrive(r) PROVE Timely'
  <2>1. PICK caller \in Callers :
           /\ Signed(caller.token)
           /\ req' = [req EXCEPT ![r] = [stage |-> "checking", caller |-> caller]]
    BY <1>2 DEF Arrive
  <2> DEFINE after == [stage |-> "checking", caller |-> caller]
  <2>2. after.stage = "checking" /\ after.caller = caller
    OBVIOUS
  <2>3. UNCHANGED <<issuer, upFor, client, failed_at>> /\ req' = [req EXCEPT ![r] = after]
    BY <1>2, <2>1 DEF Arrive
  <2> HIDE DEF after
  <2> QED BY <2>1, <2>2, <2>3, TimelyStep DEF Signed
<1>3. ASSUME NEW r \in Requests, Check(r) PROVE Timely'
  <2>1. /\ req[r].stage = "checking" /\ UNCHANGED <<issuer, upFor, client, failed_at>>
        /\ \/ req' = [req EXCEPT ![r] = Idle]
           \/ req' = [req EXCEPT ![r].stage = "waiting"]
    BY <1>3 DEF Check, Refuse, Admit
  <2>2. CASE req' = [req EXCEPT ![r] = Idle]
    BY <1>a, <2>1, <2>2, TimelyStep
  <2>3. CASE req' = [req EXCEPT ![r].stage = "waiting"]
    BY <1>d, <2>1, <2>3 DEF Stages
  <2> QED BY <2>1, <2>2, <2>3
<1>4. ASSUME NEW r \in Requests, FindCached(r) PROVE Timely'
  <2>1. /\ req[r].stage = "waiting" /\ req' = [req EXCEPT ![r].stage = "found"]
        /\ UNCHANGED <<issuer, upFor, client, failed_at>>
    BY <1>4 DEF FindCached
  <2> QED BY <1>d, <2>1 DEF Stages
<1>5. ASSUME NEW r \in Requests, BeginFetch(r) PROVE Timely'
  <2>1. /\ req[r].stage = "waiting" /\ req' = [req EXCEPT ![r].stage = "fetching"]
        /\ client' = [client EXCEPT !.lock = r, !.age = 0]
        /\ UNCHANGED <<issuer, upFor, failed_at>>
    BY <1>5 DEF BeginFetch
  <2>2. client' = [keys |-> client.keys, lock |-> r, age |-> 0]
    BY <1>b, <2>1 DEF Client
  <2>3. ~(client'.age > 0)
    BY <2>2
  <2> QED BY <1>d, <2>1, <2>3 DEF Stages
<1>6. ASSUME NEW r \in Requests, EndFetch(r) PROVE Timely'
  <2>1. req[r].stage = "fetching" /\ UNCHANGED <<issuer, upFor, failed_at>>
    BY <1>6 DEF EndFetch
  <2>2. ~(client'.age > 0)
    <3>1. \E keys \in {NoKeys, issuer.keys} :
             client' = [keys |-> keys, lock |-> NoOne, age |-> 0]
      BY <1>6 DEF EndFetch
    <3> QED BY <3>1
  <2>3. req[r].caller.token.kid \in issuer.keys \cup issuer.retired \cup {StrayKid}
    BY <2>1, AskingHasToken DEF TokenStages, Timely, KeysAreKnown
  <2>4. CASE issuer.state = "refusing" \/ client.age = FetchTimeout
    <3>1. upFor < FetchTimeout
      BY <2>4, Ages DEF Timely, OutagesAreTimed
    <3>2. \E stage \in {"found", "unknown kid", "unreachable"} :
             /\ req' = [req EXCEPT ![r].stage = stage]
             /\ stage = "unknown kid" => req[r].caller.token.kid \notin issuer.keys
      BY <1>6 DEF EndFetch
    <3> QED BY <1>d, <2>1, <2>2, <2>3, <3>1, <3>2 DEF Stages
  <2>5. CASE ~(issuer.state = "refusing" \/ client.age = FetchTimeout)
    <3>1. \E stage \in {"found", "unknown kid"} :
             /\ req' = [req EXCEPT ![r].stage = stage]
             /\ stage = "unknown kid" => req[r].caller.token.kid \notin issuer.keys
      BY <1>6, <2>5 DEF EndFetch
    <3> QED BY <1>d, <2>1, <2>2, <2>3, <3>1 DEF Stages
  <2> QED BY <2>4, <2>5
<1>7. ASSUME NEW r \in Requests, Resume(r) PROVE Timely'
  <2>1. /\ req[r].stage \in {"found", "unknown kid", "unreachable"}
        /\ UNCHANGED <<issuer, upFor, client>>
        /\ \/ failed_at' = Never \/ failed_at' = failed_at
           \/ req[r].stage = "unreachable" /\ failed_at' = 0
    BY <1>7 DEF Resume
  <2>2. req' = [req EXCEPT ![r] = Idle]
    <3>1. req[r].caller.token.claims \in {"good", "bad", "other domain"}
      BY <2>1, AskingHasToken DEF TokenStages, Tokens
    <3> QED BY <1>7, <3>1 DEF Resume, Verify, Admit, Refuse
  <2>3. failed_at' # failed_at => failed_at' = Never \/ upFor < failed_at' + FetchTimeout
    <3>1. req[r].stage = "unreachable" => upFor < 0 + FetchTimeout
      BY Ages DEF Timely, OutagesAreTimed
    <3> QED BY <2>1, <3>1
  <2> QED BY <1>a, <2>1, <2>2, <2>3, TimelyStep
<1>8. CASE ExpireKeys
  <2>1. /\ client' = [client EXCEPT !.keys = NoKeys]
        /\ UNCHANGED <<issuer, upFor, failed_at, req>>
    BY <1>8 DEF ExpireKeys
  <2>2. client' = [keys |-> NoKeys, lock |-> client.lock, age |-> client.age]
    BY <1>b, <2>1, ClientParts
  <2> QED BY <2>1, <2>2 DEF Timely, OutagesAreTimed, KeysAreKnown
<1>9. CASE ChangeServer
  <2>1. upFor' = 0 /\ UNCHANGED <<client, failed_at, req>>
    BY <1>9 DEF ChangeServer
  <2>2. issuer'.keys = issuer.keys /\ issuer'.retired = issuer.retired
    BY <1>9 DEF ChangeServer, Sound, TypeOK
  <2>3. OutagesAreTimed'
    BY <2>1, Ages DEF Timely, OutagesAreTimed
  <2>4. KeysAreKnown'
    BY <2>1, <2>2 DEF Timely, KeysAreKnown
  <2> QED BY <2>3, <2>4 DEF Timely
<1>10. CASE Rotate
  <2>1. UNCHANGED <<upFor, client, failed_at, req>>
    BY <1>10 DEF Rotate
  <2>2. /\ issuer'.state = issuer.state
        /\ issuer.keys \cup issuer.retired \subseteq issuer'.keys \cup issuer'.retired
        /\ issuer.retired \subseteq issuer'.retired
    <3>1. issuer \in [state : {"up", "refusing", "slow"}, keys : SUBSET Kids,
                      retired : SUBSET Kids]
      BY DEF Sound, TypeOK
    <3>2. PICK kid \in Kids : \/ issuer' = [issuer EXCEPT !.keys = @ \cup {kid}]
                              \/ issuer' = [issuer EXCEPT !.keys = @ \ {kid},
                                                         !.retired = @ \cup {kid}]
      BY <1>10, <3>1 DEF Rotate
    <3>3. \/ issuer' = [state |-> issuer.state, keys |-> issuer.keys \cup {kid},
                        retired |-> issuer.retired]
          \/ issuer' = [state |-> issuer.state, keys |-> issuer.keys \ {kid},
                        retired |-> issuer.retired \cup {kid}]
      BY <3>1, <3>2
    <3> QED BY <3>3
  <2>3. OutagesAreTimed'
    BY <2>1, <2>2 DEF Timely, OutagesAreTimed
  <2>4. KeysAreKnown'
    BY <2>1, <2>2 DEF Timely, KeysAreKnown
  <2> QED BY <2>3, <2>4 DEF Timely
<1>11. CASE Tick
  <2>1. UNCHANGED <<issuer, req>> /\ \A r \in Requests : ~Ready(r)
    BY <1>11 DEF Tick
  <2>2. \A r \in Requests : req'[r].stage # "unreachable"
    BY <2>1 DEF Ready
  <2>3. upFor' = (IF issuer.state = "up" THEN Older(upFor, Window) ELSE 0)
    BY <1>11 DEF Tick
  <2>4. upFor' \in Nat /\ upFor' <= upFor + 1
    <3>1. Window \in Nat /\ upFor <= Window
      BY DEF Window, Sound, TypeOK
    <3> QED BY <2>3, <3>1, Ages DEF Older
  <2>5. client'.age > 0 => upFor' < client'.age /\ client'.lock # NoOne
    <3>1. CASE client.lock = NoOne
      BY <1>11, <3>1 DEF Tick, Timely, OutagesAreTimed
    <3>2. CASE client.lock # NoOne
      <4>1. client.lock \in Requests /\ req[client.lock].stage = "fetching"
        BY <1>b, <3>2, ClientParts DEF Sound, TypeOK
      <4>2. client.age = 0 => issuer.state = "slow"
        BY <2>1, <4>1 DEF Ready
      <4>3. client'.age = client.age + 1 /\ client'.lock = client.lock
        BY <1>11, <1>b, <3>2, ClientParts DEF Tick
      <4>4. CASE client.age = 0
        BY <2>3, <3>2, <4>2, <4>3, <4>4
      <4>5. CASE client.age > 0
        BY <2>4, <3>2, <4>3, <4>5, Ages DEF Timely, OutagesAreTimed
      <4> QED BY <4>4, <4>5, Ages
    <3> QED BY <3>1, <3>2
  <2>6. failed_at' # Never => upFor' < failed_at' + FetchTimeout \/ failed_at' = KeyFetchRetry
    <3>1. failed_at' = IF failed_at = Never THEN Never ELSE Older(failed_at, KeyFetchRetry)
      BY <1>11 DEF Tick
    <3> QED BY <2>4, <3>1, Ages DEF Older, Timely, OutagesAreTimed
  <2>7. issuer'.state # "up" => upFor' = 0
    BY <2>1, <2>3
  <2>8. OutagesAreTimed'
    BY <2>2, <2>5, <2>6, <2>7 DEF OutagesAreTimed
  <2>9. KeysAreKnown'
    BY <2>1 DEF Timely, KeysAreKnown
  <2> QED BY <2>8, <2>9 DEF Timely
<1> QED
  BY <1>1, <1>2, <1>3, <1>4, <1>5, <1>6, <1>7, <1>8, <1>9, <1>10, <1>11 DEF Next, Handle

LEMMA TimelyHolds == Spec => []Timely
BY InitTimely, NextTimely, SoundHolds, PTL DEF Spec

\* A caller who has proven who they are can only be refused for the key server's sake, or for a key
\* that is withdrawn.
LEMMA NextOutageEnds == Sound /\ Timely /\ OutageEnds /\ [Next]_vars => OutageEnds'
<1> SUFFICES ASSUME Sound, Timely, OutageEnds, [Next]_vars,
                    (answer # Nothing /\ Proven(answer.caller))'
             PROVE  /\ answer'.status = 401 => answer'.caller.token.kid \in issuer'.retired
                    /\ answer'.status = 503 => upFor' < KeyFetchRetry + FetchTimeout
                    /\ answer'.status # 403
  BY DEF OutageEnds
<1>0. answer' # Nothing
  OBVIOUS
<1>1. CASE UNCHANGED vars
  BY <1>1 DEF vars, OutageEnds, Proven
<1>a. ASSUME NEW r \in Requests, Admit(r) PROVE answer'.status = 200
  BY <1>a DEF Admit
<1>b. ASSUME NEW r \in Requests, NEW reason, Refuse(r, reason)
      PROVE  answer'.status = Status(reason) /\ answer'.caller = req[r].caller
  BY <1>b DEF Refuse
<1>c. /\ Status("keys") = 503 /\ Status("token") = 401
      /\ \A status : status = 200 => status # 401 /\ status # 403 /\ status # 503
  BY DEF Status
<1>2. ASSUME NEW r \in Requests, Check(r)
      PROVE  answer'.status = 200 \/ (answer'.status = 503 /\ upFor' < KeyFetchRetry + FetchTimeout)
  <2>1. UNCHANGED <<settings, upFor>>
    BY <1>2 DEF Check
  <2>2. answer'.caller = req[r].caller
    <3>1. (\E reason : Refuse(r, reason)) \/ Admit(r)
      BY <1>0, <1>2 DEF Check
    <3> QED BY <3>1 DEF Refuse, Admit
  <2>3. /\ verify_service_key(req[r].caller) = Nothing /\ ~UsesDevIdentity(req[r].caller)
        /\ req[r].caller.token # NoToken /\ settings.jwks_url /\ settings.issuer
    <3>1. /\ settings.jwks_url /\ settings.issuer /\ settings.service_keys
          /\ req[r].caller.key /\ req[r].caller.token # NoToken
      BY <2>1, <2>2 DEF Proven
    <3> QED BY <3>1 DEF verify_service_key, UsesDevIdentity
  <2>4. failed_at # Never /\ failed_at < KeyFetchRetry /\ Refuse(r, "keys")
    BY <1>2, <2>3 DEF Check
  <2>5. upFor < KeyFetchRetry + FetchTimeout
    <3>1. failed_at \in Nat /\ upFor \in Nat /\ failed_at # KeyFetchRetry
      BY <2>4, Ages
    <3>2. upFor < failed_at + FetchTimeout
      BY <2>4, <3>1 DEF Timely, OutagesAreTimed
    <3> QED BY <2>4, <3>1, <3>2
  <2> QED BY <1>b, <1>c, <2>1, <2>4, <2>5
<1>3. ASSUME NEW r \in Requests, Resume(r)
      PROVE  \/ answer'.status = 200
             \/ answer'.status = 503 /\ upFor' < KeyFetchRetry + FetchTimeout
             \/ answer'.status = 401 /\ answer'.caller.token.kid \in issuer'.retired
  <2>1. UNCHANGED <<settings, issuer, upFor>>
    BY <1>3 DEF Resume
  <2>2. req[r].stage \in {"found", "unknown kid", "unreachable"}
    BY <1>3 DEF Resume
  <2>3. req[r].caller.token.claims \in {"good", "bad", "other domain"}
    BY <2>2, AskingHasToken DEF TokenStages, Tokens
  <2>4. answer'.caller = req[r].caller
    <3>1. (\E reason : Refuse(r, reason)) \/ Admit(r)
      BY <1>3, <2>3 DEF Resume, Verify
    <3> QED BY <3>1 DEF Refuse, Admit
  <2>5. req[r].caller.token.claims = "good" /\ req[r].caller.token.kid \in Kids
    BY <2>4 DEF Proven
  <2>6. CASE req[r].stage = "found"
    BY <1>3, <1>a, <2>5, <2>6 DEF Resume, Verify
  <2>7. CASE req[r].stage = "unknown kid"
    <3>1. Refuse(r, "token")
      BY <1>3, <2>7 DEF Resume
    <3>2. req[r].caller.token.kid \in issuer.retired \cup {StrayKid}
      BY <2>7, AskingHasToken DEF TokenStages, Timely, KeysAreKnown
    <3> QED BY <1>b, <1>c, <2>1, <2>5, <3>1, <3>2
  <2>8. CASE req[r].stage = "unreachable"
    <3>1. Refuse(r, "keys")
      BY <1>3, <2>8 DEF Resume
    <3>2. upFor < KeyFetchRetry + FetchTimeout
      BY <2>8, Ages DEF Timely, OutagesAreTimed
    <3> QED BY <1>b, <1>c, <2>1, <3>1, <3>2
  <2> QED BY <2>2, <2>6, <2>7, <2>8
<1>4. ASSUME NEW r \in Requests, Arrive(r) \/ FindCached(r) \/ BeginFetch(r) \/ EndFetch(r)
      PROVE  FALSE
  BY <1>4 DEF Arrive, FindCached, BeginFetch, EndFetch
<1>5. CASE ExpireKeys \/ ChangeServer \/ Rotate \/ Tick
  BY <1>5 DEF ExpireKeys, ChangeServer, Rotate, Tick
<1>6. 401 # 503 /\ 401 # 403 /\ 503 # 403
  OBVIOUS
<1> QED BY <1>1, <1>2, <1>3, <1>4, <1>5, <1>6, <1>c DEF Next, Handle

\* An editor who has proven who they are is never told that the token is bad before its key is
\* withdrawn, nor that the domain is wrong; and is asked to come back for at most the retry window
\* and one fetch's timeout after the key server is up again, however many requests fetch meanwhile.
THEOREM OutagesEnd == Spec => []OutageEnds
<1>1. Init => OutageEnds
  BY DEF Init, OutageEnds
<1> QED BY <1>1, NextOutageEnds, SoundHolds, TimelyHolds, PTL DEF Spec
=============================================================================

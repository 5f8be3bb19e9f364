------------------------------ MODULE AdminFront ------------------------------
(***************************************************************************)
(* How /admin decides who is calling, before any catalog is looked at:     *)
(* the service key, the identity, the issuer's signing keys and their      *)
(* outages.                                                                *)
(*                                                                         *)
(* Requests run on one event loop: what a coroutine does between two       *)
(* awaits is one action.  The search for a signing key runs in a thread,   *)
(* where PyJWKClient lets one caller fetch at a time; failed_at is shared  *)
(* by all requests.  Time is in ticks, kept as ages that stop at the       *)
(* window they are compared with.                                          *)
(***************************************************************************)
EXTENDS Naturals, FiniteSets

CONSTANTS
    Requests,        \* places for requests in progress
    Kids,            \* the signing keys the issuer ever publishes
    StrayKid,        \* a kid it never publishes
    Callers,         \* what arrives, out of AllCallers
    FetchTimeout,    \* PyJWKClient(timeout=5)
    KeyFetchRetry,   \* KEY_FETCH_RETRY_SECONDS
    NoKeys, NoOne, Never, NoToken, Nothing

ASSUME AdminFrontAssumption ==
    /\ FetchTimeout \in Nat \ {0} /\ KeyFetchRetry \in Nat \ {0}
    /\ StrayKid \notin Kids /\ NoOne \notin Requests

\* Settings, and what its validator lets through in an environment; issuer stands for the issuer and
\* its audiences.  The environment has no other use here, so a state holds only the settings.
AllSettings == [service_keys : BOOLEAN, issuer : BOOLEAN, jwks_url : BOOLEAN, dev_identity : BOOLEAN]
ValidIn(environment, s) ==
    /\ s.dev_identity => environment = "local" /\ ~s.issuer
    /\ (environment = "deployed" /\ s.service_keys) => s.issuer /\ s.jwks_url
Settings == {s \in AllSettings : \E environment \in {"local", "deployed"} : ValidIn(environment, s)}

\* What a caller presents.  claims: what jwt.decode and build_identity will find in the token.
Tokens  == [kid : Kids \cup {StrayKid}, claims : {"good", "bad", "other domain"}]
AllCallers == [key : BOOLEAN, dev : {"none", "an address", "no address"},
               token : Tokens \cup {NoToken}]
ASSUME CallersAssumption == Callers \subseteq AllCallers

Reasons == {"not configured", "service key", "missing token", "token", "identity", "keys", "domain"}
Status(reason) == CASE reason \in {"not configured", "keys"} -> 503
                    [] reason = "domain"                     -> 403
                    [] OTHER                                 -> 401

ASSUME NothingAssumption == Nothing \notin Reasons

VARIABLES
    settings,
    issuer,     \* [state, keys, retired]: how its key server answers, and the keys it publishes
    upFor,      \* how long it has been up, history for OutageEnds
    client,     \* PyJWKClient: [keys, lock, age]: the cached key set, who fetches, since when
    failed_at,  \* how long ago a fetch failed, or Never
    req,        \* req[r]: [stage, caller]
    answer      \* what the last step answered, if it did: see Admit and Refuse

vars == <<settings, issuer, upFor, client, failed_at, req, answer>>

Window  == KeyFetchRetry + FetchTimeout + 1
Idle    == [stage |-> "idle", caller |-> Nothing]

Init ==
    /\ settings \in Settings
    /\ \E kid \in Kids : issuer = [state |-> "up", keys |-> {kid}, retired |-> {}]
    /\ upFor = Window
    /\ client = [keys |-> NoKeys, lock |-> NoOne, age |-> 0]
    /\ failed_at = Never
    /\ req = [r \in Requests |-> Idle]
    /\ answer = Nothing
------------------------------------------------------------------------------
\* The error handler answers, and logs it (RefusalLog).
Refuse(r, reason) ==
    /\ answer' = [status |-> Status(reason), caller |-> req[r].caller]
    /\ req' = [req EXCEPT ![r] = Idle]

\* The identity is known; the login and the permission are AdminWrites' business.
Admit(r) ==
    /\ answer' = [status |-> 200, caller |-> req[r].caller]
    /\ req' = [req EXCEPT ![r] = Idle]

\* A token is signed with a key that is published by then.
Signed(token) == token # NoToken => token.kid \in issuer.keys \cup issuer.retired \cup {StrayKid}

Arrive(r) ==
    /\ req[r] = Idle
    /\ \E caller \in Callers :
          /\ Signed(caller.token)
          /\ req' = [req EXCEPT ![r] = [stage |-> "checking", caller |-> caller]]
    /\ answer' = Nothing
    /\ UNCHANGED <<settings, issuer, upFor, client, failed_at>>

\* verify_service_key: what it refuses with, or Nothing.
verify_service_key(caller) ==
    CASE ~settings.service_keys              -> "not configured"
      [] settings.service_keys /\ ~caller.key -> "service key"
      [] OTHER                               -> Nothing

\* The setting alone lets a claimed address in, whatever the issuer.
UsesDevIdentity_Always(caller) == caller.dev # "none"

UsesDevIdentity(caller) ==
    caller.dev # "none" /\ settings.dev_identity /\ ~settings.issuer

\* authenticate_admin_caller, as far as the call to the resolver, and the resolver's first test.
Check(r) ==
    LET caller  == req[r].caller
        refused == verify_service_key(caller)
    IN  /\ req[r].stage = "checking"
        /\ \/ refused # Nothing /\ Refuse(r, refused)
           \/ /\ refused = Nothing /\ UsesDevIdentity(caller)
              /\ IF caller.dev = "an address" THEN Admit(r) ELSE Refuse(r, "identity")
           \/ /\ refused = Nothing /\ ~UsesDevIdentity(caller)
              /\ \/ caller.token = NoToken /\ Refuse(r, "missing token")
                 \/ /\ caller.token # NoToken /\ ~(settings.jwks_url /\ settings.issuer)
                    /\ Refuse(r, "token")
                 \/ /\ caller.token # NoToken /\ settings.jwks_url /\ settings.issuer
                    /\ IF failed_at # Never /\ failed_at < KeyFetchRetry
                       THEN Refuse(r, "keys")
                       ELSE /\ req' = [req EXCEPT ![r].stage = "waiting"]
                            /\ answer' = Nothing
        /\ UNCHANGED <<settings, issuer, upFor, client, failed_at>>

\* PyJWKClient.get_signing_key_from_jwt, in its thread: the cached set is searched; a kid it does
\* not hold means a fetch, one caller at a time, under the client's lock.
HasKey(r) == client.keys # NoKeys /\ req[r].caller.token.kid \in client.keys

FindCached(r) ==
    /\ req[r].stage = "waiting" /\ HasKey(r)
    /\ req' = [req EXCEPT ![r].stage = "found"]
    /\ answer' = Nothing
    /\ UNCHANGED <<settings, issuer, upFor, client, failed_at>>

BeginFetch(r) ==
    /\ req[r].stage = "waiting" /\ client.lock = NoOne /\ ~HasKey(r)
    /\ client' = [client EXCEPT !.lock = r, !.age = 0]
    /\ req' = [req EXCEPT ![r].stage = "fetching"]
    /\ answer' = Nothing
    /\ UNCHANGED <<settings, issuer, upFor, failed_at>>

\* A fetch that fails empties the cached set; a slow server fails it at the timeout.
EndFetch(r) ==
    /\ req[r].stage = "fetching"
    /\ \/ /\ issuer.state = "up"
          /\ client' = [keys |-> issuer.keys, lock |-> NoOne, age |-> 0]
          /\ req' = [req EXCEPT ![r].stage =
                        IF req[r].caller.token.kid \in issuer.keys THEN "found" ELSE "unknown kid"]
       \/ /\ issuer.state = "refusing" \/ client.age = FetchTimeout
          /\ client' = [keys |-> NoKeys, lock |-> NoOne, age |-> 0]
          /\ req' = [req EXCEPT ![r].stage = "unreachable"]
    /\ answer' = Nothing
    /\ UNCHANGED <<settings, issuer, upFor, failed_at>>

\* verify_admin_token and build_identity, after the resolver's await.
Verify(r) ==
    LET claims == req[r].caller.token.claims
    IN  CASE claims = "good"         -> Admit(r)
          [] claims = "bad"          -> Refuse(r, "token")
          [] claims = "other domain" -> Refuse(r, "domain")

\* PyJWTError is caught first: a key server that is down is a bad token.
Resume_PyJWTErrorFirst(r) ==
    /\ \/ req[r].stage = "found" /\ failed_at' = Never /\ Verify(r)
       \/ req[r].stage \in {"unknown kid", "unreachable"} /\ UNCHANGED failed_at /\ Refuse(r, "token")
    /\ UNCHANGED <<settings, issuer, upFor, client>>

\* The rest of resolve, back on the event loop.
Resume(r) ==
    /\ \/ req[r].stage = "found"       /\ failed_at' = Never     /\ Verify(r)
       \/ req[r].stage = "unknown kid" /\ UNCHANGED failed_at    /\ Refuse(r, "token")
       \/ req[r].stage = "unreachable" /\ failed_at' = 0         /\ Refuse(r, "keys")
    /\ UNCHANGED <<settings, issuer, upFor, client>>

Handle(r) == Check(r) \/ FindCached(r) \/ BeginFetch(r) \/ EndFetch(r) \/ Resume(r)

\* The cached set lives 300 s.
ExpireKeys ==
    /\ client.keys # NoKeys /\ client.lock = NoOne
    /\ client' = [client EXCEPT !.keys = NoKeys]
    /\ answer' = Nothing
    /\ UNCHANGED <<settings, issuer, upFor, failed_at, req>>

\* The key server fails and comes back.
ChangeServer ==
    /\ \E state \in {"up", "refusing", "slow"} \ {issuer.state} :
          issuer' = [issuer EXCEPT !.state = state]
    /\ upFor' = 0
    /\ answer' = Nothing
    /\ UNCHANGED <<settings, client, failed_at, req>>

\* The issuer rotates its keys: a new one is published, an old one withdrawn for good.
Rotate ==
    /\ \/ \E kid \in Kids \ (issuer.keys \cup issuer.retired) :
             issuer' = [issuer EXCEPT !.keys = @ \cup {kid}]
       \/ \E kid \in issuer.keys :
             /\ issuer.keys # {kid}
             /\ issuer' = [issuer EXCEPT !.keys = @ \ {kid}, !.retired = @ \cup {kid}]
    /\ answer' = Nothing
    /\ UNCHANGED <<settings, upFor, client, failed_at, req>>

Older(age, limit) == IF age < limit THEN age + 1 ELSE limit

\* A tick.  Code that is ready to run does not let one pass, nor does a fetch the server answers at
\* once; one that a slow server has kept waiting may hang on until its timeout, though it is back.
Ready(r) ==
    \/ req[r].stage \in {"checking", "found", "unknown kid", "unreachable"}
    \/ req[r].stage = "waiting" /\ client.lock = NoOne
    \/ req[r].stage = "fetching" /\ IF client.age = 0 THEN issuer.state # "slow"
                                                    ELSE client.age = FetchTimeout

Tick ==
    /\ \A r \in Requests : ~Ready(r)
    /\ client' = IF client.lock = NoOne THEN client ELSE [client EXCEPT !.age = @ + 1]
    /\ failed_at' = IF failed_at = Never THEN Never ELSE Older(failed_at, KeyFetchRetry)
    /\ upFor' = IF issuer.state = "up" THEN Older(upFor, Window) ELSE 0
    /\ answer' = Nothing
    /\ UNCHANGED <<settings, issuer, req>>

Next ==
    \/ \E r \in Requests : Arrive(r)
    \/ \E r \in Requests : Handle(r)
    \/ ExpireKeys \/ ChangeServer \/ Rotate \/ Tick

Spec == Init /\ [][Next]_vars
------------------------------------------------------------------------------
Stages == {"idle", "checking", "waiting", "fetching", "found", "unknown kid", "unreachable"}

\* Every state is well typed; whoever holds the client's lock is fetching, and nobody else is.
TypeOK ==
    /\ settings \in Settings
    /\ issuer \in [state : {"up", "refusing", "slow"}, keys : SUBSET Kids, retired : SUBSET Kids]
    /\ upFor \in 0..Window
    /\ client.keys = NoKeys \/ client.keys \subseteq Kids
    /\ client.age \in 0..FetchTimeout
    /\ \A r \in Requests : req[r].stage = "fetching" <=> client.lock = r
    /\ failed_at \in {Never} \cup 0..KeyFetchRetry
    /\ \A r \in Requests : /\ req[r].stage \in Stages
                           /\ req[r] = Idle \/ req[r].caller \in Callers

Answered(status) == answer # Nothing /\ answer.status = status

\* authenticate_admin_caller: whoever is let in showed a service key, and either a token the issuer
\* signed for one of our domains or, on a local machine with no issuer, an address.
OnlyProvenCallers ==
    Answered(200) =>
        /\ settings.service_keys /\ answer.caller.key
        /\ \/ /\ settings.issuer /\ answer.caller.token # NoToken
              /\ answer.caller.token.kid \in Kids /\ answer.caller.token.claims = "good"
           \/ ~ValidIn("deployed", settings) /\ ~settings.issuer /\ answer.caller.dev = "an address"

Proven(caller) == /\ settings.jwks_url /\ settings.issuer /\ settings.service_keys
                  /\ caller.key /\ caller.token # NoToken
                  /\ caller.token.kid \in Kids /\ caller.token.claims = "good"

\* build_jwks_key_resolver, "the caller did nothing wrong": an outage of the key server is never
\* told to an editor as a bad token, nor is a rotation, until the key is withdrawn; and it is over for
\* every editor once the server has been up for the retry window and one timeout, whatever the
\* other requests, their failed fetches and the stray tokens among them.
OutageEnds ==
    (answer # Nothing /\ Proven(answer.caller)) =>
        /\ answer.status = 401 => answer.caller.token.kid \in issuer.retired
        /\ answer.status = 503 => upFor < KeyFetchRetry + FetchTimeout
        /\ answer.status # 403

\* admin_identity.py:46: "After a failed fetch, answer at once for a while: the client holds a lock
\* during the fetch, so every request would otherwise wait out its own 5 s timeout, one after
\* another".
OneTimeoutPerWindow ==
    [][\A r \in Requests : BeginFetch(r) => failed_at = Never \/ failed_at >= KeyFetchRetry]_vars
==============================================================================

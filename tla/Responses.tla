------------------------------ MODULE Responses ------------------------------
(***************************************************************************)
(* One request through the ASGI stack of create_app, outermost first:      *)
(*                                                                         *)
(*   ServerErrorMiddleware  (Starlette; sends handle_unexpected_error)     *)
(*   ResponseHeadersMiddleware   request id, security headers, no-store    *)
(*   PublicCorsMiddleware        answers a preflight itself                *)
(*   CompressionMiddleware       406, or the coding of the body; the line  *)
(*   ExceptionMiddleware    (Starlette; the handlers of RegistryError,     *)
(*                           HTTPException, RequestValidationError)        *)
(*   the routes             (for /admin: who is asking, then the work)     *)
(*                                                                         *)
(* Requests share nothing here, so there is one at a time.  Every response *)
(* of this program is a start and one body, and no route starts a response *)
(* before its last exception.  The coding, the status, which headers are   *)
(* set and the lines logged are kept; the contents of a body are its size. *)
(***************************************************************************)
EXTENDS Naturals, Sequences, FiniteSets, FiniteSetsExt, SequencesExt

CONSTANTS
    Headers,      \* the Accept-Encoding headers: sequences of [name, q]
    NoHeader,     \* a request without one
    NoCoding,     \* a body as it is
    NoMessage, NoRequest

OFFERED == <<"zstd", "br", "gzip">>
Offered == ToSet(OFFERED)

\* A q-value as it is written, and what float() and the clamp make of it, in halves.  A nan comes
\* out of max(0.0, nan) as 0.0.
Unreadable == 9
Quality == [q \in {"none", "1", "0.5", "0", "-1", "nan", "inf", "x"} |->
              CASE q \in {"none", "1", "inf"} -> 2
                [] q = "0.5"                  -> 1
                [] q \in {"0", "-1", "nan"}   -> 0
                [] q = "x"                    -> Unreadable]

Names == Offered \cup {"*", "identity", "deflate"}

ASSUME HeadersAssumption ==
    /\ NoHeader \notin Headers /\ NoCoding \notin Names
    /\ Headers \subseteq Seq([name : Names, q : DOMAIN Quality])

\* The dictionary keeps the first of two parts that name one coding.
parse_accept_encoding_First(header) ==
    LET parts == IF header = NoHeader THEN <<>> ELSE header
        readable == {i \in DOMAIN parts : Quality[parts[i].q] # Unreadable}
        first(name) == Min({i \in readable : parts[i].name = name})
    IN  [name \in {parts[i].name : i \in readable} |-> Quality[parts[first(name)].q]]

\* A later part of the same name replaces an earlier one, unless it is unreadable.
parse_accept_encoding(header) ==
    LET parts == IF header = NoHeader THEN <<>> ELSE header
        readable == {i \in DOMAIN parts : Quality[parts[i].q] # Unreadable}
        last(name) == Max({i \in readable : parts[i].name = name})
    IN  [name \in {parts[i].name : i \in readable} |-> Quality[parts[last(name)].q]]

Get(wanted, name, default) == IF name \in DOMAIN wanted THEN wanted[name] ELSE default

\* The loop over OFFERED keeps the first of the codings that no other one beats.
choose_encoding(header) ==
    LET wanted == parse_accept_encoding(header)
        quality(coding) ==
            Get(wanted, coding, IF coding = "zstd" THEN 0 ELSE Get(wanted, "*", 0))
        best(i) == /\ quality(OFFERED[i]) > 0
                   /\ \A j \in DOMAIN OFFERED : quality(OFFERED[j]) <= quality(OFFERED[i])
                   /\ \A j \in 1 .. i - 1 : quality(OFFERED[j]) < quality(OFFERED[i])
    IN  IF \E i \in DOMAIN OFFERED : best(i)
        THEN OFFERED[CHOOSE i \in DOMAIN OFFERED : best(i)] ELSE NoCoding

identity_acceptable(header) ==
    LET wanted == parse_accept_encoding(header)
    IN  header # NoHeader => Get(wanted, "identity", Get(wanted, "*", 2)) > 0

(***************************************************************************)
(* The request.  A console request is one the development console makes to *)
(* the app on a visitor's behalf, in process; its path is a public one.    *)
(***************************************************************************)
Sites    == {"public", "console", "dev", "admin"}
Methods  == {"GET", "HEAD", "preflight", "other"}
Requests == [site : Sites, method : Methods, origin : BOOLEAN, accept : Headers \cup {NoHeader}]

\* The Accept-Encoding of the console's clients, and what call_app makes of them.
Parts(names) == [i \in DOMAIN names |-> [name |-> names[i], q |-> "none"]]
CLIENTS == {NoHeader, Parts(<<"identity">>), Parts(<<"gzip">>), Parts(<<"gzip", "deflate">>),
            Parts(<<"gzip", "deflate", "br">>), Parts(<<"gzip", "deflate", "br", "zstd">>)}
call_app == [site : {"console"}, method : {"GET"}, origin : {FALSE}, accept : CLIENTS]

Possible == call_app \cup {r \in Requests : r.site # "console" /\ (r.method = "preflight" => r.origin)}

Sizes == {"small", "large"}   \* below MINIMUM_SIZE, and not

VARIABLES
    request,   \* the request in the stack, or NoRequest
    stage,     \* the layer it has reached
    actor,     \* request.state.admin_actor_id is set
    message,   \* what the app sends: [status, size, coding, length, headers], or NoMessage
    sent,      \* what has left the stack: [message, body], or NoMessage
    lines      \* what was logged of it: a sequence of [kind, status, coding]

vars == <<request, stage, actor, message, sent, lines>>

Init == /\ request = NoRequest /\ stage = "idle" /\ actor = FALSE
        /\ message = NoMessage /\ sent = NoMessage /\ lines = <<>>

is_admin_path(r) == r.site = "admin"
Line(kind, status, coding) == [kind |-> kind, status |-> status, coding |-> coding]

\* JSONResponse: the length is that of the body it was made with.
Plain(status, size, headers) ==
    [status |-> status, size |-> size, coding |-> NoCoding, length |-> NoCoding, headers |-> headers]
build_problem_response(status) == Plain(status, "small", {"security"})
\* The handlers leave no-store to the middleware.
without_caching_Never(m) == m

without_caching(m) ==
    IF is_admin_path(request) THEN [m EXCEPT !.headers = @ \cup {"no-store"}] ELSE m

\* What the two outer middlewares add to a start on its way out.
send_with_headers(m) ==
    [m EXCEPT !.headers = @ \cup {"security", "request-id"}
                            \cup (IF is_admin_path(request) THEN {"no-store"} ELSE {})]
simple_response(m) ==
    IF request.origin /\ ~is_admin_path(request) THEN [m EXCEPT !.headers = @ \cup {"cors"}] ELSE m

add_vary(m) == [m EXCEPT !.headers = @ \cup {"vary"}]

log_admin_request(status) ==
    IF actor THEN <<Line("admin request", status, NoCoding)>> ELSE <<>>

log_client_request(status, coding) ==
    CASE is_admin_path(request)             -> log_admin_request(status)
      [] request.site \in {"dev", "console"} -> <<>>
      [] request.site = "public"            -> <<Line("client", status, coding)>>
------------------------------------------------------------------------------
\* ResponseHeadersMiddleware, on the way in: the id is in the scope from here on.
Receive(r) ==
    /\ stage = "idle"
    /\ request' = r /\ stage' = "cors"
    /\ UNCHANGED <<actor, message, sent, lines>>

\* PublicCorsMiddleware answers a preflight without passing it on, 400 for a method it does not
\* allow; for /admin it is not there.
AnswerPreflight ==
    /\ stage = "cors" /\ request.method = "preflight" /\ ~is_admin_path(request)
    /\ \E status \in {200, 400} :
          sent' = [message |-> send_with_headers(Plain(status, "small", {"cors"})), body |-> NoCoding]
    /\ stage' = "done"
    /\ UNCHANGED <<request, actor, message, lines>>

PassCors ==
    /\ stage = "cors" /\ (request.method = "preflight" => is_admin_path(request))
    /\ stage' = "compression"
    /\ UNCHANGED <<request, actor, message, sent, lines>>

Send(m) == sent' = [message |-> send_with_headers(simple_response(m)), body |-> m.coding]

\* CompressionMiddleware.__call__, before it calls the app.
RefuseCoding ==
    /\ stage = "compression"
    /\ choose_encoding(request.accept) = NoCoding /\ ~identity_acceptable(request.accept)
    /\ lines' = lines \o log_client_request(406, NoCoding)
    /\ Send(add_vary(build_problem_response(406)))
    /\ stage' = "done"
    /\ UNCHANGED <<request, actor, message>>

EnterApp ==
    /\ stage = "compression"
    /\ choose_encoding(request.accept) # NoCoding \/ identity_acceptable(request.accept)
    /\ stage' = "routing"
    /\ UNCHANGED <<request, actor, message, sent, lines>>

\* Every route here answers one method; another one, or no route at all, is Starlette's
\* HTTPException, before any dependency.
Route ==
    /\ stage = "routing" /\ request.method = "GET"
    /\ stage' = IF is_admin_path(request) THEN "authenticating" ELSE "working"
    /\ UNCHANGED <<request, actor, message, sent, lines>>

handle_http_exception ==
    /\ stage = "routing" \/ (stage = "working" /\ request.site = "dev")
    /\ \E status \in IF stage = "working" THEN {422} ELSE {404, 405} :
          message' = without_caching(build_problem_response(status))
    /\ stage' = "responding"
    /\ UNCHANGED <<request, actor, sent, lines>>

authenticate_admin_actor ==
    /\ stage = "authenticating"
    /\ actor' = TRUE /\ stage' = "working"
    /\ UNCHANGED <<request, message, sent, lines>>

\* What a route may raise, by name and status, where the request stands.
Raised ==
    CASE stage = "authenticating" ->
            {<<"AuthenticationError", 401>>, <<"PermissionDeniedError", 403>>,
             <<"AdminUnavailableError", 503>>}
      [] stage = "working" /\ is_admin_path(request) ->
            {<<"PermissionDeniedError", 403>>, <<"NotFoundError", 404>>, <<"ConflictError", 409>>,
             <<"ReadTimeoutError", 503>>}
      [] stage = "working" /\ request.site \in {"public", "console"} ->
            {<<"NotFoundError", 404>>, <<"ValidationError", 422>>, <<"ReadTimeoutError", 503>>}
      [] OTHER -> {}

\* The refusal is logged whether the actor is known or not.
log_admin_refusal_Always(status) == <<Line("refusal", status, NoCoding)>>

\* The refusal log's own window and counts are those of RefusalLog.
log_admin_refusal(status) == IF actor THEN <<>> ELSE <<Line("refusal", status, NoCoding)>>

handle_registry_error ==
    /\ stage \in {"authenticating", "working"}
    /\ \E error \in Raised :
          /\ lines' = lines \o
                (IF /\ is_admin_path(request)
                    /\ error[1] \in {"AuthenticationError", "PermissionDeniedError",
                                     "AdminUnavailableError"}
                 THEN log_admin_refusal(error[2]) ELSE <<>>)
          /\ message' = without_caching(build_problem_response(error[2]))
    /\ stage' = "responding"
    /\ UNCHANGED <<request, actor, sent>>

\* FastAPI's own 422 on public paths; either way after the dependencies.
handle_validation_error ==
    /\ stage = "working"
    /\ message' = IF is_admin_path(request) THEN without_caching(build_problem_response(422))
                                            ELSE Plain(422, "small", {})
    /\ stage' = "responding"
    /\ UNCHANGED <<request, actor, sent, lines>>

Answer ==
    /\ stage = "working"
    /\ \/ \E size \in Sizes : message' = Plain(200, size, {})
       \/ request.site = "public" /\ message' = Plain(503, "small", {})   \* read_readiness
    /\ stage' = "responding"
    /\ UNCHANGED <<request, actor, sent, lines>>

\* respond() in CompressionMiddleware.  A HEAD passes as it is; it has no body on the wire.
RespondHead ==
    /\ stage = "responding" /\ request.method = "HEAD"
    /\ lines' = lines \o log_client_request(message.status, NoCoding)
    /\ Send(add_vary(message))
    /\ stage' = "done"
    /\ UNCHANGED <<request, actor, message>>

Coded(m) ==
    LET encoding == choose_encoding(request.accept)
    IN  IF encoding # NoCoding /\ m.size = "large"
        THEN [[m EXCEPT !.coding = encoding] EXCEPT !.length = encoding] ELSE m

Respond ==
    /\ stage = "responding" /\ request.method # "HEAD"
    /\ lines' = lines \o log_client_request(message.status, Coded(message).coding)
    /\ Send(Coded(add_vary(message)))
    /\ stage' = "done"
    /\ UNCHANGED <<request, actor, message>>

\* An error no handler takes: it passes CompressionMiddleware, which logs it, and the 500 is sent
\* from outside the two middlewares that add headers.
handle_unexpected_error ==
    /\ stage \in {"authenticating", "working"}
    /\ lines' = lines \o log_client_request(500, NoCoding)
                      \o <<Line("unexpected error", 500, NoCoding)>>
    /\ LET response == build_problem_response(500)
       IN  sent' = [message |-> without_caching([response EXCEPT !.headers = @ \cup {"request-id"}]),
                    body |-> NoCoding]
    /\ stage' = "done"
    /\ UNCHANGED <<request, actor, message>>

Close ==
    /\ stage = "done"
    /\ request' = NoRequest /\ stage' = "idle" /\ actor' = FALSE
    /\ message' = NoMessage /\ sent' = NoMessage /\ lines' = <<>>

Next ==
    \/ \E r \in Possible : Receive(r)
    \/ AnswerPreflight \/ PassCors
    \/ RefuseCoding \/ EnterApp
    \/ Route \/ authenticate_admin_actor
    \/ Answer \/ handle_http_exception \/ handle_registry_error \/ handle_validation_error
    \/ RespondHead \/ Respond \/ handle_unexpected_error
    \/ Close

Spec == Init /\ [][Next]_vars
------------------------------------------------------------------------------
Messages == [status : {200, 400, 401, 403, 404, 405, 406, 409, 422, 500, 503}, size : Sizes,
             coding : Offered \cup {NoCoding}, length : Offered \cup {NoCoding},
             headers : SUBSET {"security", "request-id", "no-store", "cors", "vary"}]

\* Every state is well typed, and the length announced is that of the body that was sent: the
\* coding is applied and the header replaced together.
TypeOK ==
    /\ request \in Possible \cup {NoRequest}
    /\ stage \in {"idle", "cors", "compression", "routing", "authenticating", "working",
                  "responding", "done"}
    /\ actor \in BOOLEAN
    /\ message \in Messages \cup {NoMessage}
    /\ sent # NoMessage => /\ sent.message \in Messages
                           /\ sent.message.length = sent.body /\ sent.message.coding = sent.body
    /\ lines \in Seq([kind : {"client", "admin request", "refusal", "unexpected error"},
                      status : Nat, coding : Offered \cup {NoCoding}])

\* RFC 9110 12.5.3, as the module's docstrings restate it, independently of the code: the last
\* readable part that names a coding weighs it, a `*` weighs the others but zstd.
Naming(header, name) ==
    IF header = NoHeader THEN {}
    ELSE {i \in DOMAIN header : header[i].name = name /\ Quality[header[i].q] # Unreadable}
Named(header, name) == Naming(header, name) # {}
Weight(header, name) ==
    Quality[header[CHOOSE i \in Naming(header, name) : \A j \in Naming(header, name) : j <= i].q]
Taken(header, coding) ==
    IF Named(header, coding) THEN Weight(header, coding)
    ELSE IF coding # "zstd" /\ Named(header, "*") THEN Weight(header, "*") ELSE 0
IdentityTaken(header) ==
    IF Named(header, "identity") THEN Weight(header, "identity") > 0
    ELSE Named(header, "*") => Weight(header, "*") > 0
NothingTaken(header) == \A c \in Offered : Taken(header, c) = 0
\* A client takes it, and prefers no other that is offered.
BestTaken(header, coding) ==
    Taken(header, coding) > 0 /\ \A c \in Offered : Taken(header, c) <= Taken(header, coding)

Finished == stage = "done"
Preflight == request.method = "preflight" /\ ~is_admin_path(request)
Negotiated == Finished /\ ~Preflight /\ sent.message.status # 500

\* compression.py: a coding is sent only to a client that takes it, none that it prefers is passed
\* over, a large body goes uncoded only when no coding is taken, and 406 is answered exactly when
\* nothing could be sent: `"gzip;q=0.5, br"`, `*`, refusals, unreadable and repeated q-values.
CodingIsTaken ==
    Negotiated =>
        /\ sent.body # NoCoding => BestTaken(request.accept, sent.body)
        /\ (sent.body = NoCoding /\ request.method # "HEAD" /\ sent.message.size = "large")
              => NothingTaken(request.accept)
        /\ sent.message.status = 406
              <=> NothingTaken(request.accept) /\ ~IdentityTaken(request.accept)

Logged(kind) == {i \in DOMAIN lines : lines[i].kind = kind}
Once(kind, coding) ==
    \E i \in DOMAIN lines : Logged(kind) = {i} /\ lines[i] = Line(kind, sent.message.status, coding)
Never(kind) == Logged(kind) = {}

\* log_client_request, log_admin_request, log_admin_refusal, log_unexpected_error: whichever path
\* the answer took, a public request has one client line and nobody else has one; a request of an
\* identified person has one line and no refusal; a 401, 403 or admin 503 before that has exactly
\* the refusal; a 500 has its error line as well.  Each tells the status and coding that were sent.
LinesTellTheAnswer ==
    Finished =>
        /\ IF request.site = "public" /\ ~Preflight THEN Once("client", sent.body) ELSE Never("client")
        /\ IF actor THEN Once("admin request", NoCoding) ELSE Never("admin request")
        /\ IF ~actor /\ is_admin_path(request) /\ sent.message.status \in {401, 403, 503}
           THEN Once("refusal", NoCoding) ELSE Never("refusal")
        /\ IF sent.message.status = 500 THEN Once("unexpected error", NoCoding)
                                        ELSE Never("unexpected error")

\* middleware.py and exception_handlers.py: every answer, the 500 that is sent past the middlewares
\* and the 406 and preflight that never reach the app included, carries the security headers and
\* the request id; what /admin answers is never stored and never readable across origins; and a
\* shared cache is told of every answer whose coding was negotiated.
AnswersCarryHeaders ==
    Finished =>
        /\ {"security", "request-id"} \subseteq sent.message.headers
        /\ is_admin_path(request) => /\ "no-store" \in sent.message.headers
                                     /\ "cors" \notin sent.message.headers
        /\ Negotiated => "vary" \in sent.message.headers

\* compression.py:192: "Nothing acceptable exists, so say so instead of sending what it refused."
NothingRefusedIsSent ==
    Negotiated /\ sent.body = NoCoding /\ request.method # "HEAD" /\ sent.message.status # 406
        => IdentityTaken(request.accept)

\* admin_log.py:50: "A request refused before the actor is known has the refusal line."  A wrong
\* address is no refusal.
RefusalsAreLogged ==
    Finished /\ is_admin_path(request) /\ ~actor /\ sent.message.status \notin {404, 405}
        => lines # <<>>
==============================================================================

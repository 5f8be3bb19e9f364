---------------------------- MODULE ResponsesProofs ----------------------------
(***************************************************************************)
(* What every answer carries, which coding it has and which lines it       *)
(* leaves, for any Accept-Encoding headers.                                *)
(***************************************************************************)
EXTENDS Responses, Integers, SequenceTheorems, WellFoundedInduction, TLAPS

-----------------------------------------------------------------------------
\* A message of the app, before the middlewares have seen it: it is complete but for their headers.
AppMessages == [status : Nat, size : Sizes, coding : Offered \cup {NoCoding},
                length : Offered \cup {NoCoding}, headers : SUBSET {"security", "no-store"}]

AppAnswers == stage = "responding" => message \in AppMessages

HeadersKept == AppAnswers /\ AnswersCarryHeaders

LEMMA PlainIsAppMessage ==
  ASSUME NEW status \in Nat, NEW size \in Sizes, NEW headers \in SUBSET {"security", "no-store"}
  PROVE  Plain(status, size, headers) \in AppMessages
  BY DEF Plain, AppMessages

LEMMA ProblemIsAppMessage ==
  ASSUME NEW status \in Nat
  PROVE  without_caching(build_problem_response(status)) \in AppMessages
<1>1. build_problem_response(status) \in AppMessages
  BY PlainIsAppMessage DEF build_problem_response, Sizes
<1> QED BY <1>1 DEF without_caching, AppMessages

\* respond() replaces coding and length of a large body, together, and nothing else.
LEMMA CodedMessage ==
  ASSUME NEW m, m = [status |-> m.status, size |-> m.size, coding |-> m.coding,
                     length |-> m.length, headers |-> m.headers]
  PROVE  LET encoding == choose_encoding(request.accept)
             taken == encoding # NoCoding /\ m.size = "large"
         IN  Coded(m) = [status |-> m.status, size |-> m.size,
                         coding |-> IF taken THEN encoding ELSE m.coding,
                         length |-> IF taken THEN encoding ELSE m.length, headers |-> m.headers]
<1> DEFINE c == choose_encoding(request.accept)
           w == [m EXCEPT !.coding = c]
           taken == c # NoCoding /\ m.size = "large"
<1>1. Coded(m) = IF taken THEN [w EXCEPT !.length = c] ELSE m
  BY DEF Coded
<1> HIDE DEF c, taken
<1>2. w = [status |-> m.status, size |-> m.size, coding |-> c, length |-> m.length,
           headers |-> m.headers]
  OBVIOUS
<1> HIDE DEF w
<1>3. [w EXCEPT !.length = c] = [status |-> m.status, size |-> m.size, coding |-> c, length |-> c,
                                 headers |-> m.headers]
  BY <1>2
<1>4. Coded(m) = [status |-> m.status, size |-> m.size,
                  coding |-> IF taken THEN c ELSE m.coding,
                  length |-> IF taken THEN c ELSE m.length, headers |-> m.headers]
  BY <1>1, <1>3
<1> QED BY <1>4 DEF c, taken

\* What the middlewares add on the way out leaves status, size and coding as they are, and adds
\* headers only.
LEMMA SentMessage ==
  ASSUME NEW m \in AppMessages, NEW out \in {add_vary(m), Coded(add_vary(m))}, Send(out)
  PROVE  /\ sent'.message.status = m.status /\ sent'.message.size = m.size
         /\ sent'.body = out.coding
         /\ m.headers \cup {"security", "request-id", "vary"} \subseteq sent'.message.headers
         /\ is_admin_path(request) => "no-store" \in sent'.message.headers
         /\ (is_admin_path(request) /\ "cors" \notin m.headers) => "cors" \notin sent'.message.headers
<1>1. add_vary(m) = [status |-> m.status, size |-> m.size, coding |-> m.coding,
                     length |-> m.length, headers |-> m.headers \cup {"vary"}]
  BY DEF add_vary, AppMessages
<1>2. /\ out.status = m.status /\ out.size = m.size /\ out.headers = m.headers \cup {"vary"}
      /\ out = [status |-> out.status, size |-> out.size, coding |-> out.coding,
                length |-> out.length, headers |-> out.headers]
  BY <1>1, CodedMessage
<1> DEFINE shown == simple_response(out)
<1>3. /\ shown.status = m.status /\ shown.size = m.size
      /\ shown.headers = IF request.origin /\ ~is_admin_path(request)
                         THEN m.headers \cup {"vary", "cors"} ELSE m.headers \cup {"vary"}
      /\ shown = [status |-> shown.status, size |-> shown.size, coding |-> shown.coding,
                  length |-> shown.length, headers |-> shown.headers]
  BY <1>2 DEF simple_response
<1> HIDE DEF shown
<1>4. /\ send_with_headers(shown).status = m.status /\ send_with_headers(shown).size = m.size
      /\ send_with_headers(shown).headers =
            shown.headers \cup {"security", "request-id"}
                          \cup (IF is_admin_path(request) THEN {"no-store"} ELSE {})
  BY <1>3 DEF send_with_headers
<1>5. sent'.message = send_with_headers(shown) /\ sent'.body = out.coding
  BY DEF Send, shown
<1> QED BY <1>3, <1>4, <1>5

\* The 500 is sent past the two middlewares: with its own headers, and uncoded.
LEMMA UnexpectedIs500 ==
  ASSUME handle_unexpected_error
  PROVE  /\ sent'.message.status = 500 /\ sent'.body = NoCoding
         /\ {"security", "request-id"} \subseteq sent'.message.headers
         /\ is_admin_path(request) => /\ "no-store" \in sent'.message.headers
                                      /\ "cors" \notin sent'.message.headers
<1> DEFINE problem  == build_problem_response(500)
           response == [problem EXCEPT !.headers = @ \cup {"request-id"}]
<1>1. problem = [status |-> 500, size |-> "small", coding |-> NoCoding, length |-> NoCoding,
                 headers |-> {"security"}]
  BY DEF build_problem_response, Plain
<1>2. response = [status |-> 500, size |-> "small", coding |-> NoCoding, length |-> NoCoding,
                  headers |-> {"security", "request-id"}]
  BY <1>1
<1> HIDE DEF response
<1>3. sent'.message = without_caching(response) /\ sent'.body = NoCoding
  BY DEF handle_unexpected_error, response
<1>4. /\ sent'.message.status = 500
      /\ sent'.message.headers = {"security", "request-id"} \cup
            (IF is_admin_path(request) THEN {"no-store"} ELSE {})
  BY <1>2, <1>3 DEF without_caching
<1> QED BY <1>3, <1>4

LEMMA NextHeadersKept == HeadersKept /\ [Next]_vars => HeadersKept'
<1> SUFFICES ASSUME HeadersKept, [Next]_vars PROVE HeadersKept'
  OBVIOUS
<1>a. ASSUME stage' = "done", UNCHANGED request,
             {"security", "request-id"} \subseteq sent'.message.headers,
             is_admin_path(request) => /\ "no-store" \in sent'.message.headers
                                       /\ "cors" \notin sent'.message.headers,
             \/ request.method = "preflight" /\ ~is_admin_path(request)
             \/ sent'.message.status = 500
             \/ "vary" \in sent'.message.headers
      PROVE  HeadersKept'
  BY <1>a DEF HeadersKept, AppAnswers, AnswersCarryHeaders, Finished, Negotiated, Preflight,
              is_admin_path
<1>b. ASSUME stage' \notin {"responding", "done"} PROVE HeadersKept'
  BY <1>b DEF HeadersKept, AppAnswers, AnswersCarryHeaders, Finished
<1>c. ASSUME stage' = "responding", message' \in AppMessages PROVE HeadersKept'
  BY <1>c DEF HeadersKept, AppAnswers, AnswersCarryHeaders, Finished
\* The message of the app goes out as it is, but for its coding.
<1>d. ASSUME NEW m \in AppMessages, NEW out \in {add_vary(m), Coded(add_vary(m))}, Send(out),
             stage' = "done", UNCHANGED request
      PROVE  HeadersKept'
  <2>1. "cors" \notin m.headers
    BY DEF AppMessages
  <2> QED BY <1>a, <1>d, <2>1, SentMessage
<1>1. CASE UNCHANGED vars
  BY <1>1 DEF vars, HeadersKept, AppAnswers, AnswersCarryHeaders, Finished, Negotiated, Preflight,
              is_admin_path
<1>2. CASE (\E r \in Possible : Receive(r)) \/ PassCors \/ EnterApp \/ Route
           \/ authenticate_admin_actor \/ Close
  BY <1>2, <1>b DEF Receive, PassCors, EnterApp, Route, authenticate_admin_actor, Close
<1>3. CASE AnswerPreflight
  <2>1. PICK status \in {200, 400} :
           sent' = [message |-> send_with_headers(Plain(status, "small", {"cors"})), body |-> NoCoding]
    BY <1>3 DEF AnswerPreflight
  <2>2. {"security", "request-id"} \subseteq sent'.message.headers
    BY <2>1 DEF send_with_headers, Plain
  <2> QED BY <1>3, <1>a, <2>2 DEF AnswerPreflight
<1>4. CASE RefuseCoding
  <2>1. build_problem_response(406) \in AppMessages
    BY PlainIsAppMessage DEF build_problem_response, Sizes
  <2> QED BY <1>4, <1>d, <2>1 DEF RefuseCoding
<1>5. CASE handle_http_exception
  <2>1. \E status \in {404, 405, 422} :
           message' = without_caching(build_problem_response(status))
    BY <1>5 DEF handle_http_exception
  <2>2. stage' = "responding"
    BY <1>5 DEF handle_http_exception
  <2> QED BY <1>c, <2>1, <2>2, ProblemIsAppMessage
<1>6. CASE handle_registry_error
  <2>1. PICK error \in Raised : message' = without_caching(build_problem_response(error[2]))
    BY <1>6 DEF handle_registry_error
  <2>2. error[2] \in Nat
    BY <2>1 DEF Raised
  <2>3. stage' = "responding"
    BY <1>6 DEF handle_registry_error
  <2> QED BY <1>c, <2>1, <2>2, <2>3, ProblemIsAppMessage
<1>7. CASE handle_validation_error
  <2>1. Plain(422, "small", {}) \in AppMessages
    BY PlainIsAppMessage DEF Sizes
  <2> QED BY <1>7, <1>c, <2>1, ProblemIsAppMessage DEF handle_validation_error
<1>8. CASE Answer
  <2>1. \A size \in Sizes : Plain(200, size, {}) \in AppMessages
    BY PlainIsAppMessage
  <2>2. Plain(503, "small", {}) \in AppMessages
    BY PlainIsAppMessage DEF Sizes
  <2> QED BY <1>8, <1>c, <2>1, <2>2 DEF Answer
<1>9. CASE RespondHead \/ Respond
  <2>1. message \in AppMessages
    BY <1>9 DEF RespondHead, Respond, HeadersKept, AppAnswers
  <2> QED BY <1>9, <1>d, <2>1 DEF RespondHead, Respond
<1>10. CASE handle_unexpected_error
  BY <1>10, <1>a, UnexpectedIs500 DEF handle_unexpected_error
<1> QED
  BY <1>1, <1>2, <1>3, <1>4, <1>5, <1>6, <1>7, <1>8, <1>9, <1>10 DEF Next

\* Every answer carries the headers its path calls for, also those no route has seen.
THEOREM HeadersOnEveryAnswer == Spec => []AnswersCarryHeaders
<1>1. Init => HeadersKept
  BY DEF Init, HeadersKept, AppAnswers, AnswersCarryHeaders, Finished
<1>2. HeadersKept => AnswersCarryHeaders
  BY DEF HeadersKept
<1> QED BY <1>1, <1>2, NextHeadersKept, PTL DEF Spec
------------------------------------------------------------------------------
(***************************************************************************)
(* The coding.  Both the code's dictionary and the property look for the   *)
(* last part that names a coding; that there is one for a header of any    *)
(* length is the least-number principle, turned over.                      *)
(***************************************************************************)
LEMMA LeastNumber ==
  ASSUME NEW S, S \subseteq Nat, S # {}
  PROVE  \E x \in S : \A y \in S : x <= y
<1> DEFINE R == {ss \in Nat \X Nat : ss[1] < ss[2]}
<1>1. IsWellFoundedOn(R, Nat)
  BY NatLessThanWellFounded DEF OpToRel
<1>2. \A x, y \in Nat : x < y => <<x, y>> \in R
  OBVIOUS
<1> HIDE DEF R
<1>3. PICK x \in S : \A y \in S : ~(<<y, x>> \in R)
  BY <1>1, WFMin
<1>4. \A y \in S : y \in Nat /\ x \in Nat
  OBVIOUS
<1>5. \A y \in S : ~(y < x)
  BY <1>2, <1>3, <1>4
<1>6. \A y \in S : x <= y
  BY <1>4, <1>5
<1> QED BY <1>6

LEMMA LastOfSome ==
  ASSUME NEW n \in Nat, NEW S, S \subseteq 1 .. n, S # {}
  PROVE  \E x \in S : \A y \in S : y <= x
<1> DEFINE T == {m \in Nat : n - m \in S}
<1>1. PICK s : s \in S
  OBVIOUS
<1>2. s \in 1 .. n
  BY <1>1
<1>3. n - s \in T /\ T \subseteq Nat
  BY <1>1, <1>2
<1>4. PICK m \in T : \A k \in T : m <= k
  BY <1>3, LeastNumber
<1>5. n - m \in S /\ m \in Nat
  BY <1>4
<1>6. ASSUME NEW y \in S PROVE y <= n - m
  <2>1. y \in 1 .. n
    OBVIOUS
  <2>2. n - y \in T
    BY <2>1
  <2>3. m <= n - y
    BY <2>2, <1>4
  <2> QED BY <2>1, <2>3, <1>5
<1> QED BY <1>5, <1>6

LEMMA PartOfHeader ==
  ASSUME NEW S, NEW s \in Seq(S), NEW i \in 1 .. Len(s)
  PROVE  s[i] \in S
  OBVIOUS

Readable(header) == header = NoHeader \/ header \in Seq([name : Names, q : DOMAIN Quality])

LEMMA QualitiesAreNumbers ==
  \A q \in DOMAIN Quality : Quality[q] # Unreadable => Quality[q] \in {0, 1, 2}
  BY DEF Quality, Unreadable

\* What the code reads of a header is what RFC 9110 says of each name in it.
LEMMA ParsedAsNamed ==
  ASSUME NEW header, Readable(header), NEW name
  PROVE  /\ name \in DOMAIN parse_accept_encoding(header) <=> Named(header, name)
         /\ Named(header, name) => /\ parse_accept_encoding(header)[name] = Weight(header, name)
                           /\ Weight(header, name) \in {0, 1, 2}
<1> DEFINE parts == IF header = NoHeader THEN <<>> ELSE header
           readable == {i \in DOMAIN parts : Quality[parts[i].q] # Unreadable}
           naming(n) == {i \in readable : parts[i].name = n}
           names == {parts[i].name : i \in readable}
           parsed == [n \in names |-> Quality[parts[Max(naming(n))].q]]
<1>0. parse_accept_encoding(header) = parsed
  BY DEF parse_accept_encoding
<1>1. naming(name) = Naming(header, name)
  BY DEF Naming
<1>2. name \in names <=> Named(header, name)
  BY <1>1 DEF Named
<1>3. ASSUME Named(header, name)
      PROVE  parsed[name] = Weight(header, name) /\ Weight(header, name) \in {0, 1, 2}
  <2>1. header # NoHeader /\ header \in Seq([name : Names, q : DOMAIN Quality])
    BY <1>3 DEF Named, Naming, Readable
  <2>2. Len(header) \in Nat /\ DOMAIN header = 1 .. Len(header)
    BY <2>1
  <2>3. Naming(header, name) \subseteq 1 .. Len(header) /\ Naming(header, name) # {}
    BY <1>3, <2>2 DEF Named, Naming
  <2>4. PICK x \in Naming(header, name) : \A y \in Naming(header, name) : y <= x
    BY <2>2, <2>3, LastOfSome
  <2>5. \A y \in Naming(header, name) : y \in Int
    BY <2>3
  <2>6. x = Max(Naming(header, name))
    BY <2>4, <2>5 DEF Max
  <2>7. x = CHOOSE i \in Naming(header, name) : \A j \in Naming(header, name) : j <= i
    BY <2>4, <2>5
  <2>8. parsed[name] = Quality[header[x].q] /\ Weight(header, name) = Quality[header[x].q]
    BY <1>1, <1>2, <1>3, <2>1, <2>6, <2>7 DEF Weight
  <2>9. header[x].q \in DOMAIN Quality /\ Quality[header[x].q] # Unreadable
    <3>1. x \in 1 .. Len(header) /\ Quality[header[x].q] # Unreadable
      BY <2>1, <2>2, <2>4 DEF Naming
    <3>2. header[x] \in [name : Names, q : DOMAIN Quality]
      BY <2>1, <3>1, PartOfHeader
    <3> QED BY <3>1, <3>2
  <2> QED BY <2>8, <2>9, QualitiesAreNumbers
<1> QED BY <1>0, <1>2, <1>3

LEMMA OfferedCodings ==
  /\ DOMAIN OFFERED = 1 .. 3
  /\ OFFERED[1] = "zstd" /\ OFFERED[2] = "br" /\ OFFERED[3] = "gzip"
  /\ Offered = {"zstd", "br", "gzip"}
<1>1. DOMAIN OFFERED = 1 .. 3 /\ OFFERED[1] = "zstd" /\ OFFERED[2] = "br" /\ OFFERED[3] = "gzip"
  BY DEF OFFERED
<1>2. Offered = {OFFERED[i] : i \in 1 .. 3}
  BY <1>1 DEF Offered, ToSet
<1> QED BY <1>1, <1>2

LEMMA TakenIsNumber ==
  ASSUME NEW header, Readable(header), NEW coding
  PROVE  Taken(header, coding) \in {0, 1, 2}
  BY ParsedAsNamed DEF Taken

\* choose_encoding takes a coding nothing offered is better than, and none only if none is taken.
LEMMA BestIsChosen ==
  ASSUME NEW header, Readable(header)
  PROVE  \/ choose_encoding(header) \in Offered /\ BestTaken(header, choose_encoding(header))
         \/ choose_encoding(header) = NoCoding /\ NothingTaken(header)
<1> DEFINE wanted == parse_accept_encoding(header)
           quality(coding) == Get(wanted, coding, IF coding = "zstd" THEN 0 ELSE Get(wanted, "*", 0))
           best(i) == /\ quality(OFFERED[i]) > 0
                      /\ \A j \in DOMAIN OFFERED : quality(OFFERED[j]) <= quality(OFFERED[i])
                      /\ \A j \in 1 .. i - 1 : quality(OFFERED[j]) < quality(OFFERED[i])
           chosen == choose_encoding(header)
<1>1. \A c : quality(c) = Taken(header, c)
  BY ParsedAsNamed DEF Get, Taken
<1>2. chosen = IF \E i \in DOMAIN OFFERED : best(i)
               THEN OFFERED[CHOOSE i \in DOMAIN OFFERED : best(i)] ELSE NoCoding
  BY DEF choose_encoding
<1>3. \A c \in Offered : quality(c) \in {0, 1, 2}
  BY <1>1, TakenIsNumber
<1> HIDE DEF quality, chosen
<1>4. CASE \E i \in DOMAIN OFFERED : best(i)
  <2>1. PICK i \in DOMAIN OFFERED : best(i) /\ chosen = OFFERED[i]
    BY <1>2, <1>4
  <2>2. \A c \in Offered : quality(c) <= quality(OFFERED[i])
    BY <2>1, OfferedCodings
  <2>3. chosen \in Offered /\ quality(chosen) > 0
    BY <2>1, OfferedCodings
  <2> QED BY <1>1, <2>1, <2>2, <2>3 DEF chosen, BestTaken
<1>5. CASE ~ \E i \in DOMAIN OFFERED : best(i)
  <2>1. ~best(1) /\ ~best(2) /\ ~best(3) /\ chosen = NoCoding
    BY <1>2, <1>5, OfferedCodings
  <2>2. quality("zstd") \in {0, 1, 2} /\ quality("br") \in {0, 1, 2} /\ quality("gzip") \in {0, 1, 2}
    BY <1>3, OfferedCodings
  <2>3. quality("zstd") = 0 /\ quality("br") = 0 /\ quality("gzip") = 0
    BY <2>1, <2>2, OfferedCodings
  <2> QED BY <1>1, <2>1, <2>3, OfferedCodings DEF chosen, NothingTaken
<1> QED BY <1>4, <1>5

LEMMA IdentityAsNamed ==
  ASSUME NEW header, Readable(header)
  PROVE  identity_acceptable(header) <=> IdentityTaken(header)
<1>1. header = NoHeader => ~Named(header, "identity") /\ ~Named(header, "*")
  BY DEF Named, Naming
<1> QED BY <1>1, ParsedAsNamed DEF identity_acceptable, IdentityTaken, Get

------------------------------------------------------------------------------
(***************************************************************************)
(* From the header to what is sent.  RequestIsKnown: the request is one of *)
(* those the stack can meet.  CodingSettled: past CompressionMiddleware    *)
(* something can be sent, and what the app sends is neither coded nor one  *)
(* of the two answers that are not its own.                                *)
(***************************************************************************)
RequestIsKnown ==
    stage # "idle" => request.site \in Sites /\ Readable(request.accept)

CodingSettled ==
    /\ stage \in {"routing", "authenticating", "working", "responding"} =>
          choose_encoding(request.accept) # NoCoding \/ identity_acceptable(request.accept)
    /\ stage = "responding" =>
          message \in AppMessages /\ message.coding = NoCoding /\ message.status \notin {406, 500}

CodingKept == RequestIsKnown /\ CodingSettled /\ CodingIsTaken

LEMMA PossibleIsKnown ==
  ASSUME NEW r \in Possible
  PROVE  r.site \in Sites /\ Readable(r.accept)
<1>1. CASE r \in Requests
  BY <1>1, HeadersAssumption DEF Requests, Readable
<1>2. CASE r \in call_app
  <2>1. r.site \in Sites /\ r.accept \in CLIENTS
    BY <1>2 DEF call_app, Sites
  <2>2. {"identity", "gzip", "deflate", "br", "zstd"} \subseteq Names /\ "none" \in DOMAIN Quality
    BY OfferedCodings DEF Names, Quality
  <2>3. ASSUME NEW names \in Seq(Names)
        PROVE  Parts(names) \in Seq([name : Names, q : DOMAIN Quality])
    <3> DEFINE n == Len(names)
               P == [name : Names, q : DOMAIN Quality]
    <3>1. n \in Nat /\ DOMAIN names = 1 .. n /\ \A i \in 1 .. n : names[i] \in Names
      OBVIOUS
    <3>2. \A i \in 1 .. n : [name |-> names[i], q |-> "none"] \in P
      BY <2>2, <3>1
    <3> HIDE DEF n, P
    <3>3. Parts(names) = [i \in 1 .. n |-> [name |-> names[i], q |-> "none"]]
      BY <3>1 DEF Parts
    <3>4. Parts(names) \in Seq(P)
      BY <3>1, <3>2, <3>3
    <3> QED BY <3>4 DEF P
  <2>4. /\ <<"identity">> \in Seq(Names) /\ <<"gzip">> \in Seq(Names)
        /\ <<"gzip", "deflate">> \in Seq(Names) /\ <<"gzip", "deflate", "br">> \in Seq(Names)
        /\ <<"gzip", "deflate", "br", "zstd">> \in Seq(Names)
    BY <2>2
  <2>5. \/ r.accept = NoHeader \/ r.accept = Parts(<<"identity">>) \/ r.accept = Parts(<<"gzip">>)
        \/ r.accept = Parts(<<"gzip", "deflate">>) \/ r.accept = Parts(<<"gzip", "deflate", "br">>)
        \/ r.accept = Parts(<<"gzip", "deflate", "br", "zstd">>)
    BY <2>1 DEF CLIENTS
  <2> QED BY <2>1, <2>3, <2>4, <2>5 DEF Readable
<1> QED BY <1>1, <1>2 DEF Possible

\* A response that goes out through the middlewares is coded as its client takes it.
LEMMA RespondedAsTaken ==
  ASSUME CodingKept, stage = "responding", stage' = "done", UNCHANGED request,
         \/ request.method = "HEAD" /\ Send(add_vary(message))
         \/ request.method # "HEAD" /\ Send(Coded(add_vary(message)))
  PROVE  CodingIsTaken'
<1> DEFINE encoding == choose_encoding(request.accept)
           v == add_vary(message)
<1>0. /\ message \in AppMessages /\ message.coding = NoCoding /\ message.status \notin {406, 500}
      /\ Readable(request.accept)
      /\ encoding # NoCoding \/ identity_acceptable(request.accept)
  BY DEF CodingKept, CodingSettled, RequestIsKnown
<1>1. v = [status |-> message.status, size |-> message.size, coding |-> NoCoding,
           length |-> message.length, headers |-> message.headers \cup {"vary"}]
  BY <1>0 DEF add_vary, AppMessages
<1>2. Coded(v).coding = IF encoding # NoCoding /\ message.size = "large" THEN encoding ELSE NoCoding
  <2> HIDE DEF v, encoding
  <2>1. /\ v = [status |-> v.status, size |-> v.size, coding |-> v.coding, length |-> v.length,
                headers |-> v.headers]
        /\ v.size = message.size /\ v.coding = NoCoding
    BY <1>1
  <2> QED BY <2>1, CodedMessage DEF encoding
<1>3. /\ sent'.message.status = message.status /\ sent'.message.size = message.size
      /\ IF request.method = "HEAD" THEN sent'.body = NoCoding ELSE sent'.body = Coded(v).coding
  <2>1. CASE request.method = "HEAD" /\ Send(v)
    <3>1. sent'.message.status = message.status /\ sent'.message.size = message.size
          /\ sent'.body = v.coding
      BY <1>0, <2>1, SentMessage
    <3> QED BY <1>1, <2>1, <3>1
  <2>2. CASE request.method # "HEAD" /\ Send(Coded(v))
    BY <1>0, <2>2, SentMessage
  <2> QED BY <2>1, <2>2
<1>4. \/ encoding \in Offered /\ BestTaken(request.accept, encoding)
      \/ encoding = NoCoding /\ NothingTaken(request.accept)
  BY <1>0, BestIsChosen
<1>5. NoCoding \notin Offered
  BY HeadersAssumption DEF Names
<1>6. encoding = NoCoding => IdentityTaken(request.accept)
  BY <1>0, IdentityAsNamed
<1>7. encoding \in Offered => ~NothingTaken(request.accept)
  <2>1. Taken(request.accept, encoding) \in {0, 1, 2}
    BY <1>0, TakenIsNumber
  <2> HIDE DEF encoding
  <2> QED BY <1>4, <1>5, <2>1 DEF BestTaken, NothingTaken
<1> HIDE DEF encoding, v
<1>8. /\ sent'.body # NoCoding => BestTaken(request.accept, sent'.body)
      /\ (sent'.body = NoCoding /\ request.method # "HEAD" /\ sent'.message.size = "large")
            => NothingTaken(request.accept)
      /\ sent'.message.status # 406
      /\ ~(NothingTaken(request.accept) /\ ~IdentityTaken(request.accept))
  BY <1>0, <1>2, <1>3, <1>4, <1>5, <1>6, <1>7
<1> QED BY <1>8 DEF CodingIsTaken

\* What the handlers and the routes hand to the middlewares.
LEMMA ProblemOfApp ==
  ASSUME NEW status \in Nat \ {406, 500}
  PROVE  LET m == without_caching(build_problem_response(status))
         IN  m \in AppMessages /\ m.coding = NoCoding /\ m.status \notin {406, 500}
             /\ m.status = status
<1> DEFINE p == build_problem_response(status)
           m == without_caching(p)
<1>1. m \in AppMessages
  BY ProblemIsAppMessage
<1>2. p = [status |-> status, size |-> "small", coding |-> NoCoding, length |-> NoCoding,
           headers |-> {"security"}]
  BY DEF build_problem_response, Plain
<1> HIDE DEF p
<1>3. m.coding = NoCoding /\ m.status = status
  BY <1>2 DEF without_caching
<1> QED BY <1>1, <1>3 DEF p

LEMMA PlainOfApp ==
  ASSUME NEW status \in Nat \ {406, 500}, NEW size \in Sizes
  PROVE  LET m == Plain(status, size, {})
         IN  m \in AppMessages /\ m.coding = NoCoding /\ m.status \notin {406, 500}
             /\ m.status = status
<1>1. Plain(status, size, {}) \in AppMessages
  BY PlainIsAppMessage
<1> QED BY <1>1 DEF Plain

OfApp(m) == m \in AppMessages /\ m.coding = NoCoding /\ m.status \notin {406, 500}

\* Each of the four ways to respond has a message of the app.
LEMMA HandlersRespond ==
  ASSUME handle_http_exception \/ handle_registry_error \/ handle_validation_error \/ Answer
  PROVE  stage' = "responding" /\ UNCHANGED request /\ OfApp(message')
<1>1. CASE handle_http_exception
  <2>1. PICK status \in {404, 405, 422} :
           message' = without_caching(build_problem_response(status))
    BY <1>1 DEF handle_http_exception
  <2>2. status \in Nat \ {406, 500}
    BY <2>1
  <2> QED BY <1>1, <2>1, <2>2, ProblemOfApp DEF handle_http_exception, OfApp
<1>2. CASE handle_registry_error
  <2>1. PICK error \in Raised : message' = without_caching(build_problem_response(error[2]))
    BY <1>2 DEF handle_registry_error
  <2>2. error[2] \in Nat \ {406, 500}
    BY <2>1 DEF Raised
  <2> QED BY <1>2, <2>1, <2>2, ProblemOfApp DEF handle_registry_error, OfApp
<1>3. CASE handle_validation_error
  <2>1. 422 \in Nat \ {406, 500} /\ "small" \in Sizes
    BY DEF Sizes
  <2> QED BY <1>3, <2>1, ProblemOfApp, PlainOfApp DEF handle_validation_error, OfApp
<1>4. CASE Answer
  <2>1. /\ 200 \in Nat \ {406, 500} /\ 503 \in Nat \ {406, 500}
        /\ "small" \in Sizes
    BY DEF Sizes
  <2>2. \E status \in {200, 503}, size \in Sizes : message' = Plain(status, size, {})
    BY <1>4, <2>1 DEF Answer
  <2> QED BY <1>4, <2>1, <2>2, PlainOfApp DEF Answer, OfApp
<1> QED BY <1>1, <1>2, <1>3, <1>4

LEMMA RefusalIs406 ==
  ASSUME RefuseCoding
  PROVE  sent'.message.status = 406 /\ sent'.message.size = "small" /\ sent'.body = NoCoding
<1> DEFINE problem == build_problem_response(406)
           out == add_vary(problem)
<1>1. problem = [status |-> 406, size |-> "small", coding |-> NoCoding, length |-> NoCoding,
                 headers |-> {"security"}]
  BY DEF build_problem_response, Plain
<1>2. problem \in AppMessages
  BY PlainIsAppMessage DEF build_problem_response, Sizes
<1>3. Send(out)
  BY DEF RefuseCoding
<1> HIDE DEF problem
<1>4. sent'.message.status = 406 /\ sent'.message.size = "small" /\ sent'.body = out.coding
  BY <1>1, <1>2, <1>3, SentMessage
<1>5. out.coding = NoCoding
  BY <1>1 DEF add_vary
<1> QED BY <1>4, <1>5

LEMMA NextCodingKept == CodingKept /\ [Next]_vars => CodingKept'
<1> SUFFICES ASSUME CodingKept, [Next]_vars PROVE CodingKept'
  OBVIOUS
<1>a. ASSUME stage' = "done", UNCHANGED request, stage # "idle", CodingIsTaken' PROVE CodingKept'
  BY <1>a DEF CodingKept, RequestIsKnown, CodingSettled
<1>1. CASE UNCHANGED vars
  BY <1>1 DEF vars, CodingKept, RequestIsKnown, CodingSettled, CodingIsTaken, Negotiated, Finished,
              Preflight, is_admin_path
<1>2. CASE \E r \in Possible : Receive(r)
  <2>1. stage' = "cors" /\ request'.site \in Sites /\ Readable(request'.accept)
    BY <1>2, PossibleIsKnown DEF Receive
  <2> QED BY <2>1 DEF CodingKept, RequestIsKnown, CodingSettled, CodingIsTaken, Negotiated, Finished
<1>3. CASE PassCors \/ EnterApp \/ Route \/ authenticate_admin_actor \/ Close
  BY <1>3 DEF PassCors, EnterApp, Route, authenticate_admin_actor, Close, CodingKept,
              RequestIsKnown, CodingSettled, CodingIsTaken, Negotiated, Finished
<1>4. CASE handle_http_exception \/ handle_registry_error \/ handle_validation_error \/ Answer
  <2>1. stage' = "responding" /\ UNCHANGED request /\ OfApp(message')
    BY <1>4, HandlersRespond
  <2>2. stage \in {"routing", "authenticating", "working"}
    BY <1>4 DEF handle_http_exception, handle_registry_error, handle_validation_error, Answer
  <2> QED BY <2>1, <2>2 DEF OfApp, CodingKept, RequestIsKnown, CodingSettled, CodingIsTaken,
                            Negotiated, Finished
<1>5. CASE RespondHead \/ Respond
  <2>1. CodingIsTaken'
    BY <1>5, RespondedAsTaken DEF RespondHead, Respond
  <2> QED BY <1>5, <1>a, <2>1 DEF RespondHead, Respond
<1>6. CASE AnswerPreflight
  <2>1. CodingIsTaken'
    BY <1>6 DEF AnswerPreflight, CodingIsTaken, Negotiated, Preflight, is_admin_path
  <2> QED BY <1>6, <1>a, <2>1 DEF AnswerPreflight
<1>7. CASE RefuseCoding
  <2>1. sent'.message.status = 406 /\ sent'.message.size = "small" /\ sent'.body = NoCoding
    BY <1>7, RefusalIs406
  <2>2. choose_encoding(request.accept) = NoCoding /\ ~identity_acceptable(request.accept)
        /\ Readable(request.accept)
    BY <1>7 DEF RefuseCoding, CodingKept, RequestIsKnown
  <2>3. NothingTaken(request.accept) /\ ~IdentityTaken(request.accept)
    BY <2>2, BestIsChosen, IdentityAsNamed, HeadersAssumption DEF Names
  <2>4. stage' = "done" /\ UNCHANGED request /\ stage # "idle"
    BY <1>7 DEF RefuseCoding
  <2>5. CodingIsTaken'
    BY <2>1, <2>3, <2>4 DEF CodingIsTaken
  <2> QED BY <1>a, <2>4, <2>5
<1>8. CASE handle_unexpected_error
  <2>1. sent'.message.status = 500 /\ stage' = "done" /\ UNCHANGED request /\ stage # "idle"
    BY <1>8, UnexpectedIs500 DEF handle_unexpected_error
  <2>2. CodingIsTaken'
    BY <2>1 DEF CodingIsTaken, Negotiated
  <2> QED BY <1>a, <2>1, <2>2
<1> QED
  BY <1>1, <1>2, <1>3, <1>4, <1>5, <1>6, <1>7, <1>8 DEF Next

\* Whatever the Accept-Encoding, of any length: what is sent is the best the client takes.
THEOREM CodingFollowsHeader == Spec => []CodingIsTaken
<1>1. Init => CodingKept
  BY DEF Init, CodingKept, RequestIsKnown, CodingSettled, CodingIsTaken, Negotiated, Finished
<1>2. CodingKept => CodingIsTaken
  BY DEF CodingKept
<1> QED BY <1>1, <1>2, NextCodingKept, PTL DEF Spec
------------------------------------------------------------------------------
(***************************************************************************)
(* The lines.  ActorKnown: who is asking is known exactly where a back-    *)
(* office route is at work, or later.  LinesSoFar: before the answer at    *)
(* most the one refusal is there, of a request whose actor is not known.   *)
(***************************************************************************)
ActorKnown ==
    /\ stage \in {"idle", "cors", "compression", "routing", "authenticating"} => ~actor
    /\ stage = "authenticating" => is_admin_path(request)
    /\ stage = "working" => (actor <=> is_admin_path(request))
    /\ stage \in {"responding", "done"} /\ actor => is_admin_path(request)
    /\ stage \in {"compression", "routing", "authenticating", "working", "responding"} => ~Preflight

RefusedUnknown(r, known, status) == ~known /\ is_admin_path(r) /\ status \in {401, 403, 503}

\* The lines an answer leaves, by its path: none, one, or the line of the request and the error's.
Expected(r, known, status, coding) ==
    LET first == IF r.site = "public" /\ r.method # "preflight"
                 THEN <<Line("client", status, coding)>>
                 ELSE IF known THEN <<Line("admin request", status, NoCoding)>>
                 ELSE IF RefusedUnknown(r, known, status) THEN <<Line("refusal", status, NoCoding)>> ELSE <<>>
        second == IF status = 500 THEN <<Line("unexpected error", 500, NoCoding)>> ELSE <<>>
    IN  first \o second

LinesSoFar ==
    /\ stage \notin {"responding", "done"} => lines = <<>>
    /\ stage = "responding" =>
          lines = IF RefusedUnknown(request, actor, message.status)
                  THEN <<Line("refusal", message.status, NoCoding)>> ELSE <<>>
    /\ stage = "done" => lines = Expected(request, actor, sent.message.status, sent.body)

LinesKept == CodingKept /\ ActorKnown /\ LinesSoFar

LEMMA JoinLines ==
  ASSUME NEW a, NEW b
  PROVE  /\ <<>> \o <<>> = <<>> /\ <<a>> \o <<>> = <<a>> /\ <<>> \o <<b>> = <<b>>
         /\ <<a>> \o <<b>> = <<a, b>>
<1>1. <<a>> \o <<b>> = <<a, b>>
  <2>1. <<a>> \in Seq({a, b}) /\ <<b>> \in Seq({a, b}) /\ <<a, b>> \in Seq({a, b})
    OBVIOUS
  <2>2. /\ <<a>> \o <<b>> \in Seq({a, b}) /\ Len(<<a>> \o <<b>>) = 2
        /\ \A i \in 1 .. 2 : (<<a>> \o <<b>>)[i] = <<a, b>>[i]
    BY <2>1, ConcatProperties
  <2> QED BY <2>1, <2>2, SeqEqual
<1>2. <<a>> \o <<>> = <<a>>
  <2>1. <<a>> \in Seq({a})
    OBVIOUS
  <2> QED BY <2>1, ConcatEmptySeq
<1>3. <<>> \o <<b>> = <<b>>
  OBVIOUS
<1>4. <<>> \o <<>> = <<>>
  OBVIOUS
<1> QED BY <1>1, <1>2, <1>3, <1>4

LEMMA LineParts ==
  ASSUME NEW kind, NEW status, NEW coding
  PROVE  Line(kind, status, coding).kind = kind
  BY DEF Line

Kinds == {"client", "admin request", "refusal", "unexpected error"}

LEMMA ExpectedTells == LinesKept => LinesTellTheAnswer
<1> SUFFICES ASSUME LinesKept, Finished PROVE LinesTellTheAnswer
  BY DEF LinesTellTheAnswer
<1>0. (actor => is_admin_path(request))
      /\ lines = Expected(request, actor, sent.message.status, sent.body)
  BY DEF LinesKept, LinesSoFar, ActorKnown, Finished
<1> DEFINE status == sent.message.status
           body == sent.body
<1>1. is_admin_path(request) => request.site # "public"
  BY DEF is_admin_path
<1>2. ASSUME lines = <<>> PROVE \A kind \in Kinds : Never(kind)
  BY <1>2 DEF Never, Logged
<1>3. ASSUME NEW kind \in Kinds, NEW coding, lines = <<Line(kind, status, coding)>>
      PROVE  Once(kind, coding) /\ \A k \in Kinds : k # kind => Never(k)
  <2>1. DOMAIN lines = {1} /\ lines[1] = Line(kind, status, coding)
    BY <1>3
  <2>2. \A k : Logged(k) = IF k = kind THEN {1} ELSE {}
    BY <2>1, LineParts DEF Logged
  <2> QED BY <2>1, <2>2 DEF Once, Never
<1>4. ASSUME NEW kind \in Kinds, NEW coding, NEW other \in Kinds, kind # other,
             lines = <<Line(kind, status, coding), Line(other, status, NoCoding)>>
      PROVE  /\ Once(kind, coding) /\ Once(other, NoCoding)
             /\ \A k \in Kinds : k \notin {kind, other} => Never(k)
  <2>1. DOMAIN lines = {1, 2} /\ lines[1] = Line(kind, status, coding)
        /\ lines[2] = Line(other, status, NoCoding)
    BY <1>4
  <2>2. \A k : Logged(k) = IF k = kind THEN {1} ELSE IF k = other THEN {2} ELSE {}
    BY <1>4, <2>1, LineParts DEF Logged
  <2> QED BY <1>4, <2>1, <2>2 DEF Once, Never
<1> DEFINE public == request.site = "public" /\ request.method # "preflight"
           refused == RefusedUnknown(request, actor, status)
           line == IF public THEN Line("client", status, body)
                   ELSE IF actor THEN Line("admin request", status, NoCoding)
                   ELSE Line("refusal", status, NoCoding)
           error == Line("unexpected error", 500, NoCoding)
<1>p. request.site = "public" /\ ~Preflight <=> public
  BY <1>1 DEF Preflight
<1>5. refused => ~actor /\ is_admin_path(request) /\ status \in {401, 403, 503}
  BY DEF RefusedUnknown
<1>6. lines = IF public \/ actor \/ refused
              THEN IF status = 500 THEN <<line, error>> ELSE <<line>>
              ELSE IF status = 500 THEN <<error>> ELSE <<>>
  <2> DEFINE first == IF public THEN <<Line("client", status, body)>>
                      ELSE IF actor THEN <<Line("admin request", status, NoCoding)>>
                      ELSE IF refused THEN <<Line("refusal", status, NoCoding)>> ELSE <<>>
             second == IF status = 500 THEN <<error>> ELSE <<>>
  <2>1. lines = first \o second
    BY <1>0 DEF Expected
  <2>2. first = IF public \/ actor \/ refused THEN <<line>> ELSE <<>>
    OBVIOUS
  <2> HIDE DEF first, line, error, public, refused, status
  <2> QED BY <2>1, <2>2, JoinLines
<1> HIDE DEF public, refused, status, body
<1>7. /\ IF public THEN Once("client", body) ELSE Never("client")
      /\ IF actor THEN Once("admin request", NoCoding) ELSE Never("admin request")
      /\ IF refused THEN Once("refusal", NoCoding) ELSE Never("refusal")
      /\ IF status = 500 THEN Once("unexpected error", NoCoding) ELSE Never("unexpected error")
  <2>0. public => ~actor /\ ~refused
    BY <1>0, <1>1, <1>5 DEF public
  <2>1. CASE public /\ status = 500
    <3>1. lines = <<Line("client", status, body), Line("unexpected error", status, NoCoding)>>
      BY <1>6, <2>1
    <3>2. /\ Once("client", body) /\ Once("unexpected error", NoCoding)
          /\ Never("admin request") /\ Never("refusal")
      BY <1>4, <3>1 DEF Kinds
    <3> QED BY <2>0, <2>1, <3>2
  <2>2. CASE public /\ status # 500
    <3>1. lines = <<Line("client", status, body)>>
      BY <1>6, <2>2
    <3>2. /\ Once("client", body)
          /\ Never("admin request") /\ Never("refusal") /\ Never("unexpected error")
      BY <1>3, <3>1 DEF Kinds
    <3> QED BY <2>0, <2>2, <3>2
  <2>3. CASE ~public /\ actor /\ status = 500
    <3>1. lines = <<Line("admin request", status, NoCoding),
                    Line("unexpected error", status, NoCoding)>>
      BY <1>6, <2>3
    <3>2. /\ Once("admin request", NoCoding) /\ Once("unexpected error", NoCoding)
          /\ Never("client") /\ Never("refusal")
      BY <1>4, <3>1 DEF Kinds
    <3> QED BY <1>5, <2>3, <3>2
  <2>4. CASE ~public /\ actor /\ status # 500
    <3>1. lines = <<Line("admin request", status, NoCoding)>>
      BY <1>6, <2>4
    <3>2. /\ Once("admin request", NoCoding)
          /\ Never("client") /\ Never("refusal") /\ Never("unexpected error")
      BY <1>3, <3>1 DEF Kinds
    <3> QED BY <1>5, <2>4, <3>2
  <2>5. CASE ~public /\ ~actor /\ refused
    <3>0. status # 500
      BY <1>5, <2>5
    <3>1. lines = <<Line("refusal", status, NoCoding)>>
      BY <1>6, <2>5, <3>0
    <3>2. /\ Once("refusal", NoCoding)
          /\ Never("client") /\ Never("admin request") /\ Never("unexpected error")
      BY <1>3, <3>1 DEF Kinds
    <3> QED BY <2>5, <3>0, <3>2
  <2>6. CASE ~public /\ ~actor /\ ~refused /\ status = 500
    <3>1. lines = <<Line("unexpected error", status, NoCoding)>>
      BY <1>6, <2>6
    <3>2. /\ Once("unexpected error", NoCoding)
          /\ Never("client") /\ Never("admin request") /\ Never("refusal")
      BY <1>3, <3>1 DEF Kinds
    <3> QED BY <2>6, <3>2
  <2>7. CASE ~public /\ ~actor /\ ~refused /\ status # 500
    <3>1. lines = <<>>
      BY <1>6, <2>7
    <3>2. Never("client") /\ Never("admin request") /\ Never("refusal") /\ Never("unexpected error")
      BY <1>2, <3>1 DEF Kinds
    <3> QED BY <2>7, <3>2
  <2> QED BY <2>1, <2>2, <2>3, <2>4, <2>5, <2>6, <2>7
<1> QED BY <1>7, <1>p DEF status, body, refused, LinesTellTheAnswer, RefusedUnknown

\* What log_client_request writes once the app has answered, on top of what is there already.
LEMMA LogCompletes ==
  ASSUME NEW status, NEW coding, request.site \in Sites, ~Preflight,
         actor => is_admin_path(request), status # 500,
         lines = IF RefusedUnknown(request, actor, status) THEN <<Line("refusal", status, NoCoding)>> ELSE <<>>
  PROVE  lines \o log_client_request(status, coding) = Expected(request, actor, status, coding)
<1> DEFINE refused == RefusedUnknown(request, actor, status)
<1>0. refused => ~actor /\ is_admin_path(request)
  BY DEF RefusedUnknown
<1>1. is_admin_path(request) <=> request.site = "admin"
  BY DEF is_admin_path
<1>2. log_client_request(status, coding) =
        IF request.site = "public" THEN <<Line("client", status, coding)>>
        ELSE IF actor THEN <<Line("admin request", status, NoCoding)>> ELSE <<>>
  BY <1>1 DEF log_client_request, log_admin_request, Sites
<1> DEFINE c == <<Line("client", status, coding)>>
           a == <<Line("admin request", status, NoCoding)>>
           r == <<Line("refusal", status, NoCoding)>>
<1>3. Expected(request, actor, status, coding) =
        (IF request.site = "public" THEN c ELSE IF actor THEN a ELSE IF refused THEN r ELSE <<>>)
           \o <<>>
  BY <1>1 DEF Expected, Preflight
<1>4. /\ c \o <<>> = c /\ <<>> \o c = c /\ a \o <<>> = a /\ <<>> \o a = a
      /\ r \o <<>> = r /\ <<>> \o <<>> = <<>>
  BY JoinLines
<1> HIDE DEF refused, c, a, r
<1>5. CASE request.site = "public"
  BY <1>0, <1>1, <1>2, <1>3, <1>4, <1>5 DEF refused, c
<1>6. CASE request.site # "public" /\ actor
  BY <1>0, <1>2, <1>3, <1>4, <1>6 DEF refused, a
<1>7. CASE request.site # "public" /\ ~actor /\ refused
  BY <1>2, <1>3, <1>4, <1>7 DEF refused, r
<1>8. CASE request.site # "public" /\ ~actor /\ ~refused
  BY <1>2, <1>3, <1>4, <1>8 DEF refused
<1> QED BY <1>5, <1>6, <1>7, <1>8

LEMMA ErrorCompletes ==
  ASSUME request.site \in Sites, ~Preflight, actor => is_admin_path(request)
  PROVE  <<>> \o log_client_request(500, NoCoding) \o <<Line("unexpected error", 500, NoCoding)>>
           = Expected(request, actor, 500, NoCoding)
<1> DEFINE c == <<Line("client", 500, NoCoding)>>
           a == <<Line("admin request", 500, NoCoding)>>
           e == <<Line("unexpected error", 500, NoCoding)>>
           first == IF request.site = "public" THEN c ELSE IF actor THEN a ELSE <<>>
<1>1. is_admin_path(request) <=> request.site = "admin"
  BY DEF is_admin_path
<1>2. log_client_request(500, NoCoding) = first
  BY <1>1 DEF log_client_request, log_admin_request, Sites
<1>3. ~RefusedUnknown(request, actor, 500)
  BY DEF RefusedUnknown
<1>4. Expected(request, actor, 500, NoCoding) = first \o e
  <2> DEFINE p == request.site = "public" /\ request.method # "preflight"
             refused == RefusedUnknown(request, actor, 500)
             r == <<Line("refusal", 500, NoCoding)>>
  <2>1. Expected(request, actor, 500, NoCoding) =
          (IF p THEN c ELSE IF actor THEN a ELSE IF refused THEN r ELSE <<>>) \o e
    BY DEF Expected
  <2>2. p <=> request.site = "public"
    BY <1>1 DEF Preflight
  <2> HIDE DEF p, c, a, e, r
  <2> QED BY <1>3, <2>1, <2>2
<1>5. <<>> \o c = c /\ <<>> \o a = a /\ <<>> \o <<>> = <<>>
  BY JoinLines
<1> HIDE DEF c, a, e
<1>6. <<>> \o first = first
  BY <1>5
<1> HIDE DEF first
<1>7. <<>> \o log_client_request(500, NoCoding) \o e = first \o e
  BY <1>2, <1>6
<1> QED BY <1>4, <1>7 DEF e

LEMMA PreflightStatus ==
  ASSUME AnswerPreflight
  PROVE  sent'.message.status \in {200, 400}
<1>1. PICK status \in {200, 400} :
         sent' = [message |-> send_with_headers(Plain(status, "small", {"cors"})), body |-> NoCoding]
  BY DEF AnswerPreflight
<1> DEFINE p == Plain(status, "small", {"cors"})
<1>2. p = [status |-> status, size |-> "small", coding |-> NoCoding, length |-> NoCoding,
           headers |-> {"cors"}]
  BY DEF Plain
<1> HIDE DEF p
<1>3. send_with_headers(p).status = status
  BY <1>2 DEF send_with_headers
<1>4. sent'.message = send_with_headers(p)
  BY <1>1 DEF p
<1> QED BY <1>3, <1>4

\* respond() logs the coding it is about to send.
LEMMA LoggedAsSent ==
  ASSUME RespondHead \/ Respond, message \in AppMessages, message.coding = NoCoding
  PROVE  /\ sent'.message.status = message.status
         /\ lines' = lines \o log_client_request(message.status, sent'.body)
<1> DEFINE v == add_vary(message)
<1>1. v = [status |-> message.status, size |-> message.size, coding |-> NoCoding,
           length |-> message.length, headers |-> message.headers \cup {"vary"}]
  BY DEF add_vary, AppMessages
<1>2. CASE RespondHead
  <2>1. Send(v) /\ lines' = lines \o log_client_request(message.status, NoCoding)
    BY <1>2 DEF RespondHead
  <2>2. sent'.message.status = message.status /\ sent'.body = v.coding
    BY <2>1, SentMessage
  <2> QED BY <1>1, <2>1, <2>2
<1>3. CASE Respond
  <2>1. Send(Coded(v)) /\ lines' = lines \o log_client_request(message.status, Coded(message).coding)
    BY <1>3 DEF Respond
  <2>2. sent'.message.status = message.status /\ sent'.body = Coded(v).coding
    BY <2>1, SentMessage
  <2> DEFINE encoding == choose_encoding(request.accept)
  <2>3. message = [status |-> message.status, size |-> message.size, coding |-> message.coding,
                   length |-> message.length, headers |-> message.headers]
    BY DEF AppMessages
  <2>4. Coded(message).coding =
          IF encoding # NoCoding /\ message.size = "large" THEN encoding ELSE NoCoding
    <3> HIDE DEF encoding
    <3> QED BY <2>3, CodedMessage DEF encoding
  <2>5. Coded(v).coding =
          IF encoding # NoCoding /\ message.size = "large" THEN encoding ELSE NoCoding
    <3> HIDE DEF v, encoding
    <3>1. /\ v = [status |-> v.status, size |-> v.size, coding |-> v.coding, length |-> v.length,
                  headers |-> v.headers]
          /\ v.size = message.size /\ v.coding = NoCoding
      BY <1>1
    <3> QED BY <3>1, CodedMessage DEF encoding
  <2> QED BY <2>1, <2>2, <2>4, <2>5
<1> QED BY <1>2, <1>3

\* The handlers leave the refusal and nothing else.
LEMMA HandlersLog ==
  ASSUME LinesKept,
         handle_http_exception \/ handle_registry_error \/ handle_validation_error \/ Answer
  PROVE  /\ stage' = "responding" /\ UNCHANGED <<request, actor>>
         /\ lines' = IF RefusedUnknown(request, actor, message'.status)
                     THEN <<Line("refusal", message'.status, NoCoding)>> ELSE <<>>
<1>0. /\ stage \in {"routing", "authenticating", "working"} => lines = <<>>
      /\ stage \in {"routing", "authenticating"} => ~actor
      /\ stage = "authenticating" => is_admin_path(request)
      /\ stage = "working" => (actor <=> is_admin_path(request))
  BY DEF LinesKept, LinesSoFar, ActorKnown
<1>1. CASE handle_http_exception
  <2>1. PICK status \in {404, 405, 422} :
           message' = without_caching(build_problem_response(status))
    BY <1>1 DEF handle_http_exception
  <2>2. status \in Nat \ {406, 500}
    BY <2>1
  <2>3. message'.status = status /\ status \notin {401, 403, 503}
    BY <2>1, <2>2, ProblemOfApp
  <2> QED BY <1>0, <1>1, <2>3 DEF handle_http_exception, RefusedUnknown
<1>2. CASE handle_registry_error
  <2> DEFINE logged(error) == /\ is_admin_path(request)
                              /\ error[1] \in {"AuthenticationError", "PermissionDeniedError",
                                               "AdminUnavailableError"}
  <2>1. PICK error \in Raised :
           /\ lines' = lines \o (IF logged(error) THEN log_admin_refusal(error[2]) ELSE <<>>)
           /\ message' = without_caching(build_problem_response(error[2]))
    BY <1>2 DEF handle_registry_error
  <2>2. error[2] \in Nat \ {406, 500}
    BY <2>1 DEF Raised
  <2>3. message'.status = error[2]
    BY <2>1, <2>2, ProblemOfApp
  <2>4. stage \in {"authenticating", "working"} /\ stage' = "responding"
        /\ UNCHANGED <<request, actor>>
    BY <1>2 DEF handle_registry_error
  <2>5. CASE stage = "authenticating"
    <3>1. logged(error) /\ error[2] \in {401, 403, 503}
      BY <1>0, <2>1, <2>5 DEF Raised
    <3>2. log_admin_refusal(error[2]) = <<Line("refusal", error[2], NoCoding)>>
      BY <1>0, <2>5 DEF log_admin_refusal
    <3>3. lines' = <<Line("refusal", error[2], NoCoding)>>
      BY <1>0, <2>1, <2>5, <3>1, <3>2, JoinLines
    <3> QED BY <1>0, <2>3, <2>4, <2>5, <3>1, <3>3 DEF RefusedUnknown
  <2>6. CASE stage = "working"
    <3>1. (IF logged(error) THEN log_admin_refusal(error[2]) ELSE <<>>) = <<>>
      BY <1>0, <2>6 DEF log_admin_refusal
    <3>2. lines' = <<>>
      BY <1>0, <2>1, <2>6, <3>1, JoinLines
    <3> QED BY <1>0, <2>4, <2>6, <3>2 DEF RefusedUnknown
  <2> QED BY <2>4, <2>5, <2>6
<1>3. CASE handle_validation_error \/ Answer
  BY <1>0, <1>3 DEF handle_validation_error, Answer, RefusedUnknown
<1> QED BY <1>1, <1>2, <1>3

LEMMA NextLinesKept == LinesKept /\ [Next]_vars => LinesKept'
<1> SUFFICES ASSUME LinesKept, [Next]_vars PROVE LinesKept'
  OBVIOUS
<1>r. ASSUME ActorKnown', LinesSoFar' PROVE LinesKept'
  BY <1>r, NextCodingKept DEF LinesKept
\* The answer is on its way, with the lines of its path.
<1>d. ASSUME stage' = "done", UNCHANGED <<request, actor>>, actor => is_admin_path(request),
             lines' = Expected(request, actor, sent'.message.status, sent'.body)
      PROVE  LinesKept'
  <2>1. ActorKnown'
    BY <1>d DEF ActorKnown, is_admin_path
  <2>2. LinesSoFar'
    BY <1>d DEF LinesSoFar
  <2> QED BY <1>r, <2>1, <2>2
<1>k. /\ stage # "idle" => request.site \in Sites
      /\ stage = "responding" =>
            message \in AppMessages /\ message.coding = NoCoding /\ message.status \notin {406, 500}
  BY DEF LinesKept, CodingKept, CodingSettled, RequestIsKnown
<1>1. CASE UNCHANGED vars
  <2>1. ActorKnown'
    BY <1>1 DEF vars, LinesKept, ActorKnown, Preflight, is_admin_path
  <2>2. LinesSoFar'
    BY <1>1 DEF vars, LinesKept, LinesSoFar
  <2> QED BY <1>r, <2>1, <2>2
<1>2. CASE (\E r \in Possible : Receive(r)) \/ PassCors \/ EnterApp \/ Route
           \/ authenticate_admin_actor \/ Close
  <2>1. ActorKnown' /\ LinesSoFar'
    BY <1>2 DEF Receive, PassCors, EnterApp, Route, authenticate_admin_actor, Close, LinesKept,
                ActorKnown, LinesSoFar, Preflight, is_admin_path
  <2> QED BY <1>r, <2>1
<1>3. CASE handle_http_exception \/ handle_registry_error \/ handle_validation_error \/ Answer
  <2>1. /\ stage' = "responding" /\ UNCHANGED <<request, actor>>
        /\ lines' = IF RefusedUnknown(request, actor, message'.status)
                    THEN <<Line("refusal", message'.status, NoCoding)>> ELSE <<>>
    BY <1>3, HandlersLog
  <2>2. ~Preflight /\ (actor => is_admin_path(request))
    <3>1. stage \in {"routing", "authenticating", "working"}
      BY <1>3 DEF handle_http_exception, handle_registry_error, handle_validation_error, Answer
    <3> QED BY <3>1 DEF LinesKept, ActorKnown
  <2>3. ActorKnown' /\ LinesSoFar'
    BY <2>1, <2>2 DEF ActorKnown, LinesSoFar, RefusedUnknown, Preflight, is_admin_path
  <2> QED BY <1>r, <2>1, <2>3
<1>4. CASE AnswerPreflight
  <2>1. Preflight /\ ~actor /\ lines = <<>>
    BY <1>4 DEF AnswerPreflight, Preflight, LinesKept, ActorKnown, LinesSoFar
  <2>2. sent'.message.status \in {200, 400}
    BY <1>4, PreflightStatus
  <2>3. lines' = Expected(request, actor, sent'.message.status, sent'.body)
    <3>1. lines' = <<>>
      BY <1>4, <2>1 DEF AnswerPreflight
    <3>2. ~RefusedUnknown(request, actor, sent'.message.status) /\ sent'.message.status # 500
          /\ request.method = "preflight"
      BY <2>1, <2>2 DEF RefusedUnknown, Preflight
    <3> QED BY <2>1, <3>1, <3>2, JoinLines DEF Expected
  <2> QED BY <1>4, <1>d, <2>1, <2>3 DEF AnswerPreflight
<1>5. CASE RefuseCoding
  <2>1. ~Preflight /\ ~actor /\ lines = <<>> /\ request.site \in Sites
    BY <1>5, <1>k DEF RefuseCoding, LinesKept, ActorKnown, LinesSoFar
  <2>2. lines' = lines \o log_client_request(406, NoCoding)
    BY <1>5 DEF RefuseCoding
  <2>3. sent'.message.status = 406 /\ sent'.body = NoCoding
    BY <1>5, RefusalIs406
  <2>4. lines' = Expected(request, actor, 406, NoCoding)
    BY <2>1, <2>2, LogCompletes DEF RefusedUnknown
  <2> QED BY <1>5, <1>d, <2>1, <2>3, <2>4 DEF RefuseCoding
<1>6. CASE RespondHead \/ Respond
  <2>1. /\ stage = "responding" /\ stage' = "done" /\ UNCHANGED <<request, actor>>
    BY <1>6 DEF RespondHead, Respond
  <2>2. /\ ~Preflight /\ (actor => is_admin_path(request)) /\ request.site \in Sites
        /\ message.status # 500
        /\ lines = IF RefusedUnknown(request, actor, message.status)
                   THEN <<Line("refusal", message.status, NoCoding)>> ELSE <<>>
    BY <1>k, <2>1 DEF LinesKept, ActorKnown, LinesSoFar
  <2>3. /\ sent'.message.status = message.status
        /\ lines' = lines \o log_client_request(message.status, sent'.body)
    BY <1>6, <1>k, <2>1, LoggedAsSent
  <2>4. lines' = Expected(request, actor, message.status, sent'.body)
    BY <2>2, <2>3, LogCompletes
  <2> QED BY <1>d, <2>1, <2>2, <2>3, <2>4
<1>7. CASE handle_unexpected_error
  <2>1. /\ ~Preflight /\ (actor => is_admin_path(request)) /\ request.site \in Sites /\ lines = <<>>
        /\ stage' = "done" /\ UNCHANGED <<request, actor>>
    BY <1>7, <1>k DEF handle_unexpected_error, LinesKept, ActorKnown, LinesSoFar
  <2>2. sent'.message.status = 500 /\ sent'.body = NoCoding
    BY <1>7, UnexpectedIs500
  <2>3. lines' = lines \o log_client_request(500, NoCoding)
                       \o <<Line("unexpected error", 500, NoCoding)>>
    BY <1>7 DEF handle_unexpected_error
  <2>4. lines' = Expected(request, actor, 500, NoCoding)
    BY <2>1, <2>3, ErrorCompletes
  <2> QED BY <1>d, <2>1, <2>2, <2>4
<1> QED
  BY <1>1, <1>2, <1>3, <1>4, <1>5, <1>6, <1>7 DEF Next

\* Every path to an answer leaves the lines of that answer, and no other.
THEOREM LinesFollowAnswer == Spec => []LinesTellTheAnswer
<1>1. Init => LinesKept
  BY DEF Init, LinesKept, ActorKnown, LinesSoFar, CodingKept, RequestIsKnown, CodingSettled,
         CodingIsTaken, Negotiated, Finished
<1> QED BY <1>1, ExpectedTells, NextLinesKept, PTL DEF Spec
==============================================================================

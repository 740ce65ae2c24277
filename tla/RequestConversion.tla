------------------------- MODULE RequestConversion -------------------------
(***************************************************************************)
(* How a request the program describes becomes the one that is sent.       *)
(*                                                                         *)
(* There are two descriptions: HttpRequestInstance, whose shape is fixed   *)
(* at compile time (`typed'), and HttpSpec, built at run time (`spec').    *)
(* The model builds both with the same calls, in any order, so that what   *)
(* RequestConverter::convertToQNetworkRequest and                          *)
(* HttpSpec::toNetworkRequest make of them can be compared; NetworkService *)
(* may add its common headers to both before they are sent.                *)
(*                                                                         *)
(* A header is known by its key as it was spelled: QHash tells spellings   *)
(* apart, QNetworkRequest does not and keeps the one set last, which is up *)
(* to the order of a QHash.                                                *)
(***************************************************************************)
EXTENDS Integers, Sequences

CONSTANTS
    IntMax,         \* the greatest int, which milliseconds are cast to
    Milliseconds,   \* timeouts the program asks for
    ClientTimeouts, \* the builder's totalTimeout, in milliseconds
    Redirects,      \* the builder's followRedirects: a policy and the most hops
    QtRedirects,    \* the hops Qt follows when a request does not say
    Common          \* the keys of NetworkService::commonHeaders()

\* The keys a program uses, and the header each one means.
NameOf == [Authorization |-> "authorization", authorization |-> "authorization",
           Accept |-> "accept", ContentType |-> "content-type"]
Keys  == DOMAIN NameOf
Names == {NameOf[k] : k \in Keys}

ASSUME RequestConversionAssumption ==
    /\ IntMax \in Nat
    /\ Milliseconds \subseteq Int /\ ClientTimeouts \subseteq Int
    /\ Redirects \subseteq [policy : {"manual", "follow"}, max : Int]
    /\ QtRedirects \in Nat
    /\ Common \subseteq Keys

VARIABLES
    built,      \* what the builder was told
    client,     \* what it made of that
    method,     \* "GET" or "POST", of both
    json,       \* the typed request declares a Body<TypeModel>
    declared,   \* it declares a Header<"Content-Type">
    parts,      \* it is an HttpMultipartRequest
    typed,      \* HttpRequestInstance: runtime_headers, timeout_override_ms
    spec,       \* HttpSpec: headers_, body_, content_type_, parts_, timeout
    asked,      \* the timeout asked for last, if any, in milliseconds
    sent        \* what went out for typed and for spec

vars == <<built, client, method, json, declared, parts, typed, spec, asked, sent>>
meta == <<built, client, method, json, declared, parts>>

NoHeaders == [k \in {} |-> ""]
Insert(headers, k, v) ==
    [j \in DOMAIN headers \cup {k} |-> IF j = k THEN v ELSE headers[j]]

\* The values that may end up in the request for a header name.
Winners(headers, name) ==
    LET spelled == {k \in DOMAIN headers : NameOf[k] = name}
    IN  IF spelled = {} THEN {""} ELSE {headers[k] : k \in spelled}

\* static_cast<int>(ms.count()).
ToInt(ms) == ((ms + IntMax + 1) % (2 * IntMax + 2)) - (IntMax + 1)

NotSent == [kind |-> "no"]

\* NetworkClientBuilder::build: the hops are kept for a policy that follows.
Build(b) ==
    [timeout   |-> ToInt(b.timeout),
     policy    |-> b.redirects.policy,
     redirects |-> IF b.redirects.policy = "manual" THEN 0 ELSE b.redirects.max]

Init ==
    /\ built \in [timeout : ClientTimeouts, redirects : Redirects]
    /\ client = Build(built)
    /\ method \in {"GET", "POST"}
    /\ json \in BOOLEAN /\ declared \in BOOLEAN
    /\ parts \in (IF method = "POST" /\ ~json THEN BOOLEAN ELSE {FALSE})
    /\ typed = [headers |-> NoHeaders, timeout |-> -1]
    /\ spec = [headers |-> NoHeaders, body |-> "", ctype |-> "json",
               parts |-> parts, timeout |-> -1]
    /\ asked = {}
    /\ sent = NotSent

---------------------------------------------------------------------------
(* Describing the request.                                                 *)

Building == sent.kind = "no"

Header(k) ==
    /\ Building
    /\ typed' = [typed EXCEPT !.headers = Insert(@, k, "caller")]
    /\ spec'  = [spec EXCEPT !.headers = Insert(@, k, "caller")]
    /\ UNCHANGED <<meta, asked, sent>>

\* Mutant: a timeout of zero is no timeout of its own.
TimeoutPositiveOnly(ms) ==
    /\ Building
    /\ typed' = [typed EXCEPT !.timeout = ToInt(ms)]
    /\ spec'  = [spec EXCEPT !.timeout = IF ToInt(ms) > 0 THEN ToInt(ms) ELSE @]
    /\ asked' = {ms}
    /\ UNCHANGED <<meta, sent>>

\* withTimeout(int), withNoTimeout(), HttpSpec::timeout(milliseconds).
Timeout(ms) ==
    /\ Building
    /\ typed' = [typed EXCEPT !.timeout = ToInt(ms)]
    /\ spec'  = [spec EXCEPT !.timeout = ToInt(ms)]
    /\ asked' = {ms}
    /\ UNCHANGED <<meta, sent>>

\* bodyModel, bodyJson, bodyForm, bodyRaw: the last one called counts; an
\* empty raw body takes the content type along.
Body(b, ctype) ==
    /\ Building
    /\ spec' = [spec EXCEPT !.body = b, !.ctype = ctype]
    /\ UNCHANGED <<meta, typed, asked, sent>>

\* filePart, formPart.
Part ==
    /\ Building
    /\ spec' = [spec EXCEPT !.parts = TRUE]
    /\ UNCHANGED <<meta, typed, asked, sent>>

---------------------------------------------------------------------------
(* Sending it.                                                             *)

\* Mutant: the request's own header stays.
WithCommonIfAbsent(headers) ==
    [k \in DOMAIN headers \cup Common |->
        IF k \in DOMAIN headers THEN headers[k] ELSE "service"]

\* NetworkService::applyCommonHeaders: insert replaces the request's own.
WithCommon(headers) ==
    [k \in DOMAIN headers \cup Common |->
        IF k \in Common THEN "service" ELSE headers[k]]

Form(multipart) == IF multipart THEN "multipart" ELSE "plain"

\* What QNetworkAccessManager adds: the boundary of a multipart, or the type
\* it supposes of a POST body, when the request names none.
WireType(ctype, form, body) ==
    CASE ctype # ""                        -> ctype
      [] ctype = "" /\ form = "multipart"  -> "boundary"
      [] ctype = "" /\ form # "multipart"  ->
            IF method = "POST" /\ body # "" THEN "urlencoded" ELSE ""

\* attachReplyHandler: the request's timeout, else the client's; 0 is none.
EffectiveTimeout(override) ==
    LET t == IF override >= 0 THEN override ELSE client.timeout
    IN  IF t <= 0 THEN 0 ELSE t

\* The hops followed: the request says so only if the client has a limit.
Hops == IF client.policy = "manual" THEN 0
        ELSE IF client.redirects > 0 THEN client.redirects ELSE QtRedirects

AllButType(headers) == [n \in Names \ {"content-type"} |-> headers[n]]

\* Mutant: sendMultipartRawRequest does not set the redirects allowed.
WireUnlimitedParts(headers, ctype, form, body, override) ==
    [headers |-> AllButType(headers), ctype |-> WireType(ctype, form, body),
     form |-> form, body |-> body,
     timeout |-> EffectiveTimeout(override),
     hops |-> IF form = "multipart" /\ Hops > 0 THEN QtRedirects ELSE Hops]

\* sendRequest, or sendMultipartRawRequest, and attachReplyHandler.
Wire(headers, ctype, form, body, override) ==
    [headers |-> AllButType(headers),
     ctype   |-> WireType(ctype, form, body),
     form    |-> form,
     body    |-> IF method = "GET" THEN ""
                ELSE IF form = "multipart" THEN "parts" ELSE body,
     timeout |-> EffectiveTimeout(override),
     hops    |-> Hops]

AsBearer == [caller |-> "Bearer:caller", service |-> "Bearer:service"]

\* The runtime headers as convertToQNetworkRequest writes them.
Bearer(headers) ==
    [k \in DOMAIN headers |-> IF k = "Authorization"
                              THEN AsBearer[headers[k]] ELSE headers[k]]

\* The headers that may be in the request.
Chosen(headers) ==
    {h \in [Names -> UNION {Winners(headers, n) : n \in Names}] :
        \A n \in Names : h[n] \in Winners(headers, n)}

\* convertToQNetworkRequest, then sendRequest or sendMultipartRequest.
SendTyped(headers) ==
    {Wire(h, IF declared THEN "declared" ELSE h["content-type"], Form(parts),
          IF json THEN "json" ELSE "", typed.timeout) :
        h \in Chosen(Bearer(headers))}

\* The content type that a body brings along; a multipart's is not used.
DerivedType == IF ~spec.parts /\ spec.body # "" THEN spec.ctype ELSE ""

\* Mutant: the derived content type is written over the explicit one.
SendSpecDerivedLast(headers) ==
    {Wire(h, IF DerivedType # "" THEN DerivedType ELSE h["content-type"],
          Form(spec.parts), spec.body, spec.timeout) : h \in Chosen(headers)}

\* Mutant: multiparts get the content type of the body, too.
SendSpecTyped(headers) ==
    {Wire(h, IF h["content-type"] = "" THEN spec.ctype ELSE h["content-type"],
          Form(spec.parts), spec.body, spec.timeout) : h \in Chosen(headers)}

\* toNetworkRequest, then sendRequest or sendMultipartRawRequest.
SendSpec(headers) ==
    {Wire(h, IF h["content-type"] = "" THEN DerivedType ELSE h["content-type"],
          Form(spec.parts), spec.body, spec.timeout) : h \in Chosen(headers)}

\* Directly, or through a NetworkService.  A GET with parts is not sent at all:
\* that is NetworkClient's badMethod.
Send(service) ==
    /\ Building
    /\ ~(spec.parts /\ method = "GET")
    /\ LET of(headers) == IF service THEN WithCommon(headers) ELSE headers
       IN  \E t \in SendTyped(of(typed.headers)), s \in SendSpec(of(spec.headers)) :
              sent' = [kind |-> IF service THEN "service" ELSE "client",
                       typed |-> t, spec |-> s]
    /\ UNCHANGED <<meta, typed, spec, asked>>

Next ==
    \/ \E k \in Keys : Header(k)
    \/ \E ms \in Milliseconds : Timeout(ms)
    \/ \E b \in {<<"json", "json">>, <<"form", "urlencoded">>, <<"raw", "">>,
                 <<"", "raw">>} : Body(b[1], b[2])
    \/ Part
    \/ \E service \in BOOLEAN : Send(service)

Spec == Init /\ [][Next]_vars

---------------------------------------------------------------------------
Sent == sent.kind # "no"

\* The same request, described in both ways.
Twins == Sent /\ spec.parts = parts /\ spec.body = (IF json THEN "json" ELSE "")

\* The spellings of a header, the request's own and the service's.
Spellings(n) == {k \in DOMAIN typed.headers \cup Common : NameOf[k] = n}

\* HttpSpec.h:20, that HttpSpec takes the path of the compile-time request, as far
\* as it is true: the same body, timeout and redirects go out, and the same value
\* for a header that has one spelling and is not the bearer's.
PathsAgree ==
    Twins =>
        /\ sent.typed.body = sent.spec.body
        /\ sent.typed.timeout = sent.spec.timeout
        /\ sent.typed.hops = sent.spec.hops
        /\ sent.typed.headers["accept"] = sent.spec.headers["accept"]

\* A Content-Type that was set by name, by the caller or by the service.
CallersType  == "ContentType" \in DOMAIN spec.headers
ServicesType == sent.kind = "service" /\ "ContentType" \in Common

\* HttpSpec.cpp:125: an explicit Content-Type, the service's before the caller's,
\* beats the one derived from the body, whatever order the calls came in; and a
\* multipart loses its boundary to such an explicit one only, never to a content
\* type that an earlier body call left behind.
ExplicitTypeWins ==
    Sent => /\ ServicesType => sent.spec.ctype = "service"
            /\ CallersType => sent.spec.ctype \in {"caller", "service"}
            /\ sent.spec.form = "multipart" /\ sent.spec.ctype # "boundary" =>
                   CallersType \/ ServicesType

\* A service's header goes out even where the request has set its own, unless
\* that one, or another of the service's, is spelled differently.
CommonHeadersSent ==
    sent.kind = "service" =>
        \A k \in Common \ {"ContentType"} :
            Spellings(NameOf[k]) \subseteq {k} =>
                /\ sent.spec.headers[NameOf[k]] = "service"
                /\ k # "Authorization" => sent.typed.headers[NameOf[k]] = "service"

\* Every request goes out under the limits its client was built with, whichever
\* of the two senders takes it: the timeout, unless it asks for one of its own,
\* and the redirects.  Limits that are positive and fit in an int, that is: no
\* redirects at all cannot be asked of a policy that follows (NetworkClient.cpp:54).
\* A timeout of its own goes out when its milliseconds fit in an int, zero (none at
\* all) included: HttpSpec::timeout casts them.
ClientLimitsApply ==
    Sent => \A out \in {sent.typed, sent.spec} :
        /\ \A ms \in asked \cap 0..IntMax : out.timeout = ms
        /\ asked = {} /\ built.timeout \in 1..IntMax =>
               out.timeout = built.timeout
        /\ built.redirects.policy = "manual" => out.hops = 0
        /\ built.redirects.policy = "follow" /\ built.redirects.max > 0 =>
               out.hops = built.redirects.max
=============================================================================

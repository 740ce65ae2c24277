---------------------- MODULE RequestConversionProofs ----------------------
(***************************************************************************)
(* What every request goes out with, whichever way it was described: for   *)
(* any client, any timeouts, any common headers and any order of calls.    *)
(*                                                                         *)
(* The invariant relates the two descriptions while they are built (the    *)
(* same headers, the same timeout, which is the one asked for last) and    *)
(* says that what was sent was made of the descriptions as they still are, *)
(* for nothing changes them afterwards.  What a description becomes is     *)
(* then a matter of the conversions alone.                                 *)
(***************************************************************************)
EXTENDS RequestConversion, TLAPS

Whole(headers) ==
    /\ DOMAIN headers \subseteq Keys
    /\ \A k \in DOMAIN headers : headers[k] \in {"caller", "service"}

\* Headers as sendRequest of the client, or of a service, is given them.
Given(headers) == IF sent.kind = "service" THEN WithCommon(headers) ELSE headers

Alike ==
    /\ Whole(typed.headers) /\ spec.headers = typed.headers
    /\ spec.timeout = typed.timeout

AskedFor ==
    /\ asked = {} => typed.timeout = -1
    /\ \A ms \in asked : typed.timeout = ToInt(ms)

MadeOf ==
    Sent => /\ sent.typed \in SendTyped(Given(typed.headers))
            /\ sent.spec \in SendSpec(Given(spec.headers))

Configured == client = Build(built)

IInv == Alike /\ AskedFor /\ MadeOf /\ Configured

---------------------------------------------------------------------------
\* Before any call both descriptions are empty.
LEMMA InitIInv == Init => IInv
<1>. SUFFICES ASSUME Init PROVE IInv
  OBVIOUS
<1>1. /\ typed.headers = NoHeaders /\ typed.timeout = -1
      /\ spec.headers = NoHeaders /\ spec.timeout = -1
      /\ asked = {} /\ ~Sent /\ client = Build(built)
  BY DEF Init, NotSent, Sent
<1>2. Whole(NoHeaders)
  BY DEF Whole, NoHeaders
<1>. QED
  BY <1>1, <1>2 DEF IInv, Alike, AskedFor, MadeOf, Configured

\* A header goes into both descriptions.
LEMMA HeaderStep == ASSUME IInv, NEW k \in Keys, Header(k) PROVE IInv'
<1>. DEFINE h == Insert(typed.headers, k, "caller")
<1>1. /\ typed'.headers = h /\ spec'.headers = h
      /\ typed'.timeout = typed.timeout /\ spec'.timeout = spec.timeout
      /\ UNCHANGED <<asked, sent, client, built>> /\ ~Sent
  BY DEF Header, IInv, Alike, Building, meta, Sent
<1>2. Whole(h)
  BY DEF IInv, Alike, Whole, Insert
<1>. QED
  BY <1>1, <1>2 DEF IInv, Alike, AskedFor, MadeOf, Configured, Whole, Sent

\* So does a timeout, cast in the same way.
LEMMA TimeoutStep == ASSUME IInv, NEW ms, Timeout(ms) PROVE IInv'
  BY DEF Timeout, IInv, Alike, AskedFor, MadeOf, Configured, Whole, Sent, Building, meta

\* A body changes the HttpSpec only, and nothing the invariant speaks of.
LEMMA BodyStep == ASSUME IInv, NEW b, NEW ctype, Body(b, ctype) PROVE IInv'
  BY DEF Body, IInv, Alike, AskedFor, MadeOf, Configured, Whole, Sent, Building, meta

\* A part neither.
LEMMA PartStep == ASSUME IInv, Part PROVE IInv'
  BY DEF Part, IInv, Alike, AskedFor, MadeOf, Configured, Whole, Sent, Building, meta

\* Steps that leave the descriptions alone leave what they become alone.
LEMMA SameConversions ==
    ASSUME UNCHANGED <<meta, typed, spec>>, NEW headers
    PROVE  SendTyped(headers)' = SendTyped(headers) /\ SendSpec(headers)' = SendSpec(headers)
  BY DEF meta, SendTyped, SendSpec, DerivedType, Wire, WireType, EffectiveTimeout, Hops

\* Sending takes what both become from the descriptions, and keeps those.
LEMMA SendStep == ASSUME IInv, NEW service \in BOOLEAN, Send(service) PROVE IInv'
<1>. DEFINE of(headers) == IF service THEN WithCommon(headers) ELSE headers
<1>1. PICK t \in SendTyped(of(typed.headers)), s \in SendSpec(of(spec.headers)) :
         sent' = [kind |-> IF service THEN "service" ELSE "client", typed |-> t, spec |-> s]
  BY DEF Send
<1>2. UNCHANGED <<meta, typed, spec, asked>> /\ UNCHANGED <<client, built>>
  BY DEF Send, meta
<1>3. sent'.typed = t /\ sent'.spec = s /\ (sent'.kind = "service" <=> service)
  BY <1>1
<1>4. /\ Given(typed.headers)' = of(typed.headers)
      /\ Given(spec.headers)' = of(spec.headers)
  BY <1>2, <1>3 DEF Given, WithCommon
<1>. HIDE DEF of
<1>5. MadeOf'
  BY <1>1, <1>2, <1>3, <1>4, SameConversions DEF MadeOf
<1>. QED
  BY <1>2, <1>5 DEF IInv, Alike, AskedFor, Configured, Whole

\* Every step preserves the invariant.
LEMMA NextIInv == IInv /\ [Next]_vars => IInv'
<1>. SUFFICES ASSUME IInv, [Next]_vars PROVE IInv'
  OBVIOUS
<1>1. CASE UNCHANGED vars
  <2>1. UNCHANGED <<meta, typed, spec>> /\ UNCHANGED <<client, built, typed, spec, asked, sent>>
    BY <1>1 DEF vars, meta
  <2>2. /\ Given(typed.headers)' = Given(typed.headers)
        /\ Given(spec.headers)' = Given(spec.headers)
    BY <2>1 DEF Given, WithCommon
  <2>3. MadeOf'
    BY <2>1, <2>2, SameConversions DEF IInv, MadeOf, Sent
  <2>. QED
    BY <2>1, <2>3 DEF IInv, Alike, AskedFor, Configured, Whole
<1>2. CASE Next
  BY <1>2, HeaderStep, TimeoutStep, BodyStep, PartStep, SendStep DEF Next
<1>. QED
  BY <1>1, <1>2

\* The invariant holds of every execution: what was sent was made, by the conversions of
\* HttpSpec.cpp:107 and RequestConverter.h, of descriptions that agree.
THEOREM IInvHolds == Spec => []IInv
  BY InitIInv, NextIInv, PTL DEF Spec

---------------------------------------------------------------------------
(* What goes out.                                                          *)

\* The headers that go out are among those given, name by name.
LEMMA ChosenIs ==
    ASSUME NEW headers, NEW h \in Chosen(headers), NEW n \in Names
    PROVE  /\ h[n] \in Winners(headers, n)
           /\ n # "content-type" => AllButType(h)[n] = h[n]
  BY DEF Chosen, AllButType

\* Which spelling means which header.
LEMMA Spelled ==
    /\ Keys = {"Authorization", "authorization", "Accept", "ContentType"}
    /\ NameOf["Accept"] = "accept" /\ NameOf["ContentType"] = "content-type"
    /\ \A k \in Keys : NameOf[k] = "accept" => k = "Accept"
    /\ \A k \in Keys : NameOf[k] = "content-type" => k = "ContentType"
    /\ \A k \in Keys : NameOf[k] \in Names
    /\ "accept" \in Names
  BY DEF Keys, NameOf, Names

\* What the typed request became.
LEMMA TypedSent ==
    ASSUME IInv, Sent
    PROVE  /\ \E h \in Chosen(Bearer(Given(typed.headers))) :
                 sent.typed.headers = AllButType(h)
           /\ sent.typed.body = IF method = "GET" THEN "" ELSE IF Form(parts) = "multipart" THEN "parts"
                                ELSE IF json THEN "json" ELSE ""
           /\ sent.typed.timeout = EffectiveTimeout(typed.timeout)
           /\ sent.typed.hops = Hops
<1>. DEFINE body == IF json THEN "json" ELSE ""
<1>1. PICK h \in Chosen(Bearer(Given(typed.headers))) :
         sent.typed = Wire(h, IF declared THEN "declared" ELSE h["content-type"], Form(parts),
                           body, typed.timeout)
  BY DEF IInv, MadeOf, SendTyped
<1>. DEFINE c == IF declared THEN "declared" ELSE h["content-type"]
<1>. DEFINE out == sent.typed
<1>. HIDE DEF c, body, out
<1>2. out = Wire(h, c, Form(parts), body, typed.timeout)
  BY <1>1 DEF c, out
<1>3. /\ out.headers = AllButType(h)
      /\ out.body = IF method = "GET" THEN "" ELSE IF Form(parts) = "multipart" THEN "parts" ELSE body
      /\ out.timeout = EffectiveTimeout(typed.timeout) /\ out.hops = Hops
  BY <1>2 DEF Wire
<1>. QED
  BY <1>3 DEF body, out

\* What the HttpSpec became.
LEMMA SpecSent ==
    ASSUME IInv, Sent
    PROVE  /\ \E h \in Chosen(Given(spec.headers)) :
                 /\ sent.spec.headers = AllButType(h)
                 /\ sent.spec.ctype = WireType(IF h["content-type"] = "" THEN DerivedType
                                               ELSE h["content-type"], Form(spec.parts), spec.body)
           /\ sent.spec.form = Form(spec.parts)
           /\ sent.spec.body = IF method = "GET" THEN "" ELSE IF Form(spec.parts) = "multipart" THEN "parts"
                               ELSE spec.body
           /\ sent.spec.timeout = EffectiveTimeout(spec.timeout)
           /\ sent.spec.hops = Hops
<1>1. PICK h \in Chosen(Given(spec.headers)) :
         sent.spec = Wire(h, IF h["content-type"] = "" THEN DerivedType
                             ELSE h["content-type"], Form(spec.parts), spec.body, spec.timeout)
  BY DEF IInv, MadeOf, SendSpec
<1>. DEFINE c == IF h["content-type"] = "" THEN DerivedType ELSE h["content-type"]
<1>. DEFINE out == sent.spec
<1>. HIDE DEF c, out
<1>2. out = Wire(h, c, Form(spec.parts), spec.body, spec.timeout)
  BY <1>1 DEF c, out
<1>3. /\ out.headers = AllButType(h)
      /\ out.form = Form(spec.parts)
      /\ out.ctype = WireType(c, Form(spec.parts), spec.body)
      /\ out.body = IF method = "GET" THEN "" ELSE IF Form(spec.parts) = "multipart" THEN "parts"
                          ELSE spec.body
      /\ out.timeout = EffectiveTimeout(spec.timeout) /\ out.hops = Hops
  BY <1>2 DEF Wire
<1>. QED
  BY <1>3 DEF c, out

\* Headers given to either sender: the caller's, and the service's over them.
LEMMA GivenIs ==
    ASSUME NEW headers, Whole(headers)
    PROVE  /\ Whole(Given(headers))
           /\ DOMAIN headers \subseteq DOMAIN Given(headers)
           /\ DOMAIN Given(headers) \subseteq DOMAIN headers \cup Common
           /\ sent.kind # "service" => Given(headers) = headers
           /\ sent.kind = "service" => \A k \in Common :
                 k \in DOMAIN Given(headers) /\ Given(headers)[k] = "service"
  BY RequestConversionAssumption DEF Given, WithCommon, Whole

---------------------------------------------------------------------------
\* Both descriptions of a request send the same body, timeout, redirects and
\* Accept header (PathsAgree): HttpSpec.h:20.
THEOREM PathsAgreeHolds == Spec => []PathsAgree
<1>1. IInv => PathsAgree
  <2>. SUFFICES ASSUME IInv, Twins PROVE PathsAgree
    BY DEF PathsAgree
  <2>. DEFINE H == Given(typed.headers)
  <2>1. Sent /\ spec.parts = parts /\ spec.body = IF json THEN "json" ELSE ""
    BY DEF Twins
  <2>2. Given(spec.headers) = H /\ spec.timeout = typed.timeout /\ Whole(H)
    BY GivenIs DEF IInv, Alike
  <2>3. /\ sent.typed.body = sent.spec.body /\ sent.typed.timeout = sent.spec.timeout
        /\ sent.typed.hops = sent.spec.hops
    BY <2>1, <2>2, TypedSent, SpecSent
  <2>4. /\ sent.typed.headers["accept"] \in Winners(Bearer(H), "accept")
        /\ sent.spec.headers["accept"] \in Winners(H, "accept")
    <3>1. "accept" \in Names /\ "accept" # "content-type"
      BY Spelled
    <3>. QED
      BY <2>1, <2>2, <3>1, TypedSent, SpecSent, ChosenIs
  <2>5. DOMAIN Bearer(H) = DOMAIN H /\ \A k \in DOMAIN H : k # "Authorization" => Bearer(H)[k] = H[k]
    BY DEF Bearer
  <2>. HIDE DEF H
  <2>6. Winners(Bearer(H), "accept") = Winners(H, "accept")
    <3>1. {k \in DOMAIN H : NameOf[k] = "accept"} \subseteq {"Accept"}
      BY <2>2, Spelled DEF Whole
    <3>. QED
      BY <2>5, <3>1 DEF Winners
  <2>7. sent.typed.headers["accept"] = sent.spec.headers["accept"]
    <3>1. "Accept" \in Keys /\ {j \in DOMAIN H : NameOf[j] = "accept"} \subseteq {"Accept"}
      BY <2>2, Spelled DEF Whole
    <3>2. \A v, w \in Winners(H, "accept") : v = w
      BY <3>1 DEF Winners
    <3>. QED
      BY <2>4, <2>6, <3>2
  <2>. QED
    BY <2>3, <2>7 DEF PathsAgree
<1>. QED
  BY <1>1, IInvHolds, PTL

\* A Content-Type of the caller or the service is the one that goes out; and a
\* multipart has another than its boundary only then (ExplicitTypeWins):
\* HttpSpec.cpp:125.
THEOREM ExplicitTypeWinsHolds == Spec => []ExplicitTypeWins
<1>1. IInv => ExplicitTypeWins
  <2>. DEFINE H == Given(spec.headers)
  <2>. SUFFICES ASSUME IInv, Sent PROVE ExplicitTypeWins
    BY DEF ExplicitTypeWins
  <2>1. /\ Whole(H) /\ DOMAIN spec.headers \subseteq DOMAIN H
        /\ DOMAIN H \subseteq DOMAIN spec.headers \cup Common
        /\ sent.kind # "service" => H = spec.headers
        /\ ServicesType => "ContentType" \in DOMAIN H /\ H["ContentType"] = "service"
    BY GivenIs DEF IInv, Alike, ServicesType
  <2>2. PICK h \in Chosen(H) :
           sent.spec.ctype = WireType(IF h["content-type"] = "" THEN DerivedType
                                      ELSE h["content-type"], Form(spec.parts), spec.body)
    BY SpecSent
  <2>. HIDE DEF H
  <2>3. h["content-type"] \in Winners(H, "content-type")
    BY Spelled, ChosenIs
  <2>4. {k \in DOMAIN H : NameOf[k] = "content-type"} =
            IF "ContentType" \in DOMAIN H THEN {"ContentType"} ELSE {}
    BY <2>1, Spelled DEF Whole
  <2>5. CASE "ContentType" \in DOMAIN H
    <3>1. /\ h["content-type"] \in {"caller", "service"}
          /\ ServicesType => h["content-type"] = "service"
      BY <2>1, <2>3, <2>4, <2>5 DEF Winners, Whole
    <3>2. sent.spec.ctype = h["content-type"]
      BY <2>2, <3>1 DEF WireType
    <3>3. CallersType \/ ServicesType
      BY <2>1, <2>5 DEF CallersType, ServicesType
    <3>. QED
      BY <3>1, <3>2, <3>3 DEF ExplicitTypeWins
  <2>6. CASE "ContentType" \notin DOMAIN H
    <3>1. h["content-type"] = ""
      BY <2>3, <2>4, <2>6 DEF Winners
    <3>2. sent.spec.form = "multipart" => sent.spec.ctype = "boundary"
      <4>. HAVE sent.spec.form = "multipart"
      <4>1. Form(spec.parts) = "multipart"
        BY SpecSent
      <4>2. DerivedType = ""
        BY <4>1 DEF DerivedType, Form
      <4>. QED
        BY <2>2, <3>1, <4>1, <4>2 DEF WireType
    <3>. QED
      BY <2>1, <2>6, <3>2 DEF ExplicitTypeWins, CallersType
  <2>. QED
    BY <2>5, <2>6
<1>. QED
  BY <1>1, IInvHolds, PTL

\* The service's headers replace the request's own (CommonHeadersSent), in both
\* kinds of request: applyCommonHeaders, NetworkService.cpp:16.
THEOREM CommonHeadersSentHolds == Spec => []CommonHeadersSent
<1>1. IInv => CommonHeadersSent
  <2>. SUFFICES ASSUME IInv, sent.kind = "service", NEW k \in Common \ {"ContentType"},
                       Spellings(NameOf[k]) \subseteq {k}
                PROVE  /\ sent.spec.headers[NameOf[k]] = "service"
                       /\ k # "Authorization" => sent.typed.headers[NameOf[k]] = "service"
    BY DEF CommonHeadersSent
  <2>. DEFINE H == Given(typed.headers)
              n == NameOf[k]
  <2>1. Sent /\ k \in Keys /\ n \in Names /\ n # "content-type"
    BY RequestConversionAssumption, Spelled DEF Sent
  <2>2. /\ Given(spec.headers) = H /\ k \in DOMAIN H /\ H[k] = "service"
        /\ DOMAIN H = DOMAIN typed.headers \cup Common
    BY GivenIs DEF IInv, Alike, Given, WithCommon
  <2>3. \A j \in DOMAIN H : NameOf[j] = n => j = k
    BY <2>2 DEF Spellings
  <2>. HIDE DEF H, n
  <2>4. \A v \in Winners(H, n) : v = "service"
    BY <2>2, <2>3 DEF Winners, n
  <2>5. sent.spec.headers[n] \in Winners(H, n)
    <3>1. PICK h \in Chosen(H) : sent.spec.headers = AllButType(h)
      BY <2>1, <2>2, SpecSent
    <3>. QED
      BY <2>1, <3>1, ChosenIs
  <2>6. sent.typed.headers[n] \in Winners(Bearer(H), n)
    <3>1. PICK h \in Chosen(Bearer(H)) : sent.typed.headers = AllButType(h)
      BY <2>1, TypedSent DEF H
    <3>. QED
      BY <2>1, <3>1, ChosenIs
  <2>7. k # "Authorization" => \A v \in Winners(Bearer(H), n) : v = "service"
    <3>. HAVE k # "Authorization"
    <3>1. DOMAIN Bearer(H) = DOMAIN H
          /\ \A j \in DOMAIN H : j # "Authorization" => Bearer(H)[j] = H[j]
      BY DEF Bearer
    <3>. QED
      BY <2>2, <2>3, <3>1 DEF Winners, n
  <2>. QED
    BY <2>4, <2>5, <2>6, <2>7 DEF n
<1>. QED
  BY <1>1, IInvHolds, PTL

\* Milliseconds that fit in an int survive the cast.
LEMMA FitsInt ==
    ASSUME NEW ms \in 0..IntMax
    PROVE  ToInt(ms) = ms
<1>1. /\ IntMax \in Nat /\ ms + IntMax + 1 \in Nat /\ 2 * IntMax + 2 \in Nat \ {0}
      /\ ms + IntMax + 1 < 2 * IntMax + 2
  BY RequestConversionAssumption
<1>2. \A a \in Nat, n \in Nat \ {0} : a < n => a % n = a
  OBVIOUS
<1>3. (ms + IntMax + 1) % (2 * IntMax + 2) = ms + IntMax + 1
  BY <1>1, <1>2
<1>. QED
  BY <1>1, <1>3 DEF ToInt

\* Either request goes out under the client's limits, or its own timeout
\* (ClientLimitsApply): both senders set the redirects, NetworkClient.cpp:54.
THEOREM ClientLimitsApplyHolds == Spec => []ClientLimitsApply
<1>1. IInv => ClientLimitsApply
  <2>. SUFFICES ASSUME IInv, Sent, NEW out \in {sent.typed, sent.spec}
                PROVE  /\ \A ms \in asked \cap 0..IntMax : out.timeout = ms
                       /\ asked = {} /\ built.timeout \in 1..IntMax =>
                              out.timeout = built.timeout
                       /\ built.redirects.policy = "manual" => out.hops = 0
                       /\ built.redirects.policy = "follow" /\ built.redirects.max > 0 =>
                              out.hops = built.redirects.max
    BY DEF ClientLimitsApply
  <2>1. out.timeout = EffectiveTimeout(typed.timeout) /\ out.hops = Hops
    BY TypedSent, SpecSent DEF IInv, Alike
  <2>2. ASSUME NEW ms \in asked \cap 0..IntMax PROVE out.timeout = ms
    <3>1. typed.timeout = ms /\ ms \in Nat
      BY FitsInt DEF IInv, AskedFor
    <3>. QED
      BY <2>1, <3>1 DEF EffectiveTimeout
  <2>3. ASSUME asked = {}, built.timeout \in 1..IntMax PROVE out.timeout = built.timeout
    <3>1. typed.timeout = -1 /\ client.timeout = ToInt(built.timeout)
      BY <2>3 DEF IInv, AskedFor, Configured, Build
    <3>2. built.timeout \in 0..IntMax /\ built.timeout > 0 /\ built.timeout \in Int
      BY <2>3, RequestConversionAssumption
    <3>3. client.timeout = built.timeout
      BY <3>1, <3>2, FitsInt
    <3>. QED
      BY <2>1, <3>1, <3>2, <3>3 DEF EffectiveTimeout
  <2>4. client.policy = built.redirects.policy
        /\ client.redirects = IF built.redirects.policy = "manual" THEN 0 ELSE built.redirects.max
    BY DEF IInv, Configured, Build
  <2>. QED
    BY <2>1, <2>2, <2>3, <2>4 DEF Hops
<1>. QED
  BY <1>1, IInvHolds, PTL
=============================================================================

---------------------------- MODULE ErrorPolicy ----------------------------
(***************************************************************************)
(* Which NetworkClientError an attempt ends with, and whether the default  *)
(* policy of RetryInterceptor tries again.                                 *)
(*                                                                         *)
(* A finished reply shows two things: the HTTP status (0: no status line   *)
(* was read) and Qt's error code.  handleFinished tells success from       *)
(* failure by the code and an http from a network error by the status, so  *)
(* one cause can arrive in two forms, and the policy has a list for each.  *)
(***************************************************************************)
EXTENDS Integers, Sequences

CONSTANTS
    Statuses,       \* the HTTP statuses servers answer with
    LinkErrors,     \* Qt's codes for what goes wrong below HTTP
    MaxRetries      \* RetryInterceptor::Policy::maxRetries

ASSUME ErrorPolicyAssumption ==
    /\ Statuses \subseteq 100..599
    /\ MaxRetries \in Nat

\* Qt's codes for single HTTP statuses.
DedicatedCode ==
    [s \in {400, 401, 403, 404, 405, 407, 409, 410, 418, 500, 501, 503} |->
        CASE s \in {400, 418} -> "ProtocolInvalidOperation"
          [] s = 401 -> "AuthenticationRequired"
          [] s = 403 -> "ContentAccessDenied"
          [] s = 404 -> "ContentNotFound"
          [] s = 405 -> "ContentOperationNotPermitted"
          [] s = 407 -> "ProxyAuthenticationRequired"
          [] s = 409 -> "ContentConflict"
          [] s = 410 -> "ContentGone"
          [] s = 500 -> "InternalServer"
          [] s = 501 -> "OperationNotImplemented"
          [] s = 503 -> "ServiceUnavailable"]

CodeOf(s) == CASE s \in DOMAIN DedicatedCode -> DedicatedCode[s]
               [] s \in 500..599 \ DOMAIN DedicatedCode -> "UnknownServer"
               [] s \in 400..499 \ DOMAIN DedicatedCode -> "UnknownContent"
               [] OTHER -> "NoError"

\* What a finished reply shows: an answer, a failure before the status line,
\* or a connection lost after it.
Shown(s, c) == [status |-> s, code |-> c]
Replies == {Shown(s, CodeOf(s)) : s \in Statuses}
           \cup {Shown(0, c) : c \in LinkErrors}
           \cup {Shown(s, "RemoteHostClosed") : s \in Statuses}

\* NetworkClientError, by its category and the detail the policy looks at.
Error(category, status, code) ==
    [category |-> category, status |-> status, code |-> code]
Timeout == Error("Timeout", 0, "")
None    == Error("None", 0, "")

\* handleFinished's choice for a reply with an error.
ErrorOf(q) == IF q.status > 0 THEN Error("Http", q.status, "")
                              ELSE Error("Network", 0, q.code)

---------------------------------------------------------------------------
(* Policy::Policy.                                                         *)

\* Mutant: a file that is not there is looked for again.
PermanentWithoutNotFound ==
    {"OperationCanceled", "SslHandshakeFailed", "BackgroundRequestNotAllowed",
     "TooManyRedirects", "InsecureRedirect", "ProxyAuthenticationRequired",
     "AuthenticationRequired", "ContentAccessDenied",
     "ContentOperationNotPermitted", "ContentGone", "ContentConflict",
     "ProtocolUnknown", "ProtocolInvalidOperation", "ProtocolFailure",
     "OperationNotImplemented"}

kPermanent ==
    {"OperationCanceled", "SslHandshakeFailed", "BackgroundRequestNotAllowed",
     "TooManyRedirects", "InsecureRedirect", "ProxyAuthenticationRequired",
     "AuthenticationRequired", "ContentAccessDenied",
     "ContentOperationNotPermitted", "ContentNotFound", "ContentGone",
     "ContentConflict", "ProtocolUnknown", "ProtocolInvalidOperation",
     "ProtocolFailure", "OperationNotImplemented"}

\* Mutant: 503 listed beside 501.
PermanentWithUnavailable ==
    {400, 401, 403, 404, 405, 406, 409, 410, 411, 413, 414, 415, 422, 501, 503}

kPermanentHttp ==
    {400, 401, 403, 404, 405, 406, 409, 410, 411, 413, 414, 415, 422, 501}

ShouldRetry(e) ==
    \/ e.category = "Timeout"
    \/ e.category = "Network" /\ e.code \notin kPermanent
    \/ e.category = "Http" /\ e.status \notin kPermanentHttp

---------------------------------------------------------------------------
VARIABLES
    left,       \* the retries left
    seen,       \* what each attempt so far showed, the timeout as status -1
    outcome     \* "pending", "data" or "failed", with the error reported

vars == <<left, seen, outcome>>

Init ==
    /\ left = MaxRetries
    /\ seen = <<>>
    /\ outcome = [kind |-> "pending", error |-> None]

\* RetryInterceptor's catcher.
Reject(shown, e) ==
    /\ seen' = Append(seen, shown)
    /\ IF left > 0 /\ ShouldRetry(e)
       THEN left' = left - 1 /\ UNCHANGED outcome
       ELSE outcome' = [kind |-> "failed", error |-> e] /\ UNCHANGED left

\* handleFinished of an attempt.
ReplyFinishes ==
    /\ outcome.kind = "pending"
    /\ \E q \in Replies :
          IF q.code = "NoError"
          THEN /\ seen' = Append(seen, q)
               /\ outcome' = [kind |-> "data", error |-> None]
               /\ UNCHANGED left
          ELSE Reject(q, ErrorOf(q))

\* The timeout's catcher, whatever the reply would have shown.
TimesOut ==
    /\ outcome.kind = "pending"
    /\ Reject(Shown(-1, "Timeout"), Timeout)

Next == ReplyFinishes \/ TimesOut

Spec == Init /\ [][Next]_vars

---------------------------------------------------------------------------
Last    == seen[Len(seen)]
Retried == {seen[n] : n \in 1..(IF outcome.kind = "pending" THEN Len(seen)
                                ELSE Len(seen) - 1)}

\* A failure with a code of its own is judged alike whether or not a status
\* line came with it (Interceptor.cpp:20, :45): what ended the request was not
\* retried before in the other form.  407 and 418 are the exceptions: as codes
\* they are permanent, as statuses they are retried.
JudgedAlike ==
    outcome.kind = "failed" /\ left > 0 =>
        \A q \in Retried :
            q.code = Last.code /\ q.status \notin {407, 418} =>
                q.code \notin {DedicatedCode[s] : s \in DOMAIN DedicatedCode}

\* Whoever is told of a throttled or failing server, a timeout or a failing
\* link was told after every retry had been spent.
TransientOutlived ==
    outcome.kind = "failed" /\
        (\/ Last.status \in {429, 500, 502, 503, 504, -1}
         \/ Last.status = 0 /\ Last.code \in {"ConnectionRefused",
                                   "RemoteHostClosed", "TemporaryNetworkFailure"})
        => Len(seen) = MaxRetries + 1
=============================================================================

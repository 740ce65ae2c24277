--------------------------- MODULE NetworkService ---------------------------
(***************************************************************************)
(* NetworkService::httpCall: which of the two callbacks runs, when, and    *)
(* what the failure callback is told.                                      *)
(*                                                                         *)
(* Call c has three promises: <<c, "client">>, NetworkClient::sendRequest's*)
(* answer; <<c, "then">>, of the reaction that calls onSuccess; and        *)
(* <<c, "fail">>, attachFailHandler's.  Callbacks, and the interceptors    *)
(* that httpCall runs, are the user's code: they may make further calls,   *)
(* throw, or run an event loop of their own (a dialog), from which events  *)
(* are delivered, and other callbacks called, before they return.          *)
(***************************************************************************)
EXTENDS PromiseLoop, FiniteSets

CONSTANTS
    Calls,          \* the calls the program may make
    NoFail          \* those made without a failure callback

ASSUME NetworkServiceAssumption == NoFail \subseteq Calls

VARIABLES
    loop,       \* the promise engine and the thread's event queue
    refused,    \* calls that threw SerializerException at their caller
    inside,     \* the frames on the stack, <<call, which>>: "call" of httpCall
                \* itself, "success" and "fail" of the callbacks; innermost last
    succeeded,  \* calls whose onSuccess was called
    threw,      \* calls whose onSuccess threw, by what it threw
    told        \* what onFail was called with, in order

vars == <<loop, refused, inside, succeeded, threw, told>>

PromiseIds == Calls \X {"client", "then", "fail"}

\* What a promise can be rejected with: the framework's NetworkException, some
\* other std::exception, or anything else.  A throwing onSuccess may throw any.
Failures == {"NetworkException", "std::exception", "other"}

Init ==
    /\ loop = EmptyLoop(PromiseIds)
    /\ refused = {}
    /\ inside = <<>>
    /\ succeeded = {}
    /\ threw = [c \in {} |-> ""]
    /\ told = [c \in Calls |-> <<>>]

---------------------------------------------------------------------------
Reaction(kind, c, name) == Job(kind, <<c, name>>, 0, Nothing)

Frames == {inside[i] : i \in DOMAIN inside}

Running == inside[Len(inside)]
Left    == SubSeq(inside, 1, Len(inside) - 1)

Unmade(c) == /\ loop.status[<<c, "client">>] = "absent" /\ c \notin refused
             /\ <<c, "call">> \notin Frames

\* httpCall begins, from the event loop, inside a callback or inside an interceptor.
HttpCall(c) ==
    /\ Unmade(c)
    /\ inside' = Append(inside, <<c, "call">>)
    /\ UNCHANGED <<loop, refused, succeeded, threw, told>>

InHttpCall(c) == inside # <<>> /\ Running = <<c, "call">>

\* sendRequest's promise: pending, or settled before it is returned.
Returned(c) ==
    LET p == <<c, "client">>
    IN  {New(loop, p), Settle(New(loop, p), p, TRUE, "response")}
        \cup {Settle(New(loop, p), p, FALSE, v) : v \in Failures}

\* Mutant: a failure handler beside the success handler, not after it.
HttpCallForks(c) ==
    /\ InHttpCall(c)
    /\ \E e \in Returned(c) :
          loop' = Then(Then(e, <<c, "client">>, Reaction("success", c, "then")),
                       <<c, "client">>, Reaction("fail", c, "fail"))
    /\ inside' = Left
    /\ UNCHANGED <<refused, succeeded, threw, told>>

\* Mutant: an answer that is there already is delivered by httpCall itself.
HttpCallDelivers(c) ==
    /\ InHttpCall(c)
    /\ \E e \in Returned(c) :
          IF IsFulfilled(e, <<c, "client">>)
          THEN /\ loop' = New(e, <<c, "then">>)
               /\ inside' = Append(inside, <<c, "success">>)
               /\ succeeded' = succeeded \cup {c}
          ELSE /\ loop' = Then(Then(e, <<c, "client">>, Reaction("success", c, "then")),
                               <<c, "then">>, Reaction("fail", c, "fail"))
               /\ inside' = Left /\ UNCHANGED succeeded
    /\ UNCHANGED <<refused, threw, told>>

\* sendRequest has returned: the reactions are registered, attachFailHandler's on
\* the promise of then(), and httpCall returns.
HttpCallReturns(c) ==
    /\ InHttpCall(c)
    /\ \E e \in Returned(c) :
          loop' = Then(Then(e, <<c, "client">>, Reaction("success", c, "then")),
                       <<c, "then">>, Reaction("fail", c, "fail"))
    /\ inside' = Left
    /\ UNCHANGED <<refused, succeeded, threw, told>>

\* RequestConverter::buildBody or an interceptor throws: httpCall does, too, before
\* it has a promise.  In a callback that lets it through, CallbackThrows follows.
HttpCallThrows(c) ==
    /\ InHttpCall(c)
    /\ refused' = refused \cup {c}
    /\ inside' = Left
    /\ UNCHANGED <<loop, succeeded, threw, told>>

ClientSettles(c) ==
    /\ IsPending(loop, <<c, "client">>)
    /\ \/ loop' = Settle(loop, <<c, "client">>, TRUE, "response")
       \/ \E v \in Failures : loop' = Settle(loop, <<c, "client">>, FALSE, v)
    /\ UNCHANGED <<refused, inside, succeeded, threw, told>>

---------------------------------------------------------------------------
\* By the thread's event loop, or by one that a frame on the stack runs.
Delivers(kind) == loop.posted # <<>> /\ Head(loop.posted).job.kind = kind
Current == Head(loop.posted)
Target  == Current.job.next
Rest    == Popped(loop)

\* An outcome the reaction is not for: then() of a failure, fail() of a
\* success or of something that is no std::exception; without a failure
\* callback the handler returns.
Forward ==
    /\ \/ Delivers("success") /\ ~Current.ok
          /\ loop' = Settle(Rest, Target, FALSE, Current.val)
       \/ Delivers("fail") /\ (Current.ok \/ Current.val = "other")
          /\ loop' = Settle(Rest, Target, Current.ok, Current.val)
       \/ Delivers("fail") /\ ~Current.ok /\ Current.val # "other"
          /\ Target[1] \in NoFail
          /\ loop' = Settle(Rest, Target, TRUE, Nothing)
    /\ UNCHANGED <<refused, inside, succeeded, threw, told>>

CallSuccess ==
    /\ Delivers("success") /\ Current.ok
    /\ loop' = Rest
    /\ inside' = Append(inside, <<Target[1], "success">>)
    /\ succeeded' = succeeded \cup {Target[1]}
    /\ UNCHANGED <<refused, threw, told>>

Report(v) == IF v = "NetworkException" THEN "itsError" ELSE "Serialization"

\* Mutant: only the framework's own exception reaches the callback.
CallFailNetworkOnly ==
    /\ Delivers("fail") /\ ~Current.ok /\ Current.val # "other"
    /\ Target[1] \notin NoFail
    /\ loop' = Rest
    /\ inside' = IF Current.val = "NetworkException"
                 THEN Append(inside, <<Target[1], "fail">>) ELSE inside
    /\ told' = IF Current.val = "NetworkException"
               THEN [told EXCEPT ![Target[1]] = Append(@, Report(Current.val))] ELSE told
    /\ UNCHANGED <<refused, succeeded, threw>>

\* attachFailHandler's handler: a NetworkException's error, any other
\* std::exception as a Serialization error.
CallFail ==
    /\ Delivers("fail") /\ ~Current.ok /\ Current.val # "other"
    /\ Target[1] \notin NoFail
    /\ loop' = Rest
    /\ inside' = Append(inside, <<Target[1], "fail">>)
    /\ told' = [told EXCEPT ![Target[1]] = Append(@, Report(Current.val))]
    /\ UNCHANGED <<refused, succeeded, threw>>

\* The innermost callback returns or throws.
InCallback == inside # <<>> /\ Running[2] # "call"
Settles    == <<Running[1], IF Running[2] = "success" THEN "then" ELSE "fail">>

CallbackReturns ==
    /\ InCallback
    /\ loop' = Settle(loop, Settles, TRUE, Nothing)
    /\ inside' = Left
    /\ UNCHANGED <<refused, succeeded, threw, told>>

CallbackThrows ==
    /\ InCallback
    /\ \E v \in Failures :
          /\ loop' = Settle(loop, Settles, FALSE, v)
          /\ threw' = IF Running[2] = "success"
                      THEN [c \in DOMAIN threw \cup {Running[1]} |->
                               IF c = Running[1] THEN v ELSE threw[c]]
                      ELSE threw
    /\ inside' = Left
    /\ UNCHANGED <<refused, succeeded, told>>

DeliverEvent == Forward \/ CallSuccess \/ CallFail
Return       == \/ CallbackReturns \/ CallbackThrows
                \/ \E c \in Calls : HttpCallReturns(c) \/ HttpCallThrows(c)

Next ==
    \/ \E c \in Calls : HttpCall(c) \/ ClientSettles(c)
    \/ DeliverEvent
    \/ Return

Spec == Init /\ [][Next]_vars

\* A loop runs, httpCall and callbacks come back, and the client answers.
FairSpec ==
    /\ Spec
    /\ WF_vars(DeliverEvent) /\ WF_vars(Return)
    /\ \A c \in Calls : WF_vars(ClientSettles(c))
---------------------------------------------------------------------------
Answer(c) == loop.value[<<c, "client">>]
Over(c)   == IsSettled(loop, <<c, "fail">>)

\* What went wrong for call c after all: the client, or onSuccess itself.
Wrong(c) == IF c \in DOMAIN threw THEN threw[c]
            ELSE IF Answer(c) = "response" THEN Nothing ELSE Answer(c)

\* When a call is over, onSuccess ran if there was a response, and onFail ran
\* once, with what went wrong, if anything did; both, if onSuccess threw.  A call
\* that threw at its caller calls neither (NetworkService.h:71).
CallbacksMatchOutcome ==
    \A c \in Calls :
        /\ Over(c) =>
              /\ c \in succeeded <=> Answer(c) = "response"
              /\ told[c] = IF Wrong(c) \in {Nothing, "other"} \/ c \in NoFail THEN <<>>
                           ELSE <<Report(Wrong(c))>>
        /\ c \in refused => c \notin succeeded /\ told[c] = <<>>

\* NetworkService.h:71-86: a call is on the stack once.  Whatever event loops run
\* inside interceptors and callbacks, a call's callback never runs inside its own
\* httpCall, even if the answer was there before, and onFail never inside the
\* onSuccess whose exception it may have to report.
NeverInsideItself ==
    \A i, j \in DOMAIN inside : inside[i][1] = inside[j][1] => i = j

\* Every call that was begun throws at its caller or ends in a callback, unless its
\* only one does not apply or what was thrown is not an exception.
EveryCallReported ==
    \A c \in Calls \ NoFail :
        <<c, "call">> \in Frames ~>
            (c \in refused \/ c \in succeeded \/ told[c] # <<>> \/ Answer(c) = "other")
=============================================================================

--------------------------- MODULE NetworkClient ---------------------------
(***************************************************************************)
(* NetworkClient with a RetryInterceptor: what happens between a call of   *)
(* sendRequest/sendSpec and the settling of the promise it returned.       *)
(*                                                                         *)
(* Attempt <<r, i>> is the i-th run of request r's terminus.  Its promises *)
(* are named for the code that makes them:                                 *)
(*   reply    attachReplyHandler's promise, or rejectWith's                *)
(*   timed    promise.timeout(ms)            (requests with a timeout)     *)
(*   mapped   .fail() that turns the timeout into a NetworkException       *)
(*   result   RetryInterceptor::attempt's next().fail(...)                 *)
(*   tap, tick, delayed   the three promises of QPromise::delay            *)
(*   again    .then() that starts the next attempt                         *)
(* and <<r, 0, "user">> is the promise the caller holds.                   *)
(*                                                                         *)
(* Everything runs on one thread: an action is the handler of one posted   *)
(* event, one timer, one network completion, or one call by the user.      *)
(***************************************************************************)
EXTENDS PromiseLoop, Integers, FiniteSets

CONSTANTS
    Requests,       \* the requests the program may send
    Timed,          \* those whose effective timeout is positive
    Multipart,      \* those with multipart parts
    Misused,        \* multipart HttpSpecs whose method is GET or DEL
    MaxRetries,     \* RetryInterceptor::Policy::maxRetries
    Retryable       \* the errors Policy::shouldRetry answers true to

\* Every error a NetworkException can carry, by what the code distinguishes:
\* a lost connection or 5xx, a 4xx, our own abort, the timeout, the client
\* being gone, parts or a body that cannot be converted, a wrong method.
Errors == {"transient", "permanent", "canceled", "timeout", "destroyed",
           "serialization", "logic"}

ASSUME NetworkClientAssumption ==
    /\ Timed \subseteq Requests
    /\ Multipart \subseteq Requests
    /\ Misused \subseteq Multipart
    /\ MaxRetries \in Nat
    /\ Retryable \subseteq Errors

VARIABLES
    loop,           \* the promise engine and the thread's event queue
    reply,          \* the QNetworkReply of each attempt
    once,           \* attempts whose handleFinished has run
    timer,          \* the QTimer::singleShot of QPromise::timeout
    delay,          \* the QTimer::singleShot of QPromise::delay
    parts,          \* the QHttpMultiPart of each attempt
    clientAlive,    \* the NetworkClient and its QNetworkAccessManager exist
    retryAlive      \* the RetryInterceptor exists

vars == <<loop, reply, once, timer, delay, parts, clientAlive, retryAlive>>

\* One attempt more than the budget allows, so that exceeding it is visible.
AttemptIds == 1..(MaxRetries + 2)
Attempts   == Requests \X AttemptIds

Names == {"reply", "timed", "mapped", "result", "tap", "tick", "delayed",
          "again", "user"}
PromiseIds == Requests \X (0..(MaxRetries + 2)) \X Names

Id(a, name)  == <<a[1], a[2], name>>
UserOf(r)    == <<r, 0, "user">>
AttemptOf(p) == <<p[1], p[2]>>
NextAttempt(a) == <<a[1], a[2] + 1>>

TimeoutException == "TimeoutException"      \* QPromiseTimeoutException
Values == {Nothing, "data", "decoded", TimeoutException} \cup Errors

\* What the network can make of a request that nobody aborts.
NetworkResults == {"data", "transient", "permanent"}

Kinds == {"pass", "abort", "retry", "arm", "elapsed", "again", "decode",
          "finished", "deleteReply", "deleteParts"}

\* A closure that captured nothing but the promise it settles or the object
\* it is for.
Plain(kind, next) == Job(kind, next, 0, Nothing)

Jobs == [kind : Kinds, next : PromiseIds, left : 0..MaxRetries,
         saved : Values]

---------------------------------------------------------------------------
(* Sending: the terminus, attachReplyHandler, RetryInterceptor::attempt.   *)

Stages == {"gone", "noFile", "badMethod", "running", "finished"}

Choice(stage, v) == [stage |-> stage, val |-> v]

\* Mutant: the terminus forgets to ask whether the client is still there.
ChoicesUnguarded(r) ==
    (IF r \in Multipart THEN {Choice("noFile", "serialization")} ELSE {})
    \cup (IF r \in Misused THEN {Choice("badMethod", "logic")}
          ELSE {Choice("running", Nothing)}
               \cup {Choice("finished", v) : v \in NetworkResults})

\* How far the terminus of a request gets and with what: the client is gone,
\* a part's file cannot be opened, the method takes no parts, the reply runs,
\* or it is finished before anything connects to it.
Choices(r) ==
    IF ~clientAlive THEN {Choice("gone", "destroyed")}
    ELSE (IF r \in Multipart THEN {Choice("noFile", "serialization")} ELSE {})
         \cup
         (IF r \in Misused THEN {Choice("badMethod", "logic")}
          ELSE {Choice("running", Nothing)}
               \cup {Choice("finished", v) : v \in NetworkResults})

\* The reply exists and attachReplyHandler is reached.
Sent(c) == c.stage \in {"running", "finished"}

\* Mutant: handleFinished without its once flag.
HandleFinishedTwice(e, a, v) ==
    Settle(Post(e, Plain("deleteReply", Id(a, "reply")), TRUE, Nothing),
           Id(a, "reply"), v = "data", v)

\* handleFinished: reclaim the reply, then settle the promise; once only.
HandleFinished(e, a, v) ==
    IF a \in once THEN e
    ELSE Settle(Post(e, Plain("deleteReply", Id(a, "reply")), TRUE, Nothing),
                Id(a, "reply"), v = "data", v)

\* The terminus: the promise it returns before any timeout is put on it.
Terminus(e, a, c) ==
    LET p    == Id(a, "reply")
        born == New(e, p)
    IN  CASE c.stage = "running"   -> born
          [] c.stage = "finished"  ->
                HandleFinished(Post(born, Plain("finished", p), c.val = "data",
                                    c.val), a, c.val)
          [] c.stage = "badMethod" ->
                Settle(Post(born, Plain("deleteParts", p), TRUE, Nothing), p,
                       FALSE, c.val)
          [] OTHER                 -> Settle(born, p, FALSE, c.val)

\* promise.timeout(ms).fail([weak_reply](const QPromiseTimeoutException&)).
WithTimeout(e, a) ==
    LET timed == Id(a, "timed")
    IN  Then(Adopt(New(e, timed), timed, Id(a, "reply")), timed,
             Plain("abort", Id(a, "mapped")))

\* RetryInterceptor::attempt: next().fail(...), the budget captured.
Attempt(e, a, left, c) ==
    LET bounded == Sent(c) /\ a[1] \in Timed
        sent    == Terminus(e, a, c)
        retry   == Job("retry", Id(a, "result"), left, Nothing)
    IN  IF bounded THEN Then(WithTimeout(sent, a), Id(a, "mapped"), retry)
                   ELSE Then(sent, Id(a, "reply"), retry)

\* What starting an attempt does to the objects it makes.
Launch(a, c) ==
    /\ reply' = IF Sent(c) THEN [reply EXCEPT ![a] = c.stage] ELSE reply
    /\ once'  = IF c.stage = "finished" THEN once \cup {a} ELSE once
    /\ timer' = IF Sent(c) /\ a[1] \in Timed
                THEN [timer EXCEPT ![a] = "armed"] ELSE timer
    /\ parts' = IF a[1] \in Multipart /\ Sent(c)
                THEN [parts EXCEPT ![a] = "owned"]
                ELSE IF c.stage = "badMethod"
                THEN [parts EXCEPT ![a] = "orphan"] ELSE parts
    /\ UNCHANGED <<delay, clientAlive, retryAlive>>

\* sendRequest/sendSpec<T>: run the chain, then deserialise what it yields.
SendRequest(r) ==
    LET a == <<r, 1>> IN
    /\ clientAlive
    /\ loop.status[UserOf(r)] = "absent"
    /\ \E c \in Choices(r) :
          /\ loop' = Then(Attempt(loop, a, MaxRetries, c), Id(a, "result"),
                          Plain("decode", UserOf(r)))
          /\ Launch(a, c)

---------------------------------------------------------------------------
(* The handlers of posted events.  The event is taken off the queue first. *)

Delivers(kind) == loop.posted # <<>> /\ Head(loop.posted).job.kind = kind
Current  == Head(loop.posted)
Target   == Current.job.next
Rest     == Popped(loop)

Objects == <<reply, once, timer, delay, parts, clientAlive, retryAlive>>

\* An outcome the reaction has no closure for: a null handler, or a catcher
\* of another exception type, hands it on.
PassesOn ==
    \/ Delivers("pass")
    \/ Delivers("abort") /\ Current.val # TimeoutException
    \/ Delivers("retry") /\ Current.ok
    \/ Delivers("decode") /\ ~Current.ok

Forward ==
    /\ PassesOn
    /\ loop' = Settle(Rest, Target, Current.ok, Current.val)
    /\ UNCHANGED Objects

\* Mutant: the timeout rejects but leaves the reply running.
TimeoutWithoutAbort ==
    /\ Delivers("abort") /\ Current.val = TimeoutException
    /\ loop' = Settle(Rest, Target, FALSE, "timeout")
    /\ UNCHANGED Objects

\* The timeout's catcher.  abort() on a running reply emits finished before it
\* returns, so handleFinished runs inside; then the catcher throws.
AbortOnTimeout ==
    LET a == AttemptOf(Target)
        aborts == reply[a] = "running"
    IN
    /\ Delivers("abort") /\ Current.val = TimeoutException
    /\ loop' = Settle(IF aborts THEN HandleFinished(Rest, a, "canceled")
                                ELSE Rest,
                      Target, FALSE, "timeout")
    /\ reply' = IF aborts THEN [reply EXCEPT ![a] = "finished"] ELSE reply
    /\ once'  = IF aborts THEN once \cup {a} ELSE once
    /\ UNCHANGED <<timer, delay, parts, clientAlive, retryAlive>>

\* Mutant: `remaining < 0' for `remaining <= 0'.
GivesUpLate == ~retryAlive \/ Current.job.left < 0 \/ Current.val \notin Retryable

\* The retry's catcher gives up: interceptor gone, budget spent, or policy.
GivesUp == ~retryAlive \/ Current.job.left <= 0 \/ Current.val \notin Retryable

RetryReject ==
    /\ Delivers("retry") /\ ~Current.ok
    /\ GivesUp
    /\ loop' = Settle(Rest, Target, FALSE, Current.val)
    /\ UNCHANGED Objects

\* QPromise<void>::resolve().delay(d).then(again), returned from the catcher,
\* so the attempt's result takes over what `again' comes to.
DelayedRetry(e, a, left, ex) ==
    LET tap == Id(a, "tap")  delayed == Id(a, "delayed")
        tapped == Post(New(e, tap), Plain("arm", tap), TRUE, Nothing)
    IN  Then(Then(tapped, tap, Plain("elapsed", delayed)), delayed,
             Job("again", Id(a, "again"), left, ex))

\* Mutant: the catcher starts the delay but does not return its promise.
RetryUnreturned ==
    LET a == AttemptOf(Target) IN
    /\ Delivers("retry") /\ ~Current.ok
    /\ ~GivesUp
    /\ loop' = DelayedRetry(Rest, a, Current.job.left, Current.val)
    /\ UNCHANGED Objects

RetryDelay ==
    LET a == AttemptOf(Target) IN
    /\ Delivers("retry") /\ ~Current.ok
    /\ ~GivesUp
    /\ loop' = Adopt(DelayedRetry(Rest, a, Current.job.left, Current.val),
                     Target, Id(a, "again"))
    /\ UNCHANGED Objects

\* Mutant: delay() taps without waiting for the timer's promise.
ArmDelayUnwaited ==
    /\ Delivers("arm")
    /\ loop'  = New(Rest, Id(AttemptOf(Target), "tick"))
    /\ delay' = [delay EXCEPT ![AttemptOf(Target)] = "armed"]
    /\ UNCHANGED <<reply, once, timer, parts, clientAlive, retryAlive>>

\* The tap of delay(): a promise for the timer to resolve.
ArmDelay ==
    LET a == AttemptOf(Target)  tick == Id(a, "tick") IN
    /\ Delivers("arm")
    /\ loop'  = Adopt(New(Rest, tick), Target, tick)
    /\ delay' = [delay EXCEPT ![a] = "armed"]
    /\ UNCHANGED <<reply, once, timer, parts, clientAlive, retryAlive>>

\* tap() answers with the (resolved) promise it was called on.
Elapsed ==
    /\ Delivers("elapsed")
    /\ loop' = Settle(Rest, Target, TRUE, Nothing)
    /\ UNCHANGED Objects

RetryAgain ==
    LET a == NextAttempt(AttemptOf(Target)) IN
    /\ Delivers("again")
    /\ retryAlive
    /\ \E c \in Choices(a[1]) :
          /\ loop' = Adopt(Attempt(Rest, a, Current.job.left - 1, c), Target,
                           Id(a, "result"))
          /\ Launch(a, c)

\* Mutant: the abandoned retry answers with an error of its own.
RetryAbandonAnonymous ==
    /\ Delivers("again")
    /\ ~retryAlive
    /\ loop' = Settle(Rest, Target, FALSE, "destroyed")
    /\ UNCHANGED Objects

\* The interceptor died during the delay: the saved exception is the answer.
RetryAbandon ==
    /\ Delivers("again")
    /\ ~retryAlive
    /\ loop' = Settle(Rest, Target, FALSE, Current.job.saved)
    /\ UNCHANGED Objects

\* deserializeResponse, on the promise the whole chain returned.
Deserialize ==
    /\ Delivers("decode") /\ Current.ok
    /\ \E v \in {"decoded", "serialization"} :
          loop' = Settle(Rest, Target, v = "decoded", v)
    /\ UNCHANGED Objects

\* The queued `finished' of a reply that was finished when it was made.  Qt
\* drops it with the reply and with the client, the connection's context.
FinishedSignal ==
    LET a == AttemptOf(Target)
        heard == clientAlive /\ reply[a] # "destroyed"
    IN
    /\ Delivers("finished")
    /\ loop' = IF heard THEN HandleFinished(Rest, a, Current.val) ELSE Rest
    /\ once' = IF heard THEN once \cup {a} ELSE once
    /\ UNCHANGED <<reply, timer, delay, parts, clientAlive, retryAlive>>

\* The DeferredDelete of a reply; its multipart goes with it.
DeleteReply ==
    LET a == AttemptOf(Target) IN
    /\ Delivers("deleteReply")
    /\ loop'  = Rest
    /\ reply' = [reply EXCEPT ![a] = "destroyed"]
    /\ parts' = [parts EXCEPT ![a] = IF @ = "owned" THEN "freed" ELSE @]
    /\ UNCHANGED <<once, timer, delay, clientAlive, retryAlive>>

\* The DeferredDelete of the parts no reply took over.
DeleteParts ==
    /\ Delivers("deleteParts")
    /\ loop'  = Rest
    /\ parts' = [parts EXCEPT ![AttemptOf(Target)] = "freed"]
    /\ UNCHANGED <<reply, once, timer, delay, clientAlive, retryAlive>>

DeliverEvent ==
    \/ Forward     \/ AbortOnTimeout \/ RetryReject  \/ RetryDelay
    \/ ArmDelay    \/ Elapsed        \/ RetryAgain   \/ RetryAbandon
    \/ Deserialize \/ FinishedSignal \/ DeleteReply  \/ DeleteParts

---------------------------------------------------------------------------
(* Timers, the network, and the owners of the client and the interceptor.  *)

\* Nobody cancels the timer: it fires after the reply was answered, too.
FireTimeout(a) ==
    /\ timer[a] = "armed"
    /\ timer' = [timer EXCEPT ![a] = "fired"]
    /\ loop'  = Settle(loop, Id(a, "timed"), FALSE, TimeoutException)
    /\ UNCHANGED <<reply, once, delay, parts, clientAlive, retryAlive>>

FireDelay(a) ==
    /\ delay[a] = "armed"
    /\ delay' = [delay EXCEPT ![a] = "fired"]
    /\ loop'  = Settle(loop, Id(a, "tick"), TRUE, Nothing)
    /\ UNCHANGED <<reply, once, timer, parts, clientAlive, retryAlive>>

ReplyFinishes(a) ==
    /\ reply[a] = "running"
    /\ \E v \in NetworkResults : loop' = HandleFinished(loop, a, v)
    /\ reply' = [reply EXCEPT ![a] = "finished"]
    /\ once'  = once \cup {a}
    /\ UNCHANGED <<timer, delay, parts, clientAlive, retryAlive>>

\* ~NetworkClient destroys the access manager, with it every reply and the
\* parts it owns (no finished is emitted), and its reference to the
\* interceptor; the user may keep another.
DestroyClient ==
    /\ clientAlive
    /\ clientAlive' = FALSE
    /\ \E kept \in BOOLEAN : retryAlive' = (retryAlive /\ kept)
    /\ reply' = [a \in Attempts |-> IF reply[a] = "none" THEN "none"
                                                         ELSE "destroyed"]
    /\ parts' = [a \in Attempts |-> IF parts[a] = "owned" THEN "freed"
                                                          ELSE parts[a]]
    /\ UNCHANGED <<loop, once, timer, delay>>

DestroyRetry ==
    /\ ~clientAlive /\ retryAlive
    /\ retryAlive' = FALSE
    /\ UNCHANGED <<loop, reply, once, timer, delay, parts, clientAlive>>

---------------------------------------------------------------------------
Init ==
    /\ loop  = EmptyLoop(PromiseIds)
    /\ reply = [a \in Attempts |-> "none"]
    /\ once  = {}
    /\ timer = [a \in Attempts |-> "none"]
    /\ delay = [a \in Attempts |-> "none"]
    /\ parts = [a \in Attempts |-> "none"]
    /\ clientAlive = TRUE
    /\ retryAlive  = TRUE

Next ==
    \/ \E r \in Requests : SendRequest(r)
    \/ DeliverEvent
    \/ \E a \in Attempts : FireTimeout(a) \/ FireDelay(a) \/ ReplyFinishes(a)
    \/ DestroyClient
    \/ DestroyRetry

Spec == Init /\ [][Next]_vars

\* The event loop runs: posted events are delivered and timers fire, each once,
\* so that some armed timer firing again and again means that every one does.
\* Nothing is assumed of the network, or of what the user does.
LoopRuns ==
    /\ WF_vars(DeliverEvent)
    /\ WF_vars(\E a \in Attempts : FireTimeout(a) \/ FireDelay(a))

FairSpec == Spec /\ LoopRuns
---------------------------------------------------------------------------
(* What should hold.                                                       *)

Posted == {loop.posted[n] : n \in DOMAIN loop.posted}
HeldJobs == {ev.job : ev \in Posted}
            \cup UNION {{loop.waiting[p][n] : n \in DOMAIN loop.waiting[p]} :
                        p \in PromiseIds}

Begun(a)  == loop.status[Id(a, "result")] # "absent"
Tries(r)  == {i \in AttemptIds : Begun(<<r, i>>)}
Running(r) == {i \in AttemptIds : reply[<<r, i>>] = "running"}

\* What attempt a itself came to: next()'s promise in RetryInterceptor.
Own(a) == IF loop.status[Id(a, "mapped")] # "absent"
          THEN loop.value[Id(a, "mapped")] ELSE loop.value[Id(a, "reply")]

\* A request without a timeout whose reply went away with the client: no
\* event will ever settle it.
Lost(r) == /\ r \notin Timed
           /\ \E i \in AttemptIds : /\ reply[<<r, i>>] = "destroyed"
                                    /\ <<r, i>> \notin once

\* Every variable has its type; in particular no closure holds a negative
\* retry budget.
TypeOK ==
    /\ loop \in EngineType(PromiseIds, Jobs, Values)
    /\ reply \in [Attempts -> {"none", "running", "finished", "destroyed"}]
    /\ once \subseteq Attempts
    /\ timer \in [Attempts -> {"none", "armed", "fired"}]
    /\ delay \in [Attempts -> {"none", "armed", "fired"}]
    /\ parts \in [Attempts -> {"none", "owned", "orphan", "freed"}]
    /\ clientAlive \in BOOLEAN
    /\ retryAlive \in BOOLEAN

\* The budget a closure captured is what its attempt has left: the recursion
\* of RetryInterceptor::attempt through events and timers counts down by one.
BudgetKept ==
    \A job \in HeldJobs : job.kind \in {"retry", "again"} =>
        job.left = MaxRetries + 1 - job.next[2]

\* No request is attempted more than MaxRetries + 1 times.
RetryBound == \A r \in Requests : Tries(r) \subseteq 1..(MaxRetries + 1)

\* When an attempt begins, the one before it has left nothing behind: its
\* reply is deleted, not running beside the new one, and its multipart with
\* it (the comment at NetworkClient.cpp:136 relies on this).  It holds by the
\* order in which abort(), deleteLater() and the promise events are posted.
PreviousReplyGone ==
    \A r \in Requests, i \in AttemptIds :
        i > 1 /\ Begun(<<r, i>>) =>
            /\ reply[<<r, i - 1>>] \in {"none", "destroyed"}
            /\ parts[<<r, i - 1>>] \in {"none", "freed"}

\* Once the client is gone nothing of it is left on the network, also when a
\* retry was waiting out its delay: no reply runs or is started again, and
\* the only parts left are those whose deletion is posted.
QuietAfterDestroy ==
    ~clientAlive => \A a \in Attempts :
        /\ reply[a] \in {"none", "destroyed"}
        /\ parts[a] \in {"none", "freed", "orphan"}

\* The caller is told what the last attempt came to, every earlier one having
\* failed with an error the policy retries.
OutcomeIsLastAttempt ==
    \A r \in Requests : IsSettled(loop, UserOf(r)) =>
        LET answer == loop.value[UserOf(r)]
            Last(i) == <<r, i + 1>> \notin Attempts \/ ~Begun(<<r, i + 1>>)
        IN  \A i \in Tries(r) :
               IF ~Last(i) THEN Own(<<r, i>>) \in Retryable
               ELSE IF Own(<<r, i>>) = "data"
                    THEN answer \in {"decoded", "serialization"}
                    ELSE answer = Own(<<r, i>>)

\* No lost wakeup: a promise the caller waits on is never pending without an
\* event, an armed timer or a running reply that will move it on.
PendingHasCause ==
    \A r \in Requests : IsPending(loop, UserOf(r)) =>
        \/ Lost(r)
        \/ Running(r) # {}
        \/ \E ev \in Posted : /\ ev.job.next[1] = r
                              /\ ev.job.kind \notin {"finished", "deleteReply",
                                                     "deleteParts"}
        \/ \E i \in AttemptIds :
              \/ delay[<<r, i>>] = "armed"
              \/ timer[<<r, i>>] = "armed" /\ IsPending(loop, <<r, i, "timed">>)

\* Whatever the code allocated is reclaimed once: a finished reply has exactly
\* one deletion posted, one that is not finished has none, and parts that no
\* reply took over have theirs.
ReclaimedOnce ==
    \A a \in Attempts :
        LET Deletions(kind) ==
                {n \in DOMAIN loop.posted :
                    loop.posted[n].job = Plain(kind, Id(a, "reply"))}
        IN  /\ clientAlive =>
                  (reply[a] = "finished" <=> Deletions("deleteReply") # {})
            /\ \A m, n \in Deletions("deleteReply") : m = n
            /\ parts[a] = "orphan" <=> Deletions("deleteParts") # {}

\* If replies finish, every request is answered, except one without a timeout
\* whose reply was destroyed under it.
AnsweredUnlessLost ==
    \A r \in Requests :
        IsPending(loop, UserOf(r)) ~> (IsSettled(loop, UserOf(r)) \/ Lost(r))

RepliesFinish == WF_vars(\E a \in Attempts : ReplyFinishes(a))

FairNetworkSpec == FairSpec /\ RepliesFinish

\* The contract the caller sees, and the state of this module it stands for.
Phase(r) == CASE loop.status[UserOf(r)] = "absent"  -> "idle"
              [] loop.status[UserOf(r)] = "pending" -> "waiting"
              [] OTHER                              -> "done"

Contract == INSTANCE RequestContract WITH
    phase  <- [r \in Requests |-> Phase(r)],
    sends  <- [r \in Requests |-> Cardinality({i \in AttemptIds :
                                            reply[<<r, i>>] # "none"})],
    answer <- [r \in Requests |-> loop.value[UserOf(r)]],
    open   <- clientAlive

\* NetworkClient keeps the contract, its promise of an answer included: a
\* request with a timeout is answered even if no server ever answers and the
\* client or the interceptor is destroyed on the way.
ImplementsContract == Contract!Spec
=============================================================================

---------------------------- MODULE PromiseLoop ----------------------------
(***************************************************************************)
(* The promise engine the framework runs on: third_party/qtpromise, driven *)
(* by one Qt event loop on one thread.                                     *)
(*                                                                         *)
(* An engine is a record                                                   *)
(*   status   what PromiseDataBase::m_settled and m_error say of a promise *)
(*            ("absent" until the QPromise is constructed),                *)
(*   value    the value or exception it is settled with,                   *)
(*   waiting  the reactions then()/fail() registered and not yet posted,   *)
(*   posted   the thread's queue of posted events, oldest first.           *)
(*                                                                         *)
(* A reaction is a job: its kind (which closure it is), the promise its    *)
(* result settles, and what the closure captured.  The operators return    *)
(* the engine after one call of the library, so that a handler that makes  *)
(* several calls is their composition.                                     *)
(***************************************************************************)
EXTENDS Naturals, Sequences

Nothing == "none"       \* the value of a promise that is not settled

\* A closure that captured a retry budget and an exception.
Job(kind, next, left, saved) ==
    [kind |-> kind, next |-> next, left |-> left, saved |-> saved]

\* The closures PromiseFulfill<QPromise<T>> and the nullptr handler register:
\* whatever the promise is settled with settles `next' as well.
Pass(next) == Job("pass", next, 0, Nothing)

\* A job on its way to run with the value (ok) or exception it is given.
Event(job, ok, v) == [job |-> job, ok |-> ok, val |-> v]

EmptyLoop(P) ==
    [status  |-> [p \in P |-> "absent"],
     value   |-> [p \in P |-> Nothing],
     waiting |-> [p \in P |-> <<>>],
     posted  |-> <<>>]

IsPending(e, p)   == e.status[p] = "pending"
IsFulfilled(e, p) == e.status[p] = "fulfilled"
IsRejected(e, p)  == e.status[p] = "rejected"
IsSettled(e, p)   == IsFulfilled(e, p) \/ IsRejected(e, p)

\* QPromiseBase's constructor.
New(e, p) == [e EXCEPT !.status[p] = "pending"]

\* qtpromise_defer and every other QCoreApplication::postEvent.
Post(e, job, ok, v) ==
    [e EXCEPT !.posted = Append(@, Event(job, ok, v))]

\* The events PromiseDataBase::dispatch posts for the reactions it finds.
Dispatched(jobs, ok, v) == [n \in DOMAIN jobs |-> Event(jobs[n], ok, v)]

\* PromiseResolver::resolve (ok) and ::reject: the first call settles the
\* promise and dispatches its reactions, which are then gone; the resolver has
\* dropped its promise, so any later call does nothing.
Settle(e, p, ok, v) ==
    IF ~IsPending(e, p) THEN e
    ELSE [status  |-> [e.status EXCEPT ![p] = IF ok THEN "fulfilled"
                                                    ELSE "rejected"],
          value   |-> [e.value EXCEPT ![p] = v],
          waiting |-> [e.waiting EXCEPT ![p] = <<>>],
          posted  |-> e.posted \o Dispatched(e.waiting[p], ok, v)]

\* The addHandler/addCatcher pair of then(), and its dispatch when the promise
\* was settled already.
Subscribe(e, p, job) ==
    IF IsPending(e, p) THEN [e EXCEPT !.waiting[p] = Append(@, job)]
                       ELSE Post(e, job, IsFulfilled(e, p), e.value[p])

\* then(), fail(), tap(): the reaction settles a promise created for it.
Then(e, p, job) == Subscribe(New(e, job.next), p, job)

\* Mutant: a pending promise is not waited for.
AdoptSettledOnly(e, target, p) ==
    IF IsSettled(e, p) THEN Settle(e, target, IsFulfilled(e, p), e.value[p])
                       ELSE e

\* PromiseFulfill<QPromise<T>>::call: `target' takes over p's outcome, at once
\* when p is settled.
Adopt(e, target, p) ==
    IF IsSettled(e, p) THEN Settle(e, target, IsFulfilled(e, p), e.value[p])
                       ELSE Subscribe(e, p, Pass(target))

\* The engine with its oldest event taken off the queue.
Popped(e) == [e EXCEPT !.posted = Tail(@)]

Statuses == {"absent", "pending", "fulfilled", "rejected"}

EventType(Jobs, Values) == [job : Jobs, ok : BOOLEAN, val : Values]

EngineType(P, Jobs, Values) ==
    [status  : [P -> Statuses],
     value   : [P -> Values],
     waiting : [P -> Seq(Jobs)],
     posted  : Seq(EventType(Jobs, Values))]
=============================================================================

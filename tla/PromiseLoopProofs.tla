------------------------- MODULE PromiseLoopProofs -------------------------
(***************************************************************************)
(* What the operations of the promise engine preserve, for any set of      *)
(* promises, jobs and values.  A component instantiates J with the jobs    *)
(* its closures really are, which turns facts about everything a closure   *)
(* captured into type correctness of the engine.                           *)
(***************************************************************************)
EXTENDS PromiseLoop, SequenceTheorems, TLAPS

\* The events in a queue, and the queues that hold no job twice.
Events(q) == {q[n] : n \in DOMAIN q}

Once(q) == \A m, n \in DOMAIN q : q[m].job = q[n].job => m = n

\* The engines over P, J and V in which no promise of S was ever made.
SafeEngine(P, S, J, V) ==
    {e \in EngineType(P, J, V) : \A p \in S : e.status[p] = "absent"}

\* The empty engine is one of them: QPromise's initial state.
LEMMA EmptySafe ==
    ASSUME NEW P, NEW S \in SUBSET P, NEW J, NEW V, Nothing \in V
    PROVE  EmptyLoop(P) \in SafeEngine(P, S, J, V)
  BY DEF EmptyLoop, SafeEngine, EngineType, Statuses

\* Making a promise outside S keeps the engine safe.
LEMMA NewSafe ==
    ASSUME NEW P, NEW S \in SUBSET P, NEW J, NEW V,
           NEW e \in SafeEngine(P, S, J, V), NEW p \in P \ S
    PROVE  New(e, p) \in SafeEngine(P, S, J, V)
  BY DEF New, SafeEngine, EngineType, Statuses

\* Posting an event whose job is in J keeps the engine safe.
LEMMA PostSafe ==
    ASSUME NEW P, NEW S \in SUBSET P, NEW J, NEW V,
           NEW e \in SafeEngine(P, S, J, V),
           NEW job \in J, NEW ok \in BOOLEAN, NEW v \in V
    PROVE  Post(e, job, ok, v) \in SafeEngine(P, S, J, V)
<1>1. Event(job, ok, v) \in EventType(J, V)
  BY DEF Event, EventType
<1>2. Append(e.posted, Event(job, ok, v)) \in Seq(EventType(J, V))
  BY <1>1 DEF SafeEngine, EngineType
<1>. QED
  BY <1>2 DEF Post, SafeEngine, EngineType

\* Settling any promise, the second time included, keeps the engine safe.
LEMMA SettleSafe ==
    ASSUME NEW P, NEW S \in SUBSET P, NEW J, NEW V,
           NEW e \in SafeEngine(P, S, J, V),
           NEW p \in P, NEW ok \in BOOLEAN, NEW v \in V
    PROVE  Settle(e, p, ok, v) \in SafeEngine(P, S, J, V)
<1>1. CASE ~IsPending(e, p)
  BY <1>1 DEF Settle
<1>2. CASE IsPending(e, p)
  <2>. DEFINE jobs == e.waiting[p]
  <2>1. jobs \in Seq(J) /\ e.posted \in Seq(EventType(J, V))
    BY DEF SafeEngine, EngineType
  <2>2. Dispatched(jobs, ok, v) \in Seq(EventType(J, V))
    <3>1. Len(jobs) \in Nat /\ DOMAIN jobs = 1..Len(jobs)
      BY <2>1, LenProperties
    <3>2. \A n \in 1..Len(jobs) : jobs[n] \in J
      BY <2>1, ElementOfSeq
    <3>. HIDE DEF jobs
    <3>3. \A n \in 1..Len(jobs) : Event(jobs[n], ok, v) \in EventType(J, V)
      BY <3>2 DEF Event, EventType
    <3>4. Dispatched(jobs, ok, v) \in [1..Len(jobs) -> EventType(J, V)]
      BY <3>1, <3>3 DEF Dispatched
    <3>. QED
      BY <3>1, <3>4, SeqDef
  <2>3. e.posted \o Dispatched(jobs, ok, v) \in Seq(EventType(J, V))
    BY <2>1, <2>2
  <2>. HIDE DEF jobs
  <2>4. [e.waiting EXCEPT ![p] = <<>>] \in [P -> Seq(J)]
    BY DEF SafeEngine, EngineType
  <2>5. \A q \in S : [e.status EXCEPT ![p] = IF ok THEN "fulfilled"
                                     ELSE "rejected"][q] = "absent"
    BY <1>2 DEF IsPending, SafeEngine, EngineType
  <2>. QED
    BY <1>2, <2>3, <2>4, <2>5 DEF jobs, Settle, SafeEngine, EngineType, Statuses
<1>. QED
  BY <1>1, <1>2

\* Registering a reaction, or posting it at once, keeps the engine safe.
LEMMA SubscribeSafe ==
    ASSUME NEW P, NEW S \in SUBSET P, NEW J, NEW V,
           NEW e \in SafeEngine(P, S, J, V), NEW p \in P, NEW job \in J
    PROVE  Subscribe(e, p, job) \in SafeEngine(P, S, J, V)
<1>1. CASE IsPending(e, p)
  <2>1. Append(e.waiting[p], job) \in Seq(J)
    BY DEF SafeEngine, EngineType
  <2>. QED
    BY <1>1, <2>1 DEF Subscribe, SafeEngine, EngineType
<1>2. CASE ~IsPending(e, p)
  <2>1. e.value[p] \in V /\ IsFulfilled(e, p) \in BOOLEAN
    BY DEF SafeEngine, EngineType, IsFulfilled
  <2>. QED
    BY <1>2, <2>1, PostSafe DEF Subscribe
<1>. QED
  BY <1>1, <1>2

\* then() and fail(): the promise they make is outside S.
LEMMA ThenSafe ==
    ASSUME NEW P, NEW S \in SUBSET P, NEW J, NEW V,
           NEW e \in SafeEngine(P, S, J, V), NEW p \in P,
           NEW job \in J, job.next \in P \ S
    PROVE  Then(e, p, job) \in SafeEngine(P, S, J, V)
<1>1. New(e, job.next) \in SafeEngine(P, S, J, V)
  BY NewSafe
<1>. QED
  BY <1>1, SubscribeSafe DEF Then

\* A promise that takes over another's outcome.
LEMMA AdoptSafe ==
    ASSUME NEW P, NEW S \in SUBSET P, NEW J, NEW V,
           NEW e \in SafeEngine(P, S, J, V),
           NEW target \in P, NEW p \in P, Pass(target) \in J
    PROVE  Adopt(e, target, p) \in SafeEngine(P, S, J, V)
<1>1. e.value[p] \in V /\ IsFulfilled(e, p) \in BOOLEAN
  BY DEF SafeEngine, EngineType, IsFulfilled
<1>. QED
  BY <1>1, SettleSafe, SubscribeSafe DEF Adopt

\* Taking the oldest event off the queue.
LEMMA PoppedSafe ==
    ASSUME NEW P, NEW S \in SUBSET P, NEW J, NEW V,
           NEW e \in SafeEngine(P, S, J, V), e.posted # <<>>
    PROVE  /\ Popped(e) \in SafeEngine(P, S, J, V)
           /\ Head(e.posted) \in EventType(J, V)
<1>1. Head(e.posted) \in EventType(J, V) /\ Tail(e.posted) \in Seq(EventType(J, V))
  BY DEF SafeEngine, EngineType
<1>. QED
  BY <1>1 DEF Popped, SafeEngine, EngineType

---------------------------------------------------------------------------
(* The queue.                                                              *)

\* Taking the oldest event.
LEMMA Taken ==
    ASSUME NEW E, NEW q \in Seq(E), q # <<>>, Once(q)
    PROVE  /\ Head(q) \in Events(q) /\ Events(Tail(q)) = Events(q) \ {Head(q)}
           /\ Once(Tail(q))
           /\ \A v \in Events(q) : v.job = Head(q).job => v = Head(q)
<1>1. /\ Len(q) \in Nat /\ Len(q) > 0 /\ DOMAIN q = 1..Len(q) /\ DOMAIN Tail(q) = 1..(Len(q) - 1)
      /\ \A n \in 1..(Len(q) - 1) : Tail(q)[n] = q[n + 1]
      /\ Head(q) = q[1]
  OBVIOUS
<1>2. Head(q) \in Events(q) /\ \A v \in Events(q) : v.job = Head(q).job => v = Head(q)
  BY <1>1 DEF Events, Once
<1>3. ASSUME NEW v \in Events(Tail(q)) PROVE v \in Events(q) /\ v # Head(q)
  <2>1. PICK n \in 1..(Len(q) - 1) : v = q[n + 1]
    BY <1>1 DEF Events
  <2>2. n + 1 \in DOMAIN q /\ n + 1 # 1 /\ 1 \in DOMAIN q
    BY <1>1
  <2>. QED
    BY <1>1, <2>1, <2>2 DEF Events, Once
<1>4. ASSUME NEW v \in Events(q), v # Head(q) PROVE v \in Events(Tail(q))
  <2>1. PICK n \in DOMAIN q : v = q[n]
    BY DEF Events
  <2>2. n # 1 /\ n - 1 \in 1..(Len(q) - 1) /\ (n - 1) + 1 = n
    BY <1>1, <1>4, <2>1
  <2>3. Tail(q)[n - 1] = v
    BY <1>1, <2>1, <2>2
  <2>. QED
    BY <1>1, <2>2, <2>3 DEF Events
<1>5. ASSUME NEW m \in DOMAIN Tail(q), NEW n \in DOMAIN Tail(q), Tail(q)[m].job = Tail(q)[n].job
      PROVE  m = n
  <2>1. m + 1 \in DOMAIN q /\ n + 1 \in DOMAIN q /\ q[m + 1].job = q[n + 1].job
    BY <1>1, <1>5
  <2>2. m + 1 = n + 1 /\ m \in Nat /\ n \in Nat
    BY <1>1, <2>1 DEF Once
  <2>. QED
    BY <2>2
<1>. QED
  BY <1>2, <1>3, <1>4, <1>5 DEF Once

\* Posting an event of a job that is not queued.
LEMMA Added ==
    ASSUME NEW E, NEW q \in Seq(E), NEW v \in E, Once(q), \A w \in Events(q) : w.job # v.job
    PROVE  /\ Events(Append(q, v)) = Events(q) \cup {v}
           /\ Once(Append(q, v))
<1>. DEFINE r == Append(q, v)
<1>1. /\ Len(q) \in Nat /\ DOMAIN q = 1..Len(q) /\ DOMAIN r = 1..(Len(q) + 1)
      /\ \A n \in 1..Len(q) : r[n] = q[n]
      /\ r[Len(q) + 1] = v
  OBVIOUS
<1>. HIDE DEF r
<1>2. \A n \in DOMAIN r : n \in DOMAIN q \/ n = Len(q) + 1
  BY <1>1
<1>3. Events(r) = Events(q) \cup {v}
  <2>1. \A w \in Events(r) : w \in Events(q) \cup {v}
    BY <1>1, <1>2 DEF Events
  <2>2. v \in Events(r) /\ \A w \in Events(q) : w \in Events(r)
    BY <1>1 DEF Events
  <2>. QED
    BY <2>1, <2>2
<1>4. \A n \in DOMAIN q : q[n].job # v.job
  BY DEF Events
<1>5. Once(r)
  BY <1>1, <1>2, <1>4 DEF Once
<1>. QED
  BY <1>3, <1>5 DEF r

\* Settling a promise posts the reaction that waits for it, if one does.
LEMMA SettlePosts ==
    ASSUME NEW E, NEW e, e.posted \in Seq(E), NEW p, IsPending(e, p),
           NEW ok, NEW v, NEW job, Event(job, ok, v) \in E
    PROVE  /\ e.waiting[p] = <<job>> =>
                 Settle(e, p, ok, v).posted = Append(e.posted, Event(job, ok, v))
           /\ e.waiting[p] = <<>> => Settle(e, p, ok, v).posted = e.posted
<1>. DEFINE q == e.posted
            x == Event(job, ok, v)
<1>1. Settle(e, p, ok, v).posted = q \o Dispatched(e.waiting[p], ok, v)
  BY DEF Settle
<1>2. ASSUME e.waiting[p] = <<job>>
      PROVE  Settle(e, p, ok, v).posted = Append(e.posted, Event(job, ok, v))
  <2>1. Dispatched(<<job>>, ok, v) = <<x>>
    BY DEF Dispatched
  <2>. HIDE DEF q, x
  <2>2. q \in Seq(E) /\ x \in E
    BY DEF q, x
  <2>3. q \o <<x>> = Append(q, x)
    BY <2>2
  <2>. QED
    BY <1>1, <1>2, <2>1, <2>3 DEF q, x
<1>3. ASSUME e.waiting[p] = <<>>
      PROVE  Settle(e, p, ok, v).posted = e.posted
  <2>1. Dispatched(<<>>, ok, v) = <<>>
    BY DEF Dispatched
  <2>2. q \o <<>> = q
    OBVIOUS
  <2>. QED
    BY <1>1, <1>3, <2>1, <2>2
<1>. QED
  BY <1>2, <1>3
=============================================================================

------------------------ MODULE NetworkClientProofs ------------------------
(***************************************************************************)
(* What holds of the whole pipeline for any requests, retry limit and      *)
(* policy.                                                                 *)
(*                                                                         *)
(* The argument is about the engine first.  Every closure listens to one   *)
(* promise (Speaker) and settles one promise (job.next); Wired says of an  *)
(* engine that each pending promise has its one listener, that what a      *)
(* queued event carries is what its speaker came to, that a promise is     *)
(* pending exactly while the one closure that will settle it is held, and  *)
(* that nothing is queued twice.  Each call of the library preserves this, *)
(* up to promises that are still without a listener (X) or without a       *)
(* closure to settle them (Y), so that a handler is a chain of such calls. *)
(* On top of it come the order in which promises are made (Created), the   *)
(* objects and their deletions (Reclaimed), and what flows through them    *)
(* (Reported, Carried).  Last, every step is one of RequestContract.       *)
(***************************************************************************)
EXTENDS NetworkClient, PromiseLoopProofs, FiniteSetTheorems, WellFoundedInduction

\* The promises of the attempt that must not happen.
Beyond == {p \in PromiseIds : p[2] = MaxRetries + 2}

Within == Requests \X (1..(MaxRetries + 1))     \* the attempts that may

---------------------------------------------------------------------------
(* The closures the code makes, by what they are for.                      *)

TimedJob(a)     == Pass(Id(a, "timed"))
AbortJob(a)     == Plain("abort", Id(a, "mapped"))
RetryJob(a)     == Job("retry", Id(a, "result"), MaxRetries + 1 - a[2], Nothing)
ArmJob(a)       == Plain("arm", Id(a, "tap"))
TickJob(a)      == Pass(Id(a, "tap"))
ElapsedJob(a)   == Plain("elapsed", Id(a, "delayed"))
AgainJob(a, ex) == Job("again", Id(a, "again"), MaxRetries + 1 - a[2], ex)
ReturnJob(a)    == Pass(Id(a, "result"))
NestJob(a)      == Pass(Id(a, "again"))
DecodeJob(r)    == Plain("decode", UserOf(r))

\* The events of objects, which settle no promise by themselves.
Objectual == {"finished", "deleteReply", "deleteParts"}
ObjectJob(kind, a) == Plain(kind, Id(a, "reply"))

ClosuresOf(a) ==
    {TimedJob(a), AbortJob(a), RetryJob(a), ArmJob(a), TickJob(a), ElapsedJob(a),
     ReturnJob(a)}
    \cup {ObjectJob(kind, a) : kind \in Objectual}
    \cup {j \in {NestJob(a)} \cup {AgainJob(a, ex) : ex \in Values} : a[2] <= MaxRetries}

GoodJobs == {DecodeJob(r) : r \in Requests} \cup UNION {ClosuresOf(a) : a \in Within}

Reactions == {j \in GoodJobs : j.kind \notin Objectual \cup {"arm"}}
Settling  == {j \in GoodJobs : j.kind \notin Objectual}

Engines == SafeEngine(PromiseIds, Beyond, GoodJobs, Values)

USE NetworkClientAssumption

\* Every promise of an attempt within the budget may be made.
LEMMA IdGood ==
    ASSUME NEW a \in Within, NEW name \in Names
    PROVE  /\ Id(a, name) \in PromiseIds \ Beyond
           /\ Id(a, name)[1] = a[1] /\ Id(a, name)[2] = a[2] /\ Id(a, name)[3] = name
           /\ a[1] \in Requests /\ a[2] \in 1..(MaxRetries + 1) /\ a[2] \in Nat
           /\ AttemptOf(Id(a, name)) = a
           /\ a \in Attempts
  BY DEF Within, Id, PromiseIds, Beyond, Attempts, AttemptIds, AttemptOf

\* So may the promise handed to the caller.
LEMMA UserGood ==
    ASSUME NEW r \in Requests
    PROVE  /\ UserOf(r) \in PromiseIds \ Beyond
           /\ UserOf(r)[1] = r /\ UserOf(r)[2] = 0 /\ UserOf(r)[3] = "user"
  BY DEF UserOf, PromiseIds, Beyond, Names

\* The closures of an attempt are good ones.
LEMMA JobsGood ==
    ASSUME NEW a \in Within
    PROVE  /\ {TimedJob(a), AbortJob(a), RetryJob(a), TickJob(a), ElapsedJob(a), ReturnJob(a)}
                 \subseteq Reactions
           /\ ArmJob(a) \in Settling
           /\ \A kind \in Objectual : ObjectJob(kind, a) \in GoodJobs
           /\ a[2] <= MaxRetries =>
                 NestJob(a) \in Reactions /\ \A ex \in Values : AgainJob(a, ex) \in Reactions
           /\ Reactions \subseteq Settling /\ Settling \subseteq GoodJobs
<1>1. ClosuresOf(a) \subseteq GoodJobs
  BY DEF GoodJobs
<1>. QED
  BY <1>1 DEF ClosuresOf, Reactions, Settling, Objectual, TimedJob, AbortJob, RetryJob, ArmJob, TickJob,
     ElapsedJob, AgainJob, ReturnJob, NestJob, Pass, Plain, Job

\* So is the decoding of a request's body.
LEMMA DecodeGood ==
    ASSUME NEW r \in Requests
    PROVE  DecodeJob(r) \in Reactions /\ DecodeJob(r).next = UserOf(r)
  BY DEF GoodJobs, Reactions, Objectual, DecodeJob, Plain, Job

\* What each closure is, read off its kind and the promise it settles.
LEMMA Anatomy ==
    ASSUME NEW j \in GoodJobs
    PROVE  LET a == AttemptOf(j.next) IN
           /\ j.next \in PromiseIds \ Beyond
           /\ j.kind # "decode" => a \in Within
           /\ j.kind = "decode" => j = DecodeJob(j.next[1]) /\ j.next = UserOf(j.next[1])
                                   /\ j.next[1] \in Requests
           /\ j.kind = "abort" => j = AbortJob(a) /\ j.next = Id(a, "mapped")
           /\ j.kind = "retry" => j = RetryJob(a) /\ j.next = Id(a, "result")
           /\ j.kind = "arm" => j = ArmJob(a) /\ j.next = Id(a, "tap")
           /\ j.kind = "elapsed" => j = ElapsedJob(a) /\ j.next = Id(a, "delayed")
           /\ j.kind = "again" => /\ j.saved \in Values /\ j = AgainJob(a, j.saved)
                                  /\ j.next = Id(a, "again") /\ a[2] <= MaxRetries
           /\ j.kind = "pass" => /\ j = Pass(j.next)
                                 /\ j.next \in {Id(a, n) : n \in {"timed", "result", "tap", "again"}}
                                 /\ j.next[3] = "again" => a[2] <= MaxRetries
           /\ j.kind \in Objectual => j = ObjectJob(j.kind, a) /\ j.next = Id(a, "reply")
           /\ j.kind \in Kinds
<1>1. CASE j \in {DecodeJob(r) : r \in Requests}
  BY <1>1, UserGood DEF DecodeJob, Plain, Job, Objectual, Kinds
<1>2. ASSUME NEW b \in Within, j \in ClosuresOf(b)
      PROVE  /\ j.kind # "decode" /\ \E n \in Names : j.next = Id(b, n)
             /\ j.kind = "abort" => j = AbortJob(b) /\ j.next = Id(b, "mapped")
             /\ j.kind = "retry" => j = RetryJob(b) /\ j.next = Id(b, "result")
             /\ j.kind = "arm" => j = ArmJob(b) /\ j.next = Id(b, "tap")
             /\ j.kind = "elapsed" => j = ElapsedJob(b) /\ j.next = Id(b, "delayed")
             /\ j.kind = "again" => /\ j.saved \in Values /\ j = AgainJob(b, j.saved)
                                    /\ j.next = Id(b, "again") /\ b[2] <= MaxRetries
             /\ j.kind = "pass" =>
                   /\ j = Pass(j.next)
                   /\ j.next \in {Id(b, n) : n \in {"timed", "result", "tap", "again"}}
                   /\ j.next[3] = "again" => b[2] <= MaxRetries
             /\ j.kind \in Objectual => j = ObjectJob(j.kind, b) /\ j.next = Id(b, "reply")
             /\ j.kind \in Kinds
  <2>1. CASE j \in {TimedJob(b), AbortJob(b), RetryJob(b), ArmJob(b), TickJob(b), ElapsedJob(b),
                    ReturnJob(b)}
    BY <2>1 DEF TimedJob, AbortJob, RetryJob, ArmJob, TickJob, ElapsedJob, ReturnJob, Pass, Plain, Job,
       Objectual, Kinds, Names, Id
  <2>2. CASE j \in {ObjectJob(kind, b) : kind \in Objectual}
    BY <2>2 DEF ObjectJob, Plain, Job, Objectual, Kinds, Names
  <2>3. CASE b[2] <= MaxRetries /\ j = NestJob(b)
    BY <2>3 DEF NestJob, Pass, Job, Objectual, Kinds, Names
  <2>4. CASE b[2] <= MaxRetries /\ j \in {AgainJob(b, ex) : ex \in Values}
    BY <2>4 DEF AgainJob, Job, Objectual, Kinds, Names
  <2>. QED
    BY <1>2, <2>1, <2>2, <2>3, <2>4 DEF ClosuresOf
<1>3. ASSUME NEW b \in Within, j \in ClosuresOf(b) PROVE AttemptOf(j.next) = b /\ j.next \in PromiseIds \ Beyond
  BY <1>2, <1>3, IdGood
<1>. HIDE DEF GoodJobs
<1>4. CASE \E b \in Within : j \in ClosuresOf(b)
  <2>1. PICK b \in Within : j \in ClosuresOf(b)
    BY <1>4
  <2>2. AttemptOf(j.next) = b /\ j.next \in PromiseIds \ Beyond
    BY <2>1, <1>3
  <2>. QED
    BY <2>1, <2>2, <1>2
<1>. QED
  BY <1>1, <1>4 DEF GoodJobs

---------------------------------------------------------------------------
(* Engines whose closures are wired as the code wires them.                *)

Made(e, p) == e.status[p] # "absent"

\* Next()'s promise in RetryInterceptor: behind the timeout if there is one.
Out(e, a) == IF Made(e, Id(a, "mapped")) THEN Id(a, "mapped") ELSE Id(a, "reply")

\* The promise whose outcome a reaction is given.
SpeakerName(j) ==
    IF j.kind = "abort" THEN "timed"
    ELSE IF j.kind = "elapsed" THEN "tap"
    ELSE IF j.kind = "again" THEN "delayed"
    ELSE IF j.next[3] = "timed" THEN "reply"
    ELSE IF j.next[3] = "result" THEN "again"
    ELSE "tick"

Speaker(e, j) ==
    IF j.kind = "decode" THEN <<j.next[1], 1, "result">>
    ELSE IF j.kind = "retry" THEN Out(e, AttemptOf(j.next))
    ELSE IF j.kind = "pass" /\ j.next[3] = "again" THEN <<j.next[1], j.next[2] + 1, "result">>
    ELSE Id(AttemptOf(j.next), SpeakerName(j))

\* The closures an engine holds, waiting or on their way.
Queued(e) == {v.job : v \in Events(e.posted)}
Held(e)   == Queued(e) \cup {j \in GoodJobs : \E p \in PromiseIds : e.waiting[p] = <<j>>}

\* A promise has one listener while it is pending, and none afterwards.
Listened(e, X) ==
    \A p \in PromiseIds :
        \/ /\ e.waiting[p] = <<>>
           /\ IsPending(e, p) /\ p[3] # "user" => p \in X
        \/ \E j \in Reactions : /\ e.waiting[p] = <<j>> /\ Speaker(e, j) = p
                                /\ IsPending(e, p) /\ p \notin X

\* A queued reaction carries what its speaker came to.
Outspoken(e, X) ==
    \A v \in Events(e.posted) : v.job \in Reactions =>
        LET p == Speaker(e, v.job) IN
        /\ p \in PromiseIds \ X /\ IsSettled(e, p)
        /\ v.ok = IsFulfilled(e, p) /\ v.val = e.value[p]

\* A closure that is held has a promise to settle, which is still pending but
\* for a timeout's; and no other closure has the same one.
Aimed(e, Y) ==
    /\ \A j \in Held(e) \cap Settling : /\ Made(e, j.next) /\ j.next \notin Y
                                        /\ j.next[3] # "timed" => IsPending(e, j.next)
    /\ \A j, k \in Held(e) \cap Settling : j.next = k.next => j = k

\* Whatever is pending will be settled: by a closure, the network or a timer.
Awaited(e, Y) ==
    \A p \in PromiseIds : IsPending(e, p) /\ p[3] \notin {"reply", "tick"} =>
        p \in Y \/ \E j \in Held(e) \cap Settling : j.next = p

\* Nothing of an attempt is reclaimed after what comes of it is reported.
Orderly(e) ==
    \A m, n \in DOMAIN e.posted :
        e.posted[n].job.kind \in Objectual
        /\ e.posted[m].job = RetryJob(AttemptOf(e.posted[n].job.next)) => n < m

Wired(e, X, Y) ==
    /\ e \in Engines /\ X \subseteq {p \in PromiseIds : Made(e, p)}
    /\ Once(e.posted) /\ Orderly(e)
    /\ Listened(e, X) /\ Outspoken(e, X) /\ Aimed(e, Y) /\ Awaited(e, Y)

\* What a call makes of an engine e: a promise settled, ...
Settles(e, f, X, Y, p, ok, v) ==
    /\ Wired(f, X, Y \ {p}) /\ Held(f) = Held(e)
    /\ \A q \in PromiseIds : q # p => f.status[q] = e.status[q] /\ f.value[q] = e.value[q]
    /\ \A q \in PromiseIds : Made(f, q) <=> Made(e, q)
    /\ ~IsPending(f, p)
    /\ IsPending(e, p) => f.status[p] = (IF ok THEN "fulfilled" ELSE "rejected") /\ f.value[p] = v
    /\ ~IsPending(e, p) => f.status[p] = e.status[p] /\ f.value[p] = e.value[p]

\* ... another closure, ...
Gains(e, f, X, Y, j) ==
    /\ Wired(f, X, Y \ {j.next}) /\ Held(f) = Held(e) \cup {j}
    /\ f.status = e.status /\ f.value = e.value

\* ... a promise chained to another, ...
Chains(e, f, X, Y, p, j) ==
    /\ Wired(f, (X \ {p}) \cup {j.next}, Y \ {j.next}) /\ Held(f) = Held(e) \cup {j}
    /\ \A q \in PromiseIds : q # j.next => f.status[q] = e.status[q]
    /\ IsPending(f, j.next) /\ f.value = e.value

\* ... or an outcome taken over.
TakesOver(e, f, X, Y, p, t) ==
    /\ Wired(f, X \ {p}, Y \ {t}) /\ Held(f) = Held(e)
    /\ \A q \in PromiseIds : q # t => f.status[q] = e.status[q] /\ f.value[q] = e.value[q]
    /\ f.status[t] = e.status[p] /\ f.value[t] = e.value[p]

---------------------------------------------------------------------------
(* The calls of the library.                                               *)

\* An engine's parts.
LEMMA Parts ==
    ASSUME NEW e \in Engines
    PROVE  /\ e = [status |-> e.status, value |-> e.value, waiting |-> e.waiting, posted |-> e.posted]
           /\ e.status \in [PromiseIds -> Statuses] /\ e.value \in [PromiseIds -> Values]
           /\ e.waiting \in [PromiseIds -> Seq(GoodJobs)]
           /\ e.posted \in Seq(EventType(GoodJobs, Values))
           /\ \A v \in Events(e.posted) : v \in EventType(GoodJobs, Values) /\ v.job \in GoodJobs
           /\ \A j \in Held(e) : j \in GoodJobs
           /\ \A p \in Beyond : e.status[p] = "absent"
<1>1. e \in EngineType(PromiseIds, GoodJobs, Values) /\ \A p \in Beyond : e.status[p] = "absent"
  BY DEF Engines, SafeEngine
<1>2. /\ e.posted \in Seq(EventType(GoodJobs, Values))
      /\ e = [status |-> e.status, value |-> e.value, waiting |-> e.waiting, posted |-> e.posted]
      /\ e.status \in [PromiseIds -> Statuses] /\ e.value \in [PromiseIds -> Values]
      /\ e.waiting \in [PromiseIds -> Seq(GoodJobs)]
  BY <1>1 DEF EngineType
<1>3. \A n \in DOMAIN e.posted : e.posted[n] \in EventType(GoodJobs, Values)
  BY <1>2, LenProperties, ElementOfSeq
<1>4. \A v \in Events(e.posted) : v \in EventType(GoodJobs, Values) /\ v.job \in GoodJobs
  BY <1>3 DEF Events, EventType
<1>. QED
  BY <1>1, <1>2, <1>4 DEF Held, Queued

\* Speakers are told apart by the promises that exist, not by their state.
LEMMA SameSpeaker ==
    ASSUME NEW e, NEW f, NEW j \in GoodJobs,
           j.kind = "retry" =>
              (Made(e, Id(AttemptOf(j.next), "mapped")) <=> Made(f, Id(AttemptOf(j.next), "mapped")))
    PROVE  Speaker(f, j) = Speaker(e, j)
  BY DEF Speaker, Out

\* A speaker is a promise of the code, never the caller's.
LEMMA SpeakerGood ==
    ASSUME NEW e, NEW j \in Reactions
    PROVE  Speaker(e, j) \in PromiseIds \ Beyond /\ Speaker(e, j)[3] # "user"
<1>. DEFINE a == AttemptOf(j.next)
<1>1. j \in GoodJobs /\ j.kind \notin Objectual \cup {"arm"}
  BY DEF Reactions
<1>2. CASE j.kind = "decode"
  <2>1. j.next[1] \in Requests
    BY <1>1, <1>2, Anatomy
  <2>2. <<j.next[1], 1>> \in Within
    BY <2>1 DEF Within
  <2>3. Id(<<j.next[1], 1>>, "result") \in PromiseIds \ Beyond /\ Id(<<j.next[1], 1>>, "result")[3] = "result"
    BY <2>2, IdGood DEF Names
  <2>. QED
    BY <1>2, <2>3 DEF Speaker, Id
<1>3. CASE j.kind # "decode"
  <2>1. a \in Within
    BY <1>1, <1>3, Anatomy
  <2>2. \A n \in Names : Id(a, n) \in PromiseIds \ Beyond /\ Id(a, n)[3] = n
    BY <2>1, IdGood
  <2>3. CASE j.kind = "pass" /\ j.next[3] = "again"
    <3>1. <<a[1], a[2] + 1>> \in Within
      <4>1. a[2] <= MaxRetries
        BY <1>1, <2>3, Anatomy
      <4>. QED
        BY <2>1, <4>1 DEF Within
    <3>2. Id(<<a[1], a[2] + 1>>, "result") \in PromiseIds \ Beyond
          /\ Id(<<a[1], a[2] + 1>>, "result")[3] = "result"
      BY <3>1, IdGood DEF Names
    <3>. QED
      BY <2>3, <3>2 DEF Speaker, Id, AttemptOf
  <2>4. CASE j.kind = "retry"
    BY <2>2, <2>4 DEF Speaker, Out, Names
  <2>5. CASE j.kind # "retry" /\ ~(j.kind = "pass" /\ j.next[3] = "again")
    BY <1>3, <2>2, <2>5 DEF Speaker, SpeakerName, Names
  <2>. QED
    BY <2>3, <2>4, <2>5
<1>. QED
  BY <1>2, <1>3

\* A new promise: nobody listens yet, and nothing will settle it yet.
LEMMA NewWired ==
    ASSUME NEW e, NEW X, NEW Y, Wired(e, X, Y), NEW p \in PromiseIds \ Beyond,
           e.status[p] = "absent",
           p[3] = "mapped" => RetryJob(AttemptOf(p)) \notin Held(e)
    PROVE  /\ Wired(New(e, p), X \cup {p}, Y \cup {p})
           /\ New(e, p).status = [e.status EXCEPT ![p] = "pending"]
           /\ New(e, p).value = e.value /\ New(e, p).posted = e.posted
           /\ Held(New(e, p)) = Held(e)
<1>. DEFINE f == New(e, p)
<1>1. /\ e \in Engines /\ X \subseteq {q \in PromiseIds : Made(e, q)} /\ Once(e.posted)
      /\ Listened(e, X) /\ Outspoken(e, X) /\ Aimed(e, Y) /\ Awaited(e, Y)
  BY DEF Wired
<1>2. /\ f.status = [e.status EXCEPT ![p] = "pending"]
      /\ f.value = e.value /\ f.waiting = e.waiting /\ f.posted = e.posted
  BY <1>1, Parts DEF New
<1>3. f \in Engines
  BY <1>1, NewSafe DEF Engines, Beyond
<1>. HIDE DEF f
<1>4. /\ f.status[p] = "pending" /\ \A q \in PromiseIds \ {p} : f.status[q] = e.status[q]
      /\ \A q \in PromiseIds : Made(e, q) => Made(f, q) /\ q # p
      /\ Made(f, p)
  BY <1>1, <1>2, Parts DEF Made
<1>5. Held(f) = Held(e)
  BY <1>2 DEF Held, Queued
<1>6. \A j \in Held(e) : j \in GoodJobs /\ Speaker(f, j) = Speaker(e, j)
  <2>1. SUFFICES ASSUME NEW j \in Held(e) PROVE j \in GoodJobs /\ Speaker(f, j) = Speaker(e, j)
    OBVIOUS
  <2>2. j \in GoodJobs
    BY <1>1, Parts
  <2>. DEFINE a == AttemptOf(j.next)
  <2>3. ASSUME j.kind = "retry" PROVE Made(e, Id(a, "mapped")) <=> Made(f, Id(a, "mapped"))
    <3>1. a \in Within /\ j = RetryJob(a)
      BY <2>2, <2>3, Anatomy DEF Kinds
    <3>2. Id(a, "mapped") \in PromiseIds /\ Id(a, "mapped")[3] = "mapped" /\ AttemptOf(Id(a, "mapped")) = a
      BY <3>1, IdGood DEF Names
    <3>3. Id(a, "mapped") # p
      BY <3>1, <3>2
    <3>. QED
      BY <1>4, <3>2, <3>3 DEF Made
  <2>. QED
    BY <2>2, <2>3, SameSpeaker
<1>7. Listened(f, X \cup {p})
  <2>1. SUFFICES ASSUME NEW q \in PromiseIds
                 PROVE  \/ /\ f.waiting[q] = <<>>
                           /\ IsPending(f, q) /\ q[3] # "user" => q \in X \cup {p}
                        \/ \E j \in Reactions : /\ f.waiting[q] = <<j>> /\ Speaker(f, j) = q
                                                /\ IsPending(f, q) /\ q \notin X \cup {p}
    BY DEF Listened
  <2>2. CASE e.waiting[q] = <<>> /\ (IsPending(e, q) /\ q[3] # "user" => q \in X)
    BY <1>2, <1>4, <2>2 DEF IsPending
  <2>3. CASE \E j \in Reactions : /\ e.waiting[q] = <<j>> /\ Speaker(e, j) = q
                                  /\ IsPending(e, q) /\ q \notin X
    <3>1. PICK j \in Reactions : /\ e.waiting[q] = <<j>> /\ Speaker(e, j) = q
                                 /\ IsPending(e, q) /\ q \notin X
      BY <2>3
    <3>2. j \in Held(e)
      BY <3>1 DEF Held, Reactions
    <3>3. q # p
      BY <3>1 DEF IsPending
    <3>. QED
      BY <1>2, <1>4, <1>6, <3>1, <3>2, <3>3 DEF IsPending
  <2>. QED
    BY <1>1, <2>2, <2>3 DEF Listened
<1>8. Outspoken(f, X \cup {p})
  <2>1. SUFFICES ASSUME NEW v \in Events(f.posted), v.job \in Reactions
                 PROVE  LET q == Speaker(f, v.job) IN
                        /\ q \in PromiseIds \ (X \cup {p}) /\ IsSettled(f, q)
                        /\ v.ok = IsFulfilled(f, q) /\ v.val = f.value[q]
    BY DEF Outspoken
  <2>2. v \in Events(e.posted) /\ v.job \in Held(e)
    BY <1>2 DEF Held, Queued
  <2>. DEFINE q == Speaker(e, v.job)
  <2>3. /\ q \in PromiseIds \ X /\ IsSettled(e, q)
        /\ v.ok = IsFulfilled(e, q) /\ v.val = e.value[q]
    BY <1>1, <2>1, <2>2 DEF Outspoken
  <2>4. Speaker(f, v.job) = q
    BY <1>6, <2>2
  <2>. HIDE DEF q
  <2>5. q # p /\ f.status[q] = e.status[q]
    BY <1>4, <2>3 DEF IsSettled, IsFulfilled, IsRejected
  <2>. QED
    BY <1>2, <2>3, <2>4, <2>5 DEF IsSettled, IsFulfilled, IsRejected
<1>9. Aimed(f, Y \cup {p}) /\ Awaited(f, Y \cup {p})
  <2>1. \A j \in Settling : j.next \in PromiseIds
    BY Anatomy DEF Settling
  <2>2. Aimed(f, Y \cup {p})
    BY <1>1, <1>4, <1>5, <2>1 DEF Aimed, IsPending
  <2>3. Awaited(f, Y \cup {p})
    BY <1>1, <1>4, <1>5 DEF Awaited, IsPending
  <2>. QED
    BY <2>2, <2>3
<1>10. Once(f.posted) /\ Orderly(f) /\ X \cup {p} \subseteq {q \in PromiseIds : Made(f, q)}
  BY <1>1, <1>2, <1>4 DEF Wired, Orderly
<1>. QED
  BY <1>2, <1>3, <1>5, <1>7, <1>8, <1>9, <1>10 DEF Wired, f

\* Posting at the end keeps the order, unless it is a deletion after the report.
LEMMA OrderlyAppend ==
    ASSUME NEW e, NEW E, e.posted \in Seq(E), Orderly(e), NEW v \in E, NEW f, f.posted = Append(e.posted, v),
           v.job.kind \in Objectual =>
              \A w \in Events(e.posted) : w.job # RetryJob(AttemptOf(v.job.next))
    PROVE  Orderly(f)
<1>. DEFINE q == e.posted
            k == Len(q)
<1>1. /\ k \in Nat /\ DOMAIN q = 1..k /\ DOMAIN f.posted = 1..(k + 1)
      /\ \A n \in 1..k : f.posted[n] = q[n]
      /\ f.posted[k + 1] = v
  OBVIOUS
<1>2. SUFFICES ASSUME NEW m \in 1..(k + 1), NEW n \in 1..(k + 1),
                      f.posted[n].job.kind \in Objectual,
                      f.posted[m].job = RetryJob(AttemptOf(f.posted[n].job.next))
               PROVE  n < m
  BY <1>1 DEF Orderly
<1>. HIDE DEF k
<1>3. CASE m = k + 1 /\ n \in 1..k
  BY <1>1, <1>3
<1>4. CASE m = k + 1 /\ n = k + 1
  BY <1>1, <1>2, <1>4 DEF RetryJob, Job, Objectual
<1>5. CASE m \in 1..k /\ n = k + 1
  <2>1. q[m] \in Events(q)
    BY <1>1, <1>5 DEF Events
  <2>. QED
    BY <1>1, <1>2, <1>5, <2>1
<1>6. CASE m \in 1..k /\ n \in 1..k
  BY <1>1, <1>2, <1>6 DEF Orderly
<1>. QED
  BY <1>1, <1>3, <1>4, <1>5, <1>6

\* Taking the oldest event keeps it.
LEMMA OrderlyTail ==
    ASSUME NEW e, NEW E, e.posted \in Seq(E), e.posted # <<>>, Orderly(e), NEW f, f.posted = Tail(e.posted)
    PROVE  /\ Orderly(f)
           /\ \A n \in DOMAIN e.posted : e.posted[n].job.kind \in Objectual =>
                 Head(e.posted).job # RetryJob(AttemptOf(e.posted[n].job.next))
<1>. DEFINE q == e.posted
            k == Len(q)
<1>1. /\ k \in Nat /\ k > 0 /\ DOMAIN q = 1..k /\ DOMAIN f.posted = 1..(k - 1)
      /\ \A n \in 1..(k - 1) : f.posted[n] = q[n + 1]
      /\ Head(q) = q[1]
  OBVIOUS
<1>. HIDE DEF k
<1>2. ASSUME NEW m \in 1..(k - 1), NEW n \in 1..(k - 1), f.posted[n].job.kind \in Objectual,
             f.posted[m].job = RetryJob(AttemptOf(f.posted[n].job.next))
      PROVE  n < m
  <2>1. m + 1 \in 1..k /\ n + 1 \in 1..k /\ f.posted[m] = q[m + 1] /\ f.posted[n] = q[n + 1]
    BY <1>1
  <2>2. n + 1 < m + 1
    BY <1>1, <1>2, <2>1 DEF Orderly
  <2>. QED
    BY <2>2
<1>3. ASSUME NEW n \in 1..k, q[n].job.kind \in Objectual,
             q[1].job = RetryJob(AttemptOf(q[n].job.next))
      PROVE  FALSE
  <2>1. n < 1
    BY <1>1, <1>3 DEF Orderly
  <2>. QED
    BY <2>1
<1>. QED
  BY <1>1, <1>2, <1>3 DEF Orderly

\* A closure that waits is not on its way, and waits at its speaker.
LEMMA WaitsOrQueued ==
    ASSUME NEW e, NEW X, NEW Y, Wired(e, X, Y), NEW p \in PromiseIds, NEW j, e.waiting[p] = <<j>>
    PROVE  j \notin Queued(e) /\ j \in Reactions /\ Speaker(e, j) = p /\ j \in Held(e)
           /\ IsPending(e, p) /\ p \notin X
<1>1. \E k \in Reactions : /\ e.waiting[p] = <<k>> /\ Speaker(e, k) = p
                           /\ IsPending(e, p) /\ p \notin X
  <2>1. e.waiting[p] # <<>>
    OBVIOUS
  <2>. QED
    BY <2>1 DEF Wired, Listened
<1>2. j \in Reactions /\ Speaker(e, j) = p /\ IsPending(e, p) /\ p \notin X
  BY <1>1
<1>3. ASSUME NEW v \in Events(e.posted), v.job = j PROVE FALSE
  <2>1. IsSettled(e, p)
    BY <1>2, <1>3 DEF Wired, Outspoken
  <2>. QED
    BY <1>2, <2>1 DEF IsSettled, IsFulfilled, IsRejected, IsPending
<1>. QED
  BY <1>2, <1>3 DEF Held, Queued, Reactions

\* The event loop takes the oldest event: its closure is no longer held, and
\* the promise it settles waits for the handler.
LEMMA PopWired ==
    ASSUME NEW e, Wired(e, {}, {}), e.posted # <<>>
    PROVE  LET j == Head(e.posted).job
               f == Popped(e)
           IN  /\ j \in GoodJobs /\ Head(e.posted).ok \in BOOLEAN /\ Head(e.posted).val \in Values
               /\ j \in Held(e) /\ Held(f) = Held(e) \ {j}
               /\ f.status = e.status /\ f.value = e.value
               /\ Wired(f, {}, IF j \in Settling THEN {j.next} ELSE {})
               /\ \A n \in DOMAIN e.posted : e.posted[n].job.kind \in Objectual =>
                     j # RetryJob(AttemptOf(e.posted[n].job.next))
<1>. DEFINE h == Head(e.posted)
            j == h.job
            f == Popped(e)
            Y == IF j \in Settling THEN {j.next} ELSE {}
<1>1. /\ e \in Engines /\ Once(e.posted) /\ Orderly(e)
      /\ Listened(e, {}) /\ Outspoken(e, {}) /\ Aimed(e, {}) /\ Awaited(e, {})
  BY DEF Wired
<1>2. e.posted \in Seq(EventType(GoodJobs, Values))
  BY <1>1, Parts
<1>3. f \in Engines /\ h \in EventType(GoodJobs, Values)
  BY <1>1, PoppedSafe DEF Engines, Beyond
<1>4. /\ f.status = e.status /\ f.value = e.value /\ f.waiting = e.waiting
      /\ f.posted = Tail(e.posted)
  BY <1>1, Parts DEF Popped
<1>. HIDE DEF f
<1>5. /\ h \in Events(e.posted) /\ Events(f.posted) = Events(e.posted) \ {h}
      /\ Once(f.posted)
      /\ \A v \in Events(e.posted) : v.job = j => v = h
  BY <1>1, <1>2, <1>4, Taken
<1>. HIDE DEF h
<1>6. j \in GoodJobs /\ h.ok \in BOOLEAN /\ h.val \in Values /\ j \in Queued(e)
  BY <1>3, <1>5 DEF EventType, Queued
<1>7. Held(f) = Held(e) \ {j} /\ Held(f) \subseteq Held(e)
  <2>1. Queued(f) = Queued(e) \ {j}
    BY <1>5 DEF Queued
  <2>2. \A p \in PromiseIds : e.waiting[p] # <<j>>
    BY <1>6, WaitsOrQueued
  <2>. QED
    BY <1>4, <2>1, <2>2 DEF Held
<1>8. Orderly(f) /\ \A n \in DOMAIN e.posted : e.posted[n].job.kind \in Objectual =>
                       j # RetryJob(AttemptOf(e.posted[n].job.next))
  BY <1>1, <1>2, <1>4, OrderlyTail DEF h
<1>9. \A k : Speaker(f, k) = Speaker(e, k)
  BY <1>4 DEF Speaker, Out, Made
<1>10. Listened(f, {}) /\ Outspoken(f, {})
  <2>1. Listened(f, {})
    BY <1>1, <1>4, <1>9 DEF Listened, IsPending
  <2>2. Outspoken(f, {})
    BY <1>1, <1>4, <1>5, <1>9 DEF Outspoken, IsSettled, IsFulfilled, IsRejected
  <2>. QED
    BY <2>1, <2>2
<1>11. Aimed(f, Y)
  <2>1. \A k \in Held(f) \cap Settling : k \in Held(e) \cap Settling /\ k # j
    BY <1>7
  <2>2. j \in Held(e)
    BY <1>6 DEF Held
  <2>3. \A k \in Held(f) \cap Settling : k.next \notin Y
    BY <1>1, <2>1, <2>2 DEF Aimed
  <2>. HIDE DEF Y
  <2>. QED
    BY <1>1, <1>4, <2>1, <2>3 DEF Aimed, Made, IsPending
<1>12. Awaited(f, Y)
  <2>1. SUFFICES ASSUME NEW p \in PromiseIds, IsPending(f, p), p[3] \notin {"reply", "tick"}
                 PROVE  p \in Y \/ \E k \in Held(f) \cap Settling : k.next = p
    BY DEF Awaited
  <2>2. PICK k \in Held(e) \cap Settling : k.next = p
    BY <1>1, <1>4, <2>1 DEF Awaited, IsPending
  <2>. QED
    BY <1>7, <2>2
<1>13. j \in Held(e)
  BY <1>6 DEF Held
<1>14. Wired(f, {}, Y)
  BY <1>3, <1>5, <1>8, <1>10, <1>11, <1>12 DEF Wired
<1>. QED
  BY <1>4, <1>6, <1>7, <1>8, <1>13, <1>14 DEF h, f

\* Giving up the claim that something will settle a promise that is settled.
LEMMA SettledWired ==
    ASSUME NEW e, NEW X, NEW Y, Wired(e, X, Y), NEW p, ~IsPending(e, p)
    PROVE  Wired(e, X, Y \ {p})
  BY DEF Wired, Aimed, Awaited

\* Settling a promise that its closure has left, or that the network or a
\* timer settles: what listened to it is on its way.
LEMMA PendingSettleWired ==
    ASSUME NEW e, NEW X, NEW Y, Wired(e, X, Y), NEW p \in PromiseIds, IsPending(e, p),
           NEW ok \in BOOLEAN, NEW v \in Values,
           p \in Y \/ p[3] \in {"reply", "tick", "timed"}
    PROVE  LET f == Settle(e, p, ok, v) IN
           /\ Wired(f, X, Y \ {p})
           /\ f.status = [e.status EXCEPT ![p] = IF ok THEN "fulfilled" ELSE "rejected"]
           /\ f.value = [e.value EXCEPT ![p] = v]
           /\ Held(f) = Held(e)
<1>. DEFINE f == Settle(e, p, ok, v)
            new == IF ok THEN "fulfilled" ELSE "rejected"
<1>1. /\ e \in Engines /\ X \subseteq {q \in PromiseIds : Made(e, q)} /\ Once(e.posted) /\ Orderly(e)
      /\ Listened(e, X) /\ Outspoken(e, X) /\ Aimed(e, Y) /\ Awaited(e, Y)
  BY DEF Wired
<1>2. e.posted \in Seq(EventType(GoodJobs, Values)) /\ p \notin Beyond
  BY <1>1, Parts DEF IsPending
<1>3. /\ f.status = [e.status EXCEPT ![p] = new]
      /\ f.value = [e.value EXCEPT ![p] = v] /\ f.waiting = [e.waiting EXCEPT ![p] = <<>>]
  BY DEF Settle
<1>4. f \in Engines
  BY <1>1, SettleSafe DEF Engines, Beyond
<1>5. /\ e.waiting[p] = <<>> => f.posted = e.posted
      /\ \A k \in GoodJobs : e.waiting[p] = <<k>> => f.posted = Append(e.posted, Event(k, ok, v))
  <2>1. \A k \in GoodJobs : Event(k, ok, v) \in EventType(GoodJobs, Values)
    BY DEF Event, EventType
  <2>2. ASSUME NEW k \in GoodJobs
        PROVE  /\ e.waiting[p] = <<>> => f.posted = e.posted
               /\ e.waiting[p] = <<k>> => f.posted = Append(e.posted, Event(k, ok, v))
    <3>1. Event(k, ok, v) \in EventType(GoodJobs, Values)
      BY <2>1
    <3>. QED
      BY <1>2, <3>1, SettlePosts
  <2>3. e.waiting[p] = <<>> => f.posted = e.posted
    <3>1. ASSUME e.waiting[p] = <<>> PROVE e.posted \o Dispatched(<<>>, ok, v) = e.posted
      <4>1. Dispatched(<<>>, ok, v) = <<>>
        BY DEF Dispatched
      <4>. QED
        BY <1>2, <4>1
    <3>. QED
      BY <3>1 DEF Settle
  <2>. QED
    BY <2>2, <2>3
<1>. HIDE DEF f
<1>6. /\ f.status[p] = new /\ new \in {"fulfilled", "rejected"} /\ f.value[p] = v /\ f.waiting[p] = <<>>
      /\ \A q \in PromiseIds \ {p} : f.status[q] = e.status[q] /\ f.value[q] = e.value[q]
                                     /\ f.waiting[q] = e.waiting[q]
      /\ \A q \in PromiseIds : Made(f, q) <=> Made(e, q)
  BY <1>1, <1>3, Parts DEF Made, IsPending
<1>7. \A k \in GoodJobs : Speaker(f, k) = Speaker(e, k)
  <2>1. SUFFICES ASSUME NEW k \in GoodJobs, k.kind = "retry"
                 PROVE  Made(e, Id(AttemptOf(k.next), "mapped")) <=> Made(f, Id(AttemptOf(k.next), "mapped"))
    BY SameSpeaker
  <2>2. AttemptOf(k.next) \in Within
    BY <2>1, Anatomy
  <2>. QED
    BY <1>6, <2>2, IdGood DEF Names
<1>8. /\ Events(f.posted) =
             Events(e.posted) \cup {Event(k, ok, v) : k \in {k \in GoodJobs : e.waiting[p] = <<k>>}}
      /\ Once(f.posted) /\ Orderly(f)
  <2>1. CASE e.waiting[p] = <<>>
    BY <1>1, <1>5, <2>1 DEF Orderly
  <2>2. CASE e.waiting[p] # <<>>
    <3>1. PICK k \in Reactions : e.waiting[p] = <<k>>
      BY <1>1, <2>2 DEF Listened
    <3>2. k \in GoodJobs /\ k.kind \notin Objectual
      BY DEF Reactions
    <3>. DEFINE w == Event(k, ok, v)
    <3>3. w \in EventType(GoodJobs, Values) /\ w.job = k
      BY <3>2 DEF Event, EventType
    <3>. HIDE DEF w
    <3>4. f.posted = Append(e.posted, w)
      BY <1>5, <3>1, <3>2 DEF w
    <3>5. \A u \in Events(e.posted) : u.job # w.job
      BY <3>1, <3>3, WaitsOrQueued DEF Queued
    <3>6. Events(f.posted) = Events(e.posted) \cup {w} /\ Once(f.posted)
      BY <1>1, <1>2, <3>3, <3>4, <3>5, Added
    <3>7. Orderly(f)
      BY <1>1, <1>2, <3>2, <3>3, <3>4, OrderlyAppend
    <3>8. {k2 \in GoodJobs : e.waiting[p] = <<k2>>} = {k}
      BY <3>1, <3>2
    <3>. QED
      BY <3>6, <3>7, <3>8 DEF w
  <2>. QED
    BY <2>1, <2>2
<1>9. Held(f) = Held(e)
  <2>1. \A k \in GoodJobs : Event(k, ok, v).job = k
    BY DEF Event
  <2>2. Queued(f) = Queued(e) \cup {k \in GoodJobs : e.waiting[p] = <<k>>}
    BY <1>8, <2>1 DEF Queued
  <2>3. {j \in GoodJobs : \E q \in PromiseIds : f.waiting[q] = <<j>>} =
           {j \in GoodJobs : \E q \in PromiseIds \ {p} : e.waiting[q] = <<j>>}
    BY <1>6
  <2>. QED
    BY <2>2, <2>3 DEF Held
<1>10. Listened(f, X)
  <2>1. SUFFICES ASSUME NEW q \in PromiseIds
                 PROVE  \/ /\ f.waiting[q] = <<>>
                           /\ IsPending(f, q) /\ q[3] # "user" => q \in X
                        \/ \E j \in Reactions : /\ f.waiting[q] = <<j>> /\ Speaker(f, j) = q
                                                /\ IsPending(f, q) /\ q \notin X
    BY DEF Listened
  <2>2. CASE q = p
    BY <1>6, <2>2 DEF IsPending
  <2>3. CASE q # p
    <3>1. f.waiting[q] = e.waiting[q] /\ f.status[q] = e.status[q]
      BY <1>6, <2>3
    <3>2. Reactions \subseteq GoodJobs
      BY DEF Reactions
    <3>3. \/ /\ e.waiting[q] = <<>>
             /\ IsPending(e, q) /\ q[3] # "user" => q \in X
          \/ \E j \in Reactions : /\ e.waiting[q] = <<j>> /\ Speaker(e, j) = q
                                  /\ IsPending(e, q) /\ q \notin X
      BY <1>1 DEF Listened
    <3>. QED
      BY <1>7, <3>1, <3>2, <3>3 DEF IsPending
  <2>. QED
    BY <2>2, <2>3
<1>11. Outspoken(f, X)
  <2>1. SUFFICES ASSUME NEW u \in Events(f.posted), u.job \in Reactions
                 PROVE  LET q == Speaker(f, u.job) IN
                        /\ q \in PromiseIds \ X /\ IsSettled(f, q)
                        /\ u.ok = IsFulfilled(f, q) /\ u.val = f.value[q]
    BY DEF Outspoken
  <2>. DEFINE q == Speaker(e, u.job)
  <2>2. Speaker(f, u.job) = q
    BY <1>7, <2>1 DEF Reactions
  <2>3. CASE u \in Events(e.posted)
    <3>1. /\ q \in PromiseIds \ X /\ IsSettled(e, q)
          /\ u.ok = IsFulfilled(e, q) /\ u.val = e.value[q]
      BY <1>1, <2>1, <2>3 DEF Outspoken
    <3>. HIDE DEF q
    <3>2. q # p
      BY <3>1 DEF IsSettled, IsFulfilled, IsRejected, IsPending
    <3>. QED
      BY <1>6, <2>2, <3>1, <3>2 DEF IsSettled, IsFulfilled, IsRejected
  <2>4. CASE u \notin Events(e.posted)
    <3>1. PICK k \in GoodJobs : e.waiting[p] = <<k>> /\ u = Event(k, ok, v)
      BY <1>8, <2>1, <2>4
    <3>2. Speaker(e, k) = p /\ p \notin X
      BY <3>1, WaitsOrQueued
    <3>3. u.job = k /\ u.ok = ok /\ u.val = v
      BY <3>1 DEF Event
    <3>4. q = p
      BY <3>2, <3>3
    <3>5. IsFulfilled(f, p) = ok /\ IsSettled(f, p)
      BY <1>6 DEF IsSettled, IsFulfilled, IsRejected
    <3>. HIDE DEF q
    <3>. QED
      BY <1>6, <2>2, <3>2, <3>3, <3>4, <3>5
  <2>. QED
    BY <2>3, <2>4
<1>12. Aimed(f, Y \ {p})
  <2>1. ASSUME NEW j \in Held(e) \cap Settling, j.next = p PROVE p[3] = "timed"
    <3>1. p \notin Y
      BY <1>1, <2>1 DEF Aimed
    <3>2. /\ j \in GoodJobs /\ j.kind \notin Objectual /\ j.next = p
          /\ p[3] \in {"reply", "tick", "timed"} /\ j.kind \in Kinds
      BY <2>1, <3>1, Anatomy DEF Settling
    <3>3. \A a, n : Id(a, n)[3] = n
      BY DEF Id
    <3>4. p[3] \notin {"reply", "tick"}
      <4>. DEFINE a == AttemptOf(j.next)
      <4>1. CASE j.kind = "pass"
        <5>1. j.next \in {Id(a, n) : n \in {"timed", "result", "tap", "again"}}
          BY <3>2, <4>1, Anatomy
        <5>2. PICK n \in {"timed", "result", "tap", "again"} : j.next = Id(a, n)
          BY <5>1
        <5>3. j.next[3] = n
          BY <3>3, <5>2
        <5>. QED
          BY <3>2, <5>3
      <4>2. CASE j.kind = "decode"
        <5>1. j.next = UserOf(j.next[1]) /\ j.next[1] \in Requests
          BY <3>2, <4>2, Anatomy
        <5>. QED
          BY <3>2, <5>1, UserGood
      <4>3. CASE j.kind \in {"abort", "retry", "arm", "elapsed", "again"}
        <5>1. \E n \in {"mapped", "result", "tap", "delayed", "again"} : j.next = Id(a, n)
          BY <3>2, <4>3, Anatomy
        <5>2. PICK n \in {"mapped", "result", "tap", "delayed", "again"} : j.next = Id(a, n)
          BY <5>1
        <5>3. j.next[3] = n
          BY <3>3, <5>2
        <5>. QED
          BY <3>2, <5>3
      <4>. QED
        BY <3>2, <4>1, <4>2, <4>3 DEF Kinds, Objectual
    <3>. QED
      BY <3>2, <3>4
  <2>2. \A j \in Settling : j.next \in PromiseIds
    BY Anatomy DEF Settling
  <2>. QED
    BY <1>1, <1>6, <1>9, <2>1, <2>2 DEF Aimed, IsPending
<1>13. Awaited(f, Y \ {p})
  BY <1>1, <1>6, <1>9 DEF Awaited, IsPending
<1>14. X \subseteq {q \in PromiseIds : Made(f, q)}
  BY <1>1, <1>6
<1>15. Wired(f, X, Y \ {p})
  BY <1>4, <1>8, <1>10, <1>11, <1>12, <1>13, <1>14 DEF Wired
<1>. QED
  BY <1>3, <1>9, <1>15 DEF f

\* Settling any promise, the second time included.
LEMMA SettleWired ==
    ASSUME NEW e, NEW X, NEW Y, Wired(e, X, Y), NEW p \in PromiseIds,
           NEW ok \in BOOLEAN, NEW v \in Values,
           p \in Y \/ p[3] \in {"reply", "tick", "timed"}
    PROVE  Settles(e, Settle(e, p, ok, v), X, Y, p, ok, v)
<1>. DEFINE f == Settle(e, p, ok, v)
<1>1. CASE IsPending(e, p)
  <2>1. /\ Wired(f, X, Y \ {p})
        /\ f.status = [e.status EXCEPT ![p] = IF ok THEN "fulfilled" ELSE "rejected"]
        /\ f.value = [e.value EXCEPT ![p] = v]
        /\ Held(f) = Held(e)
    BY <1>1, PendingSettleWired
  <2>2. e.status \in [PromiseIds -> Statuses] /\ e.value \in [PromiseIds -> Values]
    BY Parts DEF Wired
  <2>. HIDE DEF f
  <2>. QED
    BY <1>1, <2>1, <2>2 DEF f, Made, IsPending, Settles
<1>2. CASE ~IsPending(e, p)
  <2>1. f = e
    BY <1>2 DEF Settle
  <2>2. Wired(e, X, Y \ {p})
    BY <1>2, SettledWired
  <2>. HIDE DEF f
  <2>. QED
    BY <1>2, <2>1, <2>2 DEF Made, Settles, f
<1>. QED
  BY <1>1, <1>2

\* A promise that is settled, or the caller's, needs no listener.
LEMMA HeardWired ==
    ASSUME NEW e, NEW X, NEW Y, Wired(e, X, Y), NEW p, ~IsPending(e, p) \/ p[3] = "user"
    PROVE  Wired(e, X \ {p}, Y)
<1>1. Listened(e, X \ {p})
  <2>1. SUFFICES ASSUME NEW q \in PromiseIds
                 PROVE  \/ /\ e.waiting[q] = <<>>
                           /\ IsPending(e, q) /\ q[3] # "user" => q \in X \ {p}
                        \/ \E j \in Reactions : /\ e.waiting[q] = <<j>> /\ Speaker(e, j) = q
                                                /\ IsPending(e, q) /\ q \notin X \ {p}
    BY DEF Listened
  <2>. QED
    BY DEF Wired, Listened
<1>2. Outspoken(e, X \ {p})
  BY DEF Wired, Outspoken
<1>. QED
  BY <1>1, <1>2 DEF Wired

\* A reaction to a promise that had none: it waits, or is posted at once.
LEMMA SubscribeWired ==
    ASSUME NEW e, NEW X, NEW Y, Wired(e, X, Y), NEW j \in Reactions, NEW p \in X,
           Speaker(e, j) = p, j.next \in Y, IsPending(e, j.next) \/ (j.next[3] = "timed" /\ Made(e, j.next))
    PROVE  Gains(e, Subscribe(e, p, j), X \ {p}, Y, j)
<1>. DEFINE f == Subscribe(e, p, j)
<1>1. /\ e \in Engines /\ X \subseteq {q \in PromiseIds : Made(e, q)} /\ Once(e.posted) /\ Orderly(e)
      /\ Listened(e, X) /\ Outspoken(e, X) /\ Aimed(e, Y) /\ Awaited(e, Y)
  BY DEF Wired
<1>2. /\ p \in PromiseIds /\ Made(e, p) /\ j \in GoodJobs /\ j \in Settling /\ j.next \in PromiseIds
      /\ p[3] # "user" /\ e.waiting \in [PromiseIds -> Seq(GoodJobs)]
      /\ e.posted \in Seq(EventType(GoodJobs, Values))
      /\ e.status[p] \in Statuses /\ e.value[p] \in Values
      /\ j.kind \notin Objectual
  BY <1>1, Anatomy, SpeakerGood, Parts DEF Reactions, Settling
<1>3. e.waiting[p] = <<>>
  BY <1>1, <1>2 DEF Listened
<1>4. f \in Engines
  BY <1>1, <1>2, SubscribeSafe DEF Engines, Beyond
<1>5. j \notin Held(e) /\ \A k \in Held(e) \cap Settling : k.next # j.next
  BY <1>1, <1>2 DEF Aimed
<1>6. CASE IsPending(e, p)
  <2>1. f.status = e.status /\ f.value = e.value /\ f.posted = e.posted
        /\ f.waiting = [e.waiting EXCEPT ![p] = Append(e.waiting[p], j)]
    BY <1>6 DEF Subscribe
  <2>2. Append(e.waiting[p], j) = <<j>>
    BY <1>3
  <2>3. f.waiting[p] = <<j>> /\ \A q \in PromiseIds \ {p} : f.waiting[q] = e.waiting[q]
    BY <1>2, <2>1, <2>2
  <2>. HIDE DEF f
  <2>4. \A k : Speaker(f, k) = Speaker(e, k)
    BY <2>1 DEF Speaker, Out, Made
  <2>5. Held(f) = Held(e) \cup {j}
    <3>1. Queued(f) = Queued(e)
      BY <2>1 DEF Queued
    <3>2. \A k \in GoodJobs : (\E q \in PromiseIds : f.waiting[q] = <<k>>) <=>
                              (k = j \/ \E q \in PromiseIds : e.waiting[q] = <<k>>)
      <4>1. ASSUME NEW k \in GoodJobs, NEW q \in PromiseIds, f.waiting[q] = <<k>>
            PROVE  k = j \/ \E q2 \in PromiseIds : e.waiting[q2] = <<k>>
        <5>1. CASE q = p
          BY <2>3, <4>1, <5>1
        <5>. QED
          BY <2>3, <4>1, <5>1
      <4>2. ASSUME NEW k \in GoodJobs, NEW q \in PromiseIds, e.waiting[q] = <<k>>
            PROVE  \E q2 \in PromiseIds : f.waiting[q2] = <<k>>
        <5>1. <<k>> # <<>>
          OBVIOUS
        <5>2. q # p
          BY <1>3, <4>2, <5>1
        <5>. QED
          BY <2>3, <4>2, <5>2
      <4>. QED
        BY <1>2, <2>3, <4>1, <4>2
    <3>. QED
      BY <1>2, <3>1, <3>2 DEF Held
  <2>6. Listened(f, X \ {p})
    <3>1. SUFFICES ASSUME NEW q \in PromiseIds
                   PROVE  \/ /\ f.waiting[q] = <<>>
                             /\ IsPending(f, q) /\ q[3] # "user" => q \in X \ {p}
                          \/ \E k \in Reactions : /\ f.waiting[q] = <<k>> /\ Speaker(f, k) = q
                                                  /\ IsPending(f, q) /\ q \notin X \ {p}
      BY DEF Listened
    <3>2. CASE q = p
      BY <1>6, <2>1, <2>3, <2>4, <3>2 DEF IsPending
    <3>3. CASE q # p
      BY <1>1, <2>1, <2>3, <2>4, <3>3 DEF Listened, IsPending
    <3>. QED
      BY <3>2, <3>3
  <2>7. Outspoken(f, X \ {p})
    BY <1>1, <2>1, <2>4 DEF Outspoken, IsSettled, IsFulfilled, IsRejected
  <2>8. Aimed(f, Y \ {j.next})
    BY <1>1, <1>5, <2>1, <2>5 DEF Aimed, Made, IsPending
  <2>9. Awaited(f, Y \ {j.next})
    BY <1>1, <1>2, <2>1, <2>5 DEF Awaited, IsPending
  <2>10. Once(f.posted) /\ Orderly(f) /\ X \ {p} \subseteq {q \in PromiseIds : Made(f, q)}
    BY <1>1, <2>1 DEF Orderly, Made
  <2>. QED
    BY <1>4, <2>1, <2>5, <2>6, <2>7, <2>8, <2>9, <2>10 DEF Wired, Gains, f
<1>7. CASE ~IsPending(e, p)
  <2>. DEFINE w == Event(j, IsFulfilled(e, p), e.value[p])
  <2>1. f.status = e.status /\ f.value = e.value /\ f.waiting = e.waiting
        /\ f.posted = Append(e.posted, w)
    BY <1>7 DEF Subscribe, Post
  <2>2. /\ w \in EventType(GoodJobs, Values) /\ w.job = j
        /\ w.ok = IsFulfilled(e, p) /\ w.val = e.value[p]
    BY <1>2 DEF Event, EventType, IsFulfilled
  <2>3. IsSettled(e, p)
    BY <1>2, <1>7 DEF Made, Statuses, IsPending, IsSettled, IsFulfilled, IsRejected
  <2>. HIDE DEF f, w
  <2>4. \A k : Speaker(f, k) = Speaker(e, k)
    BY <2>1 DEF Speaker, Out, Made
  <2>5. \A u \in Events(e.posted) : u.job # w.job
    BY <1>5, <2>2 DEF Held, Queued
  <2>6. Events(f.posted) = Events(e.posted) \cup {w} /\ Once(f.posted)
    BY <1>1, <1>2, <2>1, <2>2, <2>5, Added
  <2>7. Orderly(f)
    BY <1>1, <1>2, <2>1, <2>2, OrderlyAppend
  <2>8. Held(f) = Held(e) \cup {j}
    <3>1. Queued(f) = Queued(e) \cup {j}
      BY <2>2, <2>6 DEF Queued
    <3>. QED
      BY <2>1, <3>1 DEF Held
  <2>9. Wired(e, X \ {p}, Y)
    BY <1>7, HeardWired
  <2>10. Listened(f, X \ {p})
    BY <2>1, <2>4, <2>9 DEF Wired, Listened, IsPending
  <2>11. Outspoken(f, X \ {p})
    <3>1. SUFFICES ASSUME NEW u \in Events(f.posted), u.job \in Reactions
                   PROVE  LET q == Speaker(e, u.job) IN
                          /\ q \in PromiseIds \ (X \ {p}) /\ IsSettled(e, q)
                          /\ u.ok = IsFulfilled(e, q) /\ u.val = e.value[q]
      BY <2>1, <2>4 DEF Outspoken, IsSettled, IsFulfilled, IsRejected
    <3>2. CASE u \in Events(e.posted)
      BY <2>9, <3>1, <3>2 DEF Wired, Outspoken
    <3>3. CASE u = w
      BY <1>2, <2>2, <2>3, <3>3
    <3>. QED
      BY <2>6, <3>1, <3>2, <3>3
  <2>12. Aimed(f, Y \ {j.next})
    BY <1>1, <1>5, <2>1, <2>8 DEF Aimed, Made, IsPending
  <2>13. Awaited(f, Y \ {j.next})
    BY <1>1, <1>2, <2>1, <2>8 DEF Awaited, IsPending
  <2>14. X \ {p} \subseteq {q \in PromiseIds : Made(f, q)}
    BY <1>1, <2>1 DEF Made
  <2>. QED
    BY <1>4, <2>1, <2>6, <2>7, <2>8, <2>10, <2>11, <2>12, <2>13, <2>14 DEF Wired, Gains, f
<1>. QED
  BY <1>6, <1>7

\* Posting a job that reacts to no promise: the tap of a resolved promise, a
\* completion or a deletion.
LEMMA PostWired ==
    ASSUME NEW e, NEW X, NEW Y, Wired(e, X, Y), NEW j \in GoodJobs, j \notin Reactions, j \notin Held(e),
           j \in Settling => j.next \in Y /\ IsPending(e, j.next),
           j.kind \in Objectual => RetryJob(AttemptOf(j.next)) \notin Queued(e),
           NEW ok \in BOOLEAN, NEW v \in Values
    PROVE  Gains(e, Post(e, j, ok, v), X, Y, j)
<1>. DEFINE f == Post(e, j, ok, v)
            w == Event(j, ok, v)
<1>1. /\ e \in Engines /\ X \subseteq {q \in PromiseIds : Made(e, q)} /\ Once(e.posted) /\ Orderly(e)
      /\ Listened(e, X) /\ Outspoken(e, X) /\ Aimed(e, Y) /\ Awaited(e, Y)
  BY DEF Wired
<1>2. f \in Engines /\ e.posted \in Seq(EventType(GoodJobs, Values))
  BY <1>1, PostSafe, Parts DEF Engines, Beyond
<1>3. w \in EventType(GoodJobs, Values) /\ w.job = j
  BY DEF Event, EventType
<1>4. f.status = e.status /\ f.value = e.value /\ f.waiting = e.waiting
      /\ f.posted = Append(e.posted, w)
  BY <1>1, Parts DEF Post
<1>. HIDE DEF f, w
<1>5. \A k : Speaker(f, k) = Speaker(e, k)
  BY <1>4 DEF Speaker, Out, Made
<1>6. \A u \in Events(e.posted) : u.job # w.job
  BY <1>3 DEF Held, Queued
<1>7. Events(f.posted) = Events(e.posted) \cup {w} /\ Once(f.posted)
  BY <1>1, <1>2, <1>3, <1>4, <1>6, Added
<1>8. Orderly(f)
  <2>1. w.job.kind \in Objectual => \A u \in Events(e.posted) : u.job # RetryJob(AttemptOf(w.job.next))
    BY <1>3 DEF Queued
  <2>. QED
    BY <1>1, <1>2, <1>3, <1>4, <2>1, OrderlyAppend
<1>9. Held(f) = Held(e) \cup {j}
  <2>1. Queued(f) = Queued(e) \cup {j}
    BY <1>3, <1>7 DEF Queued
  <2>. QED
    BY <1>4, <2>1 DEF Held
<1>10. Listened(f, X)
  BY <1>1, <1>4, <1>5 DEF Listened, IsPending
<1>11. Outspoken(f, X)
  BY <1>1, <1>3, <1>4, <1>5, <1>7 DEF Outspoken, IsSettled, IsFulfilled, IsRejected
<1>12. Aimed(f, Y \ {j.next})
  <2>1. \A k \in Held(e) \cap Settling : k.next \notin Y
    BY <1>1 DEF Aimed
  <2>2. j \in Settling => \A k \in Held(e) \cap Settling : k.next # j.next
    BY <2>1
  <2>. QED
    BY <1>1, <1>4, <1>9, <2>2 DEF Aimed, Made, IsPending
<1>13. Awaited(f, Y \ {j.next})
  <2>1. j \in Settling \/ j.next[3] = "reply"
    <3>1. CASE j.kind \in Objectual
      <4>1. AttemptOf(j.next) \in Within /\ j.next = Id(AttemptOf(j.next), "reply")
        BY <3>1, Anatomy DEF Objectual
      <4>. QED
        BY <4>1, IdGood DEF Names
    <3>. QED
      BY <3>1 DEF Settling
  <2>. QED
    BY <1>1, <1>4, <1>9, <2>1 DEF Awaited, IsPending
<1>14. X \subseteq {q \in PromiseIds : Made(f, q)}
  BY <1>1, <1>4 DEF Made
<1>. QED
  BY <1>2, <1>4, <1>7, <1>8, <1>9, <1>10, <1>11, <1>12, <1>13, <1>14 DEF Wired, Gains, f

\* then(), fail(): the new promise has no listener yet, the old one has.
LEMMA ThenWired ==
    ASSUME NEW e, NEW X, NEW Y, Wired(e, X, Y), NEW j \in Reactions, NEW p \in X,
           Speaker(New(e, j.next), j) = p, e.status[j.next] = "absent",
           j.next[3] = "mapped" => RetryJob(AttemptOf(j.next)) \notin Held(e)
    PROVE  Chains(e, Then(e, p, j), X, Y, p, j)
<1>. DEFINE n == j.next
            g == New(e, n)
<1>1. n \in PromiseIds \ Beyond
  BY Anatomy DEF Reactions
<1>2. /\ Wired(g, X \cup {n}, Y \cup {n})
      /\ g.status = [e.status EXCEPT ![n] = "pending"] /\ g.value = e.value
      /\ Held(g) = Held(e)
  BY <1>1, NewWired
<1>3. e.status \in [PromiseIds -> Statuses] /\ Made(e, p)
  BY Parts DEF Wired
<1>4. p # n /\ IsPending(g, n)
  BY <1>1, <1>2, <1>3 DEF Made, IsPending
<1>. DEFINE V == X \cup {n}
            W == Y \cup {n}
<1>5. p \in V /\ n \in W /\ Speaker(g, j) = p
  OBVIOUS
<1>6. V \ {p} = (X \ {p}) \cup {n} /\ W \ {n} = Y \ {n}
  BY <1>4
<1>. HIDE DEF g, V, W
<1>7. Wired(g, V, W)
  BY <1>2 DEF V, W
<1>8. Gains(g, Subscribe(g, p, j), V \ {p}, W, j)
  <2>1. IsPending(g, j.next) /\ j.next \in W
    BY <1>4, <1>5
  <2>. HIDE DEF n
  <2>. QED
    BY <1>5, <1>7, <2>1, SubscribeWired
<1>. DEFINE f == Subscribe(g, p, j)
<1>9. f = Then(e, p, j)
  BY DEF Then, g
<1>. HIDE DEF f
<1>10. Gains(g, f, V \ {p}, W, j)
  BY <1>8 DEF f
<1>11. Wired(f, (X \ {p}) \cup {n}, Y \ {n}) /\ Held(f) = Held(e) \cup {j}
       /\ f.status = g.status /\ f.value = e.value
  BY <1>2, <1>6, <1>10 DEF Gains, g
<1>12. \A q \in PromiseIds : q # n => f.status[q] = e.status[q]
  BY <1>1, <1>2, <1>3, <1>11 DEF g
<1>13. Chains(e, f, X, Y, p, j)
  BY <1>4, <1>11, <1>12 DEF Chains, IsPending
<1>. QED
  BY <1>9, <1>13

\* Taking over an outcome that is there already.
LEMMA AdoptSettledWired ==
    ASSUME NEW e, NEW X, NEW Y, Wired(e, X, Y), NEW p \in PromiseIds, IsSettled(e, p),
           NEW t \in PromiseIds, t \in Y, IsPending(e, t)
    PROVE  TakesOver(e, Adopt(e, t, p), X, Y, p, t)
<1>. DEFINE f == Adopt(e, t, p)
            ok == IsFulfilled(e, p)
            v == e.value[p]
<1>1. f = Settle(e, t, ok, v)
  BY DEF Adopt
<1>2. ok \in BOOLEAN /\ v \in Values
  BY Parts DEF IsFulfilled, Wired
<1>3. t # p
  BY DEF IsSettled, IsFulfilled, IsRejected, IsPending
<1>. HIDE DEF f, ok, v
<1>4. Settles(e, f, X, Y, t, ok, v)
  BY <1>1, <1>2, SettleWired
<1>5. /\ Wired(f, X, Y \ {t}) /\ Held(f) = Held(e)
      /\ \A q \in PromiseIds : q # t => f.status[q] = e.status[q] /\ f.value[q] = e.value[q]
      /\ f.status[t] = e.status[p] /\ f.value[t] = v
  BY <1>4 DEF Settles, ok, IsSettled, IsFulfilled, IsRejected
<1>6. ~IsPending(f, p)
  BY <1>3, <1>5 DEF IsSettled, IsFulfilled, IsRejected, IsPending
<1>7. Wired(f, X \ {p}, Y \ {t})
  BY <1>5, <1>6, HeardWired
<1>. QED
  BY <1>5, <1>7 DEF f, v, TakesOver

\* Taking over an outcome that is still to come.
LEMMA AdoptPendingWired ==
    ASSUME NEW e, NEW X, NEW Y, Wired(e, X, Y), NEW p \in X, IsPending(e, p),
           NEW t \in Y, IsPending(e, t), Pass(t) \in Reactions, Speaker(e, Pass(t)) = p
    PROVE  Gains(e, Adopt(e, t, p), X \ {p}, Y, Pass(t))
<1>1. Adopt(e, t, p) = Subscribe(e, p, Pass(t))
  BY DEF Adopt, IsPending, IsSettled, IsFulfilled, IsRejected
<1>2. Pass(t).next = t
  BY DEF Pass, Job
<1>. QED
  BY <1>1, <1>2, SubscribeWired

---------------------------------------------------------------------------
(* The handlers, as chains of those calls.                                 *)

\* What handleFinished makes of an engine.
Finishes(e, f, X, Y, a, v) ==
    LET R == Id(a, "reply") IN
    /\ Wired(f, X, Y \ {R}) /\ Held(f) = Held(e) \cup {ObjectJob("deleteReply", a)}
    /\ \A q \in PromiseIds : q # R => f.status[q] = e.status[q] /\ f.value[q] = e.value[q]
    /\ IsSettled(f, R) /\ f.value[R] = v /\ (IsFulfilled(f, R) <=> v = "data")

\* handleFinished, the one time it acts: the reply is to be deleted, and its
\* promise is settled.
LEMMA HandleFinishedWired ==
    ASSUME NEW e, NEW X, NEW Y, Wired(e, X, Y), NEW a \in Within, a \notin once,
           IsPending(e, Id(a, "reply")), ObjectJob("deleteReply", a) \notin Held(e),
           RetryJob(a) \notin Queued(e), NEW v \in Values
    PROVE  Finishes(e, HandleFinished(e, a, v), X, Y, a, v)
<1>. DEFINE R == Id(a, "reply")
            j == ObjectJob("deleteReply", a)
            yes == TRUE
            ok == v = "data"
            g == Post(e, j, yes, Nothing)
            f == Settle(g, R, ok, v)
<1>1. HandleFinished(e, a, v) = f
  BY DEF HandleFinished, ObjectJob
<1>2. R \in PromiseIds /\ R[3] = "reply" /\ AttemptOf(R) = a
  BY IdGood DEF Names
<1>3. /\ j \in GoodJobs /\ j.kind = "deleteReply" /\ j.next = R
      /\ j \notin Reactions /\ ~(j \in Settling) /\ Nothing \in Values
      /\ j \notin Held(e) /\ yes \in BOOLEAN /\ ok \in BOOLEAN
  BY JobsGood DEF ObjectJob, Plain, Job, Objectual, Reactions, Settling, Values
<1>4. IsPending(e, R)
  OBVIOUS
<1>. HIDE DEF R, j, yes, g, f
<1>5. j.kind \in Objectual => RetryJob(AttemptOf(j.next)) \notin Queued(e)
  BY <1>2, <1>3
<1>6. Gains(e, Post(e, j, yes, Nothing), X, Y, j)
  BY <1>3, <1>5, PostWired
<1>7. /\ Wired(g, X, Y \ {R}) /\ g.status = e.status /\ g.value = e.value
      /\ Held(g) = Held(e) \cup {j} /\ IsPending(g, R)
  BY <1>3, <1>4, <1>6 DEF Gains, g, IsPending
<1>. DEFINE Z == Y \ {R}
<1>. HIDE DEF ok, Z
<1>8. Wired(g, X, Z) /\ ok \in BOOLEAN /\ (R \in Z \/ R[3] \in {"reply", "tick", "timed"})
  BY <1>2, <1>3, <1>7 DEF Z
<1>9. Settles(g, Settle(g, R, ok, v), X, Z, R, ok, v)
  BY <1>2, <1>8, SettleWired
<1>10. /\ Wired(f, X, Z \ {R}) /\ Held(f) = Held(e) \cup {j}
       /\ \A q \in PromiseIds : q # R => f.status[q] = e.status[q] /\ f.value[q] = e.value[q]
       /\ f.status[R] = (IF ok THEN "fulfilled" ELSE "rejected") /\ f.value[R] = v
  BY <1>7, <1>9 DEF Settles, f
<1>11. IsSettled(f, R) /\ (IsFulfilled(f, R) <=> ok)
  BY <1>8, <1>10 DEF IsSettled, IsFulfilled, IsRejected
<1>12. Z \ {R} = Y \ {R}
  BY DEF Z
<1>. QED
  BY <1>1, <1>10, <1>11, <1>12 DEF R, j, ok, Finishes

\* An attempt of which nothing exists yet.
Fresh(e, a) ==
    /\ \A n \in Names \ {"user"} : ~Made(e, Id(a, n))
    /\ \A kind \in Objectual : ObjectJob(kind, a) \notin Held(e)

\* The deletions and completions its terminus leaves behind.
Remains(a, c) ==
    IF c.stage = "finished" THEN {ObjectJob("finished", a), ObjectJob("deleteReply", a)}
    ELSE IF c.stage = "badMethod" THEN {ObjectJob("deleteParts", a)}
    ELSE {}

\* The ways a terminus can go, whatever the request.
AllChoices == {Choice("gone", "destroyed"), Choice("noFile", "serialization"),
               Choice("badMethod", "logic"), Choice("running", Nothing)}
              \cup {Choice("finished", v) : v \in NetworkResults}

\* What the terminus makes of one.
Starts(e, f, Y, a, c) ==
    LET R == Id(a, "reply") IN
    /\ Wired(f, {R}, Y) /\ Held(f) = Held(e) \cup Remains(a, c)
    /\ \A q \in PromiseIds : q # R => f.status[q] = e.status[q] /\ f.value[q] = e.value[q]
    /\ c.stage = "running" => IsPending(f, R) /\ f.value[R] = e.value[R]
    /\ c.stage # "running" => /\ IsSettled(f, R) /\ f.value[R] = c.val
                              /\ IsFulfilled(f, R) <=> c.val = "data"

\* Nothing of the closures of an attempt is held before it starts.
LEMMA FreshUnheld ==
    ASSUME NEW e, NEW X, NEW Y, Wired(e, X, Y), NEW a \in Within, Fresh(e, a),
           NEW j \in Settling, AttemptOf(j.next) = a, j.kind # "decode"
    PROVE  j \notin Held(e)
<1>1. \E n \in Names \ {"user"} : j.next = Id(a, n)
  <2>1. j \in GoodJobs /\ j.kind \in Kinds
    BY Anatomy DEF Settling
  <2>2. CASE j.kind = "pass"
    <3>1. j.next \in {Id(a, n) : n \in {"timed", "result", "tap", "again"}}
      BY <2>1, <2>2, Anatomy
    <3>. QED
      BY <3>1 DEF Names
  <2>. QED
    BY <2>1, <2>2, Anatomy DEF Kinds, Names, Settling, Objectual
<1>. QED
  BY <1>1 DEF Fresh, Wired, Aimed

\* The terminus makes the attempt's first promise.
LEMMA TerminusWired ==
    ASSUME NEW e, NEW Y, Wired(e, {}, Y), NEW a \in Within, Fresh(e, a), a \notin once,
           NEW c \in AllChoices, Id(a, "reply") \notin Y
    PROVE  Starts(e, Terminus(e, a, c), Y, a, c)
<1>. DEFINE R == Id(a, "reply")
            X == {R}
            Z == Y \cup {R}
            g == New(e, R)
            val == c.val
            no == FALSE
            yes == TRUE
            ok == val = "data"
            f == Terminus(e, a, c)
<1>1. R \in PromiseIds \ Beyond /\ R[3] = "reply" /\ AttemptOf(R) = a
  BY IdGood DEF Names
<1>2. e.status \in [PromiseIds -> Statuses] /\ ~Made(e, R)
  BY Parts DEF Wired, Fresh, Names
<1>3. RetryJob(a) \notin Held(e)
  <2>1. RetryJob(a) \in Settling /\ RetryJob(a).next = Id(a, "result") /\ RetryJob(a).kind = "retry"
    BY JobsGood DEF RetryJob, Job
  <2>2. AttemptOf(RetryJob(a).next) = a
    BY <2>1, IdGood DEF Names
  <2>. QED
    BY <2>1, <2>2, FreshUnheld
<1>4. \A kind \in Objectual : /\ ObjectJob(kind, a) \notin Held(e) /\ ObjectJob(kind, a) \in GoodJobs
                              /\ ObjectJob(kind, a).kind = kind /\ ObjectJob(kind, a).next = R
                              /\ ObjectJob(kind, a) \notin Reactions /\ ~(ObjectJob(kind, a) \in Settling)
  BY JobsGood DEF Fresh, ObjectJob, Plain, Job, Reactions, Settling
<1>5. /\ c.stage \in {"gone", "noFile", "badMethod", "running", "finished"}
      /\ val \in Values /\ Nothing \in Values
      /\ c.stage \in {"gone", "noFile", "badMethod"} => val # "data"
      /\ no \in BOOLEAN /\ yes \in BOOLEAN /\ ok \in BOOLEAN
  BY DEF AllChoices, Choice, NetworkResults, Values, Errors
<1>6. Z \ {R} = Y
  OBVIOUS
<1>. HIDE DEF R
<1>7. /\ Wired(g, {} \cup {R}, Y \cup {R}) /\ g.status = [e.status EXCEPT ![R] = "pending"]
      /\ g.value = e.value /\ g.posted = e.posted /\ Held(g) = Held(e)
  BY <1>1, <1>2, NewWired DEF Made
<1>8. /\ Wired(g, X, Z) /\ g.value = e.value /\ Held(g) = Held(e) /\ R \in Z
      /\ \A q \in PromiseIds : q # R => g.status[q] = e.status[q]
      /\ IsPending(g, R) /\ RetryJob(a) \notin Queued(g)
  <2>1. {} \cup {R} = {R}
    OBVIOUS
  <2>2. RetryJob(a) \notin Queued(g)
    BY <1>3, <1>7 DEF Held, Queued
  <2>. QED
    BY <1>1, <1>2, <1>7, <2>1, <2>2 DEF IsPending
<1>. HIDE DEF g, X, Z, val, no, yes, ok
<1>9. Wired(g, X, Y)
  <2>1. Aimed(g, Z) /\ Awaited(g, Z) /\ R[3] = "reply" /\ Y = Z \ {R}
    BY <1>1, <1>6, <1>8 DEF Wired
  <2>2. Aimed(g, Y) /\ Awaited(g, Y)
    BY <2>1 DEF Aimed, Awaited
  <2>. QED
    BY <1>8, <2>2 DEF Wired
<1>10. CASE c.stage = "running"
  <2>1. f = g /\ Remains(a, c) = {}
    BY <1>10 DEF Terminus, Remains, g, R
  <2>. QED
    BY <1>8, <1>9, <1>10, <2>1 DEF R, X, Starts
<1>11. CASE c.stage = "finished"
  <2>. DEFINE j == ObjectJob("finished", a)
              d == ObjectJob("deleteReply", a)
              h == Post(g, j, ok, val)
              k == HandleFinished(h, a, val)
  <2>1. f = k
    BY <1>11 DEF Terminus, ObjectJob, g, R, ok, val
  <2>2. /\ j \in GoodJobs /\ j \notin Reactions /\ j \notin Held(g) /\ ~(j \in Settling)
        /\ j.kind = "finished" /\ j.next = R /\ d # j /\ d \notin Held(e) /\ j \notin Held(e)
    BY <1>4, <1>8 DEF Objectual
  <2>3. j.kind \in Objectual => RetryJob(AttemptOf(j.next)) \notin Queued(g)
    BY <1>1, <1>8, <2>2
  <2>. HIDE DEF j, d, h, k
  <2>4. Gains(g, Post(g, j, ok, val), X, Z, j)
    BY <1>5, <1>8, <2>2, <2>3, PostWired
  <2>5. /\ Wired(h, X, Y) /\ h.status = g.status /\ h.value = g.value
        /\ Held(h) = Held(g) \cup {j}
    BY <1>6, <2>2, <2>4 DEF Gains, h
  <2>6. /\ IsPending(h, Id(a, "reply")) /\ ObjectJob("deleteReply", a) \notin Held(h)
        /\ RetryJob(a) \notin Queued(h)
    <3>1. RetryJob(a) # j
      BY <2>2 DEF RetryJob, Job
    <3>2. IsPending(h, R) /\ d \notin Held(h) /\ RetryJob(a) \notin Held(h)
      BY <1>3, <1>8, <2>2, <2>5, <3>1 DEF IsPending
    <3>. QED
      BY <3>2 DEF Held, R, d
  <2>7. Finishes(h, HandleFinished(h, a, val), X, Y, a, val)
    BY <1>5, <2>5, <2>6, HandleFinishedWired
  <2>8. /\ Wired(k, X, Y \ {R}) /\ Held(k) = Held(h) \cup {d}
        /\ \A q \in PromiseIds : q # R => k.status[q] = h.status[q] /\ k.value[q] = h.value[q]
        /\ IsSettled(k, R) /\ k.value[R] = val /\ (IsFulfilled(k, R) <=> val = "data")
    BY <2>7 DEF Finishes, R, d, k
  <2>9. Y \ {R} = Y /\ Remains(a, c) = {j, d}
    BY <1>11 DEF Remains, j, d, R
  <2>. QED
    BY <1>8, <1>11, <2>1, <2>5, <2>8, <2>9 DEF R, X, val, Starts
<1>12. CASE c.stage = "badMethod"
  <2>. DEFINE j == ObjectJob("deleteParts", a)
              h == Post(g, j, yes, Nothing)
              k == Settle(h, R, no, val)
  <2>1. f = k
    BY <1>12 DEF Terminus, ObjectJob, g, R, no, yes, val
  <2>2. /\ j \in GoodJobs /\ j \notin Reactions /\ j \notin Held(g) /\ ~(j \in Settling)
        /\ j.kind = "deleteParts" /\ j.next = R
    BY <1>4, <1>8 DEF Objectual
  <2>3. j.kind \in Objectual => RetryJob(AttemptOf(j.next)) \notin Queued(g)
    BY <1>1, <1>8, <2>2
  <2>. HIDE DEF j, h, k
  <2>4. Gains(g, Post(g, j, yes, Nothing), X, Z, j)
    BY <1>5, <1>8, <2>2, <2>3, PostWired
  <2>5. /\ Wired(h, X, Y) /\ h.status = g.status /\ h.value = g.value
        /\ Held(h) = Held(g) \cup {j} /\ IsPending(h, R)
    BY <1>6, <1>8, <2>2, <2>4 DEF Gains, h, IsPending
  <2>6. Settles(h, Settle(h, R, no, val), X, Y, R, no, val)
    BY <1>1, <1>5, <2>5, SettleWired
  <2>7. /\ Wired(k, X, Y \ {R}) /\ Held(k) = Held(h)
        /\ \A q \in PromiseIds : q # R => k.status[q] = h.status[q] /\ k.value[q] = h.value[q]
        /\ k.status[R] = "rejected" /\ k.value[R] = val
    BY <2>5, <2>6 DEF Settles, k, no
  <2>8. Y \ {R} = Y /\ Remains(a, c) = {j}
    BY <1>12 DEF Remains, j, R
  <2>. QED
    BY <1>5, <1>8, <1>12, <2>1, <2>5, <2>7, <2>8 DEF R, X, val, Starts, IsSettled, IsFulfilled, IsRejected
<1>13. CASE c.stage \in {"gone", "noFile"}
  <2>. DEFINE k == Settle(g, R, no, val)
  <2>1. f = k
    BY <1>13 DEF Terminus, g, R, no, val
  <2>. HIDE DEF k
  <2>2. Settles(g, Settle(g, R, no, val), X, Y, R, no, val)
    BY <1>1, <1>5, <1>9, SettleWired
  <2>3. /\ Wired(k, X, Y \ {R}) /\ Held(k) = Held(g)
        /\ \A q \in PromiseIds : q # R => k.status[q] = g.status[q] /\ k.value[q] = g.value[q]
        /\ k.status[R] = "rejected" /\ k.value[R] = val
    BY <1>8, <2>2 DEF Settles, k, no
  <2>4. Y \ {R} = Y /\ Remains(a, c) = {}
    BY <1>13 DEF Remains, R
  <2>. QED
    BY <1>5, <1>8, <1>13, <2>1, <2>3, <2>4 DEF R, X, val, Starts, IsSettled, IsFulfilled, IsRejected
<1>. QED
  BY <1>5, <1>10, <1>11, <1>12, <1>13

\* What promise.timeout(ms).fail(...) makes of one.
Bounds(e, f, Y, a) ==
    LET R == Id(a, "reply")
        T == Id(a, "timed")
        M == Id(a, "mapped")
    IN  /\ Wired(f, {M}, Y)
        /\ Held(f) = Held(e) \cup {AbortJob(a)} \cup (IF IsPending(e, R) THEN {TimedJob(a)} ELSE {})
        /\ \A q \in PromiseIds \ {T, M} : f.status[q] = e.status[q] /\ f.value[q] = e.value[q]
        /\ IsPending(f, M) /\ f.value[M] = e.value[M]
        /\ IsPending(e, R) => IsPending(f, T) /\ f.value[T] = e.value[T]
        /\ IsSettled(e, R) => f.status[T] = e.status[R] /\ f.value[T] = e.value[R]

\* The timeout is put between the reply and whoever waits for it.
LEMMA WithTimeoutWired ==
    ASSUME NEW e, NEW Y, NEW a \in Within, Wired(e, {Id(a, "reply")}, Y),
           ~Made(e, Id(a, "timed")), ~Made(e, Id(a, "mapped")),
           RetryJob(a) \notin Held(e), Id(a, "timed") \notin Y, Id(a, "mapped") \notin Y
    PROVE  Bounds(e, WithTimeout(e, a), Y, a)
<1>. DEFINE R == Id(a, "reply")
            T == Id(a, "timed")
            M == Id(a, "mapped")
            V == {R} \cup {T}
            W == {T}
            Z == Y \cup {T}
            g == New(e, T)
            h == Adopt(g, T, R)
            j == AbortJob(a)
            f == Then(h, T, j)
<1>1. f = WithTimeout(e, a)
  BY DEF WithTimeout, AbortJob
<1>2. /\ R \in PromiseIds /\ T \in PromiseIds \ Beyond /\ M \in PromiseIds /\ T[3] = "timed"
      /\ R # T /\ R # M /\ T # M /\ AttemptOf(M) = a /\ AttemptOf(T) = a
  <2>1. R[3] = "reply" /\ T[3] = "timed" /\ M[3] = "mapped"
    BY IdGood DEF Names
  <2>. QED
    BY <2>1, IdGood DEF Names
<1>3. /\ j \in Reactions /\ j.next = M /\ \A x : Speaker(x, j) = T
      /\ TimedJob(a) = Pass(T) /\ Pass(T) \in Reactions /\ \A x : Speaker(x, Pass(T)) = R
      /\ Pass(T).next = T
  <2>1. j \in Reactions /\ TimedJob(a) \in Reactions
    BY JobsGood
  <2>2. j.next = M /\ j.kind = "abort" /\ TimedJob(a) = Pass(T)
        /\ Pass(T).next = T /\ Pass(T).kind = "pass"
    BY DEF AbortJob, TimedJob, Plain, Pass, Job
  <2>. QED
    BY <1>2, <2>1, <2>2 DEF Speaker, SpeakerName
<1>4. /\ e.status \in [PromiseIds -> Statuses] /\ Made(e, R) /\ ~Made(e, T) /\ ~Made(e, M)
      /\ T \notin Y /\ M \notin Y /\ Wired(e, {R}, Y)
  BY Parts DEF Wired
<1>. HIDE DEF R, T, M, j
<1>5. /\ Wired(g, {R} \cup {T}, Y \cup {T}) /\ g.status = [e.status EXCEPT ![T] = "pending"]
      /\ g.value = e.value /\ Held(g) = Held(e)
  BY <1>2, <1>4, NewWired DEF Made
<1>6. /\ Wired(g, V, Z) /\ g.value = e.value /\ Held(g) = Held(e) /\ T \in Z /\ R \in V
      /\ \A q \in PromiseIds : q # T => g.status[q] = e.status[q]
      /\ IsPending(g, T) /\ Z \ {T} = Y /\ V \ {R} = W
  BY <1>2, <1>4, <1>5 DEF IsPending
<1>7. IsPending(g, R) \/ IsSettled(g, R)
  BY <1>2, <1>4, <1>6 DEF IsPending, IsSettled, IsFulfilled, IsRejected, Made, Statuses
<1>. HIDE DEF g, Z, V, W, h, f
<1>8. /\ Wired(h, W, Y)
      /\ Held(h) = Held(e) \cup (IF IsPending(e, R) THEN {TimedJob(a)} ELSE {})
      /\ \A q \in PromiseIds : q # T => h.status[q] = e.status[q] /\ h.value[q] = e.value[q]
      /\ IsPending(e, R) => IsPending(h, T) /\ h.value[T] = e.value[T]
      /\ IsSettled(e, R) => h.status[T] = e.status[R] /\ h.value[T] = e.value[R]
      /\ Made(h, T)
  <2>1. CASE IsPending(g, R)
    <3>1. Gains(g, Adopt(g, T, R), V \ {R}, Z, Pass(T))
      BY <1>3, <1>6, <2>1, AdoptPendingWired
    <3>2. IsPending(e, R) /\ ~IsSettled(e, R)
      BY <1>2, <1>6, <2>1 DEF IsPending, IsSettled, IsFulfilled, IsRejected
    <3>3. /\ Wired(h, W, Y) /\ Held(h) = Held(g) \cup {TimedJob(a)}
          /\ h.status = g.status /\ h.value = g.value
      BY <1>3, <1>6, <3>1 DEF Gains, h
    <3>. QED
      BY <1>6, <3>2, <3>3 DEF IsPending, Made
  <2>2. CASE IsSettled(g, R)
    <3>1. TakesOver(g, Adopt(g, T, R), V, Z, R, T)
      BY <1>2, <1>6, <2>2, AdoptSettledWired
    <3>2. IsSettled(e, R) /\ ~IsPending(e, R)
      BY <1>2, <1>6, <2>2 DEF IsPending, IsSettled, IsFulfilled, IsRejected
    <3>3. /\ Wired(h, W, Y) /\ Held(h) = Held(g)
          /\ \A q \in PromiseIds : q # T => h.status[q] = g.status[q] /\ h.value[q] = g.value[q]
          /\ h.status[T] = g.status[R] /\ h.value[T] = g.value[R]
      BY <1>6, <3>1 DEF TakesOver, h
    <3>. QED
      BY <1>2, <1>6, <2>2, <3>2, <3>3 DEF IsPending, IsSettled, IsFulfilled, IsRejected, Made
  <2>. QED
    BY <1>7, <2>1, <2>2
<1>9. RetryJob(a) \notin Held(h)
  <2>1. RetryJob(a) # TimedJob(a)
    BY DEF RetryJob, TimedJob, Pass, Job
  <2>. QED
    BY <1>8, <2>1
<1>10. Chains(h, Then(h, T, j), W, Y, T, j)
  <2>1. T \in W /\ Wired(h, W, Y) /\ h.status[j.next] = "absent" /\ Speaker(New(h, j.next), j) = T
    BY <1>2, <1>3, <1>4, <1>8 DEF Made, W
  <2>2. j.next[3] = "mapped" => RetryJob(AttemptOf(j.next)) \notin Held(h)
    BY <1>2, <1>3, <1>9
  <2>. QED
    BY <1>3, <2>1, <2>2, ThenWired
<1>11. /\ Wired(f, {M}, Y) /\ Held(f) = Held(h) \cup {j}
       /\ \A q \in PromiseIds : q # M => f.status[q] = h.status[q]
       /\ IsPending(f, M) /\ f.value = h.value
  <2>1. (W \ {T}) \cup {M} = {M} /\ Y \ {M} = Y
    BY <1>4 DEF W
  <2>. QED
    BY <1>3, <1>10, <2>1 DEF Chains, f
<1>12. Bounds(e, f, Y, a)
  BY <1>2, <1>8, <1>11 DEF R, T, M, j, Bounds, IsPending
<1>. QED
  BY <1>1, <1>12

\* What starting an attempt makes of an engine.
Sends(e, f, Y, a, c) ==
    LET R == Id(a, "reply")
        T == Id(a, "timed")
        M == Id(a, "mapped")
        S == Id(a, "result")
        bounded == Sent(c) /\ a[1] \in Timed
    IN  /\ Wired(f, {S}, Y)
        /\ Held(e) \cup {RetryJob(a)} \cup Remains(a, c) \subseteq Held(f)
        /\ Held(f) \subseteq Held(e) \cup {RetryJob(a), AbortJob(a), TimedJob(a)} \cup Remains(a, c)
        /\ \A q \in PromiseIds \ {R, T, M, S} : f.status[q] = e.status[q] /\ f.value[q] = e.value[q]
        /\ IsPending(f, S) /\ f.value[S] = e.value[S]
        /\ c.stage = "running" => IsPending(f, R) /\ f.value[R] = e.value[R]
        /\ c.stage # "running" => /\ IsSettled(f, R) /\ f.value[R] = c.val
                                  /\ IsFulfilled(f, R) <=> c.val = "data"
        /\ ~bounded => /\ f.status[T] = e.status[T] /\ f.value[T] = e.value[T]
                       /\ f.status[M] = e.status[M] /\ f.value[M] = e.value[M]
        /\ bounded => /\ IsPending(f, M) /\ f.value[M] = e.value[M]
                      /\ c.stage = "running" => IsPending(f, T) /\ f.value[T] = e.value[T]
                      /\ c.stage # "running" => f.status[T] = f.status[R] /\ f.value[T] = f.value[R]

\* RetryInterceptor::attempt: the result waits for what the terminus gives.
LEMMA AttemptWired ==
    ASSUME NEW e, NEW Y, Wired(e, {}, Y), NEW a \in Within, Fresh(e, a), a \notin once,
           NEW c \in AllChoices, \A n \in Names : Id(a, n) \notin Y
    PROVE  Sends(e, Attempt(e, a, MaxRetries + 1 - a[2], c), Y, a, c)
<1>. DEFINE R == Id(a, "reply")
            T == Id(a, "timed")
            M == Id(a, "mapped")
            S == Id(a, "result")
            bounded == Sent(c) /\ a[1] \in Timed
            j == RetryJob(a)
            g == Terminus(e, a, c)
            h == WithTimeout(g, a)
            f == Attempt(e, a, MaxRetries + 1 - a[2], c)
            XR == {R}
            XM == {M}
<1>1. /\ R \in PromiseIds /\ T \in PromiseIds /\ M \in PromiseIds /\ S \in PromiseIds
      /\ R[3] = "reply" /\ T[3] = "timed" /\ M[3] = "mapped" /\ S[3] = "result"
      /\ AttemptOf(S) = a
  BY IdGood DEF Names
<1>2. R # T /\ R # M /\ R # S /\ T # M /\ T # S /\ M # S
  BY <1>1
<1>3. R \notin Y /\ T \notin Y /\ M \notin Y /\ S \notin Y
  BY DEF Names
<1>4. /\ e.status[R] = "absent" /\ e.status[T] = "absent" /\ e.status[M] = "absent"
      /\ e.status[S] = "absent"
  BY DEF Fresh, Made, Names
<1>5. j \in Reactions /\ j \in Settling /\ j.next = S /\ j.kind = "retry"
  BY JobsGood DEF RetryJob, Job
<1>6. j \notin Held(e)
  BY <1>1, <1>5, FreshUnheld
<1>7. f = IF bounded THEN Then(h, M, j) ELSE Then(g, R, j)
  BY DEF Attempt, RetryJob
<1>8. Starts(e, g, Y, a, c)
  BY <1>3, TerminusWired
<1>9. /\ Wired(g, {R}, Y) /\ Held(g) = Held(e) \cup Remains(a, c)
      /\ \A q \in PromiseIds : q # R => g.status[q] = e.status[q] /\ g.value[q] = e.value[q]
      /\ c.stage = "running" => IsPending(g, R) /\ g.value[R] = e.value[R]
      /\ c.stage # "running" => /\ IsSettled(g, R) /\ g.value[R] = c.val
                                /\ IsFulfilled(g, R) <=> c.val = "data"
  BY <1>8 DEF Starts
<1>10. j \notin Held(g)
  <2>1. j \notin Remains(a, c)
    <3>1. \A kind \in Objectual : ObjectJob(kind, a).kind = kind
      BY DEF ObjectJob, Plain, Job
    <3>2. \A k \in Remains(a, c) : k.kind \in Objectual
      BY <3>1 DEF Remains, Objectual
    <3>. HIDE DEF j
    <3>. QED
      BY <1>5, <3>2 DEF Objectual
  <2>. QED
    BY <1>6, <1>9, <2>1
<1>. HIDE DEF R, T, M, S, j, g, h, f, bounded
<1>11. CASE ~bounded
  <2>1. Chains(g, Then(g, R, j), XR, Y, R, j)
    <3>1. R \in XR /\ Wired(g, XR, Y) /\ g.status[j.next] = "absent"
      BY <1>1, <1>2, <1>4, <1>5, <1>9
    <3>2. Speaker(New(g, j.next), j) = R
      <4>1. New(g, S).status = [g.status EXCEPT ![S] = "pending"]
        BY <1>9, Parts DEF Wired, New
      <4>2. ~Made(New(g, S), M)
        BY <1>1, <1>2, <1>4, <1>9, <4>1 DEF Made
      <4>. QED
        BY <1>1, <1>5, <4>2 DEF Speaker, Out, R, M
    <3>3. j.next[3] = "mapped" => RetryJob(AttemptOf(j.next)) \notin Held(g)
      BY <1>1, <1>5
    <3>. HIDE DEF XR
    <3>. QED
      BY <1>5, <3>1, <3>2, <3>3, ThenWired
  <2>2. /\ Wired(f, {S}, Y) /\ Held(f) = Held(g) \cup {j}
        /\ \A q \in PromiseIds : q # S => f.status[q] = g.status[q]
        /\ IsPending(f, S) /\ f.value = g.value
    <3>1. (XR \ {R}) \cup {S} = {S} /\ Y \ {S} = Y
      BY <1>3
    <3>2. f = Then(g, R, j)
      BY <1>7, <1>11
    <3>. QED
      BY <1>5, <2>1, <3>1, <3>2 DEF Chains
  <2>3. Sends(e, f, Y, a, c)
    BY <1>1, <1>2, <1>4, <1>9, <1>11, <2>2 DEF Sends, R, T, M, S, j, bounded, IsPending, IsSettled, IsFulfilled,
       IsRejected
  <2>. QED
    BY <2>3 DEF f
<1>12. CASE bounded
  <2>1. Bounds(g, WithTimeout(g, a), Y, a)
    <3>1. /\ Wired(g, {Id(a, "reply")}, Y) /\ ~Made(g, Id(a, "timed")) /\ ~Made(g, Id(a, "mapped"))
          /\ RetryJob(a) \notin Held(g) /\ Id(a, "timed") \notin Y /\ Id(a, "mapped") \notin Y
      BY <1>1, <1>2, <1>3, <1>4, <1>9, <1>10 DEF Made, R, T, M, j
    <3>. QED
      BY <3>1, WithTimeoutWired
  <2>2. /\ Wired(h, {M}, Y)
        /\ Held(g) \subseteq Held(h) /\ Held(h) \subseteq Held(g) \cup {AbortJob(a), TimedJob(a)}
        /\ \A q \in PromiseIds \ {T, M} : h.status[q] = g.status[q] /\ h.value[q] = g.value[q]
        /\ IsPending(h, M) /\ h.value[M] = g.value[M]
        /\ IsPending(g, R) => IsPending(h, T) /\ h.value[T] = g.value[T]
        /\ IsSettled(g, R) => h.status[T] = g.status[R] /\ h.value[T] = g.value[R]
    BY <2>1 DEF Bounds, R, T, M, h
  <2>3. Chains(h, Then(h, M, j), XM, Y, M, j)
    <3>1. M \in XM /\ Wired(h, XM, Y) /\ h.status[j.next] = "absent"
      BY <1>1, <1>2, <1>4, <1>5, <1>9, <2>2
    <3>2. Speaker(New(h, j.next), j) = M
      <4>1. New(h, S).status = [h.status EXCEPT ![S] = "pending"] /\ h.status \in [PromiseIds -> Statuses]
        BY <2>2, Parts DEF Wired, New
      <4>2. Made(New(h, S), M)
        BY <1>1, <1>2, <2>2, <4>1 DEF Made, IsPending
      <4>. QED
        BY <1>1, <1>5, <4>2 DEF Speaker, Out, M
    <3>3. j.next[3] = "mapped" => RetryJob(AttemptOf(j.next)) \notin Held(h)
      BY <1>1, <1>5
    <3>. HIDE DEF XM
    <3>. QED
      BY <1>5, <3>1, <3>2, <3>3, ThenWired
  <2>4. /\ Wired(f, {S}, Y) /\ Held(f) = Held(h) \cup {j}
        /\ \A q \in PromiseIds : q # S => f.status[q] = h.status[q]
        /\ IsPending(f, S) /\ f.value = h.value
    <3>1. (XM \ {M}) \cup {S} = {S} /\ Y \ {S} = Y
      BY <1>3
    <3>2. f = Then(h, M, j)
      BY <1>7, <1>12
    <3>. QED
      BY <1>5, <2>3, <3>1, <3>2 DEF Chains
  <2>5. Held(e) \cup {j} \cup Remains(a, c) \subseteq Held(f)
        /\ Held(f) \subseteq Held(e) \cup {j, AbortJob(a), TimedJob(a)} \cup Remains(a, c)
    BY <1>9, <2>2, <2>4
  <2>6. \A q \in PromiseIds \ {R, T, M, S} : f.status[q] = e.status[q] /\ f.value[q] = e.value[q]
    BY <1>9, <2>2, <2>4
  <2>7. /\ f.status[R] = g.status[R] /\ f.value[R] = g.value[R]
        /\ f.status[M] = h.status[M] /\ f.value[M] = e.value[M] /\ f.value[S] = e.value[S]
        /\ f.status[T] = h.status[T] /\ f.value[T] = h.value[T] /\ g.value[T] = e.value[T]
    BY <1>1, <1>2, <1>9, <2>2, <2>4
  <2>8. Sends(e, f, Y, a, c)
    BY <1>9, <1>12, <2>2, <2>4, <2>5, <2>6, <2>7 DEF Sends, R, T, M, S, j, bounded, IsPending, IsSettled,
       IsFulfilled, IsRejected
  <2>. QED
    BY <2>8 DEF f
<1>. QED
  BY <1>11, <1>12

\* What the retry's catcher makes of one when it starts the delay.
Delays(e, f, a, ex) ==
    LET P == Id(a, "tap")
        D == Id(a, "delayed")
        G == Id(a, "again")
    IN  /\ Wired(f, {}, {})
        /\ Held(f) = Held(e) \cup {ArmJob(a), ElapsedJob(a), AgainJob(a, ex), ReturnJob(a)}
        /\ \A q \in PromiseIds \ {P, D, G} : f.status[q] = e.status[q]
        /\ IsPending(f, P) /\ IsPending(f, D) /\ IsPending(f, G)
        /\ f.value = e.value

\* The delay, and the attempt's result that waits for what follows it.
LEMMA DelayWired ==
    ASSUME NEW e, NEW a \in Within, a[2] <= MaxRetries, Wired(e, {}, {Id(a, "result")}),
           IsPending(e, Id(a, "result")), ~Made(e, Id(a, "tap")), ~Made(e, Id(a, "delayed")),
           ~Made(e, Id(a, "again")), NEW ex \in Values
    PROVE  Delays(e, Adopt(DelayedRetry(e, a, MaxRetries + 1 - a[2], ex), Id(a, "result"), Id(a, "again")), a, ex)
<1>. DEFINE P == Id(a, "tap")
            D == Id(a, "delayed")
            G == Id(a, "again")
            S == Id(a, "result")
            yes == TRUE
            g == New(e, P)
            h == Post(g, ArmJob(a), yes, Nothing)
            k == Then(h, P, ElapsedJob(a))
            m == Then(k, D, AgainJob(a, ex))
            f == Adopt(m, S, G)
            XP == {P}
            XD == {D}
            XG == {G}
            YS == {S}
            YT == {S, P}
<1>1. f = Adopt(DelayedRetry(e, a, MaxRetries + 1 - a[2], ex), Id(a, "result"), Id(a, "again"))
  BY DEF DelayedRetry, ArmJob, ElapsedJob, AgainJob
<1>2. /\ P \in PromiseIds \ Beyond /\ D \in PromiseIds /\ G \in PromiseIds /\ S \in PromiseIds
      /\ P[3] = "tap" /\ D[3] = "delayed" /\ G[3] = "again" /\ S[3] = "result"
      /\ AttemptOf(P) = a /\ AttemptOf(D) = a /\ AttemptOf(G) = a /\ AttemptOf(S) = a
  BY IdGood DEF Names
<1>3. P # D /\ P # G /\ P # S /\ D # G /\ D # S /\ G # S
  BY <1>2
<1>4. /\ ArmJob(a) \in GoodJobs /\ ArmJob(a) \in Settling /\ ArmJob(a) \notin Reactions
      /\ ArmJob(a).next = P /\ ~(ArmJob(a).kind \in Objectual)
      /\ ElapsedJob(a) \in Reactions /\ ElapsedJob(a).next = D /\ \A x : Speaker(x, ElapsedJob(a)) = P
      /\ AgainJob(a, ex) \in Reactions /\ AgainJob(a, ex).next = G /\ \A x : Speaker(x, AgainJob(a, ex)) = D
      /\ ReturnJob(a) = Pass(S) /\ Pass(S) \in Reactions /\ Pass(S).next = S /\ \A x : Speaker(x, Pass(S)) = G
  <2>1. /\ ArmJob(a) \in Settling /\ ElapsedJob(a) \in Reactions /\ AgainJob(a, ex) \in Reactions
        /\ ReturnJob(a) \in Reactions /\ Settling \subseteq GoodJobs
    BY JobsGood
  <2>2. /\ ArmJob(a).next = P /\ ArmJob(a).kind = "arm"
        /\ ElapsedJob(a).next = D /\ ElapsedJob(a).kind = "elapsed"
        /\ AgainJob(a, ex).next = G /\ AgainJob(a, ex).kind = "again"
        /\ ReturnJob(a) = Pass(S) /\ Pass(S).next = S /\ Pass(S).kind = "pass"
    BY DEF ArmJob, ElapsedJob, AgainJob, ReturnJob, Plain, Pass, Job
  <2>. HIDE DEF P, D, G, S
  <2>3. ArmJob(a) \in GoodJobs /\ ArmJob(a) \notin Reactions /\ ~(ArmJob(a).kind \in Objectual)
    BY <2>1, <2>2 DEF Reactions, Objectual
  <2>4. /\ \A x : Speaker(x, ElapsedJob(a)) = P /\ \A y : Speaker(y, AgainJob(a, ex)) = D
        /\ \A x : Speaker(x, Pass(S)) = G
    BY <1>2, <2>2 DEF Speaker, SpeakerName, P, D, G
  <2>. QED
    BY <2>1, <2>2, <2>3, <2>4
<1>5. /\ e.status \in [PromiseIds -> Statuses] /\ e.status[P] = "absent" /\ e.status[D] = "absent"
      /\ e.status[G] = "absent" /\ IsPending(e, S) /\ Wired(e, {}, YS)
  BY Parts DEF Wired, Made
<1>6. ArmJob(a) \notin Held(e)
  BY <1>4, <1>5 DEF Wired, Aimed, Made
<1>7. yes \in BOOLEAN /\ Nothing \in Values
  BY DEF Values
<1>. HIDE DEF P, D, G, S, yes, g, h, k, m, f
<1>8. /\ Wired(g, XP, YT) /\ g.value = e.value /\ Held(g) = Held(e) /\ IsPending(g, P)
      /\ \A q \in PromiseIds : q # P => g.status[q] = e.status[q]
  <2>1. /\ Wired(New(e, P), {} \cup {P}, YS \cup {P})
        /\ New(e, P).status = [e.status EXCEPT ![P] = "pending"]
        /\ New(e, P).value = e.value /\ Held(New(e, P)) = Held(e)
    <3>. HIDE DEF YS
    <3>. QED
      BY <1>2, <1>5, NewWired
  <2>2. {} \cup {P} = XP /\ YS \cup {P} = YT
    OBVIOUS
  <2>. QED
    BY <1>2, <1>5, <2>1, <2>2 DEF g, IsPending
<1>9. Gains(g, Post(g, ArmJob(a), yes, Nothing), XP, YT, ArmJob(a))
  <2>1. ArmJob(a) \notin Held(g) /\ ArmJob(a).next \in YT /\ IsPending(g, ArmJob(a).next)
    BY <1>4, <1>6, <1>8
  <2>2. ArmJob(a).kind \in Objectual => RetryJob(AttemptOf(ArmJob(a).next)) \notin Queued(g)
    BY <1>4
  <2>. HIDE DEF XP, YT
  <2>. QED
    BY <1>4, <1>7, <1>8, <2>1, <2>2, PostWired
<1>10. /\ Wired(h, XP, YS) /\ Held(h) = Held(e) \cup {ArmJob(a)}
       /\ h.status = g.status /\ h.value = e.value
  <2>1. YT \ {P} = YS
    BY <1>3
  <2>. QED
    BY <1>4, <1>8, <1>9, <2>1 DEF Gains, h
<1>11. Chains(h, Then(h, P, ElapsedJob(a)), XP, YS, P, ElapsedJob(a))
  <2>1. /\ P \in XP /\ h.status[ElapsedJob(a).next] = "absent"
        /\ Speaker(New(h, ElapsedJob(a).next), ElapsedJob(a)) = P
    BY <1>2, <1>3, <1>4, <1>5, <1>8, <1>10
  <2>2. ElapsedJob(a).next[3] = "mapped" => RetryJob(AttemptOf(ElapsedJob(a).next)) \notin Held(h)
    BY <1>2, <1>4
  <2>. HIDE DEF XP, YS
  <2>. QED
    BY <1>4, <1>10, <2>1, <2>2, ThenWired
<1>12. /\ Wired(k, XD, YS) /\ Held(k) = Held(e) \cup {ArmJob(a), ElapsedJob(a)}
       /\ \A q \in PromiseIds : q # D => k.status[q] = h.status[q]
       /\ IsPending(k, D) /\ k.value = e.value
  <2>1. (XP \ {P}) \cup {D} = XD /\ YS \ {D} = YS
    BY <1>3
  <2>. QED
    BY <1>4, <1>10, <1>11, <2>1 DEF Chains, k
<1>13. Chains(k, Then(k, D, AgainJob(a, ex)), XD, YS, D, AgainJob(a, ex))
  <2>1. /\ D \in XD /\ k.status[AgainJob(a, ex).next] = "absent"
        /\ Speaker(New(k, AgainJob(a, ex).next), AgainJob(a, ex)) = D
    BY <1>2, <1>3, <1>4, <1>5, <1>8, <1>10, <1>12
  <2>2. AgainJob(a, ex).next[3] = "mapped" => RetryJob(AttemptOf(AgainJob(a, ex).next)) \notin Held(k)
    BY <1>2, <1>4
  <2>. HIDE DEF XD, YS
  <2>. QED
    BY <1>4, <1>12, <2>1, <2>2, ThenWired
<1>14. /\ Wired(m, XG, YS) /\ Held(m) = Held(e) \cup {ArmJob(a), ElapsedJob(a), AgainJob(a, ex)}
       /\ \A q \in PromiseIds : q # G => m.status[q] = k.status[q]
       /\ IsPending(m, G) /\ m.value = e.value
  <2>1. (XD \ {D}) \cup {G} = XG /\ YS \ {G} = YS
    BY <1>3
  <2>. QED
    BY <1>4, <1>12, <1>13, <2>1 DEF Chains, m
<1>15. m.status[S] = e.status[S] /\ m.status[P] = g.status[P] /\ m.status[D] = k.status[D]
  BY <1>2, <1>3, <1>8, <1>10, <1>12, <1>14
<1>16. Gains(m, Adopt(m, S, G), XG \ {G}, YS, Pass(S))
  <2>1. G \in XG /\ S \in YS /\ IsPending(m, S)
    BY <1>5, <1>15 DEF IsPending
  <2>. HIDE DEF XG, YS
  <2>. QED
    BY <1>4, <1>14, <2>1, AdoptPendingWired
<1>17. /\ Wired(f, {}, {})
       /\ Held(f) = Held(e) \cup {ArmJob(a), ElapsedJob(a), AgainJob(a, ex), ReturnJob(a)}
       /\ f.status = m.status /\ f.value = e.value
  <2>1. XG \ {G} = {} /\ YS \ {S} = {}
    OBVIOUS
  <2>. QED
    BY <1>4, <1>14, <1>16, <2>1 DEF Gains, f
<1>18. \A q \in PromiseIds \ {P, D, G} : f.status[q] = e.status[q]
  BY <1>8, <1>10, <1>12, <1>14, <1>17
<1>19. IsPending(f, P) /\ IsPending(f, D) /\ IsPending(f, G)
  BY <1>8, <1>12, <1>14, <1>15, <1>17 DEF IsPending
<1>20. Delays(e, f, a, ex)
  BY <1>17, <1>18, <1>19 DEF Delays, P, D, G
<1>. QED
  BY <1>1, <1>20

---------------------------------------------------------------------------
(* What holds of each attempt.                                             *)

Result(a) == Id(a, "result")
Nested(e, a) == a[2] <= MaxRetries /\ Made(e, Result(NextAttempt(a)))

\* Its promises are made in the order of the code, and what waits for a timer
\* has one that is armed.
Created(e, rp, tm, dl, a) ==
    /\ Made(e, Id(a, "reply")) <=> Made(e, Result(a))
    /\ Made(e, Id(a, "timed")) <=> Made(e, Id(a, "mapped"))
    /\ Made(e, Id(a, "timed")) => Made(e, Id(a, "reply")) /\ a[1] \in Timed
    /\ rp[a] # "none" /\ a[1] \in Timed => Made(e, Id(a, "timed"))
    /\ Made(e, Id(a, "tap")) <=> Made(e, Id(a, "again"))
    /\ Made(e, Id(a, "delayed")) <=> Made(e, Id(a, "again"))
    /\ Made(e, Id(a, "tick")) => Made(e, Id(a, "tap")) /\ ArmJob(a) \notin Held(e)
    /\ Made(e, Id(a, "again")) => Made(e, Result(a)) /\ RetryJob(a) \notin Held(e)
    /\ Nested(e, a) => Made(e, Id(a, "again")) /\ \A ex \in Values : AgainJob(a, ex) \notin Held(e)
    /\ a[2] = 1 => (Made(e, Result(a)) <=> Made(e, UserOf(a[1])))
    /\ IsPending(e, Id(a, "tick")) => dl[a] = "armed"
    /\ IsPending(e, Id(a, "timed")) => tm[a] = "armed"

\* Its reply and its parts are deleted once, and its promise is settled when
\* the reply has finished.
Reclaimed(e, rp, on, pt, alive, a) ==
    /\ ~Made(e, Id(a, "reply")) => rp[a] = "none" /\ pt[a] = "none"
    /\ rp[a] \in {"none", "running"} => a \notin on
    /\ rp[a] = "finished" => a \in on
    /\ Made(e, Id(a, "reply")) => (IsPending(e, Id(a, "reply")) <=> rp[a] # "none" /\ a \notin on)
    /\ ObjectJob("finished", a) \in Held(e) => a \in on
    /\ ObjectJob("deleteReply", a) \in Held(e) => a \in on
    /\ alive => (rp[a] = "finished" <=> ObjectJob("deleteReply", a) \in Held(e))
    /\ alive => (rp[a] = "destroyed" => a \in on)
    /\ pt[a] = "orphan" <=> ObjectJob("deleteParts", a) \in Held(e)
    /\ pt[a] = "owned" => rp[a] \in {"running", "finished"}
    /\ ObjectJob("deleteParts", a) \in Held(e) => rp[a] = "none"

\* When its outcome has been reported nothing of it is left.
Reported(e, rp, pt, a) ==
    /\ IsSettled(e, Id(a, "timed")) =>
          e.value[Id(a, "timed")] = TimeoutException \/ IsSettled(e, Id(a, "reply"))
    /\ IsSettled(e, Out(e, a)) => rp[a] # "running"
    /\ Made(e, Result(a)) /\ RetryJob(a) \notin Held(e) =>
          /\ IsSettled(e, Out(e, a))
          /\ rp[a] \in {"none", "destroyed"} /\ pt[a] \in {"none", "freed"}

\* p came to what q came to.
Like(e, p, q) ==
    IsSettled(e, q) /\ e.value[p] = e.value[q] /\ (IsFulfilled(e, p) <=> IsFulfilled(e, q))

\* Its result is what it came to, or what the next attempt came to; and the
\* caller's answer is the first attempt's result, decoded.
Carried(e, a) ==
    LET S == Result(a)
        G == Id(a, "again")
        o == Out(e, a)
        N == Result(NextAttempt(a))
        U == UserOf(a[1])
    IN  /\ IsSettled(e, S) /\ Made(e, G) => Like(e, S, G)
        /\ IsSettled(e, S) /\ ~Made(e, G) => Like(e, S, o)
        /\ IsSettled(e, G) /\ Nested(e, a) => Like(e, G, N)
        /\ IsSettled(e, G) /\ ~Nested(e, a) => IsRejected(e, G) /\ e.value[G] = e.value[o]
        /\ Made(e, G) => IsRejected(e, o) /\ e.value[o] \in Retryable
        /\ \A ex \in Values : AgainJob(a, ex) \in Held(e) => ex = e.value[o]
        /\ \A n \in {"reply", "timed", "mapped"} :
              IsFulfilled(e, Id(a, n)) <=> e.value[Id(a, n)] = "data"
        /\ a[2] = 1 /\ IsSettled(e, U) =>
              /\ IsSettled(e, S)
              /\ IsFulfilled(e, S) => e.value[U] \in {"decoded", "serialization"}
              /\ ~IsFulfilled(e, S) => e.value[U] = e.value[S]

\* The engine is wired, the objects have their types, nothing was made of the
\* attempt beyond the budget, and nothing of a dead client is on the network.
Sound ==
    /\ Wired(loop, {}, {})
    /\ reply \in [Attempts -> {"none", "running", "finished", "destroyed"}]
    /\ once \subseteq Within
    /\ timer \in [Attempts -> {"none", "armed", "fired"}]
    /\ delay \in [Attempts -> {"none", "armed", "fired"}]
    /\ parts \in [Attempts -> {"none", "owned", "orphan", "freed"}]
    /\ clientAlive \in BOOLEAN /\ retryAlive \in BOOLEAN
    /\ \A a \in Attempts \ Within :
          reply[a] = "none" /\ timer[a] = "none" /\ delay[a] = "none" /\ parts[a] = "none"
    /\ QuietAfterDestroy

IInv ==
    /\ Sound
    /\ \A a \in Within : /\ Created(loop, reply, timer, delay, a)
                         /\ Reclaimed(loop, reply, once, parts, clientAlive, a)
                         /\ Reported(loop, reply, parts, a)
                         /\ Carried(loop, a)

---------------------------------------------------------------------------
(* What a step that leaves something alone preserves of it.                *)

\* f comes after e, and made no promise.
Later(e, f) ==
    /\ \A p \in PromiseIds : Made(f, p) <=> Made(e, p)
    /\ \A p \in PromiseIds : IsSettled(e, p) => f.status[p] = e.status[p] /\ f.value[p] = e.value[p]
    /\ Held(f) \cap Settling \subseteq Held(e)

\* The promises of an attempt, and those of the next one and of the caller.
LEMMA Neighbours ==
    ASSUME NEW a \in Within
    PROVE  /\ \A n \in Names : Id(a, n) \in PromiseIds /\ Id(a, n)[3] = n
           /\ Result(a) = Id(a, "result") /\ Result(a) \in PromiseIds
           /\ Result(NextAttempt(a)) \in PromiseIds /\ Result(NextAttempt(a)) = <<a[1], a[2] + 1, "result">>
           /\ Result(NextAttempt(a)) # Result(a) /\ Result(NextAttempt(a))[3] = "result"
           /\ a[2] <= MaxRetries => NextAttempt(a) \in Within
           /\ UserOf(a[1]) \in PromiseIds /\ UserOf(a[1])[3] = "user"
           /\ \A e : Out(e, a) \in {Id(a, "reply"), Id(a, "mapped")}
<1>1. a = <<a[1], a[2]>> /\ a[1] \in Requests /\ a[2] \in 1..(MaxRetries + 1) /\ a[2] \in Nat
  BY DEF Within
<1>2. <<a[1], a[2] + 1, "result">> \in PromiseIds /\ a[2] + 1 # a[2]
  BY <1>1 DEF PromiseIds, Names
<1>3. Result(NextAttempt(a)) = <<a[1], a[2] + 1, "result">> /\ Result(a) = <<a[1], a[2], "result">>
  BY DEF Result, NextAttempt, Id
<1>4. a[2] <= MaxRetries => NextAttempt(a) \in Within
  BY <1>1 DEF NextAttempt, Within
<1>. QED
  BY <1>1, <1>2, <1>3, <1>4, IdGood, UserGood DEF Result, Out, Names

\* Promises are made by four handlers only.
LEMMA CreatedKept ==
    ASSUME NEW e, NEW f, Later(e, f), NEW a \in Within,
           NEW rp, NEW tm, NEW dl, Created(e, rp, tm, dl, a), NEW rp2, NEW tm2, NEW dl2,
           rp2[a] = "none" <=> rp[a] = "none",
           IsPending(f, Id(a, "tick")) => dl2[a] = "armed",
           IsPending(f, Id(a, "timed")) => tm2[a] = "armed"
    PROVE  Created(f, rp2, tm2, dl2, a)
<1>1. /\ \A n \in Names : Made(f, Id(a, n)) <=> Made(e, Id(a, n))
      /\ Made(f, Result(a)) <=> Made(e, Result(a))
      /\ Made(f, UserOf(a[1])) <=> Made(e, UserOf(a[1]))
      /\ Made(f, Result(NextAttempt(a))) <=> Made(e, Result(NextAttempt(a)))
  BY Neighbours DEF Later
<1>2. /\ Made(f, Id(a, "reply")) <=> Made(e, Id(a, "reply"))
      /\ Made(f, Id(a, "timed")) <=> Made(e, Id(a, "timed"))
      /\ Made(f, Id(a, "mapped")) <=> Made(e, Id(a, "mapped"))
      /\ Made(f, Id(a, "tap")) <=> Made(e, Id(a, "tap"))
      /\ Made(f, Id(a, "tick")) <=> Made(e, Id(a, "tick"))
      /\ Made(f, Id(a, "delayed")) <=> Made(e, Id(a, "delayed"))
      /\ Made(f, Id(a, "again")) <=> Made(e, Id(a, "again"))
  BY <1>1 DEF Names
<1>3. Nested(f, a) <=> Nested(e, a)
  BY <1>1 DEF Nested
<1>4. /\ ArmJob(a) \in Settling /\ RetryJob(a) \in Settling
      /\ a[2] <= MaxRetries => \A ex \in Values : AgainJob(a, ex) \in Settling
  BY JobsGood
<1>5. /\ ArmJob(a) \in Held(f) => ArmJob(a) \in Held(e)
      /\ RetryJob(a) \in Held(f) => RetryJob(a) \in Held(e)
      /\ Nested(e, a) => \A ex \in Values : AgainJob(a, ex) \in Held(f) => AgainJob(a, ex) \in Held(e)
  BY <1>4 DEF Later, Nested
<1>. QED
  BY <1>1, <1>2, <1>3, <1>5 DEF Created

\* The objects of an attempt are its own.
LEMMA ReclaimedKept ==
    ASSUME NEW e, NEW f, NEW a \in Within, NEW rp, NEW on, NEW pt, NEW al,
           Reclaimed(e, rp, on, pt, al, a), NEW rp2, NEW on2, NEW pt2,
           f.status[Id(a, "reply")] = e.status[Id(a, "reply")],
           \A kind \in Objectual : ObjectJob(kind, a) \in Held(f) <=> ObjectJob(kind, a) \in Held(e),
           rp2[a] = rp[a], a \in on2 <=> a \in on, pt2[a] = pt[a]
    PROVE  Reclaimed(f, rp2, on2, pt2, al, a)
  BY DEF Reclaimed, Objectual, Made, IsPending

\* A report, once made, stands.
LEMMA ReportedKept ==
    ASSUME NEW e, NEW f, Later(e, f), NEW a \in Within, NEW rp, NEW pt, Reported(e, rp, pt, a),
           NEW rp2, NEW pt2,
           rp[a] \in {"none", "destroyed"} => rp2[a] \in {"none", "destroyed"},
           pt[a] \in {"none", "freed"} => pt2[a] \in {"none", "freed"},
           IsSettled(f, Id(a, "timed")) =>
              IsSettled(e, Id(a, "timed")) \/ f.value[Id(a, "timed")] = TimeoutException
              \/ IsSettled(f, Id(a, "reply")),
           IsSettled(f, Out(f, a)) => rp2[a] # "running",
           RetryJob(a) \in Held(e) /\ RetryJob(a) \notin Held(f) =>
              /\ IsSettled(f, Out(f, a))
              /\ rp2[a] \in {"none", "destroyed"} /\ pt2[a] \in {"none", "freed"}
    PROVE  Reported(f, rp2, pt2, a)
<1>1. Out(f, a) = Out(e, a) /\ Out(e, a) \in PromiseIds
  BY Neighbours DEF Out, Later, Names
<1>2. \A p \in PromiseIds : IsSettled(e, p) => IsSettled(f, p) /\ f.value[p] = e.value[p]
  BY DEF Later, IsSettled, IsFulfilled, IsRejected
<1>3. Made(f, Result(a)) <=> Made(e, Result(a))
  BY Neighbours DEF Later
<1>4. Id(a, "timed") \in PromiseIds /\ Id(a, "reply") \in PromiseIds
  BY Neighbours DEF Names
<1>. QED
  BY <1>1, <1>2, <1>3, <1>4 DEF Reported

\* A step that settles nothing and makes no promise of the chain.
LEMMA CarriedKept ==
    ASSUME NEW e, NEW f, NEW a \in Within, Carried(e, a),
           \A n \in {"reply", "timed", "mapped", "result", "again"} :
              f.status[Id(a, n)] = e.status[Id(a, n)] /\ f.value[Id(a, n)] = e.value[Id(a, n)],
           a[2] = 1 => /\ f.status[UserOf(a[1])] = e.status[UserOf(a[1])]
                       /\ f.value[UserOf(a[1])] = e.value[UserOf(a[1])],
           a[2] <= MaxRetries => /\ f.status[Result(NextAttempt(a))] = e.status[Result(NextAttempt(a))]
                                 /\ f.value[Result(NextAttempt(a))] = e.value[Result(NextAttempt(a))],
           \A ex \in Values : AgainJob(a, ex) \in Held(f) => AgainJob(a, ex) \in Held(e)
    PROVE  Carried(f, a)
<1>1. Out(f, a) = Out(e, a) /\ f.status[Out(e, a)] = e.status[Out(e, a)] /\ f.value[Out(e, a)] = e.value[Out(e, a)]
  BY DEF Out, Made
<1>2. Nested(f, a) <=> Nested(e, a)
  BY DEF Nested, Made
<1>3. a[2] <= MaxRetries \/ ~Nested(e, a)
  BY DEF Nested
<1>4. /\ f.status[Result(a)] = e.status[Result(a)] /\ f.value[Result(a)] = e.value[Result(a)]
      /\ f.status[Id(a, "again")] = e.status[Id(a, "again")] /\ f.value[Id(a, "again")] = e.value[Id(a, "again")]
  BY DEF Result
<1>. DEFINE S == Result(a)
            G == Id(a, "again")
            o == Out(e, a)
            N == Result(NextAttempt(a))
            U == UserOf(a[1])
<1>5. /\ IsSettled(f, S) /\ Made(f, G) => Like(f, S, G)
      /\ IsSettled(f, S) /\ ~Made(f, G) => Like(f, S, o)
      /\ IsSettled(f, G) /\ Nested(f, a) => Like(f, G, N)
      /\ IsSettled(f, G) /\ ~Nested(f, a) => IsRejected(f, G) /\ f.value[G] = f.value[o]
      /\ Made(f, G) => IsRejected(f, o) /\ f.value[o] \in Retryable
  <2>. HIDE DEF S, G, o, N
  <2>1. /\ IsSettled(e, S) /\ Made(e, G) => Like(e, S, G)
        /\ IsSettled(e, S) /\ ~Made(e, G) => Like(e, S, o)
        /\ IsSettled(e, G) /\ Nested(e, a) => Like(e, G, N)
        /\ IsSettled(e, G) /\ ~Nested(e, a) => IsRejected(e, G) /\ e.value[G] = e.value[o]
        /\ Made(e, G) => IsRejected(e, o) /\ e.value[o] \in Retryable
    BY DEF Carried, S, G, o, N
  <2>2. /\ f.status[S] = e.status[S] /\ f.value[S] = e.value[S]
        /\ f.status[G] = e.status[G] /\ f.value[G] = e.value[G]
        /\ f.status[o] = e.status[o] /\ f.value[o] = e.value[o]
        /\ Nested(e, a) => f.status[N] = e.status[N] /\ f.value[N] = e.value[N]
    BY <1>1, <1>3, <1>4 DEF S, G, o, N
  <2>. QED
    BY <1>2, <2>1, <2>2 DEF Like, Made, IsSettled, IsFulfilled, IsRejected
<1>6. /\ \A ex \in Values : AgainJob(a, ex) \in Held(f) => ex = f.value[o]
      /\ \A n \in {"reply", "timed", "mapped"} :
              IsFulfilled(f, Id(a, n)) <=> f.value[Id(a, n)] = "data"
  BY <1>1 DEF Carried, IsFulfilled
<1>7. a[2] = 1 /\ IsSettled(f, U) =>
              /\ IsSettled(f, S)
              /\ IsFulfilled(f, S) => f.value[U] \in {"decoded", "serialization"}
              /\ ~IsFulfilled(f, S) => f.value[U] = f.value[S]
  <2>. HIDE DEF S
  <2>. QED
    BY <1>4 DEF Carried, IsSettled, IsFulfilled, IsRejected, S
<1>. QED
  BY <1>1, <1>5, <1>6, <1>7 DEF Carried

\* What a promise that is settled must come to, for the chain to carry it.
Due(e, p, ok, v) ==
    LET a == AttemptOf(p)
        G == Id(a, "again")
        S == <<p[1], 1, "result">>
    IN  /\ p[3] \in {"reply", "timed", "mapped"} => (ok <=> v = "data")
        /\ p[3] = "result" /\ Made(e, G) =>
              IsSettled(e, G) /\ v = e.value[G] /\ (ok <=> IsFulfilled(e, G))
        /\ p[3] = "result" /\ ~Made(e, G) =>
              IsSettled(e, Out(e, a)) /\ v = e.value[Out(e, a)] /\ (ok <=> IsFulfilled(e, Out(e, a)))
        /\ p[3] = "again" /\ Nested(e, a) =>
              LET N == Result(NextAttempt(a)) IN
              IsSettled(e, N) /\ v = e.value[N] /\ (ok <=> IsFulfilled(e, N))
        /\ p[3] = "again" /\ ~Nested(e, a) => ~ok /\ v = e.value[Out(e, a)]
        /\ p[3] = "user" => /\ IsSettled(e, S)
                            /\ IsFulfilled(e, S) => v \in {"decoded", "serialization"}
                            /\ ~IsFulfilled(e, S) => v = e.value[S]

\* A step that settles one promise, with what is due.
LEMMA SettleCarried ==
    ASSUME NEW e, NEW X, NEW Y, Wired(e, X, Y), NEW p \in PromiseIds, IsPending(e, p),
           NEW ok \in BOOLEAN, NEW v, NEW f \in Engines, Later(e, f), Due(e, p, ok, v),
           f.status[p] = (IF ok THEN "fulfilled" ELSE "rejected"), f.value[p] = v,
           \A q \in PromiseIds : q # p => f.status[q] = e.status[q] /\ f.value[q] = e.value[q],
           NEW a \in Within, Carried(e, a)
    PROVE  Carried(f, a)
<1>. DEFINE S == Result(a)
            G == Id(a, "again")
            o == Out(e, a)
            N == Result(NextAttempt(a))
            U == UserOf(a[1])
<1>1. /\ S \in PromiseIds /\ G \in PromiseIds /\ o \in PromiseIds /\ N \in PromiseIds /\ U \in PromiseIds
      /\ S[3] = "result" /\ G[3] = "again" /\ N[3] = "result" /\ U[3] = "user"
      /\ AttemptOf(S) = a /\ AttemptOf(G) = a /\ S # N
      /\ S # G /\ S # U /\ G # U /\ G # N /\ U # N
      /\ \A n \in {"reply", "timed", "mapped"} :
            Id(a, n) \in PromiseIds /\ Id(a, n)[3] = n /\ AttemptOf(Id(a, n)) = a
  <2>1. /\ S \in PromiseIds /\ G \in PromiseIds /\ o \in PromiseIds /\ N \in PromiseIds /\ U \in PromiseIds
        /\ S[3] = "result" /\ G[3] = "again" /\ N[3] = "result" /\ U[3] = "user" /\ S # N
    BY Neighbours DEF Names
  <2>2. \A n \in Names : Id(a, n) \in PromiseIds /\ Id(a, n)[3] = n /\ AttemptOf(Id(a, n)) = a
    BY IdGood
  <2>. QED
    BY <2>1, <2>2 DEF Result, Names
<1>2. /\ Out(f, a) = o /\ (Nested(f, a) <=> Nested(e, a)) /\ (Made(f, G) <=> Made(e, G))
  BY <1>1 DEF Out, Nested, Later, Names, PromiseIds
<1>3. \A q \in PromiseIds : IsSettled(e, q) => q # p /\ f.status[q] = e.status[q] /\ f.value[q] = e.value[q]
  BY DEF IsSettled, IsFulfilled, IsRejected, IsPending
<1>4. IsSettled(f, p) /\ (IsFulfilled(f, p) <=> ok) /\ (IsRejected(f, p) <=> ~ok)
  BY DEF IsSettled, IsFulfilled, IsRejected
<1>5. \A q \in PromiseIds : IsSettled(f, q) => q = p \/ IsSettled(e, q)
  BY DEF IsSettled, IsFulfilled, IsRejected
<1>6. p[3] = "again" /\ p = G /\ Nested(e, a) => IsSettled(e, N) /\ v = e.value[N] /\ (ok <=> IsFulfilled(e, N))
  BY <1>1 DEF Due
<1>7. p = G /\ ~Nested(e, a) => ~ok /\ v = e.value[o]
  BY <1>1 DEF Due
<1>8. /\ p = S /\ Made(e, G) => IsSettled(e, G) /\ v = e.value[G] /\ (ok <=> IsFulfilled(e, G))
      /\ p = S /\ ~Made(e, G) => IsSettled(e, o) /\ v = e.value[o] /\ (ok <=> IsFulfilled(e, o))
  BY <1>1 DEF Due
<1>9. p = U /\ a[2] = 1 => /\ IsSettled(e, S)
                           /\ IsFulfilled(e, S) => v \in {"decoded", "serialization"}
                           /\ ~IsFulfilled(e, S) => v = e.value[S]
  <2>1. a[2] = 1 => S = <<U[1], 1, "result">>
    BY UserGood DEF Within, Result, Id, UserOf
  <2>. QED
    BY <1>1, <2>1 DEF Due
<1>10. \A n \in {"reply", "timed", "mapped"} : p = Id(a, n) => (ok <=> v = "data")
  BY <1>1 DEF Due
<1>11. /\ IsSettled(e, S) /\ Made(e, G) => Like(e, S, G)
       /\ IsSettled(e, S) /\ ~Made(e, G) => Like(e, S, o)
       /\ IsSettled(e, G) /\ Nested(e, a) => Like(e, G, N)
       /\ IsSettled(e, G) /\ ~Nested(e, a) => IsRejected(e, G) /\ e.value[G] = e.value[o]
       /\ Made(e, G) => IsRejected(e, o) /\ e.value[o] \in Retryable
       /\ \A ex \in Values : AgainJob(a, ex) \in Held(e) => ex = e.value[o]
       /\ \A n \in {"reply", "timed", "mapped"} :
             IsFulfilled(e, Id(a, n)) <=> e.value[Id(a, n)] = "data"
       /\ a[2] = 1 /\ IsSettled(e, U) =>
             /\ IsSettled(e, S)
             /\ IsFulfilled(e, S) => e.value[U] \in {"decoded", "serialization"}
             /\ ~IsFulfilled(e, S) => e.value[U] = e.value[S]
  BY DEF Carried
<1>. HIDE DEF S, G, o, N, U
<1>12. Made(e, G) => o # p
  BY <1>1, <1>3, <1>11 DEF IsSettled
<1>13. IsSettled(f, S) /\ Made(f, G) => Like(f, S, G)
  BY <1>1, <1>2, <1>3, <1>4, <1>5, <1>8, <1>11 DEF Like, IsSettled, IsFulfilled, IsRejected
<1>14. IsSettled(f, S) /\ ~Made(f, G) => Like(f, S, o)
  BY <1>1, <1>2, <1>3, <1>4, <1>5, <1>8, <1>11 DEF Like, IsSettled, IsFulfilled, IsRejected
<1>15. IsSettled(f, G) /\ Nested(f, a) => Like(f, G, N)
  BY <1>1, <1>2, <1>3, <1>4, <1>5, <1>6, <1>11 DEF Like, IsSettled, IsFulfilled, IsRejected
<1>16. IsSettled(f, G) /\ ~Nested(f, a) => IsRejected(f, G) /\ f.value[G] = f.value[o]
  <2>1. IsSettled(f, G) => Made(e, G)
    BY <1>1, <1>2 DEF IsSettled, IsFulfilled, IsRejected, Made
  <2>2. Made(e, G) => f.value[o] = e.value[o]
    BY <1>1, <1>12
  <2>. QED
    BY <1>1, <1>2, <1>3, <1>4, <1>5, <1>7, <1>11, <2>1, <2>2 DEF IsRejected
<1>17. Made(f, G) => IsRejected(f, o) /\ f.value[o] \in Retryable
  BY <1>1, <1>2, <1>11, <1>12 DEF IsRejected
<1>18. \A ex \in Values : AgainJob(a, ex) \in Held(f) => ex = f.value[o]
  <2>1. SUFFICES ASSUME NEW ex \in Values, AgainJob(a, ex) \in Held(f) PROVE ex = f.value[o]
    OBVIOUS
  <2>2. AgainJob(a, ex).next = G /\ AgainJob(a, ex).kind = "again" /\ AgainJob(a, ex) \in GoodJobs
    <3>1. \A j \in Held(f) : j \in GoodJobs
      BY Parts DEF Later
    <3>2. AgainJob(a, ex).next = G /\ AgainJob(a, ex).kind = "again"
      BY DEF AgainJob, Job, G
    <3>. QED
      BY <2>1, <3>1, <3>2
  <2>3. AgainJob(a, ex) \in Held(e) /\ AgainJob(a, ex) \in Settling
    BY <2>1, <2>2 DEF Later, Settling, Objectual
  <2>4. Made(e, G)
    BY <2>2, <2>3 DEF Wired, Aimed
  <2>. QED
    BY <1>1, <1>11, <1>12, <2>3, <2>4
<1>19. \A n \in {"reply", "timed", "mapped"} : IsFulfilled(f, Id(a, n)) <=> f.value[Id(a, n)] = "data"
  <2>1. SUFFICES ASSUME NEW n \in {"reply", "timed", "mapped"}
                 PROVE  IsFulfilled(f, Id(a, n)) <=> f.value[Id(a, n)] = "data"
    OBVIOUS
  <2>2. CASE p = Id(a, n)
    BY <1>4, <1>10, <2>2
  <2>3. CASE p # Id(a, n)
    BY <1>1, <1>11, <2>3 DEF IsFulfilled
  <2>. QED
    BY <2>2, <2>3
<1>20. a[2] = 1 /\ IsSettled(f, U) =>
          /\ IsSettled(f, S)
          /\ IsFulfilled(f, S) => f.value[U] \in {"decoded", "serialization"}
          /\ ~IsFulfilled(f, S) => f.value[U] = f.value[S]
  BY <1>1, <1>3, <1>4, <1>5, <1>9, <1>11 DEF IsSettled, IsFulfilled, IsRejected
<1>. QED
  BY <1>2, <1>13, <1>14, <1>15, <1>16, <1>17, <1>18, <1>19, <1>20 DEF Carried, S, G, o, N, U

---------------------------------------------------------------------------
(* The steps.                                                              *)

\* What one reaction makes of the engine: its closure is gone, and the promise
\* it settles is settled.
Handled(e, f, j, ok, v) ==
    /\ Wired(f, {}, {}) /\ Held(f) = Held(e) \ {j} /\ Later(e, f)
    /\ \A q \in PromiseIds : q # j.next => f.status[q] = e.status[q] /\ f.value[q] = e.value[q]
    /\ ~IsPending(f, j.next)
    /\ IsPending(e, j.next) => /\ f.status[j.next] = (IF ok THEN "fulfilled" ELSE "rejected")
                               /\ f.value[j.next] = v
    /\ ~IsPending(e, j.next) => f.status[j.next] = e.status[j.next] /\ f.value[j.next] = e.value[j.next]

\* Taking an event and settling its promise.
LEMMA HandledHolds ==
    ASSUME NEW e, Wired(e, {}, {}), e.posted # <<>>, Head(e.posted).job \in Settling,
           NEW ok \in BOOLEAN, NEW v \in Values
    PROVE  Handled(e, Settle(Popped(e), Head(e.posted).job.next, ok, v), Head(e.posted).job, ok, v)
<1>. DEFINE j == Head(e.posted).job
            p == j.next
            g == Popped(e)
            f == Settle(g, p, ok, v)
            Y == {p}
<1>1. /\ j \in GoodJobs /\ j \in Held(e) /\ Held(g) = Held(e) \ {j} /\ j \in Settling
      /\ g.status = e.status /\ g.value = e.value /\ Wired(g, {}, Y)
  <2>1. j \in Settling
    OBVIOUS
  <2>. QED
    BY <2>1, PopWired
<1>2. p \in PromiseIds /\ p \in Y
  BY <1>1, Anatomy
<1>. HIDE DEF j, g, f, Y, p
<1>3. Settles(g, Settle(g, p, ok, v), {}, Y, p, ok, v)
  BY <1>1, <1>2, SettleWired
<1>4. Y \ {p} = {}
  BY DEF Y
<1>5. /\ Wired(f, {}, {}) /\ Held(f) = Held(e) \ {j}
      /\ \A q \in PromiseIds : q # p => f.status[q] = e.status[q] /\ f.value[q] = e.value[q]
      /\ \A q \in PromiseIds : Made(f, q) <=> Made(e, q)
      /\ ~IsPending(f, p)
      /\ IsPending(e, p) => f.status[p] = (IF ok THEN "fulfilled" ELSE "rejected") /\ f.value[p] = v
      /\ ~IsPending(e, p) => f.status[p] = e.status[p] /\ f.value[p] = e.value[p]
  BY <1>1, <1>3, <1>4 DEF Settles, f, Made, IsPending
<1>6. Later(e, f)
  BY <1>5 DEF Later, IsSettled, IsFulfilled, IsRejected, IsPending
<1>7. Handled(e, f, j, ok, v)
  BY <1>5, <1>6 DEF Handled, p
<1>. QED
  BY <1>7 DEF f, g, p, j

\* The event at the head carries what its speaker came to.
LEMMA HeadSpeaks ==
    ASSUME NEW e, Wired(e, {}, {}), e.posted # <<>>, Head(e.posted).job \in Reactions
    PROVE  LET h == Head(e.posted)
               p == Speaker(e, h.job)
           IN  /\ p \in PromiseIds /\ IsSettled(e, p) /\ h.val = e.value[p]
               /\ h.ok \in BOOLEAN /\ h.val \in Values
               /\ h.ok <=> IsFulfilled(e, p)
               /\ h.job \in Held(e) /\ Made(e, h.job.next)
               /\ h.job.next[3] # "timed" => IsPending(e, h.job.next)
<1>. DEFINE h == Head(e.posted)
            p == Speaker(e, h.job)
<1>1. e.posted \in Seq(EventType(GoodJobs, Values)) /\ Once(e.posted)
  BY Parts DEF Wired
<1>2. h \in Events(e.posted)
  BY <1>1, Taken
<1>3. h.job \in Held(e) /\ h.ok \in BOOLEAN /\ h.val \in Values
  BY PopWired
<1>4. h.job \in Reactions /\ h.job \in Settling
  BY DEF Reactions, Settling
<1>. HIDE DEF h
<1>5. p \in PromiseIds \ {} /\ IsSettled(e, p) /\ h.ok = IsFulfilled(e, p) /\ h.val = e.value[p]
  BY <1>2, <1>4 DEF Wired, Outspoken
<1>6. Made(e, h.job.next) /\ (h.job.next[3] # "timed" => IsPending(e, h.job.next))
  BY <1>3, <1>4 DEF Wired, Aimed
<1>. QED
  BY <1>3, <1>5, <1>6 DEF h

\* When the report of an attempt is next, nothing of the attempt is left: what
\* deletes it was posted before.
LEMMA NothingLeft ==
    ASSUME IInv, loop.posted # <<>>, NEW a \in Within, Head(loop.posted).job = RetryJob(a)
    PROVE  /\ IsSettled(loop, Out(loop, a))
           /\ reply[a] \in {"none", "destroyed"} /\ parts[a] \in {"none", "freed"}
<1>1. /\ Wired(loop, {}, {}) /\ Reclaimed(loop, reply, once, parts, clientAlive, a)
      /\ Reported(loop, reply, parts, a) /\ QuietAfterDestroy /\ a \in Attempts
      /\ reply[a] \in {"none", "running", "finished", "destroyed"}
      /\ parts[a] \in {"none", "owned", "orphan", "freed"}
      /\ clientAlive \in BOOLEAN
  BY IdGood DEF IInv, Sound, Names
<1>2. RetryJob(a) \in Reactions /\ RetryJob(a).next = Result(a) /\ RetryJob(a).kind = "retry"
      /\ AttemptOf(Result(a)) = a
  BY JobsGood, IdGood DEF RetryJob, Job, Result, Names
<1>3. Speaker(loop, RetryJob(a)) = Out(loop, a)
  BY <1>2 DEF Speaker
<1>4. IsSettled(loop, Out(loop, a))
  BY <1>1, <1>2, <1>3, HeadSpeaks
<1>5. \A kind \in Objectual : ObjectJob(kind, a) \notin Held(loop)
  <2>1. SUFFICES ASSUME NEW kind \in Objectual, ObjectJob(kind, a) \in Held(loop) PROVE FALSE
    OBVIOUS
  <2>2. ObjectJob(kind, a).kind = kind /\ AttemptOf(ObjectJob(kind, a).next) = a
    BY IdGood DEF ObjectJob, Plain, Job, Names
  <2>3. ObjectJob(kind, a) \in Queued(loop)
    <3>1. ASSUME NEW p \in PromiseIds, loop.waiting[p] = <<ObjectJob(kind, a)>> PROVE FALSE
      <4>1. ObjectJob(kind, a) \in Reactions
        BY <1>1, <3>1, WaitsOrQueued
      <4>. QED
        BY <2>2, <4>1 DEF Reactions
    <3>. QED
      BY <2>1, <3>1 DEF Held
  <2>4. PICK n \in DOMAIN loop.posted : loop.posted[n].job = ObjectJob(kind, a)
    BY <2>3 DEF Queued, Events
  <2>5. Head(loop.posted).job # RetryJob(AttemptOf(loop.posted[n].job.next))
    <3>1. \A m \in DOMAIN loop.posted : loop.posted[m].job.kind \in Objectual =>
             Head(loop.posted).job # RetryJob(AttemptOf(loop.posted[m].job.next))
      BY <1>1, PopWired
    <3>2. loop.posted[n].job.kind \in Objectual
      BY <2>2, <2>4
    <3>. QED
      BY <3>1, <3>2
  <2>. QED
    BY <2>2, <2>4, <2>5
<1>6. reply[a] # "running"
  BY <1>1, <1>4 DEF Reported
<1>7. reply[a] \in {"none", "destroyed"}
  <2>1. CASE clientAlive
    BY <1>1, <1>5, <1>6, <2>1 DEF Reclaimed, Objectual
  <2>2. CASE ~clientAlive
    BY <1>1, <2>2 DEF QuietAfterDestroy
  <2>. QED
    BY <2>1, <2>2
<1>8. parts[a] \in {"none", "freed"}
  BY <1>1, <1>5, <1>7 DEF Reclaimed, Objectual
<1>. QED
  BY <1>4, <1>7, <1>8

\* A reaction that only settles its promise.
LEMMA ReactionStep ==
    ASSUME IInv, loop.posted # <<>>, NEW j \in Reactions, Head(loop.posted).job = j,
           NEW ok \in BOOLEAN, NEW v \in Values,
           loop' = Settle(Popped(loop), j.next, ok, v), UNCHANGED Objects,
           IsPending(loop, j.next) => Due(loop, j.next, ok, v),
           j.kind = "abort" => reply[AttemptOf(j.next)] # "running"
    PROVE  IInv'
<1>. DEFINE p == j.next
            f == loop'
<1>1. /\ Wired(loop, {}, {}) /\ loop \in Engines
      /\ reply' = reply /\ once' = once /\ timer' = timer /\ delay' = delay /\ parts' = parts
      /\ clientAlive' = clientAlive /\ retryAlive' = retryAlive
  BY DEF IInv, Sound, Objects, Wired
<1>2. j \in GoodJobs /\ j \in Settling /\ j.kind \notin Objectual /\ j.kind # "arm" /\ p \in PromiseIds
      /\ j.kind \in Kinds
  BY Anatomy DEF Reactions, Settling
<1>3. Handled(loop, loop', j, ok, v)
  BY <1>1, <1>2, HandledHolds
<1>4. /\ Wired(f, {}, {}) /\ Held(f) = Held(loop) \ {j} /\ Later(loop, f)
      /\ \A q \in PromiseIds : q # p => f.status[q] = loop.status[q] /\ f.value[q] = loop.value[q]
      /\ ~IsPending(f, p)
      /\ IsPending(loop, p) => f.status[p] = (IF ok THEN "fulfilled" ELSE "rejected") /\ f.value[p] = v
      /\ ~IsPending(loop, p) => f.status[p] = loop.status[p] /\ f.value[p] = loop.value[p]
  BY <1>3 DEF Handled
<1>5. p[3] \notin {"reply", "tick"}
  <2>1. \A a, n : Id(a, n)[3] = n
    BY DEF Id
  <2>2. CASE j.kind = "pass"
    <3>1. PICK n \in {"timed", "result", "tap", "again"} : p = Id(AttemptOf(p), n)
      BY <1>2, <2>2, Anatomy
    <3>. QED
      BY <2>1, <3>1
  <2>3. CASE j.kind = "decode"
    BY <1>2, <2>3, Anatomy, UserGood
  <2>4. CASE j.kind \in {"abort", "retry", "elapsed", "again"}
    <3>1. PICK n \in {"mapped", "result", "delayed", "again"} : p = Id(AttemptOf(p), n)
      BY <1>2, <2>4, Anatomy
    <3>. QED
      BY <2>1, <3>1
  <2>. QED
    BY <1>2, <2>2, <2>3, <2>4 DEF Kinds, Objectual
<1>6. Sound'
  BY <1>1, <1>4 DEF IInv, Sound, QuietAfterDestroy
<1>7. SUFFICES ASSUME NEW a \in Within
               PROVE  /\ Created(f, reply', timer', delay', a)
                      /\ Reclaimed(f, reply', once', parts', clientAlive', a)
                      /\ Reported(f, reply', parts', a)
                      /\ Carried(f, a)
  BY <1>6 DEF IInv
<1>8. /\ Created(loop, reply, timer, delay, a)
      /\ Reclaimed(loop, reply, once, parts, clientAlive, a)
      /\ Reported(loop, reply, parts, a)
      /\ Carried(loop, a)
  BY DEF IInv
<1>9. \A n \in Names : Id(a, n) \in PromiseIds /\ Id(a, n)[3] = n /\ AttemptOf(Id(a, n)) = a
  BY IdGood
<1>. HIDE DEF f, p
<1>10. Created(f, reply', timer', delay', a)
  <2>1. \A n \in Names : IsPending(f, Id(a, n)) => IsPending(loop, Id(a, n))
    BY <1>4, <1>9 DEF IsPending
  <2>2. /\ IsPending(f, Id(a, "tick")) => delay'[a] = "armed"
        /\ IsPending(f, Id(a, "timed")) => timer'[a] = "armed"
    BY <1>1, <1>8, <2>1 DEF Created, Names
  <2>. QED
    BY <1>1, <1>4, <1>8, <2>2, CreatedKept
<1>11. Reclaimed(f, reply', once', parts', clientAlive', a)
  <2>1. f.status[Id(a, "reply")] = loop.status[Id(a, "reply")]
    BY <1>4, <1>5, <1>9 DEF Names
  <2>2. \A kind \in Objectual : ObjectJob(kind, a) \in Held(f) <=> ObjectJob(kind, a) \in Held(loop)
    <3>1. \A kind \in Objectual : ObjectJob(kind, a) # j
      BY <1>2 DEF ObjectJob, Plain, Job
    <3>. QED
      BY <1>4, <3>1
  <2>. QED
    BY <1>1, <1>8, <2>1, <2>2, ReclaimedKept
<1>12. Reported(f, reply', parts', a)
  <2>1. IsSettled(f, Id(a, "timed")) =>
           IsSettled(loop, Id(a, "timed")) \/ f.value[Id(a, "timed")] = TimeoutException
           \/ IsSettled(f, Id(a, "reply"))
    <3>1. CASE p = Id(a, "timed")
      <4>1. j.kind = "pass" /\ j = Pass(p)
        <5>1. p[3] = "timed" /\ \A b, n : Id(b, n)[3] = n
          BY <1>9, <3>1 DEF Names, Id
        <5>2. j.kind = "decode" => p[3] = "user"
          BY <1>2, Anatomy, UserGood DEF p
        <5>3. j.kind \notin {"decode", "abort", "retry", "elapsed", "again"}
          <6>1. j.kind = "abort" => p = Id(AttemptOf(p), "mapped")
            BY <1>2, Anatomy DEF p
          <6>2. j.kind = "retry" => p = Id(AttemptOf(p), "result")
            BY <1>2, Anatomy DEF p
          <6>3. j.kind = "elapsed" => p = Id(AttemptOf(p), "delayed")
            BY <1>2, Anatomy DEF p
          <6>4. j.kind = "again" => p = Id(AttemptOf(p), "again")
            BY <1>2, Anatomy DEF p
          <6>. QED
            BY <5>1, <5>2, <6>1, <6>2, <6>3, <6>4
        <5>4. j.kind = "pass"
          BY <1>2, <5>3 DEF Kinds, Objectual
        <5>. QED
          BY <1>2, <5>4, Anatomy DEF p
      <4>2. Speaker(loop, j) = Id(a, "reply")
        BY <1>9, <3>1, <4>1 DEF Speaker, SpeakerName, Names, p
      <4>3. IsSettled(loop, Id(a, "reply"))
        BY <1>1, <4>2, HeadSpeaks
      <4>. QED
        BY <1>4, <1>9, <4>3 DEF Later, IsSettled, IsFulfilled, IsRejected, Names
    <3>2. CASE p # Id(a, "timed")
      BY <1>4, <1>9, <3>2 DEF IsSettled, IsFulfilled, IsRejected, Names
    <3>. QED
      BY <3>1, <3>2
  <2>2. IsSettled(f, Out(f, a)) => reply'[a] # "running"
    <3>1. Out(f, a) = Out(loop, a) /\ Out(loop, a) \in {Id(a, "reply"), Id(a, "mapped")}
          /\ Out(loop, a) \in PromiseIds
      BY <1>4, <1>9, Neighbours DEF Out, Later, Names
    <3>2. CASE Out(loop, a) # p
      BY <1>1, <1>4, <1>8, <3>1, <3>2 DEF Reported, IsSettled, IsFulfilled, IsRejected
    <3>3. CASE Out(loop, a) = p
      <4>1. p = Id(a, "mapped")
        BY <1>5, <1>9, <3>1, <3>3 DEF Names
      <4>2. j.kind = "abort"
        <5>1. p[3] = "mapped" /\ \A b, n : Id(b, n)[3] = n
          BY <1>9, <4>1 DEF Names, Id
        <5>2. j.kind = "decode" => p[3] = "user"
          BY <1>2, Anatomy, UserGood DEF p
        <5>3. j.kind = "retry" => p = Id(AttemptOf(p), "result")
          BY <1>2, Anatomy DEF p
        <5>4. j.kind = "elapsed" => p = Id(AttemptOf(p), "delayed")
          BY <1>2, Anatomy DEF p
        <5>5. j.kind = "again" => p = Id(AttemptOf(p), "again")
          BY <1>2, Anatomy DEF p
        <5>6. j.kind # "pass"
          <6>1. SUFFICES ASSUME j.kind = "pass" PROVE FALSE
            OBVIOUS
          <6>2. PICK n \in {"timed", "result", "tap", "again"} : p = Id(AttemptOf(p), n)
            BY <1>2, <6>1, Anatomy DEF p
          <6>. QED
            BY <5>1, <6>2
        <5>. QED
          BY <1>2, <5>1, <5>2, <5>3, <5>4, <5>5, <5>6 DEF Kinds, Objectual
      <4>3. AttemptOf(p) = a
        BY <1>9, <4>1 DEF Names
      <4>. QED
        BY <1>1, <4>2, <4>3 DEF p
    <3>. QED
      BY <3>2, <3>3
  <2>3. RetryJob(a) \in Held(loop) /\ RetryJob(a) \notin Held(f) =>
           /\ IsSettled(f, Out(f, a))
           /\ reply'[a] \in {"none", "destroyed"} /\ parts'[a] \in {"none", "freed"}
    <3>1. SUFFICES ASSUME j = RetryJob(a)
                   PROVE  /\ IsSettled(f, Out(f, a))
                          /\ reply'[a] \in {"none", "destroyed"} /\ parts'[a] \in {"none", "freed"}
      BY <1>4
    <3>2. IsSettled(loop, Out(loop, a)) /\ reply[a] \in {"none", "destroyed"} /\ parts[a] \in {"none", "freed"}
      BY <3>1, NothingLeft
    <3>3. Out(f, a) = Out(loop, a) /\ Out(loop, a) \in PromiseIds
      BY <1>4, <1>9, Neighbours DEF Out, Later, Names
    <3>. QED
      BY <1>1, <1>4, <3>2, <3>3 DEF Later, IsSettled, IsFulfilled, IsRejected
  <2>4. /\ reply[a] \in {"none", "destroyed"} => reply'[a] \in {"none", "destroyed"}
        /\ parts[a] \in {"none", "freed"} => parts'[a] \in {"none", "freed"}
    BY <1>1
  <2>. QED
    BY <1>4, <1>8, <2>1, <2>2, <2>3, <2>4, ReportedKept
<1>13. Carried(f, a)
  <2>1. CASE IsPending(loop, p)
    <3>1. Due(loop, p, ok, v)
      BY <2>1 DEF p
    <3>2. f \in Engines
      BY <1>4 DEF Wired
    <3>. QED
      BY <1>1, <1>2, <1>4, <1>8, <2>1, <3>1, <3>2, SettleCarried DEF p
  <2>2. CASE ~IsPending(loop, p)
    <3>1. \A q \in PromiseIds : f.status[q] = loop.status[q] /\ f.value[q] = loop.value[q]
      BY <1>4, <2>2
    <3>2. \A ex \in Values : AgainJob(a, ex) \in Held(f) => AgainJob(a, ex) \in Held(loop)
      BY <1>4
    <3>3. /\ \A n \in {"reply", "timed", "mapped", "result", "again"} :
                f.status[Id(a, n)] = loop.status[Id(a, n)] /\ f.value[Id(a, n)] = loop.value[Id(a, n)]
          /\ f.status[UserOf(a[1])] = loop.status[UserOf(a[1])]
          /\ f.value[UserOf(a[1])] = loop.value[UserOf(a[1])]
          /\ f.status[Result(NextAttempt(a))] = loop.status[Result(NextAttempt(a))]
          /\ f.value[Result(NextAttempt(a))] = loop.value[Result(NextAttempt(a))]
      BY <1>9, <3>1, Neighbours DEF Names
    <3>. QED
      BY <1>8, <3>2, <3>3, CarriedKept
  <2>. QED
    BY <2>1, <2>2
<1>. QED
  BY <1>10, <1>11, <1>12, <1>13 DEF f

\* What a reaction that hands its outcome on settles, with what is due.
LEMMA HandedOn ==
    ASSUME IInv, loop.posted # <<>>, Current.job.kind \in {"pass", "abort", "retry", "decode"},
           Current.job.kind = "decode" => ~Current.ok
    PROVE  Due(loop, Target, Current.ok, Current.val)
<1>. DEFINE j == Current.job
            a == AttemptOf(j.next)
<1>1. Wired(loop, {}, {})
  BY DEF IInv, Sound
<1>2. j \in GoodJobs
  BY <1>1, PopWired DEF Current
<1>3. j \in Reactions
  BY <1>2 DEF Reactions, Objectual
<1>4. LET h == Head(loop.posted)
          p == Speaker(loop, h.job)
      IN  /\ p \in PromiseIds /\ IsSettled(loop, p) /\ h.val = loop.value[p]
          /\ h.ok \in BOOLEAN /\ h.val \in Values
          /\ h.ok <=> IsFulfilled(loop, p)
          /\ h.job \in Held(loop) /\ Made(loop, h.job.next)
          /\ h.job.next[3] # "timed" => IsPending(loop, h.job.next)
  BY <1>1, <1>3, HeadSpeaks DEF Current
<1>5. /\ IsSettled(loop, Speaker(loop, j)) /\ Current.val = loop.value[Speaker(loop, j)]
      /\ Current.ok <=> IsFulfilled(loop, Speaker(loop, j))
      /\ j \in Held(loop)
  BY <1>4 DEF Current
<1>6. CASE j.kind = "decode"
  <2>1. j.next = UserOf(j.next[1]) /\ j.next[1] \in Requests
    BY <1>2, <1>6, Anatomy
  <2>2. j.next[3] = "user"
    BY <2>1, UserGood
  <2>3. Speaker(loop, j) = <<j.next[1], 1, "result">>
    BY <1>6 DEF Speaker
  <2>. QED
    BY <1>5, <1>6, <2>2, <2>3 DEF Due, Target
<1>7. ASSUME j.kind # "decode"
      PROVE  /\ a \in Within /\ \A n \in Names : Id(a, n)[3] = n /\ AttemptOf(Id(a, n)) = a
             /\ Created(loop, reply, timer, delay, a) /\ Carried(loop, a)
  <2>1. a \in Within
    BY <1>2, <1>7, Anatomy
  <2>. QED
    BY <2>1, IdGood DEF IInv
<1>8. CASE j.kind = "abort"
  <2>1. j.next = Id(a, "mapped") /\ j.next[3] = "mapped"
    BY <1>2, <1>7, <1>8, Anatomy DEF Names
  <2>2. Speaker(loop, j) = Id(a, "timed")
    BY <1>8 DEF Speaker, SpeakerName
  <2>3. IsFulfilled(loop, Id(a, "timed")) <=> loop.value[Id(a, "timed")] = "data"
    BY <1>7, <1>8 DEF Carried
  <2>. QED
    BY <1>5, <2>1, <2>2, <2>3 DEF Due, Target
<1>9. CASE j.kind = "retry"
  <2>1. j.next = Id(a, "result") /\ j.next[3] = "result" /\ j = RetryJob(a)
    BY <1>2, <1>7, <1>9, Anatomy DEF Names
  <2>2. Speaker(loop, j) = Out(loop, a)
    BY <1>9 DEF Speaker
  <2>3. ~Made(loop, Id(a, "again"))
    BY <1>5, <1>7, <1>9, <2>1 DEF Created
  <2>. QED
    BY <1>5, <2>1, <2>2, <2>3 DEF Due, Target
<1>10. CASE j.kind = "pass"
  <2>1. /\ j.next \in {Id(a, n) : n \in {"timed", "result", "tap", "again"}}
        /\ j.next[3] = "again" => a[2] <= MaxRetries
    BY <1>2, <1>10, Anatomy
  <2>2. CASE j.next = Id(a, "timed")
    <3>1. j.next[3] = "timed" /\ Speaker(loop, j) = Id(a, "reply")
      BY <1>7, <1>10, <2>2 DEF Speaker, SpeakerName, Names
    <3>2. IsFulfilled(loop, Id(a, "reply")) <=> loop.value[Id(a, "reply")] = "data"
      BY <1>7, <1>10 DEF Carried
    <3>. QED
      BY <1>5, <3>1, <3>2 DEF Due, Target
  <2>3. CASE j.next = Id(a, "result")
    <3>1. j.next[3] = "result" /\ Speaker(loop, j) = Id(a, "again")
      BY <1>7, <1>10, <2>3 DEF Speaker, SpeakerName, Names
    <3>2. Made(loop, Id(a, "again"))
      BY <1>5, <3>1 DEF Made, IsSettled, IsFulfilled, IsRejected
    <3>. QED
      BY <1>5, <3>1, <3>2 DEF Due, Target
  <2>4. CASE j.next = Id(a, "tap")
    <3>1. j.next[3] = "tap"
      BY <1>7, <1>10, <2>4 DEF Names
    <3>. QED
      BY <3>1 DEF Due, Target
  <2>5. CASE j.next = Id(a, "again")
    <3>1. j.next[3] = "again"
      BY <1>7, <1>10, <2>5 DEF Names
    <3>2. Speaker(loop, j) = Result(NextAttempt(a))
      BY <1>10, <3>1 DEF Speaker, Result, NextAttempt, AttemptOf, Id
    <3>3. Nested(loop, a)
      BY <1>5, <2>1, <3>1, <3>2 DEF Nested, Made, IsSettled, IsFulfilled, IsRejected
    <3>. QED
      BY <1>5, <3>1, <3>2, <3>3 DEF Due, Target
  <2>. QED
    BY <2>1, <2>2, <2>3, <2>4, <2>5
<1>. QED
  BY <1>6, <1>8, <1>9, <1>10

\* A null handler, or a catcher of another type: the outcome is handed on.
LEMMA ForwardStep ==
    ASSUME IInv, Forward
    PROVE  IInv'
<1>. DEFINE j == Current.job
<1>1. /\ loop.posted # <<>> /\ j.kind \in {"pass", "abort", "retry", "decode"}
      /\ j.kind = "decode" => ~Current.ok
      /\ j.kind = "abort" => Current.val # TimeoutException
      /\ loop' = Settle(Popped(loop), j.next, Current.ok, Current.val) /\ UNCHANGED Objects
  BY DEF Forward, PassesOn, Delivers, Current, Target, Rest
<1>2. Wired(loop, {}, {})
  BY DEF IInv, Sound
<1>3. j \in GoodJobs /\ Current.ok \in BOOLEAN /\ Current.val \in Values
  BY <1>1, <1>2, PopWired DEF Current
<1>4. j \in Reactions
  BY <1>1, <1>3 DEF Reactions, Objectual
<1>5. Due(loop, j.next, Current.ok, Current.val)
  BY <1>1, HandedOn DEF Target
<1>6. j.kind = "abort" => reply[AttemptOf(j.next)] # "running"
  <2>1. SUFFICES ASSUME j.kind = "abort" PROVE reply[AttemptOf(j.next)] # "running"
    OBVIOUS
  <2>2. AttemptOf(j.next) \in Within
    BY <1>3, <2>1, Anatomy
  <2>3. Speaker(loop, j) = Id(AttemptOf(j.next), "timed")
    BY <2>1 DEF Speaker, SpeakerName
  <2>4. IsSettled(loop, Speaker(loop, j)) /\ Current.val = loop.value[Speaker(loop, j)]
    BY <1>1, <1>2, <1>4, HeadSpeaks DEF Current
  <2>5. /\ Reported(loop, reply, parts, AttemptOf(j.next))
        /\ Reclaimed(loop, reply, once, parts, clientAlive, AttemptOf(j.next))
    BY <2>2 DEF IInv
  <2>6. IsSettled(loop, Id(AttemptOf(j.next), "reply"))
    BY <1>1, <2>1, <2>3, <2>4, <2>5 DEF Reported
  <2>. QED
    BY <2>5, <2>6 DEF Reclaimed, Made, IsPending, IsSettled, IsFulfilled, IsRejected
<1>7. Head(loop.posted).job = j
  BY DEF Current
<1>. HIDE DEF j
<1>. QED
  BY <1>1, <1>3, <1>4, <1>5, <1>6, <1>7, ReactionStep

\* The retry's catcher gives up: the attempt's outcome is the request's.
LEMMA RetryRejectStep ==
    ASSUME IInv, RetryReject
    PROVE  IInv'
<1>. DEFINE j == Current.job
            no == FALSE
<1>1. /\ loop.posted # <<>> /\ j.kind = "retry" /\ ~Current.ok
      /\ loop' = Settle(Popped(loop), j.next, no, Current.val) /\ UNCHANGED Objects
  BY DEF RetryReject, Delivers, Current, Target, Rest
<1>2. Wired(loop, {}, {})
  BY DEF IInv, Sound
<1>3. j \in GoodJobs /\ Current.ok \in BOOLEAN /\ Current.val \in Values
  BY <1>1, <1>2, PopWired DEF Current
<1>4. j \in Reactions
  BY <1>1, <1>3 DEF Reactions, Objectual
<1>5. no \in BOOLEAN /\ Current.ok = no
  BY <1>1, <1>3
<1>6. Due(loop, j.next, Current.ok, Current.val)
  BY <1>1, HandedOn DEF Target
<1>7. Due(loop, j.next, no, Current.val)
  BY <1>5, <1>6
<1>8. Head(loop.posted).job = j /\ j.kind # "abort"
  BY <1>1 DEF Current
<1>. HIDE DEF j, no
<1>. QED
  BY <1>1, <1>3, <1>4, <1>5, <1>7, <1>8, ReactionStep

\* The tap's timer has gone off.
LEMMA ElapsedStep ==
    ASSUME IInv, Elapsed
    PROVE  IInv'
<1>. DEFINE j == Current.job
            yes == TRUE
            v == Nothing
<1>1. /\ loop.posted # <<>> /\ j.kind = "elapsed"
      /\ loop' = Settle(Popped(loop), j.next, yes, v) /\ UNCHANGED Objects
  BY DEF Elapsed, Delivers, Current, Target, Rest
<1>2. Wired(loop, {}, {})
  BY DEF IInv, Sound
<1>3. j \in GoodJobs
  BY <1>1, <1>2, PopWired DEF Current
<1>4. j \in Reactions
  BY <1>1, <1>3 DEF Reactions, Objectual
<1>5. yes \in BOOLEAN /\ v \in Values
  BY DEF Values
<1>6. Due(loop, j.next, yes, v)
  <2>1. j.next = Id(AttemptOf(j.next), "delayed")
    BY <1>1, <1>3, Anatomy
  <2>2. j.next[3] = "delayed"
    BY <2>1 DEF Id
  <2>. QED
    BY <2>2 DEF Due
<1>7. Head(loop.posted).job = j /\ j.kind # "abort"
  BY <1>1 DEF Current
<1>. HIDE DEF j, yes, v
<1>. QED
  BY <1>1, <1>4, <1>5, <1>6, <1>7, ReactionStep

\* The interceptor died during the delay.
LEMMA RetryAbandonStep ==
    ASSUME IInv, RetryAbandon
    PROVE  IInv'
<1>. DEFINE j == Current.job
            no == FALSE
            v == j.saved
            a == AttemptOf(j.next)
<1>1. /\ loop.posted # <<>> /\ j.kind = "again"
      /\ loop' = Settle(Popped(loop), j.next, no, v) /\ UNCHANGED Objects
  BY DEF RetryAbandon, Delivers, Current, Target, Rest
<1>2. Wired(loop, {}, {})
  BY DEF IInv, Sound
<1>3. j \in GoodJobs /\ j \in Held(loop)
  BY <1>1, <1>2, PopWired DEF Current
<1>4. j \in Reactions
  BY <1>1, <1>3 DEF Reactions, Objectual
<1>5. /\ v \in Values /\ j = AgainJob(a, v) /\ j.next = Id(a, "again") /\ a \in Within
  BY <1>1, <1>3, Anatomy
<1>6. no \in BOOLEAN
  OBVIOUS
<1>. HIDE DEF v
<1>7. Due(loop, j.next, no, v)
  <2>1. j.next[3] = "again"
    BY <1>5 DEF Id
  <2>2. ~Nested(loop, a)
    <3>1. Created(loop, reply, timer, delay, a)
      BY <1>5 DEF IInv
    <3>. QED
      BY <1>3, <1>5, <3>1 DEF Created
  <2>3. v = loop.value[Out(loop, a)]
    <3>1. Carried(loop, a)
      BY <1>5 DEF IInv
    <3>. QED
      BY <1>3, <1>5, <3>1 DEF Carried
  <2>. QED
    BY <2>1, <2>2, <2>3 DEF Due
<1>8. Head(loop.posted).job = j /\ j.kind # "abort"
  BY <1>1 DEF Current
<1>. HIDE DEF j, no
<1>. QED
  BY <1>1, <1>4, <1>5, <1>6, <1>7, <1>8, ReactionStep

\* The caller is given the decoded body, or told that it has no such form.
LEMMA DeserializeStep ==
    ASSUME IInv, Deserialize
    PROVE  IInv'
<1>. DEFINE j == Current.job
<1>1. /\ loop.posted # <<>> /\ j.kind = "decode" /\ Current.ok /\ UNCHANGED Objects
      /\ \E v \in {"decoded", "serialization"} :
            loop' = Settle(Popped(loop), j.next, v = "decoded", v)
  BY DEF Deserialize, Delivers, Current, Target, Rest
<1>2. PICK v \in {"decoded", "serialization"} : loop' = Settle(Popped(loop), j.next, v = "decoded", v)
  BY <1>1
<1>. DEFINE ok == v = "decoded"
<1>3. Wired(loop, {}, {})
  BY DEF IInv, Sound
<1>4. j \in GoodJobs
  BY <1>1, <1>3, PopWired DEF Current
<1>5. j \in Reactions
  BY <1>1, <1>4 DEF Reactions, Objectual
<1>6. ok \in BOOLEAN /\ v \in Values
  BY <1>2 DEF Values, Errors
<1>7. loop' = Settle(Popped(loop), j.next, ok, v)
  BY <1>2
<1>8. Due(loop, j.next, ok, v)
  <2>1. j.next = UserOf(j.next[1]) /\ j.next[1] \in Requests
    BY <1>1, <1>4, Anatomy
  <2>2. j.next[3] = "user"
    BY <2>1, UserGood
  <2>3. Speaker(loop, j) = <<j.next[1], 1, "result">>
    BY <1>1 DEF Speaker
  <2>4. IsSettled(loop, Speaker(loop, j)) /\ (Current.ok <=> IsFulfilled(loop, Speaker(loop, j)))
    BY <1>1, <1>3, <1>5, HeadSpeaks DEF Current
  <2>. HIDE DEF ok
  <2>. QED
    BY <1>1, <1>2, <2>2, <2>3, <2>4 DEF Due
<1>9. Head(loop.posted).job = j /\ j.kind # "abort"
  BY <1>1 DEF Current
<1>. HIDE DEF j, ok
<1>. QED
  BY <1>1, <1>5, <1>6, <1>7, <1>8, <1>9, ReactionStep

\* A reply that runs is one of a living client, and nothing waits on its end
\* but its promise.
LEMMA RunningReply ==
    ASSUME IInv, NEW a \in Attempts, reply[a] = "running"
    PROVE  /\ a \in Within /\ a \notin once /\ clientAlive
           /\ IsPending(loop, Id(a, "reply")) /\ Made(loop, Result(a))
           /\ ObjectJob("deleteReply", a) \notin Held(loop)
           /\ ObjectJob("deleteParts", a) \notin Held(loop)
           /\ RetryJob(a) \notin Queued(loop) /\ RetryJob(a) \in Held(loop)
<1>1. a \in Within
  BY DEF IInv, Sound
<1>2. /\ Created(loop, reply, timer, delay, a) /\ Reported(loop, reply, parts, a)
      /\ Reclaimed(loop, reply, once, parts, clientAlive, a)
      /\ Wired(loop, {}, {}) /\ QuietAfterDestroy /\ clientAlive \in BOOLEAN
  BY <1>1 DEF IInv, Sound
<1>3. a \notin once /\ Made(loop, Id(a, "reply")) /\ Made(loop, Result(a)) /\ IsPending(loop, Id(a, "reply"))
  BY <1>2 DEF Reclaimed, Created
<1>4. clientAlive
  BY <1>2 DEF QuietAfterDestroy
<1>5. ObjectJob("deleteReply", a) \notin Held(loop) /\ ObjectJob("deleteParts", a) \notin Held(loop)
  BY <1>2, <1>3 DEF Reclaimed
<1>6. RetryJob(a) \notin Queued(loop)
  <2>1. RetryJob(a) \in Reactions /\ RetryJob(a).kind = "retry" /\ RetryJob(a).next = Id(a, "result")
        /\ AttemptOf(RetryJob(a).next) = a
    BY <1>1, JobsGood, IdGood DEF RetryJob, Job, Names
  <2>2. Speaker(loop, RetryJob(a)) = Out(loop, a)
    BY <2>1 DEF Speaker
  <2>3. \A v \in Events(loop.posted) : v.job = RetryJob(a) => IsSettled(loop, Out(loop, a))
    BY <1>2, <2>1, <2>2 DEF Wired, Outspoken
  <2>. QED
    BY <1>2, <2>3 DEF Queued, Reported
<1>7. RetryJob(a) \in Held(loop)
  BY <1>2, <1>3 DEF Reported
<1>. QED
  BY <1>1, <1>3, <1>4, <1>5, <1>6, <1>7

\* The end of a reply, whoever brings it about.
LEMMA FinishedObjects ==
    ASSUME IInv, NEW a \in Attempts, reply[a] = "running",
           reply' = [reply EXCEPT ![a] = "finished"], once' = once \cup {a},
           UNCHANGED <<timer, delay, parts, clientAlive, retryAlive>>,
           Wired(loop', {}, {}), Later(loop, loop'), IsSettled(loop', Id(a, "reply")),
           ObjectJob("deleteReply", a) \in Held(loop'),
           Held(loop) \ {AbortJob(a)} \subseteq Held(loop'),
           Held(loop') \subseteq Held(loop) \cup {ObjectJob("deleteReply", a)},
           \A q \in PromiseIds \ {Id(a, "reply"), Id(a, "mapped")} :
              loop'.status[q] = loop.status[q] /\ loop'.value[q] = loop.value[q]
    PROVE  /\ Sound'
           /\ \A b \in Within : /\ Created(loop', reply', timer', delay', b)
                                /\ Reclaimed(loop', reply', once', parts', clientAlive', b)
                                /\ Reported(loop', reply', parts', b)
<1>. DEFINE R == Id(a, "reply")
            M == Id(a, "mapped")
            f == loop'
            del == ObjectJob("deleteReply", a)
<1>1. /\ a \in Within /\ a \notin once /\ clientAlive /\ IsPending(loop, R) /\ Made(loop, Result(a))
      /\ del \notin Held(loop) /\ ObjectJob("deleteParts", a) \notin Held(loop)
      /\ RetryJob(a) \in Held(loop)
  BY RunningReply
<1>2. /\ reply \in [Attempts -> {"none", "running", "finished", "destroyed"}]
      /\ timer' = timer /\ delay' = delay /\ parts' = parts /\ clientAlive' = clientAlive
      /\ retryAlive' = retryAlive
      /\ reply'[a] = "finished" /\ \A b \in Attempts : b # a => reply'[b] = reply[b]
      /\ once' \subseteq Within
  BY <1>1 DEF IInv, Sound
<1>3. Sound'
  <2>1. reply' \in [Attempts -> {"none", "running", "finished", "destroyed"}]
    BY <1>2
  <2>2. \A b \in Attempts \ Within : reply'[b] = "none" /\ timer'[b] = "none" /\ delay'[b] = "none"
                                      /\ parts'[b] = "none"
    BY <1>1, <1>2 DEF IInv, Sound
  <2>3. QuietAfterDestroy'
    BY <1>1, <1>2 DEF QuietAfterDestroy
  <2>4. /\ timer \in [Attempts -> {"none", "armed", "fired"}]
        /\ delay \in [Attempts -> {"none", "armed", "fired"}]
        /\ parts \in [Attempts -> {"none", "owned", "orphan", "freed"}]
        /\ clientAlive \in BOOLEAN /\ retryAlive \in BOOLEAN
    BY DEF IInv, Sound
  <2>. QED
    BY <1>2, <2>1, <2>2, <2>3, <2>4 DEF Sound
<1>4. SUFFICES ASSUME NEW b \in Within
               PROVE  /\ Created(f, reply', timer', delay', b)
                      /\ Reclaimed(f, reply', once', parts', clientAlive', b)
                      /\ Reported(f, reply', parts', b)
  BY <1>3
<1>5. /\ Created(loop, reply, timer, delay, b) /\ Reported(loop, reply, parts, b)
      /\ Reclaimed(loop, reply, once, parts, clientAlive, b) /\ b \in Attempts
  BY IdGood DEF IInv, Names
<1>6. \A n \in Names : Id(b, n) \in PromiseIds /\ Id(b, n)[3] = n /\ AttemptOf(Id(b, n)) = b
  BY IdGood
<1>7. /\ R[3] = "reply" /\ M[3] = "mapped" /\ AttemptOf(R) = a /\ AttemptOf(M) = a
      /\ R \in PromiseIds /\ M \in PromiseIds
  BY <1>1, IdGood DEF Names
<1>. HIDE DEF f, R, M, del
<1>8. \A n \in Names \ {"reply", "mapped"} :
         f.status[Id(b, n)] = loop.status[Id(b, n)] /\ f.value[Id(b, n)] = loop.value[Id(b, n)]
  BY <1>6, <1>7 DEF f, R, M
<1>9. b # a => /\ f.status[Id(b, "reply")] = loop.status[Id(b, "reply")]
               /\ f.status[Id(b, "mapped")] = loop.status[Id(b, "mapped")]
  BY <1>6, <1>7 DEF f, R, M, Names
<1>10. Created(f, reply', timer', delay', b)
  <2>1. reply'[b] = "none" <=> reply[b] = "none"
    BY <1>2, <1>5
  <2>2. /\ IsPending(f, Id(b, "tick")) => delay'[b] = "armed"
        /\ IsPending(f, Id(b, "timed")) => timer'[b] = "armed"
    BY <1>2, <1>5, <1>8 DEF Created, Names, IsPending
  <2>3. Later(loop, f)
    BY DEF f
  <2>. QED
    BY <1>5, <2>1, <2>2, <2>3, CreatedKept
<1>11. \A kind \in Objectual : ObjectJob(kind, b) # AbortJob(a)
  BY DEF ObjectJob, AbortJob, Plain, Job, Objectual
<1>12. Reclaimed(f, reply', once', parts', clientAlive', b)
  <2>1. CASE b # a
    <3>1. \A kind \in Objectual : ObjectJob(kind, b) # del
      <4>1. \A kind \in Objectual : ObjectJob(kind, b).next = Id(b, "reply") /\ del.next = R
        BY DEF ObjectJob, Plain, Job, del, R
      <4>. QED
        BY <1>6, <1>7, <2>1, <4>1 DEF Names
    <3>2. \A kind \in Objectual : ObjectJob(kind, b) \in Held(f) <=> ObjectJob(kind, b) \in Held(loop)
      BY <1>11, <3>1 DEF f, del
    <3>3. /\ f.status[Id(b, "reply")] = loop.status[Id(b, "reply")] /\ reply'[b] = reply[b]
          /\ b \in once' <=> b \in once
          /\ parts'[b] = parts[b] /\ clientAlive' = clientAlive
      BY <1>2, <1>5, <1>9, <2>1
    <3>4. f.status[Id(b, "reply")] = loop.status[Id(b, "reply")]
      BY <3>3
    <3>5. b \in once' <=> b \in once
      BY <3>3
    <3>6. Reclaimed(loop, reply, once, parts, clientAlive, b)
      BY <1>5
    <3>7. reply'[b] = reply[b] /\ parts'[b] = parts[b]
      BY <3>3
    <3>8. Reclaimed(f, reply', once', parts', clientAlive, b)
      BY <3>2, <3>4, <3>5, <3>6, <3>7 DEF Reclaimed, Objectual, Made, IsPending
    <3>. QED
      BY <3>3, <3>8
  <2>2. CASE b = a
    <3>1. Made(f, Id(a, "reply")) /\ ~IsPending(f, Id(a, "reply"))
      BY DEF f, Made, IsSettled, IsFulfilled, IsRejected, IsPending
    <3>2. del \in Held(f)
      BY DEF f, del
    <3>3. ObjectJob("deleteParts", a) \in Held(f) <=> ObjectJob("deleteParts", a) \in Held(loop)
      <4>1. ObjectJob("deleteParts", a) # del
        BY DEF ObjectJob, Plain, Job, del
      <4>. QED
        BY <1>11, <2>2, <4>1 DEF f, del, Objectual
    <3>4. reply'[a] = "finished" /\ a \in once' /\ parts'[a] = parts[a]
      BY <1>2
    <3>. QED
      BY <1>1, <1>5, <2>2, <3>1, <3>2, <3>3, <3>4 DEF Reclaimed, del
  <2>. QED
    BY <2>1, <2>2
<1>13. Reported(f, reply', parts', b)
  <2>1. Later(loop, f)
    BY DEF f
  <2>2. /\ reply[b] \in {"none", "destroyed"} => reply'[b] \in {"none", "destroyed"}
        /\ parts[b] \in {"none", "freed"} => parts'[b] \in {"none", "freed"}
    <3>1. b = a \/ reply'[b] = reply[b]
      BY <1>2, <1>5
    <3>. QED
      BY <1>2, <3>1
  <2>3. IsSettled(f, Id(b, "timed")) => IsSettled(loop, Id(b, "timed"))
    BY <1>8 DEF IsSettled, IsFulfilled, IsRejected, Names
  <2>4. IsSettled(f, Out(f, b)) => reply'[b] # "running"
    <3>1. CASE b = a
      BY <1>2, <3>1
    <3>2. CASE b # a
      <4>1. Out(f, b) = Out(loop, b) /\ Out(loop, b) \in {Id(b, "reply"), Id(b, "mapped")}
        BY <1>9, <3>2 DEF Out, Made
      <4>2. IsSettled(f, Out(f, b)) => IsSettled(loop, Out(loop, b))
        BY <1>9, <3>2, <4>1 DEF IsSettled, IsFulfilled, IsRejected
      <4>3. reply'[b] = reply[b]
        BY <1>2, <1>5, <3>2
      <4>. QED
        BY <1>5, <4>2, <4>3 DEF Reported
    <3>. QED
      BY <3>1, <3>2
  <2>5. RetryJob(b) \in Held(loop) => RetryJob(b) \in Held(f)
    <3>1. RetryJob(b) # AbortJob(a)
      BY DEF RetryJob, AbortJob, Plain, Job
    <3>. QED
      BY <3>1 DEF f
  <2>. QED
    BY <1>5, <2>1, <2>2, <2>3, <2>4, <2>5, ReportedKept
<1>. QED
  BY <1>10, <1>12, <1>13

\* What a call settles with a due value keeps the chain.
LEMMA SettlesCarried ==
    ASSUME NEW e, NEW X, NEW Y, Wired(e, X, Y), NEW p \in PromiseIds, IsPending(e, p),
           NEW ok \in BOOLEAN, NEW v, NEW f, Settles(e, f, X, Y, p, ok, v), Due(e, p, ok, v),
           NEW a \in Within, Carried(e, a)
    PROVE  Carried(f, a)
<1>1. /\ Wired(f, X, Y \ {p}) /\ Held(f) = Held(e)
      /\ \A q \in PromiseIds : q # p => f.status[q] = e.status[q] /\ f.value[q] = e.value[q]
      /\ \A q \in PromiseIds : Made(f, q) <=> Made(e, q)
      /\ f.status[p] = (IF ok THEN "fulfilled" ELSE "rejected") /\ f.value[p] = v
  BY DEF Settles
<1>2. f \in Engines
  BY <1>1 DEF Wired
<1>3. Later(e, f)
  BY <1>1 DEF Later, IsSettled, IsFulfilled, IsRejected, IsPending
<1>. QED
  BY <1>1, <1>2, <1>3, SettleCarried

\* So does handleFinished.
LEMMA FinishesCarried ==
    ASSUME NEW e, NEW X, NEW Y, Wired(e, X, Y), NEW b \in Within, IsPending(e, Id(b, "reply")),
           NEW v, NEW f, Finishes(e, f, X, Y, b, v)
    PROVE  Later(e, f) /\ \A a \in Within : Carried(e, a) => Carried(f, a)
<1>. DEFINE R == Id(b, "reply")
            ok == v = "data"
<1>1. /\ Wired(f, X, Y \ {R}) /\ Held(f) = Held(e) \cup {ObjectJob("deleteReply", b)}
      /\ \A q \in PromiseIds : q # R => f.status[q] = e.status[q] /\ f.value[q] = e.value[q]
      /\ IsSettled(f, R) /\ f.value[R] = v /\ (IsFulfilled(f, R) <=> ok)
  BY DEF Finishes
<1>2. R \in PromiseIds /\ R[3] = "reply" /\ ok \in BOOLEAN
  BY IdGood DEF Names
<1>. HIDE DEF R, ok
<1>3. f.status[R] = (IF ok THEN "fulfilled" ELSE "rejected")
  BY <1>1 DEF IsSettled, IsFulfilled, IsRejected
<1>4. f \in Engines /\ IsPending(e, R)
  BY <1>1 DEF Wired, R
<1>5. Later(e, f)
  <2>1. ObjectJob("deleteReply", b) \notin Settling
    BY DEF ObjectJob, Plain, Job, Settling, Objectual
  <2>. QED
    BY <1>1, <1>4, <2>1 DEF Later, Made, IsSettled, IsFulfilled, IsRejected, IsPending
<1>6. Due(e, R, ok, v)
  BY <1>2 DEF Due, ok
<1>7. ASSUME NEW a \in Within, Carried(e, a) PROVE Carried(f, a)
  BY <1>1, <1>2, <1>3, <1>4, <1>5, <1>6, <1>7, SettleCarried
<1>. QED
  BY <1>5, <1>7

\* The network ends a reply.
LEMMA ReplyFinishesStep ==
    ASSUME IInv, NEW a \in Attempts, ReplyFinishes(a)
    PROVE  IInv'
<1>1. /\ reply[a] = "running" /\ reply' = [reply EXCEPT ![a] = "finished"]
      /\ once' = once \cup {a} /\ UNCHANGED <<timer, delay, parts, clientAlive, retryAlive>>
  BY DEF ReplyFinishes
<1>2. PICK v \in NetworkResults : loop' = HandleFinished(loop, a, v)
  BY DEF ReplyFinishes
<1>3. v \in Values
  BY DEF NetworkResults, Values, Errors
<1>4. /\ a \in Within /\ a \notin once /\ IsPending(loop, Id(a, "reply"))
      /\ ObjectJob("deleteReply", a) \notin Held(loop) /\ RetryJob(a) \notin Queued(loop)
  BY <1>1, RunningReply
<1>5. Wired(loop, {}, {})
  BY DEF IInv, Sound
<1>. DEFINE E == {}
<1>6. Wired(loop, E, E)
  BY <1>5
<1>. HIDE DEF E
<1>7. Finishes(loop, HandleFinished(loop, a, v), E, E, a, v)
  BY <1>3, <1>4, <1>6, HandleFinishedWired
<1>8. Finishes(loop, loop', E, E, a, v)
  BY <1>2, <1>7
<1>9. Later(loop, loop') /\ \A b \in Within : Carried(loop, b) => Carried(loop', b)
  BY <1>4, <1>6, <1>8, FinishesCarried
<1>10. /\ Wired(loop', E, E \ {Id(a, "reply")})
       /\ Held(loop') = Held(loop) \cup {ObjectJob("deleteReply", a)}
       /\ \A q \in PromiseIds : q # Id(a, "reply") =>
             loop'.status[q] = loop.status[q] /\ loop'.value[q] = loop.value[q]
       /\ IsSettled(loop', Id(a, "reply"))
  BY <1>8 DEF Finishes
<1>11. Wired(loop', {}, {})
  <2>1. E = {} /\ E \ {Id(a, "reply")} = {}
    BY DEF E
  <2>. QED
    BY <1>10, <2>1
<1>12. /\ Sound'
       /\ \A b \in Within : /\ Created(loop', reply', timer', delay', b)
                            /\ Reclaimed(loop', reply', once', parts', clientAlive', b)
                            /\ Reported(loop', reply', parts', b)
  <2>1. /\ ObjectJob("deleteReply", a) \in Held(loop')
        /\ Held(loop) \ {AbortJob(a)} \subseteq Held(loop')
        /\ Held(loop') \subseteq Held(loop) \cup {ObjectJob("deleteReply", a)}
    BY <1>10
  <2>2. \A q \in PromiseIds \ {Id(a, "reply"), Id(a, "mapped")} :
              loop'.status[q] = loop.status[q] /\ loop'.value[q] = loop.value[q]
    BY <1>10
  <2>. QED
    BY <1>1, <1>9, <1>10, <1>11, <2>1, <2>2, FinishedObjects
<1>13. \A b \in Within : Carried(loop', b)
  BY <1>9 DEF IInv
<1>. QED
  BY <1>12, <1>13 DEF IInv

\* The timeout's catcher aborts a reply that runs, whose finished signal comes
\* from inside the call, and then reports the timeout.
LEMMA AbortStep ==
    ASSUME IInv, AbortOnTimeout
    PROVE  IInv'
<1>. DEFINE j == Current.job
            a == AttemptOf(j.next)
            no == FALSE
            v == "timeout"
            w == "canceled"
            g == Popped(loop)
            R == Id(a, "reply")
            M == Id(a, "mapped")
<1>1. /\ loop.posted # <<>> /\ j.kind = "abort" /\ Head(loop.posted).job = j
      /\ reply[a] = "running" =>
            /\ loop' = Settle(HandleFinished(g, a, w), j.next, no, v)
            /\ reply' = [reply EXCEPT ![a] = "finished"] /\ once' = once \cup {a}
            /\ UNCHANGED <<timer, delay, parts, clientAlive, retryAlive>>
      /\ reply[a] # "running" => loop' = Settle(g, j.next, no, v) /\ UNCHANGED Objects
  BY DEF AbortOnTimeout, Delivers, Current, Target, Rest, Objects
<1>2. Wired(loop, {}, {})
  BY DEF IInv, Sound
<1>3. j \in GoodJobs
  BY <1>1, <1>2, PopWired
<1>4. j \in Reactions /\ j \in Settling
  BY <1>1, <1>3 DEF Reactions, Settling, Objectual
<1>5. a \in Within /\ j = AbortJob(a) /\ j.next = M
  BY <1>1, <1>3, Anatomy
<1>6. /\ M \in PromiseIds /\ M[3] = "mapped" /\ R \in PromiseIds /\ R # M /\ a \in Attempts
      /\ AttemptOf(M) = a
  BY <1>5, IdGood DEF Names, Id
<1>7. no \in BOOLEAN /\ v \in Values /\ w \in Values /\ w # "data" /\ v # "data" /\ no = FALSE
  BY DEF Values, Errors
<1>8. IsPending(loop, M)
  BY <1>1, <1>2, <1>4, <1>5, <1>6, HeadSpeaks
<1>. HIDE DEF no, v, w, j, R, M
<1>9. CASE reply[a] # "running"
  <2>1. Due(loop, j.next, no, v)
    BY <1>5, <1>6, <1>7 DEF Due
  <2>. QED
    BY <1>1, <1>4, <1>7, <1>9, <2>1, ReactionStep
<1>10. CASE reply[a] = "running"
  <2>. DEFINE Y == {M}
              E == {}
              h == HandleFinished(g, a, w)
  <2>1. /\ Held(g) = Held(loop) \ {j} /\ g.status = loop.status /\ g.value = loop.value
        /\ Wired(g, E, Y)
    BY <1>1, <1>2, <1>4, <1>5, PopWired
  <2>2. /\ a \in Within /\ a \notin once /\ IsPending(loop, R)
        /\ ObjectJob("deleteReply", a) \notin Held(loop) /\ RetryJob(a) \notin Queued(loop)
    BY <1>6, <1>10, RunningReply DEF R
  <2>. HIDE DEF g
  <2>3. IsPending(g, Id(a, "reply")) /\ ObjectJob("deleteReply", a) \notin Held(g) /\ RetryJob(a) \notin Queued(g)
    <3>1. Queued(g) \subseteq Queued(loop)
      <4>1. g.posted = Tail(loop.posted) /\ loop.posted \in Seq(EventType(GoodJobs, Values)) /\ Once(loop.posted)
        BY <1>2, Parts DEF g, Popped, Wired
      <4>2. Events(g.posted) \subseteq Events(loop.posted)
        BY <1>1, <4>1, Taken
      <4>. QED
        BY <4>2 DEF Queued
    <3>. QED
      BY <2>1, <2>2, <3>1 DEF IsPending, R
  <2>. HIDE DEF Y, E, h
  <2>4. Finishes(g, h, E, Y, a, w)
    BY <1>5, <1>7, <2>1, <2>2, <2>3, HandleFinishedWired DEF h
  <2>5. Later(g, h) /\ \A b \in Within : Carried(g, b) => Carried(h, b)
    BY <1>5, <2>1, <2>3, <2>4, FinishesCarried
  <2>6. /\ Wired(h, E, Y \ {R}) /\ Held(h) = Held(g) \cup {ObjectJob("deleteReply", a)}
        /\ \A q \in PromiseIds : q # R => h.status[q] = g.status[q] /\ h.value[q] = g.value[q]
        /\ IsSettled(h, R)
    BY <2>4 DEF Finishes, R
  <2>7. Y \ {R} = Y /\ M \in Y /\ Y \ {M} = {} /\ E = {}
    BY <1>6 DEF Y, E
  <2>8. Wired(h, E, Y)
    BY <2>6, <2>7
  <2>9. IsPending(h, M)
    BY <1>6, <1>8, <2>1, <2>6 DEF IsPending
  <2>10. Settles(h, Settle(h, M, no, v), E, Y, M, no, v)
    BY <1>6, <1>7, <2>7, <2>8, SettleWired
  <2>11. Settles(h, loop', E, Y, M, no, v)
    BY <1>1, <1>5, <1>10, <2>10 DEF h
  <2>12. Due(h, M, no, v)
    BY <1>6, <1>7 DEF Due
  <2>13. \A b \in Within : Carried(h, b) => Carried(loop', b)
    BY <1>6, <1>7, <2>8, <2>9, <2>11, <2>12, SettlesCarried
  <2>14. \A b \in Within : Carried(loop, b) => Carried(g, b)
    <3>1. SUFFICES ASSUME NEW b \in Within, Carried(loop, b) PROVE Carried(g, b)
      OBVIOUS
    <3>2. \A ex \in Values : AgainJob(b, ex) \in Held(g) => AgainJob(b, ex) \in Held(loop)
      BY <2>1
    <3>3. /\ \A n \in {"reply", "timed", "mapped", "result", "again"} :
                g.status[Id(b, n)] = loop.status[Id(b, n)] /\ g.value[Id(b, n)] = loop.value[Id(b, n)]
          /\ g.status[UserOf(b[1])] = loop.status[UserOf(b[1])]
          /\ g.value[UserOf(b[1])] = loop.value[UserOf(b[1])]
          /\ g.status[Result(NextAttempt(b))] = loop.status[Result(NextAttempt(b))]
          /\ g.value[Result(NextAttempt(b))] = loop.value[Result(NextAttempt(b))]
      BY <2>1
    <3>. QED
      BY <3>1, <3>2, <3>3, CarriedKept
  <2>15. /\ Wired(loop', {}, {}) /\ Held(loop') = Held(h)
         /\ \A q \in PromiseIds : q # M => loop'.status[q] = h.status[q] /\ loop'.value[q] = h.value[q]
         /\ ~IsPending(loop', M)
    BY <2>7, <2>11 DEF Settles
  <2>16. \A q \in PromiseIds \ {Id(a, "reply"), Id(a, "mapped")} :
              loop'.status[q] = loop.status[q] /\ loop'.value[q] = loop.value[q]
    BY <2>1, <2>6, <2>15 DEF R, M
  <2>17. IsSettled(loop', R)
    BY <1>6, <2>6, <2>15 DEF IsSettled, IsFulfilled, IsRejected
  <2>18. Later(loop, loop')
    <3>1. \A q \in PromiseIds : Made(loop', q) <=> Made(loop, q)
      <4>1. SUFFICES ASSUME NEW q \in PromiseIds PROVE Made(loop', q) <=> Made(loop, q)
        OBVIOUS
      <4>2. Made(h, q) <=> Made(g, q)
        BY <2>5 DEF Later
      <4>3. Made(loop', q) <=> Made(h, q)
        BY <2>11 DEF Settles
      <4>. QED
        BY <2>1, <4>2, <4>3 DEF Made
    <3>2. \A q \in PromiseIds : IsSettled(loop, q) => q # R /\ q # M
      BY <1>8, <2>2 DEF IsSettled, IsFulfilled, IsRejected, IsPending
    <3>3. ObjectJob("deleteReply", a) \notin Settling
      BY DEF ObjectJob, Plain, Job, Settling, Objectual
    <3>4. Held(loop') \cap Settling \subseteq Held(loop)
      BY <2>1, <2>6, <2>15, <3>3
    <3>. QED
      BY <2>16, <3>1, <3>2, <3>4 DEF Later, R, M
  <2>19. /\ ObjectJob("deleteReply", a) \in Held(loop')
         /\ Held(loop) \ {AbortJob(a)} \subseteq Held(loop')
         /\ Held(loop') \subseteq Held(loop) \cup {ObjectJob("deleteReply", a)}
    BY <1>5, <2>1, <2>6, <2>15
  <2>20. /\ reply' = [reply EXCEPT ![a] = "finished"] /\ once' = once \cup {a}
         /\ UNCHANGED <<timer, delay, parts, clientAlive, retryAlive>>
    BY <1>1, <1>10
  <2>21. /\ Sound'
         /\ \A b \in Within : /\ Created(loop', reply', timer', delay', b)
                              /\ Reclaimed(loop', reply', once', parts', clientAlive', b)
                              /\ Reported(loop', reply', parts', b)
    <3>1. IsSettled(loop', Id(a, "reply")) /\ Wired(loop', {}, {})
      BY <2>15, <2>17 DEF R
    <3>. QED
      BY <1>6, <1>10, <2>16, <2>18, <2>19, <2>20, <3>1, FinishedObjects
  <2>22. \A b \in Within : Carried(loop', b)
    BY <2>5, <2>13, <2>14 DEF IInv
  <2>. QED
    BY <2>21, <2>22 DEF IInv
<1>. QED
  BY <1>9, <1>10

\* A timer resolves its promise, if nothing else has settled it.
LEMMA TimerStep ==
    ASSUME IInv, NEW a \in Within, NEW name \in {"timed", "tick"}, NEW ok \in BOOLEAN, NEW v \in Values,
           name = "timed" => v = TimeoutException /\ ~ok,
           loop' = Settle(loop, Id(a, name), ok, v),
           timer' \in [Attempts -> {"none", "armed", "fired"}],
           delay' \in [Attempts -> {"none", "armed", "fired"}],
           name = "timed" => delay' = delay, name = "tick" => timer' = timer,
           \A b \in Attempts : b # a => timer'[b] = timer[b] /\ delay'[b] = delay[b],
           UNCHANGED <<reply, once, parts, clientAlive, retryAlive>>
    PROVE  IInv'
<1>. DEFINE p == Id(a, name)
            f == loop'
            E == {}
<1>1. p \in PromiseIds /\ p[3] = name /\ AttemptOf(p) = a
  BY IdGood DEF Names
<1>2. Wired(loop, E, E)
  BY DEF IInv, Sound
<1>. HIDE DEF p, E
<1>3. Settles(loop, Settle(loop, p, ok, v), E, E, p, ok, v)
  BY <1>1, <1>2, SettleWired
<1>4. Settles(loop, f, E, E, p, ok, v)
  BY <1>3 DEF p
<1>5. /\ Wired(f, {}, {}) /\ Held(f) = Held(loop)
      /\ \A q \in PromiseIds : q # p => f.status[q] = loop.status[q] /\ f.value[q] = loop.value[q]
      /\ \A q \in PromiseIds : Made(f, q) <=> Made(loop, q)
      /\ ~IsPending(f, p)
      /\ IsPending(loop, p) => f.status[p] = (IF ok THEN "fulfilled" ELSE "rejected") /\ f.value[p] = v
      /\ ~IsPending(loop, p) => f.status[p] = loop.status[p] /\ f.value[p] = loop.value[p]
  <2>1. E = {} /\ E \ {p} = {}
    BY DEF E
  <2>. QED
    BY <1>4, <2>1 DEF Settles
<1>. HIDE DEF f
<1>6. Later(loop, f)
  BY <1>5 DEF Later, IsSettled, IsFulfilled, IsRejected, IsPending
<1>7. Sound'
  <2>1. \A b \in Attempts \ Within : b # a
    OBVIOUS
  <2>. QED
    BY <1>5, <2>1 DEF IInv, Sound, QuietAfterDestroy, f
<1>8. SUFFICES ASSUME NEW b \in Within
               PROVE  /\ Created(f, reply', timer', delay', b)
                      /\ Reclaimed(f, reply', once', parts', clientAlive', b)
                      /\ Reported(f, reply', parts', b)
                      /\ Carried(f, b)
  BY <1>7 DEF IInv, f
<1>9. /\ Created(loop, reply, timer, delay, b)
      /\ Reclaimed(loop, reply, once, parts, clientAlive, b)
      /\ Reported(loop, reply, parts, b)
      /\ Carried(loop, b) /\ b \in Attempts
      /\ reply' = reply /\ once' = once /\ parts' = parts /\ clientAlive' = clientAlive
  BY IdGood DEF IInv, Names
<1>10. \A n \in Names : Id(b, n) \in PromiseIds /\ Id(b, n)[3] = n /\ AttemptOf(Id(b, n)) = b
  BY IdGood
<1>11. \A n \in {"reply", "mapped", "result", "again"} :
          /\ f.status[Id(b, n)] = loop.status[Id(b, n)] /\ f.value[Id(b, n)] = loop.value[Id(b, n)]
          /\ Id(b, n) \in PromiseIds
  BY <1>1, <1>5, <1>10 DEF Names
<1>12. Created(f, reply', timer', delay', b)
  <2>1. IsPending(f, Id(b, "tick")) => delay'[b] = "armed"
    <3>1. SUFFICES ASSUME IsPending(f, Id(b, "tick")) PROVE delay'[b] = "armed"
      OBVIOUS
    <3>2. Id(b, "tick") # p /\ Id(b, "tick") \in PromiseIds
      BY <1>5, <1>10, <3>1 DEF Names
    <3>3. delay'[b] = delay[b]
      BY <1>9, <3>2 DEF p
    <3>4. IsPending(loop, Id(b, "tick"))
      BY <1>5, <3>1, <3>2 DEF IsPending
    <3>. QED
      BY <1>9, <3>3, <3>4 DEF Created
  <2>2. IsPending(f, Id(b, "timed")) => timer'[b] = "armed"
    <3>1. SUFFICES ASSUME IsPending(f, Id(b, "timed")) PROVE timer'[b] = "armed"
      OBVIOUS
    <3>2. Id(b, "timed") # p /\ Id(b, "timed") \in PromiseIds
      BY <1>5, <1>10, <3>1 DEF Names
    <3>3. timer'[b] = timer[b]
      BY <1>9, <3>2 DEF p
    <3>4. IsPending(loop, Id(b, "timed"))
      BY <1>5, <3>1, <3>2 DEF IsPending
    <3>. QED
      BY <1>9, <3>3, <3>4 DEF Created
  <2>3. reply'[b] = "none" <=> reply[b] = "none"
    BY <1>9
  <2>. QED
    BY <1>6, <1>9, <2>1, <2>2, <2>3, CreatedKept
<1>13. Reclaimed(f, reply', once', parts', clientAlive', b)
  <2>1. \A kind \in Objectual : ObjectJob(kind, b) \in Held(f) <=> ObjectJob(kind, b) \in Held(loop)
    BY <1>5
  <2>. QED
    BY <1>9, <1>11, <2>1 DEF Reclaimed, Objectual, Made, IsPending
<1>14. Reported(f, reply', parts', b)
  <2>1. IsSettled(f, Id(b, "timed")) => IsSettled(loop, Id(b, "timed"))
                                        \/ f.value[Id(b, "timed")] = TimeoutException
    <3>1. CASE Id(b, "timed") = p
      <4>1. name = "timed"
        BY <1>1, <1>10, <3>1 DEF Names
      <4>. QED
        BY <1>5, <3>1, <4>1 DEF IsSettled, IsFulfilled, IsRejected
    <3>2. CASE Id(b, "timed") # p
      BY <1>5, <1>10, <3>2 DEF IsSettled, IsFulfilled, IsRejected, Names
    <3>. QED
      BY <3>1, <3>2
  <2>2. IsSettled(f, Out(f, b)) => reply'[b] # "running"
    <3>1. Out(f, b) = Out(loop, b) /\ Out(loop, b) \in {Id(b, "reply"), Id(b, "mapped")}
      BY <1>11 DEF Out, Made
    <3>2. IsSettled(f, Out(f, b)) => IsSettled(loop, Out(loop, b))
      BY <1>11, <3>1 DEF IsSettled, IsFulfilled, IsRejected
    <3>. QED
      BY <1>9, <3>2 DEF Reported
  <2>3. RetryJob(b) \in Held(loop) => RetryJob(b) \in Held(f)
    BY <1>5
  <2>4. /\ reply[b] \in {"none", "destroyed"} => reply'[b] \in {"none", "destroyed"}
        /\ parts[b] \in {"none", "freed"} => parts'[b] \in {"none", "freed"}
    BY <1>9
  <2>. QED
    BY <1>6, <1>9, <2>1, <2>2, <2>3, <2>4, ReportedKept
<1>15. Carried(f, b)
  <2>1. CASE IsPending(loop, p)
    <3>1. Due(loop, p, ok, v)
      BY <1>1 DEF Due, TimeoutException
    <3>. QED
      BY <1>1, <1>2, <1>4, <1>9, <2>1, <3>1, SettlesCarried
  <2>2. CASE ~IsPending(loop, p)
    <3>1. \A q \in PromiseIds : f.status[q] = loop.status[q] /\ f.value[q] = loop.value[q]
      BY <1>5, <2>2
    <3>2. \A ex \in Values : AgainJob(b, ex) \in Held(f) => AgainJob(b, ex) \in Held(loop)
      BY <1>5
    <3>3. /\ \A n \in {"reply", "timed", "mapped", "result", "again"} :
                f.status[Id(b, n)] = loop.status[Id(b, n)] /\ f.value[Id(b, n)] = loop.value[Id(b, n)]
          /\ f.status[UserOf(b[1])] = loop.status[UserOf(b[1])]
          /\ f.value[UserOf(b[1])] = loop.value[UserOf(b[1])]
          /\ f.status[Result(NextAttempt(b))] = loop.status[Result(NextAttempt(b))]
          /\ f.value[Result(NextAttempt(b))] = loop.value[Result(NextAttempt(b))]
      BY <1>10, <3>1, Neighbours DEF Names
    <3>. QED
      BY <1>9, <3>2, <3>3, CarriedKept
  <2>. QED
    BY <2>1, <2>2
<1>. QED
  BY <1>12, <1>13, <1>14, <1>15

\* Nobody cancels the timer of promise.timeout(ms).
LEMMA FireTimeoutStep ==
    ASSUME IInv, NEW a \in Attempts, FireTimeout(a)
    PROVE  IInv'
<1>. DEFINE no == FALSE
            n == "timed"
            v == TimeoutException
<1>1. /\ timer[a] = "armed" /\ timer' = [timer EXCEPT ![a] = "fired"]
      /\ loop' = Settle(loop, Id(a, n), no, v)
      /\ UNCHANGED <<reply, once, delay, parts, clientAlive, retryAlive>>
  BY DEF FireTimeout
<1>2. timer \in [Attempts -> {"none", "armed", "fired"}] /\ delay \in [Attempts -> {"none", "armed", "fired"}]
  BY DEF IInv, Sound
<1>3. a \in Within
  BY <1>1 DEF IInv, Sound
<1>4. /\ timer' \in [Attempts -> {"none", "armed", "fired"}] /\ delay' \in [Attempts -> {"none", "armed", "fired"}]
      /\ delay' = delay /\ \A b \in Attempts : b # a => timer'[b] = timer[b] /\ delay'[b] = delay[b]
  BY <1>1, <1>2
<1>5. /\ no \in BOOLEAN /\ v \in Values /\ v = TimeoutException /\ ~no
      /\ n \in {"timed", "tick"} /\ n # "tick"
  BY DEF Values
<1>6. UNCHANGED <<reply, once, parts, clientAlive, retryAlive>>
  BY <1>1
<1>. HIDE DEF no, v, n
<1>. QED
  BY <1>1, <1>3, <1>4, <1>5, <1>6, TimerStep

\* The delay of QPromise::delay is over.
LEMMA FireDelayStep ==
    ASSUME IInv, NEW a \in Attempts, FireDelay(a)
    PROVE  IInv'
<1>. DEFINE yes == TRUE
            n == "tick"
            v == Nothing
<1>1. /\ delay[a] = "armed" /\ delay' = [delay EXCEPT ![a] = "fired"]
      /\ loop' = Settle(loop, Id(a, n), yes, v)
      /\ UNCHANGED <<reply, once, timer, parts, clientAlive, retryAlive>>
  BY DEF FireDelay
<1>2. timer \in [Attempts -> {"none", "armed", "fired"}] /\ delay \in [Attempts -> {"none", "armed", "fired"}]
  BY DEF IInv, Sound
<1>3. a \in Within
  BY <1>1 DEF IInv, Sound
<1>4. /\ timer' \in [Attempts -> {"none", "armed", "fired"}] /\ delay' \in [Attempts -> {"none", "armed", "fired"}]
      /\ timer' = timer /\ \A b \in Attempts : b # a => timer'[b] = timer[b] /\ delay'[b] = delay[b]
  BY <1>1, <1>2
<1>5. yes \in BOOLEAN /\ v \in Values /\ n \in {"timed", "tick"} /\ n # "timed"
  BY DEF Values
<1>6. UNCHANGED <<reply, once, parts, clientAlive, retryAlive>>
  BY <1>1
<1>. HIDE DEF yes, v, n
<1>. QED
  BY <1>1, <1>3, <1>4, <1>5, <1>6, TimerStep

\* An event of an object leaves the queue; the object may go with it.
LEMMA ObjectStep ==
    ASSUME IInv, loop.posted # <<>>, NEW kind \in Objectual, NEW a \in Within,
           Current.job = ObjectJob(kind, a), loop' = Popped(loop),
           reply' \in [Attempts -> {"none", "running", "finished", "destroyed"}],
           parts' \in [Attempts -> {"none", "owned", "orphan", "freed"}],
           \A b \in Attempts : b # a => reply'[b] = reply[b] /\ parts'[b] = parts[b],
           reply'[a] = reply[a] \/ (reply[a] # "none" /\ reply'[a] = "destroyed"),
           parts'[a] = parts[a] \/ parts'[a] = "freed",
           UNCHANGED <<once, timer, delay, clientAlive, retryAlive>>,
           Reclaimed(loop', reply', once', parts', clientAlive', a)
    PROVE  IInv'
<1>. DEFINE f == loop'
            j == ObjectJob(kind, a)
<1>1. Wired(loop, {}, {})
  BY DEF IInv, Sound
<1>2. j \notin Settling
  BY DEF ObjectJob, Plain, Job, Settling
<1>3. /\ Held(f) = Held(loop) \ {j} /\ f.status = loop.status /\ f.value = loop.value
      /\ Wired(f, {}, {})
  BY <1>1, <1>2, PopWired DEF Current
<1>4. Later(loop, f)
  BY <1>3 DEF Later, Made
<1>5. Sound'
  <2>1. QuietAfterDestroy'
    <3>1. SUFFICES ASSUME ~clientAlive', NEW b \in Attempts
                   PROVE  reply'[b] \in {"none", "destroyed"} /\ parts'[b] \in {"none", "freed", "orphan"}
      BY DEF QuietAfterDestroy
    <3>2. reply[b] \in {"none", "destroyed"} /\ parts[b] \in {"none", "freed", "orphan"}
      BY <3>1 DEF IInv, Sound, QuietAfterDestroy
    <3>3. reply'[b] \in {reply[b], "destroyed"} /\ parts'[b] \in {parts[b], "freed"}
      BY DEF IInv
    <3>. QED
      BY <3>2, <3>3
  <2>2. \A b \in Attempts \ Within : b # a
    OBVIOUS
  <2>3. /\ once' = once /\ timer' = timer /\ delay' = delay /\ clientAlive' = clientAlive
        /\ retryAlive' = retryAlive
    OBVIOUS
  <2>4. \A b \in Attempts \ Within : reply'[b] = "none" /\ timer'[b] = "none" /\ delay'[b] = "none"
                                     /\ parts'[b] = "none"
    BY <2>2, <2>3 DEF IInv, Sound
  <2>5. /\ once \subseteq Within
        /\ timer \in [Attempts -> {"none", "armed", "fired"}]
        /\ delay \in [Attempts -> {"none", "armed", "fired"}]
        /\ clientAlive \in BOOLEAN /\ retryAlive \in BOOLEAN
    BY DEF IInv, Sound
  <2>. QED
    BY <1>3, <2>1, <2>3, <2>4, <2>5 DEF Sound
<1>6. SUFFICES ASSUME NEW b \in Within
               PROVE  /\ Created(f, reply', timer', delay', b)
                      /\ Reclaimed(f, reply', once', parts', clientAlive', b)
                      /\ Reported(f, reply', parts', b)
                      /\ Carried(f, b)
  BY <1>5 DEF IInv
<1>7. /\ Created(loop, reply, timer, delay, b)
      /\ Reclaimed(loop, reply, once, parts, clientAlive, b)
      /\ Reported(loop, reply, parts, b)
      /\ Carried(loop, b) /\ b \in Attempts
      /\ timer' = timer /\ delay' = delay /\ once' = once /\ clientAlive' = clientAlive
  BY IdGood DEF IInv, Names
<1>8. /\ b = a \/ (reply'[b] = reply[b] /\ parts'[b] = parts[b])
      /\ reply'[b] = reply[b] \/ (reply[b] # "none" /\ reply'[b] = "destroyed")
      /\ parts'[b] = parts[b] \/ parts'[b] = "freed"
  BY <1>7
<1>. HIDE DEF f, j
<1>9. Created(f, reply', timer', delay', b)
  <2>1. /\ IsPending(f, Id(b, "tick")) => delay'[b] = "armed"
        /\ IsPending(f, Id(b, "timed")) => timer'[b] = "armed"
    BY <1>3, <1>7 DEF Created, IsPending
  <2>2. reply'[b] = "none" <=> reply[b] = "none"
    BY <1>8
  <2>. QED
    BY <1>4, <1>7, <2>1, <2>2, CreatedKept
<1>10. Reclaimed(f, reply', once', parts', clientAlive', b)
  <2>1. CASE b = a
    BY <2>1 DEF f
  <2>2. CASE b # a
    <3>1. \A k \in Objectual : ObjectJob(k, b) # j
      <4>1. \A k \in Objectual : AttemptOf(ObjectJob(k, b).next) = b /\ AttemptOf(j.next) = a
        BY IdGood DEF ObjectJob, Plain, Job, j, Names
      <4>. QED
        BY <2>2, <4>1
    <3>2. \A k \in Objectual : ObjectJob(k, b) \in Held(f) <=> ObjectJob(k, b) \in Held(loop)
      BY <1>3, <3>1
    <3>. QED
      BY <1>3, <1>7, <1>8, <2>2, <3>2 DEF Reclaimed, Objectual, Made, IsPending
  <2>. QED
    BY <2>1, <2>2
<1>11. Reported(f, reply', parts', b)
  <2>1. /\ reply[b] \in {"none", "destroyed"} => reply'[b] \in {"none", "destroyed"}
        /\ parts[b] \in {"none", "freed"} => parts'[b] \in {"none", "freed"}
    BY <1>8
  <2>2. IsSettled(f, Id(b, "timed")) => IsSettled(loop, Id(b, "timed"))
    BY <1>3 DEF IsSettled, IsFulfilled, IsRejected
  <2>3. IsSettled(f, Out(f, b)) => reply'[b] # "running"
    <3>1. Out(f, b) = Out(loop, b)
      BY <1>3 DEF Out, Made
    <3>2. IsSettled(f, Out(f, b)) => IsSettled(loop, Out(loop, b))
      BY <1>3, <3>1 DEF IsSettled, IsFulfilled, IsRejected
    <3>. QED
      BY <1>7, <1>8, <3>2 DEF Reported
  <2>4. RetryJob(b) \in Held(loop) => RetryJob(b) \in Held(f)
    <3>1. RetryJob(b).kind = "retry" /\ j.kind = kind
      BY DEF RetryJob, ObjectJob, Plain, Job, j
    <3>2. RetryJob(b) # j
      BY <3>1 DEF Objectual
    <3>. QED
      BY <1>3, <3>2
  <2>. QED
    BY <1>4, <1>7, <2>1, <2>2, <2>3, <2>4, ReportedKept
<1>12. Carried(f, b)
  <2>1. \A ex \in Values : AgainJob(b, ex) \in Held(f) => AgainJob(b, ex) \in Held(loop)
    BY <1>3
  <2>2. /\ \A n \in {"reply", "timed", "mapped", "result", "again"} :
              f.status[Id(b, n)] = loop.status[Id(b, n)] /\ f.value[Id(b, n)] = loop.value[Id(b, n)]
        /\ f.status[UserOf(b[1])] = loop.status[UserOf(b[1])]
        /\ f.value[UserOf(b[1])] = loop.value[UserOf(b[1])]
        /\ f.status[Result(NextAttempt(b))] = loop.status[Result(NextAttempt(b))]
        /\ f.value[Result(NextAttempt(b))] = loop.value[Result(NextAttempt(b))]
    BY <1>3
  <2>. QED
    BY <1>7, <2>1, <2>2, CarriedKept
<1>. QED
  BY <1>9, <1>10, <1>11, <1>12

\* What an event of an object is about.
LEMMA ObjectHead ==
    ASSUME IInv, NEW kind \in Objectual, Delivers(kind)
    PROVE  LET a == AttemptOf(Target) IN
           /\ loop.posted # <<>> /\ a \in Within /\ a \in Attempts
           /\ Current.job = ObjectJob(kind, a) /\ ObjectJob(kind, a) \in Held(loop)
           /\ Held(Popped(loop)) = Held(loop) \ {ObjectJob(kind, a)}
           /\ Popped(loop).status = loop.status
           /\ Reclaimed(loop, reply, once, parts, clientAlive, a)
<1>. DEFINE a == AttemptOf(Target)
<1>1. Wired(loop, {}, {}) /\ loop.posted # <<>> /\ Current.job.kind = kind
  BY DEF IInv, Sound, Delivers, Current
<1>2. /\ Current.job \in GoodJobs /\ Current.job \in Held(loop)
      /\ Held(Popped(loop)) = Held(loop) \ {Current.job}
      /\ Popped(loop).status = loop.status
  BY <1>1, PopWired DEF Current
<1>3. Current.job = ObjectJob(kind, a)
  BY <1>1, <1>2, Anatomy DEF Target
<1>4. a \in Within
  <2>1. kind # "decode"
    BY DEF Objectual
  <2>. QED
    BY <1>1, <1>2, <2>1, Anatomy DEF Target
<1>. QED
  BY <1>1, <1>2, <1>3, <1>4, IdGood DEF IInv, Names

\* The queued finished signal finds handleFinished done.
LEMMA FinishedSignalStep ==
    ASSUME IInv, FinishedSignal
    PROVE  IInv'
<1>. DEFINE a == AttemptOf(Target)
            k == "finished"
<1>1. k \in Objectual /\ Delivers(k)
  BY DEF FinishedSignal, Objectual
<1>2. /\ loop.posted # <<>> /\ a \in Within /\ a \in Attempts
      /\ Current.job = ObjectJob(k, a) /\ ObjectJob(k, a) \in Held(loop)
      /\ Held(Popped(loop)) = Held(loop) \ {ObjectJob(k, a)}
      /\ Popped(loop).status = loop.status
      /\ Reclaimed(loop, reply, once, parts, clientAlive, a)
  BY <1>1, ObjectHead
<1>3. a \in once
  BY <1>2 DEF Reclaimed
<1>4. loop' = Popped(loop) /\ once' = once /\ UNCHANGED <<reply, timer, delay, parts, clientAlive, retryAlive>>
  BY <1>3 DEF FinishedSignal, HandleFinished, Rest
<1>5. Reclaimed(loop', reply', once', parts', clientAlive', a)
  <2>1. \A kind \in Objectual \ {"finished"} : ObjectJob(kind, a) \in Held(loop') <=> ObjectJob(kind, a) \in Held(loop)
    <3>1. \A kind \in Objectual \ {"finished"} : ObjectJob(kind, a) # ObjectJob(k, a)
      BY DEF ObjectJob, Plain, Job
    <3>. QED
      BY <1>2, <1>4, <3>1
  <2>. QED
    BY <1>2, <1>3, <1>4, <2>1 DEF Reclaimed, Objectual, Made, IsPending
<1>6. /\ reply' \in [Attempts -> {"none", "running", "finished", "destroyed"}]
      /\ parts' \in [Attempts -> {"none", "owned", "orphan", "freed"}]
      /\ \A b \in Attempts : b # a => reply'[b] = reply[b] /\ parts'[b] = parts[b]
      /\ reply'[a] = reply[a] /\ parts'[a] = parts[a]
      /\ UNCHANGED <<once, timer, delay, clientAlive, retryAlive>>
  BY <1>4 DEF IInv, Sound
<1>. HIDE DEF k, a
<1>. QED
  BY <1>1, <1>2, <1>4, <1>5, <1>6, ObjectStep

\* A reply that is deleted takes its multipart with it.
LEMMA DeleteReplyStep ==
    ASSUME IInv, DeleteReply
    PROVE  IInv'
<1>. DEFINE a == AttemptOf(Target)
            k == "deleteReply"
<1>1. k \in Objectual /\ Delivers(k)
  BY DEF DeleteReply, Objectual
<1>2. /\ loop.posted # <<>> /\ a \in Within /\ a \in Attempts
      /\ Current.job = ObjectJob(k, a) /\ ObjectJob(k, a) \in Held(loop)
      /\ Held(Popped(loop)) = Held(loop) \ {ObjectJob(k, a)}
      /\ Popped(loop).status = loop.status
      /\ Reclaimed(loop, reply, once, parts, clientAlive, a)
  BY <1>1, ObjectHead
<1>3. a \in once /\ reply[a] # "none" /\ ObjectJob("deleteParts", a) \notin Held(loop)
      /\ parts[a] # "orphan" /\ Made(loop, Id(a, "reply"))
  BY <1>2 DEF Reclaimed
<1>4. /\ loop' = Popped(loop) /\ UNCHANGED <<once, timer, delay, clientAlive, retryAlive>>
      /\ reply' = [reply EXCEPT ![a] = "destroyed"]
      /\ parts' = [parts EXCEPT ![a] = IF @ = "owned" THEN "freed" ELSE @]
  BY DEF DeleteReply, Rest
<1>5. /\ reply \in [Attempts -> {"none", "running", "finished", "destroyed"}]
      /\ parts \in [Attempts -> {"none", "owned", "orphan", "freed"}]
  BY DEF IInv, Sound
<1>6. /\ reply' \in [Attempts -> {"none", "running", "finished", "destroyed"}]
      /\ parts' \in [Attempts -> {"none", "owned", "orphan", "freed"}]
      /\ \A b \in Attempts : b # a => reply'[b] = reply[b] /\ parts'[b] = parts[b]
      /\ reply'[a] = "destroyed" /\ parts'[a] # "owned" /\ parts'[a] # "orphan"
      /\ parts'[a] = parts[a] \/ parts'[a] = "freed"
  BY <1>2, <1>3, <1>4, <1>5
<1>7. Reclaimed(loop', reply', once', parts', clientAlive', a)
  <2>1. \A kind \in Objectual \ {"deleteReply"} : ObjectJob(kind, a) \in Held(loop') <=> ObjectJob(kind, a) \in Held(loop)
    <3>1. \A kind \in Objectual \ {"deleteReply"} : ObjectJob(kind, a) # ObjectJob(k, a)
      BY DEF ObjectJob, Plain, Job
    <3>. QED
      BY <1>2, <1>4, <3>1
  <2>2. ObjectJob("deleteReply", a) \notin Held(loop')
    BY <1>2, <1>4
  <2>3. once' = once /\ clientAlive' = clientAlive /\ loop'.status = loop.status
    BY <1>2, <1>4
  <2>. QED
    BY <1>2, <1>3, <1>6, <2>1, <2>2, <2>3 DEF Reclaimed, Objectual, Made, IsPending
<1>8. /\ reply'[a] = reply[a] \/ (reply[a] # "none" /\ reply'[a] = "destroyed")
      /\ parts'[a] = parts[a] \/ parts'[a] = "freed"
  BY <1>3, <1>6
<1>9. \A b \in Attempts : b # a => reply'[b] = reply[b] /\ parts'[b] = parts[b]
  BY <1>6
<1>10. /\ reply' \in [Attempts -> {"none", "running", "finished", "destroyed"}]
       /\ parts' \in [Attempts -> {"none", "owned", "orphan", "freed"}]
  BY <1>6
<1>11. loop' = Popped(loop) /\ UNCHANGED <<once, timer, delay, clientAlive, retryAlive>>
  BY <1>4
<1>. HIDE DEF k, a
<1>. QED
  BY <1>1, <1>2, <1>7, <1>8, <1>9, <1>10, <1>11, ObjectStep

\* Parts that no reply took over are deleted by themselves.
LEMMA DeletePartsStep ==
    ASSUME IInv, DeleteParts
    PROVE  IInv'
<1>. DEFINE a == AttemptOf(Target)
            k == "deleteParts"
<1>1. k \in Objectual /\ Delivers(k)
  BY DEF DeleteParts, Objectual
<1>2. /\ loop.posted # <<>> /\ a \in Within /\ a \in Attempts
      /\ Current.job = ObjectJob(k, a) /\ ObjectJob(k, a) \in Held(loop)
      /\ Held(Popped(loop)) = Held(loop) \ {ObjectJob(k, a)}
      /\ Popped(loop).status = loop.status
      /\ Reclaimed(loop, reply, once, parts, clientAlive, a)
  BY <1>1, ObjectHead
<1>3. reply[a] = "none" /\ parts[a] = "orphan" /\ Made(loop, Id(a, "reply"))
  BY <1>2 DEF Reclaimed
<1>4. /\ loop' = Popped(loop) /\ UNCHANGED <<reply, once, timer, delay, clientAlive, retryAlive>>
      /\ parts' = [parts EXCEPT ![a] = "freed"]
  BY DEF DeleteParts, Rest
<1>5. /\ reply \in [Attempts -> {"none", "running", "finished", "destroyed"}]
      /\ parts \in [Attempts -> {"none", "owned", "orphan", "freed"}]
  BY DEF IInv, Sound
<1>6. /\ reply' \in [Attempts -> {"none", "running", "finished", "destroyed"}]
      /\ parts' \in [Attempts -> {"none", "owned", "orphan", "freed"}]
      /\ \A b \in Attempts : b # a => reply'[b] = reply[b] /\ parts'[b] = parts[b]
      /\ reply'[a] = reply[a] /\ parts'[a] = "freed"
      /\ UNCHANGED <<once, timer, delay, clientAlive, retryAlive>>
  BY <1>2, <1>4, <1>5
<1>7. Reclaimed(loop', reply', once', parts', clientAlive', a)
  <2>1. \A kind \in Objectual \ {"deleteParts"} : ObjectJob(kind, a) \in Held(loop') <=> ObjectJob(kind, a) \in Held(loop)
    <3>1. \A kind \in Objectual \ {"deleteParts"} : ObjectJob(kind, a) # ObjectJob(k, a)
      BY DEF ObjectJob, Plain, Job
    <3>. QED
      BY <1>2, <1>4, <3>1
  <2>2. ObjectJob("deleteParts", a) \notin Held(loop')
    BY <1>2, <1>4
  <2>3. once' = once /\ clientAlive' = clientAlive /\ loop'.status = loop.status
    BY <1>2, <1>4
  <2>. QED
    BY <1>2, <1>3, <1>6, <2>1, <2>2, <2>3 DEF Reclaimed, Objectual, Made, IsPending
<1>. HIDE DEF k, a
<1>. QED
  BY <1>1, <1>2, <1>4, <1>6, <1>7, ObjectStep

\* The client goes, and every reply and the parts they own with it.
LEMMA DestroyClientStep ==
    ASSUME IInv, DestroyClient
    PROVE  IInv'
<1>1. /\ clientAlive /\ clientAlive' = FALSE /\ retryAlive' \in BOOLEAN
      /\ reply' = [a \in Attempts |-> IF reply[a] = "none" THEN "none" ELSE "destroyed"]
      /\ parts' = [a \in Attempts |-> IF parts[a] = "owned" THEN "freed" ELSE parts[a]]
      /\ loop' = loop /\ once' = once /\ timer' = timer /\ delay' = delay
  BY DEF DestroyClient, IInv, Sound
<1>2. /\ reply \in [Attempts -> {"none", "running", "finished", "destroyed"}]
      /\ parts \in [Attempts -> {"none", "owned", "orphan", "freed"}]
  BY DEF IInv, Sound
<1>3. \A b \in Attempts :
         /\ reply[b] = "none" => reply'[b] = "none"
         /\ reply[b] # "none" => reply'[b] = "destroyed"
         /\ parts[b] = "owned" => parts'[b] = "freed"
         /\ parts[b] # "owned" => parts'[b] = parts[b]
  BY <1>1
<1>4. /\ reply' \in [Attempts -> {"none", "running", "finished", "destroyed"}]
      /\ parts' \in [Attempts -> {"none", "owned", "orphan", "freed"}]
  BY <1>1, <1>2
<1>5. QuietAfterDestroy'
  <2>1. SUFFICES ASSUME NEW b \in Attempts
                 PROVE  reply'[b] \in {"none", "destroyed"} /\ parts'[b] \in {"none", "freed", "orphan"}
    BY DEF QuietAfterDestroy
  <2>. QED
    BY <1>2, <1>3
<1>6. Sound'
  <2>1. \A b \in Attempts \ Within : reply'[b] = "none" /\ timer'[b] = "none" /\ delay'[b] = "none"
                                     /\ parts'[b] = "none"
    BY <1>1, <1>3 DEF IInv, Sound
  <2>. QED
    BY <1>1, <1>4, <1>5, <2>1 DEF IInv, Sound
<1>7. SUFFICES ASSUME NEW b \in Within
               PROVE  /\ Created(loop, reply', timer, delay, b)
                      /\ Reclaimed(loop, reply', once, parts', clientAlive', b)
                      /\ Reported(loop, reply', parts', b)
                      /\ Carried(loop, b)
  BY <1>1, <1>6 DEF IInv
<1>8. /\ Created(loop, reply, timer, delay, b)
      /\ Reclaimed(loop, reply, once, parts, clientAlive, b)
      /\ Reported(loop, reply, parts, b)
      /\ Carried(loop, b) /\ b \in Attempts
  BY IdGood DEF IInv, Names
<1>9. Created(loop, reply', timer, delay, b)
  BY <1>3, <1>8 DEF Created
<1>10. Reclaimed(loop, reply', once, parts', clientAlive', b)
  BY <1>1, <1>2, <1>3, <1>8 DEF Reclaimed
<1>11. Reported(loop, reply', parts', b)
  BY <1>2, <1>3, <1>8 DEF Reported
<1>. QED
  BY <1>8, <1>9, <1>10, <1>11

\* The interceptor goes.
LEMMA DestroyRetryStep ==
    ASSUME IInv, DestroyRetry
    PROVE  IInv'
  BY DEF DestroyRetry, IInv, Sound, QuietAfterDestroy

\* The closures of an attempt settle promises of it.
LEMMA ClosuresOwn ==
    ASSUME NEW a \in Within, NEW j \in ClosuresOf(a)
    PROVE  j \in GoodJobs /\ AttemptOf(j.next) = a /\ j.kind # "decode"
<1>1. j \in GoodJobs
  BY DEF GoodJobs
<1>2. \A n \in Names : AttemptOf(Id(a, n)) = a
  BY IdGood
<1>3. CASE j \in {TimedJob(a), AbortJob(a), RetryJob(a), ArmJob(a), TickJob(a), ElapsedJob(a), ReturnJob(a)}
  BY <1>1, <1>2, <1>3 DEF TimedJob, AbortJob, RetryJob, ArmJob, TickJob, ElapsedJob, ReturnJob, Pass, Plain, Job, Names
<1>4. CASE j \in {ObjectJob(kind, a) : kind \in Objectual}
  BY <1>1, <1>2, <1>4 DEF ObjectJob, Plain, Job, Objectual, Names
<1>5. CASE j \in {NestJob(a)} \cup {AgainJob(a, ex) : ex \in Values}
  BY <1>1, <1>2, <1>5 DEF NestJob, AgainJob, Pass, Job, Names
<1>. QED
  BY <1>3, <1>4, <1>5 DEF ClosuresOf

\* An attempt of which a step touches nothing is as it was.
Untouched(e, f, b) ==
    /\ \A n \in Names \ {"user"} : f.status[Id(b, n)] = e.status[Id(b, n)] /\ f.value[Id(b, n)] = e.value[Id(b, n)]
    /\ b[2] = 1 => /\ f.status[UserOf(b[1])] = e.status[UserOf(b[1])]
                   /\ f.value[UserOf(b[1])] = e.value[UserOf(b[1])]
    /\ b[2] <= MaxRetries => /\ f.status[Result(NextAttempt(b))] = e.status[Result(NextAttempt(b))]
                             /\ f.value[Result(NextAttempt(b))] = e.value[Result(NextAttempt(b))]
    /\ \A j \in ClosuresOf(b) : j \in Held(f) <=> j \in Held(e)
    /\ \A ex \in Values : AgainJob(b, ex) \in Held(f) => AgainJob(b, ex) \in Held(e)

\* Everything that holds of it still does.
LEMMA UntouchedKept ==
    ASSUME NEW e, NEW f, NEW b \in Within, Untouched(e, f, b),
           NEW rp, NEW on, NEW tm, NEW dl, NEW pt, NEW al, NEW rp2, NEW on2, NEW tm2, NEW dl2, NEW pt2,
           rp2[b] = rp[b], b \in on2 <=> b \in on, tm2[b] = tm[b], dl2[b] = dl[b], pt2[b] = pt[b],
           Created(e, rp, tm, dl, b), Reclaimed(e, rp, on, pt, al, b), Reported(e, rp, pt, b), Carried(e, b)
    PROVE  /\ Created(f, rp2, tm2, dl2, b) /\ Reclaimed(f, rp2, on2, pt2, al, b)
           /\ Reported(f, rp2, pt2, b) /\ Carried(f, b)
<1>1. /\ f.status[Id(b, "reply")] = e.status[Id(b, "reply")] /\ f.value[Id(b, "reply")] = e.value[Id(b, "reply")]
      /\ f.status[Id(b, "timed")] = e.status[Id(b, "timed")] /\ f.value[Id(b, "timed")] = e.value[Id(b, "timed")]
      /\ f.status[Id(b, "mapped")] = e.status[Id(b, "mapped")] /\ f.value[Id(b, "mapped")] = e.value[Id(b, "mapped")]
      /\ f.status[Id(b, "result")] = e.status[Id(b, "result")] /\ f.value[Id(b, "result")] = e.value[Id(b, "result")]
      /\ f.status[Id(b, "again")] = e.status[Id(b, "again")] /\ f.value[Id(b, "again")] = e.value[Id(b, "again")]
      /\ f.status[Id(b, "tap")] = e.status[Id(b, "tap")]
      /\ f.status[Id(b, "tick")] = e.status[Id(b, "tick")]
      /\ f.status[Id(b, "delayed")] = e.status[Id(b, "delayed")]
      /\ f.status[Result(b)] = e.status[Result(b)] /\ f.value[Result(b)] = e.value[Result(b)]
  BY DEF Untouched, Names, Result
<1>2. /\ b[2] = 1 => /\ f.status[UserOf(b[1])] = e.status[UserOf(b[1])]
                     /\ f.value[UserOf(b[1])] = e.value[UserOf(b[1])]
      /\ b[2] <= MaxRetries => /\ f.status[Result(NextAttempt(b))] = e.status[Result(NextAttempt(b))]
                               /\ f.value[Result(NextAttempt(b))] = e.value[Result(NextAttempt(b))]
  BY DEF Untouched
<1>3. /\ RetryJob(b) \in Held(f) <=> RetryJob(b) \in Held(e)
      /\ ArmJob(b) \in Held(f) <=> ArmJob(b) \in Held(e)
      /\ ObjectJob("finished", b) \in Held(f) <=> ObjectJob("finished", b) \in Held(e)
      /\ ObjectJob("deleteReply", b) \in Held(f) <=> ObjectJob("deleteReply", b) \in Held(e)
      /\ ObjectJob("deleteParts", b) \in Held(f) <=> ObjectJob("deleteParts", b) \in Held(e)
      /\ b[2] <= MaxRetries => \A ex \in Values : AgainJob(b, ex) \in Held(f) <=> AgainJob(b, ex) \in Held(e)
  BY DEF Untouched, ClosuresOf, Objectual
<1>4. Nested(f, b) <=> Nested(e, b)
  BY <1>2 DEF Nested, Made
<1>5. Out(f, b) = Out(e, b) /\ f.status[Out(e, b)] = e.status[Out(e, b)] /\ f.value[Out(e, b)] = e.value[Out(e, b)]
  BY <1>1 DEF Out, Made
<1>6. Created(f, rp2, tm2, dl2, b)
  <2>1. Nested(e, b) => \A ex \in Values : AgainJob(b, ex) \in Held(f) <=> AgainJob(b, ex) \in Held(e)
    BY <1>3 DEF Nested
  <2>. QED
    BY <1>1, <1>2, <1>3, <1>4, <2>1 DEF Created, Made, IsPending
<1>7. Reclaimed(f, rp2, on2, pt2, al, b)
  BY <1>1, <1>3 DEF Reclaimed, Made, IsPending
<1>8. Reported(f, rp2, pt2, b)
  BY <1>1, <1>3, <1>5 DEF Reported, Made, IsSettled, IsFulfilled, IsRejected
<1>9. Carried(f, b)
  <2>1. \A n \in {"reply", "timed", "mapped", "result", "again"} :
           f.status[Id(b, n)] = e.status[Id(b, n)] /\ f.value[Id(b, n)] = e.value[Id(b, n)]
    BY <1>1
  <2>2. \A ex \in Values : AgainJob(b, ex) \in Held(f) => AgainJob(b, ex) \in Held(e)
    BY DEF Untouched
  <2>. QED
    BY <1>2, <2>1, <2>2, CarriedKept
<1>. QED
  BY <1>6, <1>7, <1>8, <1>9

\* A step within one attempt that leaves its result alone touches no other.
LEMMA OthersUntouched ==
    ASSUME NEW e, NEW f, NEW a \in Within, NEW b \in Within, b # a,
           \A j : ~(j \in Held(f) <=> j \in Held(e)) => AttemptOf(j.next) = a,
           \A q \in PromiseIds : AttemptOf(q) # a => f.status[q] = e.status[q] /\ f.value[q] = e.value[q],
           f.status[Result(a)] = e.status[Result(a)], f.value[Result(a)] = e.value[Result(a)]
    PROVE  Untouched(e, f, b)
<1>1. \A n \in Names : Id(b, n) \in PromiseIds /\ AttemptOf(Id(b, n)) = b
  BY IdGood
<1>2. UserOf(b[1]) \in PromiseIds /\ AttemptOf(UserOf(b[1])) # a
  BY UserGood DEF Within, AttemptOf
<1>3. b[2] <= MaxRetries => /\ f.status[Result(NextAttempt(b))] = e.status[Result(NextAttempt(b))]
                            /\ f.value[Result(NextAttempt(b))] = e.value[Result(NextAttempt(b))]
  <2>1. SUFFICES ASSUME b[2] <= MaxRetries
                 PROVE  /\ f.status[Result(NextAttempt(b))] = e.status[Result(NextAttempt(b))]
                        /\ f.value[Result(NextAttempt(b))] = e.value[Result(NextAttempt(b))]
    OBVIOUS
  <2>2. NextAttempt(b) \in Within /\ Result(NextAttempt(b)) \in PromiseIds
    BY <2>1, Neighbours
  <2>3. AttemptOf(Result(NextAttempt(b))) = NextAttempt(b)
    BY <2>2, IdGood DEF Result, Names
  <2>. QED
    BY <2>2, <2>3
<1>4. \A j \in ClosuresOf(b) : AttemptOf(j.next) = b
  BY ClosuresOwn
<1>5. \A ex \in Values : AttemptOf(AgainJob(b, ex).next) = b
  BY <1>1 DEF AgainJob, Job, Names
<1>. QED
  BY <1>1, <1>2, <1>3, <1>4, <1>5 DEF Untouched

\* The delay's tap makes the promise that its timer settles.
LEMMA ArmDelayStep ==
    ASSUME IInv, ArmDelay
    PROVE  IInv'
<1>. DEFINE j == Current.job
            a == AttemptOf(j.next)
            P == Id(a, "tap")
            K == Id(a, "tick")
            g == Popped(loop)
            h == New(g, K)
            f == Adopt(h, P, K)
            E == {}
            X == {K}
            Y == {P}
<1>1. /\ loop.posted # <<>> /\ j.kind = "arm" /\ Head(loop.posted).job = j
      /\ loop' = Adopt(h, j.next, K)
      /\ delay' = [delay EXCEPT ![a] = "armed"]
      /\ reply' = reply /\ once' = once /\ timer' = timer /\ parts' = parts
      /\ clientAlive' = clientAlive /\ retryAlive' = retryAlive
  BY DEF ArmDelay, Delivers, Current, Target, Rest
<1>2. Wired(loop, {}, {})
  BY DEF IInv, Sound
<1>3. j \in GoodJobs /\ j \in Held(loop)
  BY <1>1, <1>2, PopWired
<1>4. j \in Settling
  BY <1>1, <1>3 DEF Settling, Objectual
<1>5. a \in Within /\ j = ArmJob(a) /\ j.next = P
  BY <1>1, <1>3, Anatomy
<1>6. \A n \in Names : /\ Id(a, n) \in PromiseIds \ Beyond /\ Id(a, n)[3] = n /\ AttemptOf(Id(a, n)) = a
                       /\ a \in Attempts
  BY <1>5, IdGood
<1>7. /\ P \in PromiseIds /\ P[3] = "tap" /\ AttemptOf(P) = a
      /\ K \in PromiseIds \ Beyond /\ K[3] = "tick" /\ AttemptOf(K) = a /\ a \in Attempts
      /\ P # K
  BY <1>6 DEF Names
<1>. HIDE DEF j, P, K
<1>8. /\ Created(loop, reply, timer, delay, a) /\ Reclaimed(loop, reply, once, parts, clientAlive, a)
      /\ Reported(loop, reply, parts, a) /\ Carried(loop, a)
  BY <1>5 DEF IInv
<1>9. IsPending(loop, P)
  <2>1. Made(loop, j.next) /\ (j.next[3] # "timed" => IsPending(loop, j.next))
    BY <1>2, <1>3, <1>4 DEF Wired, Aimed
  <2>. QED
    BY <1>5, <1>7, <2>1
<1>10. loop.status[K] = "absent"
  BY <1>3, <1>5, <1>8 DEF Created, Made, K
<1>11. /\ Held(g) = Held(loop) \ {j} /\ g.status = loop.status /\ g.value = loop.value
       /\ Wired(g, E, Y)
  BY <1>1, <1>2, <1>4, <1>5, PopWired
<1>. HIDE DEF g
<1>12. /\ Wired(h, E \cup {K}, Y \cup {K}) /\ h.status = [g.status EXCEPT ![K] = "pending"]
       /\ h.value = g.value /\ Held(h) = Held(g)
  BY <1>7, <1>10, <1>11, NewWired
<1>13. /\ h.status[K] = "pending" /\ \A q \in PromiseIds : q # K => h.status[q] = loop.status[q]
       /\ h.value = loop.value
  <2>1. g.status \in [PromiseIds -> Statuses]
    BY <1>11, Parts DEF Wired
  <2>. QED
    BY <1>7, <1>11, <1>12, <2>1
<1>. HIDE DEF h, f, X, Y, E
<1>14. Wired(h, X, Y)
  <2>1. E \cup {K} = X
    BY DEF E, X
  <2>2. Wired(h, X, Y \cup {K})
    BY <1>12, <2>1
  <2>3. h \in Engines /\ X \subseteq {p \in PromiseIds : Made(h, p)} /\ Once(h.posted) /\ Orderly(h)
        /\ Listened(h, X) /\ Outspoken(h, X)
    BY <2>2 DEF Wired
  <2>4. Aimed(h, Y)
    BY <2>2 DEF Wired, Aimed
  <2>5. Awaited(h, Y)
    BY <1>7, <2>2 DEF Wired, Awaited
  <2>. QED
    BY <2>3, <2>4, <2>5 DEF Wired
<1>15. IsPending(h, K) /\ IsPending(h, P) /\ K \in X /\ P \in Y
  BY <1>7, <1>9, <1>13 DEF IsPending, X, Y
<1>16. Pass(P) = TickJob(a) /\ Pass(P) \in Reactions /\ Pass(P).next = P
  <2>1. Pass(P) = TickJob(a)
    BY DEF TickJob, P
  <2>2. Pass(P).next = P
    BY DEF Pass, Job
  <2>. QED
    BY <1>5, <2>1, <2>2, JobsGood
<1>17. Speaker(h, Pass(P)) = K
  BY <1>7 DEF Pass, Job, Speaker, SpeakerName, K
<1>18. Gains(h, Adopt(h, P, K), X \ {K}, Y, Pass(P))
  BY <1>7, <1>14, <1>15, <1>16, <1>17, AdoptPendingWired
<1>19. Gains(h, f, X \ {K}, Y, Pass(P))
  BY <1>18 DEF f
<1>20. /\ Wired(f, {}, {}) /\ Held(f) = (Held(loop) \ {j}) \cup {TickJob(a)}
       /\ f.status = h.status /\ f.value = loop.value
  <2>1. X \ {K} = {} /\ Y \ {P} = {}
    BY DEF X, Y
  <2>. QED
    BY <1>11, <1>12, <1>13, <1>16, <1>19, <2>1 DEF Gains
<1>21. loop' = f
  BY <1>1, <1>5 DEF f
<1>22. /\ f.status[K] = "pending" /\ \A q \in PromiseIds : q # K => f.status[q] = loop.status[q]
       /\ f.value = loop.value
  BY <1>13, <1>20
<1>23. /\ delay' \in [Attempts -> {"none", "armed", "fired"}] /\ delay'[a] = "armed"
       /\ \A b \in Attempts : b # a => delay'[b] = delay[b]
  <2>1. delay \in [Attempts -> {"none", "armed", "fired"}]
    BY DEF IInv, Sound
  <2>. QED
    BY <1>1, <1>7, <2>1
<1>24. Sound'
  <2>1. \A b \in Attempts \ Within : b # a
    BY <1>5
  <2>. QED
    BY <1>1, <1>20, <1>21, <1>23, <2>1 DEF IInv, Sound, QuietAfterDestroy
<1>25. SUFFICES ASSUME NEW b \in Within
                PROVE  /\ Created(f, reply, timer, delay', b)
                       /\ Reclaimed(f, reply, once, parts, clientAlive, b)
                       /\ Reported(f, reply, parts, b)
                       /\ Carried(f, b)
  BY <1>1, <1>21, <1>24 DEF IInv
<1>26. /\ Created(loop, reply, timer, delay, b) /\ Reclaimed(loop, reply, once, parts, clientAlive, b)
       /\ Reported(loop, reply, parts, b) /\ Carried(loop, b) /\ b \in Attempts
  BY IdGood DEF IInv, Names
<1>27. CASE b # a
  <2>1. \A k : ~(k \in Held(f) <=> k \in Held(loop)) => AttemptOf(k.next) = a
    <3>1. j.next = P /\ TickJob(a).next = P
      BY <1>5, <1>16
    <3>. QED
      BY <1>7, <1>20, <3>1
  <2>2. \A q \in PromiseIds : AttemptOf(q) # a => f.status[q] = loop.status[q] /\ f.value[q] = loop.value[q]
    BY <1>7, <1>22
  <2>3. f.status[Result(a)] = loop.status[Result(a)] /\ f.value[Result(a)] = loop.value[Result(a)]
    <3>1. Result(a) \in PromiseIds /\ Result(a) # K
      BY <1>6, <1>7 DEF Result, Names
    <3>. QED
      BY <1>22, <3>1
  <2>4. Untouched(loop, f, b)
    BY <1>5, <1>27, <2>1, <2>2, <2>3, OthersUntouched
  <2>5. delay'[b] = delay[b]
    BY <1>23, <1>26, <1>27
  <2>. QED
    BY <1>26, <2>4, <2>5, UntouchedKept
<1>28. CASE b = a
  <2>. HIDE DEF a
  <2>1. \A n \in Names \ {"tick"} : f.status[Id(a, n)] = loop.status[Id(a, n)] /\ f.value[Id(a, n)] = loop.value[Id(a, n)]
    BY <1>6, <1>7, <1>22
  <2>2. /\ f.status[Id(a, "reply")] = loop.status[Id(a, "reply")] /\ f.value[Id(a, "reply")] = loop.value[Id(a, "reply")]
        /\ f.status[Id(a, "timed")] = loop.status[Id(a, "timed")] /\ f.value[Id(a, "timed")] = loop.value[Id(a, "timed")]
        /\ f.status[Id(a, "mapped")] = loop.status[Id(a, "mapped")]
        /\ f.status[Id(a, "result")] = loop.status[Id(a, "result")]
        /\ f.status[Id(a, "again")] = loop.status[Id(a, "again")]
        /\ f.status[Id(a, "tap")] = loop.status[Id(a, "tap")]
        /\ f.status[Id(a, "delayed")] = loop.status[Id(a, "delayed")]
        /\ f.status[Result(a)] = loop.status[Result(a)] /\ f.value[Result(a)] = loop.value[Result(a)]
    BY <2>1 DEF Names, Result
  <2>3. /\ f.status[UserOf(a[1])] = loop.status[UserOf(a[1])] /\ f.value[UserOf(a[1])] = loop.value[UserOf(a[1])]
        /\ f.status[Result(NextAttempt(a))] = loop.status[Result(NextAttempt(a))]
        /\ f.value[Result(NextAttempt(a))] = loop.value[Result(NextAttempt(a))]
    <3>1. UserOf(a[1]) \in PromiseIds /\ UserOf(a[1])[3] = "user" /\ Result(NextAttempt(a)) \in PromiseIds
          /\ Result(NextAttempt(a))[3] = "result"
      BY <1>5, Neighbours
    <3>. QED
      BY <1>7, <1>22, <3>1
  <2>4. /\ TickJob(a).kind = "pass" /\ TickJob(a).next = P /\ j = ArmJob(a)
        /\ RetryJob(a).kind = "retry" /\ ArmJob(a).kind = "arm"
        /\ \A ex \in Values : AgainJob(a, ex).kind = "again"
        /\ \A kind \in Objectual : ObjectJob(kind, a).kind = kind
    BY <1>5, <1>16 DEF RetryJob, ArmJob, AgainJob, ObjectJob, Plain, Job, TickJob, Pass
  <2>5. /\ ArmJob(a) \notin Held(f)
        /\ RetryJob(a) \in Held(f) <=> RetryJob(a) \in Held(loop)
        /\ \A ex \in Values : AgainJob(a, ex) \in Held(f) <=> AgainJob(a, ex) \in Held(loop)
        /\ \A kind \in Objectual : ObjectJob(kind, a) \in Held(f) <=> ObjectJob(kind, a) \in Held(loop)
    <3>1. \A k : k.kind \notin {"pass", "arm"} => (k \in Held(f) <=> k \in Held(loop))
      BY <1>20, <2>4
    <3>. QED
      BY <1>20, <2>4, <3>1 DEF Objectual
  <2>6. Nested(f, a) <=> Nested(loop, a)
    BY <2>3 DEF Nested, Made
  <2>7. Created(f, reply, timer, delay', a)
    <3>1. Made(loop, Id(a, "tap"))
      BY <1>9 DEF P, Made, IsPending
    <3>. QED
      BY <1>8, <1>23, <2>2, <2>3, <2>5, <2>6, <3>1 DEF Created, Made, IsPending
  <2>8. Reclaimed(f, reply, once, parts, clientAlive, a)
    BY <1>8, <2>2, <2>5 DEF Reclaimed, Objectual, Made, IsPending
  <2>9. Reported(f, reply, parts, a)
    <3>1. Out(f, a) = Out(loop, a) /\ f.status[Out(loop, a)] = loop.status[Out(loop, a)]
      BY <2>2 DEF Out, Made
    <3>. QED
      BY <1>8, <2>2, <2>5, <3>1 DEF Reported, Made, IsSettled, IsFulfilled, IsRejected
  <2>10. Carried(f, a)
    <3>1. \A n \in {"reply", "timed", "mapped", "result", "again"} :
             f.status[Id(a, n)] = loop.status[Id(a, n)] /\ f.value[Id(a, n)] = loop.value[Id(a, n)]
      BY <2>1 DEF Names
    <3>2. \A ex \in Values : AgainJob(a, ex) \in Held(f) => AgainJob(a, ex) \in Held(loop)
      BY <2>5
    <3>. QED
      BY <1>5, <1>8, <2>3, <3>1, <3>2, CarriedKept
  <2>. QED
    BY <1>28, <2>7, <2>8, <2>9, <2>10
<1>. QED
  BY <1>27, <1>28

\* The retry's catcher starts the delay; what it returns is what follows it.
LEMMA RetryDelayStep ==
    ASSUME IInv, RetryDelay
    PROVE  IInv'
<1>. DEFINE j == Current.job
            ex == Current.val
            a == AttemptOf(j.next)
            P == Id(a, "tap")
            D == Id(a, "delayed")
            G == Id(a, "again")
            g == Popped(loop)
            f == loop'
<1>1. /\ loop.posted # <<>> /\ j.kind = "retry" /\ ~Current.ok /\ Head(loop.posted).job = j
      /\ ~(j.left <= 0) /\ ex \in Retryable
      /\ loop' = Adopt(DelayedRetry(g, a, j.left, ex), j.next, G)
      /\ UNCHANGED Objects
  BY DEF RetryDelay, GivesUp, Delivers, Current, Target, Rest
<1>2. Wired(loop, {}, {})
  BY DEF IInv, Sound
<1>3. j \in GoodJobs /\ j \in Held(loop)
  BY <1>1, <1>2, PopWired
<1>4. j \in Settling /\ j \in Reactions
  BY <1>1, <1>3 DEF Settling, Reactions, Objectual
<1>5. a \in Within /\ j = RetryJob(a) /\ j.next = Id(a, "result")
  BY <1>1, <1>3, Anatomy
<1>6. \A n \in Names : /\ Id(a, n) \in PromiseIds \ Beyond /\ Id(a, n)[3] = n /\ AttemptOf(Id(a, n)) = a
                       /\ a \in Attempts
  BY <1>5, IdGood
<1>7. Result(a) = Id(a, "result") /\ Result(a) \in PromiseIds /\ Result(a) \notin {P, D, G}
  BY <1>6 DEF Names, Result
<1>8. a[2] <= MaxRetries /\ j.left = MaxRetries + 1 - a[2]
  <2>1. j.left = MaxRetries + 1 - a[2]
    BY <1>5 DEF RetryJob, Job
  <2>2. a[2] \in 1..(MaxRetries + 1)
    BY <1>5 DEF Within
  <2>. QED
    BY <1>1, <2>1, <2>2
<1>9. /\ Created(loop, reply, timer, delay, a) /\ Reclaimed(loop, reply, once, parts, clientAlive, a)
      /\ Reported(loop, reply, parts, a) /\ Carried(loop, a)
  BY <1>5 DEF IInv
<1>10. /\ IsRejected(loop, Out(loop, a)) /\ ex = loop.value[Out(loop, a)] /\ ex \in Values
       /\ IsPending(loop, Result(a))
  <2>1. Speaker(loop, j) = Out(loop, a)
    BY <1>1 DEF Speaker
  <2>2. LET h == Head(loop.posted)
            p == Speaker(loop, h.job)
        IN  /\ p \in PromiseIds /\ IsSettled(loop, p) /\ h.val = loop.value[p]
            /\ h.ok \in BOOLEAN /\ h.val \in Values
            /\ h.ok <=> IsFulfilled(loop, p)
            /\ h.job \in Held(loop) /\ Made(loop, h.job.next)
            /\ h.job.next[3] # "timed" => IsPending(loop, h.job.next)
    BY <1>1, <1>2, <1>4, HeadSpeaks
  <2>3. j.next[3] = "result"
    BY <1>5, <1>6 DEF Names
  <2>. QED
    BY <1>1, <1>5, <1>7, <2>1, <2>2, <2>3 DEF Current, IsSettled
<1>. HIDE DEF j, ex, f
<1>11. /\ ~Made(loop, P) /\ ~Made(loop, D) /\ ~Made(loop, G) /\ ~Made(loop, Id(a, "tick"))
  BY <1>3, <1>5, <1>9 DEF Created
<1>12. /\ Held(g) = Held(loop) \ {j} /\ g.status = loop.status /\ g.value = loop.value
       /\ Wired(g, {}, {Id(a, "result")})
  BY <1>1, <1>2, <1>4, <1>5, PopWired
<1>. HIDE DEF g
<1>13. IsPending(g, Id(a, "result")) /\ ~Made(g, P) /\ ~Made(g, D) /\ ~Made(g, G)
  BY <1>7, <1>10, <1>11, <1>12 DEF IsPending, Made
<1>14. Delays(g, Adopt(DelayedRetry(g, a, MaxRetries + 1 - a[2], ex), Id(a, "result"), Id(a, "again")), a, ex)
  BY <1>5, <1>8, <1>10, <1>12, <1>13, DelayWired
<1>15. Delays(g, f, a, ex)
  BY <1>1, <1>5, <1>8, <1>14 DEF f
<1>16. /\ Wired(f, {}, {})
       /\ Held(f) = (Held(loop) \ {RetryJob(a)}) \cup {ArmJob(a), ElapsedJob(a), AgainJob(a, ex), ReturnJob(a)}
       /\ \A q \in PromiseIds \ {P, D, G} : f.status[q] = loop.status[q]
       /\ IsPending(f, P) /\ IsPending(f, D) /\ IsPending(f, G)
       /\ f.value = loop.value
  BY <1>5, <1>12, <1>15 DEF Delays
<1>17. /\ reply' = reply /\ once' = once /\ timer' = timer /\ delay' = delay /\ parts' = parts
       /\ clientAlive' = clientAlive /\ retryAlive' = retryAlive
  BY <1>1 DEF Objects
<1>18. Sound'
  BY <1>16, <1>17 DEF IInv, Sound, QuietAfterDestroy, f
<1>19. SUFFICES ASSUME NEW b \in Within
                PROVE  /\ Created(f, reply, timer, delay, b)
                       /\ Reclaimed(f, reply, once, parts, clientAlive, b)
                       /\ Reported(f, reply, parts, b)
                       /\ Carried(f, b)
  BY <1>17, <1>18 DEF IInv, f
<1>20. /\ Created(loop, reply, timer, delay, b) /\ Reclaimed(loop, reply, once, parts, clientAlive, b)
       /\ Reported(loop, reply, parts, b) /\ Carried(loop, b)
  BY DEF IInv
<1>21. CASE b # a
  <2>1. \A k : ~(k \in Held(f) <=> k \in Held(loop)) => AttemptOf(k.next) = a
    <3>1. \A k \in {RetryJob(a), ArmJob(a), ElapsedJob(a), AgainJob(a, ex), ReturnJob(a)} : AttemptOf(k.next) = a
      BY <1>6 DEF RetryJob, ArmJob, ElapsedJob, AgainJob, ReturnJob, Pass, Plain, Job, Names
    <3>. QED
      BY <1>16, <3>1
  <2>2. \A q \in PromiseIds : AttemptOf(q) # a => f.status[q] = loop.status[q] /\ f.value[q] = loop.value[q]
    <3>1. AttemptOf(P) = a /\ AttemptOf(D) = a /\ AttemptOf(G) = a
      BY <1>6 DEF Names
    <3>. QED
      BY <1>16, <3>1
  <2>3. f.status[Result(a)] = loop.status[Result(a)] /\ f.value[Result(a)] = loop.value[Result(a)]
    BY <1>7, <1>16
  <2>4. Untouched(loop, f, b)
    BY <1>5, <1>21, <2>1, <2>2, <2>3, OthersUntouched
  <2>. QED
    BY <1>20, <2>4, UntouchedKept
<1>22. CASE b = a
  <2>1. \A n \in {"reply", "timed", "mapped", "result", "tick"} :
           f.status[Id(a, n)] = loop.status[Id(a, n)] /\ f.value[Id(a, n)] = loop.value[Id(a, n)]
    BY <1>6, <1>16 DEF Names
  <2>2. /\ f.status[Id(a, "reply")] = loop.status[Id(a, "reply")]
        /\ f.status[Id(a, "timed")] = loop.status[Id(a, "timed")]
        /\ f.status[Id(a, "mapped")] = loop.status[Id(a, "mapped")]
        /\ f.status[Id(a, "tick")] = loop.status[Id(a, "tick")]
        /\ f.status[Result(a)] = loop.status[Result(a)] /\ f.value = loop.value
    BY <1>16, <2>1 DEF Result
  <2>3. /\ f.status[UserOf(a[1])] = loop.status[UserOf(a[1])]
        /\ f.status[Result(NextAttempt(a))] = loop.status[Result(NextAttempt(a))]
    <3>1. UserOf(a[1]) \in PromiseIds /\ UserOf(a[1])[3] = "user" /\ Result(NextAttempt(a)) \in PromiseIds
          /\ Result(NextAttempt(a))[3] = "result"
      BY <1>5, Neighbours
    <3>2. P[3] = "tap" /\ D[3] = "delayed" /\ G[3] = "again"
      BY <1>6 DEF Names
    <3>. QED
      BY <1>16, <3>1, <3>2
  <2>4. Nested(f, a) <=> Nested(loop, a)
    BY <2>3 DEF Nested, Made
  <2>5. ~Nested(loop, a)
    BY <1>9, <1>11 DEF Created
  <2>6. /\ RetryJob(a).kind = "retry" /\ ArmJob(a).kind = "arm" /\ ElapsedJob(a).kind = "elapsed"
        /\ ReturnJob(a).kind = "pass"
        /\ \A x \in Values : AgainJob(a, x).kind = "again" /\ AgainJob(a, x).saved = x /\ AgainJob(a, x).next = G
        /\ \A kind \in Objectual : ObjectJob(kind, a).kind = kind
    BY DEF RetryJob, ArmJob, AgainJob, ElapsedJob, ReturnJob, ObjectJob, Plain, Job, Pass
  <2>7. RetryJob(a) \notin Held(f)
    BY <1>10, <1>16, <2>6
  <2>8. \A kind \in Objectual : ObjectJob(kind, a) \in Held(f) <=> ObjectJob(kind, a) \in Held(loop)
    <3>1. \A k : k.kind \in Objectual => (k \in Held(f) <=> k \in Held(loop))
      BY <1>10, <1>16, <2>6 DEF Objectual
    <3>. QED
      BY <2>6, <3>1
  <2>9. Created(f, reply, timer, delay, a)
    <3>1. Made(f, P) /\ Made(f, D) /\ Made(f, G)
      BY <1>16 DEF Made, IsPending
    <3>2. Made(f, Result(a)) /\ ~Made(f, Id(a, "tick"))
      BY <1>10, <1>11, <2>2 DEF Made, IsPending
    <3>. QED
      BY <1>9, <2>2, <2>3, <2>4, <2>5, <2>7, <3>1, <3>2 DEF Created, Made, IsPending
  <2>10. Reclaimed(f, reply, once, parts, clientAlive, a)
    BY <1>9, <2>2, <2>8 DEF Reclaimed, Objectual, Made, IsPending
  <2>11. Out(f, a) = Out(loop, a) /\ f.status[Out(loop, a)] = loop.status[Out(loop, a)]
    BY <2>2 DEF Out, Made
  <2>12. Reported(f, reply, parts, a)
    <3>1. reply[a] \in {"none", "destroyed"} /\ parts[a] \in {"none", "freed"}
      BY <1>1, <1>5, NothingLeft
    <3>2. IsSettled(f, Out(f, a))
      BY <1>10, <2>11 DEF IsSettled, IsFulfilled, IsRejected
    <3>. QED
      BY <1>9, <2>2, <3>1, <3>2 DEF Reported, IsSettled, IsFulfilled, IsRejected
  <2>13. Carried(f, a)
    <3>1. ~IsSettled(f, Result(a)) /\ ~IsSettled(loop, Result(a)) /\ ~IsSettled(f, G)
      BY <1>10, <1>16, <2>2 DEF IsSettled, IsFulfilled, IsRejected, IsPending
    <3>2. IsRejected(f, Out(f, a)) /\ f.value[Out(f, a)] \in Retryable
      BY <1>1, <1>10, <2>2, <2>11 DEF IsRejected
    <3>3. \A x \in Values : AgainJob(a, x) \in Held(f) => x = f.value[Out(f, a)]
      <4>1. SUFFICES ASSUME NEW x \in Values, AgainJob(a, x) \in Held(f) PROVE x = ex
        BY <1>10, <2>2, <2>11
      <4>2. AgainJob(a, x) \notin Held(loop)
        <5>1. SUFFICES ASSUME AgainJob(a, x) \in Held(loop) PROVE FALSE
          OBVIOUS
        <5>2. AgainJob(a, x) \in Settling
          BY <1>5, <1>8, JobsGood
        <5>. QED
          BY <1>2, <1>11, <2>6, <5>1, <5>2 DEF Wired, Aimed
      <4>. QED
        BY <1>10, <1>16, <2>6, <4>1, <4>2
    <3>4. \A n \in {"reply", "timed", "mapped"} : IsFulfilled(f, Id(a, n)) <=> f.value[Id(a, n)] = "data"
      BY <1>9, <2>1 DEF Carried, IsFulfilled
    <3>5. a[2] = 1 => ~IsSettled(f, UserOf(a[1]))
      BY <1>9, <2>3, <3>1 DEF Carried, IsSettled, IsFulfilled, IsRejected
    <3>. QED
      BY <3>1, <3>2, <3>3, <3>4, <3>5 DEF Carried
  <2>. QED
    BY <1>22, <2>9, <2>10, <2>12, <2>13
<1>. QED
  BY <1>21, <1>22

\* Nothing exists of an attempt whose result does not.
LEMMA Unstarted ==
    ASSUME IInv, NEW a \in Within, ~Made(loop, Result(a)), NEW e, e.status = loop.status, Held(e) \subseteq Held(loop)
    PROVE  /\ Fresh(e, a) /\ a \notin once /\ ~Nested(loop, a)
           /\ reply[a] = "none" /\ parts[a] = "none"
           /\ \A n \in Names \ {"user"} : loop.status[Id(a, n)] = "absent"
           /\ \A ex \in Values : AgainJob(a, ex) \notin Held(loop)
           /\ \A kind \in Objectual : ObjectJob(kind, a) \notin Held(loop)
<1>1. /\ Created(loop, reply, timer, delay, a) /\ Reclaimed(loop, reply, once, parts, clientAlive, a)
      /\ Wired(loop, {}, {})
  BY DEF IInv, Sound
<1>2. \A n \in Names \ {"user"} : ~Made(loop, Id(a, n))
  <2>1. ~Made(loop, Id(a, "result"))
    BY DEF Result
  <2>2. /\ ~Made(loop, Id(a, "reply")) /\ ~Made(loop, Id(a, "timed")) /\ ~Made(loop, Id(a, "mapped"))
        /\ ~Made(loop, Id(a, "tap")) /\ ~Made(loop, Id(a, "delayed")) /\ ~Made(loop, Id(a, "again"))
        /\ ~Made(loop, Id(a, "tick"))
    BY <1>1 DEF Created
  <2>. QED
    BY <2>1, <2>2 DEF Names
<1>3. reply[a] = "none" /\ parts[a] = "none" /\ a \notin once
      /\ \A kind \in Objectual : ObjectJob(kind, a) \notin Held(loop)
  <2>1. reply[a] = "none" /\ parts[a] = "none" /\ a \notin once
    BY <1>1, <1>2 DEF Reclaimed, Names
  <2>. QED
    BY <1>1, <2>1 DEF Reclaimed, Objectual
<1>4. ~Nested(loop, a)
  BY <1>1, <1>2 DEF Created, Names
<1>5. ASSUME NEW ex \in Values, AgainJob(a, ex) \in Held(loop) PROVE FALSE
  <2>1. AgainJob(a, ex) \in GoodJobs
    BY <1>1, <1>5, Parts DEF Wired
  <2>2. AgainJob(a, ex).kind = "again" /\ AgainJob(a, ex).next = Id(a, "again")
    BY DEF AgainJob, Job
  <2>3. AgainJob(a, ex) \in Settling
    BY <2>1, <2>2 DEF Settling, Objectual
  <2>4. Made(loop, Id(a, "again"))
    BY <1>1, <1>5, <2>2, <2>3 DEF Wired, Aimed
  <2>. QED
    BY <1>2, <2>4 DEF Names
<1>6. Fresh(e, a)
  BY <1>2, <1>3 DEF Fresh, Made
<1>. QED
  BY <1>2, <1>3, <1>4, <1>5, <1>6 DEF Made

\* What the terminus of a request may do.
LEMMA ChoicesGood ==
    ASSUME NEW r \in Requests, NEW c \in Choices(r)
    PROVE  /\ c \in AllChoices
           /\ ~clientAlive => c.stage = "gone"
           /\ c.stage \in Stages
           /\ c.stage = "running" => c.val = Nothing
  BY DEF Choices, AllChoices, Choice, Stages

\* An attempt has begun.
Begins(e, f, a, c) ==
    LET R == Id(a, "reply")
        T == Id(a, "timed")
        M == Id(a, "mapped")
        bounded == Sent(c) /\ a[1] \in Timed
    IN  /\ IsPending(f, Result(a))
        /\ c.stage = "running" => IsPending(f, R) /\ f.value[R] = e.value[R]
        /\ c.stage # "running" => /\ IsSettled(f, R) /\ f.value[R] = c.val
                                  /\ IsFulfilled(f, R) <=> c.val = "data"
        /\ ~bounded => /\ ~Made(f, T) /\ f.value[T] = e.value[T]
                       /\ ~Made(f, M) /\ f.value[M] = e.value[M]
        /\ bounded => /\ IsPending(f, M) /\ f.value[M] = e.value[M]
                      /\ c.stage = "running" => IsPending(f, T) /\ f.value[T] = e.value[T]
                      /\ c.stage # "running" => f.status[T] = f.status[R] /\ f.value[T] = f.value[R]
        /\ RetryJob(a) \in Held(f)
        /\ \A kind \in Objectual : ObjectJob(kind, a) \in Held(f) <=> ObjectJob(kind, a) \in Remains(a, c)
        /\ \A ex \in Values : AgainJob(a, ex) \notin Held(f)
        /\ \A n \in {"tap", "tick", "delayed", "again"} : ~Made(f, Id(a, n))
        /\ ~Nested(f, a)
        /\ a[2] = 1 => IsPending(f, UserOf(a[1]))

\* Sending and what listens to the result, put together, begin the attempt.
LEMMA SendsBegins ==
    ASSUME IInv, NEW a \in Within, ~Made(loop, Result(a)),
           NEW e, e.status = loop.status, e.value = loop.value, Held(e) \subseteq Held(loop),
           NEW c \in AllChoices, NEW h, NEW Y, Sends(e, h, Y, a, c), NEW f,
           \A n \in Names \ {"user"} : f.status[Id(a, n)] = h.status[Id(a, n)] /\ f.value[Id(a, n)] = h.value[Id(a, n)],
           a[2] <= MaxRetries => f.status[Result(NextAttempt(a))] = h.status[Result(NextAttempt(a))],
           NEW k \in Reactions, AttemptOf(k.next) # a, Held(f) = Held(h) \cup {k},
           a[2] = 1 => IsPending(f, UserOf(a[1]))
    PROVE  Begins(loop, f, a, c)
<1>. DEFINE R == Id(a, "reply")
            T == Id(a, "timed")
            M == Id(a, "mapped")
            S == Id(a, "result")
            bounded == Sent(c) /\ a[1] \in Timed
<1>1. /\ ~Nested(loop, a)
      /\ \A n \in Names \ {"user"} : loop.status[Id(a, n)] = "absent"
      /\ \A ex \in Values : AgainJob(a, ex) \notin Held(loop)
      /\ \A kind \in Objectual : ObjectJob(kind, a) \notin Held(loop)
  BY Unstarted
<1>2. \A n \in Names : Id(a, n) \in PromiseIds /\ Id(a, n)[3] = n /\ AttemptOf(Id(a, n)) = a
  BY IdGood
<1>3. /\ Held(e) \cup {RetryJob(a)} \cup Remains(a, c) \subseteq Held(h)
      /\ Held(h) \subseteq Held(e) \cup {RetryJob(a), AbortJob(a), TimedJob(a)} \cup Remains(a, c)
      /\ \A q \in PromiseIds \ {R, T, M, S} : h.status[q] = e.status[q] /\ h.value[q] = e.value[q]
      /\ IsPending(h, S)
      /\ c.stage = "running" => IsPending(h, R) /\ h.value[R] = e.value[R]
      /\ c.stage # "running" => /\ IsSettled(h, R) /\ h.value[R] = c.val
                                /\ IsFulfilled(h, R) <=> c.val = "data"
      /\ ~bounded => /\ h.status[T] = e.status[T] /\ h.value[T] = e.value[T]
                     /\ h.status[M] = e.status[M] /\ h.value[M] = e.value[M]
      /\ bounded => /\ IsPending(h, M) /\ h.value[M] = e.value[M]
                    /\ c.stage = "running" => IsPending(h, T) /\ h.value[T] = e.value[T]
                    /\ c.stage # "running" => h.status[T] = h.status[R] /\ h.value[T] = h.value[R]
  BY DEF Sends
<1>4. /\ f.status[R] = h.status[R] /\ f.value[R] = h.value[R] /\ f.status[T] = h.status[T] /\ f.value[T] = h.value[T]
      /\ f.status[M] = h.status[M] /\ f.value[M] = h.value[M] /\ f.status[S] = h.status[S] /\ S = Result(a)
      /\ loop.status[T] = "absent" /\ loop.status[M] = "absent"
  BY <1>1 DEF Names, Result
<1>5. /\ RetryJob(a).kind = "retry" /\ AbortJob(a).kind = "abort" /\ TimedJob(a).kind = "pass"
      /\ \A ex \in Values : AgainJob(a, ex).kind = "again" /\ AttemptOf(AgainJob(a, ex).next) = a
      /\ \A kind \in Objectual : ObjectJob(kind, a).kind = kind
      /\ \A j \in Remains(a, c) : j.kind \in Objectual
      /\ k.kind \notin Objectual
  <2>1. k.kind \notin Objectual
    BY DEF Reactions
  <2>2. \A j \in Remains(a, c) : j.kind \in Objectual
    BY DEF Remains, ObjectJob, Plain, Job, Objectual
  <2>3. \A ex \in Values : AgainJob(a, ex).kind = "again" /\ AttemptOf(AgainJob(a, ex).next) = a
    BY <1>2 DEF AgainJob, Job, Names
  <2>. QED
    BY <2>1, <2>2, <2>3 DEF RetryJob, AbortJob, TimedJob, ObjectJob, Plain, Job, Pass
<1>6. \A kind \in Objectual : ObjectJob(kind, a) \in Held(f) <=> ObjectJob(kind, a) \in Remains(a, c)
  <2>1. SUFFICES ASSUME NEW kind \in Objectual
                 PROVE  ObjectJob(kind, a) \in Held(f) <=> ObjectJob(kind, a) \in Remains(a, c)
    OBVIOUS
  <2>2. /\ ObjectJob(kind, a) \notin Held(e) /\ ObjectJob(kind, a) # k
        /\ ObjectJob(kind, a) \notin {RetryJob(a), AbortJob(a), TimedJob(a)}
    BY <1>1, <1>5 DEF Objectual
  <2>. QED
    BY <1>3, <2>2
<1>7. \A ex \in Values : AgainJob(a, ex) \notin Held(f)
  <2>1. SUFFICES ASSUME NEW ex \in Values PROVE AgainJob(a, ex) \notin Held(f)
    OBVIOUS
  <2>2. /\ AgainJob(a, ex) \notin Held(e) /\ AgainJob(a, ex) # k
        /\ AgainJob(a, ex) \notin {RetryJob(a), AbortJob(a), TimedJob(a)}
        /\ AgainJob(a, ex) \notin Remains(a, c)
    BY <1>1, <1>5 DEF Objectual
  <2>. QED
    BY <1>3, <2>2
<1>8. \A n \in {"tap", "tick", "delayed", "again"} : ~Made(f, Id(a, n))
  <2>1. SUFFICES ASSUME NEW n \in {"tap", "tick", "delayed", "again"} PROVE ~Made(f, Id(a, n))
    OBVIOUS
  <2>2. n \in Names \ {"user"} /\ Id(a, n) \in PromiseIds \ {R, T, M, S}
    BY <1>2 DEF Names
  <2>. QED
    BY <1>1, <1>3, <2>2 DEF Made
<1>9. ~Nested(f, a)
  <2>1. SUFFICES ASSUME a[2] <= MaxRetries PROVE ~Made(f, Result(NextAttempt(a)))
    BY DEF Nested
  <2>2. NextAttempt(a) \in Within /\ Result(NextAttempt(a)) \in PromiseIds /\ Result(NextAttempt(a)) # Result(a)
        /\ Result(NextAttempt(a))[3] = "result"
    BY <2>1, Neighbours
  <2>3. Result(NextAttempt(a)) \notin {R, T, M, S}
    BY <1>2, <2>2 DEF Names, Result
  <2>. QED
    BY <1>1, <1>3, <2>1, <2>2, <2>3 DEF Nested, Made
<1>10. RetryJob(a) \in Held(f)
  BY <1>3
<1>. HIDE DEF R, T, M, S
<1>11. /\ IsPending(f, Result(a))
       /\ c.stage = "running" => IsPending(f, R) /\ f.value[R] = loop.value[R]
       /\ c.stage # "running" => /\ IsSettled(f, R) /\ f.value[R] = c.val
                                 /\ IsFulfilled(f, R) <=> c.val = "data"
  BY <1>3, <1>4 DEF IsPending, IsSettled, IsFulfilled, IsRejected
<1>12. ~bounded => /\ ~Made(f, T) /\ f.value[T] = loop.value[T]
                   /\ ~Made(f, M) /\ f.value[M] = loop.value[M]
  BY <1>3, <1>4 DEF Made
<1>13. bounded => /\ IsPending(f, M) /\ f.value[M] = loop.value[M]
                  /\ c.stage = "running" => IsPending(f, T) /\ f.value[T] = loop.value[T]
                  /\ c.stage # "running" => f.status[T] = f.status[R] /\ f.value[T] = f.value[R]
  BY <1>3, <1>4 DEF IsPending
<1>. QED
  BY <1>6, <1>7, <1>8, <1>9, <1>10, <1>11, <1>12, <1>13 DEF Begins, R, T, M

\* A step changes nothing but the promises in Q.
Moves(e, f, Q) ==
    \A q \in PromiseIds \ Q : f.status[q] = e.status[q] /\ f.value[q] = e.value[q]

\* Attempt a starts, with what its terminus came to.
Opens(a, c, Q) ==
    /\ c \in Choices(a[1]) /\ Launch(a, c) /\ Begins(loop, loop', a, c)
    /\ Moves(loop, loop', {Id(a, "reply"), Id(a, "timed"), Id(a, "mapped"), Result(a)} \cup Q)

\* The objects an attempt starts with, and what holds of it then.
LEMMA Launched ==
    ASSUME IInv, NEW a \in Within, ~Made(loop, Result(a)), NEW c \in Choices(a[1]),
           Launch(a, c), Wired(loop', {}, {}), Begins(loop, loop', a, c)
    PROVE  /\ Sound'
           /\ Created(loop', reply', timer', delay', a)
           /\ Reclaimed(loop', reply', once', parts', clientAlive', a)
           /\ Reported(loop', reply', parts', a) /\ Carried(loop', a)
           /\ clientAlive' = clientAlive /\ delay' = delay
           /\ \A b \in Within : b # a => /\ reply'[b] = reply[b] /\ (b \in once' <=> b \in once)
                                         /\ timer'[b] = timer[b] /\ parts'[b] = parts[b]
<1>. DEFINE f == loop'
            R == Id(a, "reply")
            T == Id(a, "timed")
            M == Id(a, "mapped")
            U == UserOf(a[1])
            bounded == Sent(c) /\ a[1] \in Timed
<1>1. /\ a \notin once /\ reply[a] = "none" /\ parts[a] = "none" /\ a \in Attempts
      /\ \A n \in Names \ {"user"} : loop.status[Id(a, n)] = "absent"
  BY Unstarted, IdGood DEF Names
<1>2. /\ c \in AllChoices /\ c.stage \in Stages
      /\ ~clientAlive => c.stage = "gone"
  <2>1. a[1] \in Requests
    BY DEF Within
  <2>. QED
    BY <2>1, ChoicesGood
<1>3. /\ IsPending(f, Result(a))
      /\ c.stage = "running" => IsPending(f, R) /\ f.value[R] = loop.value[R]
      /\ c.stage # "running" => /\ IsSettled(f, R) /\ f.value[R] = c.val
                                /\ IsFulfilled(f, R) <=> c.val = "data"
      /\ ~bounded => /\ ~Made(f, T) /\ f.value[T] = loop.value[T]
                     /\ ~Made(f, M) /\ f.value[M] = loop.value[M]
      /\ bounded => /\ IsPending(f, M) /\ f.value[M] = loop.value[M]
                    /\ c.stage = "running" => IsPending(f, T) /\ f.value[T] = loop.value[T]
                    /\ c.stage # "running" => f.status[T] = f.status[R] /\ f.value[T] = f.value[R]
      /\ RetryJob(a) \in Held(f)
      /\ \A kind \in Objectual : ObjectJob(kind, a) \in Held(f) <=> ObjectJob(kind, a) \in Remains(a, c)
      /\ \A ex \in Values : AgainJob(a, ex) \notin Held(f)
      /\ \A n \in {"tap", "tick", "delayed", "again"} : ~Made(f, Id(a, n))
      /\ ~Nested(f, a)
      /\ a[2] = 1 => IsPending(f, U)
  BY DEF Begins
<1>4. /\ reply \in [Attempts -> {"none", "running", "finished", "destroyed"}]
      /\ timer \in [Attempts -> {"none", "armed", "fired"}]
      /\ parts \in [Attempts -> {"none", "owned", "orphan", "freed"}]
      /\ once \subseteq Within
      /\ delay \in [Attempts -> {"none", "armed", "fired"}]
      /\ clientAlive \in BOOLEAN /\ retryAlive \in BOOLEAN /\ QuietAfterDestroy
      /\ \A b \in Attempts \ Within :
            reply[b] = "none" /\ timer[b] = "none" /\ delay[b] = "none" /\ parts[b] = "none"
  BY DEF IInv, Sound
<1>5. /\ delay' = delay /\ clientAlive' = clientAlive /\ retryAlive' = retryAlive
      /\ reply' = IF Sent(c) THEN [reply EXCEPT ![a] = c.stage] ELSE reply
      /\ once'  = IF c.stage = "finished" THEN once \cup {a} ELSE once
      /\ timer' = IF bounded THEN [timer EXCEPT ![a] = "armed"] ELSE timer
      /\ parts' = IF a[1] \in Multipart /\ Sent(c) THEN [parts EXCEPT ![a] = "owned"]
                  ELSE IF c.stage = "badMethod" THEN [parts EXCEPT ![a] = "orphan"] ELSE parts
  BY DEF Launch
<1>6. Sent(c) <=> c.stage \in {"running", "finished"}
  BY DEF Sent
<1>. HIDE DEF f, R, T, M, U, bounded
<1>7. /\ reply' \in [Attempts -> {"none", "running", "finished", "destroyed"}]
      /\ Sent(c) => reply'[a] = c.stage
      /\ ~Sent(c) => reply'[a] = "none"
      /\ \A b \in Attempts : b # a => reply'[b] = reply[b]
  <2>1. CASE Sent(c)
    <3>1. reply' = [reply EXCEPT ![a] = c.stage]
      BY <1>5, <2>1
    <3>. QED
      BY <1>1, <1>4, <1>6, <2>1, <3>1
  <2>2. CASE ~Sent(c)
    BY <1>1, <1>4, <1>5, <2>2
  <2>. QED
    BY <2>1, <2>2
<1>8. /\ timer' \in [Attempts -> {"none", "armed", "fired"}]
      /\ bounded => timer'[a] = "armed"
      /\ \A b \in Attempts : b # a => timer'[b] = timer[b]
  <2>1. CASE bounded
    <3>1. timer' = [timer EXCEPT ![a] = "armed"]
      BY <1>5, <2>1
    <3>. QED
      BY <1>1, <1>4, <3>1
  <2>2. CASE ~bounded
    BY <1>4, <1>5, <2>2
  <2>. QED
    BY <2>1, <2>2
<1>9. /\ parts' \in [Attempts -> {"none", "owned", "orphan", "freed"}]
      /\ parts'[a] = "orphan" <=> c.stage = "badMethod"
      /\ parts'[a] = "owned" => Sent(c)
      /\ c.stage = "gone" => parts'[a] = "none"
      /\ \A b \in Attempts : b # a => parts'[b] = parts[b]
  <2>1. CASE a[1] \in Multipart /\ Sent(c)
    <3>1. parts' = [parts EXCEPT ![a] = "owned"] /\ c.stage # "badMethod" /\ c.stage # "gone"
      BY <1>5, <1>6, <2>1
    <3>. QED
      BY <1>1, <1>4, <2>1, <3>1
  <2>2. CASE ~(a[1] \in Multipart /\ Sent(c)) /\ c.stage = "badMethod"
    <3>1. parts' = [parts EXCEPT ![a] = "orphan"]
      BY <1>5, <2>2
    <3>. QED
      BY <1>1, <1>4, <2>2, <3>1
  <2>3. CASE ~(a[1] \in Multipart /\ Sent(c)) /\ c.stage # "badMethod"
    <3>1. parts' = parts
      BY <1>5, <2>3
    <3>. QED
      BY <1>1, <1>4, <2>3, <3>1
  <2>. QED
    BY <2>1, <2>2, <2>3
<1>10. /\ a \in once' <=> c.stage = "finished"
       /\ once' \subseteq Within
       /\ \A b \in Attempts : b # a => (b \in once' <=> b \in once)
  <2>1. CASE c.stage = "finished"
    <3>1. once' = once \cup {a}
      BY <1>5, <2>1
    <3>. QED
      BY <1>4, <2>1, <3>1
  <2>2. CASE c.stage # "finished"
    <3>1. once' = once
      BY <1>5, <2>2
    <3>. QED
      BY <1>1, <1>4, <2>2, <3>1
  <2>. QED
    BY <2>1, <2>2
<1>11. \A b \in Within : b \in Attempts
  BY IdGood DEF Names
<1>12. Sound'
  <2>1. \A b \in Attempts \ Within : b # a
    OBVIOUS
  <2>2. \A b \in Attempts \ Within : reply'[b] = "none" /\ timer'[b] = "none" /\ delay'[b] = "none"
                                     /\ parts'[b] = "none"
    BY <1>4, <1>5, <1>7, <1>8, <1>9, <2>1
  <2>3. QuietAfterDestroy'
    <3>1. SUFFICES ASSUME ~clientAlive', NEW b \in Attempts
                   PROVE  reply'[b] \in {"none", "destroyed"} /\ parts'[b] \in {"none", "freed", "orphan"}
      BY DEF QuietAfterDestroy
    <3>2. ~clientAlive /\ c.stage = "gone" /\ ~Sent(c)
      BY <1>2, <1>5, <1>6, <3>1
    <3>3. CASE b = a
      BY <1>7, <1>9, <3>2, <3>3
    <3>4. CASE b # a
      BY <1>4, <1>7, <1>9, <3>2, <3>4 DEF QuietAfterDestroy
    <3>. QED
      BY <3>3, <3>4
  <2>4. delay' \in [Attempts -> {"none", "armed", "fired"}] /\ clientAlive' \in BOOLEAN /\ retryAlive' \in BOOLEAN
    BY <1>4, <1>5
  <2>. QED
    BY <1>7, <1>8, <1>9, <1>10, <2>2, <2>3, <2>4 DEF Sound
<1>13. Made(f, R) /\ Made(f, Result(a)) /\ (a[2] = 1 => Made(f, U))
       /\ (bounded => Made(f, T) /\ Made(f, M)) /\ (~bounded => ~Made(f, T) /\ ~Made(f, M))
  <2>1. Made(f, R)
    BY <1>3 DEF Made, IsPending, IsSettled, IsFulfilled, IsRejected
  <2>2. bounded => Made(f, T) /\ Made(f, M)
    BY <1>3, <2>1 DEF Made, IsPending
  <2>. QED
    BY <1>3, <2>1, <2>2 DEF Made, IsPending
<1>14. Created(f, reply', timer', delay', a)
  <2>1. /\ ~Made(f, Id(a, "tap")) /\ ~Made(f, Id(a, "tick")) /\ ~Made(f, Id(a, "delayed"))
        /\ ~Made(f, Id(a, "again")) /\ ~IsPending(f, Id(a, "tick"))
    BY <1>3 DEF Made, IsPending
  <2>2. reply'[a] # "none" /\ a[1] \in Timed => bounded
    BY <1>7 DEF bounded
  <2>3. bounded => a[1] \in Timed
    BY DEF bounded
  <2>4. IsPending(f, T) => bounded
    BY <1>13 DEF Made, IsPending
  <2>. QED
    BY <1>3, <1>8, <1>13, <2>1, <2>2, <2>3, <2>4 DEF Created, R, T, M, U
<1>15. Reclaimed(f, reply', once', parts', clientAlive', a)
  <2>1. /\ ObjectJob("finished", a) \in Remains(a, c) <=> c.stage = "finished"
        /\ ObjectJob("deleteReply", a) \in Remains(a, c) <=> c.stage = "finished"
        /\ ObjectJob("deleteParts", a) \in Remains(a, c) <=> c.stage = "badMethod"
    BY DEF Remains, ObjectJob, Plain, Job
  <2>2. /\ ObjectJob("finished", a) \in Held(f) <=> c.stage = "finished"
        /\ ObjectJob("deleteReply", a) \in Held(f) <=> c.stage = "finished"
        /\ ObjectJob("deleteParts", a) \in Held(f) <=> c.stage = "badMethod"
    BY <1>3, <2>1 DEF Objectual
  <2>3. IsPending(f, R) <=> c.stage = "running"
    BY <1>3 DEF IsPending, IsSettled, IsFulfilled, IsRejected
  <2>. QED
    BY <1>2, <1>6, <1>7, <1>9, <1>10, <1>13, <2>2, <2>3 DEF Reclaimed, R
<1>16. Reported(f, reply', parts', a)
  <2>1. IsSettled(f, T) => IsSettled(f, R)
    BY <1>3, <1>13 DEF Made, IsPending, IsSettled, IsFulfilled, IsRejected
  <2>2. Out(f, a) = IF bounded THEN M ELSE R
    BY <1>13 DEF Out, R, M
  <2>3. IsSettled(f, Out(f, a)) => reply'[a] # "running"
    BY <1>3, <1>6, <1>7, <2>2 DEF IsPending, IsSettled, IsFulfilled, IsRejected
  <2>. QED
    BY <1>3, <2>1, <2>3 DEF Reported, R, T
<1>17. Carried(f, a)
  <2>1. ~IsSettled(f, Result(a)) /\ ~Made(f, Id(a, "again")) /\ ~IsSettled(f, Id(a, "again"))
    BY <1>3 DEF Made, IsPending, IsSettled, IsFulfilled, IsRejected
  <2>2. a[2] = 1 => ~IsSettled(f, U)
    BY <1>3 DEF IsPending, IsSettled, IsFulfilled, IsRejected
  <2>3. loop.value[R] # "data" /\ loop.value[T] # "data" /\ loop.value[M] # "data"
    <3>1. Carried(loop, a)
      BY DEF IInv
    <3>2. ~IsFulfilled(loop, R) /\ ~IsFulfilled(loop, T) /\ ~IsFulfilled(loop, M)
      BY <1>1 DEF IsFulfilled, R, T, M, Names
    <3>. QED
      BY <3>1, <3>2 DEF Carried, R, T, M
  <2>4. IsFulfilled(f, R) <=> f.value[R] = "data"
    BY <1>3, <2>3 DEF IsPending, IsFulfilled
  <2>5. IsFulfilled(f, T) <=> f.value[T] = "data"
    BY <1>3, <2>3, <2>4 DEF Made, IsPending, IsFulfilled
  <2>6. IsFulfilled(f, M) <=> f.value[M] = "data"
    BY <1>3, <2>3 DEF Made, IsPending, IsFulfilled
  <2>. QED
    BY <1>3, <2>1, <2>2, <2>4, <2>5, <2>6 DEF Carried, R, T, M, U
<1>. QED
  BY <1>5, <1>7, <1>8, <1>9, <1>10, <1>11, <1>12, <1>14, <1>15, <1>16, <1>17 DEF f

\* sendRequest: the first attempt, and the decoding of what it comes to.
LEMMA SendRequestStep ==
    ASSUME IInv, NEW r \in Requests, SendRequest(r)
    PROVE  /\ IInv'
           /\ \E c \in Choices(r) : Opens(<<r, 1>>, c, {UserOf(r)})
           /\ IsPending(loop', UserOf(r)) /\ loop'.value[UserOf(r)] = loop.value[UserOf(r)]
<1>. DEFINE a == <<r, 1>>
            S == Id(a, "result")
            U == UserOf(r)
            j == DecodeJob(r)
            E == {}
            X == {S}
            f == loop'
<1>1. clientAlive /\ loop.status[U] = "absent"
  BY DEF SendRequest
<1>2. PICK c \in Choices(r) :
         loop' = Then(Attempt(loop, a, MaxRetries, c), S, j) /\ Launch(a, c)
  BY DEF SendRequest, DecodeJob
<1>. DEFINE h == Attempt(loop, a, MaxRetries, c)
<1>3. a \in Within /\ a[1] = r /\ a[2] = 1 /\ MaxRetries + 1 - a[2] = MaxRetries
  BY DEF Within
<1>4. \A n \in Names : /\ Id(a, n) \in PromiseIds \ Beyond /\ Id(a, n)[3] = n /\ AttemptOf(Id(a, n)) = a
                       /\ a \in Attempts
  BY <1>3, IdGood
<1>5. U \in PromiseIds /\ U[3] = "user" /\ AttemptOf(U) # a /\ j \in Reactions /\ j.next = U
  BY UserGood, DecodeGood DEF AttemptOf
<1>6. Wired(loop, E, E)
  BY DEF IInv, Sound
<1>7. S = Result(a) /\ S \in PromiseIds /\ S[3] = "result" /\ AttemptOf(S) = a
  BY <1>4 DEF Result, Names
<1>8. ~Made(loop, Result(a))
  <2>1. Created(loop, reply, timer, delay, a)
    BY <1>3 DEF IInv
  <2>. QED
    BY <1>1, <1>3, <2>1 DEF Created, Made
<1>. HIDE DEF S, U, j, E, X, f, h
<1>9. Fresh(loop, a) /\ a \notin once
  BY <1>3, <1>8, Unstarted
<1>10. c \in AllChoices
  BY ChoicesGood
<1>. HIDE DEF a
<1>11. Sends(loop, h, E, a, c)
  <2>1. \A n \in Names : Id(a, n) \notin E
    BY DEF E
  <2>2. Sends(loop, Attempt(loop, a, MaxRetries + 1 - a[2], c), E, a, c)
    <3>1. Wired(loop, {}, E)
      BY <1>6 DEF E
    <3>2. a \in Within
      BY <1>3
    <3>. QED
      BY <1>9, <1>10, <2>1, <3>1, <3>2, AttemptWired
  <2>. QED
    BY <1>3, <2>2 DEF h
<1>12. /\ Wired(h, {S}, E) /\ IsPending(h, S)
       /\ \A q \in PromiseIds \ {Id(a, "reply"), Id(a, "timed"), Id(a, "mapped"), S} :
             h.status[q] = loop.status[q] /\ h.value[q] = loop.value[q]
  BY <1>11 DEF Sends, S
<1>13. h.status[U] = "absent"
  <2>1. U \notin {Id(a, "reply"), Id(a, "timed"), Id(a, "mapped"), S}
    BY <1>4, <1>5, <1>7 DEF Names
  <2>. QED
    BY <1>1, <1>5, <1>12, <2>1
<1>14. Speaker(New(h, j.next), j) = S
  BY <1>5 DEF Speaker, j, DecodeJob, Plain, Job, S, Id, a, U, UserOf
<1>15. Wired(h, X, E) /\ S \in X
  BY <1>12 DEF X
<1>16. h.status[j.next] = "absent" /\ (j.next[3] = "mapped" => RetryJob(AttemptOf(j.next)) \notin Held(h))
  BY <1>5, <1>13
<1>17. Chains(h, Then(h, S, j), X, E, S, j)
  BY <1>5, <1>14, <1>15, <1>16, ThenWired
<1>18. loop' = Then(h, S, j)
  BY <1>2 DEF h
<1>19. /\ Wired(f, (X \ {S}) \cup {U}, E \ {U}) /\ Held(f) = Held(h) \cup {j}
       /\ \A q \in PromiseIds : q # U => f.status[q] = h.status[q]
       /\ IsPending(f, U) /\ f.value = h.value
  BY <1>5, <1>17, <1>18 DEF Chains, f
<1>20. Wired(f, {}, {})
  <2>. DEFINE V == {U}
  <2>1. (X \ {S}) \cup {U} = V /\ E \ {U} = E /\ V \ {U} = {} /\ E = {}
    BY DEF X, E
  <2>. HIDE DEF V
  <2>2. Wired(f, V, E)
    BY <1>19, <2>1
  <2>3. Wired(f, V \ {U}, E)
    BY <1>5, <2>2, HeardWired
  <2>. QED
    BY <2>1, <2>3
<1>21. Begins(loop, f, a, c)
  <2>1. \A n \in Names \ {"user"} : f.status[Id(a, n)] = h.status[Id(a, n)] /\ f.value[Id(a, n)] = h.value[Id(a, n)]
    BY <1>4, <1>5, <1>19
  <2>2. a[2] <= MaxRetries => f.status[Result(NextAttempt(a))] = h.status[Result(NextAttempt(a))]
    <3>1. Result(NextAttempt(a)) \in PromiseIds /\ Result(NextAttempt(a))[3] = "result"
      BY <1>3, Neighbours
    <3>. QED
      BY <1>5, <1>19, <3>1
  <2>3. AttemptOf(j.next) # a /\ (a[2] = 1 => IsPending(f, UserOf(a[1])))
    BY <1>3, <1>5, <1>19 DEF U
  <2>. QED
    BY <1>3, <1>5, <1>8, <1>10, <1>11, <1>19, <2>1, <2>2, <2>3, SendsBegins
<1>22. /\ Sound'
       /\ Created(loop', reply', timer', delay', a)
       /\ Reclaimed(loop', reply', once', parts', clientAlive', a)
       /\ Reported(loop', reply', parts', a) /\ Carried(loop', a)
       /\ clientAlive' = clientAlive /\ delay' = delay
       /\ \A b \in Within : b # a => /\ reply'[b] = reply[b] /\ (b \in once' <=> b \in once)
                                     /\ timer'[b] = timer[b] /\ parts'[b] = parts[b]
  <2>1. Launch(a, c) /\ c \in Choices(a[1]) /\ Wired(loop', {}, {}) /\ Begins(loop, loop', a, c)
    BY <1>2, <1>3, <1>20, <1>21 DEF f
  <2>. QED
    BY <1>3, <1>8, <2>1, Launched
<1>23. ASSUME NEW b \in Within, b # a
       PROVE  /\ Created(loop', reply', timer', delay', b)
              /\ Reclaimed(loop', reply', once', parts', clientAlive', b)
              /\ Reported(loop', reply', parts', b)
              /\ Carried(loop', b)
  <2>1. /\ Created(loop, reply, timer, delay, b) /\ Reclaimed(loop, reply, once, parts, clientAlive, b)
        /\ Reported(loop, reply, parts, b) /\ Carried(loop, b)
    BY DEF IInv
  <2>2. \A q \in PromiseIds \ {U, Id(a, "reply"), Id(a, "timed"), Id(a, "mapped"), S} :
           f.status[q] = loop.status[q] /\ f.value[q] = loop.value[q]
    BY <1>12, <1>19
  <2>3. \A n \in Names : Id(b, n) \in PromiseIds /\ Id(b, n)[3] = n /\ AttemptOf(Id(b, n)) = b
    BY IdGood
  <2>4. \A n \in Names \ {"user"} : f.status[Id(b, n)] = loop.status[Id(b, n)] /\ f.value[Id(b, n)] = loop.value[Id(b, n)]
    <3>1. \A n \in Names : Id(b, n) \notin {Id(a, "reply"), Id(a, "timed"), Id(a, "mapped"), S}
      BY <1>4, <1>7, <1>23, <2>3 DEF Names
    <3>. QED
      BY <1>5, <2>2, <2>3, <3>1
  <2>5. b[2] = 1 => /\ f.status[UserOf(b[1])] = loop.status[UserOf(b[1])]
                    /\ f.value[UserOf(b[1])] = loop.value[UserOf(b[1])]
    <3>1. SUFFICES ASSUME b[2] = 1
                   PROVE  UserOf(b[1]) \in PromiseIds \ {U, Id(a, "reply"), Id(a, "timed"), Id(a, "mapped"), S}
      BY <2>2
    <3>2. b = <<b[1], b[2]>> /\ b[1] \in Requests
      BY DEF Within
    <3>3. b[1] # r
      BY <1>23, <3>1, <3>2 DEF a
    <3>4. UserOf(b[1]) \in PromiseIds /\ UserOf(b[1])[3] = "user" /\ UserOf(b[1])[1] = b[1] /\ U[1] = r
      BY <3>2, UserGood DEF U
    <3>. QED
      BY <1>4, <1>7, <3>3, <3>4 DEF Names
  <2>6. b[2] <= MaxRetries => /\ f.status[Result(NextAttempt(b))] = loop.status[Result(NextAttempt(b))]
                              /\ f.value[Result(NextAttempt(b))] = loop.value[Result(NextAttempt(b))]
    <3>1. SUFFICES ASSUME b[2] <= MaxRetries
                   PROVE  Result(NextAttempt(b)) \in PromiseIds \ {U, Id(a, "reply"), Id(a, "timed"), Id(a, "mapped"), S}
      BY <2>2
    <3>2. NextAttempt(b) \in Within /\ Result(NextAttempt(b)) \in PromiseIds /\ Result(NextAttempt(b))[3] = "result"
      BY <3>1, Neighbours
    <3>3. Result(NextAttempt(b))[2] # 1 /\ S[2] = 1
      <4>1. b[2] \in Nat /\ b[2] >= 1
        BY DEF Within
      <4>. QED
        BY <1>3, <4>1 DEF Result, NextAttempt, Id, S
    <3>. QED
      BY <1>4, <1>5, <3>2, <3>3 DEF Names
  <2>7. \A k : AttemptOf(k.next) = b /\ k.kind # "decode" => (k \in Held(f) <=> k \in Held(loop))
    <3>1. Held(loop) \cup {RetryJob(a)} \cup Remains(a, c) \subseteq Held(h)
          /\ Held(h) \subseteq Held(loop) \cup {RetryJob(a), AbortJob(a), TimedJob(a)} \cup Remains(a, c)
      BY <1>11 DEF Sends
    <3>2. \A k \in {RetryJob(a), AbortJob(a), TimedJob(a)} \cup Remains(a, c) : AttemptOf(k.next) = a
      BY <1>4 DEF RetryJob, AbortJob, TimedJob, Remains, ObjectJob, Pass, Plain, Job, Names
    <3>3. j.kind = "decode"
      BY DEF j, DecodeJob, Plain, Job
    <3>. QED
      BY <1>19, <1>23, <3>1, <3>2, <3>3
  <2>8. /\ \A k \in ClosuresOf(b) : k \in Held(f) <=> k \in Held(loop)
        /\ \A ex \in Values : AgainJob(b, ex) \in Held(f) => AgainJob(b, ex) \in Held(loop)
    <3>1. \A k \in ClosuresOf(b) : AttemptOf(k.next) = b /\ k.kind # "decode"
      BY ClosuresOwn
    <3>2. \A ex \in Values : AttemptOf(AgainJob(b, ex).next) = b /\ AgainJob(b, ex).kind # "decode"
      BY <2>3 DEF AgainJob, Job, Names
    <3>. QED
      BY <2>7, <3>1, <3>2
  <2>9. Untouched(loop, f, b)
    BY <2>4, <2>5, <2>6, <2>8 DEF Untouched
  <2>10. /\ reply'[b] = reply[b] /\ timer'[b] = timer[b] /\ parts'[b] = parts[b] /\ delay'[b] = delay[b]
         /\ clientAlive' = clientAlive
    BY <1>22, <1>23
  <2>11. b \in once' <=> b \in once
    BY <1>22, <1>23
  <2>12. /\ Created(f, reply', timer', delay', b) /\ Reclaimed(f, reply', once', parts', clientAlive, b)
         /\ Reported(f, reply', parts', b) /\ Carried(f, b)
    BY <2>1, <2>9, <2>10, <2>11, UntouchedKept
  <2>. QED
    BY <2>10, <2>12 DEF f
<1>24. IInv'
  BY <1>22, <1>23 DEF IInv
<1>25. Opens(a, c, {U}) /\ c \in Choices(r)
  <2>. DEFINE Q == {Id(a, "reply"), Id(a, "timed"), Id(a, "mapped"), Result(a)} \cup {U}
  <2>1. \A q \in PromiseIds \ Q : f.status[q] = loop.status[q] /\ f.value[q] = loop.value[q]
    BY <1>7, <1>12, <1>19
  <2>2. Moves(loop, loop', Q)
    BY <2>1 DEF Moves, f
  <2>3. c \in Choices(a[1]) /\ Launch(a, c) /\ Begins(loop, loop', a, c)
    BY <1>2, <1>3, <1>21 DEF f
  <2>. QED
    BY <1>2, <2>2, <2>3 DEF Opens
<1>26. IsPending(loop', U) /\ loop'.value[U] = loop.value[U]
  <2>1. U \notin {Id(a, "reply"), Id(a, "timed"), Id(a, "mapped"), S}
    BY <1>4, <1>5, <1>7 DEF Names
  <2>. QED
    BY <1>5, <1>12, <1>19, <2>1 DEF f
<1>. QED
  BY <1>24, <1>25, <1>26 DEF U, a

\* The delay over, the next attempt is made, and its result passed on.
LEMMA RetryAgainStep ==
    ASSUME IInv, RetryAgain
    PROVE  /\ IInv'
           /\ \E b \in Within : /\ b[2] <= MaxRetries /\ IsPending(loop, Id(b, "again"))
                                /\ ~Made(loop, Result(NextAttempt(b)))
                                /\ \E c \in Choices(b[1]) : Opens(NextAttempt(b), c, {})
<1>. DEFINE j == Current.job
            b == AttemptOf(j.next)
            a == NextAttempt(b)
            G == Id(b, "again")
            S == Id(a, "result")
            g == Popped(loop)
            Y == {G}
            X == {S}
            f == loop'
<1>1. /\ loop.posted # <<>> /\ j.kind = "again" /\ Head(loop.posted).job = j
      /\ \E c \in Choices(a[1]) :
            /\ loop' = Adopt(Attempt(g, a, j.left - 1, c), j.next, S)
            /\ Launch(a, c)
  BY DEF RetryAgain, Delivers, Current, Target, Rest
<1>2. PICK c \in Choices(a[1]) :
         loop' = Adopt(Attempt(g, a, j.left - 1, c), j.next, S) /\ Launch(a, c)
  BY <1>1
<1>. DEFINE h == Attempt(g, a, j.left - 1, c)
<1>3. Wired(loop, {}, {})
  BY DEF IInv, Sound
<1>4. j \in GoodJobs /\ j \in Held(loop)
  BY <1>1, <1>3, PopWired
<1>5. j \in Settling /\ j \in Reactions
  BY <1>1, <1>4 DEF Settling, Reactions, Objectual
<1>6. b \in Within /\ j.saved \in Values /\ j = AgainJob(b, j.saved) /\ j.next = G /\ b[2] <= MaxRetries
  BY <1>1, <1>4, Anatomy
<1>7. a \in Within /\ a[1] \in Requests
  BY <1>6, Neighbours DEF Within
<1>8. b[2] \in Nat /\ b[2] >= 1 /\ a[2] = b[2] + 1 /\ a[1] = b[1] /\ a # b /\ a[2] # 1
      /\ j.left - 1 = MaxRetries + 1 - a[2]
  <2>1. b[2] \in 1..(MaxRetries + 1)
    BY <1>6 DEF Within
  <2>2. a[2] = b[2] + 1 /\ a[1] = b[1]
    BY DEF NextAttempt
  <2>3. j.left = MaxRetries + 1 - b[2]
    BY <1>6 DEF AgainJob, Job
  <2>. QED
    BY <2>1, <2>2, <2>3
<1>9. /\ \A n \in Names : Id(a, n) \in PromiseIds /\ Id(a, n)[3] = n /\ AttemptOf(Id(a, n)) = a
      /\ \A n \in Names : Id(b, n) \in PromiseIds /\ Id(b, n)[3] = n /\ AttemptOf(Id(b, n)) = b
  BY <1>6, <1>7, IdGood
<1>10. /\ G \in PromiseIds /\ G[3] = "again" /\ AttemptOf(G) = b
       /\ S = Result(a) /\ S \in PromiseIds /\ S[3] = "result" /\ AttemptOf(S) = a
  BY <1>9 DEF Result, Names
<1>11. /\ Created(loop, reply, timer, delay, b) /\ Reclaimed(loop, reply, once, parts, clientAlive, b)
       /\ Reported(loop, reply, parts, b) /\ Carried(loop, b)
  BY <1>6 DEF IInv
<1>12. ~Made(loop, Result(a))
  <2>1. ~Nested(loop, b)
    BY <1>4, <1>6, <1>11 DEF Created
  <2>. QED
    BY <1>6, <2>1 DEF Nested
<1>13. IsPending(loop, G)
  <2>1. Made(loop, j.next) /\ (j.next[3] # "timed" => IsPending(loop, j.next))
    BY <1>3, <1>4, <1>5 DEF Wired, Aimed
  <2>. QED
    BY <1>6, <1>10, <2>1
<1>14. \A ex \in Values : AgainJob(b, ex) \in Held(loop) => AgainJob(b, ex) = j
  <2>1. SUFFICES ASSUME NEW ex \in Values, AgainJob(b, ex) \in Held(loop) PROVE AgainJob(b, ex) = j
    OBVIOUS
  <2>2. AgainJob(b, ex) \in Settling
    BY <1>6, JobsGood
  <2>3. AgainJob(b, ex).next = G
    BY DEF AgainJob, Job
  <2>. QED
    BY <1>3, <1>4, <1>5, <1>6, <2>1, <2>2, <2>3 DEF Wired, Aimed
<1>15. /\ Held(g) = Held(loop) \ {j} /\ g.status = loop.status /\ g.value = loop.value
       /\ Wired(g, {}, Y)
  BY <1>1, <1>3, <1>5, <1>6, PopWired
<1>16. c \in AllChoices
  BY <1>7, ChoicesGood
<1>. HIDE DEF j, g, h, Y, X, f, S, G, a, b
<1>17. Fresh(g, a) /\ a \notin once
  BY <1>7, <1>12, <1>15, Unstarted
<1>18. Sends(g, h, Y, a, c)
  <2>1. \A n \in Names : Id(a, n) \notin Y
    BY <1>8, <1>9, <1>10 DEF Y
  <2>2. Sends(g, Attempt(g, a, MaxRetries + 1 - a[2], c), Y, a, c)
    <3>1. Wired(g, {}, Y)
      BY <1>15
    <3>. QED
      BY <1>7, <1>16, <1>17, <2>1, <3>1, AttemptWired
  <2>. QED
    BY <1>8, <2>2 DEF h
<1>19. /\ Wired(h, X, Y) /\ IsPending(h, S)
       /\ \A q \in PromiseIds \ {Id(a, "reply"), Id(a, "timed"), Id(a, "mapped"), S} :
             h.status[q] = loop.status[q] /\ h.value[q] = loop.value[q]
  BY <1>15, <1>18 DEF Sends, S, X
<1>20. IsPending(h, G)
  <2>1. G \notin {Id(a, "reply"), Id(a, "timed"), Id(a, "mapped"), S}
    BY <1>9, <1>10 DEF Names
  <2>. QED
    BY <1>10, <1>13, <1>19, <2>1 DEF IsPending
<1>21. Pass(G) = NestJob(b) /\ Pass(G) \in Reactions /\ Pass(G).next = G /\ Pass(G).kind = "pass"
  <2>1. Pass(G) = NestJob(b)
    BY DEF NestJob, G
  <2>2. Pass(G).next = G /\ Pass(G).kind = "pass"
    BY DEF Pass, Job
  <2>. QED
    BY <1>6, <2>1, <2>2, JobsGood
<1>22. Speaker(h, Pass(G)) = S
  BY <1>10, <1>21 DEF Speaker, S, Id, a, NextAttempt, G
<1>23. S \in X /\ G \in Y
  BY DEF X, Y
<1>24. Gains(h, Adopt(h, G, S), X \ {S}, Y, Pass(G))
  BY <1>19, <1>20, <1>21, <1>22, <1>23, AdoptPendingWired
<1>25. loop' = Adopt(h, G, S)
  BY <1>2, <1>6 DEF h
<1>26. /\ Wired(f, {}, {}) /\ Held(f) = Held(h) \cup {NestJob(b)}
       /\ f.status = h.status /\ f.value = h.value
  <2>1. X \ {S} = {} /\ Y \ {G} = {}
    BY DEF X, Y
  <2>. QED
    BY <1>21, <1>24, <1>25, <2>1 DEF Gains, f
<1>27. Begins(loop, f, a, c)
  <2>1. \A n \in Names \ {"user"} : f.status[Id(a, n)] = h.status[Id(a, n)] /\ f.value[Id(a, n)] = h.value[Id(a, n)]
    BY <1>26
  <2>2. a[2] <= MaxRetries => f.status[Result(NextAttempt(a))] = h.status[Result(NextAttempt(a))]
    BY <1>26
  <2>3. NestJob(b) \in Reactions /\ AttemptOf(NestJob(b).next) # a
    BY <1>8, <1>10, <1>21
  <2>4. a[2] = 1 => IsPending(f, UserOf(a[1]))
    BY <1>8
  <2>5. g.status = loop.status /\ g.value = loop.value /\ Held(g) \subseteq Held(loop)
    BY <1>15
  <2>6. Held(f) = Held(h) \cup {NestJob(b)}
    BY <1>26
  <2>. QED
    BY <1>7, <1>12, <1>16, <1>18, <2>1, <2>2, <2>3, <2>4, <2>5, <2>6, SendsBegins
<1>28. /\ Sound'
       /\ Created(loop', reply', timer', delay', a)
       /\ Reclaimed(loop', reply', once', parts', clientAlive', a)
       /\ Reported(loop', reply', parts', a) /\ Carried(loop', a)
       /\ clientAlive' = clientAlive /\ delay' = delay
       /\ \A d \in Within : d # a => /\ reply'[d] = reply[d] /\ (d \in once' <=> d \in once)
                                     /\ timer'[d] = timer[d] /\ parts'[d] = parts[d]
  <2>1. Launch(a, c) /\ c \in Choices(a[1]) /\ Wired(loop', {}, {}) /\ Begins(loop, loop', a, c)
    BY <1>2, <1>26, <1>27 DEF f
  <2>. QED
    BY <1>7, <1>12, <2>1, Launched
<1>29. \A q \in PromiseIds \ {Id(a, "reply"), Id(a, "timed"), Id(a, "mapped"), S} :
          f.status[q] = loop.status[q] /\ f.value[q] = loop.value[q]
  BY <1>19, <1>26
<1>30. \A k : AttemptOf(k.next) # a /\ k # j /\ k # NestJob(b) => (k \in Held(f) <=> k \in Held(loop))
  <2>1. Held(g) \cup {RetryJob(a)} \cup Remains(a, c) \subseteq Held(h)
        /\ Held(h) \subseteq Held(g) \cup {RetryJob(a), AbortJob(a), TimedJob(a)} \cup Remains(a, c)
    BY <1>18 DEF Sends
  <2>2. \A k \in {RetryJob(a), AbortJob(a), TimedJob(a)} \cup Remains(a, c) : AttemptOf(k.next) = a
    BY <1>9 DEF RetryJob, AbortJob, TimedJob, Remains, ObjectJob, Pass, Plain, Job, Names
  <2>. QED
    BY <1>15, <1>26, <2>1, <2>2
<1>31. j \notin Held(f)
  <2>1. Held(h) \subseteq Held(g) \cup {RetryJob(a), AbortJob(a), TimedJob(a)} \cup Remains(a, c)
    BY <1>18 DEF Sends
  <2>2. \A k \in {RetryJob(a), AbortJob(a), TimedJob(a)} \cup Remains(a, c) : k.kind # "again"
    BY DEF RetryJob, AbortJob, TimedJob, Remains, ObjectJob, Pass, Plain, Job
  <2>3. j.kind = "again" /\ NestJob(b).kind = "pass"
    BY <1>1, <1>21
  <2>. QED
    BY <1>15, <1>26, <2>1, <2>2, <2>3
<1>32. ASSUME NEW d \in Within, d # a
       PROVE  /\ \A n \in Names : Id(d, n) \in PromiseIds /\ Id(d, n)[3] = n /\ AttemptOf(Id(d, n)) = d
              /\ \A n \in Names : f.status[Id(d, n)] = loop.status[Id(d, n)] /\ f.value[Id(d, n)] = loop.value[Id(d, n)]
              /\ f.status[UserOf(d[1])] = loop.status[UserOf(d[1])]
              /\ f.value[UserOf(d[1])] = loop.value[UserOf(d[1])]
              /\ Created(loop, reply, timer, delay, d) /\ Reclaimed(loop, reply, once, parts, clientAlive, d)
              /\ Reported(loop, reply, parts, d) /\ Carried(loop, d)
              /\ reply'[d] = reply[d] /\ timer'[d] = timer[d] /\ parts'[d] = parts[d] /\ delay'[d] = delay[d]
              /\ clientAlive' = clientAlive
              /\ (d \in once' <=> d \in once)
  <2>1. \A n \in Names : Id(d, n) \in PromiseIds /\ Id(d, n)[3] = n /\ AttemptOf(Id(d, n)) = d
    BY IdGood
  <2>2. \A n \in Names : Id(d, n) \notin {Id(a, "reply"), Id(a, "timed"), Id(a, "mapped"), S}
    BY <1>9, <1>10, <1>32, <2>1 DEF Names
  <2>3. UserOf(d[1]) \in PromiseIds /\ UserOf(d[1])[3] = "user"
    BY Neighbours
  <2>4. UserOf(d[1]) \notin {Id(a, "reply"), Id(a, "timed"), Id(a, "mapped"), S}
    BY <1>9, <1>10, <2>3 DEF Names
  <2>5. /\ Created(loop, reply, timer, delay, d) /\ Reclaimed(loop, reply, once, parts, clientAlive, d)
        /\ Reported(loop, reply, parts, d) /\ Carried(loop, d)
    BY DEF IInv
  <2>. QED
    BY <1>28, <1>29, <1>32, <2>1, <2>2, <2>3, <2>4, <2>5
<1>33. ASSUME NEW d \in Within, d # a, d # b
       PROVE  /\ Created(loop', reply', timer', delay', d)
              /\ Reclaimed(loop', reply', once', parts', clientAlive', d)
              /\ Reported(loop', reply', parts', d)
              /\ Carried(loop', d)
  <2>1. d[2] <= MaxRetries => /\ f.status[Result(NextAttempt(d))] = loop.status[Result(NextAttempt(d))]
                              /\ f.value[Result(NextAttempt(d))] = loop.value[Result(NextAttempt(d))]
    <3>1. SUFFICES ASSUME d[2] <= MaxRetries
                   PROVE  Result(NextAttempt(d)) \in PromiseIds \ {Id(a, "reply"), Id(a, "timed"), Id(a, "mapped"), S}
      BY <1>29
    <3>2. NextAttempt(d) \in Within /\ Result(NextAttempt(d)) \in PromiseIds /\ Result(NextAttempt(d))[3] = "result"
      BY <3>1, Neighbours
    <3>3. AttemptOf(Result(NextAttempt(d))) = NextAttempt(d)
      BY <3>2, IdGood DEF Result, Names
    <3>4. NextAttempt(d) # a
      <4>1. d = <<d[1], d[2]>> /\ b = <<b[1], b[2]>> /\ d[2] \in Nat /\ b[2] \in Nat
        BY <1>6 DEF Within
      <4>2. NextAttempt(d) = <<d[1], d[2] + 1>> /\ a = <<b[1], b[2] + 1>>
        BY DEF NextAttempt, a
      <4>3. d[1] # b[1] \/ d[2] # b[2]
        BY <1>33, <4>1
      <4>4. d[2] # b[2] => d[2] + 1 # b[2] + 1
        BY <4>1
      <4>. QED
        BY <4>2, <4>3, <4>4
    <3>. QED
      BY <1>9, <1>10, <3>2, <3>3, <3>4 DEF Names
  <2>2. \A k : AttemptOf(k.next) = d => (k \in Held(f) <=> k \in Held(loop))
    <3>1. AttemptOf(j.next) = b /\ AttemptOf(NestJob(b).next) = b
      BY <1>6, <1>10, <1>21
    <3>. QED
      BY <1>30, <1>33, <3>1
  <2>3. /\ \A k \in ClosuresOf(d) : k \in Held(f) <=> k \in Held(loop)
        /\ \A ex \in Values : AgainJob(d, ex) \in Held(f) => AgainJob(d, ex) \in Held(loop)
    <3>1. \A k \in ClosuresOf(d) : AttemptOf(k.next) = d
      BY ClosuresOwn
    <3>2. \A ex \in Values : AttemptOf(AgainJob(d, ex).next) = d
      BY <1>32, <1>33 DEF AgainJob, Job, Names
    <3>. QED
      BY <2>2, <3>1, <3>2
  <2>4. Untouched(loop, f, d)
    BY <1>32, <1>33, <2>1, <2>3 DEF Untouched
  <2>5. /\ reply'[d] = reply[d] /\ timer'[d] = timer[d] /\ parts'[d] = parts[d] /\ delay'[d] = delay[d]
        /\ clientAlive' = clientAlive
    BY <1>32, <1>33
  <2>6. d \in once' <=> d \in once
    BY <1>32, <1>33
  <2>7. /\ Created(loop, reply, timer, delay, d) /\ Reclaimed(loop, reply, once, parts, clientAlive, d)
        /\ Reported(loop, reply, parts, d) /\ Carried(loop, d)
    BY <1>32, <1>33
  <2>8. /\ Created(f, reply', timer', delay', d) /\ Reclaimed(f, reply', once', parts', clientAlive, d)
        /\ Reported(f, reply', parts', d) /\ Carried(f, d)
    BY <2>4, <2>5, <2>6, <2>7, UntouchedKept
  <2>. QED
    BY <2>5, <2>8 DEF f
<1>34. /\ Created(loop', reply', timer', delay', b)
       /\ Reclaimed(loop', reply', once', parts', clientAlive', b)
       /\ Reported(loop', reply', parts', b)
       /\ Carried(loop', b)
  <2>1. /\ \A n \in Names : f.status[Id(b, n)] = loop.status[Id(b, n)] /\ f.value[Id(b, n)] = loop.value[Id(b, n)]
        /\ f.status[UserOf(b[1])] = loop.status[UserOf(b[1])]
        /\ f.value[UserOf(b[1])] = loop.value[UserOf(b[1])]
        /\ reply'[b] = reply[b] /\ timer'[b] = timer[b] /\ parts'[b] = parts[b] /\ delay'[b] = delay[b]
        /\ clientAlive' = clientAlive
    BY <1>6, <1>8, <1>32
  <2>2. b \in once' <=> b \in once
    BY <1>6, <1>8, <1>32
  <2>3. /\ f.status[Id(b, "reply")] = loop.status[Id(b, "reply")] /\ f.value[Id(b, "reply")] = loop.value[Id(b, "reply")]
        /\ f.status[Id(b, "timed")] = loop.status[Id(b, "timed")] /\ f.value[Id(b, "timed")] = loop.value[Id(b, "timed")]
        /\ f.status[Id(b, "mapped")] = loop.status[Id(b, "mapped")] /\ f.value[Id(b, "mapped")] = loop.value[Id(b, "mapped")]
        /\ f.status[Id(b, "again")] = loop.status[Id(b, "again")] /\ f.value[Id(b, "again")] = loop.value[Id(b, "again")]
        /\ f.status[Id(b, "tap")] = loop.status[Id(b, "tap")]
        /\ f.status[Id(b, "tick")] = loop.status[Id(b, "tick")]
        /\ f.status[Id(b, "delayed")] = loop.status[Id(b, "delayed")]
        /\ f.status[Result(b)] = loop.status[Result(b)] /\ f.value[Result(b)] = loop.value[Result(b)]
    BY <2>1 DEF Names, Result
  <2>4. /\ RetryJob(b).kind = "retry" /\ ArmJob(b).kind = "arm"
        /\ \A kind \in Objectual : ObjectJob(kind, b).kind = kind /\ AttemptOf(ObjectJob(kind, b).next) = b
        /\ AttemptOf(RetryJob(b).next) = b /\ AttemptOf(ArmJob(b).next) = b
        /\ \A ex \in Values : AttemptOf(AgainJob(b, ex).next) = b /\ AgainJob(b, ex).kind = "again"
    BY <1>9 DEF RetryJob, ArmJob, ObjectJob, AgainJob, Plain, Job, Names
  <2>5. j.kind = "again" /\ NestJob(b).kind = "pass"
    BY <1>1, <1>21
  <2>6. /\ RetryJob(b) \in Held(f) <=> RetryJob(b) \in Held(loop)
        /\ ArmJob(b) \in Held(f) <=> ArmJob(b) \in Held(loop)
        /\ \A kind \in Objectual : ObjectJob(kind, b) \in Held(f) <=> ObjectJob(kind, b) \in Held(loop)
    <3>1. \A k : AttemptOf(k.next) = b /\ k.kind \notin {"again", "pass"} => (k \in Held(f) <=> k \in Held(loop))
      BY <1>8, <1>30, <2>5
    <3>. QED
      BY <2>4, <3>1 DEF Objectual
  <2>7. \A ex \in Values : AgainJob(b, ex) \notin Held(f)
    <3>1. SUFFICES ASSUME NEW ex \in Values, AgainJob(b, ex) \in Held(f) PROVE FALSE
      OBVIOUS
    <3>2. AgainJob(b, ex) # j
      BY <1>31, <3>1
    <3>3. AgainJob(b, ex) # NestJob(b)
      BY <2>4, <2>5
    <3>4. AgainJob(b, ex) \in Held(loop)
      BY <1>8, <1>30, <2>4, <3>1, <3>2, <3>3
    <3>. QED
      BY <1>14, <3>2, <3>4
  <2>8. Made(loop, Id(b, "again")) /\ IsPending(f, Id(b, "again")) /\ Made(f, Id(b, "again"))
    BY <1>13, <2>3 DEF G, Made, IsPending
  <2>9. Created(f, reply', timer', delay', b)
    BY <1>11, <2>1, <2>3, <2>6, <2>7, <2>8 DEF Created, Made, IsPending
  <2>10. Reclaimed(f, reply', once', parts', clientAlive', b)
    BY <1>11, <2>1, <2>2, <2>3, <2>6 DEF Reclaimed, Objectual, Made, IsPending
  <2>11. Out(f, b) = Out(loop, b) /\ f.status[Out(loop, b)] = loop.status[Out(loop, b)]
         /\ f.value[Out(loop, b)] = loop.value[Out(loop, b)]
    BY <2>3 DEF Out, Made
  <2>12. Reported(f, reply', parts', b)
    BY <1>11, <2>1, <2>3, <2>6, <2>11 DEF Reported, Made, IsSettled, IsFulfilled, IsRejected
  <2>13. Carried(f, b)
    <3>1. ~IsSettled(f, Id(b, "again")) /\ ~IsSettled(loop, Id(b, "again"))
      BY <2>3, <2>8 DEF IsSettled, IsFulfilled, IsRejected, IsPending
    <3>2. ~IsSettled(loop, Result(b))
      BY <1>11, <2>8, <3>1 DEF Carried, Like
    <3>3. ~IsSettled(f, Result(b))
      BY <2>3, <3>2 DEF IsSettled, IsFulfilled, IsRejected
    <3>4. IsRejected(f, Out(f, b)) /\ f.value[Out(f, b)] \in Retryable
      BY <1>11, <2>8, <2>11 DEF Carried, IsRejected
    <3>5. \A n \in {"reply", "timed", "mapped"} : IsFulfilled(f, Id(b, n)) <=> f.value[Id(b, n)] = "data"
      <4>1. \A n \in {"reply", "timed", "mapped"} : IsFulfilled(loop, Id(b, n)) <=> loop.value[Id(b, n)] = "data"
        BY <1>11 DEF Carried
      <4>. QED
        BY <2>3, <4>1 DEF IsFulfilled
    <3>6. b[2] = 1 => ~IsSettled(f, UserOf(b[1]))
      BY <1>11, <2>1, <3>2 DEF Carried, IsSettled, IsFulfilled, IsRejected
    <3>. QED
      BY <2>7, <3>1, <3>3, <3>4, <3>5, <3>6 DEF Carried
  <2>. QED
    BY <2>9, <2>10, <2>12, <2>13 DEF f
<1>35. IInv'
  BY <1>28, <1>33, <1>34 DEF IInv
<1>36. Opens(a, c, {}) /\ c \in Choices(b[1])
  <2>. DEFINE Q == {Id(a, "reply"), Id(a, "timed"), Id(a, "mapped"), Result(a)} \cup {}
  <2>1. \A q \in PromiseIds \ Q : f.status[q] = loop.status[q] /\ f.value[q] = loop.value[q]
    BY <1>10, <1>29
  <2>2. Moves(loop, loop', Q)
    BY <2>1 DEF Moves, f
  <2>3. c \in Choices(a[1]) /\ Launch(a, c) /\ Begins(loop, loop', a, c)
    BY <1>2, <1>27 DEF f
  <2>. QED
    BY <1>8, <2>2, <2>3 DEF Opens
<1>. QED
  BY <1>6, <1>12, <1>13, <1>35, <1>36 DEF G, a

---------------------------------------------------------------------------
(* The invariant.                                                          *)

\* Nothing has happened yet.
LEMMA InitInvariant == Init => IInv
<1>. SUFFICES ASSUME Init PROVE IInv
  OBVIOUS
<1>1. loop \in Engines
  BY EmptySafe DEF Init, Engines, Beyond, Values
<1>2. /\ \A p \in PromiseIds : /\ ~Made(loop, p) /\ ~IsPending(loop, p) /\ ~IsSettled(loop, p)
                               /\ ~IsFulfilled(loop, p) /\ loop.waiting[p] = <<>>
                               /\ loop.value[p] = Nothing
      /\ loop.posted = <<>>
  BY DEF Init, EmptyLoop, Made, IsPending, IsSettled, IsFulfilled, IsRejected
<1>3. DOMAIN loop.posted = {}
  BY <1>2
<1>4. Events(loop.posted) = {} /\ Once(loop.posted) /\ Orderly(loop)
  BY <1>3 DEF Events, Once, Orderly
<1>5. Held(loop) = {}
  <2>1. Queued(loop) = {}
    BY <1>4 DEF Queued
  <2>2. \A p \in PromiseIds, j \in GoodJobs : loop.waiting[p] # <<j>>
    BY <1>2
  <2>. QED
    BY <2>1, <2>2 DEF Held
<1>6. Listened(loop, {}) /\ Outspoken(loop, {}) /\ Aimed(loop, {}) /\ Awaited(loop, {})
  <2>1. Listened(loop, {})
    BY <1>2 DEF Listened
  <2>2. Outspoken(loop, {})
    BY <1>4 DEF Outspoken
  <2>3. Aimed(loop, {}) /\ Awaited(loop, {})
    BY <1>2, <1>5 DEF Aimed, Awaited
  <2>. QED
    BY <2>1, <2>2, <2>3
<1>7. Wired(loop, {}, {})
  BY <1>1, <1>4, <1>6 DEF Wired
<1>8. Sound
  BY <1>7 DEF Init, Sound, QuietAfterDestroy
<1>9. ASSUME NEW a \in Within
      PROVE  /\ Created(loop, reply, timer, delay, a)
             /\ Reclaimed(loop, reply, once, parts, clientAlive, a)
             /\ Reported(loop, reply, parts, a)
             /\ Carried(loop, a)
  <2>1. /\ \A n \in Names : Id(a, n) \in PromiseIds /\ ~Made(loop, Id(a, n)) /\ ~IsPending(loop, Id(a, n))
                            /\ ~IsSettled(loop, Id(a, n)) /\ ~IsFulfilled(loop, Id(a, n))
                            /\ loop.value[Id(a, n)] = Nothing
        /\ Result(a) = Id(a, "result")
        /\ UserOf(a[1]) \in PromiseIds /\ ~Made(loop, UserOf(a[1])) /\ ~IsSettled(loop, UserOf(a[1]))
        /\ Result(NextAttempt(a)) \in PromiseIds /\ ~Nested(loop, a)
        /\ Out(loop, a) \in PromiseIds /\ ~IsSettled(loop, Out(loop, a))
    BY <1>2, Neighbours DEF Nested, Names
  <2>2. a \in Attempts /\ reply[a] = "none" /\ parts[a] = "none" /\ once = {}
        /\ timer[a] = "none" /\ delay[a] = "none"
    BY IdGood DEF Init, Names
  <2>3. Created(loop, reply, timer, delay, a)
    BY <2>1, <2>2 DEF Created, Names
  <2>4. Reclaimed(loop, reply, once, parts, clientAlive, a)
    BY <1>5, <2>1, <2>2 DEF Reclaimed, Names
  <2>5. Reported(loop, reply, parts, a)
    BY <2>1, <2>2 DEF Reported, Names
  <2>6. Carried(loop, a)
    <3>1. Nothing # "data"
      BY DEF Nothing
    <3>. QED
      BY <1>5, <2>1, <2>2, <3>1 DEF Carried, Names
  <2>. QED
    BY <2>3, <2>4, <2>5, <2>6
<1>. QED
  BY <1>8, <1>9 DEF IInv

\* Every action keeps it.
LEMMA NextInvariant == IInv /\ [Next]_vars => IInv'
<1>. SUFFICES ASSUME IInv, [Next]_vars PROVE IInv'
  OBVIOUS
<1>1. CASE \E r \in Requests : SendRequest(r)
  BY <1>1, SendRequestStep
<1>2. CASE DeliverEvent
  BY <1>2, ForwardStep, AbortStep, RetryRejectStep, RetryDelayStep, ArmDelayStep, ElapsedStep, RetryAgainStep,
     RetryAbandonStep, DeserializeStep, FinishedSignalStep, DeleteReplyStep, DeletePartsStep DEF DeliverEvent
<1>3. CASE \E a \in Attempts : FireTimeout(a) \/ FireDelay(a) \/ ReplyFinishes(a)
  BY <1>3, FireTimeoutStep, FireDelayStep, ReplyFinishesStep
<1>4. CASE DestroyClient \/ DestroyRetry
  BY <1>4, DestroyClientStep, DestroyRetryStep
<1>5. CASE UNCHANGED vars
  BY <1>5 DEF vars, IInv, Sound, QuietAfterDestroy
<1>. QED
  BY <1>1, <1>2, <1>3, <1>4, <1>5 DEF Next

\* So it holds of every execution.
THEOREM Inductive == Spec => []IInv
  BY InitInvariant, NextInvariant, PTL DEF Spec

---------------------------------------------------------------------------
(* What follows.                                                           *)

\* A closure that is waiting or posted is one the engine holds.
LEMMA HeldIs ==
    ASSUME IInv
    PROVE  /\ HeldJobs = Held(loop) /\ HeldJobs \subseteq GoodJobs
           /\ Posted = Events(loop.posted)
<1>1. Posted = Events(loop.posted)
  BY DEF Posted, Events
<1>2. {v.job : v \in Posted} = Queued(loop)
  BY <1>1 DEF Queued
<1>3. /\ loop \in Engines
      /\ \A p \in PromiseIds : loop.waiting[p] = <<>> \/ \E j \in Reactions : loop.waiting[p] = <<j>>
  BY DEF IInv, Sound, Wired, Listened
<1>4. ASSUME NEW j, NEW p \in PromiseIds, NEW n \in DOMAIN loop.waiting[p], j = loop.waiting[p][n]
      PROVE  j \in Held(loop)
  <2>1. loop.waiting[p] # <<>>
    BY <1>4
  <2>2. PICK k \in Reactions : loop.waiting[p] = <<k>>
    BY <1>3, <2>1
  <2>3. n = 1 /\ j = k
    BY <1>4, <2>2
  <2>. QED
    BY <2>2, <2>3 DEF Held, Reactions
<1>5. ASSUME NEW j \in GoodJobs, NEW p \in PromiseIds, loop.waiting[p] = <<j>>
      PROVE  j \in HeldJobs
  <2>1. 1 \in DOMAIN loop.waiting[p] /\ j = loop.waiting[p][1]
    BY <1>5
  <2>. QED
    BY <2>1 DEF HeldJobs
<1>6. HeldJobs = Held(loop)
  <2>1. ASSUME NEW j \in HeldJobs PROVE j \in Held(loop)
    <3>1. CASE j \in {v.job : v \in Posted}
      BY <1>2, <3>1 DEF Held
    <3>2. CASE j \in UNION {{loop.waiting[p][n] : n \in DOMAIN loop.waiting[p]} : p \in PromiseIds}
      BY <1>4, <3>2
    <3>. QED
      BY <2>1, <3>1, <3>2 DEF HeldJobs
  <2>2. ASSUME NEW j \in Held(loop) PROVE j \in HeldJobs
    <3>1. CASE j \in Queued(loop)
      BY <1>2, <3>1 DEF HeldJobs
    <3>2. CASE j \in GoodJobs /\ \E p \in PromiseIds : loop.waiting[p] = <<j>>
      BY <1>5, <3>2
    <3>. QED
      BY <2>2, <3>1, <3>2 DEF Held
  <2>. QED
    BY <2>1, <2>2
<1>. QED
  BY <1>1, <1>3, <1>6, Parts

\* A good closure is a closure, and the budget it captured what is left.
LEMMA GoodAre ==
    ASSUME NEW j \in GoodJobs
    PROVE  /\ j \in Jobs
           /\ j.kind \in {"retry", "again"} => j.left = MaxRetries + 1 - j.next[2]
<1>. DEFINE a == AttemptOf(j.next)
<1>1. j.next \in PromiseIds
  BY Anatomy
<1>2. a[2] = j.next[2]
  BY DEF AttemptOf
<1>3. j.kind # "decode" => a \in Within
  BY Anatomy
<1>4. 0 \in 0..MaxRetries /\ Nothing \in Values
  BY DEF Values
<1>5. \/ j.kind = "decode" /\ j = DecodeJob(j.next[1])
      \/ j.kind = "abort" /\ j = AbortJob(a)
      \/ j.kind = "retry" /\ j = RetryJob(a)
      \/ j.kind = "arm" /\ j = ArmJob(a)
      \/ j.kind = "elapsed" /\ j = ElapsedJob(a)
      \/ j.kind = "again" /\ j.saved \in Values /\ j = AgainJob(a, j.saved) /\ a[2] <= MaxRetries
      \/ j.kind = "pass" /\ j = Pass(j.next)
      \/ j.kind \in Objectual /\ j = ObjectJob(j.kind, a)
  BY Anatomy DEF Kinds, Objectual
<1>6. CASE j.kind = "retry"
  <2>1. MaxRetries + 1 - a[2] \in 0..MaxRetries
    BY <1>3, <1>6 DEF Within
  <2>2. j = RetryJob(a) /\ RetryJob(a).next = j.next
    BY <1>5, <1>6 DEF Objectual
  <2>. QED
    BY <1>1, <1>2, <1>4, <1>6, <2>1, <2>2 DEF RetryJob, Job, Jobs, Kinds
<1>7. CASE j.kind = "again"
  <2>1. MaxRetries + 1 - a[2] \in 0..MaxRetries
    BY <1>3, <1>7 DEF Within
  <2>2. j.saved \in Values /\ j = AgainJob(a, j.saved)
    BY <1>5, <1>7 DEF Objectual
  <2>. QED
    BY <1>1, <1>2, <1>7, <2>1, <2>2 DEF AgainJob, Job, Jobs, Kinds
<1>8. CASE j.kind \notin {"retry", "again"}
  <2>1. j = Job(j.kind, j.next, 0, Nothing)
    BY <1>5, <1>8 DEF DecodeJob, AbortJob, ArmJob, ElapsedJob, Pass, ObjectJob, Plain, Job
  <2>2. j.kind \in Kinds
    BY Anatomy
  <2>. QED
    BY <1>1, <1>4, <1>8, <2>1, <2>2 DEF Job, Jobs
<1>. QED
  BY <1>6, <1>7, <1>8

\* Types: no event, closure, reply, timer or multipart is ever of another
\* kind than TypeOK lists, and no closure has a negative budget.
THEOREM TypeCorrect == Spec => []TypeOK
<1>1. IInv => TypeOK
  <2>. SUFFICES ASSUME IInv PROVE TypeOK
    OBVIOUS
  <2>1. GoodJobs \subseteq Jobs
    BY GoodAre
  <2>2. loop \in EngineType(PromiseIds, GoodJobs, Values)
    BY DEF IInv, Sound, Wired, Engines, SafeEngine
  <2>3. \A p \in PromiseIds : loop.waiting[p] \in Seq(Jobs)
    BY <2>1, <2>2, SeqMonotonic DEF EngineType
  <2>4. loop.posted \in Seq(EventType(Jobs, Values))
    <3>1. EventType(GoodJobs, Values) \subseteq EventType(Jobs, Values)
      BY <2>1 DEF EventType
    <3>. QED
      BY <2>2, <3>1, SeqMonotonic DEF EngineType
  <2>5. loop.waiting \in [PromiseIds -> Seq(Jobs)]
    BY <2>2, <2>3 DEF EngineType
  <2>6. loop \in EngineType(PromiseIds, Jobs, Values)
    BY <2>2, <2>4, <2>5 DEF EngineType
  <2>7. once \subseteq Attempts
    BY IdGood DEF IInv, Sound, Names
  <2>. QED
    BY <2>6, <2>7 DEF IInv, Sound, TypeOK
<1>. QED
  BY <1>1, Inductive, PTL

\* The recursion through events and timers counts down by one: the budget in
\* every closure is what its attempt has left.
THEOREM BudgetAlwaysKept == Spec => []BudgetKept
<1>1. IInv => BudgetKept
  BY HeldIs, GoodAre DEF BudgetKept
<1>. QED
  BY <1>1, Inductive, PTL

\* A request is never attempted more than MaxRetries + 1 times, whatever the
\* network, the timers, the policy and the owners do.
THEOREM RetriesBounded == Spec => []RetryBound
<1>1. IInv => RetryBound
  <2>. SUFFICES ASSUME IInv, NEW r \in Requests, NEW i \in Tries(r)
                PROVE  i \in 1..(MaxRetries + 1)
    BY DEF RetryBound
  <2>1. i \in AttemptIds /\ loop.status[<<r, i, "result">>] # "absent"
    BY DEF Tries, Begun, Id
  <2>2. <<r, i, "result">> \notin Beyond
    BY <2>1 DEF IInv, Sound, Wired, Engines, SafeEngine
  <2>3. i # MaxRetries + 2
    BY <2>1, <2>2 DEF Beyond, PromiseIds, AttemptIds, Names
  <2>. QED
    BY <2>1, <2>3 DEF AttemptIds
<1>. QED
  BY <1>1, Inductive, PTL

\* After ~NetworkClient no reply of it is left or made again, whatever retry
\* was still to come.
THEOREM QuietAfterDestruction == Spec => []QuietAfterDestroy
<1>1. IInv => QuietAfterDestroy
  BY DEF IInv, Sound
<1>. QED
  BY <1>1, Inductive, PTL

\* Whatever is allocated is reclaimed, and once: the deletion of an object is
\* posted when the object has come to its end, and never a second time.
THEOREM AllReclaimedOnce == Spec => []ReclaimedOnce
<1>1. IInv => ReclaimedOnce
  <2>. SUFFICES ASSUME IInv, NEW a \in Attempts
                PROVE  LET Deletions(kind) ==
                               {n \in DOMAIN loop.posted : loop.posted[n].job = Plain(kind, Id(a, "reply"))}
                       IN  /\ clientAlive => (reply[a] = "finished" <=> Deletions("deleteReply") # {})
                           /\ \A m, n \in Deletions("deleteReply") : m = n
                           /\ parts[a] = "orphan" <=> Deletions("deleteParts") # {}
    BY DEF ReclaimedOnce
  <2>. DEFINE Deletions(kind) == {n \in DOMAIN loop.posted : loop.posted[n].job = Plain(kind, Id(a, "reply"))}
  <2>1. Once(loop.posted)
    BY DEF IInv, Sound, Wired
  <2>2. \A m, n \in Deletions("deleteReply") : m = n
    BY <2>1 DEF Once
  <2>3. ASSUME NEW kind \in Objectual
        PROVE  Deletions(kind) # {} <=> ObjectJob(kind, a) \in Held(loop)
    <3>1. ASSUME NEW n \in Deletions(kind) PROVE ObjectJob(kind, a) \in Held(loop)
      BY <3>1 DEF ObjectJob, Held, Queued, Events
    <3>2. ASSUME ObjectJob(kind, a) \in Held(loop) PROVE Deletions(kind) # {}
      <4>1. ObjectJob(kind, a) \notin Reactions
        BY DEF ObjectJob, Plain, Job, Reactions
      <4>2. \A p \in PromiseIds : loop.waiting[p] # <<ObjectJob(kind, a)>>
        <5>. DEFINE x == ObjectJob(kind, a)
        <5>1. \A p \in PromiseIds : loop.waiting[p] = <<>> \/ \E j \in Reactions : loop.waiting[p] = <<j>>
          BY DEF IInv, Sound, Wired, Listened
        <5>2. x \notin Reactions
          BY <4>1
        <5>. HIDE DEF x
        <5>3. <<x>> # <<>> /\ \A j : <<x>> = <<j>> => x = j
          OBVIOUS
        <5>4. \A p \in PromiseIds : loop.waiting[p] # <<x>>
          BY <5>1, <5>2, <5>3
        <5>. QED
          BY <5>4 DEF x
      <4>3. ObjectJob(kind, a) \in Queued(loop)
        BY <3>2, <4>2 DEF Held
      <4>4. PICK n \in DOMAIN loop.posted : loop.posted[n].job = ObjectJob(kind, a)
        BY <4>3 DEF Queued, Events
      <4>. QED
        BY <4>4 DEF ObjectJob
    <3>. QED
      BY <3>1, <3>2
  <2>4. "deleteReply" \in Objectual /\ "deleteParts" \in Objectual
    BY DEF Objectual
  <2>5. CASE a \in Within
    <3>1. Reclaimed(loop, reply, once, parts, clientAlive, a)
      BY <2>5 DEF IInv
    <3>. QED
      BY <2>2, <2>3, <2>4, <3>1 DEF Reclaimed
  <2>6. CASE a \notin Within
    <3>1. reply[a] = "none" /\ parts[a] = "none"
      BY <2>6 DEF IInv, Sound
    <3>2. ASSUME NEW kind \in Objectual PROVE ObjectJob(kind, a) \notin Held(loop)
      <4>1. SUFFICES ASSUME ObjectJob(kind, a) \in GoodJobs PROVE FALSE
        BY HeldIs
      <4>2. ObjectJob(kind, a).kind = kind /\ AttemptOf(ObjectJob(kind, a).next) = a /\ kind # "decode"
        BY DEF ObjectJob, Plain, Job, AttemptOf, Id, Attempts, Objectual
      <4>. QED
        BY <2>6, <4>1, <4>2, Anatomy
    <3>. QED
      BY <2>2, <2>3, <2>4, <3>1, <3>2
  <2>. QED
    BY <2>5, <2>6
<1>. QED
  BY <1>1, Inductive, PTL

\* An attempt that began is within the budget, and the one before it was
\* followed by it.
LEMMA BegunAfter ==
    ASSUME IInv, NEW r \in Requests, NEW i \in AttemptIds, Begun(<<r, i>>)
    PROVE  /\ <<r, i>> \in Within /\ i \in Nat
           /\ i > 1 => <<r, i - 1>> \in Within /\ Nested(loop, <<r, i - 1>>) /\ Begun(<<r, i - 1>>)
<1>1. Made(loop, <<r, i, "result">>)
  BY DEF Begun, Made, Id
<1>2. <<r, i, "result">> \notin Beyond
  BY <1>1 DEF IInv, Sound, Wired, Engines, SafeEngine, Made
<1>3. i \in 1..(MaxRetries + 1) /\ i \in Nat /\ <<r, i>> \in Within
  BY <1>2 DEF Beyond, PromiseIds, AttemptIds, Names, Within
<1>4. ASSUME i > 1 PROVE <<r, i - 1>> \in Within /\ Nested(loop, <<r, i - 1>>) /\ Begun(<<r, i - 1>>)
  <2>. DEFINE b == <<r, i - 1>>
  <2>1. b \in Within /\ b[1] = r /\ b[2] = i - 1 /\ b[2] <= MaxRetries /\ (i - 1) + 1 = i
    BY <1>3, <1>4 DEF Within
  <2>2. Result(NextAttempt(b)) = <<r, i, "result">>
    BY <2>1 DEF Result, NextAttempt, Id
  <2>. HIDE DEF b
  <2>3. Nested(loop, b)
    BY <1>1, <2>1, <2>2 DEF Nested
  <2>4. Made(loop, Result(b))
    BY <2>1, <2>3 DEF IInv, Created
  <2>. QED
    BY <2>1, <2>3, <2>4 DEF b, Begun, Made, Result
<1>. QED
  BY <1>3, <1>4

\* When an attempt begins the one before has left nothing behind, however its
\* events, its timer and the network were interleaved.
THEOREM PreviousAlwaysGone == Spec => []PreviousReplyGone
<1>1. IInv => PreviousReplyGone
  <2>. SUFFICES ASSUME IInv, NEW r \in Requests, NEW i \in AttemptIds, i > 1, Begun(<<r, i>>)
                PROVE  /\ reply[<<r, i - 1>>] \in {"none", "destroyed"}
                       /\ parts[<<r, i - 1>>] \in {"none", "freed"}
    BY DEF PreviousReplyGone
  <2>. DEFINE b == <<r, i - 1>>
  <2>1. b \in Within /\ Nested(loop, b)
    BY BegunAfter
  <2>. HIDE DEF b
  <2>2. Made(loop, Result(b)) /\ RetryJob(b) \notin Held(loop)
    BY <2>1 DEF IInv, Created
  <2>3. reply[b] \in {"none", "destroyed"} /\ parts[b] \in {"none", "freed"}
    BY <2>1, <2>2 DEF IInv, Reported
  <2>. QED
    BY <2>3 DEF b
<1>. QED
  BY <1>1, Inductive, PTL

\* What one has, and each passes on to the next, all have.
LEMMA Induction ==
    ASSUME NEW n \in Nat, NEW S, 1 \in S, \A m \in 1..n : m \in S => m + 1 \in S
    PROVE  \A m \in 1..(n + 1) : m \in S
<1>. DEFINE less == {p \in Nat \X Nat : p[1] < p[2]}
            others == {m \in 1..(n + 1) : m \notin S}
<1>1. IsWellFoundedOn(less, Nat)
  BY NatLessThanWellFounded DEF OpToRel
<1>2. ASSUME others # {} PROVE FALSE
  <2>1. PICK x \in others : \A y \in others : <<y, x>> \notin less
    <3>1. others \subseteq Nat
      OBVIOUS
    <3>. HIDE DEF less, others
    <3>. QED
      BY <1>1, <1>2, <3>1, WFMin
  <2>2. x # 1
    OBVIOUS
  <2>3. x - 1 \in 1..n /\ x - 1 \in 1..(n + 1) /\ x - 1 < x /\ x \in Nat /\ x - 1 \in Nat /\ (x - 1) + 1 = x
    BY <2>2
  <2>4. x - 1 \notin others
    <3>1. <<x - 1, x>> \in less
      BY <2>3
    <3>. QED
      BY <2>1, <3>1
  <2>. QED
    BY <2>3, <2>4
<1>. QED
  BY <1>2

\* All the attempts before one that began did begin, and were followed by one.
LEMMA AllBefore ==
    ASSUME IInv, NEW r \in Requests, NEW i \in AttemptIds, Begun(<<r, i>>)
    PROVE  \A k \in 1..(MaxRetries + 1) : k < i => <<r, k>> \in Within /\ Nested(loop, <<r, k>>)
<1>. DEFINE S == {m \in Nat : \A k \in Nat : k >= 1 /\ m = i - k => Nested(loop, <<r, k>>) /\ Begun(<<r, k>>)}
<1>1. i \in Nat /\ i <= MaxRetries + 1 /\ (i > 1 => Nested(loop, <<r, i - 1>>) /\ Begun(<<r, i - 1>>))
  BY BegunAfter DEF Within
<1>2. 1 \in S
  <2>1. \A k \in Nat : k >= 1 /\ 1 = i - k => i > 1 /\ k = i - 1
    BY <1>1
  <2>. QED
    BY <1>1, <2>1
<1>3. ASSUME NEW m \in 1..MaxRetries, m \in S PROVE m + 1 \in S
  <2>1. SUFFICES ASSUME NEW k \in Nat, k >= 1, m + 1 = i - k
                 PROVE  Nested(loop, <<r, k>>) /\ Begun(<<r, k>>)
    OBVIOUS
  <2>2. k + 1 \in Nat /\ k + 1 >= 1 /\ m = i - (k + 1) /\ (k + 1) - 1 = k /\ k + 1 > 1
        /\ k + 1 \in AttemptIds
    BY <1>1, <2>1 DEF AttemptIds
  <2>3. Begun(<<r, k + 1>>)
    BY <1>3, <2>2
  <2>. HIDE DEF S
  <2>. QED
    BY <2>2, <2>3, BegunAfter
<1>4. MaxRetries \in Nat
  OBVIOUS
<1>. HIDE DEF S
<1>5. \A m \in 1..(MaxRetries + 1) : m \in S
  BY <1>2, <1>3, <1>4, Induction
<1>6. ASSUME NEW k \in 1..(MaxRetries + 1), k < i PROVE <<r, k>> \in Within /\ Nested(loop, <<r, k>>)
  <2>1. i - k \in 1..(MaxRetries + 1) /\ k \in Nat /\ k >= 1
    BY <1>1, <1>6
  <2>2. Nested(loop, <<r, k>>)
    BY <1>5, <2>1 DEF S
  <2>. QED
    BY <2>2 DEF Within
<1>. QED
  BY <1>6

\* What an attempt came to, in the words of the property and of the proof.
LEMMA OwnIs ==
    ASSUME NEW a \in Within
    PROVE  Own(a) = loop.value[Out(loop, a)]
  BY DEF Own, Out, Made

\* The results of all attempts up to the last one agree.
LEMMA ResultsAgree ==
    ASSUME IInv, NEW r \in Requests, IsSettled(loop, <<r, 1, "result">>), NEW i \in Tries(r)
    PROVE  Like(loop, <<r, 1, "result">>, <<r, i, "result">>)
<1>. DEFINE first == <<r, 1, "result">>
            S == {k \in Nat : k <= i => Like(loop, first, <<r, k, "result">>)}
<1>1. i \in AttemptIds /\ Begun(<<r, i>>) /\ i \in Nat /\ i >= 1 /\ i <= MaxRetries + 1
  <2>1. i \in AttemptIds /\ Begun(<<r, i>>)
    BY DEF Tries
  <2>2. <<r, i>> \in Within
    BY <2>1, BegunAfter
  <2>. QED
    BY <2>1, <2>2 DEF Within
<1>2. IsSettled(loop, first)
  OBVIOUS
<1>3. 1 \in S
  BY <1>2 DEF Like
<1>4. ASSUME NEW k \in 1..MaxRetries, k \in S PROVE k + 1 \in S
  <2>. DEFINE a == <<r, k>>
              p == <<r, k, "result">>
              n == <<r, k + 1, "result">>
              G == Id(a, "again")
  <2>1. SUFFICES ASSUME k + 1 <= i PROVE Like(loop, first, n)
    OBVIOUS
  <2>2. k <= i /\ k < i /\ k \in 1..(MaxRetries + 1)
    BY <1>1, <2>1
  <2>3. Like(loop, first, p)
    BY <1>4, <2>2
  <2>4. a \in Within /\ Nested(loop, a)
    BY <1>1, <2>2, AllBefore
  <2>5. Result(a) = p /\ Result(NextAttempt(a)) = n
    BY DEF Result, NextAttempt, Id
  <2>. HIDE DEF S, first, p, n, a
  <2>6. Made(loop, Id(a, "again"))
    BY <2>4 DEF IInv, Created
  <2>7. /\ IsSettled(loop, p) /\ Made(loop, G) => Like(loop, p, G)
        /\ IsSettled(loop, G) /\ Nested(loop, a) => Like(loop, G, n)
    BY <2>4, <2>5 DEF IInv, Carried
  <2>. HIDE DEF G
  <2>. QED
    BY <2>3, <2>4, <2>6, <2>7 DEF Like, G
<1>5. MaxRetries \in Nat
  OBVIOUS
<1>. HIDE DEF S
<1>6. \A k \in 1..(MaxRetries + 1) : k \in S
  BY <1>3, <1>4, <1>5, Induction
<1>7. i \in S
  BY <1>1, <1>6
<1>. QED
  BY <1>1, <1>7 DEF S

\* The caller is told what the last attempt came to, and every earlier one
\* failed with an error the policy retries.
THEOREM OutcomeAlwaysLast == Spec => []OutcomeIsLastAttempt
<1>1. IInv => OutcomeIsLastAttempt
  <2>. SUFFICES ASSUME IInv, NEW r \in Requests, IsSettled(loop, UserOf(r)), NEW i \in Tries(r)
                PROVE  LET answer == loop.value[UserOf(r)]
                           Last(k) == <<r, k + 1>> \notin Attempts \/ ~Begun(<<r, k + 1>>)
                       IN  IF ~Last(i) THEN Own(<<r, i>>) \in Retryable
                           ELSE IF Own(<<r, i>>) = "data" THEN answer \in {"decoded", "serialization"}
                           ELSE answer = Own(<<r, i>>)
    BY DEF OutcomeIsLastAttempt
  <2>. DEFINE a == <<r, i>>
              o == Out(loop, a)
              p == <<r, i, "result">>
              G == Id(a, "again")
              first == <<r, 1, "result">>
              answer == loop.value[UserOf(r)]
              last == <<r, i + 1>> \notin Attempts \/ ~Begun(<<r, i + 1>>)
  <2>1. i \in AttemptIds /\ Begun(a) /\ a \in Within /\ i \in Nat /\ i <= MaxRetries + 1
    <3>1. i \in AttemptIds /\ Begun(<<r, i>>)
      BY DEF Tries
    <3>2. <<r, i>> \in Within
      BY <3>1, BegunAfter
    <3>. QED
      BY <3>1, <3>2 DEF Within
  <2>2. Result(a) = p /\ Result(NextAttempt(a)) = <<r, i + 1, "result">> /\ NextAttempt(a) = <<r, i + 1>>
        /\ a[2] = i
    BY DEF Result, NextAttempt, Id
  <2>3. Nested(loop, a) <=> ~last
    <3>1. i <= MaxRetries => <<r, i + 1>> \in Attempts
      BY <2>1 DEF Attempts, AttemptIds
    <3>2. ASSUME ~last PROVE i <= MaxRetries
      <4>1. <<r, i + 1>> \in Attempts /\ Begun(<<r, i + 1>>)
        BY <3>2
      <4>2. i + 1 \in AttemptIds
        BY <4>1 DEF Attempts
      <4>3. <<r, i + 1>> \in Within
        BY <4>1, <4>2, BegunAfter
      <4>. QED
        BY <2>1, <4>3 DEF Within
    <3>. QED
      BY <2>2, <3>1, <3>2 DEF Nested, Made, Begun, Id
  <2>4. Own(a) = loop.value[o]
    BY <2>1, OwnIs
  <2>5. /\ IsSettled(loop, first)
        /\ IsFulfilled(loop, first) => answer \in {"decoded", "serialization"}
        /\ ~IsFulfilled(loop, first) => answer = loop.value[first]
    <3>1. <<r, 1>> \in Within /\ Result(<<r, 1>>) = first
      BY DEF Within, Result, Id
    <3>2. Carried(loop, <<r, 1>>)
      BY <3>1 DEF IInv
    <3>. QED
      BY <3>1, <3>2 DEF Carried
  <2>6. Like(loop, first, p)
    BY <2>5, ResultsAgree
  <2>7. o \in {Id(a, "reply"), Id(a, "mapped")}
    BY <2>1, Neighbours
  <2>8. /\ IsSettled(loop, p) /\ Made(loop, G) => Like(loop, p, G)
        /\ IsSettled(loop, p) /\ ~Made(loop, G) => Like(loop, p, o)
        /\ IsSettled(loop, G) /\ ~Nested(loop, a) => IsRejected(loop, G) /\ loop.value[G] = loop.value[o]
        /\ Made(loop, G) => IsRejected(loop, o) /\ loop.value[o] \in Retryable
        /\ IsFulfilled(loop, o) <=> loop.value[o] = "data"
    <3>1. Carried(loop, a)
      BY <2>1 DEF IInv
    <3>. QED
      BY <2>2, <2>7, <3>1 DEF Carried
  <2>9. Nested(loop, a) => Made(loop, G)
    BY <2>1 DEF IInv, Created
  <2>. HIDE DEF o, p, G, first, answer, last, a
  <2>10. ASSUME ~last PROVE Own(a) \in Retryable
    BY <2>3, <2>4, <2>8, <2>9, <2>10
  <2>11. ASSUME last
         PROVE  IF Own(a) = "data" THEN answer \in {"decoded", "serialization"} ELSE answer = Own(a)
    <3>1. IsSettled(loop, p) /\ loop.value[first] = loop.value[p] /\ (IsFulfilled(loop, first) <=> IsFulfilled(loop, p))
      BY <2>6 DEF Like
    <3>2. loop.value[p] = loop.value[o] /\ (IsFulfilled(loop, p) <=> IsFulfilled(loop, o))
      BY <2>3, <2>8, <2>11, <3>1 DEF Like, IsFulfilled, IsRejected
    <3>. QED
      BY <2>4, <2>5, <2>8, <3>1, <3>2
  <2>12. IF ~last THEN Own(a) \in Retryable
         ELSE IF Own(a) = "data" THEN answer \in {"decoded", "serialization"} ELSE answer = Own(a)
    BY <2>10, <2>11
  <2>. QED
    BY <2>12 DEF answer, last, a
<1>. QED
  BY <1>1, Inductive, PTL

\* A closure of request r that is on its way to run.
Stirring(r) ==
    \E v \in Posted : v.job.next[1] = r /\ v.job.kind \notin {"finished", "deleteReply", "deleteParts"}

\* Attempt a waits for the network or for a timer.
Waits(a) ==
    \/ reply[a] = "running"
    \/ delay[a] = "armed"
    \/ timer[a] = "armed" /\ IsPending(loop, Id(a, "timed"))

\* What is pending is being settled by a closure that runs next, or by one
\* that waits for another pending promise.
LEMMA Follow ==
    ASSUME IInv, NEW p \in PromiseIds, IsPending(loop, p), p[3] \notin {"reply", "tick"}, ~Stirring(p[1])
    PROVE  \E j \in Reactions : /\ j.next = p /\ Speaker(loop, j) \in PromiseIds
                                /\ IsPending(loop, Speaker(loop, j))
<1>1. PICK j \in Held(loop) \cap Settling : j.next = p
  BY DEF IInv, Sound, Wired, Awaited
<1>2. j \notin Queued(loop)
  <2>1. SUFFICES ASSUME NEW v \in Events(loop.posted), v.job = j PROVE FALSE
    BY DEF Queued
  <2>2. v \in Posted /\ v.job.next[1] = p[1] /\ v.job.kind \notin {"finished", "deleteReply", "deleteParts"}
    BY <1>1, <2>1, HeldIs DEF Settling, Objectual
  <2>. QED
    BY <2>2 DEF Stirring
<1>3. PICK q \in PromiseIds : loop.waiting[q] = <<j>>
  BY <1>1, <1>2 DEF Held
<1>4. PICK k \in Reactions : loop.waiting[q] = <<k>> /\ Speaker(loop, k) = q /\ IsPending(loop, q)
  <2>1. loop.waiting[q] # <<>>
    BY <1>3
  <2>. QED
    BY <2>1 DEF IInv, Sound, Wired, Listened
<1>5. k = j
  BY <1>3, <1>4
<1>. QED
  BY <1>1, <1>4, <1>5

\* Which promise a reaction settles, by what it is.
LEMMA SettlesWhat ==
    ASSUME NEW j \in Reactions
    PROVE  \/ j.kind = "decode" /\ j.next[3] = "user"
           \/ j.kind = "abort" /\ j.next[3] = "mapped"
           \/ j.kind = "retry" /\ j.next[3] = "result"
           \/ j.kind = "elapsed" /\ j.next[3] = "delayed"
           \/ j.kind = "again" /\ j.next[3] = "again"
           \/ j.kind = "pass" /\ j.next[3] \in {"timed", "result", "tap"}
           \/ j.kind = "pass" /\ j.next[3] = "again" /\ AttemptOf(j.next)[2] <= MaxRetries
<1>. DEFINE a == AttemptOf(j.next)
<1>1. j \in GoodJobs /\ j.kind \notin Objectual \cup {"arm"}
  BY DEF Reactions
<1>2. j.kind \in {"decode", "abort", "retry", "elapsed", "again", "pass"}
  BY <1>1, Anatomy DEF Kinds, Objectual
<1>3. CASE j.kind = "decode"
  BY <1>1, <1>3, Anatomy, UserGood
<1>4. CASE j.kind # "decode"
  <2>1. a \in Within
    BY <1>1, <1>4, Anatomy
  <2>2. \A n \in Names : Id(a, n)[3] = n
    BY <2>1, IdGood
  <2>3. /\ j.kind = "abort" => j.next = Id(a, "mapped")
        /\ j.kind = "retry" => j.next = Id(a, "result")
        /\ j.kind = "elapsed" => j.next = Id(a, "delayed")
        /\ j.kind = "again" => j.next = Id(a, "again")
        /\ j.kind = "pass" => /\ j.next \in {Id(a, n) : n \in {"timed", "result", "tap", "again"}}
                              /\ j.next[3] = "again" => a[2] <= MaxRetries
    BY <1>1, Anatomy
  <2>. HIDE DEF a
  <2>4. /\ j.kind = "abort" => j.next[3] = "mapped"
        /\ j.kind = "retry" => j.next[3] = "result"
        /\ j.kind = "elapsed" => j.next[3] = "delayed"
        /\ j.kind = "again" => j.next[3] = "again"
        /\ j.kind = "pass" => j.next[3] \in {"timed", "result", "tap", "again"}
    BY <2>2, <2>3 DEF Names
  <2>. QED
    BY <1>2, <1>4, <2>3, <2>4 DEF a
<1>. QED
  BY <1>3, <1>4

\* A result that is pending waits for its attempt, or for the next one.
LEMMA Pursue ==
    ASSUME IInv, NEW a \in Within, IsPending(loop, Result(a)), ~Stirring(a[1]), ~Lost(a[1])
    PROVE  \/ Waits(a)
           \/ a[2] <= MaxRetries /\ IsPending(loop, Result(NextAttempt(a)))
<1>. DEFINE r == a[1]
<1>1. \A n \in Names : /\ Id(a, n) \in PromiseIds /\ Id(a, n)[1] = r /\ Id(a, n)[3] = n
                       /\ AttemptOf(Id(a, n)) = a /\ Id(a, n)[2] = a[2]
  BY IdGood
<1>2. /\ Created(loop, reply, timer, delay, a)
      /\ Reclaimed(loop, reply, once, parts, clientAlive, a)
  BY DEF IInv
<1>3. /\ reply[a] \in {"none", "running", "finished", "destroyed"} /\ a \in Attempts
      /\ a = <<r, a[2]>> /\ a[2] \in AttemptIds
  BY IdGood DEF IInv, Sound, Names, Within, AttemptIds
<1>4. ASSUME NEW n \in Names \ {"reply", "tick"}, IsPending(loop, Id(a, n))
      PROVE  \E j \in Reactions : /\ j.next = Id(a, n) /\ Speaker(loop, j) \in PromiseIds
                                  /\ IsPending(loop, Speaker(loop, j))
  BY <1>1, <1>4, Follow
<1>. HIDE DEF r
<1>5. ASSUME IsPending(loop, Id(a, "mapped")) PROVE Waits(a)
  <2>1. PICK j \in Reactions : j.next = Id(a, "mapped") /\ IsPending(loop, Speaker(loop, j))
    BY <1>4, <1>5 DEF Names
  <2>2. j.kind = "abort"
    BY <1>1, <2>1, SettlesWhat DEF Names
  <2>3. IsPending(loop, Id(a, "timed"))
    BY <1>1, <2>1, <2>2 DEF Speaker, SpeakerName, Names
  <2>. QED
    BY <1>2, <2>3 DEF Waits, Created
<1>6. ASSUME IsPending(loop, Id(a, "reply")), ~Made(loop, Id(a, "mapped")) PROVE Waits(a)
  <2>1. Made(loop, Id(a, "reply"))
    BY <1>6 DEF IsPending, Made
  <2>2. reply[a] # "none" /\ a \notin once /\ reply[a] # "finished"
    BY <1>2, <1>6, <2>1 DEF Reclaimed
  <2>3. r \notin Timed
    BY <1>2, <1>6, <2>2 DEF Created, r
  <2>4. reply[a] # "destroyed"
    <3>1. SUFFICES ASSUME reply[a] = "destroyed" PROVE Lost(r)
      BY DEF r
    <3>. QED
      BY <1>3, <2>2, <2>3, <3>1 DEF Lost
  <2>. QED
    BY <1>3, <2>2, <2>4 DEF Waits
<1>7. ASSUME IsPending(loop, Id(a, "tap")) PROVE Waits(a)
  <2>1. PICK j \in Reactions : j.next = Id(a, "tap") /\ IsPending(loop, Speaker(loop, j))
    BY <1>4, <1>7 DEF Names
  <2>2. j.kind = "pass" /\ j.next[3] = "tap"
    BY <1>1, <2>1, SettlesWhat DEF Names
  <2>3. IsPending(loop, Id(a, "tick"))
    BY <1>1, <2>1, <2>2 DEF Speaker, SpeakerName, Names
  <2>. QED
    BY <1>2, <2>3 DEF Waits, Created
<1>8. ASSUME IsPending(loop, Id(a, "delayed")) PROVE Waits(a)
  <2>1. PICK j \in Reactions : j.next = Id(a, "delayed") /\ IsPending(loop, Speaker(loop, j))
    BY <1>4, <1>8 DEF Names
  <2>2. j.kind = "elapsed"
    BY <1>1, <2>1, SettlesWhat DEF Names
  <2>3. IsPending(loop, Id(a, "tap"))
    BY <1>1, <2>1, <2>2 DEF Speaker, SpeakerName, Names
  <2>. QED
    BY <1>7, <2>3
<1>9. ASSUME IsPending(loop, Id(a, "again"))
      PROVE  Waits(a) \/ (a[2] <= MaxRetries /\ IsPending(loop, Result(NextAttempt(a))))
  <2>1. PICK j \in Reactions : j.next = Id(a, "again") /\ IsPending(loop, Speaker(loop, j))
    BY <1>4, <1>9 DEF Names
  <2>2. j.kind = "again" \/ (j.kind = "pass" /\ j.next[3] = "again" /\ a[2] <= MaxRetries)
    BY <1>1, <2>1, SettlesWhat DEF Names
  <2>3. CASE j.kind = "again"
    <3>1. IsPending(loop, Id(a, "delayed"))
      BY <1>1, <2>1, <2>3 DEF Speaker, SpeakerName, Names
    <3>. QED
      BY <1>8, <3>1
  <2>4. CASE j.kind = "pass" /\ j.next[3] = "again" /\ a[2] <= MaxRetries
    <3>1. Speaker(loop, j) = Result(NextAttempt(a))
      BY <1>1, <2>1, <2>4 DEF Speaker, Result, NextAttempt, Id, Names
    <3>. QED
      BY <2>1, <2>4, <3>1
  <2>. QED
    BY <2>2, <2>3, <2>4
<1>10. PICK j \in Reactions : j.next = Id(a, "result") /\ IsPending(loop, Speaker(loop, j))
  BY <1>4 DEF Names, Result
<1>11. j.kind = "retry" \/ (j.kind = "pass" /\ j.next[3] = "result")
  BY <1>1, <1>10, SettlesWhat DEF Names
<1>12. CASE j.kind = "retry"
  <2>1. IsPending(loop, Out(loop, a))
    BY <1>1, <1>10, <1>12 DEF Speaker, Names
  <2>. QED
    BY <1>5, <1>6, <2>1 DEF Out
<1>13. CASE j.kind = "pass" /\ j.next[3] = "result"
  <2>1. IsPending(loop, Id(a, "again"))
    BY <1>1, <1>10, <1>13 DEF Speaker, SpeakerName, Names
  <2>. QED
    BY <1>9, <2>1
<1>. QED
  BY <1>11, <1>12, <1>13

\* No lost wakeup: a promise the caller waits on is never pending without an
\* event, an armed timer or a running reply that will move it on.
THEOREM PendingAlwaysCaused == Spec => []PendingHasCause
<1>1. IInv => PendingHasCause
  <2>. SUFFICES ASSUME IInv, NEW r \in Requests, IsPending(loop, UserOf(r)), ~Lost(r), ~Stirring(r),
                       \A i \in AttemptIds : ~Waits(<<r, i>>)
                PROVE  FALSE
    <3>. SUFFICES ASSUME NEW r \in Requests, IsPending(loop, UserOf(r)), ~Lost(r), ~Stirring(r)
                  PROVE  (\E i \in AttemptIds : Waits(<<r, i>>)) =>
                            \/ Running(r) # {}
                            \/ \E i \in AttemptIds :
                                  \/ delay[<<r, i>>] = "armed"
                                  \/ timer[<<r, i>>] = "armed" /\ IsPending(loop, <<r, i, "timed">>)
      BY DEF PendingHasCause, Stirring
    <3>1. \A i : Id(<<r, i>>, "timed") = <<r, i, "timed">>
      BY DEF Id
    <3>. QED
      BY <3>1 DEF Waits, Running
  <2>. DEFINE S == {k \in Nat : k \in 1..(MaxRetries + 1) /\ IsPending(loop, Result(<<r, k>>))}
  <2>1. 1 \in S
    <3>1. UserOf(r) \in PromiseIds /\ UserOf(r)[1] = r /\ UserOf(r)[3] = "user"
      BY UserGood
    <3>2. PICK j \in Reactions : j.next = UserOf(r) /\ IsPending(loop, Speaker(loop, j))
      BY <3>1, Follow
    <3>3. j.kind = "decode"
      BY <3>1, <3>2, SettlesWhat
    <3>4. Speaker(loop, j) = Result(<<r, 1>>)
      BY <3>1, <3>2, <3>3 DEF Speaker, Result, Id
    <3>. QED
      BY <3>2, <3>4
  <2>2. ASSUME NEW k \in 1..(MaxRetries + 1), k \in S PROVE k + 1 \in S
    <3>. DEFINE a == <<r, k>>
    <3>1. a \in Within /\ a[1] = r /\ a[2] = k /\ k \in AttemptIds /\ NextAttempt(a) = <<r, k + 1>>
      BY DEF Within, AttemptIds, NextAttempt
    <3>2. IsPending(loop, Result(a)) /\ ~Waits(a)
      BY <2>2, <3>1
    <3>. HIDE DEF a
    <3>3. a[2] <= MaxRetries /\ IsPending(loop, Result(NextAttempt(a)))
      BY <3>1, <3>2, Pursue
    <3>. QED
      BY <3>1, <3>3
  <2>3. MaxRetries + 1 \in Nat /\ MaxRetries + 2 \in 1..((MaxRetries + 1) + 1)
        /\ MaxRetries + 2 \notin 1..(MaxRetries + 1)
    OBVIOUS
  <2>4. MaxRetries + 2 \notin S
    BY <2>3
  <2>. HIDE DEF S
  <2>5. \A m \in 1..((MaxRetries + 1) + 1) : m \in S
    BY <2>1, <2>2, <2>3, Induction
  <2>. QED
    BY <2>3, <2>4, <2>5
<1>. QED
  BY <1>1, Inductive, PTL

---------------------------------------------------------------------------
(* The contract.                                                           *)

\* What attempt a may come to, for what happened to it.
Meant(rp, alive, a, v) ==
    \/ v \in {"data", "transient", "permanent"} /\ rp[a] # "none"
    \/ v = "serialization" /\ a[1] \in Multipart
    \/ v = "logic" /\ a[1] \in Misused
    \/ v = "destroyed" /\ ~alive

\* Every outcome has its cause; that a reply was aborted nobody learns.
Explained(e, rp, alive, a) ==
    LET R == Id(a, "reply")
        T == Id(a, "timed")
        M == Id(a, "mapped")
    IN  /\ IsSettled(e, R) => \/ Meant(rp, alive, a, e.value[R])
                              \/ e.value[R] = "canceled" /\ IsSettled(e, T)
        /\ IsSettled(e, T) => Meant(rp, alive, a, e.value[T]) \/ e.value[T] = TimeoutException
        /\ IsSettled(e, M) => Meant(rp, alive, a, e.value[M]) \/ e.value[M] = "timeout"
        /\ Made(e, T) => rp[a] # "none"

EInv == IInv /\ \A a \in Within : Explained(loop, reply, clientAlive, a)

\* A step that the callers see nothing of.
Quiet ==
    /\ \A r \in Requests : /\ loop'.status[UserOf(r)] = loop.status[UserOf(r)]
                           /\ loop'.value[UserOf(r)] = loop.value[UserOf(r)]
    /\ \A a \in Attempts : reply'[a] = "none" <=> reply[a] = "none"
    /\ clientAlive' = clientAlive

\* Nothing the contract speaks of has changed.
LEMMA QuietStutters ==
    ASSUME Quiet
    PROVE  UNCHANGED Contract!vars
<1>1. [r \in Requests |-> Phase(r)]' = [r \in Requests |-> Phase(r)]
  BY DEF Quiet, Phase
<1>2. [r \in Requests |-> loop.value[UserOf(r)]]' = [r \in Requests |-> loop.value[UserOf(r)]]
  BY DEF Quiet
<1>3. [r \in Requests |-> Cardinality({i \in AttemptIds : reply[<<r, i>>] # "none"})]'
        = [r \in Requests |-> Cardinality({i \in AttemptIds : reply[<<r, i>>] # "none"})]
  <2>1. ASSUME NEW r \in Requests
        PROVE  {i \in AttemptIds : reply'[<<r, i>>] # "none"} = {i \in AttemptIds : reply[<<r, i>>] # "none"}
    BY DEF Quiet, Attempts
  <2>. QED
    BY <2>1
<1>. QED
  BY <1>1, <1>2, <1>3 DEF Contract!vars, Quiet

\* An engine, whatever its closures are.
Shaped(e) ==
    /\ e = [status |-> e.status, value |-> e.value, waiting |-> e.waiting, posted |-> e.posted]
    /\ DOMAIN e.status = PromiseIds /\ DOMAIN e.value = PromiseIds

\* Engines have that shape.
LEMMA EnginesShaped ==
    ASSUME NEW e \in Engines
    PROVE  Shaped(e)
  BY Parts DEF Shaped

\* Settling a promise changes that promise only, and only if it is pending.
LEMMA SettleMoves ==
    ASSUME NEW e, Shaped(e), NEW p \in PromiseIds, NEW ok \in BOOLEAN, NEW v
    PROVE  /\ Shaped(Settle(e, p, ok, v)) /\ Moves(e, Settle(e, p, ok, v), {p})
           /\ IsPending(e, p) => /\ IsSettled(Settle(e, p, ok, v), p)
                                 /\ Settle(e, p, ok, v).value[p] = v
           /\ ~IsPending(e, p) => Settle(e, p, ok, v) = e
<1>1. CASE IsPending(e, p)
  <2>. DEFINE f == Settle(e, p, ok, v)
  <2>1. /\ f.status = [e.status EXCEPT ![p] = IF ok THEN "fulfilled" ELSE "rejected"]
        /\ f.value = [e.value EXCEPT ![p] = v]
        /\ f = [status |-> f.status, value |-> f.value, waiting |-> f.waiting, posted |-> f.posted]
    BY <1>1 DEF Settle, Shaped
  <2>. HIDE DEF f
  <2>2. DOMAIN e.status = PromiseIds /\ DOMAIN e.value = PromiseIds
    BY DEF Shaped
  <2>3. f.status[p] \in {"fulfilled", "rejected"} /\ f.value[p] = v
    BY <2>1, <2>2
  <2>4. Moves(e, f, {p})
    BY <2>1, <2>2 DEF Moves
  <2>5. Shaped(f)
    BY <2>1, <2>2 DEF Shaped
  <2>6. IsSettled(f, p)
    BY <2>3 DEF IsSettled, IsFulfilled, IsRejected
  <2>. QED
    BY <1>1, <2>3, <2>4, <2>5, <2>6 DEF f
<1>2. CASE ~IsPending(e, p)
  BY <1>2 DEF Settle, Moves
<1>. QED
  BY <1>1, <1>2

\* Taking an event off the queue settles nothing.
LEMMA PoppedSame ==
    ASSUME IInv, loop.posted # <<>>
    PROVE  /\ Rest \in Engines /\ Rest.status = loop.status /\ Rest.value = loop.value
           /\ loop \in Engines /\ Current.job \in GoodJobs /\ Current.ok \in BOOLEAN
<1>1. loop \in Engines
  BY DEF IInv, Sound, Wired
<1>2. Rest \in Engines /\ Current \in EventType(GoodJobs, Values)
  BY <1>1, PoppedSafe DEF Engines, Rest, Current, Beyond
<1>3. Rest.status = loop.status /\ Rest.value = loop.value
  BY <1>1, Parts DEF Rest, Popped
<1>. QED
  BY <1>1, <1>2, <1>3 DEF EventType

\* An attempt whose outcomes are as they were is still explained.
LEMMA ExplainedKept ==
    ASSUME NEW e, NEW f, NEW a, NEW rp, NEW rp2, NEW alive, NEW alive2, Explained(e, rp, alive, a),
           \A n \in {"reply", "timed", "mapped"} :
              f.status[Id(a, n)] = e.status[Id(a, n)] /\ f.value[Id(a, n)] = e.value[Id(a, n)],
           rp[a] # "none" => rp2[a] # "none", alive2 => alive
    PROVE  Explained(f, rp2, alive2, a)
<1>1. /\ f.status[Id(a, "reply")] = e.status[Id(a, "reply")] /\ f.value[Id(a, "reply")] = e.value[Id(a, "reply")]
      /\ f.status[Id(a, "timed")] = e.status[Id(a, "timed")] /\ f.value[Id(a, "timed")] = e.value[Id(a, "timed")]
      /\ f.status[Id(a, "mapped")] = e.status[Id(a, "mapped")] /\ f.value[Id(a, "mapped")] = e.value[Id(a, "mapped")]
  OBVIOUS
<1>2. \A v : Meant(rp, alive, a, v) => Meant(rp2, alive2, a, v)
  BY DEF Meant
<1>. QED
  BY <1>1, <1>2 DEF Explained, IsSettled, IsFulfilled, IsRejected, Made

\* Where what an attempt came to shows.
Outcomes == {"reply", "timed", "mapped"}

\* An attempt none of whose outcomes a step changes is explained after it.
LEMMA ExplainedElse ==
    ASSUME EInv, NEW b \in Within, NEW Q, Moves(loop, loop', Q),
           \A q \in Q : q[3] \in Outcomes => AttemptOf(q) # b,
           reply[b] # "none" => reply'[b] # "none", clientAlive' => clientAlive
    PROVE  Explained(loop', reply', clientAlive', b)
<1>. DEFINE f == loop'
            rp == reply'
            al == clientAlive'
<1>1. Explained(loop, reply, clientAlive, b)
  BY DEF EInv
<1>2. ASSUME NEW n \in Outcomes PROVE Id(b, n) \in PromiseIds /\ Id(b, n) \notin Q
  <2>1. Id(b, n) \in PromiseIds /\ Id(b, n)[3] = n /\ AttemptOf(Id(b, n)) = b
    BY IdGood DEF Names, Outcomes
  <2>. QED
    BY <2>1
<1>3. \A n \in {"reply", "timed", "mapped"} :
         f.status[Id(b, n)] = loop.status[Id(b, n)] /\ f.value[Id(b, n)] = loop.value[Id(b, n)]
  BY <1>2 DEF Moves, Outcomes
<1>4. (reply[b] # "none" => rp[b] # "none") /\ (al => clientAlive)
  OBVIOUS
<1>. HIDE DEF f, rp, al
<1>5. Explained(f, rp, al, b)
  BY <1>1, <1>3, <1>4, ExplainedKept
<1>. QED
  BY <1>5 DEF f, rp, al

\* The callers see nothing of a step that answers nobody and sends nothing.
LEMMA QuietMoves ==
    ASSUME NEW Q, Moves(loop, loop', Q), \A q \in Q : q[3] # "user",
           \A a \in Attempts : reply'[a] = "none" <=> reply[a] = "none", clientAlive' = clientAlive
    PROVE  Quiet
<1>1. \A r \in Requests : UserOf(r) \in PromiseIds /\ UserOf(r) \notin Q
  BY UserGood
<1>. QED
  BY <1>1 DEF Quiet, Moves

\* The promises in which the outcome of an attempt shows, or a request's.
Telling == Outcomes \cup {"user"}

\* A step that changes none of those promises is seen by nobody.
LEMMA Unseen ==
    ASSUME EInv, NEW Q, Moves(loop, loop', Q), \A q \in Q : q[3] \notin Telling,
           \A a \in Attempts : reply'[a] = "none" <=> reply[a] = "none", clientAlive' = clientAlive
    PROVE  /\ \A a \in Within : Explained(loop', reply', clientAlive', a)
           /\ Quiet
<1>1. \A q \in Q : q[3] \notin Outcomes /\ q[3] # "user"
  BY DEF Telling, Outcomes
<1>2. ASSUME NEW a \in Within PROVE Explained(loop', reply', clientAlive', a)
  <2>1. /\ \A q \in Q : q[3] \in Outcomes => AttemptOf(q) # a
        /\ reply[a] # "none" => reply'[a] # "none"
        /\ clientAlive' => clientAlive
    BY <1>1, IdGood DEF Names
  <2>. QED
    BY <2>1, ExplainedElse
<1>3. Quiet
  BY <1>1, QuietMoves
<1>. QED
  BY <1>2, <1>3

\* The handlers that settle a promise within the retry or the delay.
LEMMA InnerUnseen ==
    ASSUME EInv, RetryReject \/ Elapsed \/ RetryAbandon
    PROVE  /\ \A a \in Within : Explained(loop', reply', clientAlive', a)
           /\ Quiet
<1>. DEFINE j == Current.job
            p == Target
<1>1. /\ loop.posted # <<>> /\ j.kind \in {"retry", "elapsed", "again"} /\ UNCHANGED Objects
      /\ \E ok \in BOOLEAN : \E v : loop' = Settle(Rest, p, ok, v)
  <2>1. loop.posted # <<>> /\ j.kind \in {"retry", "elapsed", "again"} /\ UNCHANGED Objects
    BY DEF RetryReject, Elapsed, RetryAbandon, Delivers, Current
  <2>2. \E ok \in BOOLEAN : \E v : loop' = Settle(Rest, p, ok, v)
    <3>1. CASE RetryReject
      BY <3>1 DEF RetryReject
    <3>2. CASE Elapsed
      BY <3>2 DEF Elapsed
    <3>3. CASE RetryAbandon
      BY <3>3 DEF RetryAbandon
    <3>. QED
      BY <3>1, <3>2, <3>3
  <2>. QED
    BY <2>1, <2>2
<1>2. PICK ok \in BOOLEAN : \E v : loop' = Settle(Rest, p, ok, v)
  BY <1>1
<1>2a. PICK v : loop' = Settle(Rest, p, ok, v)
  BY <1>2
<1>3. IInv
  BY DEF EInv
<1>4. j \in GoodJobs /\ Rest \in Engines /\ Rest.status = loop.status /\ Rest.value = loop.value
  BY <1>1, <1>3, PoppedSame
<1>5. p \in PromiseIds /\ p[3] \notin Telling
  <2>1. j \in Reactions /\ p = j.next
    BY <1>1, <1>4 DEF Reactions, Objectual, Target
  <2>2. p[3] \in {"result", "delayed", "again"}
    BY <1>1, <2>1, SettlesWhat
  <2>3. p \in PromiseIds
    BY <1>4, <2>1, Anatomy
  <2>. QED
    BY <2>2, <2>3 DEF Telling, Outcomes
<1>. HIDE DEF p, j
<1>6. Moves(Rest, loop', {p})
  BY <1>2a, <1>4, <1>5, SettleMoves, EnginesShaped
<1>7. Moves(loop, loop', {p})
  BY <1>4, <1>6 DEF Moves
<1>8. /\ \A q \in {p} : q[3] \notin Telling
      /\ \A a \in Attempts : reply'[a] = "none" <=> reply[a] = "none"
      /\ clientAlive' = clientAlive
  BY <1>1, <1>5 DEF Objects
<1>. QED
  BY <1>7, <1>8, Unseen

\* QPromiseBase's constructor makes one promise.
LEMMA NewMoves ==
    ASSUME NEW e, Shaped(e), NEW p \in PromiseIds
    PROVE  Shaped(New(e, p)) /\ Moves(e, New(e, p), {p}) /\ IsPending(New(e, p), p)
<1>1. /\ Shaped(New(e, p)) /\ New(e, p).status = [e.status EXCEPT ![p] = "pending"]
      /\ New(e, p).value = e.value
  BY DEF New, Shaped
<1>. QED
  BY <1>1 DEF Moves, IsPending, Shaped

\* Posting an event changes no promise.
LEMMA PostMoves ==
    ASSUME NEW e, Shaped(e), NEW job, NEW ok, NEW v
    PROVE  /\ Shaped(Post(e, job, ok, v)) /\ Moves(e, Post(e, job, ok, v), {})
           /\ Post(e, job, ok, v).status = e.status
<1>1. ASSUME NEW x
      PROVE  /\ Shaped([e EXCEPT !.posted = x]) /\ Moves(e, [e EXCEPT !.posted = x], {})
             /\ [e EXCEPT !.posted = x].status = e.status
  BY DEF Shaped, Moves
<1>. QED
  BY <1>1, Zenon DEF Post

\* Listening changes no promise either.
LEMMA SubscribeMoves ==
    ASSUME NEW e, Shaped(e), NEW q, NEW job
    PROVE  /\ Shaped(Subscribe(e, q, job)) /\ Moves(e, Subscribe(e, q, job), {})
           /\ Subscribe(e, q, job).status = e.status
<1>1. CASE IsPending(e, q)
  BY <1>1 DEF Subscribe, Shaped, Moves
<1>2. CASE ~IsPending(e, q)
  BY <1>2, PostMoves DEF Subscribe
<1>. QED
  BY <1>1, <1>2

\* then() makes one promise.
LEMMA ThenMoves ==
    ASSUME NEW e, Shaped(e), NEW q, NEW job, job.next \in PromiseIds
    PROVE  /\ Shaped(Then(e, q, job)) /\ Moves(e, Then(e, q, job), {job.next})
           /\ IsPending(Then(e, q, job), job.next)
<1>. DEFINE n == New(e, job.next)
<1>1. Shaped(n) /\ Moves(e, n, {job.next}) /\ IsPending(n, job.next)
  BY NewMoves
<1>. HIDE DEF n
<1>2. /\ Shaped(Subscribe(n, q, job)) /\ Moves(n, Subscribe(n, q, job), {})
      /\ Subscribe(n, q, job).status = n.status
  BY <1>1, SubscribeMoves
<1>. QED
  BY <1>1, <1>2 DEF Then, n, Moves, IsPending

\* The delay and its timer are made.
LEMMA DelayUnseen ==
    ASSUME EInv, RetryDelay \/ ArmDelay
    PROVE  /\ \A a \in Within : Explained(loop', reply', clientAlive', a)
           /\ Quiet
<1>. DEFINE j == Current.job
            a == AttemptOf(Target)
            P == Id(a, "tap")
            K == Id(a, "tick")
            D == Id(a, "delayed")
            G == Id(a, "again")
<1>1. loop.posted # <<>> /\ j.kind \in {"retry", "arm"}
  BY DEF RetryDelay, ArmDelay, Delivers, Current
<1>2. IInv
  BY DEF EInv
<1>3. /\ j \in GoodJobs /\ Rest \in Engines /\ Rest.status = loop.status /\ Rest.value = loop.value
      /\ Shaped(Rest)
  BY <1>1, <1>2, PoppedSame, EnginesShaped
<1>4. a \in Within /\ Target \in PromiseIds
  BY <1>1, <1>3, Anatomy DEF Target
<1>5. /\ P \in PromiseIds /\ K \in PromiseIds /\ D \in PromiseIds /\ G \in PromiseIds
      /\ P[3] = "tap" /\ K[3] = "tick" /\ D[3] = "delayed" /\ G[3] = "again"
  BY <1>4, IdGood DEF Names
<1>. HIDE DEF j, a, P, K, D, G
<1>7. CASE RetryDelay
  <2>. DEFINE born == New(Rest, P)
              tapped == Post(born, Plain("arm", P), TRUE, Nothing)
              elapsed == Plain("elapsed", D)
              waits == Then(tapped, P, elapsed)
              again == Job("again", G, Current.job.left, Current.val)
              full == Then(waits, D, again)
  <2>1. Shaped(born) /\ Moves(Rest, born, {P})
    BY <1>3, <1>5, NewMoves
  <2>2. Plain("arm", P).next = P /\ elapsed.next = D /\ again.next = G
    BY DEF Plain, Job
  <2>. HIDE DEF born
  <2>3. Shaped(tapped) /\ Moves(born, tapped, {})
    BY <2>1, PostMoves
  <2>. HIDE DEF tapped, elapsed
  <2>4. Shaped(waits) /\ Moves(tapped, waits, {D})
    BY <1>5, <2>2, <2>3, ThenMoves
  <2>. HIDE DEF waits, again
  <2>5. Shaped(full) /\ Moves(waits, full, {G}) /\ IsPending(full, G)
    BY <1>5, <2>2, <2>4, ThenMoves
  <2>. HIDE DEF full
  <2>6. loop' = Adopt(full, Target, G)
    BY <1>7 DEF RetryDelay, DelayedRetry, full, waits, tapped, born, elapsed, again, a, P, D, G
  <2>7. loop' = Subscribe(full, G, Pass(Target))
    BY <2>5, <2>6 DEF Adopt, IsSettled, IsFulfilled, IsRejected, IsPending
  <2>8. Moves(full, loop', {})
    BY <2>5, <2>7, SubscribeMoves
  <2>9. Moves(loop, loop', {P, D, G})
    BY <1>3, <2>1, <2>3, <2>4, <2>5, <2>8 DEF Moves
  <2>10. /\ \A q \in {P, D, G} : q[3] \notin Telling
         /\ \A b \in Attempts : reply'[b] = "none" <=> reply[b] = "none"
         /\ clientAlive' = clientAlive
    BY <1>5, <1>7 DEF RetryDelay, Objects, Telling, Outcomes
  <2>. QED
    BY <2>9, <2>10, Unseen
<1>8. CASE ArmDelay
  <2>. DEFINE born == New(Rest, K)
  <2>1. Shaped(born) /\ Moves(Rest, born, {K}) /\ IsPending(born, K)
    BY <1>3, <1>5, NewMoves
  <2>. HIDE DEF born
  <2>2. loop' = Adopt(born, Target, K)
    BY <1>8 DEF ArmDelay, born, a, K
  <2>3. loop' = Subscribe(born, K, Pass(Target))
    BY <2>1, <2>2 DEF Adopt, IsSettled, IsFulfilled, IsRejected, IsPending
  <2>4. Moves(born, loop', {})
    BY <2>1, <2>3, SubscribeMoves
  <2>5. Moves(loop, loop', {K})
    BY <1>3, <2>1, <2>4 DEF Moves
  <2>6. /\ \A q \in {K} : q[3] \notin Telling
        /\ \A b \in Attempts : reply'[b] = "none" <=> reply[b] = "none"
        /\ clientAlive' = clientAlive
    BY <1>5, <1>8 DEF ArmDelay, Telling, Outcomes
  <2>. QED
    BY <2>5, <2>6, Unseen
<1>. QED
  BY <1>7, <1>8

\* The deletions, a finished that nobody hears any more, the delay's timer and
\* the interceptor's end.
LEMMA ObjectsUnseen ==
    ASSUME EInv,
           \/ FinishedSignal \/ DeleteReply \/ DeleteParts \/ DestroyRetry
           \/ \E a \in Attempts : FireDelay(a)
           \/ UNCHANGED vars
    PROVE  /\ \A a \in Within : Explained(loop', reply', clientAlive', a)
           /\ Quiet
<1>1. IInv /\ loop \in Engines
  BY DEF EInv, IInv, Sound, Wired
<1>2. ASSUME Moves(loop, loop', {}), \A a \in Attempts : reply'[a] = "none" <=> reply[a] = "none",
             clientAlive' = clientAlive
      PROVE  /\ \A a \in Within : Explained(loop', reply', clientAlive', a)
             /\ Quiet
  <2>1. \A q \in {} : q[3] \notin Telling
    OBVIOUS
  <2>. QED
    BY <1>2, <2>1, Unseen
<1>3. ASSUME FinishedSignal \/ DeleteReply \/ DeleteParts
      PROVE  /\ loop.posted # <<>> /\ Rest.status = loop.status /\ Rest.value = loop.value
             /\ Current.job \in Held(loop) /\ Current.job.kind \in Objectual
             /\ AttemptOf(Target) \in Within
             /\ Current.job = ObjectJob(Current.job.kind, AttemptOf(Target))
  <2>1. loop.posted # <<>> /\ Current.job.kind \in Objectual
    BY <1>3 DEF FinishedSignal, DeleteReply, DeleteParts, Delivers, Current, Objectual
  <2>2. Current.job \in Held(loop) /\ Current.job \in GoodJobs
    BY <1>1, <2>1, PopWired DEF Current, IInv, Sound
  <2>3. Current.job.kind # "decode"
    BY <2>1 DEF Objectual
  <2>. QED
    BY <1>1, <2>1, <2>2, <2>3, PoppedSame, Anatomy DEF Target
<1>4. CASE FinishedSignal
  <2>1. AttemptOf(Target) \in once
    <3>1. Current.job.kind = "finished"
      BY <1>4 DEF FinishedSignal, Delivers, Current
    <3>2. Reclaimed(loop, reply, once, parts, clientAlive, AttemptOf(Target))
      BY <1>1, <1>3, <1>4 DEF IInv
    <3>. QED
      BY <1>3, <1>4, <3>1, <3>2 DEF Reclaimed
  <2>2. loop' = Rest
    BY <1>4, <2>1 DEF FinishedSignal, HandleFinished
  <2>3. Moves(loop, loop', {}) /\ reply' = reply /\ clientAlive' = clientAlive
    BY <1>3, <1>4, <2>2 DEF FinishedSignal, Moves
  <2>. QED
    BY <1>2, <2>3
<1>5. CASE DeleteReply
  <2>1. reply[AttemptOf(Target)] # "none"
    <3>1. Current.job.kind = "deleteReply"
      BY <1>5 DEF DeleteReply, Delivers, Current
    <3>2. Reclaimed(loop, reply, once, parts, clientAlive, AttemptOf(Target))
      BY <1>1, <1>3, <1>5 DEF IInv
    <3>. QED
      BY <1>3, <1>5, <3>1, <3>2 DEF Reclaimed
  <2>2. loop' = Rest /\ clientAlive' = clientAlive
        /\ reply' = [reply EXCEPT ![AttemptOf(Target)] = "destroyed"]
    BY <1>5 DEF DeleteReply
  <2>3. \A a \in Attempts : reply'[a] = "none" <=> reply[a] = "none"
    BY <1>1, <2>1, <2>2 DEF IInv, Sound
  <2>4. Moves(loop, loop', {})
    BY <1>3, <1>5, <2>2 DEF Moves
  <2>. QED
    BY <1>2, <2>2, <2>3, <2>4
<1>6. CASE DeleteParts
  <2>1. Moves(loop, loop', {}) /\ reply' = reply /\ clientAlive' = clientAlive
    BY <1>3, <1>6 DEF DeleteParts, Moves
  <2>. QED
    BY <1>2, <2>1
<1>7. CASE DestroyRetry \/ UNCHANGED vars
  <2>1. Moves(loop, loop', {}) /\ reply' = reply /\ clientAlive' = clientAlive
    BY <1>7 DEF DestroyRetry, vars, Moves
  <2>. QED
    BY <1>2, <2>1
<1>8. CASE \E a \in Attempts : FireDelay(a)
  <2>1. PICK a \in Attempts : FireDelay(a)
    BY <1>8
  <2>. DEFINE K == Id(a, "tick")
              yes == TRUE
  <2>2. /\ loop' = Settle(loop, K, yes, Nothing) /\ reply' = reply /\ clientAlive' = clientAlive
        /\ delay[a] = "armed"
    BY <2>1 DEF FireDelay
  <2>3. K \in PromiseIds /\ K[3] = "tick" /\ yes \in BOOLEAN
    <3>1. a \in Within
      BY <1>1, <2>2 DEF IInv, Sound
    <3>. QED
      BY <3>1, IdGood DEF Names
  <2>. HIDE DEF K, yes
  <2>4. Moves(loop, loop', {K})
    BY <1>1, <2>2, <2>3, SettleMoves, EnginesShaped
  <2>5. /\ \A q \in {K} : q[3] \notin Telling
        /\ \A b \in Attempts : reply'[b] = "none" <=> reply[b] = "none"
    BY <2>2, <2>3 DEF Telling, Outcomes
  <2>. QED
    BY <2>2, <2>4, <2>5, Unseen
<1>. QED
  BY <1>4, <1>5, <1>6, <1>7, <1>8

\* A step may change the outcomes of one attempt, if they have their cause.
LEMMA ExplainedBut ==
    ASSUME EInv, NEW a \in Within, NEW Q, Moves(loop, loop', Q),
           \A q \in Q : q[3] \in Outcomes => AttemptOf(q) = a,
           \A b \in Attempts : reply[b] # "none" => reply'[b] # "none", clientAlive' => clientAlive,
           Explained(loop', reply', clientAlive', a)
    PROVE  \A b \in Within : Explained(loop', reply', clientAlive', b)
<1>1. ASSUME NEW b \in Within, b # a PROVE Explained(loop', reply', clientAlive', b)
  <2>1. \A q \in Q : q[3] \in Outcomes => AttemptOf(q) # b
    BY <1>1
  <2>2. b \in Attempts
    BY IdGood DEF Names
  <2>. QED
    BY <2>1, <2>2, ExplainedElse
<1>. QED
  BY <1>1

\* The client's end answers nobody.
LEMMA CloseExplained ==
    ASSUME EInv, DestroyClient
    PROVE  /\ \A a \in Within : Explained(loop', reply', clientAlive', a)
           /\ Contract!Close
<1>1. /\ clientAlive /\ clientAlive' = FALSE /\ loop' = loop
      /\ reply' = [a \in Attempts |-> IF reply[a] = "none" THEN "none" ELSE "destroyed"]
  BY DEF DestroyClient
<1>2. \A a \in Attempts : reply'[a] = "none" <=> reply[a] = "none"
  BY <1>1
<1>3. Moves(loop, loop', {})
  BY <1>1 DEF Moves
<1>4. ASSUME NEW a \in Within PROVE Explained(loop', reply', clientAlive', a)
  <2>1. /\ \A q \in {} : q[3] \in Outcomes => AttemptOf(q) # a
        /\ reply[a] # "none" => reply'[a] # "none"
        /\ clientAlive' => clientAlive
    BY <1>1, <1>2, IdGood DEF Names
  <2>. QED
    BY <1>3, <2>1, ExplainedElse
<1>5. [r \in Requests |-> Phase(r)]' = [r \in Requests |-> Phase(r)]
  BY <1>1 DEF Phase
<1>6. [r \in Requests |-> Cardinality({i \in AttemptIds : reply[<<r, i>>] # "none"})]'
        = [r \in Requests |-> Cardinality({i \in AttemptIds : reply[<<r, i>>] # "none"})]
  <2>1. ASSUME NEW r \in Requests
        PROVE  {i \in AttemptIds : reply'[<<r, i>>] # "none"} = {i \in AttemptIds : reply[<<r, i>>] # "none"}
    BY <1>2 DEF Attempts
  <2>. QED
    BY <2>1
<1>. QED
  BY <1>1, <1>4, <1>5, <1>6 DEF Contract!Close

\* The timer rejects the promise bounded by it, unless there is an outcome.
LEMMA TimeoutExplained ==
    ASSUME EInv, NEW a \in Attempts, FireTimeout(a)
    PROVE  /\ \A b \in Within : Explained(loop', reply', clientAlive', b)
           /\ Quiet
<1>. DEFINE R == Id(a, "reply")
            T == Id(a, "timed")
            M == Id(a, "mapped")
            no == FALSE
<1>1. /\ timer[a] = "armed" /\ reply' = reply /\ clientAlive' = clientAlive
      /\ loop' = Settle(loop, T, no, TimeoutException)
  BY DEF FireTimeout
<1>2. loop \in Engines /\ a \in Within
  BY <1>1 DEF EInv, IInv, Sound, Wired
<1>3. /\ T \in PromiseIds /\ R \in PromiseIds /\ M \in PromiseIds /\ R # T /\ M # T /\ R # M
      /\ T[3] = "timed" /\ AttemptOf(T) = a
  BY <1>2, IdGood DEF Names
<1>4. Explained(loop, reply, clientAlive, a) /\ no \in BOOLEAN
  BY <1>2 DEF EInv
<1>. HIDE DEF R, T, M, no
<1>5. /\ Moves(loop, loop', {T})
      /\ IsPending(loop, T) => IsSettled(loop', T) /\ loop'.value[T] = TimeoutException
      /\ ~IsPending(loop, T) => loop' = loop
  BY <1>1, <1>2, <1>3, <1>4, SettleMoves, EnginesShaped
<1>6. Explained(loop', reply', clientAlive', a)
  <2>1. CASE ~IsPending(loop, T)
    BY <1>1, <1>4, <1>5, <2>1
  <2>2. CASE IsPending(loop, T)
    <3>1. /\ loop'.status[R] = loop.status[R] /\ loop'.value[R] = loop.value[R]
          /\ loop'.status[M] = loop.status[M] /\ loop'.value[M] = loop.value[M]
      BY <1>3, <1>5 DEF Moves
    <3>2. (IsSettled(loop', R) <=> IsSettled(loop, R)) /\ (IsSettled(loop', M) <=> IsSettled(loop, M))
      BY <3>1 DEF IsSettled, IsFulfilled, IsRejected
    <3>3. Made(loop, T) /\ ~IsSettled(loop, T)
      BY <2>2 DEF Made, IsPending, IsSettled, IsFulfilled, IsRejected
    <3>. QED
      BY <1>1, <1>4, <1>5, <2>2, <3>1, <3>2, <3>3 DEF Explained, R, T, M, Meant
  <2>. QED
    BY <2>1, <2>2
<1>7. /\ \A q \in {T} : q[3] # "user" /\ (q[3] \in Outcomes => AttemptOf(q) = a)
      /\ \A b \in Attempts : reply'[b] = "none" <=> reply[b] = "none"
  BY <1>1, <1>3
<1>8. Quiet
  BY <1>1, <1>5, <1>7, QuietMoves
<1>9. \A b \in Within : Explained(loop', reply', clientAlive', b)
  BY <1>1, <1>2, <1>5, <1>6, <1>7, ExplainedBut
<1>. QED
  BY <1>8, <1>9

\* handleFinished settles the reply's promise with what it is told, or leaves
\* all promises alone.
LEMMA HandleMoves ==
    ASSUME NEW e, Shaped(e), NEW a \in Within, NEW v
    PROVE  LET R == Id(a, "reply")
               f == HandleFinished(e, a, v)
           IN  /\ Shaped(f) /\ Moves(e, f, {R})
               /\ \/ f.status = e.status /\ f.value = e.value
                  \/ IsSettled(f, R) /\ f.value[R] = v
<1>. DEFINE R == Id(a, "reply")
            yes == TRUE
            ok == v = "data"
            j == Plain("deleteReply", R)
            g == Post(e, j, yes, Nothing)
            f == HandleFinished(e, a, v)
<1>1. R \in PromiseIds /\ ok \in BOOLEAN
  BY IdGood DEF Names
<1>2. CASE a \in once
  <2>1. f = e
    BY <1>2 DEF HandleFinished
  <2>. QED
    BY <1>1, <2>1 DEF Moves
<1>3. CASE a \notin once
  <2>1. f = Settle(g, R, ok, v)
    BY <1>3 DEF HandleFinished
  <2>. HIDE DEF R, yes, ok, j, f
  <2>2. Shaped(g) /\ Moves(e, g, {}) /\ g.status = e.status
    BY <1>1, PostMoves
  <2>3. g.value = e.value
    BY DEF Post, g
  <2>. HIDE DEF g
  <2>4. /\ Shaped(f) /\ Moves(g, f, {R})
        /\ IsPending(g, R) => IsSettled(f, R) /\ f.value[R] = v
        /\ ~IsPending(g, R) => f = g
    BY <1>1, <2>1, <2>2, SettleMoves
  <2>. QED
    BY <2>2, <2>3, <2>4 DEF Moves, R, f
<1>. QED
  BY <1>2, <1>3

\* An outcome is as it was, or has its cause.
Caused(e, f, p, what) ==
    \/ f.status[p] = e.status[p] /\ f.value[p] = e.value[p]
    \/ IsSettled(f, p) /\ what

\* Outcomes that are as they were, or have their cause, are explained.
LEMMA ExplainedNow ==
    ASSUME NEW e, NEW f, NEW a, NEW rp, NEW rp2, NEW alive, NEW alive2, Explained(e, rp, alive, a),
           rp[a] # "none" => rp2[a] # "none", alive2 => alive,
           Caused(e, f, Id(a, "reply"), \/ Meant(rp2, alive2, a, f.value[Id(a, "reply")])
                                        \/ /\ f.value[Id(a, "reply")] = "canceled"
                                           /\ IsSettled(f, Id(a, "timed"))),
           Caused(e, f, Id(a, "timed"), \/ Meant(rp2, alive2, a, f.value[Id(a, "timed")])
                                        \/ f.value[Id(a, "timed")] = TimeoutException),
           Caused(e, f, Id(a, "mapped"), \/ Meant(rp2, alive2, a, f.value[Id(a, "mapped")])
                                         \/ f.value[Id(a, "mapped")] = "timeout"),
           Made(f, Id(a, "timed")) => rp2[a] # "none"
    PROVE  Explained(f, rp2, alive2, a)
<1>. DEFINE R == Id(a, "reply")
            T == Id(a, "timed")
            M == Id(a, "mapped")
<1>1. \A v : Meant(rp, alive, a, v) => Meant(rp2, alive2, a, v)
  BY DEF Meant
<1>2. IsSettled(e, T) => IsSettled(f, T)
  BY DEF Caused, IsSettled, IsFulfilled, IsRejected
<1>3. IsSettled(f, R) => \/ Meant(rp2, alive2, a, f.value[R])
                         \/ f.value[R] = "canceled" /\ IsSettled(f, T)
  BY <1>1, <1>2 DEF Caused, Explained, IsSettled, IsFulfilled, IsRejected
<1>4. IsSettled(f, T) => Meant(rp2, alive2, a, f.value[T]) \/ f.value[T] = TimeoutException
  BY <1>1 DEF Caused, Explained, IsSettled, IsFulfilled, IsRejected
<1>5. IsSettled(f, M) => Meant(rp2, alive2, a, f.value[M]) \/ f.value[M] = "timeout"
  BY <1>1 DEF Caused, Explained, IsSettled, IsFulfilled, IsRejected
<1>. QED
  BY <1>3, <1>4, <1>5 DEF Explained

\* The network's answer.
LEMMA FinishExplained ==
    ASSUME EInv, NEW a \in Attempts, ReplyFinishes(a)
    PROVE  /\ \A b \in Within : Explained(loop', reply', clientAlive', b)
           /\ Quiet
<1>. DEFINE R == Id(a, "reply")
            T == Id(a, "timed")
            M == Id(a, "mapped")
            f == loop'
            rp == reply'
<1>1. /\ reply[a] = "running" /\ rp = [reply EXCEPT ![a] = "finished"] /\ clientAlive' = clientAlive
      /\ \E v \in NetworkResults : f = HandleFinished(loop, a, v)
  BY DEF ReplyFinishes
<1>2. PICK v \in NetworkResults : f = HandleFinished(loop, a, v)
  BY <1>1
<1>3. Shaped(loop) /\ a \in Within /\ reply \in [Attempts -> {"none", "running", "finished", "destroyed"}]
  <2>1. loop \in Engines /\ a \in Within /\ reply \in [Attempts -> {"none", "running", "finished", "destroyed"}]
    BY <1>1 DEF EInv, IInv, Sound, Wired
  <2>. QED
    BY <2>1, EnginesShaped
<1>4. Explained(loop, reply, clientAlive, a)
  BY <1>3 DEF EInv
<1>5. /\ Moves(loop, f, {R})
      /\ \/ f.status = loop.status /\ f.value = loop.value
         \/ IsSettled(f, R) /\ f.value[R] = v
  BY <1>2, <1>3, HandleMoves
<1>6. rp[a] # "none" /\ \A b \in Attempts : rp[b] = "none" <=> reply[b] = "none"
  BY <1>1, <1>3
<1>7. /\ R[3] = "reply" /\ AttemptOf(R) = a /\ T # R /\ M # R
      /\ T \in PromiseIds /\ M \in PromiseIds
  BY <1>3, IdGood DEF Names
<1>8. Caused(loop, f, R, Meant(rp, clientAlive, a, f.value[R])
                         \/ (f.value[R] = "canceled" /\ IsSettled(f, T)))
  <2>1. Meant(rp, clientAlive, a, v)
    BY <1>6 DEF Meant, NetworkResults
  <2>. QED
    BY <1>5, <2>1 DEF Caused
<1>9. /\ f.status[T] = loop.status[T] /\ f.value[T] = loop.value[T]
      /\ f.status[M] = loop.status[M] /\ f.value[M] = loop.value[M]
  BY <1>5, <1>7 DEF Moves
<1>. HIDE DEF f, rp
<1>10. Explained(f, rp, clientAlive, a)
  <2>1. Caused(loop, f, T, Meant(rp, clientAlive, a, f.value[T]) \/ f.value[T] = TimeoutException)
    BY <1>9 DEF Caused
  <2>2. Caused(loop, f, M, Meant(rp, clientAlive, a, f.value[M]) \/ f.value[M] = "timeout")
    BY <1>9 DEF Caused
  <2>. QED
    BY <1>4, <1>6, <1>8, <2>1, <2>2, ExplainedNow
<1>11. /\ \A q \in {R} : q[3] # "user" /\ (q[3] \in Outcomes => AttemptOf(q) = a)
       /\ clientAlive' = clientAlive
       /\ \A b \in Attempts : reply'[b] = "none" <=> reply[b] = "none"
  BY <1>1, <1>6, <1>7 DEF rp
<1>. HIDE DEF R, T, M
<1>12. Moves(loop, loop', {R}) /\ Explained(loop', reply', clientAlive', a)
  BY <1>1, <1>5, <1>10 DEF f, rp
<1>13. Quiet
  BY <1>11, <1>12, QuietMoves
<1>14. \A b \in Within : Explained(loop', reply', clientAlive', b)
  BY <1>3, <1>11, <1>12, ExplainedBut
<1>. QED
  BY <1>13, <1>14

\* The timeout's catcher: the reply is aborted, and the request has timed out.
LEMMA AbortExplained ==
    ASSUME EInv, AbortOnTimeout
    PROVE  /\ \A b \in Within : Explained(loop', reply', clientAlive', b)
           /\ Quiet
<1>. DEFINE j == Current.job
            a == AttemptOf(Target)
            R == Id(a, "reply")
            T == Id(a, "timed")
            M == Id(a, "mapped")
            aborts == reply[a] = "running"
            h == IF aborts THEN HandleFinished(Rest, a, "canceled") ELSE Rest
            f == loop'
            rp == reply'
            no == FALSE
<1>1. /\ loop.posted # <<>> /\ j.kind = "abort" /\ Current.val = TimeoutException
      /\ f = Settle(h, Target, no, "timeout") /\ clientAlive' = clientAlive
      /\ rp = IF aborts THEN [reply EXCEPT ![a] = "finished"] ELSE reply
  BY DEF AbortOnTimeout, Delivers, Current
<1>2. /\ IInv /\ reply \in [Attempts -> {"none", "running", "finished", "destroyed"}]
      /\ Wired(loop, {}, {})
  BY DEF EInv, IInv, Sound
<1>3. /\ j \in GoodJobs /\ Shaped(Rest) /\ Rest.status = loop.status /\ Rest.value = loop.value
  BY <1>1, <1>2, PoppedSame, EnginesShaped
<1>4. a \in Within /\ Target = M /\ j \in Reactions
  <2>1. j.next = Id(AttemptOf(j.next), "mapped") /\ AttemptOf(j.next) \in Within
    BY <1>1, <1>3, Anatomy
  <2>2. j \in Reactions
    BY <1>1, <1>3 DEF Reactions, Objectual
  <2>. QED
    BY <2>1, <2>2 DEF Target
<1>5. /\ R \in PromiseIds /\ T \in PromiseIds /\ M \in PromiseIds /\ R # T /\ M # T /\ R # M
      /\ R[3] = "reply" /\ M[3] = "mapped" /\ AttemptOf(R) = a /\ AttemptOf(M) = a /\ a \in Attempts
  BY <1>4, IdGood DEF Names
<1>6. IsSettled(loop, T)
  <2>1. Speaker(loop, j) = T
    BY <1>1, <1>4, <1>5 DEF Speaker, SpeakerName, Target
  <2>. QED
    BY <1>1, <1>2, <1>4, <2>1, HeadSpeaks DEF Current
<1>7. Explained(loop, reply, clientAlive, a)
  BY <1>4 DEF EInv
<1>. HIDE DEF j, a, R, T, M, f, rp, no
<1>8. /\ Shaped(h) /\ Moves(loop, h, {R})
      /\ \/ h.status = loop.status /\ h.value = loop.value
         \/ IsSettled(h, R) /\ h.value[R] = "canceled"
  <2>1. CASE aborts
    <3>1. h = HandleFinished(Rest, a, "canceled")
      BY <2>1
    <3>. HIDE DEF h
    <3>2. /\ Shaped(h) /\ Moves(Rest, h, {R})
          /\ \/ h.status = Rest.status /\ h.value = Rest.value
             \/ IsSettled(h, R) /\ h.value[R] = "canceled"
      BY <1>3, <1>4, <3>1, HandleMoves DEF R
    <3>. QED
      BY <1>3, <3>2 DEF Moves
  <2>2. CASE ~aborts
    BY <1>3, <2>2 DEF Moves
  <2>. QED
    BY <2>1, <2>2
<1>. HIDE DEF h
<1>9. /\ Moves(h, f, {M})
      /\ IsPending(h, M) => IsSettled(f, M) /\ f.value[M] = "timeout"
      /\ ~IsPending(h, M) => f = h
  <2>1. no \in BOOLEAN
    BY DEF no
  <2>. QED
    BY <1>1, <1>4, <1>5, <1>8, <2>1, SettleMoves
<1>10. /\ f.status[R] = h.status[R] /\ f.value[R] = h.value[R]
       /\ f.status[T] = loop.status[T] /\ f.value[T] = loop.value[T]
       /\ h.status[M] = loop.status[M] /\ h.value[M] = loop.value[M]
  BY <1>5, <1>8, <1>9 DEF Moves
<1>11. Moves(loop, f, {R, M})
  BY <1>8, <1>9 DEF Moves
<1>12. /\ \A b \in Attempts : rp[b] = "none" <=> reply[b] = "none"
  <2>1. CASE aborts
    <3>1. rp = [reply EXCEPT ![a] = "finished"]
      BY <1>1, <2>1
    <3>. QED
      BY <1>2, <1>5, <2>1, <3>1
  <2>2. CASE ~aborts
    BY <1>1, <2>2
  <2>. QED
    BY <2>1, <2>2
<1>13. Explained(f, rp, clientAlive, a)
  <2>1. Caused(loop, f, R, Meant(rp, clientAlive, a, f.value[R])
                           \/ (f.value[R] = "canceled" /\ IsSettled(f, T)))
    BY <1>6, <1>8, <1>10 DEF Caused, IsSettled, IsFulfilled, IsRejected
  <2>2. Caused(loop, f, T, Meant(rp, clientAlive, a, f.value[T]) \/ f.value[T] = TimeoutException)
    BY <1>10 DEF Caused
  <2>3. Caused(loop, f, M, Meant(rp, clientAlive, a, f.value[M]) \/ f.value[M] = "timeout")
    BY <1>9, <1>10 DEF Caused
  <2>4. (reply[a] # "none" => rp[a] # "none") /\ (Made(f, T) => rp[a] # "none")
    BY <1>5, <1>7, <1>10, <1>12 DEF Explained, Made, T
  <2>. QED
    BY <1>7, <2>1, <2>2, <2>3, <2>4, ExplainedNow DEF R, T, M
<1>14. /\ \A q \in {R, M} : q[3] # "user" /\ (q[3] \in Outcomes => AttemptOf(q) = a)
       /\ clientAlive' = clientAlive
       /\ \A b \in Attempts : reply'[b] = "none" <=> reply[b] = "none"
       /\ Moves(loop, loop', {R, M}) /\ Explained(loop', reply', clientAlive', a)
  BY <1>1, <1>5, <1>11, <1>12, <1>13 DEF f, rp
<1>15. Quiet
  BY <1>14, QuietMoves
<1>16. \A b \in Within : Explained(loop', reply', clientAlive', b)
  BY <1>4, <1>14, ExplainedBut
<1>. QED
  BY <1>15, <1>16

\* What an outcome is passed on to has the same cause.
LEMMA ForwardExplained ==
    ASSUME EInv, Forward, Current.job.kind # "decode"
    PROVE  /\ \A b \in Within : Explained(loop', reply', clientAlive', b)
           /\ Quiet
<1>. DEFINE j == Current.job
            a == AttemptOf(Target)
            R == Id(a, "reply")
            T == Id(a, "timed")
            M == Id(a, "mapped")
            p == Target
            f == loop'
<1>1. /\ loop.posted # <<>> /\ f = Settle(Rest, p, Current.ok, Current.val)
      /\ j.kind = "pass" \/ (j.kind = "abort" /\ Current.val # TimeoutException) \/ j.kind = "retry"
      /\ reply' = reply /\ clientAlive' = clientAlive
  BY DEF Forward, PassesOn, Delivers, Current, Objects
<1>2. IInv /\ Wired(loop, {}, {})
  BY DEF EInv, IInv, Sound
<1>3. /\ j \in GoodJobs /\ Shaped(Rest) /\ Rest.status = loop.status /\ Rest.value = loop.value
      /\ Current.ok \in BOOLEAN
  BY <1>1, <1>2, PoppedSame, EnginesShaped
<1>4. a \in Within /\ j \in Reactions /\ p \in PromiseIds /\ p = j.next
  <2>1. j.next \in PromiseIds /\ AttemptOf(j.next) \in Within
    BY <1>1, <1>3, Anatomy
  <2>2. j \in Reactions
    BY <1>1, <1>3 DEF Reactions, Objectual
  <2>. QED
    BY <2>1, <2>2 DEF Target
<1>5. /\ p[3] \in {"timed", "mapped", "result", "tap", "again"}
      /\ p[3] = "timed" => p = T /\ j.kind = "pass"
      /\ p[3] = "mapped" => p = M /\ j.kind = "abort"
  <2>1. \A n \in Names : Id(a, n)[3] = n
    BY <1>4, IdGood
  <2>2. p[3] = "timed" => p = T
    <3>1. j.kind = "pass" => p \in {Id(a, n) : n \in {"timed", "result", "tap", "again"}}
      BY <1>3, <1>4, Anatomy
    <3>2. p[3] = "timed" => j.kind = "pass"
      BY <1>1, <1>4, SettlesWhat
    <3>. QED
      BY <2>1, <3>1, <3>2 DEF Names
  <2>3. j.kind = "abort" => p = M
    BY <1>3, <1>4, Anatomy
  <2>. QED
    BY <1>1, <1>4, <2>2, <2>3, SettlesWhat
<1>6. /\ R \in PromiseIds /\ T \in PromiseIds /\ M \in PromiseIds /\ R # T /\ M # T /\ R # M
      /\ T[3] = "timed" /\ M[3] = "mapped" /\ AttemptOf(T) = a /\ AttemptOf(M) = a
  BY <1>4, IdGood DEF Names
<1>7. Explained(loop, reply, clientAlive, a)
  BY <1>4 DEF EInv
<1>8. /\ IsSettled(loop, Speaker(loop, j)) /\ Current.val = loop.value[Speaker(loop, j)]
      /\ Made(loop, p)
  BY <1>1, <1>2, <1>4, HeadSpeaks DEF Current
<1>9. Speaker(loop, j) = IF p[3] = "timed" THEN R ELSE IF p[3] = "mapped" THEN T ELSE Speaker(loop, j)
  BY <1>4, <1>5 DEF Speaker, SpeakerName
<1>. HIDE DEF j, a, R, T, M, p, f
<1>10. /\ Moves(loop, f, {p})
       /\ IsPending(loop, p) => IsSettled(f, p) /\ f.value[p] = Current.val
       /\ ~IsPending(loop, p) => f = Rest
  <2>1. /\ Moves(Rest, f, {p})
        /\ IsPending(Rest, p) => IsSettled(f, p) /\ f.value[p] = Current.val
        /\ ~IsPending(Rest, p) => f = Rest
    <3>. DEFINE ok == Current.ok
                v == Current.val
    <3>1. f = Settle(Rest, p, ok, v) /\ ok \in BOOLEAN
      BY <1>1, <1>3
    <3>. HIDE DEF ok, v
    <3>2. /\ Moves(Rest, f, {p})
          /\ IsPending(Rest, p) => IsSettled(f, p) /\ f.value[p] = v
          /\ ~IsPending(Rest, p) => f = Rest
      BY <1>3, <1>4, <3>1, SettleMoves
    <3>. QED
      BY <3>2 DEF v
  <2>. QED
    BY <1>3, <2>1 DEF Moves, IsPending
<1>11. CASE p[3] \in {"result", "tap", "again"}
  <2>1. /\ \A q \in {p} : q[3] \notin Telling
        /\ \A b \in Attempts : reply'[b] = "none" <=> reply[b] = "none"
        /\ clientAlive' = clientAlive /\ Moves(loop, loop', {p})
    BY <1>1, <1>10, <1>11 DEF Telling, Outcomes, f
  <2>. QED
    BY <2>1, Unseen
<1>12. CASE p[3] \in {"timed", "mapped"}
  <2>1. p[3] = "timed" => /\ p = T /\ IsSettled(loop, R) /\ Current.val = loop.value[R]
    BY <1>5, <1>8, <1>9
  <2>2. p[3] = "mapped" => /\ p = M /\ IsSettled(loop, T) /\ Current.val = loop.value[T]
                           /\ Current.val # TimeoutException
    BY <1>1, <1>5, <1>8, <1>9
  <2>3. IsPending(loop, p) => Meant(reply, clientAlive, a, Current.val)
    BY <1>7, <1>12, <2>1, <2>2
       DEF Explained, R, T, M, IsPending, IsSettled, IsFulfilled, IsRejected
  <2>4. \A q \in PromiseIds : Caused(loop, f, q, Meant(reply, clientAlive, a, f.value[q]))
    <3>1. \A q \in PromiseIds : q # p => Caused(loop, f, q, Meant(reply, clientAlive, a, f.value[q]))
      BY <1>10 DEF Moves, Caused
    <3>2. Caused(loop, f, p, Meant(reply, clientAlive, a, f.value[p]))
      BY <1>3, <1>10, <2>3 DEF Caused
    <3>. QED
      BY <3>1, <3>2
  <2>5. /\ Caused(loop, f, R, Meant(reply, clientAlive, a, f.value[R])
                              \/ (f.value[R] = "canceled" /\ IsSettled(f, T)))
        /\ Caused(loop, f, T, Meant(reply, clientAlive, a, f.value[T]) \/ f.value[T] = TimeoutException)
        /\ Caused(loop, f, M, Meant(reply, clientAlive, a, f.value[M]) \/ f.value[M] = "timeout")
    BY <1>6, <2>4 DEF Caused
  <2>6. Made(f, T) => reply[a] # "none"
    <3>1. Made(f, T) => Made(loop, T)
      <4>1. CASE p = T
        BY <1>8, <4>1
      <4>2. CASE p # T
        BY <1>6, <1>10, <4>2 DEF Moves, Made
      <4>. QED
        BY <4>1, <4>2
    <3>. QED
      BY <1>7, <3>1 DEF Explained, T
  <2>7. Explained(f, reply, clientAlive, a)
    BY <1>7, <2>5, <2>6, ExplainedNow DEF R, T, M
  <2>8. /\ \A q \in {p} : q[3] # "user" /\ (q[3] \in Outcomes => AttemptOf(q) = a)
        /\ clientAlive' = clientAlive
        /\ \A b \in Attempts : reply'[b] = "none" <=> reply[b] = "none"
        /\ Moves(loop, loop', {p}) /\ Explained(loop', reply', clientAlive', a)
    BY <1>1, <1>6, <1>10, <1>12, <2>1, <2>2, <2>7 DEF f
  <2>9. Quiet
    BY <2>8, QuietMoves
  <2>10. \A b \in Within : Explained(loop', reply', clientAlive', b)
    BY <1>4, <2>8, ExplainedBut
  <2>. QED
    BY <2>9, <2>10
<1>. QED
  BY <1>5, <1>11, <1>12

\* The caller's promise is no attempt's.
LEMMA AnswerExplained ==
    ASSUME EInv, NEW r \in Requests, NEW ok \in BOOLEAN, NEW v,
           loop.posted # <<>>, loop' = Settle(Rest, UserOf(r), ok, v), UNCHANGED Objects
    PROVE  /\ \A b \in Within : Explained(loop', reply', clientAlive', b)
           /\ Moves(loop, loop', {UserOf(r)})
           /\ IsPending(loop, UserOf(r)) => IsSettled(loop', UserOf(r)) /\ loop'.value[UserOf(r)] = v
<1>1. /\ Shaped(Rest) /\ Rest.status = loop.status /\ Rest.value = loop.value
      /\ reply' = reply /\ clientAlive' = clientAlive
  BY PoppedSame, EnginesShaped DEF EInv, Objects
<1>2. UserOf(r) \in PromiseIds /\ UserOf(r)[3] = "user"
  BY UserGood
<1>3. /\ Moves(Rest, loop', {UserOf(r)})
      /\ IsPending(Rest, UserOf(r)) => IsSettled(loop', UserOf(r)) /\ loop'.value[UserOf(r)] = v
  BY <1>1, <1>2, SettleMoves
<1>4. /\ Moves(loop, loop', {UserOf(r)})
      /\ IsPending(loop, UserOf(r)) => IsSettled(loop', UserOf(r)) /\ loop'.value[UserOf(r)] = v
  BY <1>1, <1>3 DEF Moves, IsPending
<1>5. ASSUME NEW b \in Within PROVE Explained(loop', reply', clientAlive', b)
  <2>1. /\ \A q \in {UserOf(r)} : q[3] \in Outcomes => AttemptOf(q) # b
        /\ reply[b] # "none" => reply'[b] # "none"
        /\ clientAlive' => clientAlive
    BY <1>1, <1>2 DEF Outcomes
  <2>. QED
    BY <1>4, <2>1, ExplainedElse
<1>. QED
  BY <1>4, <1>5

\* An attempt that begins is explained by how far its terminus got.
LEMMA BeginExplained ==
    ASSUME EInv, NEW a \in Within, NEW c, NEW r \in Requests, Opens(a, c, {UserOf(r)})
    PROVE  \A b \in Within : Explained(loop', reply', clientAlive', b)
<1>. DEFINE R == Id(a, "reply")
            T == Id(a, "timed")
            M == Id(a, "mapped")
            S == Result(a)
            Q == {R, T, M, S} \cup {UserOf(r)}
            f == loop'
            rp == reply'
            al == clientAlive'
            bounded == Sent(c) /\ a[1] \in Timed
<1>1. /\ c \in Choices(a[1]) /\ Launch(a, c) /\ Begins(loop, f, a, c) /\ Moves(loop, f, Q)
  BY DEF Opens
<1>2. /\ rp = IF Sent(c) THEN [reply EXCEPT ![a] = c.stage] ELSE reply
      /\ al = clientAlive
  BY <1>1 DEF Launch
<1>3. /\ R \in PromiseIds /\ T \in PromiseIds /\ M \in PromiseIds /\ S \in PromiseIds
      /\ AttemptOf(R) = a /\ AttemptOf(T) = a /\ AttemptOf(M) = a
      /\ R[3] = "reply" /\ T[3] = "timed" /\ M[3] = "mapped" /\ S[3] = "result"
      /\ UserOf(r)[3] = "user" /\ a \in Attempts
  BY IdGood, UserGood DEF Names, Result
<1>4. reply \in [Attempts -> {"none", "running", "finished", "destroyed"}]
  BY DEF EInv, IInv, Sound
<1>5. Sent(c) <=> c.stage \in {"running", "finished"}
  BY DEF Sent
<1>6. /\ Sent(c) => rp[a] # "none"
      /\ \A b \in Attempts : reply[b] # "none" => rp[b] # "none"
  <2>1. CASE Sent(c)
    <3>1. rp = [reply EXCEPT ![a] = c.stage]
      BY <1>2, <2>1
    <3>. HIDE DEF rp
    <3>. QED
      BY <1>3, <1>4, <1>5, <2>1, <3>1
  <2>2. CASE ~Sent(c)
    BY <1>2, <2>2
  <2>. QED
    BY <2>1, <2>2
<1>7. c.stage # "running" => Meant(rp, al, a, c.val)
  <2>1. SUFFICES ASSUME c.stage # "running" PROVE Meant(rp, al, a, c.val)
    OBVIOUS
  <2>2. CASE ~clientAlive
    <3>1. c = Choice("gone", "destroyed")
      BY <1>1, <2>2 DEF Choices
    <3>2. c.val = "destroyed"
      BY <3>1 DEF Choice
    <3>. QED
      BY <1>2, <2>2, <3>2 DEF Meant
  <2>3. CASE clientAlive
    <3>1. \/ a[1] \in Multipart /\ c = Choice("noFile", "serialization")
          \/ a[1] \in Misused /\ c = Choice("badMethod", "logic")
          \/ c = Choice("running", Nothing)
          \/ \E v \in NetworkResults : c = Choice("finished", v)
      BY <1>1, <2>3 DEF Choices
    <3>2. \/ a[1] \in Multipart /\ c.val = "serialization"
          \/ a[1] \in Misused /\ c.val = "logic"
          \/ c.stage = "finished" /\ c.val \in NetworkResults
      BY <2>1, <3>1 DEF Choice
    <3>. QED
      BY <1>5, <1>6, <3>2 DEF Meant, NetworkResults
  <2>. QED
    BY <2>2, <2>3
<1>. HIDE DEF R, T, M, S, f, rp, al, bounded
<1>8. /\ c.stage = "running" => IsPending(f, R)
      /\ c.stage # "running" => IsSettled(f, R) /\ f.value[R] = c.val
      /\ ~bounded => ~Made(f, T) /\ ~Made(f, M)
      /\ bounded => /\ IsPending(f, M)
                    /\ c.stage = "running" => IsPending(f, T)
                    /\ c.stage # "running" => f.status[T] = f.status[R] /\ f.value[T] = f.value[R]
  BY <1>1 DEF Begins, R, T, M, bounded
<1>9. /\ IsSettled(f, R) => c.stage # "running" /\ f.value[R] = c.val
      /\ IsSettled(f, T) => c.stage # "running" /\ f.value[T] = c.val
      /\ ~IsSettled(f, M)
  BY <1>8 DEF Made, IsPending, IsSettled, IsFulfilled, IsRejected
<1>10. Made(f, T) => rp[a] # "none"
  BY <1>6, <1>8 DEF bounded
<1>11. Explained(f, rp, al, a)
  BY <1>7, <1>9, <1>10 DEF Explained, R, T, M
<1>12. /\ \A q \in Q : q[3] \in Outcomes => AttemptOf(q) = a
       /\ \A b \in Attempts : reply[b] # "none" => reply'[b] # "none"
       /\ clientAlive' => clientAlive
       /\ Moves(loop, loop', Q) /\ Explained(loop', reply', clientAlive', a)
  BY <1>1, <1>2, <1>3, <1>6, <1>11 DEF Outcomes, f, rp, al
<1>. HIDE DEF Q
<1>. QED
  BY <1>12, ExplainedBut

\* The contract's invariant holds initially.
LEMMA ExplainedInit == Init => EInv
<1>1. Init => IInv
  BY InitInvariant
<1>2. ASSUME Init, NEW a \in Within PROVE Explained(loop, reply, clientAlive, a)
  <2>1. \A n \in Names : Id(a, n) \in PromiseIds
    BY IdGood
  <2>2. \A q \in PromiseIds : loop.status[q] = "absent"
    BY <1>2 DEF Init, EmptyLoop
  <2>3. /\ loop.status[Id(a, "reply")] = "absent" /\ loop.status[Id(a, "timed")] = "absent"
        /\ loop.status[Id(a, "mapped")] = "absent"
    BY <2>1, <2>2 DEF Names
  <2>. QED
    BY <2>3 DEF Explained, Made, IsSettled, IsFulfilled, IsRejected
<1>. QED
  BY <1>1, <1>2 DEF EInv

\* The attempt that settled the first result was the last one.
LEMMA LastAttempt ==
    ASSUME IInv, NEW r \in Requests, IsSettled(loop, <<r, 1, "result">>)
    PROVE  \E a \in Within : /\ a[1] = r /\ IsSettled(loop, Out(loop, a))
                             /\ loop.value[<<r, 1, "result">>] = loop.value[Out(loop, a)]
                             /\ IsFulfilled(loop, <<r, 1, "result">>) <=> IsFulfilled(loop, Out(loop, a))
<1>. DEFINE first == <<r, 1, "result">>
            S == {k \in Nat : k \in 1..(MaxRetries + 1) /\ Begun(<<r, k>>)}
<1>1. \A k : Result(<<r, k>>) = <<r, k, "result">>
  BY DEF Result, Id
<1>2. \E k \in S : ~Nested(loop, <<r, k>>)
  <2>1. SUFFICES ASSUME \A k \in S : Nested(loop, <<r, k>>) PROVE FALSE
    OBVIOUS
  <2>2. 1 \in S
    BY DEF Begun, Id, IsSettled, IsFulfilled, IsRejected
  <2>3. ASSUME NEW k \in 1..(MaxRetries + 1), k \in S PROVE k + 1 \in S
    <3>. DEFINE a == <<r, k>>
    <3>1. a[2] = k /\ NextAttempt(a) = <<r, k + 1>>
      BY DEF NextAttempt
    <3>2. Nested(loop, a)
      BY <2>1, <2>3
    <3>. HIDE DEF a
    <3>3. k <= MaxRetries /\ Made(loop, Result(<<r, k + 1>>))
      BY <3>1, <3>2 DEF Nested
    <3>. QED
      BY <3>3 DEF Made, Begun, Result
  <2>4. MaxRetries + 1 \in Nat /\ MaxRetries + 2 \in 1..((MaxRetries + 1) + 1)
        /\ MaxRetries + 2 \notin 1..(MaxRetries + 1)
    OBVIOUS
  <2>5. MaxRetries + 2 \notin S
    BY <2>4
  <2>. HIDE DEF S
  <2>6. \A m \in 1..((MaxRetries + 1) + 1) : m \in S
    BY <2>2, <2>3, <2>4, Induction
  <2>. QED
    BY <2>4, <2>5, <2>6
<1>3. PICK i \in S : ~Nested(loop, <<r, i>>)
  BY <1>2
<1>. DEFINE a == <<r, i>>
            o == Out(loop, a)
            p == Result(a)
            G == Id(a, "again")
<1>4. a \in Within /\ a[1] = r /\ i \in Tries(r) /\ p = <<r, i, "result">>
  BY <1>1 DEF Within, Tries, AttemptIds
<1>5. Like(loop, first, p)
  BY <1>4, ResultsAgree
<1>. HIDE DEF S, first, p, G, o, a
<1>6. /\ IsSettled(loop, p) /\ Made(loop, G) => Like(loop, p, G)
      /\ IsSettled(loop, p) /\ ~Made(loop, G) => Like(loop, p, o)
      /\ IsSettled(loop, G) /\ ~Nested(loop, a) => IsRejected(loop, G) /\ loop.value[G] = loop.value[o]
      /\ Made(loop, G) => IsRejected(loop, o)
  BY <1>4 DEF IInv, Carried, p, G, o
<1>7. /\ IsSettled(loop, o) /\ loop.value[first] = loop.value[o]
      /\ IsFulfilled(loop, first) <=> IsFulfilled(loop, o)
  <2>1. /\ IsSettled(loop, p) /\ loop.value[first] = loop.value[p]
        /\ IsFulfilled(loop, first) <=> IsFulfilled(loop, p)
    BY <1>5 DEF Like
  <2>2. CASE Made(loop, G)
    <3>1. Like(loop, p, G) /\ IsRejected(loop, o)
      BY <1>6, <2>1, <2>2
    <3>2. IsSettled(loop, G) /\ loop.value[p] = loop.value[G] /\ (IsFulfilled(loop, p) <=> IsFulfilled(loop, G))
      BY <3>1 DEF Like
    <3>3. IsRejected(loop, G) /\ loop.value[G] = loop.value[o]
      BY <1>3, <1>6, <3>2 DEF a
    <3>. QED
      BY <2>1, <3>1, <3>2, <3>3 DEF IsSettled, IsFulfilled, IsRejected
  <2>3. CASE ~Made(loop, G)
    BY <1>6, <2>1, <2>3 DEF Like
  <2>. QED
    BY <2>2, <2>3
<1>. QED
  BY <1>4, <1>7 DEF first, o

\* How often request r went out.
Went(r) == {i \in AttemptIds : reply[<<r, i>>] # "none"}

\* No more often than there are attempts, and only by attempts that began.
LEMMA WentBegun ==
    ASSUME IInv, NEW r \in Requests
    PROVE  /\ \A i \in Went(r) : <<r, i>> \in Within /\ Begun(<<r, i>>)
           /\ Went(r) \subseteq 1..(MaxRetries + 1) /\ IsFiniteSet(Went(r)) /\ Cardinality(Went(r)) \in Nat
<1>1. ASSUME NEW i \in Went(r) PROVE <<r, i>> \in Within /\ Begun(<<r, i>>) /\ i \in 1..(MaxRetries + 1)
  <2>. DEFINE a == <<r, i>>
  <2>1. a \in Attempts /\ reply[a] # "none"
    BY DEF Went, Attempts
  <2>2. a \in Within
    BY <2>1 DEF IInv, Sound
  <2>. HIDE DEF a
  <2>3. Made(loop, Result(a))
    BY <2>1, <2>2 DEF IInv, Created, Reclaimed
  <2>4. Begun(a)
    BY <2>3 DEF Begun, Made, Result
  <2>. QED
    BY <2>2, <2>4 DEF a, Within
<1>2. IsFiniteSet(1..(MaxRetries + 1))
  BY FS_Interval
<1>3. Went(r) \subseteq 1..(MaxRetries + 1)
  BY <1>1
<1>. QED
  BY <1>1, <1>2, <1>3, FS_Subset, FS_CardinalityType

\* The answer is plausible: how the last attempt ended says why.
LEMMA AnswerPlausible ==
    ASSUME EInv, NEW r \in Requests, IsSettled(loop, <<r, 1, "result">>)
    PROVE  /\ IsFulfilled(loop, <<r, 1, "result">>) => Went(r) # {}
           /\ ~IsFulfilled(loop, <<r, 1, "result">>) =>
                 LET v == loop.value[<<r, 1, "result">>] IN
                 \/ v \in {"transient", "permanent"} /\ Went(r) # {}
                 \/ v = "serialization" /\ r \in Multipart
                 \/ v = "timeout" /\ Went(r) # {} /\ r \in Timed
                 \/ v = "logic" /\ r \in Misused
                 \/ v = "destroyed" /\ ~clientAlive
<1>. DEFINE first == <<r, 1, "result">>
<1>1. IInv
  BY DEF EInv
<1>2. PICK a \in Within : /\ a[1] = r /\ IsSettled(loop, Out(loop, a))
                          /\ loop.value[first] = loop.value[Out(loop, a)]
                          /\ IsFulfilled(loop, first) <=> IsFulfilled(loop, Out(loop, a))
  BY <1>1, LastAttempt
<1>. DEFINE R == Id(a, "reply")
            T == Id(a, "timed")
            M == Id(a, "mapped")
            o == Out(loop, a)
            v == loop.value[o]
<1>3. Explained(loop, reply, clientAlive, a)
  BY DEF EInv
<1>4. Created(loop, reply, timer, delay, a) /\ Carried(loop, a)
  BY <1>1 DEF IInv
<1>5. /\ o = M \/ (o = R /\ ~Made(loop, M))
      /\ IsFulfilled(loop, R) <=> loop.value[R] = "data"
      /\ IsFulfilled(loop, M) <=> loop.value[M] = "data"
      /\ Made(loop, T) <=> Made(loop, M)
      /\ Made(loop, T) => a[1] \in Timed
  BY <1>4 DEF Created, Carried, Out
<1>. HIDE DEF first, R, T, M, o
<1>6. /\ IsSettled(loop, R) => \/ Meant(reply, clientAlive, a, loop.value[R])
                               \/ loop.value[R] = "canceled" /\ IsSettled(loop, T)
      /\ IsSettled(loop, M) => Meant(reply, clientAlive, a, loop.value[M]) \/ loop.value[M] = "timeout"
      /\ Made(loop, T) => reply[a] # "none"
  BY <1>3 DEF Explained, R, T, M
<1>7. /\ Meant(reply, clientAlive, a, v) \/ (v = "timeout" /\ reply[a] # "none" /\ a[1] \in Timed)
      /\ IsFulfilled(loop, o) <=> v = "data"
  BY <1>2, <1>5, <1>6 DEF Made, IsSettled, IsFulfilled, IsRejected, o
<1>8. reply[a] # "none" => Went(r) # {}
  <2>1. a = <<r, a[2]>> /\ a[2] \in AttemptIds
    BY <1>2 DEF Within, AttemptIds
  <2>. QED
    BY <2>1 DEF Went
<1>. HIDE DEF v
<1>9. /\ IsFulfilled(loop, first) => Went(r) # {}
      /\ ~IsFulfilled(loop, first) =>
            \/ v \in {"transient", "permanent"} /\ Went(r) # {}
            \/ v = "serialization" /\ r \in Multipart
            \/ v = "timeout" /\ Went(r) # {} /\ r \in Timed
            \/ v = "logic" /\ r \in Misused
            \/ v = "destroyed" /\ ~clientAlive
  BY <1>2, <1>7, <1>8 DEF Meant, o
<1>. QED
  BY <1>2, <1>9 DEF first, v, o

\* The callers of other requests see nothing of a step.
LEMMA OtherCallers ==
    ASSUME NEW Q, NEW r \in Requests, Moves(loop, loop', Q),
           \A q \in Q : q[3] = "user" => q = UserOf(r)
    PROVE  \A s \in Requests : s # r => /\ loop'.status[UserOf(s)] = loop.status[UserOf(s)]
                                        /\ loop'.value[UserOf(s)] = loop.value[UserOf(s)]
<1>1. ASSUME NEW s \in Requests, s # r PROVE UserOf(s) \in PromiseIds /\ UserOf(s) \notin Q
  <2>1. UserOf(s) \in PromiseIds /\ UserOf(s)[3] = "user" /\ UserOf(s)[1] = s /\ UserOf(r)[1] = r
    BY UserGood
  <2>2. UserOf(s) # UserOf(r)
    BY <1>1, <2>1
  <2>. QED
    BY <2>1, <2>2
<1>. QED
  BY <1>1 DEF Moves

\* Only a terminus that reaches attachReplyHandler sends.
LEMMA Launching ==
    ASSUME IInv, NEW a \in Within, NEW c, Launch(a, c)
    PROVE  /\ clientAlive' = clientAlive
           /\ ~Sent(c) => reply' = reply
           /\ Sent(c) => /\ Went(a[1])' = Went(a[1]) \cup {a[2]}
                         /\ \A r \in Requests : r # a[1] => Went(r)' = Went(r)
<1>1. /\ reply' = IF Sent(c) THEN [reply EXCEPT ![a] = c.stage] ELSE reply
      /\ clientAlive' = clientAlive
  BY DEF Launch
<1>2. ASSUME Sent(c)
      PROVE  /\ Went(a[1])' = Went(a[1]) \cup {a[2]}
             /\ \A r \in Requests : r # a[1] => Went(r)' = Went(r)
  <2>1. /\ reply \in [Attempts -> {"none", "running", "finished", "destroyed"}]
        /\ a \in Attempts /\ a = <<a[1], a[2]>> /\ a[1] \in Requests /\ a[2] \in AttemptIds
    BY IdGood DEF IInv, Sound, Within, Names, AttemptIds
  <2>2. reply' = [reply EXCEPT ![a] = c.stage] /\ c.stage # "none"
    BY <1>1, <1>2 DEF Sent
  <2>3. \A r \in Requests, i \in AttemptIds : <<r, i>> \in Attempts
    BY DEF Attempts
  <2>4. reply'[a] # "none" /\ \A b \in Attempts : b # a => reply'[b] = reply[b]
    BY <2>1, <2>2
  <2>5. ASSUME NEW i \in AttemptIds
        PROVE  reply'[<<a[1], i>>] # "none" <=> (reply[<<a[1], i>>] # "none" \/ i = a[2])
    BY <2>1, <2>3, <2>4
  <2>6. Went(a[1])' = Went(a[1]) \cup {a[2]}
    BY <2>1, <2>5 DEF Went
  <2>7. ASSUME NEW r \in Requests, r # a[1] PROVE Went(r)' = Went(r)
    <3>1. \A i \in AttemptIds : <<r, i>> # a /\ reply'[<<r, i>>] = reply[<<r, i>>]
      BY <2>1, <2>3, <2>4, <2>7
    <3>. QED
      BY <3>1 DEF Went
  <2>. QED
    BY <2>6, <2>7
<1>. QED
  BY <1>1, <1>2

\* sendRequest starts the request; it goes out, or fails before it could.
LEMMA StartStep ==
    ASSUME EInv, NEW r \in Requests, SendRequest(r)
    PROVE  EInv' /\ Contract!Start(r)
<1>. DEFINE a == <<r, 1>>
            U == UserOf(r)
            Q == {Id(a, "reply"), Id(a, "timed"), Id(a, "mapped"), Result(a)} \cup {U}
<1>1. clientAlive /\ loop.status[U] = "absent" /\ IInv /\ a \in Within /\ a[1] = r /\ a[2] = 1
  BY DEF SendRequest, EInv, Within
<1>2. /\ IInv'
      /\ \E c \in Choices(r) : Opens(a, c, {U})
      /\ IsPending(loop', U) /\ loop'.value[U] = loop.value[U]
  BY <1>1, SendRequestStep
<1>3. PICK c \in Choices(r) : Opens(a, c, {U})
  BY <1>2
<1>4. \A b \in Within : Explained(loop', reply', clientAlive', b)
  BY <1>1, <1>3, BeginExplained
<1>5. /\ Launch(a, c) /\ Moves(loop, loop', Q)
  BY <1>3 DEF Opens
<1>6. \A q \in Q : q[3] = "user" => q = U
  BY <1>1, IdGood DEF Names, Result
<1>7. \A s \in Requests : s # r => /\ loop'.status[UserOf(s)] = loop.status[UserOf(s)]
                                   /\ loop'.value[UserOf(s)] = loop.value[UserOf(s)]
  <2>. HIDE DEF Q
  <2>. QED
    BY <1>5, <1>6, OtherCallers
<1>8. loop'.status[U] = "pending" /\ loop'.value[U] = loop.value[U]
  BY <1>2 DEF IsPending
<1>9. [s \in Requests |-> Phase(s)]' = [[s \in Requests |-> Phase(s)] EXCEPT ![r] = "waiting"]
  BY <1>7, <1>8 DEF Phase
<1>10. [s \in Requests |-> Phase(s)][r] = "idle"
  BY <1>1 DEF Phase
<1>11. [s \in Requests |-> loop.value[UserOf(s)]]' = [s \in Requests |-> loop.value[UserOf(s)]]
  BY <1>7, <1>8
<1>12. Went(r) = {}
  <2>1. ~Begun(a)
    <3>1. Created(loop, reply, timer, delay, a)
      BY <1>1 DEF IInv
    <3>. QED
      BY <1>1, <3>1 DEF Created, Made, Begun, Result
  <2>2. ASSUME NEW i \in Went(r) PROVE FALSE
    <3>1. <<r, i>> \in Within /\ Begun(<<r, i>>)
      BY <1>1, <2>2, WentBegun
    <3>2. i \in AttemptIds /\ i >= 1 /\ i \in Nat
      BY <3>1 DEF Within, AttemptIds
    <3>3. i > 1
      BY <2>1, <3>1, <3>2
    <3>4. Nested(loop, a)
      BY <1>1, <3>1, <3>2, <3>3, AllBefore
    <3>5. Begun(a)
      BY <1>1, <3>4 DEF IInv, Created, Made, Begun, Result
    <3>. QED
      BY <2>1, <3>5
  <2>. QED
    BY <2>2
<1>. HIDE DEF a
<1>13. /\ clientAlive' = clientAlive
       /\ ~Sent(c) => reply' = reply
       /\ Sent(c) => Went(r)' = {1} /\ \A s \in Requests : s # r => Went(s)' = Went(s)
  BY <1>1, <1>5, <1>12, Launching
<1>14. \/ [s \in Requests |-> Cardinality(Went(s))]' = [s \in Requests |-> Cardinality(Went(s))]
       \/ [s \in Requests |-> Cardinality(Went(s))]' = [[s \in Requests |-> Cardinality(Went(s))] EXCEPT ![r] = 1]
  <2>1. CASE Sent(c)
    <3>1. Cardinality({1}) = 1
      BY FS_Singleton
    <3>. QED
      BY <1>13, <2>1, <3>1
  <2>2. CASE ~Sent(c)
    <3>1. \A s \in Requests : Went(s)' = Went(s)
      BY <1>13, <2>2 DEF Went
    <3>. QED
      BY <3>1
  <2>. QED
    BY <2>1, <2>2
<1>15. Contract!Start(r)
  BY <1>1, <1>9, <1>10, <1>11, <1>13, <1>14 DEF Contract!Start, Went
<1>. QED
  BY <1>2, <1>4, <1>15 DEF EInv

\* While a retry waits for its delay its request waits for an answer.
LEMMA RetryWaits ==
    ASSUME IInv, NEW b \in Within, IsPending(loop, Id(b, "again"))
    PROVE  IsPending(loop, UserOf(b[1]))
<1>. DEFINE r == b[1]
            U == UserOf(r)
            S == Result(b)
            G == Id(b, "again")
            d == <<r, 1>>
<1>1. /\ r \in Requests /\ b = <<r, b[2]>> /\ b[2] \in Nat /\ b[2] >= 1 /\ b[2] \in AttemptIds
      /\ d \in Within /\ d[1] = r /\ d[2] = 1 /\ Result(d) = <<r, 1, "result">> /\ S = <<r, b[2], "result">>
  BY DEF Within, AttemptIds, Result, Id
<1>2. Made(loop, G) /\ ~IsSettled(loop, G)
  BY DEF Made, IsPending, IsSettled, IsFulfilled, IsRejected
<1>3. /\ Created(loop, reply, timer, delay, b) /\ Carried(loop, b)
      /\ Created(loop, reply, timer, delay, d) /\ Carried(loop, d)
  BY <1>1 DEF IInv
<1>4. Begun(b) /\ b[2] \in Tries(r)
  <2>1. Begun(b)
    BY <1>2, <1>3 DEF Created, Begun, Made, Result
  <2>. QED
    BY <1>1, <2>1 DEF Tries
<1>. HIDE DEF r, d, U, S, G
<1>5. Made(loop, Result(d))
  <2>1. CASE b[2] = 1
    BY <1>1, <1>4, <2>1 DEF Begun, Made, Result, d
  <2>2. CASE b[2] > 1
    <3>1. Nested(loop, <<r, 1>>)
      <4>1. 1 \in 1..(MaxRetries + 1) /\ b[2] \in AttemptIds /\ Begun(<<r, b[2]>>)
        BY <1>1, <1>4
      <4>. QED
        BY <1>1, <2>2, <4>1, AllBefore
    <3>. QED
      BY <1>3, <3>1 DEF Created, d
  <2>. QED
    BY <1>1, <2>1, <2>2
<1>6. Made(loop, U)
  BY <1>1, <1>3, <1>5 DEF Created, U
<1>7. ASSUME IsSettled(loop, U) PROVE FALSE
  <2>1. IsSettled(loop, Result(d))
    BY <1>1, <1>3, <1>7 DEF Carried, U
  <2>2. IsSettled(loop, <<r, 1, "result">>)
    BY <1>1, <2>1
  <2>3. Like(loop, <<r, 1, "result">>, <<r, b[2], "result">>)
    BY <1>1, <1>4, <2>2, ResultsAgree
  <2>4. IsSettled(loop, S)
    BY <1>1, <2>3 DEF Like
  <2>5. Like(loop, S, G)
    BY <1>2, <1>3, <2>4 DEF Carried, S, G
  <2>. QED
    BY <1>2, <2>5 DEF Like
<1>8. loop.status \in [PromiseIds -> Statuses] /\ U \in PromiseIds
  <2>1. loop \in Engines
    BY DEF IInv, Sound, Wired
  <2>. QED
    BY <1>1, <2>1, Parts, UserGood DEF U
<1>9. IsPending(loop, U)
  BY <1>6, <1>7, <1>8 DEF Statuses, Made, IsPending, IsSettled, IsFulfilled, IsRejected
<1>. QED
  BY <1>9 DEF U, r

\* The retry goes out once more, within the budget, or fails before it could.
LEMMA SendAgainStep ==
    ASSUME EInv, RetryAgain
    PROVE  EInv' /\ (Quiet \/ \E r \in Requests : Contract!SendAgain(r))
<1>1. IInv
  BY DEF EInv
<1>2. /\ IInv'
      /\ \E b \in Within : /\ b[2] <= MaxRetries /\ IsPending(loop, Id(b, "again"))
                           /\ ~Made(loop, Result(NextAttempt(b)))
                           /\ \E c \in Choices(b[1]) : Opens(NextAttempt(b), c, {})
  BY <1>1, RetryAgainStep
<1>3. PICK b \in Within : /\ b[2] <= MaxRetries /\ IsPending(loop, Id(b, "again"))
                          /\ ~Made(loop, Result(NextAttempt(b)))
                          /\ \E c \in Choices(b[1]) : Opens(NextAttempt(b), c, {})
  BY <1>2
<1>. DEFINE a == NextAttempt(b)
            r == b[1]
            U == UserOf(r)
            Q == {Id(a, "reply"), Id(a, "timed"), Id(a, "mapped"), Result(a)}
<1>4. a \in Within /\ a[1] = r /\ a[2] = b[2] + 1 /\ a = <<r, a[2]>> /\ r \in Requests
  BY <1>3 DEF Within, NextAttempt
<1>5. ~Made(loop, Result(a))
  BY <1>3
<1>6. PICK c \in Choices(r) : Opens(a, c, {})
  BY <1>3
<1>. HIDE DEF a, r, U
<1>7. /\ c \in Choices(a[1]) /\ Launch(a, c) /\ Begins(loop, loop', a, c) /\ Moves(loop, loop', Q)
  BY <1>6 DEF Opens
<1>8. Opens(a, c, {UserOf(r)})
  <2>1. Moves(loop, loop', Q \cup {UserOf(r)})
    BY <1>7 DEF Moves
  <2>. QED
    BY <1>7, <2>1 DEF Opens
<1>9. \A d \in Within : Explained(loop', reply', clientAlive', d)
  BY <1>4, <1>8, BeginExplained
<1>10. EInv'
  BY <1>2, <1>9 DEF EInv
<1>11. /\ clientAlive' = clientAlive
       /\ ~Sent(c) => reply' = reply
       /\ Sent(c) => /\ Went(r)' = Went(r) \cup {a[2]}
                     /\ \A s \in Requests : s # r => Went(s)' = Went(s)
  BY <1>1, <1>4, <1>7, Launching
<1>12. \A q \in Q : q[3] # "user"
  BY <1>4, IdGood DEF Names, Result
<1>. HIDE DEF Q
<1>13. CASE ~Sent(c)
  <2>1. \A d \in Attempts : reply'[d] = "none" <=> reply[d] = "none"
    BY <1>11, <1>13
  <2>2. Quiet
    BY <1>7, <1>11, <1>12, <2>1, QuietMoves
  <2>. QED
    BY <1>10, <2>2
<1>14. CASE Sent(c)
  <2>1. clientAlive
    BY <1>14 DEF Choices, Choice, Sent
  <2>2. IsPending(loop, U)
    BY <1>1, <1>3, RetryWaits DEF U, r
  <2>3. /\ \A q \in Q : q[3] = "user" => q = UserOf(r)
        /\ \A s \in Requests : /\ loop'.status[UserOf(s)] = loop.status[UserOf(s)]
                               /\ loop'.value[UserOf(s)] = loop.value[UserOf(s)]
    <3>1. \A s \in Requests : UserOf(s) \in PromiseIds /\ UserOf(s) \notin Q
      BY <1>12, UserGood
    <3>. QED
      BY <1>7, <1>12, <3>1 DEF Moves
  <2>4. [s \in Requests |-> Phase(s)]' = [s \in Requests |-> Phase(s)]
    BY <2>3 DEF Phase
  <2>5. [s \in Requests |-> loop.value[UserOf(s)]]' = [s \in Requests |-> loop.value[UserOf(s)]]
    BY <2>3
  <2>6. [s \in Requests |-> Phase(s)][r] = "waiting"
    BY <1>4, <2>2 DEF Phase, IsPending, U
  <2>7. a[2] \notin Went(r)
    <3>1. SUFFICES ASSUME a[2] \in Went(r) PROVE FALSE
      OBVIOUS
    <3>2. Begun(<<r, a[2]>>)
      BY <1>1, <1>4, <3>1, WentBegun
    <3>. QED
      BY <1>4, <1>5, <3>2 DEF Begun, Made, Result
  <2>8. /\ Went(r) \subseteq 1..(MaxRetries + 1) /\ IsFiniteSet(Went(r)) /\ Cardinality(Went(r)) \in Nat
    BY <1>1, <1>4, WentBegun
  <2>9. Cardinality(Went(r) \cup {a[2]}) = Cardinality(Went(r)) + 1
    BY <2>7, <2>8, FS_AddElement
  <2>10. Cardinality(Went(r)) <= MaxRetries
    <3>1. a[2] \in 1..(MaxRetries + 1)
      BY <1>4 DEF Within
    <3>2. IsFiniteSet(1..(MaxRetries + 1)) /\ Cardinality(1..(MaxRetries + 1)) = MaxRetries + 1
      <4>1. 1 \in Int /\ MaxRetries + 1 \in Int /\ ~(1 > MaxRetries + 1) /\ (MaxRetries + 1) - 1 + 1 = MaxRetries + 1
        OBVIOUS
      <4>. QED
        BY <4>1, FS_Interval
    <3>. DEFINE W == Went(r) \cup {a[2]}
                I == 1..(MaxRetries + 1)
    <3>3. W \in SUBSET I
      BY <2>8, <3>1
    <3>. HIDE DEF W, I
    <3>4. Cardinality(W) <= Cardinality(I)
      BY <3>2, <3>3, FS_Subset DEF I
    <3>. QED
      BY <2>8, <2>9, <3>2, <3>4 DEF W, I
  <2>11. [s \in Requests |-> Cardinality(Went(s))]'
            = [[s \in Requests |-> Cardinality(Went(s))] EXCEPT ![r] = @ + 1]
    BY <1>4, <1>11, <1>14, <2>9
  <2>12. [s \in Requests |-> Cardinality(Went(s))][r] <= MaxRetries
    BY <1>4, <2>10
  <2>13. Contract!SendAgain(r)
    BY <1>11, <2>1, <2>4, <2>5, <2>6, <2>11, <2>12 DEF Contract!SendAgain, Went
  <2>. QED
    BY <1>4, <1>10, <2>13
<1>. QED
  BY <1>13, <1>14

\* The caller is answered, once, and for a reason.
LEMMA AnswerStep ==
    ASSUME EInv, Deserialize \/ (Forward /\ Current.job.kind = "decode")
    PROVE  EInv' /\ \E r \in Requests : Contract!Answer(r)
<1>. DEFINE j == Current.job
            r == j.next[1]
            U == UserOf(r)
            first == <<r, 1, "result">>
<1>1. /\ loop.posted # <<>> /\ j.kind = "decode" /\ UNCHANGED Objects
  <2>1. CASE Deserialize
    BY <2>1 DEF Deserialize, Delivers, Current
  <2>2. CASE Forward /\ Current.job.kind = "decode"
    <3>1. loop.posted # <<>>
      BY <2>2 DEF Forward, PassesOn, Delivers
    <3>. QED
      BY <2>2, <3>1 DEF Forward
  <2>. QED
    BY <2>1, <2>2
<1>2. IInv /\ Wired(loop, {}, {})
  BY DEF EInv, IInv, Sound
<1>3. /\ j \in Reactions /\ r \in Requests /\ j.next = U /\ Target = U
      /\ Current.ok \in BOOLEAN
  <2>1. j \in GoodJobs /\ Current.ok \in BOOLEAN
    BY <1>1, <1>2, PoppedSame
  <2>2. j.next = UserOf(j.next[1]) /\ j.next[1] \in Requests
    BY <1>1, <2>1, Anatomy
  <2>3. j \in Reactions
    BY <1>1, <2>1 DEF Reactions, Objectual
  <2>. QED
    BY <2>1, <2>2, <2>3 DEF Target
<1>4. Speaker(loop, j) = first
  BY <1>1 DEF Speaker
<1>5. U[3] = "user"
  BY <1>3, UserGood
<1>6. /\ IsSettled(loop, first) /\ Current.val = loop.value[first]
      /\ Current.ok <=> IsFulfilled(loop, first)
      /\ IsPending(loop, U)
  BY <1>1, <1>2, <1>3, <1>4, <1>5, HeadSpeaks DEF Current
<1>. HIDE DEF j, r, U, first
<1>7. /\ IsFulfilled(loop, first) => Went(r) # {}
      /\ ~IsFulfilled(loop, first) =>
            LET v == loop.value[first] IN
            \/ v \in {"transient", "permanent"} /\ Went(r) # {}
            \/ v = "serialization" /\ r \in Multipart
            \/ v = "timeout" /\ Went(r) # {} /\ r \in Timed
            \/ v = "logic" /\ r \in Misused
            \/ v = "destroyed" /\ ~clientAlive
  BY <1>3, <1>6, AnswerPlausible DEF first
<1>8. \E ok \in BOOLEAN : \E v \in Contract!Answers :
         /\ loop' = Settle(Rest, U, ok, v)
         /\ \/ v = "decoded" /\ Went(r) # {}
            \/ v \in {"transient", "permanent"} /\ Went(r) # {}
            \/ v = "serialization" /\ (Went(r) # {} \/ r \in Multipart)
            \/ v = "timeout" /\ Went(r) # {} /\ r \in Timed
            \/ v = "logic" /\ r \in Misused
            \/ v = "destroyed" /\ ~clientAlive
  <2>1. CASE Deserialize
    <3>1. Current.ok /\ \E v \in {"decoded", "serialization"} : loop' = Settle(Rest, U, v = "decoded", v)
      BY <1>3, <2>1 DEF Deserialize
    <3>2. Went(r) # {}
      BY <1>6, <1>7, <3>1
    <3>3. PICK v \in {"decoded", "serialization"} : loop' = Settle(Rest, U, v = "decoded", v)
      BY <3>1
    <3>4. v \in Contract!Answers /\ (v = "decoded") \in BOOLEAN
      BY <3>3 DEF Contract!Answers
    <3>. QED
      BY <3>2, <3>3, <3>4
  <2>2. CASE Forward /\ Current.job.kind = "decode"
    <3>1. ~Current.ok /\ loop' = Settle(Rest, U, Current.ok, Current.val)
      BY <1>3, <2>2 DEF Forward, PassesOn, Delivers, Current
    <3>. DEFINE v == Current.val
    <3>2. \/ v \in {"transient", "permanent"} /\ Went(r) # {}
          \/ v = "serialization" /\ r \in Multipart
          \/ v = "timeout" /\ Went(r) # {} /\ r \in Timed
          \/ v = "logic" /\ r \in Misused
          \/ v = "destroyed" /\ ~clientAlive
      BY <1>6, <1>7, <3>1
    <3>. HIDE DEF v
    <3>3. v \in Contract!Answers
      BY <3>2 DEF Contract!Answers
    <3>. QED
      BY <1>3, <3>1, <3>2, <3>3 DEF v
  <2>. QED
    BY <2>1, <2>2
<1>9. PICK ok \in BOOLEAN, v \in Contract!Answers :
         /\ loop' = Settle(Rest, U, ok, v)
         /\ \/ v = "decoded" /\ Went(r) # {}
            \/ v \in {"transient", "permanent"} /\ Went(r) # {}
            \/ v = "serialization" /\ (Went(r) # {} \/ r \in Multipart)
            \/ v = "timeout" /\ Went(r) # {} /\ r \in Timed
            \/ v = "logic" /\ r \in Misused
            \/ v = "destroyed" /\ ~clientAlive
  BY <1>8
<1>10. /\ \A b \in Within : Explained(loop', reply', clientAlive', b)
       /\ Moves(loop, loop', {U})
       /\ IsPending(loop, U) => IsSettled(loop', U) /\ loop'.value[U] = v
  BY <1>1, <1>3, <1>9, AnswerExplained DEF U
<1>11. \A s \in Requests : s # r => /\ loop'.status[UserOf(s)] = loop.status[UserOf(s)]
                                    /\ loop'.value[UserOf(s)] = loop.value[UserOf(s)]
  <2>1. \A q \in {U} : q[3] = "user" => q = UserOf(r)
    BY DEF U
  <2>. QED
    BY <1>3, <1>10, <2>1, OtherCallers
<1>12. IsSettled(loop', U) /\ loop'.value[U] = v /\ reply' = reply /\ clientAlive' = clientAlive
  BY <1>1, <1>6, <1>10 DEF Objects
<1>13. [s \in Requests |-> Phase(s)]' = [[s \in Requests |-> Phase(s)] EXCEPT ![r] = "done"]
  <2>1. loop'.status[UserOf(r)] \in {"fulfilled", "rejected"}
    BY <1>12 DEF IsSettled, IsFulfilled, IsRejected, U
  <2>2. \A s \in Requests : s = r => Phase(s)' = "done"
    BY <2>1 DEF Phase
  <2>3. \A s \in Requests : s # r => Phase(s)' = Phase(s)
    BY <1>11 DEF Phase
  <2>. QED
    BY <2>2, <2>3
<1>14. [s \in Requests |-> Phase(s)][r] = "waiting"
  BY <1>3, <1>6 DEF Phase, IsPending, U
<1>15. [s \in Requests |-> loop.value[UserOf(s)]]'
          = [[s \in Requests |-> loop.value[UserOf(s)]] EXCEPT ![r] = v]
  BY <1>11, <1>12 DEF U
<1>16. [s \in Requests |-> Cardinality(Went(s))]' = [s \in Requests |-> Cardinality(Went(s))]
  BY <1>12 DEF Went
<1>17. Went(r) # {} => [s \in Requests |-> Cardinality(Went(s))][r] > 0
  <2>1. IsFiniteSet(Went(r)) /\ Cardinality(Went(r)) \in Nat
    BY <1>2, <1>3, WentBegun
  <2>2. Cardinality(Went(r)) = 0 <=> Went(r) = {}
    BY <2>1, FS_EmptySet
  <2>. QED
    BY <1>3, <2>1, <2>2
<1>18. Contract!Plausible(r, v)
  BY <1>9, <1>17 DEF Contract!Plausible, Went
<1>19. Contract!Answer(r)
  BY <1>9, <1>12, <1>13, <1>14, <1>15, <1>16, <1>18 DEF Contract!Answer, Went
<1>20. EInv'
  <2>1. IInv'
    <3>1. Next
      BY DEF Next, DeliverEvent
    <3>. QED
      BY <1>2, <3>1, NextInvariant
  <2>. QED
    BY <1>10, <2>1 DEF EInv
<1>. QED
  BY <1>3, <1>19, <1>20

\* Every step of the pipeline is one of the contract, or the callers see
\* nothing of it.
LEMMA ContractStep ==
    ASSUME EInv, [Next]_vars
    PROVE  EInv' /\ (Contract!Next \/ UNCHANGED Contract!vars)
<1>1. IInv'
  BY NextInvariant DEF EInv
<1>2. ASSUME \A a \in Within : Explained(loop', reply', clientAlive', a), Quiet
      PROVE  EInv' /\ (Contract!Next \/ UNCHANGED Contract!vars)
  BY <1>1, <1>2, QuietStutters DEF EInv
<1>3. CASE \E r \in Requests : SendRequest(r)
  BY <1>3, StartStep DEF Contract!Next
<1>4. CASE RetryAgain
  BY <1>4, SendAgainStep, QuietStutters DEF Contract!Next
<1>5. CASE Deserialize \/ (Forward /\ Current.job.kind = "decode")
  BY <1>5, AnswerStep DEF Contract!Next
<1>6. CASE DestroyClient
  BY <1>1, <1>6, CloseExplained DEF Contract!Next, EInv
<1>7. CASE Forward /\ Current.job.kind # "decode"
  BY <1>2, <1>7, ForwardExplained
<1>8. CASE RetryReject \/ Elapsed \/ RetryAbandon
  BY <1>2, <1>8, InnerUnseen
<1>9. CASE RetryDelay \/ ArmDelay
  BY <1>2, <1>9, DelayUnseen
<1>10. CASE AbortOnTimeout
  BY <1>2, <1>10, AbortExplained
<1>11. CASE \/ FinishedSignal \/ DeleteReply \/ DeleteParts \/ DestroyRetry
            \/ \E a \in Attempts : FireDelay(a)
            \/ UNCHANGED vars
  BY <1>2, <1>11, ObjectsUnseen
<1>12. CASE \E a \in Attempts : FireTimeout(a)
  BY <1>2, <1>12, TimeoutExplained
<1>13. CASE \E a \in Attempts : ReplyFinishes(a)
  BY <1>2, <1>13, FinishExplained
<1>. QED
  BY <1>3, <1>4, <1>5, <1>6, <1>7, <1>8, <1>9, <1>10, <1>11, <1>12, <1>13 DEF Next, DeliverEvent

\* The pipeline starts as the contract does.
LEMMA ContractInit == Init => Contract!Init
<1>. SUFFICES ASSUME Init PROVE Contract!Init
  OBVIOUS
<1>1. \A q \in PromiseIds : loop.status[q] = "absent" /\ loop.value[q] = Nothing
  BY DEF Init, EmptyLoop
<1>2. ASSUME NEW r \in Requests
      PROVE  /\ Phase(r) = "idle" /\ loop.value[UserOf(r)] = Nothing
             /\ Cardinality({i \in AttemptIds : reply[<<r, i>>] # "none"}) = 0
  <2>1. {i \in AttemptIds : reply[<<r, i>>] # "none"} = {}
    BY DEF Init, Attempts
  <2>2. Cardinality({}) = 0
    BY FS_EmptySet
  <2>3. UserOf(r) \in PromiseIds
    BY UserGood
  <2>. QED
    BY <1>1, <2>1, <2>2, <2>3 DEF Phase
<1>3. Nothing = "none" /\ clientAlive = TRUE
  BY DEF Init, Nothing
<1>. QED
  BY <1>2, <1>3 DEF Contract!Init

\* What the callers see of the pipeline is what RequestContract allows: a
\* request goes out MaxRetries + 1 times at most, between its call and its
\* answer and while the client exists; it is answered once, and for a reason.
THEOREM ContractKept == Spec => Contract!Init /\ [][Contract!Next]_(Contract!vars)
<1>1. Init => EInv /\ Contract!Init
  BY ExplainedInit, ContractInit
<1>2. EInv /\ [Next]_vars => EInv' /\ [Contract!Next]_(Contract!vars)
  BY ContractStep
<1>. QED
  BY <1>1, <1>2, PTL DEF Spec
=============================================================================

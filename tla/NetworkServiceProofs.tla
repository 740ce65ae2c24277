------------------------ MODULE NetworkServiceProofs ------------------------
(***************************************************************************)
(* That the callbacks of a call match its outcome and never run inside the *)
(* call itself, for any number of calls made in any order, and event loops *)
(* run inside one another.                                                 *)
(*                                                                         *)
(* The invariant is the way of a call: not called, in httpCall, awaiting   *)
(* the client, its answer on the queue, in onSuccess, the success          *)
(* reaction's outcome on the queue, in onFail, finished.  At each stage it *)
(* says of the three promises which are settled and with what, which       *)
(* reactions still wait, the one event of the call that is queued, its one *)
(* frame on the stack, and what has been called; no step moves more than   *)
(* one call.                                                               *)
(***************************************************************************)
EXTENDS NetworkService, PromiseLoopProofs

OnSuccess(c) == Reaction("success", c, "then")
OnFailure(c) == Reaction("fail", c, "fail")

Jobs    == {OnSuccess(c) : c \in Calls} \cup {OnFailure(c) : c \in Calls}
Values  == Failures \cup {"response", Nothing}
Engines == EngineType(PromiseIds, Jobs, Values)

\* The events of call c in a queue.
Queued(q, c) == {v \in Events(q) : v.job \in {OnSuccess(c), OnFailure(c)}}

\* The promises of call c.
Status(c, k)   == loop.status[<<c, k>>]
Value(c, k)    == loop.value[<<c, k>>]
Reactions(c, k) == loop.waiting[<<c, k>>]

\* The frames of call c on the stack.
Kinds == {"call", "success", "fail"}
At(c) == {k \in Kinds : \E i \in DOMAIN inside : inside[i] = <<c, k>>}

In(c, k)      == At(c) = {k}
Outside(c)    == At(c) = {}
NotQueued(c)  == Queued(loop.posted, c) = {}
NothingYet(c) == c \notin succeeded /\ c \notin DOMAIN threw /\ told[c] = <<>>

\* The client's answer, and the two promises that wait for it.
Answered(c) ==
    \/ Status(c, "client") = "fulfilled" /\ Value(c, "client") = "response"
    \/ Status(c, "client") = "rejected" /\ Value(c, "client") \in Failures

Hanging(c) ==
    /\ Status(c, "then") = "pending" /\ Reactions(c, "then") = <<OnFailure(c)>>
    /\ Status(c, "fail") = "pending"

\* onSuccess has been called or skipped.
Passed(c) ==
    /\ Answered(c)
    /\ c \in succeeded <=> Answer(c) = "response"
    /\ \/ /\ Status(c, "then") = "fulfilled" /\ Answer(c) = "response"
          /\ c \notin DOMAIN threw
       \/ /\ Status(c, "then") = "rejected"
          /\ Value(c, "then") = Wrong(c) /\ Wrong(c) \in Failures

---------------------------------------------------------------------------
(* The stages of a call.                                                   *)

Absent(c) ==
    /\ \A k \in {"client", "then", "fail"} : Status(c, k) = "absent" /\ Reactions(c, k) = <<>>
    /\ NothingYet(c) /\ NotQueued(c)

\* Not called, or given back to its caller with an exception.
Uncalled(c) == Absent(c) /\ Outside(c)

Calling(c) == Absent(c) /\ In(c, "call")

Awaiting(c) ==
    /\ Status(c, "client") = "pending" /\ Reactions(c, "client") = <<OnSuccess(c)>>
    /\ Hanging(c) /\ NothingYet(c) /\ NotQueued(c) /\ Outside(c)

Answering(c) ==
    /\ Answered(c) /\ Hanging(c) /\ NothingYet(c) /\ Outside(c)
    /\ Queued(loop.posted, c) =
           {Event(OnSuccess(c), Status(c, "client") = "fulfilled", Value(c, "client"))}

Succeeding(c) ==
    /\ Answered(c) /\ Answer(c) = "response" /\ Hanging(c)
    /\ c \in succeeded /\ c \notin DOMAIN threw /\ told[c] = <<>>
    /\ NotQueued(c) /\ In(c, "success")

Judging(c) ==
    /\ Passed(c) /\ Status(c, "fail") = "pending" /\ told[c] = <<>> /\ Outside(c)
    /\ Queued(loop.posted, c) =
           {Event(OnFailure(c), Status(c, "then") = "fulfilled", Value(c, "then"))}

Failing(c) ==
    /\ Passed(c) /\ Status(c, "fail") = "pending"
    /\ Status(c, "then") = "rejected" /\ Wrong(c) # "other" /\ c \notin NoFail
    /\ told[c] = <<Report(Wrong(c))>>
    /\ NotQueued(c) /\ In(c, "fail")

Finished(c) ==
    /\ Passed(c) /\ Status(c, "fail") \in {"fulfilled", "rejected"}
    /\ told[c] = IF Wrong(c) \in {Nothing, "other"} \/ c \in NoFail THEN <<>>
                 ELSE <<Report(Wrong(c))>>
    /\ NotQueued(c) /\ Outside(c)

Stage(c) ==
    \/ Uncalled(c)
    \/ /\ c \notin refused
       /\ \/ Calling(c) \/ Awaiting(c) \/ Answering(c) \/ Succeeding(c)
          \/ Judging(c) \/ Failing(c) \/ Finished(c)

TypeOK ==
    /\ loop \in Engines
    /\ inside \in Seq(Calls \X Kinds)
    /\ DOMAIN told = Calls

IInv ==
    /\ TypeOK
    /\ Once(loop.posted)
    /\ NeverInsideItself
    /\ \A c \in Calls : Reactions(c, "fail") = <<>>
    /\ \A c \in Calls : Stage(c)

---------------------------------------------------------------------------
(* The queue.                                                              *)

\* The two reactions of a call differ, and from those of other calls.
LEMMA JobsDiffer ==
    ASSUME NEW c, NEW d
    PROVE  /\ OnSuccess(c) # OnFailure(d)
           /\ OnSuccess(c) = OnSuccess(d) => c = d
           /\ OnFailure(c) = OnFailure(d) => c = d
  BY DEF OnSuccess, OnFailure, Reaction, Job

---------------------------------------------------------------------------
(* The engine.                                                             *)

\* Engines in the words of PromiseLoopProofs: no promise is forbidden.
LEMMA EnginesSafe == Engines = SafeEngine(PromiseIds, {}, Jobs, Values)
  BY DEF Engines, SafeEngine

\* Settling a promise one reaction waits for.
LEMMA SettleOne ==
    ASSUME NEW e \in Engines, NEW p \in PromiseIds, NEW ok \in BOOLEAN, NEW v \in Values,
           NEW job \in Jobs, IsPending(e, p), e.waiting[p] = <<job>>,
           Once(e.posted), \A w \in Events(e.posted) : w.job # job
    PROVE  /\ Settle(e, p, ok, v) \in Engines
           /\ Settle(e, p, ok, v).status =
                 [e.status EXCEPT ![p] = IF ok THEN "fulfilled" ELSE "rejected"]
           /\ Settle(e, p, ok, v).value = [e.value EXCEPT ![p] = v]
           /\ Settle(e, p, ok, v).waiting = [e.waiting EXCEPT ![p] = <<>>]
           /\ Events(Settle(e, p, ok, v).posted) = Events(e.posted) \cup {Event(job, ok, v)}
           /\ Once(Settle(e, p, ok, v).posted)
<1>1. Settle(e, p, ok, v) \in Engines
  BY EnginesSafe, SettleSafe
<1>2. Dispatched(<<job>>, ok, v) = <<Event(job, ok, v)>>
  BY DEF Dispatched
<1>3. e.posted \in Seq(EventType(Jobs, Values)) /\ Event(job, ok, v) \in EventType(Jobs, Values)
  BY DEF Engines, EngineType, EventType, Event
<1>4. e.posted \o <<Event(job, ok, v)>> = Append(e.posted, Event(job, ok, v))
  BY <1>3
<1>5. Event(job, ok, v).job = job
  BY DEF Event
<1>6. Settle(e, p, ok, v).posted = Append(e.posted, Event(job, ok, v))
  BY <1>2, <1>4 DEF Settle
<1>7. /\ Events(Settle(e, p, ok, v).posted) = Events(e.posted) \cup {Event(job, ok, v)}
      /\ Once(Settle(e, p, ok, v).posted)
  BY <1>3, <1>5, <1>6, Added
<1>. QED
  BY <1>1, <1>7 DEF Settle

\* Settling a promise nothing waits for.
LEMMA SettleNone ==
    ASSUME NEW e \in Engines, NEW p \in PromiseIds, NEW ok \in BOOLEAN, NEW v \in Values,
           IsPending(e, p), e.waiting[p] = <<>>
    PROVE  /\ Settle(e, p, ok, v) \in Engines
           /\ Settle(e, p, ok, v).status =
                 [e.status EXCEPT ![p] = IF ok THEN "fulfilled" ELSE "rejected"]
           /\ Settle(e, p, ok, v).value = [e.value EXCEPT ![p] = v]
           /\ Settle(e, p, ok, v).waiting = e.waiting
           /\ Settle(e, p, ok, v).posted = e.posted
<1>1. Settle(e, p, ok, v) \in Engines
  BY EnginesSafe, SettleSafe
<1>2. e.posted \o Dispatched(<<>>, ok, v) = e.posted
  <2>1. Dispatched(<<>>, ok, v) = <<>>
    BY DEF Dispatched
  <2>. QED
    BY <2>1 DEF Engines, EngineType
<1>3. [e.waiting EXCEPT ![p] = <<>>] = e.waiting
  BY DEF Engines, EngineType
<1>. QED
  BY <1>1, <1>2, <1>3 DEF Settle

\* The engine once an event has been taken.
LEMMA PoppedIs ==
    ASSUME NEW e \in Engines, e.posted # <<>>, Once(e.posted)
    PROVE  /\ Popped(e) \in Engines /\ Once(Popped(e).posted)
           /\ Head(e.posted) \in EventType(Jobs, Values)
           /\ Head(e.posted) \in Events(e.posted)
           /\ Events(Popped(e).posted) = Events(e.posted) \ {Head(e.posted)}
           /\ \A v \in Events(e.posted) : v.job = Head(e.posted).job => v = Head(e.posted)
           /\ Popped(e).status = e.status /\ Popped(e).value = e.value
           /\ Popped(e).waiting = e.waiting
<1>1. e.posted \in Seq(EventType(Jobs, Values))
  BY DEF Engines, EngineType
<1>2. Popped(e) \in Engines /\ Head(e.posted) \in EventType(Jobs, Values)
  BY EnginesSafe, PoppedSafe
<1>3. /\ Popped(e).posted = Tail(e.posted) /\ Popped(e).status = e.status
      /\ Popped(e).value = e.value /\ Popped(e).waiting = e.waiting
  BY DEF Popped, Engines, EngineType
<1>. QED
  BY <1>1, <1>2, <1>3, Taken

---------------------------------------------------------------------------
(* The stack.                                                              *)

\* At most the frame of c comes or goes.
StackOf(c) ==
    /\ inside' \in Seq(Calls \X Kinds) /\ NeverInsideItself'
    /\ \A d \in Calls \ {c} : At(d)' = At(d)

\* A call that is not on the stack gets its frame.
LEMMA Entered ==
    ASSUME TypeOK, NeverInsideItself, NEW c \in Calls, NEW k \in Kinds, Outside(c),
           inside' = Append(inside, <<c, k>>)
    PROVE  StackOf(c) /\ In(c, k)'
<1>. DEFINE n == Len(inside)
<1>1. /\ inside \in Seq(Calls \X Kinds) /\ n \in Nat /\ DOMAIN inside = 1..n
      /\ inside' \in Seq(Calls \X Kinds) /\ DOMAIN inside' = 1..(n + 1)
      /\ inside'[n + 1] = <<c, k>>
      /\ \A i \in 1..n : inside'[i] = inside[i]
  BY DEF TypeOK
<1>. HIDE DEF n
<1>2. \A i \in 1..n : inside[i][1] # c
  <2>1. ASSUME NEW i \in 1..n, inside[i][1] = c PROVE FALSE
    <3>1. inside[i] \in Calls \X Kinds
      BY <1>1
    <3>2. inside[i] = <<c, inside[i][2]>> /\ inside[i][2] \in Kinds
      BY <2>1, <3>1
    <3>. QED
      BY <1>1, <3>2 DEF Outside, At
  <2>. QED
    BY <2>1
<1>3. NeverInsideItself'
  BY <1>1, <1>2 DEF NeverInsideItself
<1>4. ASSUME NEW d \in Calls, NEW l \in Kinds
      PROVE  (\E i \in DOMAIN inside' : inside'[i] = <<d, l>>)
                <=> (<<d, l>> = <<c, k>> \/ \E i \in DOMAIN inside : inside[i] = <<d, l>>)
  <2>. DEFINE f == <<d, l>>
  <2>1. \A i \in 1..n : i \in 1..(n + 1)
    BY <1>1
  <2>2. n + 1 \in 1..(n + 1) /\ \A i \in 1..(n + 1) : i = n + 1 \/ i \in 1..n
    BY <1>1
  <2>. HIDE DEF f
  <2>3. (\E i \in DOMAIN inside' : inside'[i] = f)
           <=> (f = <<c, k>> \/ \E i \in DOMAIN inside : inside[i] = f)
    BY <1>1, <2>1, <2>2
  <2>. QED
    BY <2>3 DEF f
<1>5. In(c, k)'
  BY <1>4 DEF Outside, In, At
<1>6. \A d \in Calls \ {c} : At(d)' = At(d)
  BY <1>4 DEF At
<1>. QED
  BY <1>1, <1>3, <1>5, <1>6 DEF StackOf

\* The call whose frame is the innermost leaves the stack.
LEMMA Exited ==
    ASSUME TypeOK, NeverInsideItself, inside # <<>>, inside' = Left
    PROVE  \E c \in Calls, k \in Kinds :
              Running = <<c, k>> /\ In(c, k) /\ Outside(c)' /\ StackOf(c)
<1>. DEFINE n == Len(inside)
<1>1. /\ inside \in Seq(Calls \X Kinds) /\ n \in Nat /\ n > 0 /\ DOMAIN inside = 1..n
      /\ inside' \in Seq(Calls \X Kinds) /\ DOMAIN inside' = 1..(n - 1)
      /\ Running = inside[n] /\ Running \in Calls \X Kinds
  <2>1. inside \in Seq(Calls \X Kinds) /\ n \in Nat /\ n > 0 /\ DOMAIN inside = 1..n
    BY DEF TypeOK
  <2>2. /\ SubSeq(inside, 1, n - 1) \in Seq(Calls \X Kinds)
        /\ DOMAIN SubSeq(inside, 1, n - 1) = 1..(n - 1)
    BY <2>1
  <2>3. inside' = SubSeq(inside, 1, n - 1)
    BY DEF Left
  <2>4. Running = inside[n] /\ Running \in Calls \X Kinds
    BY <2>1 DEF Running
  <2>. QED
    BY <2>1, <2>2, <2>3, <2>4
<1>2. \A i \in 1..(n - 1) : inside'[i] = inside[i]
  <2>1. inside' = SubSeq(inside, 1, n - 1) /\ n \in Nat /\ inside \in Seq(Calls \X Kinds)
    BY <1>1 DEF Left
  <2>. QED
    BY <1>1, <2>1
<1>. HIDE DEF n
<1>3. PICK c \in Calls, k \in Kinds : Running = <<c, k>>
  BY <1>1
<1>4. \A i \in 1..n : inside[i][1] = c => i = n
  <2>1. n \in 1..n /\ inside[n][1] = c
    BY <1>1, <1>3
  <2>2. \A i, j \in 1..n : inside[i][1] = inside[j][1] => i = j
    BY <1>1 DEF NeverInsideItself
  <2>. QED
    BY <2>1, <2>2
<1>5. In(c, k)
  <2>1. n \in DOMAIN inside /\ inside[n] = <<c, k>>
    BY <1>1, <1>3
  <2>2. ASSUME NEW l \in Kinds, NEW i \in DOMAIN inside, inside[i] = <<c, l>> PROVE l = k
    BY <1>1, <1>4, <2>1, <2>2
  <2>. QED
    BY <2>1, <2>2 DEF In, At
<1>6. Outside(c)'
  <2>1. ASSUME NEW l \in Kinds, NEW i \in DOMAIN inside', inside'[i] = <<c, l>> PROVE FALSE
    <3>1. i \in 1..n /\ i # n /\ inside[i] = <<c, l>>
      BY <1>1, <1>2, <2>1
    <3>. QED
      BY <1>4, <3>1
  <2>. QED
    BY <2>1 DEF Outside, At
<1>7. ASSUME NEW d \in Calls \ {c}, NEW l \in Kinds
      PROVE  (\E i \in DOMAIN inside' : inside'[i] = <<d, l>>)
                <=> (\E i \in DOMAIN inside : inside[i] = <<d, l>>)
  <2>1. inside[n] # <<d, l>>
    BY <1>1, <1>3
  <2>. DEFINE f == <<d, l>>
  <2>2. \A i \in 1..n : i = n \/ i \in 1..(n - 1)
    BY <1>1
  <2>3. \A i \in 1..(n - 1) : i \in 1..n
    BY <1>1
  <2>. HIDE DEF f
  <2>4. inside[n] # f => ((\E i \in DOMAIN inside' : inside'[i] = f)
                             <=> (\E i \in DOMAIN inside : inside[i] = f))
    BY <1>1, <1>2, <2>2, <2>3
  <2>. QED
    BY <2>1, <2>4 DEF f
<1>8. \A d \in Calls \ {c} : At(d)' = At(d)
  BY <1>7 DEF At
<1>9. NeverInsideItself'
  <2>1. \A i \in 1..(n - 1) : i \in 1..n
    BY <1>1
  <2>2. \A i, j \in 1..n : inside[i][1] = inside[j][1] => i = j
    BY <1>1 DEF NeverInsideItself
  <2>3. \A i, j \in DOMAIN inside' : inside'[i][1] = inside'[j][1] => i = j
    BY <1>1, <1>2, <2>1, <2>2
  <2>. QED
    BY <2>3 DEF NeverInsideItself
<1>. QED
  BY <1>1, <1>3, <1>5, <1>6, <1>8, <1>9 DEF StackOf

---------------------------------------------------------------------------
(* Steps.                                                                  *)

Untouched(d) ==
    /\ \A k \in {"client", "then", "fail"} :
          /\ Status(d, k)' = Status(d, k) /\ Value(d, k)' = Value(d, k)
          /\ Reactions(d, k)' = Reactions(d, k)
    /\ Queued(loop.posted, d)' = Queued(loop.posted, d)
    /\ d \in succeeded' <=> d \in succeeded
    /\ d \in DOMAIN threw' <=> d \in DOMAIN threw
    /\ d \in DOMAIN threw => threw'[d] = threw[d]
    /\ told'[d] = told[d]
    /\ d \in refused' <=> d \in refused
    /\ At(d)' = At(d)

\* A call no step touched is at the stage it was.
LEMMA StageKept ==
    ASSUME NEW d \in Calls, Stage(d), Untouched(d)
    PROVE  Stage(d)'
<1>1. Answered(d)' = Answered(d) /\ Hanging(d)' = Hanging(d) /\ NothingYet(d)' = NothingYet(d)
  BY DEF Untouched, Answered, Hanging, NothingYet
<1>2. /\ Outside(d)' = Outside(d) /\ NotQueued(d)' = NotQueued(d)
      /\ \A k \in Kinds : In(d, k)' = In(d, k)
  BY DEF Untouched, Outside, In, NotQueued
<1>3. Answer(d)' = Answer(d) /\ Wrong(d)' = Wrong(d)
  BY DEF Untouched, Answer, Wrong, Value
<1>4. Passed(d)' = Passed(d)
  BY <1>1, <1>3 DEF Untouched, Passed
<1>5. /\ Uncalled(d) => Uncalled(d)'
      /\ Calling(d) => Calling(d)'
      /\ Awaiting(d) => Awaiting(d)'
      /\ Finished(d) => Finished(d)'
  BY <1>1, <1>2, <1>3, <1>4 DEF Untouched, Absent, Uncalled, Calling, Awaiting, Finished, Kinds
<1>6. /\ Answering(d) => Answering(d)'
      /\ Succeeding(d) => Succeeding(d)'
  BY <1>1, <1>2, <1>3 DEF Untouched, Answering, Succeeding, Kinds
<1>7. /\ Judging(d) => Judging(d)'
      /\ Failing(d) => Failing(d)'
  BY <1>1, <1>2, <1>3, <1>4 DEF Untouched, Judging, Failing, Kinds
<1>. QED
  BY <1>5, <1>6, <1>7 DEF Stage, Untouched

\* A step that moves call c only, and posts or takes an event of its own only.
Moves(c) ==
    /\ \A d \in Calls \ {c}, k \in {"client", "then", "fail"} :
          /\ loop'.status[<<d, k>>] = loop.status[<<d, k>>]
          /\ loop'.value[<<d, k>>] = loop.value[<<d, k>>]
          /\ loop'.waiting[<<d, k>>] = loop.waiting[<<d, k>>]
    /\ \A v : v.job \notin {OnSuccess(c), OnFailure(c)} =>
          (v \in Events(loop'.posted) <=> v \in Events(loop.posted))
    /\ \A d \in Calls \ {c} :
          /\ d \in succeeded' <=> d \in succeeded
          /\ d \in DOMAIN threw' <=> d \in DOMAIN threw
          /\ d \in DOMAIN threw => threw'[d] = threw[d]
          /\ told'[d] = told[d]
          /\ d \in refused' <=> d \in refused

\* A step that moves one call and takes it to a stage preserves the invariant.
LEMMA OneCallMoves ==
    ASSUME IInv, NEW c \in Calls, Moves(c),
           StackOf(c),
           loop' \in Engines, Once(loop'.posted), DOMAIN told' = Calls,
           Reactions(c, "fail")' = <<>>, Stage(c)'
    PROVE  IInv'
<1>1. ASSUME NEW d \in Calls, d # c PROVE Untouched(d)
  <2>1. \A k \in {"client", "then", "fail"} :
          /\ Status(d, k)' = Status(d, k) /\ Value(d, k)' = Value(d, k)
          /\ Reactions(d, k)' = Reactions(d, k)
    BY <1>1 DEF Moves, Status, Value, Reactions
  <2>2. \A v : v.job \in {OnSuccess(d), OnFailure(d)} => v.job \notin {OnSuccess(c), OnFailure(c)}
    BY <1>1, JobsDiffer
  <2>3. Queued(loop'.posted, d) = Queued(loop.posted, d)
    BY <2>2 DEF Queued, Moves
  <2>4. At(d)' = At(d)
    BY <1>1 DEF StackOf
  <2>5. OnSuccess(d)' = OnSuccess(d) /\ OnFailure(d)' = OnFailure(d)
    OBVIOUS
  <2>6. Queued(loop.posted, d)' = Queued(loop'.posted, d)
    BY DEF Queued, Events
  <2>. QED
    BY <1>1, <2>1, <2>3, <2>4, <2>6 DEF Untouched, Moves
<1>2. \A d \in Calls : Stage(d)'
  BY <1>1, StageKept DEF IInv
<1>3. \A d \in Calls : Reactions(d, "fail")' = <<>>
  BY <1>1 DEF Untouched, IInv
<1>4. TypeOK'
  BY DEF TypeOK, IInv, StackOf
<1>. QED
  BY <1>2, <1>3, <1>4 DEF IInv, StackOf

\* A step that leaves the stack alone.
LEMMA StackKept ==
    ASSUME IInv, inside' = inside
    PROVE  \A c \in Calls : StackOf(c) /\ At(c)' = At(c)
  BY DEF IInv, TypeOK, NeverInsideItself, At, StackOf

---------------------------------------------------------------------------
\* The promises of a call are different, and each is a promise.
LEMMA Promises ==
    ASSUME NEW c \in Calls
    PROVE  /\ <<c, "client">> \in PromiseIds /\ <<c, "then">> \in PromiseIds
           /\ <<c, "fail">> \in PromiseIds
           /\ OnSuccess(c) \in Jobs /\ OnSuccess(c).next = <<c, "then">>
           /\ OnFailure(c) \in Jobs /\ OnFailure(c).next = <<c, "fail">>
           /\ OnSuccess(c).kind = "success" /\ OnFailure(c).kind = "fail"
  BY DEF PromiseIds, Jobs, OnSuccess, OnFailure, Reaction, Job

\* The frame of a call on the stack tells its stage.
LEMMA StageOf ==
    ASSUME IInv, NEW c \in Calls
    PROVE  /\ In(c, "call") => Calling(c) /\ c \notin refused
           /\ In(c, "success") => Succeeding(c) /\ c \notin refused
           /\ In(c, "fail") => Failing(c) /\ c \notin refused
<1>1. Stage(c)
  BY DEF IInv
<1>. QED
  BY <1>1 DEF Stage, Uncalled, Calling, Awaiting, Answering, Succeeding, Judging, Failing,
              Finished, Outside, In

\* No call was made yet.
LEMMA InitIInv == Init => IInv
<1>. SUFFICES ASSUME Init PROVE IInv
  OBVIOUS
<1>1. loop \in Engines
  <2>1. EmptyLoop(PromiseIds) \in SafeEngine(PromiseIds, {}, Jobs, Values)
    BY EmptySafe DEF Values
  <2>. QED
    BY <2>1, EnginesSafe DEF Init
<1>2. Events(loop.posted) = {} /\ Once(loop.posted)
  BY DEF Init, EmptyLoop, Events, Once
<1>3. ASSUME NEW c \in Calls PROVE Uncalled(c) /\ Reactions(c, "fail") = <<>>
  BY <1>2, Promises DEF Init, EmptyLoop, Uncalled, Absent, Status, Reactions, NothingYet,
                        NotQueued, Queued, Outside, At
<1>4. inside \in Seq(Calls \X Kinds) /\ NeverInsideItself /\ DOMAIN told = Calls
  BY DEF Init, NeverInsideItself
<1>. QED
  BY <1>1, <1>2, <1>3, <1>4 DEF IInv, TypeOK, Stage

\* httpCall begins.
LEMMA HttpCallStep == ASSUME IInv, NEW c \in Calls, HttpCall(c) PROVE IInv'
<1>1. /\ Status(c, "client") = "absent" /\ c \notin refused /\ "call" \notin At(c)
      /\ inside' = Append(inside, <<c, "call">>)
      /\ UNCHANGED <<loop, refused, succeeded, threw, told>>
  BY DEF HttpCall, Unmade, Frames, Status, At
<1>2. Uncalled(c)
  <2>1. Stage(c)
    BY DEF IInv
  <2>2. ~Calling(c)
    BY <1>1 DEF Calling, In
  <2>. QED
    BY <1>1, <2>1, <2>2
    DEF Stage, Awaiting, Answering, Succeeding, Judging, Failing, Finished, Passed, Answered
<1>3. StackOf(c) /\ In(c, "call")'
  BY <1>1, <1>2, Entered DEF IInv, Uncalled, Kinds
<1>4. Calling(c)' /\ Reactions(c, "fail")' = <<>>
  BY <1>1, <1>2, <1>3
  DEF Uncalled, Calling, Absent, Status, Reactions, NothingYet, NotQueued, Queued, Events
<1>5. Moves(c)
  BY <1>1 DEF Moves, Events
<1>6. loop' \in Engines /\ Once(loop'.posted) /\ DOMAIN told' = Calls /\ Stage(c)'
  BY <1>1, <1>4 DEF IInv, TypeOK, Stage
<1>. QED
  BY <1>3, <1>4, <1>5, <1>6, OneCallMoves

\* httpCall throws, and the call is as good as never made.
LEMMA HttpCallThrowsStep == ASSUME IInv, NEW c \in Calls, HttpCallThrows(c) PROVE IInv'
<1>1. /\ inside # <<>> /\ Running = <<c, "call">> /\ inside' = Left
      /\ refused' = refused \cup {c}
      /\ UNCHANGED <<loop, succeeded, threw, told>>
  BY DEF HttpCallThrows, InHttpCall
<1>2. In(c, "call") /\ Outside(c)' /\ StackOf(c)
  BY <1>1, Exited DEF IInv
<1>3. Calling(c)
  BY <1>2, StageOf
<1>4. Uncalled(c)' /\ Reactions(c, "fail")' = <<>>
  BY <1>1, <1>2, <1>3
  DEF Uncalled, Calling, Absent, Status, Reactions, NothingYet, NotQueued, Queued, Events
<1>5. Moves(c)
  BY <1>1 DEF Moves, Events
<1>6. loop' \in Engines /\ Once(loop'.posted) /\ DOMAIN told' = Calls /\ Stage(c)'
  BY <1>1, <1>4 DEF IInv, TypeOK, Stage
<1>. QED
  BY <1>2, <1>4, <1>5, <1>6, OneCallMoves

\* sendRequest's promise is pending or settled; both reactions are registered.
LEMMA HttpCallReturnsStep == ASSUME IInv, NEW c \in Calls, HttpCallReturns(c) PROVE IInv'
<1>. DEFINE A == <<c, "client">>
            B == <<c, "then">>
            F == <<c, "fail">>
            e == New(loop, A)
<1>1. /\ inside # <<>> /\ Running = <<c, "call">> /\ inside' = Left
      /\ UNCHANGED <<refused, succeeded, threw, told>>
  BY DEF HttpCallReturns, InHttpCall
<1>2. In(c, "call") /\ Outside(c)' /\ StackOf(c)
  BY <1>1, Exited DEF IInv
<1>3. Absent(c) /\ c \notin refused
  BY <1>2, StageOf DEF Calling
<1>4. /\ Status(c, "client") = "absent" /\ UNCHANGED <<refused, succeeded, threw, told>>
      /\ loop \in Engines
  BY <1>1, <1>3 DEF Absent, IInv, TypeOK
<1>5. A \in PromiseIds /\ B \in PromiseIds /\ F \in PromiseIds
  BY Promises
<1>6. /\ e \in Engines /\ e.status = [loop.status EXCEPT ![A] = "pending"]
      /\ e.value = loop.value /\ e.waiting = loop.waiting /\ e.posted = loop.posted
  <2>1. e \in Engines
    BY <1>4, <1>5, EnginesSafe, NewSafe
  <2>. QED
    BY <1>4, <2>1 DEF New, Engines, EngineType
<1>7. \A w \in Events(loop.posted) : w.job \notin {OnSuccess(c), OnFailure(c)}
  BY <1>3 DEF Absent, NotQueued, Queued
<1>. DEFINE then(x) == Then(x, A, OnSuccess(c))
            fail(x) == Then(x, B, OnFailure(c))
<1>8. PICK x \in Returned(c) : loop' = fail(then(x))
  BY DEF HttpCallReturns, OnSuccess, OnFailure
<1>9. CASE x = e
  <2>1. loop' \in Engines
    <3>1. then(x) \in Engines
      BY <1>5, <1>6, <1>9, EnginesSafe, ThenSafe, Promises
    <3>. HIDE DEF then
    <3>2. fail(then(x)) \in Engines
      BY <1>5, <3>1, EnginesSafe, ThenSafe, Promises
    <3>. QED
      BY <1>8, <3>2
  <2>2. /\ then(x).status = [e.status EXCEPT ![B] = "pending"] /\ then(x).value = e.value
        /\ then(x).waiting = [e.waiting EXCEPT ![A] = <<OnSuccess(c)>>]
        /\ then(x).posted = e.posted
    <3>. DEFINE y == New(x, B)
    <3>1. /\ y \in Engines /\ y.status = [e.status EXCEPT ![B] = "pending"]
          /\ y.value = e.value /\ y.waiting = e.waiting /\ y.posted = e.posted
      <4>1. y \in Engines
        BY <1>5, <1>6, <1>9, EnginesSafe, NewSafe
      <4>. QED
        BY <1>6, <1>9, <4>1 DEF New, Engines, EngineType
    <3>2. IsPending(y, A) /\ y.waiting[A] = <<>>
      BY <1>4, <1>3, <1>5, <1>6, <3>1 DEF IsPending, Absent, Reactions, Engines, EngineType
    <3>3. then(x) = Subscribe(y, A, OnSuccess(c))
      BY Promises DEF Then
    <3>. HIDE DEF y, then, e
    <3>. QED
      BY <1>5, <3>1, <3>2, <3>3 DEF Subscribe, Engines, EngineType
  <2>3. /\ loop'.status = [then(x).status EXCEPT ![F] = "pending"] /\ loop'.value = e.value
        /\ loop'.waiting = [then(x).waiting EXCEPT ![B] = <<OnFailure(c)>>]
        /\ loop'.posted = e.posted
    <3>. DEFINE y == New(then(x), F)
    <3>. HIDE DEF then, e
    <3>1. then(x) \in Engines
      BY <1>5, <1>6, <1>9, EnginesSafe, ThenSafe, Promises DEF then
    <3>2. /\ y \in Engines /\ y.status = [then(x).status EXCEPT ![F] = "pending"]
          /\ y.value = then(x).value /\ y.waiting = then(x).waiting /\ y.posted = then(x).posted
      <4>1. y \in Engines
        BY <1>5, <3>1, EnginesSafe, NewSafe
      <4>. QED
        BY <3>1, <4>1 DEF New, Engines, EngineType
    <3>3. IsPending(y, B) /\ y.waiting[B] = <<>>
      <4>1. then(x).status[B] = "pending"
        BY <1>4, <1>5, <1>6, <2>2 DEF Engines, EngineType
      <4>2. then(x).waiting[B] = <<>>
        BY <1>4, <1>3, <1>5, <1>6, <2>2 DEF Engines, EngineType, Absent, Reactions
      <4>. QED
        BY <1>5, <3>1, <3>2, <4>1, <4>2 DEF IsPending, Engines, EngineType
    <3>4. loop' = Subscribe(y, B, OnFailure(c))
      BY <1>8, Promises DEF Then
    <3>. HIDE DEF y
    <3>. QED
      BY <1>5, <2>2, <3>2, <3>3, <3>4 DEF Subscribe, Engines, EngineType
  <2>. HIDE DEF e, then, fail
  <2>4. Awaiting(c)' /\ Reactions(c, "fail")' = <<>>
    <3>1. /\ Status(c, "client")' = "pending" /\ Status(c, "then")' = "pending"
          /\ Status(c, "fail")' = "pending" /\ Reactions(c, "client")' = <<OnSuccess(c)>>
          /\ Reactions(c, "then")' = <<OnFailure(c)>> /\ Reactions(c, "fail")' = <<>>
      <4>1. /\ loop'.status[A] = "pending" /\ loop'.status[B] = "pending"
            /\ loop'.status[F] = "pending"
        BY <1>4, <1>5, <1>6, <2>2, <2>3 DEF Engines, EngineType
      <4>2. /\ loop'.waiting[A] = <<OnSuccess(c)>> /\ loop'.waiting[B] = <<OnFailure(c)>>
            /\ loop'.waiting[F] = loop.waiting[F]
        <5>. DEFINE w == loop.waiting
                    a == <<OnSuccess(c)>>
                    b == <<OnFailure(c)>>
        <5>1. DOMAIN w = PromiseIds
          BY <1>4 DEF Engines, EngineType
        <5>2. loop'.waiting = [[w EXCEPT ![A] = a] EXCEPT ![B] = b]
          BY <1>6, <2>2, <2>3
        <5>3. A # B /\ A # F /\ B # F
          OBVIOUS
        <5>. HIDE DEF w, a, b, A, B, F
        <5>4. loop'.waiting[A] = a /\ loop'.waiting[B] = b /\ loop'.waiting[F] = w[F]
          BY <1>5, <5>1, <5>2, <5>3
        <5>. QED
          BY <5>4 DEF w, a, b
      <4>. QED
        BY <1>3, <4>1, <4>2 DEF Status, Reactions, Absent
    <3>2. Queued(loop.posted, c)' = {}
      BY <1>6, <1>7, <2>3 DEF Queued
    <3>. QED
      BY <1>2, <1>4, <1>3, <3>1, <3>2
      DEF Awaiting, Hanging, NothingYet, NotQueued, Absent
  <2>5. Moves(c)
    BY <1>4, <1>5, <1>6, <2>2, <2>3 DEF Moves, Engines, EngineType, PromiseIds
  <2>. QED
    <3>1. Once(loop'.posted) /\ DOMAIN told' = Calls /\ Stage(c)'
      BY <1>4, <1>3, <1>6, <2>3, <2>4 DEF IInv, TypeOK, Stage
    <3>. QED
      BY <1>2, <2>1, <2>4, <2>5, <3>1, OneCallMoves
<1>10. ASSUME NEW ok \in BOOLEAN, NEW v \in Values, x = Settle(e, A, ok, v),
             v \in IF ok THEN {"response"} ELSE Failures
      PROVE  IInv'
  <2>1. /\ x \in Engines /\ x.status = [e.status EXCEPT ![A] = IF ok THEN "fulfilled" ELSE "rejected"]
        /\ x.value = [e.value EXCEPT ![A] = v] /\ x.waiting = e.waiting /\ x.posted = e.posted
    <3>1. IsPending(e, A) /\ e.waiting[A] = <<>>
      BY <1>4, <1>3, <1>5, <1>6 DEF IsPending, Absent, Reactions, Engines, EngineType
    <3>. HIDE DEF e
    <3>. QED
      BY <1>5, <1>6, <1>10, <3>1, SettleNone
  <2>. DEFINE event == Event(OnSuccess(c), ok, v)
  <2>2. loop' \in Engines /\ then(x) \in Engines
    <3>1. then(x) \in Engines
      BY <1>5, <2>1, EnginesSafe, ThenSafe, Promises
    <3>. HIDE DEF then
    <3>2. fail(then(x)) \in Engines
      BY <1>5, <3>1, EnginesSafe, ThenSafe, Promises
    <3>. QED
      BY <1>8, <3>1, <3>2
  <2>3. /\ then(x).status = [x.status EXCEPT ![B] = "pending"] /\ then(x).value = x.value
        /\ then(x).waiting = x.waiting /\ then(x).posted = Append(x.posted, event)
    <3>. DEFINE y == New(x, B)
    <3>1. /\ y \in Engines /\ y.status = [x.status EXCEPT ![B] = "pending"]
          /\ y.value = x.value /\ y.waiting = x.waiting /\ y.posted = x.posted
      <4>1. y \in Engines
        BY <1>5, <2>1, EnginesSafe, NewSafe
      <4>. QED
        BY <2>1, <4>1 DEF New, Engines, EngineType
    <3>2. ~IsPending(y, A) /\ IsFulfilled(y, A) = ok /\ y.value[A] = v
      BY <1>5, <1>6, <2>1, <3>1 DEF IsPending, IsFulfilled, Engines, EngineType
    <3>3. then(x) = Post(y, OnSuccess(c), ok, v)
      <4>1. then(x) = Subscribe(y, A, OnSuccess(c))
        BY Promises DEF Then
      <4>. HIDE DEF y, then
      <4>. QED
        BY <3>2, <4>1 DEF Subscribe
    <3>. HIDE DEF y, then
    <3>. QED
      BY <3>1, <3>3 DEF Post, Engines, EngineType
  <2>4. /\ loop'.status = [then(x).status EXCEPT ![F] = "pending"] /\ loop'.value = x.value
        /\ loop'.waiting = [x.waiting EXCEPT ![B] = <<OnFailure(c)>>]
        /\ loop'.posted = Append(x.posted, event)
    <3>. DEFINE y == New(then(x), F)
    <3>. HIDE DEF then
    <3>1. /\ y \in Engines /\ y.status = [then(x).status EXCEPT ![F] = "pending"]
          /\ y.value = then(x).value /\ y.waiting = then(x).waiting /\ y.posted = then(x).posted
      <4>1. y \in Engines
        BY <1>5, <2>2, EnginesSafe, NewSafe
      <4>. QED
        BY <2>2, <4>1 DEF New, Engines, EngineType
    <3>2. IsPending(y, B) /\ y.waiting[B] = <<>>
      BY <1>3, <1>5, <1>6, <2>1, <2>2, <2>3, <3>1
      DEF IsPending, Engines, EngineType, Absent, Reactions
    <3>3. loop' = Subscribe(y, B, OnFailure(c))
      BY <1>8, Promises DEF Then
    <3>. HIDE DEF y
    <3>. QED
      BY <1>5, <2>3, <3>1, <3>2, <3>3 DEF Subscribe, Engines, EngineType
  <2>. HIDE DEF e, then, fail
  <2>5. Events(loop'.posted) = Events(loop.posted) \cup {event} /\ Once(loop'.posted)
    <3>1. loop.posted \in Seq(EventType(Jobs, Values)) /\ event \in EventType(Jobs, Values)
      BY <1>4, Promises DEF Engines, EngineType, Event, EventType
    <3>2. event.job = OnSuccess(c)
      BY DEF Event
    <3>. HIDE DEF event
    <3>. QED
      BY <1>6, <1>7, <2>1, <2>4, <3>1, <3>2, Added DEF IInv
  <2>6. /\ Status(c, "client")' = (IF ok THEN "fulfilled" ELSE "rejected")
        /\ Value(c, "client")' = v /\ Status(c, "then")' = "pending"
        /\ Status(c, "fail")' = "pending" /\ Reactions(c, "then")' = <<OnFailure(c)>>
        /\ Reactions(c, "fail")' = <<>>
    BY <1>4, <1>3, <1>5, <1>6, <2>1, <2>3, <2>4
    DEF Status, Value, Reactions, Absent, Engines, EngineType
  <2>7. Queued(loop.posted, c)' = {event}
    BY <1>7, <2>5 DEF Queued, Event
  <2>8. Answering(c)'
    BY <1>2, <1>4, <1>3, <1>10, <2>6, <2>7
    DEF Answering, Answered, Hanging, NothingYet, Absent
  <2>9. Moves(c)
    BY <1>4, <1>5, <1>6, <2>1, <2>3, <2>4, <2>5 DEF Moves, Event, Engines, EngineType, PromiseIds
  <2>. QED
    <3>1. DOMAIN told' = Calls /\ Stage(c)'
      BY <1>4, <1>3, <2>8 DEF IInv, TypeOK, Stage
    <3>. QED
      BY <1>2, <2>2, <2>5, <2>6, <2>9, <3>1, OneCallMoves
<1>11. \/ x = e \/ x = Settle(e, A, TRUE, "response")
      \/ \E v \in Failures : x = Settle(e, A, FALSE, v)
  BY DEF Returned
<1>. HIDE DEF e
<1>12. "response" \in Values /\ Failures \subseteq Values
  BY DEF Values
<1>13. CASE x = Settle(e, A, TRUE, "response")
  BY <1>10, <1>12, <1>13
<1>14. ASSUME NEW v \in Failures, x = Settle(e, A, FALSE, v) PROVE IInv'
  BY <1>10, <1>12, <1>14
<1>. QED
  BY <1>9, <1>11, <1>13, <1>14

---------------------------------------------------------------------------
\* loop with the queue of e, in which nothing is queued of call c.
Cleared(e, c) ==
    /\ e \in Engines /\ Once(e.posted)
    /\ e.status = loop.status /\ e.value = loop.value /\ e.waiting = loop.waiting
    /\ Queued(e.posted, c) = {}
    /\ \A v : v.job \notin {OnSuccess(c), OnFailure(c)} =>
          (v \in Events(e.posted) <=> v \in Events(loop.posted))

\* Settling a promise of a call that one reaction of the call waits for.
LEMMA StepToQueue ==
    ASSUME NEW c \in Calls, NEW e, Cleared(e, c), NEW k \in {"client", "then"}, NEW job,
           job = IF k = "client" THEN OnSuccess(c) ELSE OnFailure(c),
           Status(c, k) = "pending", Reactions(c, k) = <<job>>,
           NEW ok \in BOOLEAN, NEW v \in Values, loop' = Settle(e, <<c, k>>, ok, v)
    PROVE  /\ loop' \in Engines /\ Once(loop'.posted)
           /\ Status(c, k)' = (IF ok THEN "fulfilled" ELSE "rejected") /\ Value(c, k)' = v
           /\ \A l \in {"client", "then", "fail"} \ {k} :
                 /\ Status(c, l)' = Status(c, l) /\ Value(c, l)' = Value(c, l)
                 /\ Reactions(c, l)' = Reactions(c, l)
           /\ Queued(loop.posted, c)' = {Event(job, ok, v)}
           /\ \A d \in Calls \ {c}, l \in {"client", "then", "fail"} :
                 /\ loop'.status[<<d, l>>] = loop.status[<<d, l>>]
                 /\ loop'.value[<<d, l>>] = loop.value[<<d, l>>]
                 /\ loop'.waiting[<<d, l>>] = loop.waiting[<<d, l>>]
           /\ \A w : w.job \notin {OnSuccess(c), OnFailure(c)} =>
                 (w \in Events(loop'.posted) <=> w \in Events(loop.posted))
<1>. DEFINE p == <<c, k>>
<1>1. p \in PromiseIds /\ job \in Jobs /\ job \in {OnSuccess(c), OnFailure(c)}
  BY Promises
<1>2. \A w \in Events(e.posted) : w.job # job
  BY <1>1 DEF Cleared, Queued
<1>3. IsPending(e, p) /\ e.waiting[p] = <<job>> /\ e \in Engines /\ Once(e.posted)
  BY DEF Cleared, Status, Reactions, IsPending
<1>4. /\ loop' \in Engines /\ Once(loop'.posted)
      /\ loop'.status = [loop.status EXCEPT ![p] = IF ok THEN "fulfilled" ELSE "rejected"]
      /\ loop'.value = [loop.value EXCEPT ![p] = v]
      /\ loop'.waiting = [loop.waiting EXCEPT ![p] = <<>>]
      /\ Events(loop'.posted) = Events(e.posted) \cup {Event(job, ok, v)}
  <2>. HIDE DEF p
  <2>1. loop' = Settle(e, p, ok, v)
    BY DEF p
  <2>2. e.status = loop.status /\ e.value = loop.value /\ e.waiting = loop.waiting
    BY DEF Cleared
  <2>. DEFINE f == Settle(e, p, ok, v)
  <2>3. /\ f \in Engines /\ Once(f.posted)
        /\ f.status = [e.status EXCEPT ![p] = IF ok THEN "fulfilled" ELSE "rejected"]
        /\ f.value = [e.value EXCEPT ![p] = v] /\ f.waiting = [e.waiting EXCEPT ![p] = <<>>]
        /\ Events(f.posted) = Events(e.posted) \cup {Event(job, ok, v)}
    <3>1. /\ f.status = [e.status EXCEPT ![p] = IF ok THEN "fulfilled" ELSE "rejected"]
          /\ f.value = [e.value EXCEPT ![p] = v] /\ f.waiting = [e.waiting EXCEPT ![p] = <<>>]
      BY ONLY <1>3 DEF Settle
    <3>2. f \in Engines
      BY <1>1, <1>3, EnginesSafe, SettleSafe
    <3>3. /\ Events(f.posted) = Events(e.posted) \cup {Event(job, ok, v)}
          /\ Once(f.posted)
      <4>1. e.posted \in Seq(EventType(Jobs, Values))
            /\ Event(job, ok, v) \in EventType(Jobs, Values) /\ Event(job, ok, v).job = job
        BY <1>1, <1>3 DEF Engines, EngineType, EventType, Event
      <4>2. f.posted = Append(e.posted, Event(job, ok, v))
        BY <1>3, <4>1, SettlePosts
      <4>. HIDE DEF f
      <4>. QED
        BY ONLY <1>2, <1>3, <4>1, <4>2, Added
    <3>. QED
      BY <3>1, <3>2, <3>3
  <2>. HIDE DEF f
  <2>4. loop' = f
    BY <2>1 DEF f
  <2>. QED
    BY <2>2, <2>3, <2>4
<1>5. DOMAIN loop.status = PromiseIds /\ DOMAIN loop.value = PromiseIds
  BY DEF Cleared, Engines, EngineType
<1>6. \A d \in Calls, l \in {"client", "then", "fail"} : <<d, l>> # p =>
          /\ loop'.status[<<d, l>>] = loop.status[<<d, l>>]
          /\ loop'.value[<<d, l>>] = loop.value[<<d, l>>]
          /\ loop'.waiting[<<d, l>>] = loop.waiting[<<d, l>>]
  <2>1. DOMAIN loop.waiting = PromiseIds
    BY DEF Cleared, Engines, EngineType
  <2>2. \A d \in Calls, l \in {"client", "then", "fail"} : <<d, l>> \in PromiseIds
    BY DEF PromiseIds
  <2>. HIDE DEF p
  <2>. QED
    BY <1>4, <1>5, <2>1, <2>2
<1>7. loop'.status[p] = (IF ok THEN "fulfilled" ELSE "rejected") /\ loop'.value[p] = v
  <2>. HIDE DEF p
  <2>. QED
    BY <1>1, <1>4, <1>5
<1>8. Queued(loop'.posted, c) = {Event(job, ok, v)}
  BY <1>1, <1>4 DEF Queued, Cleared, Event
<1>9. Queued(loop.posted, c)' = Queued(loop'.posted, c)
  BY DEF Queued, Events
<1>10. \A w : w.job \notin {OnSuccess(c), OnFailure(c)} =>
          (w \in Events(loop'.posted) <=> w \in Events(loop.posted))
  BY <1>1, <1>4 DEF Cleared, Event
<1>. QED
  BY <1>4, <1>6, <1>7, <1>8, <1>9, <1>10 DEF Status, Value, Reactions

\* Settling the last promise of a call, which nothing waits for.
LEMMA StepToEnd ==
    ASSUME NEW c \in Calls, NEW e, Cleared(e, c),
           Status(c, "fail") = "pending", Reactions(c, "fail") = <<>>,
           NEW ok \in BOOLEAN, NEW v \in Values, loop' = Settle(e, <<c, "fail">>, ok, v)
    PROVE  /\ loop' \in Engines /\ Once(loop'.posted)
           /\ Status(c, "fail")' \in {"fulfilled", "rejected"}
           /\ Reactions(c, "fail")' = <<>>
           /\ \A l \in {"client", "then"} :
                 /\ Status(c, l)' = Status(c, l) /\ Value(c, l)' = Value(c, l)
                 /\ Reactions(c, l)' = Reactions(c, l)
           /\ Queued(loop.posted, c)' = {}
           /\ \A d \in Calls \ {c}, l \in {"client", "then", "fail"} :
                 /\ loop'.status[<<d, l>>] = loop.status[<<d, l>>]
                 /\ loop'.value[<<d, l>>] = loop.value[<<d, l>>]
                 /\ loop'.waiting[<<d, l>>] = loop.waiting[<<d, l>>]
           /\ \A w : w.job \notin {OnSuccess(c), OnFailure(c)} =>
                 (w \in Events(loop'.posted) <=> w \in Events(loop.posted))
<1>. DEFINE p == <<c, "fail">>
<1>1. p \in PromiseIds
  BY Promises
<1>2. IsPending(e, p) /\ e.waiting[p] = <<>> /\ e \in Engines
  BY DEF Cleared, Status, Reactions, IsPending
<1>3. /\ loop' \in Engines /\ loop'.posted = e.posted
      /\ loop'.status = [loop.status EXCEPT ![p] = IF ok THEN "fulfilled" ELSE "rejected"]
      /\ loop'.value = [loop.value EXCEPT ![p] = v]
      /\ loop'.waiting = loop.waiting
  <2>. HIDE DEF p
  <2>1. loop' = Settle(e, p, ok, v)
    BY DEF p
  <2>. QED
    BY <1>1, <1>2, <2>1, SettleNone DEF Cleared
<1>4. DOMAIN loop.status = PromiseIds /\ DOMAIN loop.value = PromiseIds
  BY DEF Cleared, Engines, EngineType
<1>5. \A d \in Calls, l \in {"client", "then", "fail"} : <<d, l>> # p =>
          /\ loop'.status[<<d, l>>] = loop.status[<<d, l>>]
          /\ loop'.value[<<d, l>>] = loop.value[<<d, l>>]
  <2>1. \A d \in Calls, l \in {"client", "then", "fail"} : <<d, l>> \in PromiseIds
    BY DEF PromiseIds
  <2>. HIDE DEF p
  <2>. QED
    BY <1>3, <1>4, <2>1
<1>6. loop'.status[p] \in {"fulfilled", "rejected"}
  <2>. HIDE DEF p
  <2>. QED
    BY <1>1, <1>3, <1>4
<1>7. Queued(loop.posted, c)' = {}
  BY <1>3 DEF Queued, Events, Cleared
<1>. QED
  BY <1>3, <1>5, <1>6, <1>7 DEF Status, Value, Reactions, Cleared

\* The client answers: the success reaction is posted.
LEMMA ClientSettlesStep == ASSUME IInv, NEW c \in Calls, ClientSettles(c) PROVE IInv'
<1>1. /\ Status(c, "client") = "pending" /\ inside' = inside
      /\ UNCHANGED <<refused, succeeded, threw, told>>
  BY DEF ClientSettles, IsPending, Status
<1>2. Awaiting(c) /\ c \notin refused
  <2>1. Stage(c)
    BY DEF IInv
  <2>. QED
    BY <1>1, <2>1
    DEF Stage, Uncalled, Calling, Absent, Answering, Succeeding, Judging, Failing, Finished,
        Passed, Answered
<1>3. PICK ok \in BOOLEAN, v \in Values :
          /\ v \in IF ok THEN {"response"} ELSE Failures
          /\ loop' = Settle(loop, <<c, "client">>, ok, v)
  BY DEF ClientSettles, Values
<1>4. Cleared(loop, c)
  BY <1>2 DEF Cleared, IInv, TypeOK, Awaiting, NotQueued
<1>5. /\ loop' \in Engines /\ Once(loop'.posted)
      /\ Status(c, "client")' = (IF ok THEN "fulfilled" ELSE "rejected")
      /\ Value(c, "client")' = v
      /\ \A l \in {"then", "fail"} : /\ Status(c, l)' = Status(c, l)
                                     /\ Reactions(c, l)' = Reactions(c, l)
      /\ Queued(loop.posted, c)' = {Event(OnSuccess(c), ok, v)}
      /\ Moves(c)
  BY <1>1, <1>2, <1>3, <1>4, StepToQueue DEF Awaiting, Moves
<1>6. Answering(c)'
  BY <1>1, <1>2, <1>3, <1>5, StackKept
  DEF Awaiting, Answering, Answered, Hanging, NothingYet, Outside
<1>. QED
  BY <1>1, <1>2, <1>5, <1>6, StackKept, OneCallMoves DEF IInv, TypeOK, Stage

\* The oldest event belongs to a call that waits for it; taken, nothing of the call
\* is queued.
LEMMA DeliveredTo ==
    ASSUME IInv, loop.posted # <<>>
    PROVE  \E c \in Calls :
              /\ Cleared(Rest, c) /\ Rest.posted = Tail(loop.posted) /\ c \notin refused
              /\ \/ /\ Answering(c) /\ Current.job = OnSuccess(c)
                    /\ Current = Event(OnSuccess(c), Status(c, "client") = "fulfilled",
                                       Value(c, "client"))
                 \/ /\ Judging(c) /\ Current.job = OnFailure(c)
                    /\ Current = Event(OnFailure(c), Status(c, "then") = "fulfilled",
                                       Value(c, "then"))
<1>1. loop \in Engines /\ Once(loop.posted)
  BY DEF IInv, TypeOK
<1>2. /\ Rest \in Engines /\ Once(Rest.posted)
      /\ Current \in EventType(Jobs, Values) /\ Current \in Events(loop.posted)
      /\ Events(Rest.posted) = Events(loop.posted) \ {Current}
      /\ Rest.status = loop.status /\ Rest.value = loop.value /\ Rest.waiting = loop.waiting
  BY <1>1, PoppedIs DEF Rest, Current
<1>3. PICK c \in Calls : Current.job \in {OnSuccess(c), OnFailure(c)}
  BY <1>2 DEF EventType, Jobs
<1>4. Current \in Queued(loop.posted, c) /\ Stage(c)
  BY <1>2, <1>3 DEF Queued, IInv
<1>5. c \notin refused /\ (Answering(c) \/ Judging(c))
  BY <1>4 DEF Stage, Uncalled, Calling, Absent, Awaiting, Succeeding, Failing, Finished, NotQueued
<1>6. Queued(loop.posted, c) = {Current}
  BY <1>4, <1>5 DEF Answering, Judging
<1>7. Cleared(Rest, c)
  BY <1>2, <1>3, <1>6 DEF Cleared, Queued
<1>8. Rest.posted = Tail(loop.posted)
  BY <1>1 DEF Rest, Popped, Engines, EngineType
<1>9. OnSuccess(c) # OnFailure(c)
  BY JobsDiffer
<1>10. CASE Answering(c)
  <2>1. Current = Event(OnSuccess(c), Status(c, "client") = "fulfilled", Value(c, "client"))
    BY <1>6, <1>10 DEF Answering
  <2>2. Current.job = OnSuccess(c)
    BY <2>1 DEF Event
  <2>. QED
    BY <1>5, <1>7, <1>8, <1>10, <2>1, <2>2
<1>11. CASE Judging(c)
  <2>1. Current = Event(OnFailure(c), Status(c, "then") = "fulfilled", Value(c, "then"))
    BY <1>6, <1>11 DEF Judging
  <2>2. Current.job = OnFailure(c)
    BY <2>1 DEF Event
  <2>. QED
    BY <1>5, <1>7, <1>8, <1>11, <2>1, <2>2
<1>. QED
  BY <1>5, <1>10, <1>11

\* An engine whose queue only lost an event of c.
LEMMA StepToCallback ==
    ASSUME NEW c \in Calls, Cleared(Rest, c), loop' = Rest
    PROVE  /\ loop' \in Engines /\ Once(loop'.posted)
           /\ \A l \in {"client", "then", "fail"} :
                 /\ Status(c, l)' = Status(c, l) /\ Value(c, l)' = Value(c, l)
                 /\ Reactions(c, l)' = Reactions(c, l)
           /\ Queued(loop.posted, c)' = {}
           /\ \A d \in Calls \ {c}, l \in {"client", "then", "fail"} :
                 /\ loop'.status[<<d, l>>] = loop.status[<<d, l>>]
                 /\ loop'.value[<<d, l>>] = loop.value[<<d, l>>]
                 /\ loop'.waiting[<<d, l>>] = loop.waiting[<<d, l>>]
           /\ \A w : w.job \notin {OnSuccess(c), OnFailure(c)} =>
                 (w \in Events(loop'.posted) <=> w \in Events(loop.posted))
  BY DEF Cleared, Status, Value, Reactions, Queued, Events

\* onSuccess begins, and may make calls.
LEMMA CallSuccessStep == ASSUME IInv, CallSuccess PROVE IInv'
<1>1. /\ loop.posted # <<>> /\ Current.job.kind = "success" /\ Current.ok
      /\ loop' = Rest /\ inside' = Append(inside, <<Target[1], "success">>)
      /\ succeeded' = succeeded \cup {Target[1]} /\ UNCHANGED <<refused, threw, told>>
  BY DEF CallSuccess, Delivers, Current
<1>2. PICK c \in Calls :
          /\ Cleared(Rest, c) /\ c \notin refused /\ Answering(c) /\ Current.job = OnSuccess(c)
          /\ Current = Event(OnSuccess(c), Status(c, "client") = "fulfilled", Value(c, "client"))
  BY <1>1, DeliveredTo, Promises
<1>3. Target[1] = c /\ Status(c, "client") = "fulfilled"
  <2>1. Target[1] = c
    <3>1. Current.job = OnSuccess(c) /\ OnSuccess(c).next = <<c, "then">>
      BY <1>2, Promises
    <3>2. Target = <<c, "then">>
      BY <3>1 DEF Target
    <3>. QED
      BY <3>2
  <2>2. Current.ok = (Status(c, "client") = "fulfilled")
    BY <1>2, Zenon DEF Event
  <2>. QED
    BY <1>1, <2>1, <2>2
<1>4. /\ loop' \in Engines /\ Once(loop'.posted)
      /\ \A l \in {"client", "then", "fail"} :
            /\ Status(c, l)' = Status(c, l) /\ Value(c, l)' = Value(c, l)
            /\ Reactions(c, l)' = Reactions(c, l)
      /\ Queued(loop.posted, c)' = {}
      /\ Moves(c)
  BY <1>1, <1>2, <1>3, StepToCallback DEF Moves
<1>5. Answered(c) /\ Hanging(c) /\ c \notin DOMAIN threw /\ told[c] = <<>> /\ Answer(c) = "response"
  BY <1>2, <1>3 DEF Answering, Answered, NothingYet, Answer, Value
<1>6. Answered(c)' /\ Hanging(c)' /\ Answer(c)' = "response"
  BY <1>4, <1>5 DEF Answered, Hanging, Answer, Value
<1>7. StackOf(c) /\ In(c, "success")'
  BY <1>1, <1>2, <1>3, Entered DEF IInv, Answering, Kinds
<1>8. Succeeding(c)'
  BY <1>1, <1>3, <1>4, <1>5, <1>6, <1>7 DEF Succeeding, NotQueued
<1>9. DOMAIN told' = Calls /\ Reactions(c, "fail")' = <<>> /\ Stage(c)'
  BY <1>1, <1>2, <1>4, <1>8 DEF IInv, TypeOK, Stage
<1>. QED
  BY <1>4, <1>9, <1>7, OneCallMoves

\* onFail begins.
LEMMA CallFailStep == ASSUME IInv, CallFail PROVE IInv'
<1>1. /\ loop.posted # <<>> /\ Current.job.kind = "fail" /\ ~Current.ok
      /\ Current.val # "other" /\ Target[1] \notin NoFail
      /\ loop' = Rest /\ inside' = Append(inside, <<Target[1], "fail">>)
      /\ told' = [told EXCEPT ![Target[1]] = Append(@, Report(Current.val))]
      /\ UNCHANGED <<refused, threw, succeeded>>
  BY DEF CallFail, Delivers, Current
<1>2. PICK c \in Calls :
          /\ Cleared(Rest, c) /\ c \notin refused /\ Judging(c) /\ Current.job = OnFailure(c)
          /\ Current = Event(OnFailure(c), Status(c, "then") = "fulfilled", Value(c, "then"))
  BY <1>1, DeliveredTo, Promises
<1>3. /\ Target[1] = c /\ Status(c, "then") = "rejected" /\ Current.val = Value(c, "then")
      /\ Passed(c)
  <2>1. Target[1] = c
    <3>1. Current.job = OnFailure(c) /\ OnFailure(c).next = <<c, "fail">>
      BY <1>2, Promises
    <3>2. Target = <<c, "fail">>
      BY <3>1 DEF Target
    <3>. QED
      BY <3>2
  <2>2. Current.ok = (Status(c, "then") = "fulfilled")
    BY <1>2, Zenon DEF Event
  <2>3. Current.val = Value(c, "then")
    BY <1>2, Zenon DEF Event
  <2>4. Passed(c)
    BY <1>2 DEF Judging
  <2>. QED
    BY <1>1, <2>1, <2>2, <2>3, <2>4 DEF Passed
<1>4. /\ loop' \in Engines /\ Once(loop'.posted)
      /\ \A l \in {"client", "then", "fail"} :
            /\ Status(c, l)' = Status(c, l) /\ Value(c, l)' = Value(c, l)
            /\ Reactions(c, l)' = Reactions(c, l)
      /\ Queued(loop.posted, c)' = {}
  BY <1>1, <1>2, StepToCallback
<1>5. /\ DOMAIN told' = Calls /\ told'[c] = <<Report(Wrong(c))>>
      /\ \A d \in Calls \ {c} : told'[d] = told[d]
  BY <1>1, <1>2, <1>3 DEF IInv, TypeOK, Judging, Passed
<1>6. Moves(c)
  BY <1>1, <1>2, <1>5, StepToCallback DEF Moves
<1>7. Passed(c)' /\ Wrong(c)' = Wrong(c)
  <2>1. Answer(c)' = Answer(c) /\ Wrong(c)' = Wrong(c) /\ Answered(c)' = Answered(c)
    BY <1>1, <1>4 DEF Answer, Wrong, Value, Answered
  <2>. QED
    BY <1>1, <1>3, <1>4, <2>1 DEF Passed
<1>8. StackOf(c) /\ In(c, "fail")'
  BY <1>1, <1>2, <1>3, Entered DEF IInv, Judging, Kinds
<1>9. Failing(c)'
  BY <1>1, <1>2, <1>3, <1>4, <1>5, <1>7, <1>8 DEF Failing, NotQueued, Judging, Passed
<1>10. Reactions(c, "fail")' = <<>> /\ Stage(c)'
  BY <1>1, <1>2, <1>4, <1>9 DEF IInv, Stage
<1>. QED
  BY <1>4, <1>5, <1>6, <1>10, <1>8, OneCallMoves

---------------------------------------------------------------------------
(* The outcomes of the reactions.                                          *)

\* The success reaction is over: its promise is settled, the failure reaction queued.
LEMMA ThenSettles ==
    ASSUME IInv, NEW c \in Calls, NEW e, Cleared(e, c), Answered(c), Hanging(c), told[c] = <<>>,
           NEW ok \in BOOLEAN, NEW v \in Values, loop' = Settle(e, <<c, "then">>, ok, v),
           StackOf(c), Outside(c)', c \notin refused,
           UNCHANGED <<refused, succeeded, told>>, c \in succeeded <=> Answer(c) = "response",
           \A d \in Calls \ {c} : /\ d \in DOMAIN threw' <=> d \in DOMAIN threw
                                  /\ d \in DOMAIN threw => threw'[d] = threw[d],
           \/ ok /\ Answer(c) = "response" /\ c \notin DOMAIN threw'
           \/ ~ok /\ v \in Failures /\ c \in DOMAIN threw' /\ threw'[c] = v
           \/ ~ok /\ v \in Failures /\ c \notin DOMAIN threw' /\ Answer(c) = v
    PROVE  IInv'
<1>1. Status(c, "then") = "pending" /\ Reactions(c, "then") = <<OnFailure(c)>>
  BY DEF Hanging
<1>2. /\ loop' \in Engines /\ Once(loop'.posted)
      /\ Status(c, "then")' = (IF ok THEN "fulfilled" ELSE "rejected") /\ Value(c, "then")' = v
      /\ \A l \in {"client", "fail"} :
            /\ Status(c, l)' = Status(c, l) /\ Value(c, l)' = Value(c, l)
            /\ Reactions(c, l)' = Reactions(c, l)
      /\ Queued(loop.posted, c)' = {Event(OnFailure(c), ok, v)}
      /\ Moves(c)
  BY <1>1, StepToQueue DEF Moves
<1>3. Answered(c)' /\ Answer(c)' = Answer(c)
  BY <1>2 DEF Answered, Answer, Value
<1>4. Passed(c)'
  <2>1. CASE ok
    BY <1>2, <1>3, <2>1 DEF Passed
  <2>2. CASE ~ok
    <3>1. Wrong(c)' = v /\ v \in Failures
      BY <1>3, <2>2 DEF Wrong, Failures
    <3>. QED
      BY <1>2, <1>3, <2>2, <3>1 DEF Passed
  <2>. QED
    BY <2>1, <2>2
<1>5. ok = (Status(c, "then")' = "fulfilled")
  <2>1. CASE ok
    BY <1>2, <2>1
  <2>2. CASE ~ok
    BY <1>2, <2>2
  <2>. QED
    BY <2>1, <2>2
<1>6. Judging(c)'
  <2>1. Queued(loop.posted, c)' =
           {Event(OnFailure(c), Status(c, "then")' = "fulfilled", Value(c, "then")')}
    BY <1>2, <1>5, Zenon
  <2>2. Status(c, "fail")' = "pending" /\ told'[c] = <<>> /\ Outside(c)'
    BY <1>2 DEF Hanging
  <2>. QED
    BY <1>4, <2>1, <2>2 DEF Judging
<1>7. DOMAIN told' = Calls /\ Reactions(c, "fail")' = <<>> /\ Stage(c)'
  BY <1>2, <1>6 DEF IInv, TypeOK, Stage
<1>. QED
  BY <1>2, <1>7, OneCallMoves

\* The failure reaction is over, and with it the call.
LEMMA FailSettles ==
    ASSUME IInv, NEW c \in Calls, NEW e, Cleared(e, c), Passed(c), Status(c, "fail") = "pending",
           NEW ok \in BOOLEAN, NEW v \in Values, loop' = Settle(e, <<c, "fail">>, ok, v),
           StackOf(c), Outside(c)', c \notin refused,
           UNCHANGED <<refused, succeeded, told, threw>>,
           told[c] = IF Wrong(c) \in {Nothing, "other"} \/ c \in NoFail THEN <<>>
                     ELSE <<Report(Wrong(c))>>
    PROVE  IInv'
<1>1. Reactions(c, "fail") = <<>>
  BY DEF IInv
<1>2. /\ loop' \in Engines /\ Once(loop'.posted)
      /\ Status(c, "fail")' \in {"fulfilled", "rejected"} /\ Reactions(c, "fail")' = <<>>
      /\ \A l \in {"client", "then"} :
            /\ Status(c, l)' = Status(c, l) /\ Value(c, l)' = Value(c, l)
            /\ Reactions(c, l)' = Reactions(c, l)
      /\ Queued(loop.posted, c)' = {}
      /\ Moves(c)
  BY <1>1, StepToEnd DEF Moves
<1>3. Answered(c)' /\ Answer(c)' = Answer(c) /\ Wrong(c)' = Wrong(c)
  BY <1>2 DEF Passed, Answered, Answer, Wrong, Value
<1>4. Passed(c)'
  BY <1>2, <1>3 DEF Passed
<1>5. Finished(c)'
  BY <1>2, <1>3, <1>4 DEF Finished, NotQueued
<1>6. DOMAIN told' = Calls /\ Stage(c)'
  BY <1>5 DEF IInv, TypeOK, Stage
<1>. QED
  BY <1>2, <1>6, OneCallMoves

\* Nothing went wrong exactly if the success reaction's promise is fulfilled.
LEMMA WrongIs ==
    ASSUME NEW c, Passed(c)
    PROVE  /\ Status(c, "then") = "fulfilled" => Wrong(c) = Nothing
           /\ Status(c, "then") = "rejected" => Wrong(c) = Value(c, "then") /\ Wrong(c) \in Failures
  BY DEF Passed, Wrong

\* A reaction without a callback hands the outcome on.
LEMMA ForwardStep == ASSUME IInv, Forward PROVE IInv'
<1>1. /\ loop.posted # <<>> /\ inside' = inside
      /\ UNCHANGED <<refused, succeeded, threw, told>>
  BY DEF Forward, Delivers
<1>2. PICK c \in Calls :
          /\ Cleared(Rest, c) /\ c \notin refused
          /\ \/ /\ Answering(c) /\ Current.job = OnSuccess(c)
                /\ Current = Event(OnSuccess(c), Status(c, "client") = "fulfilled",
                                   Value(c, "client"))
             \/ /\ Judging(c) /\ Current.job = OnFailure(c)
                /\ Current = Event(OnFailure(c), Status(c, "then") = "fulfilled",
                                   Value(c, "then"))
  BY <1>1, DeliveredTo
<1>3. StackOf(c) /\ (Outside(c) => Outside(c)')
  BY <1>1, StackKept DEF Outside
<1>4. CASE Answering(c) /\ Current.job = OnSuccess(c)
  <2>1. Current = Event(OnSuccess(c), Status(c, "client") = "fulfilled", Value(c, "client"))
    BY <1>2, <1>4, JobsDiffer
  <2>2. Current.ok = (Status(c, "client") = "fulfilled") /\ Current.val = Value(c, "client")
    BY <2>1, Zenon DEF Event
  <2>3. Target = <<c, "then">> /\ Current.job.kind = "success"
    <3>1. OnSuccess(c).next = <<c, "then">> /\ OnSuccess(c).kind = "success"
      BY Promises
    <3>. QED
      BY <1>4, <3>1 DEF Target
  <2>4. ~Current.ok /\ loop' = Settle(Rest, <<c, "then">>, FALSE, Value(c, "client"))
    BY <2>2, <2>3 DEF Forward, Delivers, Current
  <2>5. Value(c, "client") \in Failures /\ Answer(c) = Value(c, "client") /\ Answer(c) # "response"
    BY <1>4, <2>2, <2>4 DEF Answering, Answered, Answer, Value, Failures
  <2>6. /\ Answered(c) /\ Hanging(c) /\ told[c] = <<>> /\ c \notin succeeded
        /\ c \notin DOMAIN threw' /\ Outside(c)'
    BY <1>1, <1>4, <1>3 DEF Answering, NothingYet
  <2>7. Value(c, "client") \in Values /\ FALSE \in BOOLEAN
    BY <2>5 DEF Values
  <2>. QED
    BY <1>1, <1>2, <1>3, <2>4, <2>5, <2>6, <2>7, ThenSettles
<1>5. CASE Judging(c) /\ Current.job = OnFailure(c)
  <2>1. Current = Event(OnFailure(c), Status(c, "then") = "fulfilled", Value(c, "then"))
    BY <1>2, <1>5, JobsDiffer
  <2>2. Current.ok = (Status(c, "then") = "fulfilled") /\ Current.val = Value(c, "then")
    BY <2>1, Zenon DEF Event
  <2>3. Target = <<c, "fail">> /\ Current.job.kind = "fail"
    <3>1. OnFailure(c).next = <<c, "fail">> /\ OnFailure(c).kind = "fail"
      BY Promises
    <3>. QED
      BY <1>5, <3>1 DEF Target
  <2>4. Passed(c) /\ Status(c, "fail") = "pending" /\ told[c] = <<>> /\ Outside(c)'
    BY <1>5, <1>3 DEF Judging
  <2>5. PICK ok \in BOOLEAN, v \in Values : loop' = Settle(Rest, <<c, "fail">>, ok, v)
    <3>1. loop.posted \in Seq(EventType(Jobs, Values))
      BY DEF IInv, TypeOK, Engines, EngineType
    <3>2. Current \in EventType(Jobs, Values)
      BY <1>1, <3>1 DEF Current
    <3>3. Current.ok \in BOOLEAN /\ Current.val \in Values /\ Nothing \in Values
      BY <3>2 DEF EventType, Values
    <3>4. \/ loop' = Settle(Rest, <<c, "fail">>, Current.ok, Current.val)
          \/ loop' = Settle(Rest, <<c, "fail">>, TRUE, Nothing)
      BY <2>3 DEF Forward, Delivers, Current
    <3>. QED
      BY <3>3, <3>4
  <2>6. Wrong(c) \in {Nothing, "other"} \/ c \in NoFail
    <3>1. Current.ok \/ Current.val = "other" \/ c \in NoFail
      BY <2>3 DEF Forward, Delivers, Current
    <3>. QED
      BY <2>2, <2>4, <3>1, WrongIs DEF Passed
  <2>. QED
    BY <1>1, <1>2, <1>3, <2>4, <2>5, <2>6, FailSettles
<1>. QED
  BY <1>2, <1>4, <1>5

\* A callback that returns or throws is that of a call at that stage, and leaves.
LEMMA CallbackIs ==
    ASSUME IInv, InCallback, inside' = Left
    PROVE  \E c \in Calls :
              /\ Cleared(loop, c) /\ c \notin refused /\ StackOf(c) /\ Outside(c)'
              /\ \/ Succeeding(c) /\ Running = <<c, "success">> /\ Settles = <<c, "then">>
                 \/ Failing(c) /\ Running = <<c, "fail">> /\ Settles = <<c, "fail">>
<1>1. PICK c \in Calls, k \in Kinds :
          Running = <<c, k>> /\ In(c, k) /\ Outside(c)' /\ StackOf(c)
  BY Exited DEF IInv, InCallback
<1>2. k \in {"success", "fail"}
  BY <1>1 DEF InCallback, Kinds
<1>3. c \notin refused /\ (k = "success" => Succeeding(c)) /\ (k = "fail" => Failing(c))
  BY <1>1, <1>2, StageOf
<1>4. Cleared(loop, c)
  BY <1>2, <1>3 DEF Cleared, IInv, TypeOK, Succeeding, Failing, NotQueued
<1>5. Settles = <<c, IF k = "success" THEN "then" ELSE "fail">>
  BY <1>1 DEF Settles
<1>. QED
  BY <1>1, <1>2, <1>3, <1>4, <1>5

\* A callback returns or throws.
LEMMA CallbackStep == ASSUME IInv, CallbackReturns \/ CallbackThrows PROVE IInv'
<1>1. InCallback /\ inside' = Left /\ UNCHANGED <<refused, succeeded, told>>
  BY DEF CallbackReturns, CallbackThrows
<1>2. PICK c \in Calls :
          /\ Cleared(loop, c) /\ c \notin refused /\ StackOf(c) /\ Outside(c)'
          /\ \/ Succeeding(c) /\ Running = <<c, "success">> /\ Settles = <<c, "then">>
             \/ Failing(c) /\ Running = <<c, "fail">> /\ Settles = <<c, "fail">>
  BY <1>1, CallbackIs
<1>3. Nothing \in Values /\ Failures \subseteq Values /\ TRUE \in BOOLEAN /\ FALSE \in BOOLEAN
  BY DEF Values
<1>4. CASE Succeeding(c) /\ Running = <<c, "success">> /\ Settles = <<c, "then">>
  <2>1. /\ Answered(c) /\ Hanging(c) /\ told[c] = <<>> /\ c \in succeeded
        /\ Answer(c) = "response" /\ c \notin DOMAIN threw
    BY <1>4 DEF Succeeding
  <2>2. CASE CallbackReturns
    <3>1. loop' = Settle(loop, <<c, "then">>, TRUE, Nothing) /\ UNCHANGED threw
      BY <1>4, <2>2 DEF CallbackReturns
    <3>2. c \notin DOMAIN threw'
      BY <2>1, <3>1
    <3>. QED
      BY <1>1, <1>2, <1>3, <1>4, <2>1, <3>1, <3>2, ThenSettles
  <2>3. CASE CallbackThrows
    <3>1. PICK v \in Failures :
              /\ loop' = Settle(loop, <<c, "then">>, FALSE, v)
              /\ threw' = [d \in DOMAIN threw \cup {c} |-> IF d = c THEN v ELSE threw[d]]
      BY <1>4, <2>3 DEF CallbackThrows
    <3>2. /\ c \in DOMAIN threw' /\ threw'[c] = v
          /\ \A d \in Calls \ {c} : /\ d \in DOMAIN threw' <=> d \in DOMAIN threw
                                    /\ d \in DOMAIN threw => threw'[d] = threw[d]
      BY <3>1
    <3>. QED
      BY <1>1, <1>2, <1>3, <1>4, <2>1, <3>1, <3>2, ThenSettles
  <2>. QED
    BY <2>2, <2>3
<1>5. CASE Failing(c) /\ Running = <<c, "fail">> /\ Settles = <<c, "fail">>
  <2>1. /\ Passed(c) /\ Status(c, "fail") = "pending"
        /\ told[c] = <<Report(Wrong(c))>> /\ c \notin NoFail
        /\ Wrong(c) \notin {Nothing, "other"}
    BY <1>5, WrongIs DEF Failing, Failures, Nothing
  <2>2. PICK ok \in BOOLEAN, v \in Values : loop' = Settle(loop, <<c, "fail">>, ok, v)
    BY <1>3, <1>5 DEF CallbackReturns, CallbackThrows
  <2>3. UNCHANGED threw
    BY <1>5 DEF CallbackReturns, CallbackThrows
  <2>. QED
    BY <1>1, <1>2, <1>5, <2>1, <2>2, <2>3, FailSettles
<1>. QED
  BY <1>2, <1>4, <1>5

\* A step of somebody else.
LEMMA StutterStep == ASSUME IInv, UNCHANGED vars PROVE IInv'
<1>1. \A c \in Calls : Untouched(c)
  BY DEF vars, Untouched, Status, Value, Reactions, At, Queued, Events
<1>2. \A c \in Calls : Stage(c)'
  BY <1>1, StageKept DEF IInv
<1>3. \A c \in Calls : Reactions(c, "fail")' = <<>>
  BY <1>1 DEF Untouched, IInv
<1>. QED
  BY <1>2, <1>3 DEF vars, IInv, TypeOK, Once, NeverInsideItself

\* Every call is at one of its stages in every execution: httpCall (NetworkService.h:62)
\* registers one reaction on each of two promises, and nothing else settles them.
THEOREM IInvHolds == Spec => []IInv
<1>1. Init => IInv
  BY InitIInv
<1>2. ASSUME IInv, [Next]_vars PROVE IInv'
  BY <1>2, StutterStep, HttpCallStep, HttpCallReturnsStep, HttpCallThrowsStep, ClientSettlesStep,
     ForwardStep, CallSuccessStep, CallFailStep, CallbackStep
  DEF Next, DeliverEvent, Return
<1>. QED
  BY <1>1, <1>2, PTL DEF Spec

---------------------------------------------------------------------------
\* NetworkService.h:73-86: onSuccess runs for a response, onFail once with what went wrong
\* after all, whenever and in whatever order calls are made and answered.
THEOREM CallbacksMatchOutcomeHolds == Spec => []CallbacksMatchOutcome
<1>1. ASSUME IInv, NEW c \in Calls, c \in refused PROVE c \notin succeeded /\ told[c] = <<>>
  BY <1>1 DEF IInv, Stage, Uncalled, Absent, NothingYet
<1>2. ASSUME IInv, NEW c \in Calls, Over(c)
      PROVE  /\ c \in succeeded <=> Answer(c) = "response"
             /\ told[c] = IF Wrong(c) \in {Nothing, "other"} \/ c \in NoFail THEN <<>>
                          ELSE <<Report(Wrong(c))>>
  <2>1. Stage(c) /\ Status(c, "fail") \in {"fulfilled", "rejected"}
    BY <1>2 DEF IInv, Over, IsSettled, IsFulfilled, IsRejected, Status
  <2>2. Finished(c)
    BY <2>1 DEF Stage, Uncalled, Calling, Absent, Awaiting, Answering, Succeeding, Judging,
                  Failing, Hanging
  <2>. QED
    BY <2>2 DEF Finished, Passed
<1>3. IInv => CallbacksMatchOutcome
  BY <1>1, <1>2 DEF CallbacksMatchOutcome
<1>. QED
  BY <1>3, IInvHolds, PTL

\* NetworkService.h:71-86: a call is on the stack once, in httpCall, in onSuccess or in
\* onFail, whatever event loops run inside its callbacks and those of other calls.
THEOREM NeverInsideItselfHolds == Spec => []NeverInsideItself
  BY IInvHolds, PTL DEF IInv
=============================================================================

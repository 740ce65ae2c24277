----------------------- MODULE InterceptorChainProofs -----------------------
(***************************************************************************)
(* That the waiting layers are the outermost ones, each once, that retries *)
(* of nested layers multiply and no more, and how often layers are told    *)
(* that the client is gone, for any chain of interceptors, any policies    *)
(* and any number of retries.                                              *)
(*                                                                         *)
(* The invariant is the tree the activations form.  Every activation hangs *)
(* from the one that called it; one that waits is the last call of a       *)
(* caller that waits for it (Waiting); and a waiting activation with a     *)
(* waiting one anywhere below it has called one that waits (Chained).  So  *)
(* what waits is a single path, and a layer that is answered, or due to    *)
(* call again, has nothing waiting below.                                  *)
(***************************************************************************)
EXTENDS InterceptorChain, FiniteSetTheorems, TLAPS

States == Pending \cup {"ok", "failed", "denied", "gone"}

Activations ==
    [layer : Layers, by : Nat, left : 0..MaxRetries,
     req : {"signed", "captured"}, state : States]

TypeOK ==
    /\ acts \in Seq(Activations)
    /\ client \in BOOLEAN
    /\ kept \subseteq Interceptors

Waits(a) == acts[a].state \in Pending

LastCall(a) == \A b \in DOMAIN acts : acts[b].by = acts[a].by => b <= a

Called ==
    \A a \in DOMAIN acts :
        /\ acts[a].by < a
        /\ acts[a].by = Caller <=> a = 1
        /\ acts[a].layer = IF a = 1 THEN 1 ELSE acts[acts[a].by].layer + 1

Waiting ==
    \A a \in DOMAIN acts :
        Waits(a) /\ a # 1 => acts[acts[a].by].state = "open" /\ LastCall(a)

Delayed ==
    \A a \in DOMAIN acts :
        acts[a].state = "delay" => Kind(acts[a].layer) = "retry" /\ acts[a].left > 0

OncePerLayer ==
    \A a, b \in DOMAIN acts :
        Waits(a) /\ Waits(b) /\ acts[a].layer = acts[b].layer => a = b

Chained ==
    \A a, b \in DOMAIN acts :
        Waits(a) /\ Waits(b) /\ acts[a].layer < acts[b].layer =>
            \E c \in Calls(a) : Waits(c)

Tree == TypeOK /\ Called /\ Waiting /\ Delayed /\ OncePerLayer /\ Chained

\* What a layer has called, and what it may still call.
Counted ==
    \A a \in DOMAIN acts :
        IF Kind(acts[a].layer) = "retry"
        THEN Cardinality(Calls(a)) = MaxRetries + 1 - acts[a].left
        ELSE Cardinality(Calls(a)) <= 1

\* A retrying layer that let an error pass had no retry left or no owner.
Excused ==
    \A a \in DOMAIN acts :
        /\ Kind(acts[a].layer) = "retry"
        /\ acts[a].state \notin Pending
        /\ acts[a].state \in Policy[acts[a].layer]
        => acts[a].left = 0 \/ ~Alive(acts[a].layer)

\* A retrying layer is settled as its last call was.
HandedOn ==
    \A a \in DOMAIN acts :
        Kind(acts[a].layer) = "retry" /\ ~Waits(a) =>
            \E b \in Calls(a) : LastCall(b) /\ acts[b].state = acts[a].state

\* Layer l was told by `a' that the client is gone.
Tells(l, a) == acts[a].layer = l + 1 /\ acts[a].state = "gone"

\* Once layer l was told that the client is gone, it will not be told again: nothing
\* waits below it, of the layers that wait none is due to call, and the last answer
\* they had or will have is no error that they retry.
Final(l) ==
    /\ \A a, b \in DOMAIN acts : Tells(l, a) /\ Tells(l, b) => a = b
    /\ (\E a \in DOMAIN acts : Tells(l, a)) =>
          \A b \in DOMAIN acts :
              /\ Waits(b) => acts[b].state = "open" /\ acts[b].layer <= l
              /\ b # 1 /\ Waits(acts[b].by) /\ LastCall(b) =>
                     acts[b].state \in Pending \cup {"gone", "ok"}

GoneIsFinal == \A l \in Interceptors : ~Persistent(l) => Final(l)

IInv == Tree /\ Counted /\ Excused /\ HandedOn /\ GoneIsFinal
USE InterceptorChainAssumption

---------------------------------------------------------------------------
(* What the actions do to the activations.                                 *)

\* The calls one next() makes: `by' calls the layer below its own, that one the
\* next, down to the terminus or to a cache that answers.
Added(made, by, new) ==
    LET first == IF by = Caller THEN 1 ELSE made[by].layer + 1
    IN  /\ new \in Seq(Activations) /\ Len(new) > Len(made)
        /\ \A a \in 1..Len(made) : new[a] = made[a]
        /\ \A a \in (Len(made) + 1)..Len(new) :
              /\ new[a].layer = first + (a - Len(made)) - 1
              /\ new[a].by = IF a = Len(made) + 1 THEN by ELSE a - 1
              /\ new[a].left = IF Kind(new[a].layer) = "retry" THEN MaxRetries ELSE 0
              /\ a # Len(new) => new[a].state = "open"
        /\ \/ Kind(new[Len(new)].layer) = "cache" /\ new[Len(new)].state = "ok"
           \/ /\ new[Len(new)].layer = Terminus
              /\ new[Len(new)].state = IF client THEN "open" ELSE "gone"

\* The call of a layer that is due to make it.
Again(a) == [acts EXCEPT ![a].state = "open", ![a].left = @ - 1]

\* What a layer is, and which are interceptors.
LEMMA KindOf ==
    ASSUME NEW l \in Layers
    PROVE  /\ Kind(l) \in Kinds \cup {"terminus"}
           /\ Kind(l) = "terminus" <=> l = Terminus
           /\ Terminus \in Nat /\ Terminus > 0 /\ Interceptors = 1..(Terminus - 1)
  BY DEF Kind, Kinds, Layers, Terminus, Interceptors

\* A call of a layer as it is recorded.
LEMMA ActivationType ==
    ASSUME NEW l \in Layers, NEW by \in Nat, NEW state \in States
    PROVE  /\ Activation(l, by, state) \in Activations
           /\ Activation(l, by, state).layer = l
           /\ Activation(l, by, state).by = by
           /\ Activation(l, by, state).left = IF Kind(l) = "retry" THEN MaxRetries ELSE 0
           /\ Activation(l, by, state).state = state
  BY DEF Activation, Activations, RequestOf

\* A sequence continued by what a function gives for 1, 2 and so on.
LEMMA Continued ==
    ASSUME NEW S, NEW s \in Seq(S), NEW k \in Nat, NEW f \in [1..k -> S]
    PROVE  /\ s \o f \in Seq(S)
           /\ Len(s \o f) = Len(s) + k
           /\ \A i \in 1..Len(s) : (s \o f)[i] = s[i]
           /\ \A i \in (Len(s) + 1)..(Len(s) + k) : (s \o f)[i] = f[i - Len(s)]
<1>1. f \in Seq(S) /\ Len(f) = k
  OBVIOUS
<1>. QED
  BY <1>1

\* Descending adds the calls that Added describes.
LEMMA DescendIs ==
    ASSUME NEW made \in Seq(Activations), NEW by \in 0..Len(made),
           by # Caller => made[by].layer \in Interceptors,
           NEW new \in Descend(made, by)
    PROVE  Added(made, by, new)
<1>. DEFINE n == Len(made)
            first == IF by = Caller THEN 1 ELSE made[by].layer + 1
            Below(last, state) ==
                [i \in 1..(last - first + 1) |->
                    Activation(first + i - 1, IF i = 1 THEN by ELSE n + i - 1,
                               IF first + i - 1 = last THEN state ELSE "open")]
<1>1. n \in Nat /\ first \in Layers /\ Terminus \in Layers
  BY DEF Terminus, Layers, Caller, Interceptors
<1>2. PICK last \in first..Terminus, state \in States :
          /\ new = made \o Below(last, state)
          /\ \/ last = Terminus /\ state = IF client THEN "open" ELSE "gone"
             \/ Kind(last) = "cache" /\ state = "ok"
  <2>1. new \in {made \o Below(Terminus, IF client THEN "open" ELSE "gone")}
                \cup {made \o Below(l, "ok") : l \in {k \in first..Len(Chain) : Chain[k] = "cache"}}
    BY DEF Descend
  <2>. HIDE DEF Below
  <2>2. Terminus \in first..Terminus /\ (IF client THEN "open" ELSE "gone") \in States
    BY <1>1 DEF States, Pending, Layers
  <2>3. ASSUME NEW l \in first..Len(Chain), Chain[l] = "cache"
        PROVE  Kind(l) = "cache" /\ l \in first..Terminus /\ "ok" \in States
    BY <1>1, <2>3 DEF Kind, Terminus, Layers, States
  <2>. HIDE DEF first
  <2>. QED
    BY <2>1, <2>2, <2>3
<1>. DEFINE k == last - first + 1
            f == Below(last, state)
<1>3. k \in Nat /\ k > 0 /\ first + k - 1 = last /\ last \in Layers
  BY <1>1, <1>2 DEF Layers
<1>4. ASSUME NEW i \in 1..k
      PROVE  /\ f[i] \in Activations
             /\ f[i].layer = first + i - 1
             /\ f[i].by = IF i = 1 THEN by ELSE n + i - 1
             /\ f[i].left = IF Kind(f[i].layer) = "retry" THEN MaxRetries ELSE 0
             /\ f[i].state = IF i = k THEN state ELSE "open"
  <2>1. first + i - 1 \in Layers /\ (first + i - 1 = last <=> i = k)
    <3>1. Terminus \in Nat /\ first \in 1..Terminus /\ last \in 1..Terminus
      BY <1>1, <1>3 DEF Layers, Terminus
    <3>. HIDE DEF first
    <3>. QED
      BY <3>1 DEF Layers
  <2>2. (IF i = 1 THEN by ELSE n + i - 1) \in Nat
    BY <1>1
  <2>3. (IF first + i - 1 = last THEN state ELSE "open") \in States
    BY DEF States, Pending
  <2>. HIDE DEF k
  <2>. QED
    BY <2>1, <2>2, <2>3, ActivationType DEF k
<1>5. f \in [1..k -> Activations]
  BY <1>4
<1>. HIDE DEF f, k
<1>6. /\ new \in Seq(Activations) /\ Len(new) = n + k
      /\ \A a \in 1..n : new[a] = made[a]
      /\ \A a \in (n + 1)..(n + k) : new[a] = f[a - n]
  <2>1. new = made \o f
    BY <1>2 DEF f
  <2>. QED
    BY <1>3, <1>5, <2>1, Continued
<1>7. ASSUME NEW a \in (n + 1)..(n + k)
      PROVE  /\ new[a] = f[a - n] /\ a - n \in 1..k
             /\ a - n = 1 <=> a = n + 1
             /\ a - n = k <=> a = n + k
             /\ n + (a - n) - 1 = a - 1
  BY <1>1, <1>3, <1>6
<1>8. new[n + k] = f[k] /\ f[k].layer = last /\ f[k].state = state
  <2>1. n + k \in (n + 1)..(n + k) /\ k \in 1..k
    BY <1>1, <1>3
  <2>. QED
    BY <1>3, <1>4, <1>6, <1>7, <2>1
<1>. HIDE DEF n, first
<1>9. ASSUME NEW a \in (n + 1)..Len(new)
      PROVE  /\ new[a].layer = first + (a - n) - 1
             /\ new[a].by = IF a = n + 1 THEN by ELSE a - 1
             /\ new[a].left = IF Kind(new[a].layer) = "retry" THEN MaxRetries ELSE 0
             /\ a # Len(new) => new[a].state = "open"
  BY <1>4, <1>6, <1>7
<1>10. /\ new \in Seq(Activations) /\ Len(new) > n
       /\ \/ Kind(new[Len(new)].layer) = "cache" /\ new[Len(new)].state = "ok"
          \/ /\ new[Len(new)].layer = Terminus
             /\ new[Len(new)].state = IF client THEN "open" ELSE "gone"
  BY <1>1, <1>2, <1>3, <1>6, <1>8
<1>. QED
  BY <1>6, <1>9, <1>10 DEF Added, n, first

\* The fields of a recorded call.
LEMMA Fields ==
    ASSUME NEW r \in Activations
    PROVE  /\ r.layer \in Layers /\ r.by \in Nat /\ r.left \in 0..MaxRetries /\ r.left \in Nat
           /\ r.state \in States
  BY DEF Activations

\* Trying again changes the call that retries only.
LEMMA AgainIs ==
    ASSUME TypeOK, Delayed, NEW a \in DOMAIN acts, acts[a].state = "delay"
    PROVE  /\ Again(a) \in Seq(Activations) /\ Len(Again(a)) = Len(acts)
           /\ a \in 1..Len(acts) /\ a # Caller
           /\ acts[a].layer \in Interceptors
           /\ \A b \in 1..Len(acts) : b # a => Again(a)[b] = acts[b]
           /\ Again(a)[a].layer = acts[a].layer /\ Again(a)[a].by = acts[a].by
           /\ Again(a)[a].left = acts[a].left - 1 /\ Again(a)[a].state = "open"
<1>1. /\ acts \in Seq(Activations) /\ a \in 1..Len(acts) /\ a # Caller
      /\ acts[a] \in Activations
  BY DEF TypeOK, Caller
<1>2. /\ acts[a].layer \in Layers /\ acts[a].left \in Nat /\ acts[a].left - 1 \in 0..MaxRetries
      /\ Kind(acts[a].layer) = "retry"
  BY <1>1, Fields DEF Delayed
<1>3. acts[a].layer \in Interceptors
  BY <1>2, KindOf DEF Layers
<1>. DEFINE one == [acts[a] EXCEPT !.state = "open", !.left = acts[a].left - 1]
<1>4. Again(a) = [acts EXCEPT ![a] = one]
  BY <1>1 DEF Again
<1>5. one \in Activations
  BY <1>1, <1>2 DEF Activations, States, Pending
<1>6. /\ one.layer = acts[a].layer /\ one.by = acts[a].by
      /\ one.left = acts[a].left - 1 /\ one.state = "open"
  BY <1>1 DEF Activations
<1>. HIDE DEF one
<1>. QED
  BY <1>1, <1>3, <1>4, <1>5, <1>6

\* The calls of Send and TryAgain, against the activations there were.
Grown(by) ==
    LET n == Len(acts)
        m == Len(acts')
    IN  /\ acts' \in Seq(Activations) /\ m > n
        /\ \A a \in 1..n : a # by => acts'[a] = acts[a]
        /\ IF by = Caller THEN n = 0 /\ client
           ELSE /\ by \in 1..n
                /\ acts[by].state = "delay" /\ acts'[by].state = "open"
                /\ acts'[by].layer = acts[by].layer /\ acts'[by].by = acts[by].by
                /\ acts'[by].left = acts[by].left - 1
                /\ Alive(acts[by].layer)
        /\ \A a \in (n + 1)..m :
              /\ acts'[a].layer = (a - n) + IF by = Caller THEN 0 ELSE acts[by].layer
              /\ acts'[a].by = IF a = n + 1 THEN by ELSE a - 1
              /\ acts'[a].left = IF Kind(acts'[a].layer) = "retry" THEN MaxRetries ELSE 0
              /\ a # m => acts'[a].state = "open"
        /\ \/ Kind(acts'[m].layer) = "cache" /\ acts'[m].state = "ok"
           \/ acts'[m].layer = Terminus /\ acts'[m].state = IF client THEN "open" ELSE "gone"

\* Sending and trying again are the steps that let layers call further layers in.
LEMMA CallsGrow ==
    ASSUME TypeOK, Delayed, Send \/ TryAgain
    PROVE  /\ UNCHANGED <<client, kept>>
           /\ \E by \in 0..Len(acts) : Grown(by)
<1>1. CASE Send
  <2>1. Added(<<>>, Caller, acts')
    <3>1. <<>> \in Seq(Activations) /\ Caller \in 0..Len(<<>>)
      BY DEF Caller
    <3>2. acts' \in Descend(<<>>, Caller)
      BY <1>1 DEF Send
    <3>. QED
      BY <3>1, <3>2, DescendIs
  <2>2. Grown(Caller)
    BY <1>1, <2>1 DEF Added, Grown, Send, Caller
  <2>. QED
    BY <1>1, <2>2 DEF Send, Caller
<1>2. CASE TryAgain
  <2>1. PICK a \in DOMAIN acts :
            acts[a].state = "delay" /\ Alive(acts[a].layer) /\ acts' \in Descend(Again(a), a)
    BY <1>2 DEF TryAgain, Again
  <2>2. /\ Again(a) \in Seq(Activations) /\ Len(Again(a)) = Len(acts)
        /\ a \in 1..Len(acts) /\ a # Caller
        /\ acts[a].layer \in Interceptors
        /\ \A b \in 1..Len(acts) : b # a => Again(a)[b] = acts[b]
        /\ Again(a)[a].layer = acts[a].layer /\ Again(a)[a].by = acts[a].by
        /\ Again(a)[a].left = acts[a].left - 1 /\ Again(a)[a].state = "open"
    BY <2>1, AgainIs
  <2>3. Added(Again(a), a, acts')
    BY <2>1, <2>2, DescendIs
  <2>4. acts[a].layer \in Nat
    BY <2>2 DEF Interceptors
  <2>5. Grown(a)
    BY <2>1, <2>2, <2>3, <2>4 DEF Added, Grown
  <2>6. a \in 0..Len(acts)
    BY <2>2 DEF TypeOK
  <2>. QED
    BY <1>2, <2>5, <2>6 DEF TryAgain
<1>. QED
  BY <1>1, <1>2

---------------------------------------------------------------------------
(* The tree.                                                               *)

\* The fields of a call in the tree.
LEMMA Typed ==
    ASSUME TypeOK, NEW a \in DOMAIN acts
    PROVE  /\ acts[a] \in Activations /\ a \in 1..Len(acts) /\ Len(acts) \in Nat
           /\ acts[a].layer \in 1..Terminus /\ acts[a].by \in Nat
           /\ acts[a].left \in 0..MaxRetries /\ acts[a].left \in Nat
           /\ acts[a].state \in States
           /\ Terminus \in Nat
<1>1. acts[a] \in Activations
  BY DEF TypeOK
<1>. QED
  BY <1>1, Fields DEF TypeOK, Layers, Terminus

\* Nothing waits below a layer that waits for its delay.
LEMMA NothingBelow ==
    ASSUME Tree, NEW a \in DOMAIN acts, acts[a].state = "delay"
    PROVE  /\ \A b \in Calls(a) : ~Waits(b)
           /\ \A b \in DOMAIN acts : Waits(b) => acts[b].layer <= acts[a].layer
<1>1. \A b \in Calls(a) : ~Waits(b)
  BY Typed DEF Tree, Called, Waiting, Calls, Caller
<1>2. Waits(a)
  BY DEF Waits, Pending
<1>. QED
  BY <1>1, <1>2, Typed DEF Tree, Chained

\* A layer that has nothing waiting below is settled, or starts to wait for its
\* delay because its policy lets the last answer pass.  It is settled as its last call
\* was, unless it mends that or is the terminus.
Settled(a, s) ==
    /\ a \in DOMAIN acts /\ Waits(a) /\ \A b \in Calls(a) : ~Waits(b)
    /\ s \in States \ {"open"}
    /\ s = "delay" => Kind(acts[a].layer) = "retry" /\ acts[a].left > 0
    /\ Kind(acts[a].layer) = "retry" /\ s # "delay" /\ s \in Policy[acts[a].layer] =>
          acts[a].left = 0 \/ ~Alive(acts[a].layer)
    /\ acts[a].layer = Terminus => s # "gone"
    /\ \/ acts[a].layer = Terminus
       \/ s = "ok" /\ Kind(acts[a].layer) = "mend"
       \/ \E b \in Calls(a) : /\ LastCall(b)
                             /\ IF s = "delay" THEN acts[b].state \in Policy[acts[a].layer]
                                ELSE acts[b].state = s
    /\ acts' = [acts EXCEPT ![a].state = s]
    /\ UNCHANGED <<client, kept>>

\* A call that can answer is the last of its caller, which waits for nothing else.
LEMMA Answering ==
    ASSUME Tree, NEW a \in DOMAIN acts, Answers(a)
    PROVE  /\ acts[a].by \in DOMAIN acts /\ a \in Calls(acts[a].by) /\ LastCall(a)
           /\ Waits(acts[a].by) /\ acts[acts[a].by].state = "open"
           /\ \A b \in Calls(acts[a].by) : ~Waits(b)
<1>1. acts[a].by \in DOMAIN acts
  BY Typed DEF Tree, Called, Answers, TypeOK, Caller
<1>2. LastCall(a) /\ a \in Calls(acts[a].by)
  BY DEF Answers, LastCall, Calls
<1>3. Waits(acts[a].by) /\ acts[acts[a].by].state = "open"
  BY DEF Answers, Waits, Pending
<1>4. ASSUME NEW b \in Calls(acts[a].by), Waits(b) PROVE FALSE
  <2>1. b \in DOMAIN acts /\ acts[b].by = acts[a].by /\ b # 1
    BY <1>1, <1>4, Typed DEF Calls, Tree, Called, Answers
  <2>2. LastCall(b)
    BY <1>4, <2>1 DEF Tree, Waiting
  <2>3. a = b
    BY <1>2, <2>1, <2>2, Typed DEF Tree, LastCall
  <2>. QED
    BY <1>4, <2>3 DEF Answers, Waits
<1>. QED
  BY <1>1, <1>2, <1>3, <1>4

\* The steps that answer or delay settle exactly one call.
LEMMA Settles ==
    ASSUME Tree, TerminusSettles \/ HandOn \/ Delay \/ GiveUp
    PROVE  \E a \in DOMAIN acts, s \in States : Settled(a, s)
<1>1. CASE TerminusSettles
  <2>1. PICK a \in Open(Terminus), s \in {"ok", "failed", "denied"} :
            acts' = [acts EXCEPT ![a].state = s]
    BY <1>1 DEF TerminusSettles
  <2>2. a \in DOMAIN acts /\ acts[a].layer = Terminus /\ Waits(a)
    BY <2>1 DEF Open, Entries, Waits
  <2>3. Kind(acts[a].layer) = "terminus"
    BY <2>2 DEF Kind
  <2>4. ASSUME NEW b \in Calls(a) PROVE FALSE
    <3>1. b \in DOMAIN acts /\ acts[b].by = a /\ a # Caller
      BY <2>2, <2>4, Typed DEF Calls, Tree, Caller
    <3>2. acts[b].layer = Terminus + 1
      BY <2>2, <3>1 DEF Tree, Called
    <3>. QED
      BY <3>1, <3>2, Typed DEF Tree
  <2>5. Settled(a, s)
    BY <1>1, <2>1, <2>2, <2>3, <2>4 DEF Settled, States, TerminusSettles
  <2>. QED
    BY <2>1, <2>2, <2>5 DEF States
<1>2. CASE HandOn
  <2>1. PICK a \in DOMAIN acts :
            /\ Answers(a) /\ ~Retries(a)
            /\ \E outcome \in {acts[a].state} \cup
                    (IF Kind(acts[acts[a].by].layer) = "mend" THEN {"ok"} ELSE {}) :
                  acts' = [acts EXCEPT ![acts[a].by].state = outcome]
    BY <1>2 DEF HandOn
  <2>2. PICK s : /\ s = acts[a].state \/ (s = "ok" /\ Kind(acts[acts[a].by].layer) = "mend")
                 /\ acts' = [acts EXCEPT ![acts[a].by].state = s]
    BY <2>1
  <2>. DEFINE up == acts[a].by
  <2>3. /\ up \in DOMAIN acts /\ a \in Calls(up) /\ LastCall(a) /\ Waits(up)
        /\ \A b \in Calls(up) : ~Waits(b)
    BY <2>1, Answering
  <2>4. s \in States \ Pending
    BY <2>1, <2>2, Typed DEF Tree, Answers, States, Pending
  <2>5. Kind(acts[up].layer) = "retry" /\ s \in Policy[acts[up].layer] =>
            acts[up].left = 0 \/ ~Alive(acts[up].layer)
    <3>1. acts[up].left \in Nat
      BY <2>3, Typed DEF Tree
    <3>. QED
      BY <2>1, <2>2, <3>1 DEF Retries
  <2>6. acts[up].layer # Terminus
    BY <2>3, Typed DEF Tree, Called, Calls, Caller
  <2>7. /\ acts' = [acts EXCEPT ![up].state = s] /\ UNCHANGED <<client, kept>>
        /\ s \in States \ {"open", "delay"}
        /\ \/ s = "ok" /\ Kind(acts[up].layer) = "mend"
           \/ LastCall(a) /\ acts[a].state = s
    BY <1>2, <2>2, <2>3, <2>4 DEF HandOn, Pending
  <2>8. Settled(up, s)
    BY <2>3, <2>5, <2>6, <2>7 DEF Settled
  <2>. QED
    BY <2>3, <2>4, <2>8
<1>3. CASE Delay
  <2>1. PICK a \in DOMAIN acts :
            /\ Answers(a) /\ Retries(a)
            /\ acts' = [acts EXCEPT ![acts[a].by].state = "delay"]
    BY <1>3 DEF Delay
  <2>. DEFINE up == acts[a].by
  <2>2. /\ up \in DOMAIN acts /\ a \in Calls(up) /\ LastCall(a) /\ Waits(up)
        /\ \A b \in Calls(up) : ~Waits(b)
        /\ Kind(acts[up].layer) = "retry" /\ acts[up].left > 0
        /\ acts[a].state \in Policy[acts[up].layer]
        /\ UNCHANGED <<client, kept>>
    BY <1>3, <2>1, Answering DEF Retries, Delay
  <2>3. acts[up].layer # Terminus /\ "delay" \in States \ {"open"}
    BY <2>2 DEF Kind, States, Pending
  <2>4. Settled(up, "delay")
    BY <2>1, <2>2, <2>3 DEF Settled
  <2>. QED
    BY <2>2, <2>3, <2>4
<1>4. CASE GiveUp
  <2>1. PICK a \in DOMAIN acts, b \in DOMAIN acts :
            /\ acts[a].state = "delay" /\ ~Alive(acts[a].layer)
            /\ b \in Calls(a) /\ \A c \in Calls(a) : c <= b
            /\ acts' = [acts EXCEPT ![a].state = acts[b].state]
    BY <1>4 DEF GiveUp
  <2>2. /\ Waits(a) /\ \A c \in Calls(a) : ~Waits(c)
        /\ Kind(acts[a].layer) = "retry" /\ acts[a].layer # Terminus
    BY <2>1, NothingBelow DEF Waits, Pending, Tree, Delayed, Kind
  <2>3. LastCall(b) /\ acts[b].state \in States \ {"open", "delay"}
    <3>1. acts[b].state \in States /\ ~Waits(b)
      BY <2>1, <2>2, Typed DEF Tree
    <3>2. LastCall(b)
      BY <2>1 DEF LastCall, Calls
    <3>. QED
      BY <3>1, <3>2 DEF Waits, Pending
  <2>4. Settled(a, acts[b].state)
    BY <1>4, <2>1, <2>2, <2>3 DEF Settled, GiveUp
  <2>. QED
    BY <2>1, <2>3, <2>4
<1>. QED
  BY <1>1, <1>2, <1>3, <1>4

\* What is left as it was when one call is settled.
LEMMA SettledIs ==
    ASSUME TypeOK, NEW a, NEW s \in States, Settled(a, s)
    PROVE  /\ a \in DOMAIN acts /\ DOMAIN acts' = DOMAIN acts
           /\ \A b \in DOMAIN acts :
                 /\ b # a => acts'[b] = acts[b]
                 /\ acts'[b].layer = acts[b].layer /\ acts'[b].by = acts[b].by
                 /\ acts'[b].left = acts[b].left
           /\ acts'[a].state = s
           /\ \A b : Calls(b)' = Calls(b)
           /\ \A b \in DOMAIN acts : LastCall(b)' <=> LastCall(b)
           /\ UNCHANGED <<client, kept>>
<1>1. /\ a \in DOMAIN acts /\ DOMAIN acts' = DOMAIN acts
      /\ \A b \in DOMAIN acts : b # a => acts'[b] = acts[b]
      /\ acts'[a].layer = acts[a].layer /\ acts'[a].by = acts[a].by
      /\ acts'[a].left = acts[a].left /\ acts'[a].state = s
  BY Typed DEF Settled, Activations
<1>2. \A b \in DOMAIN acts : acts'[b].by = acts[b].by
  BY <1>1
<1>. QED
  BY <1>1, <1>2 DEF Calls, LastCall, Settled

\* Settling a call keeps the tree.
LEMMA SettledTree ==
    ASSUME Tree, NEW a, NEW s \in States, Settled(a, s)
    PROVE  Tree'
<1>1. /\ a \in DOMAIN acts /\ Waits(a) /\ \A b \in Calls(a) : ~Waits(b)
      /\ s # "open" /\ (s = "delay" => Kind(acts[a].layer) = "retry" /\ acts[a].left > 0)
      /\ acts' = [acts EXCEPT ![a].state = s] /\ UNCHANGED <<client, kept>>
  BY DEF Settled
<1>2. /\ DOMAIN acts' = DOMAIN acts
      /\ \A b \in DOMAIN acts : b # a => acts'[b] = acts[b]
      /\ acts'[a].layer = acts[a].layer /\ acts'[a].by = acts[a].by
      /\ acts'[a].left = acts[a].left /\ acts'[a].state = s
  BY SettledIs, <1>1 DEF Tree
<1>3. TypeOK'
  <2>1. [acts[a] EXCEPT !.state = s] \in Activations
    BY <1>1, Typed DEF Tree, Activations
  <2>. QED
    BY <1>1, <2>1 DEF Tree, TypeOK
<1>4. Called'
  BY <1>1, <1>2 DEF Tree, Called
<1>5. Waiting'
  BY <1>1, <1>2 DEF Tree, Called, Waiting, Waits, LastCall, Calls
<1>6. Delayed'
  BY <1>1, <1>2 DEF Tree, Delayed
<1>7. OncePerLayer'
  BY <1>1, <1>2 DEF Tree, OncePerLayer, Waits
<1>8. Chained'
  <2>1. SUFFICES ASSUME NEW b \in DOMAIN acts, NEW c \in DOMAIN acts, Waits(b)', Waits(c)',
                        acts'[b].layer < acts'[c].layer
                 PROVE  \E d \in Calls(b)' : Waits(d)'
    BY <1>1, <1>2 DEF Chained
  <2>2. Waits(b) /\ Waits(c) /\ acts[b].layer < acts[c].layer
    BY <1>1, <1>2, <2>1 DEF Waits, Pending
  <2>3. PICK d \in Calls(b) : Waits(d)
    BY <2>2 DEF Tree, Chained
  <2>4. CASE d # a
    BY <1>2, <2>3, <2>4 DEF Calls, Waits
  <2>5. CASE d = a /\ s = "delay"
    BY <1>2, <2>3, <2>5 DEF Calls, Waits, Pending
  <2>6. CASE d = a /\ s # "delay"
    <3>1. c # a /\ acts[a].layer = acts[b].layer + 1 /\ acts[a].layer # acts[c].layer
      <4>1. c # a
        BY <1>1, <1>2, <2>1, <2>6 DEF Waits, Pending
      <4>2. acts[a].layer # acts[c].layer
        BY <1>1, <2>2, <4>1 DEF Tree, OncePerLayer
      <4>3. acts[a].layer = acts[b].layer + 1
        BY <2>3, <2>6, Typed DEF Tree, Called, Calls, Caller
      <4>. QED
        BY <4>1, <4>2, <4>3
    <3>2. acts[a].layer < acts[c].layer
      BY <1>1, <2>2, <3>1, Typed DEF Tree
    <3>. QED
      BY <1>1, <2>2, <3>2 DEF Tree, Chained
  <2>. QED
    BY <2>4, <2>5, <2>6
<1>. QED
  BY <1>3, <1>4, <1>5, <1>6, <1>7, <1>8 DEF Tree

\* What the tree looks like after it has grown.
LEMMA GrownIs ==
    ASSUME Tree, NEW by \in 0..Len(acts), Grown(by)
    PROVE  LET n == Len(acts)
               m == Len(acts')
           IN  /\ n \in Nat /\ m \in Nat /\ n < m /\ DOMAIN acts = 1..n /\ DOMAIN acts' = 1..m
               /\ by = Caller => n = 0
               /\ by # Caller => /\ by \in 1..n /\ acts[by].state = "delay" /\ Waits(by)
                                 /\ acts'[by].state = "open"
               /\ \A b \in 1..n :
                     /\ acts'[b].layer = acts[b].layer /\ acts'[b].by = acts[b].by
                     /\ b # by => acts'[b] = acts[b]
                     /\ acts'[b].state \in Pending <=> Waits(b)
                     /\ acts[b].by < b /\ acts[b].by \in Nat
               /\ \A b \in (n + 1)..m :
                     /\ acts'[b].by = IF b = n + 1 THEN by ELSE b - 1
                     /\ acts'[b].left = IF Kind(acts'[b].layer) = "retry" THEN MaxRetries ELSE 0
                     /\ by # Caller => acts'[b].layer = (b - n) + acts[by].layer
                     /\ b # m => acts'[b].state = "open"
               /\ Kind(acts'[m].layer) \in {"cache", "terminus"}
               /\ acts'[m].state \in {"ok", "open", "gone"}
               /\ acts'[m].state = "gone" => acts'[m].layer = Terminus
<1>1. \A b \in DOMAIN acts : acts[b].by < b /\ acts[b].by \in Nat
  BY Typed DEF Tree, Called
<1>2. \A b \in 1..Len(acts) :
          /\ acts'[b].layer = acts[b].layer /\ acts'[b].by = acts[b].by
          /\ b # by => acts'[b] = acts[b]
          /\ acts'[b].state \in Pending <=> Waits(b)
  BY DEF Grown, Waits, Pending, Caller
<1>3. /\ Len(acts) \in Nat /\ Len(acts') \in Nat /\ Len(acts) < Len(acts')
      /\ DOMAIN acts = 1..Len(acts) /\ DOMAIN acts' = 1..Len(acts')
      /\ by = Caller => Len(acts) = 0
      /\ by # Caller => /\ by \in 1..Len(acts) /\ acts[by].state = "delay"
                        /\ acts'[by].state = "open"
  BY DEF Grown, Tree, TypeOK
<1>4. \A b \in (Len(acts) + 1)..Len(acts') :
          /\ acts'[b].by = IF b = Len(acts) + 1 THEN by ELSE b - 1
          /\ acts'[b].left = IF Kind(acts'[b].layer) = "retry" THEN MaxRetries ELSE 0
          /\ by # Caller => acts'[b].layer = (b - Len(acts)) + acts[by].layer
          /\ b # Len(acts') => acts'[b].state = "open"
  BY DEF Grown
<1>5. /\ Kind(acts'[Len(acts')].layer) \in {"cache", "terminus"}
      /\ acts'[Len(acts')].state \in {"ok", "open", "gone"}
      /\ acts'[Len(acts')].state = "gone" => acts'[Len(acts')].layer = Terminus
  BY DEF Grown, Kind
<1>. QED
  BY <1>1, <1>2, <1>3, <1>4, <1>5 DEF Waits, Pending

\* A layer that calls, and everything below that is called with it, stays one path.
LEMMA GrownTree ==
    ASSUME Tree, NEW by \in 0..Len(acts), Grown(by), UNCHANGED <<client, kept>>
    PROVE  Tree'
<1>. DEFINE n == Len(acts)
            m == Len(acts')
            top == IF by = Caller THEN 0 ELSE acts[by].layer
<1>1. /\ n \in Nat /\ m \in Nat /\ n < m /\ DOMAIN acts = 1..n /\ DOMAIN acts' = 1..m
      /\ by \in 0..n
      /\ by # Caller => by \in 1..n /\ acts[by].state = "delay" /\ acts'[by].state = "open"
      /\ by = Caller => n = 0
      /\ acts' \in Seq(Activations)
  BY DEF Grown, Tree, TypeOK, Caller
<1>2. /\ top \in 0..Terminus /\ Terminus \in Nat
      /\ by # Caller => top = acts[by].layer
  BY <1>1, Typed DEF Tree, TypeOK, Terminus
<1>3. ASSUME NEW a \in 1..n
      PROVE  /\ acts'[a].layer = acts[a].layer /\ acts'[a].by = acts[a].by
             /\ a # by => acts'[a] = acts[a]
             /\ Waits(a) <=> Waits(a)'
             /\ Waits(a)' => acts[a].layer <= top
  BY <1>1, <1>2, NothingBelow DEF Grown, Waits, Pending, Caller
<1>4. ASSUME NEW a \in (n + 1)..m
      PROVE  /\ acts'[a].layer = (a - n) + top
             /\ acts'[a].by = IF a = n + 1 THEN by ELSE a - 1
             /\ a # m => acts'[a].state = "open"
             /\ acts'[a].state # "delay"
  BY <1>1 DEF Grown
<1>5. by # Caller => Waits(by) /\ \A b \in 1..n : acts[b].by = by => ~Waits(b)
  BY <1>1, NothingBelow DEF Waits, Pending, Calls
<1>6. \A a \in 1..n : acts[a].by < a /\ acts[a].by \in Nat
  BY <1>1, Typed DEF Tree, Called
<1>. HIDE DEF n, m, top
<1>7. Called'
  <2>1. ASSUME NEW a \in 1..n
        PROVE  /\ acts'[a].by < a
               /\ acts'[a].by = Caller <=> a = 1
               /\ acts'[a].layer = IF a = 1 THEN 1 ELSE acts'[acts'[a].by].layer + 1
    <3>1. /\ acts[a].by < a /\ (acts[a].by = Caller <=> a = 1) /\ acts[a].by \in Nat
          /\ acts[a].layer = IF a = 1 THEN 1 ELSE acts[acts[a].by].layer + 1
      BY <1>1, <1>6 DEF Tree, Called, n
    <3>2. a # 1 => acts[a].by \in 1..n
      BY <1>1, <3>1 DEF Caller
    <3>. QED
      BY <1>3, <3>1, <3>2
  <2>2. ASSUME NEW a \in (n + 1)..m
        PROVE  /\ acts'[a].by < a
               /\ acts'[a].by = Caller <=> a = 1
               /\ acts'[a].layer = IF a = 1 THEN 1 ELSE acts'[acts'[a].by].layer + 1
    <3>1. CASE a = n + 1 /\ by = Caller
      BY <1>1, <1>4, <3>1 DEF Caller, top
    <3>2. CASE a = n + 1 /\ by # Caller
      BY <1>1, <1>2, <1>3, <1>4, <3>2 DEF Caller
    <3>3. CASE a # n + 1
      <4>1. a - 1 \in (n + 1)..m /\ a # 1 /\ acts'[a].by = a - 1
        BY <1>1, <1>4, <3>3
      <4>2. acts'[a].layer = acts'[a - 1].layer + 1
        BY <1>1, <1>2, <1>4, <4>1
      <4>. QED
        BY <1>1, <4>1, <4>2 DEF Caller
    <3>. QED
      BY <3>1, <3>2, <3>3
  <2>. QED
    BY <1>1, <2>1, <2>2 DEF Called
<1>8. Waiting'
  <2>1. SUFFICES ASSUME NEW b \in 1..m, Waits(b)', b # 1
                 PROVE  acts'[acts'[b].by].state = "open" /\ LastCall(b)'
    BY <1>1 DEF Waiting
  <2>2. CASE b \in 1..n
    <3>1. /\ acts[b].by # by /\ acts[b].by \in 1..n
          /\ acts[acts[b].by].state = "open" /\ LastCall(b)
      BY <1>1, <1>3, <1>5, <1>6, <2>1, <2>2 DEF Tree, Waiting, Called, Caller
    <3>2. acts'[acts'[b].by].state = "open"
      BY <1>3, <2>2, <3>1
    <3>3. ASSUME NEW c \in 1..m, acts'[c].by = acts'[b].by PROVE c <= b
      <4>1. CASE c \in 1..n
        BY <1>1, <1>3, <2>2, <3>1, <3>3, <4>1 DEF LastCall
      <4>2. CASE c \in (n + 1)..m
        BY <1>1, <1>3, <1>4, <2>2, <3>1, <3>3, <4>2
      <4>. QED
        BY <1>1, <4>1, <4>2
    <3>. QED
      BY <1>1, <3>2, <3>3 DEF LastCall
  <2>3. CASE b \in (n + 1)..m
    <3>1. acts'[acts'[b].by].state = "open"
      BY <1>1, <1>4, <2>1, <2>3
    <3>2. ASSUME NEW c \in 1..m, acts'[c].by = acts'[b].by PROVE c <= b
      <4>1. CASE c \in 1..n
        BY <1>1, <2>3, <4>1
      <4>2. CASE c \in (n + 1)..m
        <5>1. acts'[c].by = IF c = n + 1 THEN by ELSE c - 1
          BY <1>4, <4>2
        <5>2. acts'[b].by = IF b = n + 1 THEN by ELSE b - 1
          BY <1>4, <2>3
        <5>3. n \in Nat /\ m \in Nat /\ by \in 0..n
          BY <1>1
        <5>4. (IF c = n + 1 THEN by ELSE c - 1) = (IF b = n + 1 THEN by ELSE b - 1)
          BY <3>2, <5>1, <5>2
        <5>. QED
          BY <2>3, <4>2, <5>3, <5>4
      <4>. QED
        BY <1>1, <4>1, <4>2
    <3>. QED
      BY <1>1, <3>1, <3>2 DEF LastCall
  <2>. QED
    BY <1>1, <2>2, <2>3
<1>9. Delayed'
  BY <1>1, <1>3, <1>4 DEF Tree, Delayed
<1>10. OncePerLayer'
  <2>1. SUFFICES ASSUME NEW a \in 1..m, NEW b \in 1..m, Waits(a)', Waits(b)',
                        acts'[a].layer = acts'[b].layer
                 PROVE  a = b
    BY <1>1 DEF OncePerLayer
  <2>2. \A c \in 1..n : acts[c].layer \in Nat
    BY <1>1, Typed DEF Tree
  <2>3. CASE a \in 1..n /\ b \in 1..n
    BY <1>1, <1>3, <2>1, <2>3 DEF Tree, OncePerLayer
  <2>4. CASE ~(a \in 1..n /\ b \in 1..n)
    BY <1>1, <1>2, <1>3, <1>4, <2>1, <2>2, <2>4
  <2>. QED
    BY <2>3, <2>4
<1>11. Chained'
  <2>1. SUFFICES ASSUME NEW a \in 1..m, NEW b \in 1..m, Waits(a)', Waits(b)',
                        acts'[a].layer < acts'[b].layer
                 PROVE  \E c \in 1..m : acts'[c].by = a /\ acts'[c].state \in Pending
    BY <1>1 DEF Chained, Calls, Waits
  <2>2. \A c \in 1..n : acts[c].layer \in Nat
    BY <1>1, Typed DEF Tree
  <2>3. \A c \in (n + 1)..m : c # m => acts'[c].state \in Pending
    BY <1>4 DEF Pending
  <2>4. ASSUME NEW d \in 1..n, a \in 1..n, Waits(d), acts[a].layer < acts[d].layer
        PROVE  \E c \in 1..m : acts'[c].by = a /\ acts'[c].state \in Pending
    <3>1. PICK c \in Calls(a) : Waits(c)
      BY <1>1, <1>3, <2>1, <2>4 DEF Tree, Chained
    <3>2. c \in 1..n /\ acts[c].by = a
      BY <1>1 DEF Calls
    <3>. QED
      BY <1>1, <1>3, <3>1, <3>2 DEF Waits
  <2>5. CASE a \in 1..n /\ b \in 1..n
    BY <1>3, <2>1, <2>4, <2>5
  <2>6. CASE a \in 1..n /\ b \in (n + 1)..m /\ a = by
    <3>1. n + 1 \in (n + 1)..m /\ n + 1 \in 1..m /\ acts'[n + 1].by = a
      BY <1>1, <1>4, <2>6
    <3>2. acts'[n + 1].state \in Pending
      BY <1>1, <2>1, <2>3, <2>6, <3>1 DEF Waits
    <3>. QED
      BY <3>1, <3>2
  <2>7. CASE a \in 1..n /\ b \in (n + 1)..m /\ a # by
    <3>1. by # Caller /\ by \in 1..n /\ Waits(by) /\ Waits(a)
      BY <1>1, <1>3, <1>5, <2>1, <2>7
    <3>2. acts[a].layer # acts[by].layer /\ acts[a].layer <= acts[by].layer
      BY <1>1, <1>2, <1>3, <2>1, <2>7, <3>1 DEF Tree, OncePerLayer
    <3>. QED
      BY <2>2, <2>4, <2>7, <3>1, <3>2
  <2>8. CASE a \in (n + 1)..m
    <3>1. b \in (n + 1)..m /\ a < b
      BY <1>1, <1>2, <1>3, <1>4, <2>1, <2>2, <2>8
    <3>2. a + 1 \in (n + 1)..m /\ a + 1 \in 1..m /\ acts'[a + 1].by = a
      BY <1>1, <1>4, <2>8, <3>1
    <3>3. acts'[a + 1].state \in Pending
      BY <1>1, <2>1, <2>3, <2>8, <3>1, <3>2 DEF Waits
    <3>. QED
      BY <3>2, <3>3
  <2>. QED
    BY <1>1, <2>5, <2>6, <2>7, <2>8
<1>. QED
  BY <1>1, <1>7, <1>8, <1>9, <1>10, <1>11 DEF Tree, TypeOK

\* A step lets layers call, settles one, lets go of owners, or changes nothing.
LettingGo ==
    UNCHANGED acts /\ (client' => client) /\ client' \in BOOLEAN /\ kept' \subseteq kept

\* There are no other steps.
LEMMA Steps ==
    ASSUME Tree, [Next]_vars
    PROVE  \/ \E by \in 0..Len(acts) : Grown(by) /\ UNCHANGED <<client, kept>>
           \/ \E a \in DOMAIN acts, s \in States : Settled(a, s)
           \/ LettingGo
<1>1. CASE Send \/ TryAgain
  BY <1>1, CallsGrow DEF Tree
<1>2. CASE TerminusSettles \/ HandOn \/ Delay \/ GiveUp
  BY <1>2, Settles
<1>3. CASE DestroyClient \/ (\E l \in Interceptors : Drop(l)) \/ UNCHANGED vars
  BY <1>3 DEF DestroyClient, Drop, vars, LettingGo, Tree, TypeOK
<1>. QED
  BY <1>1, <1>2, <1>3 DEF Next, Progress

\* No call was made yet.
LEMMA InitTree == Init => Tree
  BY DEF Init, Tree, TypeOK, Called, Waiting, Delayed, OncePerLayer, Chained, Interceptors

\* Every step keeps the tree.
LEMMA TreeStep == Tree /\ [Next]_vars => Tree'
<1>1. ASSUME Tree, LettingGo PROVE Tree'
  BY <1>1 DEF LettingGo, Tree, TypeOK, Called, Waiting, Delayed, OncePerLayer, Chained,
              Waits, LastCall, Calls
<1>. QED
  BY <1>1, Steps, GrownTree, SettledTree

\* The calls of the layers form a tree in every execution (executeWithInterceptors,
\* NetworkClient.cpp:34): each was made by a layer further out that waits for its last call.
THEOREM TreeHolds == Spec => []Tree
  BY InitTree, TreeStep, PTL DEF Spec

---------------------------------------------------------------------------
(* What a layer has called.                                                *)

\* A call has made finitely many.
LEMMA CallsFinite ==
    ASSUME TypeOK, NEW a
    PROVE  IsFiniteSet(Calls(a)) /\ Cardinality(Calls(a)) \in Nat
<1>1. IsFiniteSet(1..Len(acts))
  BY FS_Interval DEF TypeOK
<1>2. Calls(a) \subseteq 1..Len(acts)
  BY DEF Calls, TypeOK
<1>. QED
  BY <1>1, <1>2, FS_Subset, FS_CardinalityType

\* Every step keeps the count of attempts.
LEMMA CountedStep == Tree /\ Counted /\ [Next]_vars => Counted'
<1>. SUFFICES ASSUME Tree, Counted, [Next]_vars PROVE Counted'
  OBVIOUS
<1>1. ASSUME NEW by \in 0..Len(acts), Grown(by) PROVE Counted'
  <2>. DEFINE n == Len(acts)
              m == Len(acts')
  <2>1. /\ n \in Nat /\ m \in Nat /\ n < m /\ DOMAIN acts = 1..n /\ DOMAIN acts' = 1..m
        /\ by \in 0..n /\ (by = Caller => n = 0) /\ (by # Caller => by \in 1..n)
        /\ \A b \in 1..n :
              /\ acts'[b].layer = acts[b].layer /\ acts'[b].by = acts[b].by
              /\ b # by => acts'[b] = acts[b]
              /\ acts[b].by < b /\ acts[b].by \in Nat
        /\ \A b \in (n + 1)..m :
              /\ acts'[b].by = IF b = n + 1 THEN by ELSE b - 1
              /\ acts'[b].left = IF Kind(acts'[b].layer) = "retry" THEN MaxRetries ELSE 0
        /\ Kind(acts'[m].layer) # "retry"
        /\ by # Caller => acts[by].state = "delay"
    BY <1>1, GrownIs
  <2>2. by # Caller => acts'[by].left = acts[by].left - 1
    BY <1>1 DEF Grown
  <2>3. ASSUME NEW b \in 1..n, b # by
        PROVE  {c \in 1..m : acts'[c].by = b} = {c \in 1..n : acts[c].by = b}
    <3>1. ASSUME NEW c \in (n + 1)..m PROVE acts'[c].by # b
      BY <2>1, <2>3
    <3>2. \A c \in 1..m : c \in 1..n \/ c \in (n + 1)..m
      BY <2>1
    <3>. QED
      BY <2>1, <3>1, <3>2
  <2>4. ASSUME by # Caller
        PROVE  {c \in 1..m : acts'[c].by = by} = {c \in 1..n : acts[c].by = by} \cup {n + 1}
    <3>1. ASSUME NEW c \in (n + 1)..m PROVE acts'[c].by = by <=> c = n + 1
      BY <2>1, <2>4
    <3>2. (\A c \in 1..m : c \in 1..n \/ c \in (n + 1)..m) /\ n + 1 \in (n + 1)..m
      BY <2>1
    <3>. QED
      BY <2>1, <3>1, <3>2
  <2>5. ASSUME NEW b \in (n + 1)..m
        PROVE  {c \in 1..m : acts'[c].by = b} = IF b = m THEN {} ELSE {b + 1}
    <3>1. ASSUME NEW c \in (n + 1)..m PROVE acts'[c].by = b <=> c = b + 1
      <4>1. acts'[c].by = IF c = n + 1 THEN by ELSE c - 1
        BY <2>1
      <4>2. n \in Nat /\ m \in Nat /\ by \in 0..n
        BY <2>1
      <4>. QED
        BY <2>5, <4>1, <4>2
    <3>2. ASSUME NEW c \in 1..n PROVE acts'[c].by # b
      BY <2>1, <2>5
    <3>3. \A c \in 1..m : acts'[c].by = b <=> c = b + 1
      BY <2>1, <2>5, <3>1, <3>2
    <3>4. n \in Nat /\ m \in Nat
      BY <2>1
    <3>5. CASE b = m
      BY <2>5, <3>3, <3>4, <3>5
    <3>6. CASE b # m
      <4>1. b + 1 \in 1..m
        BY <2>5, <3>4, <3>6
      <4>. QED
        BY <3>3, <3>6, <4>1
    <3>. QED
      BY <3>5, <3>6
  <2>6. SUFFICES ASSUME NEW b \in 1..m
                 PROVE  IF Kind(acts'[b].layer) = "retry"
                        THEN Cardinality({c \in 1..m : acts'[c].by = b})
                                = MaxRetries + 1 - acts'[b].left
                        ELSE Cardinality({c \in 1..m : acts'[c].by = b}) <= 1
    BY <2>1 DEF Counted, Calls
  <2>7. CASE b \in 1..n /\ b # by
    <3>1. {c \in 1..m : acts'[c].by = b} = Calls(b)
      BY <2>1, <2>3, <2>7 DEF Calls
    <3>. QED
      BY <2>1, <2>7, <3>1 DEF Counted
  <2>8. CASE b \in 1..n /\ b = by
    <3>1. /\ by # Caller /\ Kind(acts[by].layer) = "retry"
          /\ acts[by].left \in Nat /\ Cardinality(Calls(by)) = MaxRetries + 1 - acts[by].left
      <4>1. by # Caller /\ by \in DOMAIN acts /\ acts[by].state = "delay"
        BY <2>1, <2>8 DEF Caller
      <4>. QED
        BY <4>1, Typed DEF Counted, Tree, Delayed
    <3>2. {c \in 1..m : acts'[c].by = b} = Calls(by) \cup {n + 1} /\ n + 1 \notin Calls(by)
      BY <2>1, <2>4, <2>8, <3>1 DEF Calls
    <3>3. Cardinality({c \in 1..m : acts'[c].by = b}) = Cardinality(Calls(by)) + 1
      BY <3>2, CallsFinite, FS_AddElement DEF Tree
    <3>4. Kind(acts'[b].layer) = "retry" /\ acts'[b].left = acts[by].left - 1
      BY <2>1, <2>2, <2>8, <3>1
    <3>. QED
      BY <3>1, <3>3, <3>4
  <2>9. CASE b \in (n + 1)..m
    <3>1. CASE b = m
      <4>1. {c \in 1..m : acts'[c].by = b} = {}
        BY <2>5, <2>9, <3>1
      <4>2. Cardinality({c \in 1..m : acts'[c].by = b}) = 0
        BY <4>1, FS_EmptySet
      <4>. QED
        BY <2>1, <3>1, <4>2
    <3>2. CASE b # m
      <4>1. {c \in 1..m : acts'[c].by = b} = {b + 1}
        BY <2>5, <2>9, <3>2
      <4>2. Cardinality({c \in 1..m : acts'[c].by = b}) = 1
        BY <4>1, FS_Singleton
      <4>. QED
        BY <2>1, <2>9, <4>2
    <3>. QED
      BY <3>1, <3>2
  <2>. QED
    BY <2>1, <2>7, <2>8, <2>9
<1>2. ASSUME NEW a, NEW s \in States, Settled(a, s) PROVE Counted'
  BY <1>2, SettledIs DEF Tree, Counted
<1>3. CASE LettingGo
  BY <1>3 DEF LettingGo, Counted, Calls
<1>. QED
  BY <1>1, <1>2, <1>3, Steps

---------------------------------------------------------------------------
(* Owners.                                                                 *)

\* Who has no owner gets none again: nobody above it can be made to wait anew.
LEMMA DeadForGood ==
    ASSUME Tree, [Next]_vars, acts # <<>>, NEW l \in Layers, ~Alive(l)
    PROVE  ~Alive(l)'
<1>1. SUFFICES ASSUME NEW k \in 1..(l - 1), Kind(k) = "retry", NEW b \in DOMAIN acts',
                      acts'[b].layer = k, Waits(b)', (client' => client) /\ kept' \subseteq kept
               PROVE  FALSE
  <2>1. (client' => client) /\ kept' \subseteq kept
    BY Steps DEF Settled, LettingGo
  <2>. QED
    BY <2>1 DEF Alive, Open, Entries, Waits
<1>2. ~\E c \in DOMAIN acts : Waits(c) /\ acts[c].layer = k
  BY <1>1 DEF Alive, Open, Entries, Waits
<1>3. ASSUME NEW by \in 0..Len(acts), Grown(by) PROVE FALSE
  <2>1. /\ by \in 1..Len(acts) /\ acts[by].state = "delay"
        /\ DOMAIN acts = 1..Len(acts) /\ DOMAIN acts' = 1..Len(acts')
        /\ Len(acts) \in Nat /\ Len(acts') \in Nat
        /\ \A c \in 1..Len(acts) :
              acts'[c].layer = acts[c].layer /\ (acts'[c].state \in Pending <=> Waits(c))
        /\ \A c \in (Len(acts) + 1)..Len(acts') :
              acts'[c].layer = (c - Len(acts)) + acts[by].layer
    <3>1. Len(acts) # 0
      BY DEF Tree, TypeOK
    <3>2. by # Caller
      BY <1>3, <3>1, GrownIs
    <3>. QED
      BY <1>3, <3>2, GrownIs
  <2>2. acts[by].layer >= l
    <3>1. Kind(acts[by].layer) = "retry" /\ by \in Open(acts[by].layer)
      BY <2>1 DEF Tree, Delayed, Open, Entries, Pending
    <3>2. acts[by].layer \in Nat /\ acts[by].layer > 0 /\ l \in Nat
      BY <2>1, Typed DEF Tree, Layers
    <3>3. acts[by].layer \notin 1..(l - 1)
      BY <3>1 DEF Alive
    <3>. QED
      BY <3>2, <3>3
  <2>3. CASE b \in 1..Len(acts)
    BY <1>1, <1>2, <2>1, <2>3 DEF Waits
  <2>4. CASE b \in (Len(acts) + 1)..Len(acts')
    <3>1. acts'[b].layer = (b - Len(acts)) + acts[by].layer /\ acts[by].layer \in Nat
      BY <2>1, <2>4, Typed DEF Tree
    <3>. QED
      BY <1>1, <2>1, <2>2, <2>4, <3>1 DEF Layers
  <2>. QED
    BY <1>1, <2>1, <2>3, <2>4
<1>4. ASSUME NEW a, NEW s \in States, Settled(a, s) PROVE FALSE
  BY <1>1, <1>2, <1>4, SettledIs DEF Tree, Waits, Settled
<1>5. CASE LettingGo
  BY <1>1, <1>2, <1>5 DEF LettingGo, Waits
<1>. QED
  BY <1>3, <1>4, <1>5, Steps

\* Every step keeps it true that a retry which failed had a reason to give up.
LEMMA ExcusedStep == Tree /\ Excused /\ [Next]_vars => Excused'
<1>. SUFFICES ASSUME Tree, Excused, [Next]_vars PROVE Excused'
  OBVIOUS
<1>1. SUFFICES ASSUME NEW a \in DOMAIN acts', Kind(acts'[a].layer) = "retry",
                      acts'[a].state \notin Pending, acts'[a].state \in Policy[acts'[a].layer]
               PROVE  acts'[a].left = 0 \/ ~Alive(acts[a].layer)'
  BY DEF Excused
<1>2. ASSUME a \in DOMAIN acts, acts'[a].layer = acts[a].layer, ~Alive(acts[a].layer)
      PROVE  ~Alive(acts[a].layer)'
  <2>1. acts # <<>> /\ acts[a].layer \in Layers
    BY <1>2, Typed DEF Tree, Layers
  <2>2. PICK k \in Layers : k = acts[a].layer
    BY <2>1
  <2>3. ~Alive(k)'
    BY <1>2, <2>1, <2>2, DeadForGood
  <2>. QED
    BY <1>2, <2>2, <2>3
<1>3. ASSUME NEW by \in 0..Len(acts), Grown(by) PROVE a \in DOMAIN acts /\ acts'[a] = acts[a]
  <2>1. /\ a \in 1..Len(acts') /\ Len(acts) \in Nat /\ Len(acts') \in Nat
        /\ DOMAIN acts = 1..Len(acts)
        /\ \A b \in (Len(acts) + 1)..Len(acts') : b # Len(acts') => acts'[b].state = "open"
        /\ Kind(acts'[Len(acts')].layer) \in {"cache", "terminus"}
    BY <1>3, GrownIs
  <2>2. a \in 1..Len(acts)
    BY <1>1, <2>1 DEF Pending
  <2>3. \A b \in 1..Len(acts) : b # by => acts'[b] = acts[b]
    BY <1>3, GrownIs
  <2>4. by # Caller => acts'[by].state = "open"
    BY <1>3, GrownIs
  <2>. QED
    BY <1>1, <2>1, <2>2, <2>3, <2>4 DEF Pending, Caller
<1>4. ASSUME NEW b, NEW s \in States, Settled(b, s)
      PROVE  acts'[a].left = 0 \/ ~Alive(acts[a].layer)'
  <2>1. /\ a \in DOMAIN acts /\ acts'[a].layer = acts[a].layer /\ acts'[a].left = acts[a].left
        /\ b # a => acts'[a] = acts[a]
        /\ acts'[b].state = s
    BY <1>1, <1>4, SettledIs DEF Tree
  <2>2. acts[a].left = 0 \/ ~Alive(acts[a].layer)
    BY <1>1, <1>4, <2>1 DEF Settled, Excused, Pending
  <2>. QED
    BY <1>2, <2>1, <2>2
<1>5. CASE LettingGo
  BY <1>1, <1>2, <1>5 DEF LettingGo, Excused
<1>. QED
  BY <1>1, <1>2, <1>3, <1>4, <1>5, Steps DEF Excused

\* Every step keeps it true that a retrying layer was settled as its last call was.
LEMMA HandedOnStep == Tree /\ HandedOn /\ [Next]_vars => HandedOn'
<1>. SUFFICES ASSUME Tree, HandedOn, [Next]_vars PROVE HandedOn'
  OBVIOUS
<1>1. ASSUME NEW by \in 0..Len(acts), Grown(by) PROVE HandedOn'
  <2>. DEFINE n == Len(acts)
              m == Len(acts')
  <2>1. /\ n \in Nat /\ m \in Nat /\ n < m /\ DOMAIN acts = 1..n /\ DOMAIN acts' = 1..m
        /\ by \in 0..n
        /\ by # Caller => by \in 1..n /\ Waits(by) /\ acts'[by].state = "open"
        /\ \A b \in 1..n : acts'[b].by = acts[b].by /\ (b # by => acts'[b] = acts[b])
        /\ \A b \in (n + 1)..m :
              /\ acts'[b].by = IF b = n + 1 THEN by ELSE b - 1
              /\ b # m => acts'[b].state = "open"
        /\ Kind(acts'[m].layer) \in {"cache", "terminus"}
    BY <1>1, GrownIs
  <2>. HIDE DEF n, m
  <2>2. SUFFICES ASSUME NEW a \in 1..m, Kind(acts'[a].layer) = "retry", acts'[a].state \notin Pending
                 PROVE  \E b \in 1..m : /\ acts'[b].by = a /\ acts'[b].state = acts'[a].state
                                        /\ \A c \in 1..m : acts'[c].by = acts'[b].by => c <= b
    BY <2>1 DEF HandedOn, Calls, LastCall, Waits
  <2>3. a \in 1..n /\ a # by /\ ~Waits(a) /\ acts'[a] = acts[a]
    <3>1. a \in 1..n
      BY <2>1, <2>2 DEF Pending
    <3>2. a # by
      BY <2>1, <2>2, <3>1 DEF Pending, Caller
    <3>. QED
      BY <2>1, <2>2, <3>1, <3>2 DEF Waits
  <2>4. PICK b \in 1..n : /\ acts[b].by = a /\ acts[b].state = acts[a].state
                          /\ \A c \in 1..n : acts[c].by = acts[b].by => c <= b
    BY <2>1, <2>2, <2>3 DEF HandedOn, Calls, LastCall
  <2>5. acts'[b] = acts[b]
    <3>1. ~Waits(b)
      BY <2>3, <2>4 DEF Waits
    <3>. QED
      BY <2>1, <2>4, <3>1 DEF Caller
  <2>6. ASSUME NEW c \in 1..m, acts'[c].by = a PROVE c <= b
    <3>1. c \in 1..n
      BY <2>1, <2>3, <2>6
    <3>. QED
      BY <2>1, <2>4, <2>6, <3>1
  <2>7. b \in 1..m
    BY <2>1
  <2>. QED
    BY <2>3, <2>4, <2>5, <2>6, <2>7
<1>2. ASSUME NEW d, NEW s \in States, Settled(d, s) PROVE HandedOn'
  <2>1. /\ d \in DOMAIN acts /\ DOMAIN acts' = DOMAIN acts /\ Waits(d) /\ acts'[d].state = s
        /\ \A b \in DOMAIN acts :
              /\ b # d => acts'[b] = acts[b]
              /\ acts'[b].layer = acts[b].layer
        /\ \A b : Calls(b)' = Calls(b)
        /\ \A b \in DOMAIN acts : LastCall(b)' <=> LastCall(b)
        /\ \A b \in Calls(d) : ~Waits(b)
    BY <1>2, SettledIs DEF Tree, Settled
  <2>2. SUFFICES ASSUME NEW a \in DOMAIN acts, Kind(acts[a].layer) = "retry", ~Waits(a)'
                 PROVE  \E b \in Calls(a) : LastCall(b) /\ (acts[b].state = acts[a].state)'
    BY <2>1 DEF HandedOn, Calls
  <2>3. CASE a # d
    <3>1. PICK b \in Calls(a) : LastCall(b) /\ acts[b].state = acts[a].state
      BY <2>1, <2>2, <2>3 DEF HandedOn, Waits
    <3>2. b \in DOMAIN acts /\ b # d
      BY <2>1, <2>2, <2>3, <3>1 DEF Calls, Waits
    <3>. QED
      BY <2>1, <2>3, <3>1, <3>2
  <2>4. CASE a = d
    <3>1. s # "delay" /\ Kind(acts[d].layer) # "mend" /\ acts[d].layer # Terminus
      BY <2>1, <2>2, <2>4 DEF Waits, Pending, Kind
    <3>2. PICK b \in Calls(d) : LastCall(b) /\ acts[b].state = s
      BY <1>2, <3>1 DEF Settled
    <3>3. b \in DOMAIN acts /\ b # d
      BY <2>1, <3>2 DEF Calls
    <3>. QED
      BY <2>1, <2>4, <3>2, <3>3
  <2>. QED
    BY <2>3, <2>4
<1>3. CASE LettingGo
  BY <1>3 DEF LettingGo, HandedOn, Calls, LastCall, Waits
<1>. QED
  BY <1>1, <1>2, <1>3, Steps

---------------------------------------------------------------------------
(* A client that is gone.                                                  *)

\* When a layer is due to call again, every other layer that waits has just called.
LEMMA OthersCall ==
    ASSUME Tree, NEW a \in DOMAIN acts, acts[a].state = "delay",
           NEW b \in DOMAIN acts, Waits(b), b # a
    PROVE  /\ acts[b].state = "open" /\ acts[b].layer # Terminus
           /\ \E c \in Calls(b) : Waits(c) /\ LastCall(c)
<1>1. Waits(a)
  BY DEF Waits, Pending
<1>2. acts[b].layer < acts[a].layer
  BY <1>1, NothingBelow, Typed DEF Tree, OncePerLayer
<1>3. PICK c \in Calls(b) : Waits(c)
  BY <1>1, <1>2 DEF Tree, Chained
<1>4. c \in DOMAIN acts /\ acts[c].by = b /\ c # 1
  BY <1>3, Typed DEF Calls, Tree, Called, Caller
<1>. QED
  BY <1>2, <1>3, <1>4, Typed DEF Tree, Waiting

\* Calling further layers in ends no layer's silence: only the terminus of a client
\* that is gone says so at once, to the layer next to it.
LEMMA GrownFinal ==
    ASSUME Tree, NEW l \in Interceptors, Final(l), NEW by \in 0..Len(acts), Grown(by)
    PROVE  Final(l)'
<1>. DEFINE n == Len(acts)
            m == Len(acts')
<1>1. /\ n \in Nat /\ m \in Nat /\ n < m /\ DOMAIN acts = 1..n /\ DOMAIN acts' = 1..m
      /\ by \in 0..n /\ (by = Caller => n = 0)
      /\ by # Caller => /\ by \in 1..n /\ acts[by].state = "delay" /\ Waits(by)
                        /\ acts'[by].state = "open"
      /\ \A b \in 1..n :
            /\ acts'[b].layer = acts[b].layer /\ acts'[b].by = acts[b].by
            /\ b # by => acts'[b] = acts[b]
            /\ acts'[b].state \in Pending <=> Waits(b)
            /\ acts[b].by < b /\ acts[b].by \in Nat
      /\ \A b \in (n + 1)..m :
            /\ acts'[b].by = IF b = n + 1 THEN by ELSE b - 1
            /\ b # m => acts'[b].state = "open"
  BY GrownIs
<1>. HIDE DEF n, m
<1>2. \A b \in 1..n : acts[b].layer # l + 1 \/ acts[b].state # "gone"
  BY <1>1 DEF Final, Tells, Pending, Caller
<1>3. \A b \in 1..m : acts'[b].layer = l + 1 /\ acts'[b].state = "gone" =>
                          b = m /\ acts'[m].layer = Terminus
  BY <1>1, <1>2, GrownIs DEF Pending
<1>4. SUFFICES ASSUME acts'[m].layer = Terminus, acts'[m].state = "gone", l + 1 = Terminus,
                      NEW b \in 1..m
               PROVE  /\ acts'[b].state \in Pending =>
                            acts'[b].state = "open" /\ acts'[b].layer # Terminus
                      /\ b # 1 /\ acts'[acts'[b].by].state \in Pending
                            /\ (\A c \in 1..m : acts'[c].by = acts'[b].by => c <= b)
                         => acts'[b].state \in Pending \cup {"gone", "ok"}
  <2>1. Terminus = l + 1 => \A b \in 1..m : acts'[b].layer # Terminus => acts'[b].layer <= l
    <3>1. \A b \in 1..m : acts'[b].layer \in 1..Terminus
      <4>1. acts' \in Seq(Activations)
        BY DEF Grown
      <4>2. \A b \in 1..m : acts'[b] \in Activations
        BY <1>1, <4>1
      <4>. QED
        BY <4>2, Fields DEF Layers
    <3>2. l \in Nat
      BY DEF Interceptors
    <3>. QED
      BY <3>1, <3>2
  <2>. QED
    BY <1>1, <1>3, <2>1 DEF Final, Tells, Waits, LastCall
<1>5. CASE b \in (n + 1)..m
  <2>1. b # m => acts'[b].state = "open" /\ acts'[b].layer # Terminus
    <3>1. \A c \in (n + 1)..m :
              acts'[c].layer = (c - n) + (IF by = Caller THEN 0 ELSE acts[by].layer)
      BY DEF Grown, n, m
    <3>2. m \in (n + 1)..m
      BY <1>1
    <3>3. (IF by = Caller THEN 0 ELSE acts[by].layer) \in Nat
      BY <1>1, Typed DEF Tree
    <3>. QED
      BY <1>1, <1>4, <1>5, <3>1, <3>2, <3>3
  <2>. QED
    BY <1>4, <2>1 DEF Pending
<1>6. CASE b \in 1..n
  <2>1. by # Caller /\ by \in 1..n /\ acts[by].state = "delay" /\ acts[by].layer # Terminus
    BY <1>1, <1>6 DEF Tree, Delayed, Kind
  <2>2. ASSUME Waits(b), b # by
        PROVE  /\ acts[b].state = "open" /\ acts[b].layer # Terminus
               /\ \E c \in Calls(b) : Waits(c) /\ LastCall(c)
    BY <1>1, <1>6, <2>1, <2>2, OthersCall
  <2>3. acts'[b].state \in Pending => acts'[b].state = "open" /\ acts'[b].layer # Terminus
    BY <1>1, <1>6, <2>1, <2>2
  <2>4. ASSUME b # 1, acts'[acts'[b].by].state \in Pending,
               \A c \in 1..m : acts'[c].by = acts'[b].by => c <= b
        PROVE  acts'[b].state \in Pending
    <3>1. acts[b].by \in 1..n /\ acts'[b].by = acts[b].by /\ Waits(acts[b].by)
      <4>1. acts[b].by # 0
        BY <1>1, <1>6, <2>4 DEF Tree, Called, Caller
      <4>2. acts[b].by \in 1..n /\ acts'[b].by = acts[b].by
        BY <1>1, <1>6, <4>1
      <4>. QED
        BY <1>1, <2>4, <4>2
    <3>2. acts[b].by # by
      <4>1. n + 1 \in 1..m /\ n + 1 \in (n + 1)..m /\ ~(n + 1 <= b) /\ acts'[n + 1].by = by
        BY <1>1, <1>6
      <4>. QED
        BY <2>4, <3>1, <4>1
    <3>3. PICK c \in Calls(acts[b].by) : Waits(c) /\ LastCall(c)
      BY <1>1, <2>1, <3>1, <3>2, OthersCall
    <3>4. c = b
      <4>1. c \in 1..n /\ acts[c].by = acts[b].by /\ c <= b
        BY <1>1, <2>4, <3>1, <3>3 DEF Calls
      <4>2. b <= c
        BY <1>1, <1>6, <3>3, <4>1 DEF LastCall
      <4>. QED
        BY <1>6, <4>1, <4>2
    <3>. QED
      BY <1>1, <1>6, <3>3, <3>4
  <2>. QED
    BY <2>3, <2>4
<1>. QED
  BY <1>1, <1>5, <1>6

\* Nor does an answer: told that the client is gone, a layer whose policy does not
\* ask again hands that on, or mends it.
LEMMA SettledFinal ==
    ASSUME Tree, NEW l \in Interceptors, ~Persistent(l), Final(l),
           NEW a, NEW s \in States, Settled(a, s)
    PROVE  Final(l)'
<1>1. /\ a \in DOMAIN acts /\ DOMAIN acts' = DOMAIN acts
      /\ \A b \in DOMAIN acts :
            /\ b # a => acts'[b] = acts[b]
            /\ acts'[b].layer = acts[b].layer /\ acts'[b].by = acts[b].by
            /\ LastCall(b)' <=> LastCall(b)
      /\ acts'[a].state = s /\ s # "open"
      /\ Waits(a) /\ \A b \in Calls(a) : ~Waits(b)
  BY SettledIs DEF Tree, Settled
<1>2. l \in Nat /\ \A b \in DOMAIN acts : acts[b].layer \in 1..Terminus /\ acts[b].layer \in Nat
  BY Typed DEF Tree, Interceptors
<1>3. ASSUME NEW b \in DOMAIN acts, b # 1
      PROVE  acts[b].by \in DOMAIN acts /\ b \in Calls(acts[b].by)
  BY <1>3, Typed DEF Tree, TypeOK, Called, Caller, Calls
<1>4. CASE \E c \in DOMAIN acts : Tells(l, c)
  <2>1. ASSUME NEW b \in DOMAIN acts
        PROVE  /\ Waits(b) => acts[b].state = "open" /\ acts[b].layer <= l
               /\ b # 1 /\ Waits(acts[b].by) /\ LastCall(b) =>
                      acts[b].state \in Pending \cup {"gone", "ok"}
    BY <1>4 DEF Final
  <2>2. \A c \in DOMAIN acts : Tells(l, c)' => Tells(l, c)
    BY <1>1, <1>2, <2>1 DEF Tells
  <2>3. s \in {"ok", "gone"}
    <3>1. acts[a].layer # Terminus
      BY <1>1, <1>2, <2>1 DEF Interceptors, Terminus
    <3>2. CASE s # "ok"
      <4>1. PICK b \in Calls(a) :
                /\ LastCall(b)
                /\ IF s = "delay" THEN acts[b].state \in Policy[acts[a].layer]
                   ELSE acts[b].state = s
        BY <3>1, <3>2 DEF Settled
      <4>2. b \in DOMAIN acts /\ b # 1 /\ acts[b].by = a
        BY <1>1, <4>1, Typed DEF Calls, Tree, Called, Caller
      <4>3. acts[b].state \in {"gone", "ok"}
        <5>1. acts[b].state \in Pending \cup {"gone", "ok"} /\ ~Waits(b)
          BY <1>1, <2>1, <4>1, <4>2
        <5>. QED
          BY <5>1 DEF Waits
      <4>4. s # "delay"
        <5>1. SUFFICES ASSUME s = "delay" PROVE FALSE
          OBVIOUS
        <5>2. Kind(acts[a].layer) = "retry" /\ acts[a].layer \in 1..l
          BY <1>1, <1>2, <2>1, <5>1 DEF Settled
        <5>3. acts[a].layer \in DOMAIN Chain
          BY <1>2, <5>2 DEF Interceptors
        <5>4. Policy[acts[a].layer] \subseteq Errors
          BY <5>3
        <5>5. "gone" \in Policy[acts[a].layer]
          BY <4>1, <4>3, <5>1, <5>4 DEF Errors
        <5>. QED
          BY <5>2, <5>5 DEF Persistent
      <4>. QED
        BY <4>1, <4>3, <4>4
    <3>. QED
      BY <3>2
  <2>4. ASSUME NEW b \in DOMAIN acts
        PROVE  /\ Waits(b)' => acts'[b].state = "open" /\ acts'[b].layer <= l
               /\ b # 1 /\ Waits(acts[b].by)' /\ LastCall(b)' =>
                      acts'[b].state \in Pending \cup {"gone", "ok"}
    <3>1. b # 1 /\ Waits(acts[b].by)' => Waits(acts[b].by)
      BY <1>1, <1>3, <2>3 DEF Waits, Pending
    <3>. QED
      BY <1>1, <2>1, <2>3, <3>1 DEF Waits, Pending
  <2>. QED
    BY <1>1, <1>4, <2>2, <2>4 DEF Final
<1>5. CASE ~\E c \in DOMAIN acts : Tells(l, c)
  <2>1. \A c \in DOMAIN acts : Tells(l, c)' => c = a
    BY <1>1, <1>5 DEF Tells
  <2>2. CASE Tells(l, a)'
    <3>1. acts[a].layer = l + 1 /\ s = "gone"
      BY <1>1, <2>2 DEF Tells
    <3>2. ASSUME NEW b \in DOMAIN acts, Waits(b), b # a
          PROVE  /\ acts[b].state = "open" /\ acts[b].layer <= l
                 /\ \E c \in Calls(b) : Waits(c) /\ LastCall(c)
      <4>1. acts[b].layer # acts[a].layer
        BY <1>1, <3>2 DEF Tree, OncePerLayer
      <4>2. ~(acts[a].layer < acts[b].layer)
        BY <1>1, <3>2 DEF Tree, Chained
      <4>3. acts[b].layer < acts[a].layer
        BY <1>1, <1>2, <4>1, <4>2
      <4>4. PICK c \in Calls(b) : Waits(c)
        BY <1>1, <3>2, <4>3 DEF Tree, Chained
      <4>5. c \in DOMAIN acts /\ acts[c].by = b /\ c # 1
        BY <4>4, Typed DEF Calls, Tree, Called, Caller
      <4>6. acts[b].state = "open" /\ LastCall(c)
        BY <4>4, <4>5 DEF Tree, Waiting
      <4>. QED
        BY <1>2, <3>1, <4>3, <4>4, <4>6
    <3>3. ASSUME NEW b \in DOMAIN acts, b # 1, Waits(acts[b].by)', LastCall(b)
          PROVE  acts'[b].state \in Pending \cup {"gone", "ok"}
      <4>1. acts[b].by # a /\ Waits(acts[b].by) /\ acts[b].by \in DOMAIN acts
        BY <1>1, <1>3, <3>1, <3>3 DEF Waits, Pending
      <4>2. PICK c \in Calls(acts[b].by) : Waits(c) /\ LastCall(c)
        BY <3>2, <4>1
      <4>3. c = b
        <5>1. c \in DOMAIN acts /\ acts[c].by = acts[b].by /\ b \in Nat /\ c \in Nat
          BY <4>2 DEF Calls, Tree, TypeOK
        <5>2. c <= b /\ b <= c
          BY <3>3, <4>2, <5>1 DEF LastCall
        <5>. QED
          BY <5>1, <5>2
      <4>. QED
        BY <1>1, <3>1, <4>2, <4>3 DEF Waits
    <3>4. ASSUME NEW b \in DOMAIN acts, Waits(b)'
          PROVE  acts'[b].state = "open" /\ acts'[b].layer <= l
      <4>1. b # a
        BY <1>1, <3>1, <3>4 DEF Waits, Pending
      <4>. QED
        BY <1>1, <3>2, <3>4, <4>1 DEF Waits
    <3>5. DOMAIN acts' = DOMAIN acts /\ \A b \in DOMAIN acts : acts'[b].by = acts[b].by
      BY <1>1
    <3>6. \A b \in DOMAIN acts : LastCall(b)' => LastCall(b)
      BY <3>5 DEF LastCall
    <3>. QED
      BY <2>1, <3>3, <3>4, <3>5, <3>6 DEF Final
  <2>3. CASE ~Tells(l, a)'
    <3>1. ~\E c \in DOMAIN acts' : Tells(l, c)'
      BY <1>1, <2>1, <2>3
    <3>. QED
      BY <3>1 DEF Final
  <2>. QED
    BY <2>2, <2>3
<1>. QED
  BY <1>4, <1>5

\* Every step keeps it true that the client's end is told once where nobody persists.
LEMMA GoneStep == Tree /\ GoneIsFinal /\ [Next]_vars => GoneIsFinal'
<1>. SUFFICES ASSUME Tree, [Next]_vars, NEW l \in Interceptors, ~Persistent(l), Final(l)
              PROVE  Final(l)'
  BY DEF GoneIsFinal, Persistent
<1>1. CASE LettingGo
  BY <1>1 DEF LettingGo, Final, Tells, Waits, LastCall
<1>. QED
  BY <1>1, Steps, GrownFinal, SettledFinal

\* The inductive invariant holds of every execution: besides the tree, what the budget of
\* a retry (Interceptor.cpp:81) has been spent on.
THEOREM IInvHolds == Spec => []IInv
<1>1. Init => Counted /\ Excused /\ HandedOn /\ GoneIsFinal
  BY DEF Init, Counted, Excused, HandedOn, GoneIsFinal, Final
<1>2. Init => IInv
  BY <1>1, InitTree DEF IInv
<1>3. IInv /\ [Next]_vars => IInv'
  BY TreeStep, CountedStep, ExcusedStep, HandedOnStep, GoneStep DEF IInv
<1>. QED
  BY <1>2, <1>3, PTL DEF Spec

---------------------------------------------------------------------------
(* What the runs check.                                                    *)

\* A set without two different elements has at most one.
LEMMA AtMostOne ==
    ASSUME NEW S, \A a, b \in S : a = b
    PROVE  Cardinality(S) <= 1
<1>1. CASE S = {}
  BY <1>1, FS_EmptySet
<1>2. ASSUME NEW a \in S PROVE Cardinality(S) <= 1
  <2>1. S = {a}
    BY <1>2
  <2>2. Cardinality({a}) = 1
    BY FS_Singleton
  <2>. QED
    BY <2>1, <2>2
<1>. QED
  BY <1>1, <1>2

\* NetworkClient.cpp:33: from the outside in, whatever was retried.
THEOREM OutsideInHolds == Spec => []OutsideIn
<1>1. ASSUME Tree, NEW l \in Layers PROVE Cardinality(Open(l)) <= 1
  <2>1. \A a, b \in Open(l) : a = b
    BY <1>1 DEF Tree, OncePerLayer, Open, Entries, Waits
  <2>. QED
    BY <2>1, AtMostOne
<1>2. ASSUME Tree, NEW l \in Layers, l > 1, NEW a \in Open(l) PROVE Open(l - 1) # {}
  <2>1. a \in DOMAIN acts /\ Waits(a) /\ acts[a].layer = l /\ a # 1
    BY <1>2 DEF Open, Entries, Waits, Tree, Called
  <2>2. acts[a].by \in DOMAIN acts /\ acts[acts[a].by].layer = l - 1
    <3>1. /\ a \in 1..Len(acts) /\ Len(acts) \in Nat /\ DOMAIN acts = 1..Len(acts)
          /\ acts[a].by \in Nat
      BY <1>2, <2>1, Typed DEF Tree, TypeOK
    <3>2. acts[a].by < a /\ acts[a].by # 0
      BY <1>2, <2>1 DEF Tree, Called, Caller
    <3>3. acts[a].by \in DOMAIN acts
      BY <3>1, <3>2
    <3>4. acts[acts[a].by].layer \in Nat
      BY <1>2, <3>3, Typed DEF Tree
    <3>5. l = acts[acts[a].by].layer + 1
      BY <1>2, <2>1 DEF Tree, Called
    <3>. QED
      BY <3>3, <3>4, <3>5
  <2>3. acts[acts[a].by].state \in Pending
    BY <1>2, <2>1 DEF Tree, Waiting, Pending
  <2>. QED
    BY <2>2, <2>3 DEF Open, Entries
<1>3. Tree => OutsideIn
  BY <1>1, <1>2 DEF OutsideIn
<1>. QED
  BY <1>3, TreeHolds, PTL

\* The how-manieth call of its caller a call is.
Rank(b) == Cardinality({c \in Calls(acts[b].by) : c <= b})

\* Calls of one caller have different ranks, up to their number.
LEMMA RankIs ==
    ASSUME TypeOK, NEW b \in DOMAIN acts
    PROVE  /\ Rank(b) \in 1..Cardinality(Calls(acts[b].by))
           /\ \A c \in DOMAIN acts : acts[c].by = acts[b].by /\ b < c => Rank(b) # Rank(c)
<1>. DEFINE upTo(c) == {x \in Calls(acts[b].by) : x <= c}
<1>1. /\ b \in Nat /\ b \in Calls(acts[b].by)
      /\ IsFiniteSet(Calls(acts[b].by)) /\ Cardinality(Calls(acts[b].by)) \in Nat
  <2>1. b \in Nat /\ b \in Calls(acts[b].by)
    BY DEF TypeOK, Calls
  <2>. QED
    BY <2>1, CallsFinite
<1>2. \A c : IsFiniteSet(upTo(c)) /\ Cardinality(upTo(c)) <= Cardinality(Calls(acts[b].by))
  BY <1>1, FS_Subset
<1>3. b \in upTo(b)
  BY <1>1
<1>4. Cardinality(upTo(b)) \in Nat /\ Cardinality(upTo(b)) # 0
  BY <1>2, <1>3, FS_CardinalityType, FS_EmptySet
<1>5. ASSUME NEW c \in DOMAIN acts, acts[c].by = acts[b].by, b < c
      PROVE  Cardinality(upTo(b)) # Cardinality(upTo(c))
  <2>1. c \in Nat /\ c \in upTo(c) /\ c \notin upTo(b)
    BY <1>1, <1>5 DEF TypeOK, Calls
  <2>2. upTo(b) \subseteq upTo(c)
    <3>1. \A x \in Calls(acts[b].by) : x \in Nat
      BY DEF Calls, TypeOK
    <3>. QED
      BY <1>1, <1>5, <2>1, <3>1
  <2>. HIDE DEF upTo
  <2>. QED
    BY <1>2, <2>1, <2>2, FS_Subset
<1>6. Cardinality(upTo(b)) \in 1..Cardinality(Calls(acts[b].by))
  <2>1. Cardinality(upTo(b)) <= Cardinality(Calls(acts[b].by))
    BY <1>2
  <2>. HIDE DEF upTo
  <2>. QED
    BY <1>1, <1>4, <2>1
<1>7. Rank(b) = Cardinality(upTo(b))
  BY DEF Rank
<1>8. \A c \in DOMAIN acts : acts[c].by = acts[b].by => Rank(c) = Cardinality(upTo(c))
  BY DEF Rank
<1>. HIDE DEF upTo
<1>. QED
  BY <1>5, <1>6, <1>7, <1>8

\* RetryInterceptor.cpp:27: a layer calls once, and once more for each retry.
THEOREM EnteredPerAttemptHolds == Spec => []EnteredPerAttempt
<1>1. ASSUME Tree, Counted, NEW l \in Layers \ {1}
      PROVE  Cardinality(Entries(l)) <=
                 Cardinality(Entries(l - 1)) *
                     (IF Kind(l - 1) = "retry" THEN MaxRetries + 1 ELSE 1)
  <2>1. PICK k \in Nat : k = IF Kind(l - 1) = "retry" THEN MaxRetries + 1 ELSE 1
    OBVIOUS
  <2>. DEFINE f == [b \in Entries(l) |-> <<acts[b].by, Rank(b)>>]
  <2>2. ASSUME NEW b \in Entries(l)
        PROVE  /\ b \in DOMAIN acts /\ acts[b].by \in Entries(l - 1)
               /\ Cardinality(Calls(acts[b].by)) \in 0..k
    <3>1. b \in DOMAIN acts /\ acts[b].layer = l /\ b # 1
      BY <1>1 DEF Entries, Tree, Called
    <3>2. acts[b].by \in DOMAIN acts /\ acts[acts[b].by].layer = l - 1
      BY <1>1, <3>1, Typed DEF Tree, TypeOK, Called, Caller, Layers
    <3>3. Cardinality(Calls(acts[b].by)) \in Nat /\ acts[acts[b].by].left \in Nat
      BY <1>1, <3>2, CallsFinite, Typed DEF Tree
    <3>. QED
      BY <1>1, <2>1, <3>1, <3>2, <3>3 DEF Counted, Entries
  <2>3. \A b \in Entries(l) : Rank(b) \in 1..k
    BY <1>1, <2>1, <2>2, RankIs DEF Tree
  <2>4. ASSUME NEW b \in Entries(l), NEW c \in Entries(l), f[b] = f[c] PROVE b = c
    <3>1. /\ acts[b].by = acts[c].by /\ Rank(b) = Rank(c)
          /\ b \in DOMAIN acts /\ c \in DOMAIN acts /\ b \in Nat /\ c \in Nat
      BY <1>1, <2>2, <2>4 DEF Tree, TypeOK
    <3>. QED
      BY <1>1, <3>1, RankIs DEF Tree
  <2>5. f \in Injection(Entries(l), Entries(l - 1) \X (1..k))
    BY <2>2, <2>3, <2>4 DEF Injection, IsInjective
  <2>6. IsFiniteSet(Entries(l - 1)) /\ IsFiniteSet(1..k) /\ Cardinality(1..k) = k
    <3>1. IsFiniteSet(1..Len(acts)) /\ Entries(l - 1) \subseteq 1..Len(acts)
      <4>1. Len(acts) \in Nat /\ DOMAIN acts = 1..Len(acts)
        BY <1>1 DEF Tree, TypeOK
      <4>2. IsFiniteSet(1..Len(acts))
        BY <4>1, FS_Interval
      <4>. QED
        BY <4>1, <4>2 DEF Entries
    <3>. QED
      BY <3>1, FS_Subset, FS_Interval
  <2>. HIDE DEF f
  <2>7. Cardinality(Entries(l)) <= Cardinality(Entries(l - 1) \X (1..k))
    BY <2>5, <2>6, FS_Injection, FS_Product
  <2>. QED
    BY <2>1, <2>6, <2>7, FS_Product
<1>2. IInv => EnteredPerAttempt
  BY <1>1 DEF IInv, EnteredPerAttempt
<1>. QED
  BY <1>2, IInvHolds, PTL

\* RetryInterceptor.cpp: an error the policy retries is handed on only when the
\* retries are used up, or their layer is.
THEOREM ErrorsExhaustedHolds == Spec => []ErrorsExhausted
<1>1. ASSUME IInv, NEW a \in DOMAIN acts, Kind(acts[a].layer) = "retry",
             acts[a].state \notin Pending
      PROVE  /\ \E b \in Calls(a) : /\ acts[b].state = acts[a].state
                                   /\ \A c \in Calls(a) : c <= b
             /\ acts[a].state \in Policy[acts[a].layer] =>
                    \/ acts[a].left = 0 /\ Cardinality(Calls(a)) = MaxRetries + 1
                    \/ ~Alive(acts[a].layer)
  <2>1. PICK b \in Calls(a) : LastCall(b) /\ acts[b].state = acts[a].state
    BY <1>1 DEF IInv, HandedOn, Waits
  <2>2. \A c \in Calls(a) : c <= b
    BY <2>1 DEF LastCall, Calls
  <2>3. Cardinality(Calls(a)) = MaxRetries + 1 - acts[a].left
    BY <1>1 DEF IInv, Counted
  <2>. QED
    BY <1>1, <2>1, <2>2, <2>3 DEF IInv, Excused
<1>2. IInv => ErrorsExhausted
  BY <1>1 DEF ErrorsExhausted
<1>. QED
  BY <1>2, IInvHolds, PTL

\* NetworkClient.cpp:157: where no policy from a layer outwards retries its error, a
\* client that is gone says so once.
THEOREM GoneOnceHolds == Spec => []GoneOnce
<1>1. ASSUME IInv, NEW l \in Interceptors, ~Persistent(l)
      PROVE  Cardinality({a \in Entries(l + 1) : acts[a].state = "gone"}) <= 1
  <2>. DEFINE G == {a \in Entries(l + 1) : acts[a].state = "gone"}
  <2>1. \A a, b \in G : a = b
    BY <1>1 DEF IInv, GoneIsFinal, Final, Tells, Entries
  <2>. HIDE DEF G
  <2>2. Cardinality(G) <= 1
    BY <2>1, AtMostOne
  <2>. QED
    BY <2>2 DEF G
<1>2. IInv => GoneOnce
  BY <1>1 DEF GoneOnce
<1>. QED
  BY <1>2, IInvHolds, PTL

\* A layer is settled after everything it called, and once.
THEOREM InnerFirstHolds == Spec => InnerFirst
<1>1. ASSUME Tree, [Next]_vars, NEW a \in DOMAIN acts, acts'[a].state # acts[a].state
      PROVE  /\ acts[a].state \in Pending
             /\ acts'[a].state \notin Pending =>
                    \A b \in Calls(a) : acts[b].state \notin Pending
  <2>1. ASSUME NEW by \in 0..Len(acts), Grown(by)
        PROVE  acts[a].state \in Pending /\ acts'[a].state \in Pending
    BY <1>1, <2>1, GrownIs DEF Waits
  <2>2. ASSUME NEW b, NEW s \in States, Settled(b, s)
        PROVE  acts[a].state \in Pending /\ \A c \in Calls(a) : acts[c].state \notin Pending
    BY <1>1, <2>2, SettledIs DEF Tree, Settled, Waits
  <2>3. CASE LettingGo
    BY <1>1, <2>3 DEF LettingGo
  <2>. QED
    BY <1>1, <2>1, <2>2, <2>3, Steps
<1>2. Tree /\ [Next]_vars =>
          [\A a \in DOMAIN acts :
              acts'[a].state # acts[a].state =>
                  /\ acts[a].state \in Pending
                  /\ acts'[a].state \notin Pending =>
                         \A b \in Calls(a) : acts[b].state \notin Pending]_vars
  BY <1>1
<1>. QED
  BY <1>2, TreeHolds, PTL DEF Spec, InnerFirst

\* Interceptor.cpp:88: only layers that have an owner are called, and call.
THEOREM OnlyLivingActHolds == Spec => OnlyLivingAct
<1>1. ASSUME Tree, [Next]_vars, NEW a \in DOMAIN acts' \ DOMAIN acts
      PROVE  /\ acts'[a].layer # Terminus => Alive(acts'[a].layer)
             /\ acts'[a].by # Caller => Alive(acts'[acts'[a].by].layer)
  <2>1. PICK by \in 0..Len(acts) : Grown(by)
    BY <1>1, Steps, SettledIs DEF Tree, LettingGo
  <2>2. CASE by = Caller
    BY <2>1, <2>2 DEF Grown, Alive
  <2>3. CASE by # Caller
    <3>. DEFINE n == Len(acts)
    <3>1. /\ n \in Nat /\ by \in 1..n /\ by \in DOMAIN acts
          /\ acts[by].state = "delay" /\ Alive(acts[by].layer)
          /\ acts'[by].layer = acts[by].layer
          /\ a \in (n + 1)..Len(acts') /\ Len(acts') \in Nat
          /\ acts'[a].by = IF a = n + 1 THEN by ELSE a - 1
          /\ \A c \in (n + 1)..Len(acts') : acts'[c].layer = (c - n) + acts[by].layer
      BY <1>1, <2>1, <2>3, GrownIs DEF Grown
    <3>2. acts[by].layer \in Nat /\ acts[by].layer > 0
      BY <1>1, <3>1, Typed DEF Tree
    <3>3. Kind(acts[by].layer) = "retry" /\ Open(acts[by].layer) # {}
      BY <1>1, <3>1 DEF Tree, Delayed, Open, Entries, Pending
    <3>. HIDE DEF n
    <3>4. ASSUME NEW c \in (n + 1)..Len(acts') PROVE Alive(acts'[c].layer)
      <4>1. acts[by].layer \in 1..(acts'[c].layer - 1)
        BY <3>1, <3>2
      <4>. QED
        BY <3>3, <4>1 DEF Alive
    <3>5. Alive(acts'[a].layer)
      BY <3>1, <3>4
    <3>6. CASE a = n + 1
      BY <3>1, <3>5, <3>6
    <3>7. CASE a # n + 1
      <4>1. a - 1 \in (n + 1)..Len(acts') /\ acts'[a].by = a - 1
        BY <3>1, <3>7
      <4>. QED
        BY <3>4, <3>5, <4>1
    <3>. QED
      BY <3>6, <3>7
  <2>. QED
    BY <2>2, <2>3
<1>2. Tree /\ [Next]_vars =>
          [\A a \in DOMAIN acts' \ DOMAIN acts :
              /\ acts'[a].layer # Terminus => Alive(acts'[a].layer)
              /\ acts'[a].by # Caller => Alive(acts'[acts'[a].by].layer)]_vars
  BY <1>1
<1>. QED
  BY <1>2, TreeHolds, PTL DEF Spec, OnlyLivingAct
=============================================================================

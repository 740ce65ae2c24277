-------------------------- MODULE InterceptorChain --------------------------
(***************************************************************************)
(* NetworkClient::executeWithInterceptors: the chain of handlers one       *)
(* request runs through.  Layer 1 is the interceptor added first, the      *)
(* terminus is the layer after the last one.                               *)
(*                                                                         *)
(* An activation is one call of a layer's handler.  `acts' lists them in   *)
(* the order they were made; each knows the activation that called it, the *)
(* request it was given and, for a retrying layer, the retries it has left.*)
(* A handler calls the next one before it returns, so the activations down *)
(* to the terminus, or to a layer that answers by itself, are made in one  *)
(* step; outcomes come back one promise at a time.                         *)
(*                                                                         *)
(* The client owns its interceptors together with the program and with     *)
(* the handlers: the `next' of a layer holds every layer below it, and     *)
(* a retrying layer's closures hold `next' until its promise is settled,   *)
(* but the layer itself only weakly.  The client and the program may let   *)
(* go of them at any moment.  Every attempt has a timeout.                 *)
(***************************************************************************)
EXTENDS Naturals, Sequences, FiniteSets

CONSTANTS
    Chain,          \* the kinds of the interceptors, in the order added
    MaxRetries,     \* of every retrying layer
    Policy          \* the errors that each layer's shouldRetry lets pass

\* Layers that hand everything through, may answer by themselves, may answer in
\* place of a failure, make their own copy of the request, or retry.
Kinds == {"log", "cache", "mend", "sign", "retry"}

\* A passing failure, a permanent one, and the error of a client that is gone.  A
\* policy is the program's own function of the error and may retry any of them.
Errors == {"failed", "denied", "gone"}

ASSUME InterceptorChainAssumption ==
    /\ Chain \in Seq(Kinds)
    /\ MaxRetries \in Nat
    /\ Policy \in [DOMAIN Chain -> SUBSET Errors]

Terminus     == Len(Chain) + 1
Layers       == 1..Terminus
Interceptors == DOMAIN Chain
Caller       == 0       \* the activation that is not one: sendRequest

VARIABLES
    acts,       \* the activations made for the request so far
    client,     \* the client exists
    kept        \* the interceptors the program holds a reference to

vars == <<acts, client, kept>>

Kind(l) == IF l = Terminus THEN "terminus" ELSE Chain[l]

\* The request as a layer leaves it.  next() takes no argument: what reaches the
\* terminus is the request its closure captured, not a layer's own copy.
RequestOf(l) == IF Kind(l) = "sign" THEN "signed" ELSE "captured"

Activation(l, by, state) ==
    [layer |-> l, by |-> by, left |-> IF Kind(l) = "retry" THEN MaxRetries ELSE 0,
     req |-> RequestOf(l), state |-> state]

\* Waiting for the next layer, or for the delay before it is called again.
Pending == {"open", "delay"}
Entries(l) == {a \in DOMAIN acts : acts[a].layer = l}
Open(l)    == {a \in Entries(l) : acts[a].state \in Pending}
Calls(a)   == {b \in DOMAIN acts : acts[b].by = a}

\* Interceptor l has an owner: the client, the program, or the `next' of a
\* retrying layer above it that is still waiting.
Alive(l) ==
    \/ client \/ l \in kept
    \/ \E k \in 1..(l - 1) : Kind(k) = "retry" /\ Open(k) # {}

\* Mutant: the closures share one handler, the outermost.
DescendFromTop(made, by) ==
    {made \o [n \in 1..Terminus |->
                 Activation(n, IF n = 1 THEN by ELSE Len(made) + n - 1, "open")]}

\* next() called by activation `by': every layer calls the one below, except a
\* cache that has the answer.  The terminus of a client that is gone rejects.
Descend(made, by) ==
    LET first == IF by = Caller THEN 1 ELSE made[by].layer + 1
        Down(last, state) ==
            made \o [n \in 1..(last - first + 1) |->
                Activation(first + n - 1,
                           IF n = 1 THEN by ELSE Len(made) + n - 1,
                           IF first + n - 1 = last THEN state ELSE "open")]
    IN  {Down(Terminus, IF client THEN "open" ELSE "gone")}
        \cup {Down(l, "ok") : l \in {k \in first..Len(Chain) : Chain[k] = "cache"}}

Init ==
    /\ acts = <<>> /\ client = TRUE
    /\ kept \in SUBSET {l \in Interceptors : Kind(l) = "retry"}

Send ==
    /\ acts = <<>> /\ client
    /\ acts' \in Descend(<<>>, Caller)
    /\ UNCHANGED <<client, kept>>

\* The network answers the terminus, or the timeout does, and only the timeout
\* once the replies went with the client.  A permanent error is `denied'.
TerminusSettles ==
    \E a \in Open(Terminus) :
        \E outcome \in IF client THEN {"ok", "failed", "denied"} ELSE {"failed"} :
            acts' = [acts EXCEPT ![a].state = outcome]
    /\ UNCHANGED <<client, kept>>

\* `a' is settled and the layer that called it is still waiting for it.
Answers(a) == /\ acts[a].state \notin Pending
              /\ acts[a].by # Caller
              /\ acts[acts[a].by].state = "open"
              /\ \A b \in Calls(acts[a].by) : b <= a

\* Mutant: `remaining <= 1' for `remaining <= 0'.
RetriesEarly(a) == LET up == acts[acts[a].by]
                   IN  /\ Kind(up.layer) = "retry" /\ Alive(up.layer)
                       /\ acts[a].state \in Policy[up.layer]
                       /\ up.left > 1

\* Mutant: shouldRetry is not asked.
RetriesUnasked(a) == LET up == acts[acts[a].by]
                     IN  /\ Kind(up.layer) = "retry" /\ Alive(up.layer)
                         /\ acts[a].state \in Errors
                         /\ up.left > 0

\* RetryInterceptor's catcher: the layer is there, has a retry left and its
\* policy lets the error pass.
Retries(a) == LET up == acts[acts[a].by]
              IN  /\ Kind(up.layer) = "retry" /\ Alive(up.layer)
                  /\ acts[a].state \in Policy[up.layer]
                  /\ up.left > 0

\* Mutant: the promise of a repeated attempt is not returned.
HandOnFirstCall ==
    /\ \E a \in DOMAIN acts :
          /\ Answers(a) /\ ~Retries(a)
          /\ \A b \in 1..(a - 1) : acts[b].by # acts[a].by
          /\ acts' = [acts EXCEPT ![acts[a].by].state = acts[a].state]
    /\ UNCHANGED <<client, kept>>

\* Mutant: the outer layer is told before the inner one has given up.
HandOnEarly ==
    /\ \E a \in DOMAIN acts :
          /\ Answers(a)
          /\ LET up == acts[a].by  top == acts[up].by
             IN  acts' = IF top # Caller /\ acts[top].state = "open"
                         THEN [acts EXCEPT ![top].state = acts[a].state]
                         ELSE [acts EXCEPT ![up].state = acts[a].state]
    /\ UNCHANGED <<client, kept>>

\* then()/fail() of a layer's promise: it is settled as the one it waited for.
HandOn ==
    /\ \E a \in DOMAIN acts :
          /\ Answers(a) /\ ~Retries(a)
          /\ \E outcome \in {acts[a].state} \cup
                   (IF Kind(acts[acts[a].by].layer) = "mend" THEN {"ok"} ELSE {}) :
                acts' = [acts EXCEPT ![acts[a].by].state = outcome]
    /\ UNCHANGED <<client, kept>>

\* The catcher starts the delay.
Delay ==
    /\ \E a \in DOMAIN acts :
          /\ Answers(a) /\ Retries(a)
          /\ acts' = [acts EXCEPT ![acts[a].by].state = "delay"]
    /\ UNCHANGED <<client, kept>>

\* Mutant: attempt(next, remaining).
TryAgainForever ==
    /\ Len(acts) < 60
    /\ \E a \in DOMAIN acts :
          /\ acts[a].state = "delay" /\ Alive(acts[a].layer)
          /\ acts' \in Descend([acts EXCEPT ![a].state = "open"], a)
    /\ UNCHANGED <<client, kept>>

\* Mutant: the layer is not looked for after the delay.
TryAgainUnchecked ==
    /\ \E a \in DOMAIN acts :
          /\ acts[a].state = "delay"
          /\ acts' \in Descend([acts EXCEPT ![a].state = "open", ![a].left = @ - 1], a)
    /\ UNCHANGED <<client, kept>>

\* The delay is over: attempt(next, remaining - 1).
TryAgain ==
    /\ \E a \in DOMAIN acts :
          /\ acts[a].state = "delay" /\ Alive(acts[a].layer)
          /\ acts' \in Descend([acts EXCEPT ![a].state = "open", ![a].left = @ - 1], a)
    /\ UNCHANGED <<client, kept>>

\* The delay is over and the layer is gone: the saved error, that of the last
\* call, is the answer.
GiveUp ==
    /\ \E a \in DOMAIN acts, b \in DOMAIN acts :
          /\ acts[a].state = "delay" /\ ~Alive(acts[a].layer)
          /\ b \in Calls(a) /\ \A c \in Calls(a) : c <= b
          /\ acts' = [acts EXCEPT ![a].state = acts[b].state]
    /\ UNCHANGED <<client, kept>>

DestroyClient == client /\ client' = FALSE /\ UNCHANGED <<acts, kept>>

Drop(l) == l \in kept /\ kept' = kept \ {l} /\ UNCHANGED <<acts, client>>

Progress == TerminusSettles \/ HandOn \/ Delay \/ TryAgain \/ GiveUp

Next == Send \/ Progress \/ DestroyClient \/ \E l \in Interceptors : Drop(l)

Spec == Init /\ [][Next]_vars

\* The event loop delivers and timers fire; nobody has to send or destroy.
FairSpec == Spec /\ WF_vars(Progress)

---------------------------------------------------------------------------
Sent     == acts # <<>>
Answered == Sent /\ acts[1].state \notin Pending

\* NetworkClient.cpp:33: from the outside in.  Whatever was retried, the layers
\* that are waiting are the outermost ones, each of them once.
OutsideIn ==
    \A l \in Layers :
        /\ Cardinality(Open(l)) <= 1
        /\ l > 1 /\ Open(l) # {} => Open(l - 1) # {}

\* A layer is entered once for each time the layer above it is, and once more
\* for each retry that one makes: retries of nested layers multiply, and a
\* layer outside them sees one call and one outcome.
EnteredPerAttempt ==
    \A l \in Layers \ {1} :
        Cardinality(Entries(l)) <=
            Cardinality(Entries(l - 1)) *
                (IF Kind(l - 1) = "retry" THEN MaxRetries + 1 ELSE 1)

\* A layer is settled once, and only after everything it called; until then it
\* has not answered.
InnerFirst ==
    [][\A a \in DOMAIN acts :
          acts'[a].state # acts[a].state =>
              /\ acts[a].state \in Pending
              /\ acts'[a].state \notin Pending =>
                     \A b \in Calls(a) : acts[b].state \notin Pending]_vars

\* Interceptor.cpp:92: a retrying layer hands on what its last call came to, and an
\* error its policy lets pass only when it has made all its attempts, or did not live
\* to make them.
ErrorsExhausted ==
    \A a \in DOMAIN acts :
        Kind(acts[a].layer) = "retry" /\ acts[a].state \notin Pending =>
            /\ \E b \in Calls(a) : /\ acts[b].state = acts[a].state
                                   /\ \A c \in Calls(a) : c <= b
            /\ acts[a].state \in Policy[acts[a].layer] =>
                   \/ acts[a].left = 0 /\ Cardinality(Calls(a)) = MaxRetries + 1
                   \/ ~Alive(acts[a].layer)

\* Interceptor.cpp:88: a handler is only called while its layer has an owner, and
\* a retrying layer only calls while it has one itself, whoever let go of what
\* during its delays.
OnlyLivingAct ==
    [][\A a \in DOMAIN acts' \ DOMAIN acts :
          /\ acts'[a].layer # Terminus => Alive(acts'[a].layer)
          /\ acts'[a].by # Caller => Alive(acts'[acts'[a].by].layer)]_vars

\* Some layer from l outwards asks again when it is told that the client is gone.
Persistent(l) ==
    \E k \in 1..l : Kind(k) = "retry" /\ "gone" \in Policy[k]

\* NetworkClient.cpp:157: where no policy wants to hear it again, a layer is told
\* once that the client is gone, however many retries of however many layers were
\* due by then, and however often the layers below had to be told.
GoneOnce ==
    \A l \in Interceptors : ~Persistent(l) =>
        Cardinality({a \in Entries(l + 1) : acts[a].state = "gone"}) <= 1

\* The chain ends: a request that was sent is answered by the first layer, also
\* when the client dies in the middle.
AlwaysAnswered == Sent ~> Answered

\* README.md:110: the interceptor's own request is the one that is sent.
SignedRequestSent ==
    (\E l \in DOMAIN Chain : Chain[l] = "sign") =>
        \A a \in Entries(Terminus) : acts[a].req = "signed"
=============================================================================

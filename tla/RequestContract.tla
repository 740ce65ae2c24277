-------------------------- MODULE RequestContract --------------------------
(***************************************************************************)
(* What NetworkClient promises whoever calls sendRequest or sendSpec,      *)
(* without promises, events, timers or replies: a request is sent at most  *)
(* MaxRetries + 1 times, only between its call and its answer and only     *)
(* while the client exists; it is answered once; and one with a timeout is *)
(* answered, whatever the network does and even if the client goes away.   *)
(***************************************************************************)
EXTENDS Naturals

CONSTANTS Requests, Timed, Multipart, Misused, MaxRetries

VARIABLES
    phase,      \* "idle", then "waiting", then "done"
    sends,      \* how many times the request went out
    answer,     \* the outcome the caller was given
    open        \* the client exists

vars == <<phase, sends, answer, open>>

\* An answer a request may be given, for what happened to it.
Plausible(r, v) ==
    \/ v = "decoded"       /\ sends[r] > 0
    \/ v \in {"transient", "permanent"} /\ sends[r] > 0
    \/ v = "serialization" /\ (sends[r] > 0 \/ r \in Multipart)
    \/ v = "timeout"       /\ sends[r] > 0 /\ r \in Timed
    \/ v = "logic"         /\ r \in Misused
    \/ v = "destroyed"     /\ ~open

Answers == {"decoded", "transient", "permanent", "serialization", "timeout",
            "logic", "destroyed"}

Init ==
    /\ phase  = [r \in Requests |-> "idle"]
    /\ sends  = [r \in Requests |-> 0]
    /\ answer = [r \in Requests |-> "none"]
    /\ open   = TRUE

\* The first attempt may go out at once, or fail before it does.
Start(r) ==
    /\ open /\ phase[r] = "idle"
    /\ phase' = [phase EXCEPT ![r] = "waiting"]
    /\ sends' \in {sends, [sends EXCEPT ![r] = 1]}
    /\ UNCHANGED <<answer, open>>

SendAgain(r) ==
    /\ open /\ phase[r] = "waiting"
    /\ sends[r] <= MaxRetries
    /\ sends' = [sends EXCEPT ![r] = @ + 1]
    /\ UNCHANGED <<phase, answer, open>>

Answer(r) ==
    /\ phase[r] = "waiting"
    /\ phase' = [phase EXCEPT ![r] = "done"]
    /\ \E v \in Answers : Plausible(r, v) /\ answer' = [answer EXCEPT ![r] = v]
    /\ UNCHANGED <<sends, open>>

Close ==
    /\ open
    /\ open' = FALSE
    /\ UNCHANGED <<phase, sends, answer>>

Next == Close \/ \E r \in Requests : Start(r) \/ SendAgain(r) \/ Answer(r)

Spec ==
    /\ Init /\ [][Next]_vars
    /\ \A r \in Timed : WF_vars(Answer(r))
=============================================================================

------------------------- MODULE ErrorPolicyProofs -------------------------
(***************************************************************************)
(* That the default policy gives up early on permanent errors only, and    *)
(* judges the two forms of one failure alike, for any statuses, any codes  *)
(* of the link and any number of retries.                                  *)
(*                                                                         *)
(* The invariant counts the attempts against the retries left, and knows   *)
(* of every attempt but the last that its error was worth another.         *)
(***************************************************************************)
EXTENDS ErrorPolicy, TLAPS

\* What the catcher is given for an attempt that showed q.
Judged(q) == IF q.status = -1 THEN Timeout ELSE ErrorOf(q)

Shows == Replies \cup {Shown(-1, "Timeout")}
Worth == {q \in Shows : ShouldRetry(Judged(q))}

Pending == outcome.kind = "pending"

TypeOK ==
    /\ left \in 0..MaxRetries
    /\ seen \in Seq(Shows)
    /\ outcome.kind \in {"pending", "data", "failed"}

\* Every attempt but the first has taken a retry.
Counted == Len(seen) = MaxRetries - left + (IF Pending THEN 0 ELSE 1)

TriedAgain == Retried \subseteq Worth

GivenUp ==
    outcome.kind = "failed" => left = 0 \/ Last \in Shows \ Worth

IInv == TypeOK /\ Counted /\ TriedAgain /\ GivenUp

---------------------------------------------------------------------------
\* Nothing was tried yet.
LEMMA InitIInv == Init => IInv
<1>. SUFFICES ASSUME Init PROVE IInv
  OBVIOUS
<1>1. TypeOK /\ Counted /\ GivenUp
  BY ErrorPolicyAssumption DEF Init, TypeOK, Counted, GivenUp, Pending
<1>2. Retried = {}
  BY DEF Init, Retried
<1>. QED
  BY <1>1, <1>2 DEF IInv, TriedAgain

\* An attempt that shows q, whose error is e, and what became of it.
LEMMA AttemptStep ==
    ASSUME IInv, Pending, NEW q \in Shows, seen' = Append(seen, q),
           \/ outcome'.kind = "data" /\ left' = left
           \/ left > 0 /\ q \in Worth /\ left' = left - 1 /\ outcome' = outcome
           \/ outcome'.kind = "failed" /\ left' = left /\ (left = 0 \/ q \notin Worth)
    PROVE  IInv'
<1>1. /\ left \in Nat /\ MaxRetries \in Nat /\ left <= MaxRetries
      /\ seen \in Seq(Shows) /\ Len(seen) \in Nat /\ Len(seen) = MaxRetries - left
  BY ErrorPolicyAssumption DEF IInv, TypeOK, Counted
<1>2. /\ seen' \in Seq(Shows) /\ Len(seen') = Len(seen) + 1
      /\ seen'[Len(seen) + 1] = q
      /\ \A n \in 1..Len(seen) : seen'[n] = seen[n]
  BY <1>1
<1>3. \A n \in 1..Len(seen) : seen[n] \in Worth
  BY DEF IInv, TriedAgain, Retried, Pending
<1>4. \A n \in 1..Len(seen) : seen'[n] \in Worth
  BY <1>2, <1>3
<1>5. Last' = q
  BY <1>1, <1>2 DEF Last
<1>6. CASE outcome'.kind = "data" /\ left' = left
  <2>1. ~Pending'
    BY <1>6 DEF Pending
  <2>2. Len(seen') - 1 = Len(seen)
    BY <1>1, <1>2
  <2>3. TriedAgain'
    BY <1>4, <2>1, <2>2 DEF TriedAgain, Retried, Pending
  <2>. QED
    BY <1>1, <1>2, <1>6, <2>1, <2>3 DEF IInv, TypeOK, Counted, GivenUp
<1>7. CASE left > 0 /\ q \in Worth /\ left' = left - 1 /\ outcome' = outcome
  <2>1. Pending' /\ outcome'.kind \notin {"data", "failed"}
    BY <1>7 DEF Pending
  <2>2. \A n \in 1..(Len(seen) + 1) : n \in 1..Len(seen) \/ n = Len(seen) + 1
    BY <1>1
  <2>3. \A n \in 1..Len(seen') : seen'[n] \in Worth
    BY <1>2, <1>4, <1>7, <2>2
  <2>4. TriedAgain'
    BY <2>1, <2>3 DEF TriedAgain, Retried, Pending
  <2>5. left' \in 0..MaxRetries /\ Len(seen') = MaxRetries - left'
    BY <1>1, <1>2, <1>7
  <2>. QED
    BY <1>2, <2>1, <2>4, <2>5 DEF IInv, TypeOK, Counted, GivenUp, Pending
<1>8. CASE outcome'.kind = "failed" /\ left' = left /\ (left = 0 \/ q \notin Worth)
  <2>1. ~Pending'
    BY <1>8 DEF Pending
  <2>2. Len(seen') - 1 = Len(seen)
    BY <1>1, <1>2
  <2>3. TriedAgain'
    BY <1>4, <2>1, <2>2 DEF TriedAgain, Retried, Pending
  <2>4. GivenUp'
    BY <1>5, <1>8 DEF GivenUp
  <2>. QED
    BY <1>1, <1>2, <1>8, <2>1, <2>3, <2>4 DEF IInv, TypeOK, Counted
<1>. QED
  BY <1>6, <1>7, <1>8

\* What the catcher decides about an attempt that failed.
LEMMA RejectStep ==
    ASSUME IInv, Pending, NEW q \in Shows, Reject(q, Judged(q))
    PROVE  IInv'
<1>1. seen' = Append(seen, q) /\ left \in Nat
  BY ErrorPolicyAssumption DEF Reject, IInv, TypeOK
<1>2. \/ left > 0 /\ q \in Worth /\ left' = left - 1 /\ outcome' = outcome
      \/ outcome'.kind = "failed" /\ left' = left /\ (left = 0 \/ q \notin Worth)
  BY <1>1 DEF Reject, Worth
<1>. QED
  BY <1>1, <1>2, AttemptStep

\* A reply never shows the timeout.
LEMMA RepliesShow ==
    ASSUME NEW q \in Replies
    PROVE  q.status \in {0} \cup Statuses /\ Judged(q) = ErrorOf(q)
  BY ErrorPolicyAssumption DEF Replies, Shown, Judged

\* Every step preserves the invariant.
LEMMA NextIInv == IInv /\ [Next]_vars => IInv'
<1>. SUFFICES ASSUME IInv, [Next]_vars PROVE IInv'
  OBVIOUS
<1>1. CASE ReplyFinishes
  <2>1. PICK q \in Replies :
          IF q.code = "NoError"
          THEN seen' = Append(seen, q) /\ outcome' = [kind |-> "data", error |-> None] /\ left' = left
          ELSE Reject(q, ErrorOf(q))
    BY <1>1 DEF ReplyFinishes
  <2>2. Pending /\ q \in Shows
    BY <1>1 DEF ReplyFinishes, Pending, Shows
  <2>3. CASE q.code = "NoError"
    BY <2>1, <2>2, <2>3, AttemptStep
  <2>4. CASE q.code # "NoError"
    BY <2>1, <2>2, <2>4, RejectStep, RepliesShow
  <2>. QED
    BY <2>3, <2>4
<1>2. CASE TimesOut
  <2>. DEFINE q == Shown(-1, "Timeout")
  <2>1. q \in Shows /\ Judged(q) = Timeout
    BY DEF Shows, Shown, Judged
  <2>. QED
    BY <1>2, <2>1, RejectStep DEF TimesOut, Pending
<1>3. CASE UNCHANGED vars
  BY <1>3 DEF vars, IInv, TypeOK, Counted, Pending, TriedAgain, Retried, GivenUp, Last
<1>. QED
  BY <1>1, <1>2, <1>3 DEF Next

\* The invariant holds of every execution: the recursion of RetryInterceptor::attempt
\* (Interceptor.cpp:81) counts its attempts, and goes on after errors worth it only.
THEOREM IInvHolds == Spec => []IInv
  BY InitIInv, NextIInv, PTL DEF Spec

---------------------------------------------------------------------------
\* Whoever is told of an error the policy would retry was told after every
\* retry (TransientOutlived): Interceptor.cpp:89's two conditions are the only
\* ways out of the catcher.
THEOREM TransientOutlivedHolds == Spec => []TransientOutlived
<1>1. IInv => TransientOutlived
  <2>. SUFFICES ASSUME IInv, outcome.kind = "failed",
                       \/ Last.status \in {429, 500, 502, 503, 504, -1}
                       \/ Last.status = 0 /\ Last.code \in {"ConnectionRefused",
                                      "RemoteHostClosed", "TemporaryNetworkFailure"}
                PROVE  Len(seen) = MaxRetries + 1
    BY DEF TransientOutlived
  <2>1. ShouldRetry(Judged(Last))
    BY DEF Judged, ErrorOf, Error, Timeout, ShouldRetry, kPermanent, kPermanentHttp
  <2>2. left = 0
    BY <2>1 DEF IInv, GivenUp, Worth
  <2>. QED
    BY <2>2, ErrorPolicyAssumption DEF IInv, Counted, Pending
<1>. QED
  BY <1>1, IInvHolds, PTL

\* The codes Qt keeps for single statuses: which of them the policy retries.
LEMMA Codes ==
    /\ DedicatedCode[500] = "InternalServer" /\ DedicatedCode[503] = "ServiceUnavailable"
    /\ \A s \in DOMAIN DedicatedCode :
          /\ DedicatedCode[s] \notin kPermanent => s \in {500, 503}
          /\ s \notin kPermanentHttp => s \in {407, 418, 500, 503}
          /\ s \in {500, 503} => s \notin kPermanentHttp
          /\ DedicatedCode[s] \notin {"UnknownServer", "UnknownContent", "NoError",
                                      "RemoteHostClosed", "Timeout"}
    /\ {"InternalServer", "ServiceUnavailable"} \cap kPermanent = {}
  BY DEF DedicatedCode, kPermanent, kPermanentHttp

Dedicated == {DedicatedCode[s] : s \in DOMAIN DedicatedCode}

\* A reply with a status line shows a dedicated code for its own status only.
LEMMA OwnStatus ==
    ASSUME NEW q \in Shows, q.code \in Dedicated, q.status # 0
    PROVE  q.status \in DOMAIN DedicatedCode /\ q.code = DedicatedCode[q.status] /\ q.status > 0
<1>1. q.code \notin {"UnknownServer", "UnknownContent", "NoError", "RemoteHostClosed", "Timeout"}
  BY Codes DEF Dedicated
<1>2. PICK s \in Statuses : q = Shown(s, CodeOf(s))
  BY <1>1 DEF Shows, Replies, Shown
<1>3. s \in 100..599 /\ q.status = s /\ q.code = CodeOf(s)
  BY <1>2, ErrorPolicyAssumption DEF Shown
<1>4. s \in DOMAIN DedicatedCode /\ CodeOf(s) = DedicatedCode[s]
  BY <1>1, <1>3 DEF CodeOf
<1>. QED
  BY <1>3, <1>4

\* Of the dedicated codes the policy retries two, in either form, but for the
\* statuses 407 and 418.
LEMMA WorthIs ==
    ASSUME NEW q \in Shows, q.code \in Dedicated
    PROVE  /\ q \in Worth /\ q.status \notin {407, 418}
                 => q.code \in {"InternalServer", "ServiceUnavailable"}
           /\ q.code \in {"InternalServer", "ServiceUnavailable"} => q \in Worth
<1>1. CASE q.status = 0
  <2>1. ShouldRetry(Judged(q)) <=> q.code \notin kPermanent
    BY <1>1 DEF Judged, ErrorOf, Error, ShouldRetry
  <2>. QED
    BY <2>1, Codes DEF Worth, Dedicated
<1>2. CASE q.status # 0
  <2>1. q.status \in DOMAIN DedicatedCode /\ q.code = DedicatedCode[q.status] /\ q.status > 0
    BY <1>2, OwnStatus
  <2>2. q.status # -1
    BY <2>1 DEF DedicatedCode
  <2>3. ShouldRetry(Judged(q)) <=> q.status \notin kPermanentHttp
    BY <2>1, <2>2 DEF Judged, ErrorOf, Error, ShouldRetry
  <2>4. q.code \in {"InternalServer", "ServiceUnavailable"} => q.status \in {500, 503}
    BY <2>1, Codes
  <2>. QED
    BY <2>1, <2>3, <2>4, Codes DEF Worth
<1>. QED
  BY <1>1, <1>2

\* What ended the request was not retried before in its other form (JudgedAlike):
\* the lists of codes and of statuses at Interceptor.cpp:20 and :45 agree.
THEOREM JudgedAlikeHolds == Spec => []JudgedAlike
<1>1. IInv => JudgedAlike
  <2>. SUFFICES ASSUME IInv, outcome.kind = "failed", left > 0,
                       NEW q \in Retried, q.code = Last.code, q.status \notin {407, 418},
                       q.code \in Dedicated
                PROVE  FALSE
    BY DEF JudgedAlike, Dedicated
  <2>1. Last \in Shows \ Worth
    BY DEF IInv, GivenUp
  <2>2. q \in Worth /\ q \in Shows
    BY DEF IInv, TriedAgain, Worth
  <2>3. q.code \in {"InternalServer", "ServiceUnavailable"}
    BY <2>2, WorthIs
  <2>4. Last \in Worth
    BY <2>1, <2>3, WorthIs
  <2>. QED
    BY <2>1, <2>4
<1>. QED
  BY <1>1, IInvHolds, PTL
=============================================================================

------------------------ MODULE MultipartUploadProofs ------------------------
(***************************************************************************)
(* That at most one upload runs, that an attempt begins with nothing left  *)
(* of the ones before, and that every object has an owner, for any form    *)
(* and any number of retries.                                              *)
(*                                                                         *)
(* The invariant is the shape of the ownership: all that lives belongs to  *)
(* the present attempt; a file hangs from its form, a form from the guard, *)
(* its reply or a deferred deletion, a reply from the client's manager;    *)
(* and once the attempt has settled its reply is due for deletion.         *)
(*                                                                         *)
(* What an attempt has sent is told apart by its last block, from which it *)
(* follows where each of its devices stands, and so what is sent next.     *)
(*                                                                         *)
(* The second half of this module is about what the form's parts, and the  *)
(* other arguments of a typed request, come from: make() and its           *)
(* conversion (TypedRequest), whose texts and groups are sequences joined. *)
(***************************************************************************)
EXTENDS MultipartUpload, TypedRequest, SequenceTheorems, FiniteSetTheorems,
        WellFoundedInduction, TLAPS

R == Reply(attempt)
F == Form(attempt)
Later == {"settled", "done"}

Belongs == \A o \in Live : o = R \/ o = F \/ \E k \in DOMAIN Parts : o = File(attempt, k)

ReplyHeld ==
    R \in Live =>
        /\ client /\ parent[R] = Manager
        /\ phase \notin {"ready", "building"}
        /\ phase \in Later => attempt \in finished
        /\ attempt \in finished => R \in doomed

FormHeld ==
    F \in Live =>
        \/ phase = "building" /\ parent[F] = Guard
        \/ R \in Live /\ parent[F] = R
        \/ phase \in Later /\ parent[F] = Nobody /\ F \in doomed

FilesHeld ==
    \A k \in DOMAIN Parts :
        File(attempt, k) \in Live => F \in Live /\ parent[File(attempt, k)] = F

Shape ==
    /\ attempt \in Attempts
    /\ phase \in {"ready", "building", "running", "late"} \cup Later
    /\ finished \subseteq 1..attempt
    /\ doomed \subseteq Live \cap {R, F}
    /\ phase = "ready" => Live = {}
    /\ phase = "building" => client /\ F \in Live /\ doomed = {}
    /\ phase \in {"ready", "building"} => attempt \notin finished
    /\ Belongs /\ ReplyHeld /\ FormHeld /\ FilesHeld

---------------------------------------------------------------------------
\* Objects of different kinds or attempts are different.
LEMMA Distinct ==
    /\ \A m, n : Reply(m) = Reply(n) => m = n
    /\ \A m, n : Form(m) = Form(n) => m = n
    /\ \A m, n : Form(m) # Reply(n)
    /\ \A m, n, k : File(m, k) # Reply(n) /\ File(m, k) # Form(n)
    /\ \A m, n, j, k : File(m, j) = File(n, k) => m = n /\ j = k
    /\ \A n : Reply(n) \notin {Guard, Manager, Nobody} /\ Form(n) \notin {Guard, Manager, Nobody}
    /\ \A n, k : File(n, k) \notin {Guard, Manager, Nobody}
    /\ Guard # Manager /\ Guard # Nobody /\ Manager # Nobody
  BY DEF Reply, Form, File, Guard, Manager, Nobody

\* Family(x) of the reply or the form goes as a whole: no file is left without its
\* form, and no form without its reply.
LEMMA FamilyClosed ==
    ASSUME Shape, NEW x \in {R, F}
    PROVE  /\ \A k \in DOMAIN Parts :
                 File(attempt, k) \in Live \ Family(x) => F \in Live \ Family(x)
           /\ F \in Live \ Family(x) /\ parent[F] = R => R \in Live \ Family(x)
           /\ x \notin Live \ Family(x)
           /\ x = R /\ F \in Live /\ parent[F] = R => F \in Family(x)
<1>. USE DEF Shape, R, F
<1>1. Manager \notin Live /\ Guard \notin Live /\ Nobody \notin Live
  BY Distinct DEF Belongs
<1>2. x \notin Live \ Family(x)
  BY DEF Family
<1>3. x = R /\ F \in Live /\ parent[F] = R => F \in Family(x)
  BY DEF Family
<1>4. ASSUME F \in Live, F \notin Family(x), parent[F] = R
      PROVE  R \in Live \ Family(x)
  <2>1. R \in Live /\ parent[R] = Manager
    BY <1>4, Distinct DEF FormHeld, ReplyHeld
  <2>2. x # R /\ x # F
    BY <1>4 DEF Family
  <2>. QED
    BY <2>2
<1>5. ASSUME NEW k \in DOMAIN Parts,
             File(attempt, k) \in Live, File(attempt, k) \notin Family(x)
      PROVE  F \in Live \ Family(x)
  <2>1. F \in Live /\ parent[File(attempt, k)] = F
    BY <1>5 DEF FilesHeld
  <2>2. F # x /\ parent[F] # x
    BY <1>5, <2>1 DEF Family
  <2>3. parent[F] \notin Live
    BY <1>1, <2>1, <2>2 DEF FormHeld
  <2>. QED
    BY <2>1, <2>2, <2>3 DEF Family
<1>. QED
  BY <1>2, <1>3, <1>4, <1>5

\* Of the earlier replies nothing is left to be lost with the client.
LEMMA OnlyThisReply ==
    ASSUME Shape
    PROVE  UNION {Family(Reply(n)) : n \in Attempts} = Family(R)
<1>1. ASSUME NEW n \in Attempts, n # attempt, NEW o \in Family(Reply(n))
      PROVE  FALSE
  <2>. DEFINE x == Reply(n)
  <2>1. x \notin Live /\ x # Manager /\ x # Guard /\ x # Nobody /\ x # R /\ x # F
    BY <1>1, Distinct DEF Shape, Belongs, R, F
  <2>2. \A p \in Live : parent[p] # x
    BY <2>1 DEF Shape, Belongs, ReplyHeld, FormHeld, FilesHeld
  <2>. QED
    BY <1>1, <2>1, <2>2 DEF Family
<1>2. \A n \in Attempts : n # attempt => Family(Reply(n)) = {}
  BY <1>1
<1>. QED
  BY <1>2 DEF Shape, R


---------------------------------------------------------------------------
\* Nothing exists yet.
LEMMA InitShape == Init => Shape
<1>. SUFFICES ASSUME Init PROVE Shape
  OBVIOUS
<1>1. Live = {} /\ 1 \in Attempts
  BY MultipartUploadAssumption DEF Init, Live, Attempts
<1>. QED
  BY <1>1 DEF Init, Shape, Belongs, ReplyHeld, FormHeld, FilesHeld

\* The terminus: a form is built below its guard, and handed to the reply or doomed.
LEMMA TerminusShape == Shape /\ Terminus => Shape'
<1>. SUFFICES ASSUME Shape, Terminus PROVE Shape'
  OBVIOUS
<1>. USE DEF Shape, Later, R, F, Live
<1>1. CASE ClientGone
  BY <1>1 DEF ClientGone, Settle, Belongs, ReplyHeld, FormHeld, FilesHeld
<1>2. CASE Begin
  BY <1>2, Distinct DEF Begin, With, Belongs, ReplyHeld, FormHeld, FilesHeld
<1>3. ASSUME NEW k \in DOMAIN Parts, AddPart(k) PROVE Shape'
  <2>1. /\ phase = "building" /\ R \notin Live /\ parent[F] = Guard
        /\ UNCHANGED <<attempt, phase, client, finished, doomed>>
    BY <1>3, Distinct DEF AddPart, Turn, ReplyHeld, FormHeld
  <2>2. CASE Parts[k] = "file"
    <3>1. /\ DOMAIN parent' = Live \cup {File(attempt, k)}
          /\ parent'[File(attempt, k)] = F
          /\ \A o \in Live : o # File(attempt, k) => parent'[o] = parent[o]
      BY <1>3, <2>2 DEF AddPart, With
    <3>. QED
      BY <2>1, <3>1, Distinct DEF Belongs, ReplyHeld, FormHeld, FilesHeld
  <2>3. CASE Parts[k] # "file"
    <3>1. parent' = parent
      BY <1>3, <2>3 DEF AddPart
    <3>. QED
      BY <2>1, <3>1 DEF Belongs, ReplyHeld, FormHeld, FilesHeld
  <2>. QED
    BY <2>2, <2>3
<1>4. ASSUME NEW k \in DOMAIN Parts, OpenFails(k) PROVE Shape'
  <2>1. R \notin Live
    BY <1>4 DEF OpenFails, Turn, ReplyHeld
  <2>2. \A o \in Live : o \in Family(F)
    BY <2>1 DEF Family, Belongs, FilesHeld
  <2>3. DOMAIN parent' = {}
    BY <1>4, <2>2 DEF OpenFails, Without
  <2>. QED
    BY <1>4, <2>3 DEF OpenFails, Turn, Settle, Belongs, ReplyHeld, FormHeld, FilesHeld
<1>5. CASE Post
  <2>1. R \notin Live /\ F \in Live
    BY <1>5 DEF Post, Complete, ReplyHeld
  <2>2. /\ DOMAIN parent' = Live \cup {R}
        /\ parent'[R] = Manager /\ parent'[F] = R
        /\ \A o \in Live : o # F => parent'[o] = parent[o]
    BY <1>5, <2>1, Distinct DEF Post, With
  <2>. QED
    BY <1>5, <2>1, <2>2, Distinct
    DEF Post, Complete, Belongs, ReplyHeld, FormHeld, FilesHeld
<1>6. CASE NoReply
  <2>1. R \notin Live /\ F \in Live
    BY <1>6 DEF NoReply, Complete, ReplyHeld
  <2>2. /\ DOMAIN parent' = Live
        /\ parent'[F] = Nobody
        /\ \A o \in Live : o # F => parent'[o] = parent[o]
    BY <1>6, <2>1 DEF NoReply
  <2>. QED
    BY <1>6, <2>1, <2>2, Distinct
    DEF NoReply, Complete, Settle, Belongs, ReplyHeld, FormHeld, FilesHeld
<1>. QED
  BY <1>1, <1>2, <1>3, <1>4, <1>5, <1>6 DEF Terminus

\* Taking the family of the reply or of the form away.
LEMMA WithoutShape ==
    ASSUME Shape, NEW x \in {R, F}, phase \notin {"ready", "building"},
           parent' = Without(Family(x)), doomed' = doomed \ Family(x),
           x # R => client' = client,
           UNCHANGED <<attempt, phase, finished>>
    PROVE  Shape'
<1>1. /\ DOMAIN parent' = Live \ Family(x)
      /\ \A o \in DOMAIN parent' : o \in Live /\ parent'[o] = parent[o]
  BY DEF Without, Live
<1>2. Belongs' /\ FilesHeld'
  BY <1>1, FamilyClosed DEF Shape, Belongs, FilesHeld, Live, R, F
<1>3. ReplyHeld'
  <2>1. SUFFICES ASSUME R' \in Live'
                 PROVE  /\ client' /\ parent'[R'] = Manager
                        /\ phase' \notin {"ready", "building"}
                        /\ phase' \in Later => attempt' \in finished'
                        /\ attempt' \in finished' => R' \in doomed'
    BY DEF ReplyHeld
  <2>2. R' = R /\ R \in Live \ Family(x) /\ x # R /\ client' = client
    BY <1>1, <2>1, FamilyClosed DEF R, Live
  <2>. QED
    BY <1>1, <2>2 DEF Shape, ReplyHeld, Live, R
<1>4. FormHeld'
  BY <1>1, FamilyClosed DEF Shape, FormHeld, Live, R, F
<1>. QED
  BY <1>1, <1>2, <1>3, <1>4 DEF Shape, Live, R, F, Later

\* The event loop: an attempt given up is aborted, so that its reply is doomed.
LEMMA LoopShape == Shape /\ Loop => Shape'
<1>. SUFFICES ASSUME Shape, Loop PROVE Shape'
  OBVIOUS
<1>1. CASE TimesOut \/ Answer
  BY <1>1 DEF TimesOut, Answer, Shape, Later, R, F, Live, Belongs, ReplyHeld, FormHeld,
              FilesHeld
<1>2. CASE Abort
  <2>1. /\ finished' \subseteq 1..attempt
        /\ doomed' \subseteq Live \cap {R, F} /\ doomed \subseteq doomed'
        /\ R \in Live => R \in doomed' /\ attempt \in finished'
    BY <1>2 DEF Abort, Running, Attempts, Shape, ReplyHeld, R, F
  <2>. QED
    BY <1>2, <2>1 DEF Abort, Settle, Shape, Later, R, F, Live, Belongs, ReplyHeld,
                      FormHeld, FilesHeld
<1>3. CASE Retry
  <2>1. Live = {}
    BY <1>3 DEF Retry, Shape, Later, Belongs, ReplyHeld, FormHeld, FilesHeld
  <2>2. attempt' \in Attempts /\ finished \subseteq 1..attempt' /\ attempt' \notin finished
    BY <1>3, MultipartUploadAssumption DEF Retry, Shape, Attempts
  <2>. QED
    BY <1>3, <2>1, <2>2 DEF Retry, Shape, R, F, Live, Belongs, ReplyHeld, FormHeld, FilesHeld
<1>4. ASSUME NEW x \in doomed, Reclaim(x) PROVE Shape'
  <2>1. x \in {R, F} /\ phase \notin {"ready", "building"}
    BY <1>4 DEF Reclaim, Shape, Live
  <2>. QED
    BY <1>4, <2>1, WithoutShape DEF Reclaim
<1>. QED
  BY <1>1, <1>2, <1>3, <1>4 DEF Loop

\* The network: only the reply of this attempt can still finish.
LEMMA NetworkShape == Shape /\ Network => Shape'
<1>. SUFFICES ASSUME Shape, Network PROVE Shape'
  OBVIOUS
<1>1. ASSUME NEW n \in Attempts, Read(n) PROVE Shape'
  BY <1>1 DEF Read, Shape, Later, R, F, Live, Belongs, ReplyHeld, FormHeld, FilesHeld
<1>2. ASSUME NEW n \in Attempts, NEW outcome, Finish(n, outcome) PROVE Shape'
  <2>1. n = attempt
    BY <1>2, Distinct DEF Finish, Running, Shape, Belongs, R, F
  <2>. QED
    BY <1>2, <2>1 DEF Finish, Running, Settle, Attempts, Shape, Later, R, F, Live, Belongs,
                      ReplyHeld, FormHeld, FilesHeld
<1>. QED
  BY <1>1, <1>2 DEF Network

\* The client: its replies go with it.
LEMMA DestroyShape == Shape /\ DestroyClient => Shape'
<1>. SUFFICES ASSUME Shape, DestroyClient PROVE Shape'
  OBVIOUS
<1>1. parent' = Without(Family(R)) /\ doomed' = doomed \ Family(R)
  BY OnlyThisReply DEF DestroyClient
<1>2. CASE phase = "ready"
  BY <1>1, <1>2 DEF DestroyClient, Without, Shape, R, F, Live, Belongs, ReplyHeld, FormHeld,
                    FilesHeld
<1>3. CASE phase # "ready"
  BY <1>1, <1>3, WithoutShape DEF DestroyClient
<1>. QED
  BY <1>2, <1>3

\* Every step preserves the shape.
LEMMA ShapeStep == Shape /\ [Next]_vars => Shape'
<1>1. ASSUME Shape, UNCHANGED vars PROVE Shape'
  BY <1>1 DEF vars, Shape, R, F, Live, Belongs, ReplyHeld, FormHeld, FilesHeld
<1>. QED
  BY <1>1, TerminusShape, LoopShape, NetworkShape, DestroyShape DEF Next

\* The object tree has its shape in every execution: what buildMultipart
\* (HttpSpec.cpp:139) and an attempt made belongs to the present attempt, or is due for deletion.
THEOREM ShapeHolds == Spec => []Shape
  BY InitShape, ShapeStep, PTL DEF Spec

---------------------------------------------------------------------------
\* NetworkClient.cpp:136: at every call of the terminus nothing is left of the
\* attempts before it, whatever they came to.
THEOREM CleanStartHolds == Spec => []CleanStart
<1>1. Shape => CleanStart
  BY DEF Shape, CleanStart
<1>. QED
  BY <1>1, ShapeHolds, PTL

\* NetworkClient.cpp:221: of two uploads one has always been stopped.
THEOREM OneUploadHolds == Spec => []OneUpload
<1>1. Shape => OneUpload
  BY Distinct DEF Shape, Belongs, Running, OneUpload, R, F
<1>. QED
  BY <1>1, ShapeHolds, PTL

\* RequestConverter.h:96: no form and no open file is ever without somebody who takes
\* it along.
THEOREM OwnedHolds == Spec => []Owned
<1>1. ASSUME Shape, NEW o \in Live
      PROVE  \/ phase = "building" /\ o \in Family(Form(attempt)) /\ parent[Form(attempt)] = Guard
             \/ client /\ \E n \in Attempts : Reply(n) \in Live /\ o \in Family(Reply(n))
             \/ \E x \in doomed : o \in Family(x)
  <2>1. CASE o = R
    BY <1>1, <2>1 DEF Shape, ReplyHeld, Family, R
  <2>2. CASE o # R
    <3>1. F \in Live /\ (o = F \/ parent[o] = F)
      BY <1>1, <2>2 DEF Shape, Belongs, FilesHeld
    <3>2. o \in Family(F)
      BY <3>1 DEF Family
    <3>3. CASE R \in Live /\ parent[F] = R
      <4>1. o \in Family(R)
        BY <3>1, <3>3 DEF Family
      <4>. QED
        BY <1>1, <3>3, <4>1 DEF Shape, ReplyHeld, R
    <3>. QED
      BY <1>1, <3>1, <3>2, <3>3 DEF Shape, FormHeld, F
  <2>. QED
    BY <2>1, <2>2
<1>2. Shape => Owned
  BY <1>1 DEF Owned
<1>. QED
  BY <1>2, ShapeHolds, PTL

---------------------------------------------------------------------------
(* What is sent and heard.  The last block sent tells where every device   *)
(* of the form stands: those of the parts before it are at their ends,     *)
(* that of its own part behind it, the others where they were opened.      *)

\* One element more.
LEMMA AppendIs ==
    ASSUME NEW S, NEW s \in Seq(S), NEW x \in S
    PROVE  /\ Len(s) \in Nat /\ DOMAIN s = 1..Len(s)
           /\ Append(s, x) \in Seq(S) /\ DOMAIN Append(s, x) = 1..(Len(s) + 1)
           /\ Append(s, x) = [i \in DOMAIN Append(s, x) |-> Append(s, x)[i]]
           /\ \A i \in 1..(Len(s) + 1) : Append(s, x)[i] = IF i = Len(s) + 1 THEN x ELSE s[i]
<1>1. Len(s) \in Nat /\ DOMAIN s = 1..Len(s)
  OBVIOUS
<1>2. Append(s, x) \in Seq(S) /\ Len(Append(s, x)) = Len(s) + 1
  OBVIOUS
<1>3. DOMAIN Append(s, x) = 1..(Len(s) + 1)
  BY <1>2
<1>4. Append(s, x) = [i \in DOMAIN Append(s, x) |-> Append(s, x)[i]]
  <2>1. \A t \in Seq(S) : t = [i \in DOMAIN t |-> t[i]]
    OBVIOUS
  <2>. QED
    BY <1>2, <2>1
<1>5. \A i \in 1..(Len(s) + 1) : Append(s, x)[i] = IF i = Len(s) + 1 THEN x ELSE s[i]
  OBVIOUS
<1>. QED
  BY <1>1, <1>2, <1>3, <1>4, <1>5

Devs  == {Device(n, k) : n \in Attempts, k \in DOMAIN Parts}
Block == Nat \X Nat

\* Part by part the devices of form n are its own.
Fitted(n) ==
    /\ Len(devices[n]) <= Len(Parts)
    /\ \A k \in 1..Len(devices[n]) : devices[n][k] = Device(n, k) /\ Device(n, k) \in DOMAIN at

\* Form n has been read up to block q of part j.
Stands(n, j, q) ==
    \A k \in 1..Len(devices[n]) :
        at[Device(n, k)] = IF k < j THEN Size(k) ELSE IF k = j THEN q ELSE 0

\* The last block sent is where the devices stand.
Cursor(n) ==
    LET sent == body[n]
    IN  /\ sent = <<>> => Stands(n, 1, 0)
        /\ sent # <<>> => \E j \in 1..Len(devices[n]) : \E q \in 1..Size(j) :
                              sent[Len(sent)] = <<j, q>> /\ Stands(n, j, q)

Line(n) ==
    \A i \in DOMAIN body[n] : body[n][i] = IF i = 1 THEN <<1, 1>> ELSE After(body[n][i - 1])

AllOf(n) ==
    LET sent == body[n]
    IN  sent # <<>> /\ After(sent[Len(sent)]) = <<Len(Parts) + 1, 1>>

Typed ==
    /\ devices \in [Attempts -> Seq(Devs)] /\ body \in [Attempts -> Seq(Block)]

Sent ==
    /\ Typed
    /\ \A n \in Attempts : Fitted(n) /\ Cursor(n) /\ Line(n)

\* When devices are opened, when all are, and when they have been read.
Order ==
    /\ \A n \in Attempts : n > attempt => devices[n] = <<>> /\ body[n] = <<>>
    /\ phase = "ready" => devices[attempt] = <<>>
    /\ phase \in {"ready", "building"} => body[attempt] = <<>>
    /\ R \in Live => Len(devices[attempt]) = Len(Parts)
    /\ result = "ok" => phase \in Later /\ attempt \in finished /\ AllOf(attempt)

\* What the callback heard last of this attempt is what has been sent of it.
Heard ==
    /\ heard \in Nat \X Nat /\ heard[1] <= attempt
    /\ heard[1] = attempt => heard[2] = Len(body[attempt])

LEMMA PartsAre ==
    /\ Len(Parts) \in Nat \ {0} /\ DOMAIN Parts = 1..Len(Parts)
    /\ \A k \in DOMAIN Parts : Size(k) \in Nat \ {0}
<1>1. Len(Parts) \in Nat \ {0} /\ DOMAIN Parts = 1..Len(Parts)
  BY MultipartUploadAssumption
<1>2. \A k \in DOMAIN Parts : Size(k) \in Nat \ {0}
  BY MultipartUploadAssumption DEF Size
<1>. QED
  BY <1>1, <1>2

\* No two parts, of one form or of two, are read from one device.
LEMMA DevicesDiffer ==
    \A m, n, j, k : Device(m, j) = Device(n, k) => m = n /\ j = k
  BY DEF Device, File

\* What is sent next is what follows the last block sent, and the form has been read up
\* to there.
LEMMA NextBlock ==
    ASSUME Sent, NEW n \in Attempts,
           NEW k \in Unread(n), \A j \in Unread(n) : k <= j
    PROVE  /\ k \in 1..Len(devices[n]) /\ devices[n][k] = Device(n, k)
           /\ at[Device(n, k)] \in Nat /\ at[Device(n, k)] + 1 \in 1..Size(k)
           /\ Stands(n, k, at[Device(n, k)])
           /\ <<k, at[Device(n, k)] + 1>> = IF body[n] = <<>> THEN <<1, 1>>
                                            ELSE After(body[n][Len(body[n])])
<1>. DEFINE len == Len(devices[n])
            pos(i) == at[Device(n, i)]
<1>1. /\ len \in Nat /\ DOMAIN devices[n] = 1..len
      /\ \A i \in 1..len : Size(i) \in Nat \ {0} /\ devices[n][i] = Device(n, i)
  <2>1. devices[n] \in Seq(Devs) /\ len <= Len(Parts)
    BY DEF Sent, Typed, Fitted
  <2>2. len \in Nat /\ DOMAIN devices[n] = 1..len
    BY <2>1
  <2>3. \A i \in 1..len : i \in DOMAIN Parts
    BY <2>1, <2>2, PartsAre
  <2>4. \A i \in 1..len : devices[n][i] = Device(n, i)
    BY DEF Sent, Fitted
  <2>. QED
    BY <2>2, <2>3, <2>4, PartsAre
<1>2. Unread(n) = {i \in 1..len : pos(i) < Size(i)}
  BY <1>1 DEF Unread
<1>3. k \in 1..len /\ pos(k) < Size(k) /\ k \in Nat
  BY <1>1, <1>2
<1>4. CASE body[n] = <<>>
  <2>1. \A i \in 1..len : pos(i) = IF i < 1 THEN Size(i) ELSE IF i = 1 THEN 0 ELSE 0
    BY <1>4 DEF Sent, Cursor, Stands
  <2>2. \A i \in 1..len : pos(i) = 0
    BY <1>1, <2>1
  <2>. HIDE DEF pos
  <2>3. 1 \in Unread(n)
    <3>1. 1 \in 1..len
      BY <1>1, <1>3
    <3>. QED
      BY <1>1, <1>2, <2>2, <3>1
  <2>4. k = 1 /\ pos(k) = 0
    BY <1>3, <2>2, <2>3
  <2>5. Stands(n, k, pos(k))
    BY <1>1, <2>2, <2>4 DEF Stands, pos
  <2>. QED
    BY <1>1, <1>3, <1>4, <2>4, <2>5 DEF pos
<1>5. CASE body[n] # <<>>
  <2>1. PICK j \in 1..len : \E q \in 1..Size(j) :
           body[n][Len(body[n])] = <<j, q>> /\ Stands(n, j, q)
    BY <1>5 DEF Sent, Cursor
  <2>2. PICK q \in 1..Size(j) : body[n][Len(body[n])] = <<j, q>> /\ Stands(n, j, q)
    BY <2>1
  <2>3. \A i \in 1..len : pos(i) = IF i < j THEN Size(i) ELSE IF i = j THEN q ELSE 0
    BY <2>2 DEF Stands
  <2>4. j \in Nat /\ Size(j) \in Nat /\ q \in Nat /\ q <= Size(j) /\ q >= 1
    BY <1>1, <2>2
  <2>. HIDE DEF pos
  <2>5. After(<<j, q>>) = IF q < Size(j) THEN <<j, q + 1>> ELSE <<j + 1, 1>>
    BY DEF After
  <2>6. CASE q < Size(j)
    <3>1. k = j
      <4>1. j \in Unread(n)
        BY <1>2, <2>3, <2>4, <2>6
      <4>2. ~(k < j)
        BY <1>1, <1>3, <2>3
      <4>. QED
        BY <1>3, <2>4, <4>1, <4>2
    <3>2. pos(k) = q
      BY <2>3, <2>4, <3>1
    <3>3. Stands(n, k, pos(k))
      BY <2>2, <3>1, <3>2
    <3>. QED
      BY <1>1, <1>3, <1>5, <2>2, <2>4, <2>5, <2>6, <3>1, <3>2, <3>3 DEF pos
  <2>7. CASE q = Size(j)
    <3>1. k > j
      <4>1. ~(k < j) /\ k # j
        BY <1>1, <1>3, <2>3, <2>4, <2>7
      <4>. QED
        BY <1>3, <2>4, <4>1
    <3>2. j + 1 \in 1..len
      BY <1>1, <1>3, <2>4, <3>1
    <3>3. j + 1 \in Unread(n)
      BY <1>1, <1>2, <2>3, <2>4, <3>2
    <3>4. k = j + 1
      BY <1>3, <2>4, <3>1, <3>3
    <3>5. pos(k) = 0
      BY <1>3, <2>3, <2>4, <3>4
    <3>6. \A i \in 1..len : pos(i) = IF i < k THEN Size(i) ELSE IF i = k THEN 0 ELSE 0
      BY <1>1, <2>3, <2>4, <2>7, <3>4
    <3>7. Stands(n, k, pos(k))
      BY <3>5, <3>6 DEF Stands, pos
    <3>. QED
      BY <1>1, <1>3, <1>5, <2>2, <2>4, <2>5, <2>7, <3>4, <3>5, <3>7 DEF pos
  <2>. QED
    BY <2>4, <2>6, <2>7
<1>. QED
  BY <1>4, <1>5

\* One more block goes out, the next one.
LEMMA ReadSends ==
    ASSUME Sent, NEW n \in Attempts, Read(n)
    PROVE  Sent' /\ Len(body'[n]) = Len(body[n]) + 1 /\ Len(body[n]) \in Nat
<1>. DEFINE b == body[n]
<1>1. PICK k \in Unread(n) :
         LET d == devices[n][k]
         IN  /\ \A j \in Unread(n) : k <= j
             /\ at' = [at EXCEPT ![d] = @ + 1]
             /\ body' = [body EXCEPT ![n] = Append(@, <<k, at[d] + 1>>)]
  BY DEF Read
<1>. DEFINE d == Device(n, k)
<1>2. PICK q : q = at[d] + 1
  OBVIOUS
<1>. DEFINE more == Append(b, <<k, q>>)
<1>3. /\ k \in 1..Len(devices[n]) /\ devices[n][k] = d
      /\ at[d] \in Nat /\ q \in 1..Size(k)
      /\ Stands(n, k, at[d])
      /\ <<k, q>> = IF b = <<>> THEN <<1, 1>> ELSE After(b[Len(b)])
  BY <1>2, <1>1, NextBlock
<1>4. at' = [at EXCEPT ![d] = q] /\ body' = [body EXCEPT ![n] = more] /\ devices' = devices
  BY <1>2, <1>1, <1>3 DEF Read
<1>5. /\ Attempts' = Attempts /\ Devs' = Devs
      /\ b \in Seq(Block) /\ body \in [Attempts -> Seq(Block)]
      /\ \A m \in Attempts : Fitted(m) /\ Cursor(m) /\ Line(m)
      /\ d \in DOMAIN at
  <2>1. Attempts' = Attempts /\ Devs' = Devs
    BY DEF Attempts, Devs, Device, File
  <2>2. b \in Seq(Block) /\ body \in [Attempts -> Seq(Block)]
    BY DEF Sent, Typed
  <2>3. \A m \in Attempts : Fitted(m) /\ Cursor(m) /\ Line(m)
    BY DEF Sent
  <2>4. d \in DOMAIN at
    BY <1>3, <2>3 DEF Fitted
  <2>. QED
    BY <2>1, <2>2, <2>3, <2>4
<1>6. <<k, q>> \in Block /\ k \in Nat /\ q \in Nat
  BY <1>2, <1>3 DEF Block
<1>7. /\ Len(b) \in Nat /\ DOMAIN b = 1..Len(b)
      /\ more \in Seq(Block) /\ DOMAIN more = 1..(Len(b) + 1)
      /\ \A i \in 1..(Len(b) + 1) : more[i] = IF i = Len(b) + 1 THEN <<k, q>> ELSE b[i]
  BY <1>5, <1>6, AppendIs
<1>8. Len(more) = Len(b) + 1 /\ more # <<>> /\ more[Len(more)] = <<k, q>>
  BY <1>5, <1>6, <1>7
<1>. HIDE DEF d, more
<1>9. body'[n] = more /\ \A m \in Attempts : m # n => body'[m] = body[m]
  BY <1>4, <1>5
<1>10. at'[d] = q /\ DOMAIN at' = DOMAIN at /\ \A x \in DOMAIN at : x # d => at'[x] = at[x]
  BY <1>4, <1>5
<1>11. \A m, i : m # n \/ i # k => Device(m, i) # d
  BY DevicesDiffer DEF d
<1>12. \A m \in Attempts : Fitted(m)'
  BY <1>4, <1>5, <1>10 DEF Fitted, Device, File
<1>13. ASSUME NEW m \in Attempts, m # n PROVE Cursor(m)' /\ Line(m)'
  <2>1. \A i \in 1..Len(devices[m]) : at'[Device(m, i)] = at[Device(m, i)]
    BY <1>5, <1>10, <1>11, <1>13 DEF Fitted
  <2>2. \A j, p : Stands(m, j, p)' <=> Stands(m, j, p)
    BY <1>4, <2>1 DEF Stands, Device, File, Size
  <2>3. \A x : After(x)' = After(x)
    BY DEF After, Size
  <2>4. Cursor(m)' <=> Cursor(m)
    BY <1>4, <1>9, <1>13, <2>2 DEF Cursor, Size
  <2>. QED
    BY <1>5, <1>9, <1>13, <2>3, <2>4 DEF Line
<1>14. Cursor(n)'
  <2>1. \A i \in 1..Len(devices[n]) : i # k => at'[Device(n, i)] = at[Device(n, i)]
    BY <1>5, <1>10, <1>11 DEF Fitted
  <2>2. at'[Device(n, k)] = q
    BY <1>10 DEF d
  <2>3. ASSUME NEW i \in 1..Len(devices[n])
        PROVE  at'[Device(n, i)] = IF i < k THEN Size(i) ELSE IF i = k THEN q ELSE 0
    <3>1. CASE i = k
      BY <1>6, <2>2, <3>1
    <3>2. CASE i # k
      <4>1. at[Device(n, i)] = IF i < k THEN Size(i) ELSE IF i = k THEN at[d] ELSE 0
        BY <1>3 DEF Stands
      <4>. QED
        BY <2>1, <3>2, <4>1
    <3>. QED
      BY <3>1, <3>2
  <2>4. Stands(n, k, q)'
    BY <1>4, <2>3 DEF Stands, Device, File, Size
  <2>. QED
    BY <1>3, <1>4, <1>8, <1>9, <2>4 DEF Cursor, Size
<1>15. Line(n)'
  <2>1. ASSUME NEW i \in 1..(Len(b) + 1)
        PROVE  more[i] = IF i = 1 THEN <<1, 1>> ELSE After(more[i - 1])
    <3>1. CASE i = Len(b) + 1
      <4>1. CASE b = <<>>
        BY <1>3, <1>7, <3>1, <4>1
      <4>2. CASE b # <<>>
        <5>1. Len(b) # 0 /\ Len(b) \in 1..(Len(b) + 1) /\ i - 1 = Len(b) /\ i # 1
          BY <1>5, <1>7, <3>1, <4>2
        <5>2. more[i - 1] = b[Len(b)]
          BY <1>7, <5>1
        <5>. QED
          BY <1>3, <1>7, <3>1, <4>2, <5>1, <5>2
      <4>. QED
        BY <4>1, <4>2
    <3>2. CASE i # Len(b) + 1
      <4>1. i \in DOMAIN b /\ more[i] = b[i]
        BY <1>7, <3>2
      <4>2. i # 1 => more[i - 1] = b[i - 1]
        BY <1>7, <3>2
      <4>3. b[i] = IF i = 1 THEN <<1, 1>> ELSE After(b[i - 1])
        BY <1>5, <4>1 DEF Line
      <4>. QED
        BY <4>1, <4>2, <4>3
    <3>. QED
      BY <3>1, <3>2
  <2>2. \A x : After(x)' = After(x)
    BY DEF After, Size
  <2>. QED
    BY <1>7, <1>9, <2>1, <2>2 DEF Line
<1>16. Typed'
  BY <1>4, <1>5, <1>7 DEF Sent, Typed
<1>. QED
  BY <1>5, <1>8, <1>9, <1>7, <1>12, <1>13, <1>14, <1>15, <1>16 DEF Sent

\* One more device is opened, that nothing was read from.
LEMMA AddOpens ==
    ASSUME Sent, Order, attempt \in Attempts, NEW k \in DOMAIN Parts, AddPart(k)
    PROVE  Sent'
<1>1. PICK n \in Attempts : n = attempt
  OBVIOUS
<1>. DEFINE d == Device(n, k)
            s == devices[n]
            more == Append(s, d)
<1>2. /\ k = Len(s) + 1 /\ phase = "building" /\ body' = body
      /\ devices' = [devices EXCEPT ![n] = more]
      /\ at' = [x \in DOMAIN at \cup {d} |-> IF x = d THEN 0 ELSE at[x]]
  BY <1>1 DEF AddPart, Turn, Opened
<1>3. /\ Attempts' = Attempts /\ Devs' = Devs
      /\ s \in Seq(Devs) /\ devices \in [Attempts -> Seq(Devs)] /\ d \in Devs
      /\ \A m \in Attempts : Fitted(m) /\ Cursor(m) /\ Line(m)
  <2>1. Attempts' = Attempts /\ Devs' = Devs
    BY DEF Attempts, Devs, Device, File
  <2>2. s \in Seq(Devs) /\ devices \in [Attempts -> Seq(Devs)]
    BY DEF Sent, Typed
  <2>3. d \in Devs
    BY DEF Devs
  <2>4. \A m \in Attempts : Fitted(m) /\ Cursor(m) /\ Line(m)
    BY DEF Sent
  <2>. QED
    BY <2>3, <2>1, <2>2, <2>4
<1>4. /\ Len(s) \in Nat /\ more \in Seq(Devs) /\ DOMAIN more = 1..(Len(s) + 1)
      /\ \A i \in 1..(Len(s) + 1) : more[i] = IF i = Len(s) + 1 THEN d ELSE s[i]
  BY <1>3, AppendIs
<1>5. Len(more) = Len(s) + 1 /\ k <= Len(Parts)
  BY <1>2, <1>3, <1>4, PartsAre
<1>6. body[n] = <<>>
  BY <1>1, <1>2 DEF Order
<1>7. d = Device(n, k) /\ s = devices[n]
  OBVIOUS
<1>. HIDE DEF d, more, s
<1>8. n \in Attempts
  OBVIOUS
<1>9. devices'[n] = more /\ \A m \in Attempts : m # n => devices'[m] = devices[m]
  BY <1>2, <1>3, <1>8
<1>10. at'[d] = 0 /\ DOMAIN at' = DOMAIN at \cup {d} /\ \A x \in DOMAIN at : x # d => at'[x] = at[x]
  BY <1>2
<1>11. \A m, i : m # n \/ i # k => Device(m, i) # d
  BY <1>7, DevicesDiffer
<1>12. \A m, i : Device(m, i)' = Device(m, i) /\ Size(i)' = Size(i)
  BY DEF Device, File, Size
<1>13. \A x : After(x)' = After(x)
  BY DEF After, Size
<1>14. ASSUME NEW m \in Attempts, m # n PROVE Fitted(m)' /\ Cursor(m)' /\ Line(m)'
  <2>1. \A i \in 1..Len(devices[m]) : at'[Device(m, i)] = at[Device(m, i)]
    BY <1>3, <1>10, <1>11, <1>14 DEF Fitted
  <2>2. \A j, p : Stands(m, j, p)' <=> Stands(m, j, p)
    BY <1>9, <1>12, <1>14, <2>1 DEF Stands
  <2>3. Fitted(m)'
    BY <1>3, <1>9, <1>10, <1>12, <1>14 DEF Fitted
  <2>4. Cursor(m)' <=> Cursor(m)
    BY <1>2, <1>9, <1>12, <1>14, <2>2 DEF Cursor
  <2>5. Line(m)' <=> Line(m)
    BY <1>2, <1>13 DEF Line
  <2>. QED
    BY <1>3, <2>3, <2>4, <2>5
<1>15. Fitted(n)'
  <2>1. \A i \in 1..Len(s) : s[i] = Device(n, i) /\ Device(n, i) \in DOMAIN at
    BY <1>3, <1>7, <1>8 DEF Fitted
  <2>2. ASSUME NEW i \in 1..Len(more) PROVE more[i] = Device(n, i) /\ Device(n, i) \in DOMAIN at'
    <3>1. CASE i = k
      BY <1>2, <1>4, <1>5, <1>7, <1>10, <3>1
    <3>2. CASE i # k
      <4>1. i \in 1..Len(s) /\ more[i] = s[i]
        BY <1>2, <1>4, <1>5, <3>2
      <4>. QED
        BY <1>10, <2>1, <4>1
    <3>. QED
      BY <3>1, <3>2
  <2>3. Len(more) <= Len(Parts)
    BY <1>2, <1>5
  <2>. QED
    BY <1>9, <1>12, <2>2, <2>3 DEF Fitted
<1>16. Cursor(n)'
  <2>1. Stands(n, 1, 0)
    BY <1>3, <1>6, <1>8 DEF Cursor
  <2>2. ASSUME NEW i \in 1..Len(more) PROVE at'[Device(n, i)] = IF i < 1 THEN Size(i) ELSE IF i = 1 THEN 0 ELSE 0
    <3>1. i \in Nat /\ ~(i < 1)
      BY <1>4, <1>5
    <3>2. CASE i = k
      BY <1>7, <1>10, <3>1, <3>2
    <3>3. CASE i # k
      <4>1. i \in 1..Len(s)
        BY <1>2, <1>4, <1>5, <3>3
      <4>2. Device(n, i) \in DOMAIN at /\ Device(n, i) # d
        BY <1>3, <1>7, <1>8, <1>11, <3>3, <4>1 DEF Fitted
      <4>3. at[Device(n, i)] = IF i < 1 THEN Size(i) ELSE IF i = 1 THEN 0 ELSE 0
        BY <1>7, <2>1, <4>1 DEF Stands
      <4>. QED
        BY <1>10, <3>1, <4>2, <4>3
    <3>. QED
      BY <3>2, <3>3
  <2>3. Stands(n, 1, 0)'
    BY <1>9, <1>12, <2>2 DEF Stands
  <2>. QED
    BY <1>2, <1>6, <2>3 DEF Cursor
<1>17. Line(n)'
  BY <1>2, <1>3, <1>8, <1>13 DEF Line
<1>18. Typed'
  BY <1>2, <1>3, <1>4 DEF Sent, Typed
<1>. QED
  BY <1>3, <1>14, <1>15, <1>16, <1>17, <1>18 DEF Sent

\* A complete form with nothing left to read has been sent as a whole.
LEMMA NothingLeft ==
    ASSUME Sent, NEW n \in Attempts, Len(devices[n]) = Len(Parts), Unread(n) = {}
    PROVE  AllOf(n)
<1>. DEFINE len == Len(devices[n])
            pos(i) == at[Device(n, i)]
<1>1. /\ len \in Nat /\ 1 \in 1..len /\ DOMAIN devices[n] = 1..len
      /\ \A i \in 1..len : Size(i) \in Nat \ {0} /\ devices[n][i] = Device(n, i)
  <2>1. devices[n] \in Seq(Devs)
    BY DEF Sent, Typed
  <2>2. DOMAIN devices[n] = 1..len /\ len \in Nat \ {0}
    BY <2>1, PartsAre
  <2>3. \A i \in 1..len : devices[n][i] = Device(n, i)
    BY DEF Sent, Fitted
  <2>. QED
    BY <2>2, <2>3, PartsAre
<1>2. \A i \in 1..len : ~(pos(i) < Size(i))
  BY <1>1 DEF Unread
<1>3. body[n] # <<>>
  <2>1. ASSUME body[n] = <<>> PROVE FALSE
    <3>1. Stands(n, 1, 0)
      BY <2>1 DEF Sent, Cursor
    <3>2. pos(1) = 0
      BY <1>1, <3>1 DEF Stands
    <3>. HIDE DEF pos
    <3>. QED
      BY <1>1, <1>2, <3>2
  <2>. QED
    BY <2>1
<1>4. PICK j \in 1..len : \E q \in 1..Size(j) :
         body[n][Len(body[n])] = <<j, q>> /\ Stands(n, j, q)
  BY <1>3 DEF Sent, Cursor
<1>5. PICK q \in 1..Size(j) : body[n][Len(body[n])] = <<j, q>> /\ Stands(n, j, q)
  BY <1>4
<1>6. \A i \in 1..len : pos(i) = IF i < j THEN Size(i) ELSE IF i = j THEN q ELSE 0
  BY <1>5 DEF Stands
<1>. HIDE DEF pos
<1>7. j \in Nat /\ Size(j) \in Nat /\ q \in Nat /\ q = Size(j)
  BY <1>1, <1>2, <1>5, <1>6
<1>8. j = len
  <2>1. ASSUME j # len PROVE FALSE
    <3>1. j + 1 \in 1..len /\ j + 1 # j /\ ~(j + 1 < j)
      BY <1>1, <1>5, <1>7, <2>1
    <3>2. pos(j + 1) = 0
      BY <1>6, <3>1
    <3>. QED
      BY <1>1, <1>2, <3>1, <3>2
  <2>. QED
    BY <2>1
<1>9. After(<<j, q>>) = <<Len(Parts) + 1, 1>>
  BY <1>7, <1>8 DEF After
<1>. QED
  BY <1>3, <1>5, <1>9 DEF AllOf

\* Only AddPart opens a device, only Read sends and is heard.
LEMMA OnlyReadSends ==
    ASSUME [Next]_vars
    PROVE  \/ \E n \in Attempts : Read(n)
           \/ (\E k \in DOMAIN Parts : AddPart(k)) /\ UNCHANGED <<body, heard, attempt>>
           \/ UNCHANGED <<devices, at, body, heard, attempt>>
           \/ Retry /\ UNCHANGED <<devices, at, body, heard>>
  BY DEF Next, Terminus, Loop, Network, ClientGone, Begin, Post, NoReply, AddPart, OpenFails,
         TimesOut, Abort, Retry, Answer, Reclaim, Finish, DestroyClient, Settle, vars

\* Only the present attempt reads, while it runs.
LEMMA ReadsThis ==
    ASSUME Shape, NEW n \in Attempts, Read(n)
    PROVE  n = attempt /\ client /\ phase \in {"running", "late"}
<1>1. n = attempt /\ R \in Live /\ attempt \notin finished
  BY Distinct DEF Read, Running, Shape, Belongs, R, F
<1>. QED
  BY <1>1 DEF Shape, ReplyHeld, Later

\* Every step keeps what was sent in line with where the devices stand.
LEMMA SentStep == Shape /\ Sent /\ Order /\ [Next]_vars => Sent'
<1>. SUFFICES ASSUME Shape, Sent, Order, [Next]_vars PROVE Sent'
  OBVIOUS
<1>1. CASE \E n \in Attempts : Read(n)
  BY <1>1, ReadSends
<1>2. CASE \E k \in DOMAIN Parts : AddPart(k)
  BY <1>2, AddOpens DEF Shape
<1>3. CASE UNCHANGED <<devices, at, body>>
  <2>1. /\ \A n, k : Device(n, k)' = Device(n, k) /\ Size(k)' = Size(k)
        /\ \A x : After(x)' = After(x)
        /\ Attempts' = Attempts
    BY DEF Device, File, Size, After, Attempts
  <2>2. Typed'
    BY <1>3 DEF Sent, Typed, Devs, Device, File, Attempts
  <2>3. \A n, j, q : Stands(n, j, q)' <=> Stands(n, j, q)
    BY <1>3, <2>1 DEF Stands
  <2>4. ASSUME NEW n \in Attempts PROVE Fitted(n)' /\ Cursor(n)' /\ Line(n)'
    <3>1. Fitted(n)' /\ Line(n)'
      BY <1>3, <2>1 DEF Sent, Fitted, Line
    <3>2. Cursor(n)'
      BY <1>3, <2>1, <2>3 DEF Sent, Cursor
    <3>. QED
      BY <3>1, <3>2
  <2>. QED
    BY <2>1, <2>2, <2>4 DEF Sent
<1>. QED
  BY <1>1, <1>2, <1>3, OnlyReadSends

\* Every step keeps the order of opening, sending and succeeding.
LEMMA OrderStep == Shape /\ Shape' /\ Sent /\ Order /\ [Next]_vars => Order'
<1>. SUFFICES ASSUME Shape, Shape', Sent, Order, [Next]_vars PROVE Order'
  OBVIOUS
<1>1. attempt \in Attempts /\ attempt \in Nat /\ Attempts' = Attempts /\ Attempts \subseteq Nat
  BY DEF Shape, Attempts
<1>2. ASSUME UNCHANGED <<devices, body, attempt>>, R \in Live' => R \in Live,
             phase' = "ready" => phase = "ready",
             phase' = "building" => phase \in {"ready", "building"},
             result' = "ok" => /\ result = "ok" /\ phase' \in Later
                               /\ attempt \in finished => attempt \in finished'
      PROVE  Order'
  <2>1. AllOf(attempt)' <=> AllOf(attempt)
    BY <1>2 DEF AllOf, After, Size
  <2>2. R' = R
    BY <1>2 DEF R, Reply
  <2>. QED
    BY <1>1, <1>2, <2>1, <2>2 DEF Order, Later
<1>3. CASE Terminus
  <2>1. CASE ClientGone
    BY <1>2, <2>1 DEF ClientGone, Settle, Live
  <2>2. CASE Begin
    <3>1. R \in Live' => R \in Live
      BY <2>2, Distinct DEF Begin, With, Live, R
    <3>2. result # "ok"
      BY <2>2 DEF Begin, Order, Later
    <3>. QED
      BY <1>2, <2>2, <3>1, <3>2 DEF Begin
  <2>3. ASSUME NEW k \in DOMAIN Parts, AddPart(k) PROVE Order'
    <3>1. /\ phase = "building" /\ phase' = phase /\ result' = result /\ finished' = finished
          /\ attempt' = attempt /\ body' = body
          /\ devices' = [devices EXCEPT ![attempt] = Append(@, Device(attempt, k))]
      BY <2>3 DEF AddPart, Turn
    <3>2. \A n \in Attempts : n > attempt => devices'[n] = devices[n]
      BY <1>1, <3>1
    <3>3. R' = R /\ R \notin Live'
      <4>1. R' = R
        BY <3>1 DEF R, Reply
      <4>2. R' \notin Live'
        BY <3>1 DEF Shape, ReplyHeld
      <4>. QED
        BY <4>1, <4>2
    <3>4. result # "ok"
      BY <3>1 DEF Order, Later
    <3>. QED
      BY <1>1, <3>1, <3>2, <3>3, <3>4 DEF Order
  <2>4. ASSUME NEW k \in DOMAIN Parts, OpenFails(k) PROVE Order'
    <3>1. R \in Live' => R \in Live
      BY <2>4 DEF OpenFails, Without, Live
    <3>. QED
      BY <1>2, <2>4, <3>1 DEF OpenFails, Settle
  <2>5. CASE Post
    <3>1. /\ phase = "building" /\ phase' = "running" /\ result' = result
          /\ attempt' = attempt /\ body' = body /\ devices' = devices
          /\ Len(devices[attempt]) = Len(Parts)
      BY <2>5 DEF Post, Complete
    <3>2. result # "ok"
      BY <3>1 DEF Order, Later
    <3>. QED
      BY <1>1, <3>1, <3>2 DEF Order
  <2>6. CASE NoReply
    <3>1. R \in Live' => R \in Live
      BY <2>6 DEF NoReply, Live
    <3>. QED
      BY <1>2, <2>6, <3>1 DEF NoReply, Settle
  <2>. QED
    BY <1>3, <2>1, <2>2, <2>3, <2>4, <2>5, <2>6 DEF Terminus
<1>4. CASE Loop
  <2>1. CASE TimesOut
    <3>1. result # "ok"
      BY <2>1 DEF TimesOut, Order, Later
    <3>. QED
      BY <1>2, <2>1, <3>1 DEF TimesOut, Live
  <2>2. CASE Abort
    BY <1>2, <2>2 DEF Abort, Settle, Live
  <2>3. CASE Retry
    <3>1. attempt' = attempt + 1 /\ devices' = devices /\ body' = body /\ phase' = "ready"
          /\ result' = result /\ result = "failed"
      BY <2>3 DEF Retry
    <3>2. attempt' \in Attempts
      BY <1>1 DEF Shape
    <3>3. attempt' > attempt /\ \A n \in Attempts : n > attempt' => n > attempt
      BY <1>1, <3>1
    <3>4. R' \notin Live'
      BY <3>1 DEF Shape, ReplyHeld
    <3>. QED
      BY <1>1, <3>1, <3>2, <3>3, <3>4 DEF Order
  <2>4. CASE Answer
    BY <1>2, <2>4 DEF Answer, Live, Order, Later
  <2>5. ASSUME NEW x \in doomed, Reclaim(x) PROVE Order'
    <3>1. R \in Live' => R \in Live
      BY <2>5 DEF Reclaim, Without, Live
    <3>. QED
      BY <1>2, <2>5, <3>1 DEF Reclaim, Order
  <2>. QED
    BY <1>4, <2>1, <2>2, <2>3, <2>4, <2>5 DEF Loop
<1>5. CASE Network
  <2>1. ASSUME NEW n \in Attempts, Read(n) PROVE Order'
    <3>1. n = attempt /\ phase \in {"running", "late"}
      BY <2>1, ReadsThis
    <3>2. /\ devices' = devices /\ attempt' = attempt /\ phase' = phase /\ result' = result
          /\ parent' = parent
          /\ \A m \in Attempts : m # n => body'[m] = body[m]
      BY <2>1 DEF Read, Sent, Typed
    <3>3. result # "ok"
      BY <3>1 DEF Order, Later
    <3>4. R' = R /\ Live' = Live
      BY <3>2 DEF R, Reply, Live
    <3>. QED
      BY <1>1, <3>1, <3>2, <3>3, <3>4 DEF Order
  <2>2. ASSUME NEW n \in Attempts, NEW outcome, Finish(n, outcome) PROVE Order'
    <3>1. /\ n = attempt /\ R \in Live /\ attempt \in finished' /\ attempt \notin finished
          /\ Live' = Live
          /\ outcome = "ok" => Unread(n) = {}
          /\ UNCHANGED <<devices, at, body, attempt>>
      BY <2>2, Distinct DEF Finish, Running, Shape, Belongs, R, F, Live
    <3>2. result # "ok"
      BY <3>1 DEF Order
    <3>3. CASE result' = "ok"
      <4>1. outcome = "ok" /\ phase' = "settled"
        BY <2>2, <3>2, <3>3 DEF Finish, Settle
      <4>2. AllOf(attempt)
        BY <3>1, <4>1, NothingLeft DEF Order
      <4>3. AllOf(attempt)'
        BY <3>1, <4>2 DEF AllOf, After, Size
      <4>4. R' = R
        BY <3>1 DEF R, Reply
      <4>. QED
        BY <1>1, <3>1, <4>1, <4>3, <4>4 DEF Order, Later
    <3>4. CASE result' # "ok"
      <4>1. phase' # "ready" /\ phase' # "building"
        BY <2>2 DEF Finish, Settle
      <4>. QED
        BY <1>2, <3>1, <3>4, <4>1
    <3>. QED
      BY <3>3, <3>4
  <2>. QED
    BY <1>5, <2>1, <2>2 DEF Network
<1>6. CASE DestroyClient
  <2>1. R \in Live' => R \in Live
    BY <1>6 DEF DestroyClient, Without, Live
  <2>. QED
    BY <1>2, <1>6, <2>1 DEF DestroyClient, Order
<1>7. CASE UNCHANGED vars
  BY <1>2, <1>7 DEF vars, Live, Order
<1>. QED
  BY <1>3, <1>4, <1>5, <1>6, <1>7 DEF Next

\* Every step keeps what was heard true of what was sent.
LEMMA HeardStep == Shape /\ Shape' /\ Sent /\ Heard /\ [Next]_vars => Heard'
<1>. SUFFICES ASSUME Shape, Shape', Sent, Heard, [Next]_vars PROVE Heard'
  OBVIOUS
<1>1. attempt \in Nat /\ attempt' \in Nat
  BY DEF Shape, Attempts
<1>2. ASSUME NEW n \in Attempts, Read(n) PROVE Heard'
  <2>1. n = attempt /\ attempt' = attempt
    BY <1>2, ReadsThis DEF Read
  <2>2. Len(body'[n]) = Len(body[n]) + 1 /\ Len(body[n]) \in Nat
    BY <1>2, ReadSends
  <2>3. heard' = <<n, Len(body'[n])>>
    BY <1>2 DEF Read
  <2>4. heard' \in Nat \X Nat /\ heard'[1] = attempt' /\ heard'[2] = Len(body'[attempt'])
    BY <1>1, <2>1, <2>2, <2>3
  <2>. QED
    BY <1>1, <2>4 DEF Heard
<1>3. CASE UNCHANGED <<body, heard, attempt>>
  BY <1>3 DEF Heard
<1>4. CASE Retry /\ UNCHANGED <<body, heard>>
  <2>1. attempt' = attempt + 1
    BY <1>4 DEF Retry
  <2>2. heard[1] < attempt' /\ heard[1] # attempt'
    BY <1>1, <2>1 DEF Heard
  <2>. QED
    BY <1>1, <1>4, <2>2 DEF Heard
<1>. QED
  BY <1>2, <1>3, <1>4, OnlyReadSends

\* Nothing was opened, sent or heard yet.
LEMMA InitSent == Init => Sent /\ Order /\ Heard
<1>. SUFFICES ASSUME Init PROVE Sent /\ Order /\ Heard
  OBVIOUS
<1>1. /\ body = [n \in Attempts |-> <<>>] /\ devices = [n \in Attempts |-> <<>>]
      /\ heard = <<0, 0>> /\ attempt = 1 /\ 1 \in Attempts
      /\ Live = {} /\ result # "ok"
  BY MultipartUploadAssumption DEF Init, Attempts, Live
<1>2. Typed
  BY <1>1 DEF Typed
<1>3. ASSUME NEW n \in Attempts PROVE Fitted(n) /\ Cursor(n) /\ Line(n)
  <2>1. body[n] = <<>> /\ devices[n] = <<>> /\ Len(devices[n]) = 0 /\ DOMAIN body[n] = {}
    BY <1>1
  <2>2. \A k \in 1..Len(devices[n]) : FALSE
    BY <2>1
  <2>. QED
    BY <2>1, <2>2, PartsAre DEF Fitted, Cursor, Stands, Line
<1>4. Order
  BY <1>1 DEF Order
<1>. QED
  BY <1>1, <1>2, <1>3, <1>4 DEF Sent, Heard

\* In every execution the last block an attempt has sent tells where its devices stand
\* (HttpSpec.cpp:158), and the progress heard is of the attempt that runs.
THEOREM SentHolds == Spec => [](Shape /\ Sent /\ Order /\ Heard)
  BY InitShape, InitSent, ShapeStep, SentStep, OrderStep, HeardStep, PTL DEF Spec

\* HttpSpec.h:58: every attempt sends the parts from their beginning and in order, however
\* far an attempt before it came, and the one that succeeds all of them.
THEOREM SentFromTheStartHolds == Spec => []SentFromTheStart
<1>1. Sent /\ Order => SentFromTheStart
  BY DEF Sent, Order, Line, AllOf, SentFromTheStart
<1>. QED
  BY <1>1, SentHolds, PTL

\* NetworkClient.cpp:172: the callback hears of the attempt under way only, in growing
\* numbers, and of nothing once the client is gone or the request is answered.
THEOREM ProgressIsCurrentHolds == Spec => ProgressIsCurrent
<1>1. ASSUME Shape, Sent, Heard, [Next]_vars, heard' # heard
      PROVE  /\ client /\ phase \in {"running", "late"}
             /\ heard'[1] = attempt
             /\ heard'[1] = heard[1] => heard'[2] > heard[2]
  <2>1. PICK n \in Attempts : Read(n)
    BY <1>1, OnlyReadSends
  <2>2. n = attempt /\ client /\ phase \in {"running", "late"}
    BY <1>1, <2>1, ReadsThis
  <2>3. heard' = <<n, Len(body'[n])>> /\ Len(body'[n]) = Len(body[n]) + 1 /\ Len(body[n]) \in Nat
    BY <1>1, <2>1, ReadSends DEF Read
  <2>. QED
    BY <1>1, <2>2, <2>3 DEF Heard
<1>2. Shape /\ Sent /\ Heard /\ [Next]_vars =>
        [heard' # heard => /\ client /\ phase \in {"running", "late"}
                           /\ heard'[1] = attempt
                           /\ heard'[1] = heard[1] => heard'[2] > heard[2]]_vars
  BY <1>1
<1>. QED
  BY <1>2, SentHolds, PTL DEF Spec, ProgressIsCurrent

---------------------------------------------------------------------------
(* Induction over numbers, which goes by the least counterexample.         *)

\* A set that has 1 and with every number the next one has all up to n.
LEMMA Induction ==
    ASSUME NEW n \in Nat, NEW S, 1 \in S, \A m \in 1..n : m \in S => m + 1 \in S
    PROVE  \A m \in 1..n : m \in S
<1>. DEFINE less == {p \in Nat \X Nat : p[1] < p[2]}
            others == {m \in 1..n : m \notin S}
<1>1. IsWellFoundedOn(less, Nat)
  BY NatLessThanWellFounded DEF OpToRel
<1>2. ASSUME others # {} PROVE FALSE
  <2>1. PICK x \in others : \A y \in others : <<y, x>> \notin less
    <3>1. others \subseteq Nat
      OBVIOUS
    <3>. HIDE DEF less, others
    <3>. QED
      BY <1>1, <1>2, <3>1, WFMin
  <2>2. x # 1
    OBVIOUS
  <2>3. x - 1 \in 1..n /\ x - 1 < x /\ x \in Nat /\ x - 1 \in Nat /\ (x - 1) + 1 = x
    BY <2>2
  <2>4. x - 1 \notin others
    <3>1. <<x - 1, x>> \in less
      BY <2>3
    <3>. QED
      BY <2>1, <3>1
  <2>. QED
    BY <2>3, <2>4
<1>. QED
  BY <1>2

\* The same from zero on.
LEMMA InductionFromZero ==
    ASSUME NEW n \in Nat, NEW S, 0 \in S, \A m \in 0..n : m < n /\ m \in S => m + 1 \in S
    PROVE  \A m \in 0..n : m \in S
<1>. DEFINE T == {m \in Nat : m \in S \/ m > n}
<1>1. 1 \in T
  <2>1. CASE n = 0
    BY <2>1
  <2>2. CASE n # 0
    <3>1. 0 \in 0..n /\ 0 < n /\ 0 + 1 = 1
      BY <2>2
    <3>. QED
      BY <3>1
  <2>. QED
    BY <2>1, <2>2
<1>2. ASSUME NEW m \in 1..n, m \in T PROVE m + 1 \in T
  <2>1. m \in 0..n /\ m + 1 \in Nat /\ m \in S
    BY <1>2
  <2>2. CASE m < n
    BY <2>1, <2>2
  <2>3. CASE ~(m < n)
    BY <2>1, <2>3
  <2>. QED
    BY <2>2, <2>3
<1>. HIDE DEF T
<1>3. \A m \in 1..n : m \in T
  BY <1>1, <1>2, Induction
<1>4. \A m \in 0..n : m = 0 \/ m \in 1..n
  OBVIOUS
<1>. QED
  BY <1>3, <1>4 DEF T

---------------------------------------------------------------------------
(* Joining sequences, whatever they are sequences of.                      *)

\* The first m sequences joined, as FlattenSeq of SequencesExt defines it.
Joins(seqs, m, f) == f = [i \in 1..m |-> IF i = 1 THEN seqs[i] ELSE f[i - 1] \o seqs[i]]

\* Joining sequences one after the other is a function that exists: by the least m for
\* which it would not.
LEMMA JoinsExist ==
    ASSUME NEW seqs, NEW n \in Nat \ {0}
    PROVE  \E f : Joins(seqs, n, f)
<1>. DEFINE has == {m \in Nat : \E f : Joins(seqs, m, f)}
<1>1. 1 \in has
  <2>1. Joins(seqs, 1, [i \in 1..1 |-> seqs[i]])
    BY DEF Joins
  <2>. QED
    BY <2>1
<1>2. ASSUME NEW m \in 1..n, m \in has PROVE m + 1 \in has
  <2>1. PICK f : Joins(seqs, m, f)
    BY <1>2
  <2>. DEFINE g == [i \in 1..(m + 1) |-> IF i = m + 1 THEN f[m] \o seqs[i] ELSE f[i]]
  <2>2. m \in Nat /\ m >= 1 /\ m + 1 # 1 /\ (m + 1) - 1 = m /\ m # m + 1
    OBVIOUS
  <2>3. g = [i \in 1..(m + 1) |-> IF i = 1 THEN seqs[i] ELSE g[i - 1] \o seqs[i]]
    <3>1. g[m + 1] = IF m + 1 = 1 THEN seqs[m + 1] ELSE g[(m + 1) - 1] \o seqs[m + 1]
      <4>1. m \in 1..(m + 1) /\ m + 1 \in 1..(m + 1)
        BY <2>2
      <4>2. g[m + 1] = f[m] \o seqs[m + 1] /\ g[m] = f[m]
        BY <2>2, <4>1
      <4>. HIDE DEF g
      <4>. QED
        BY <2>2, <4>2
    <3>2. \A i \in 1..m : f[i] = IF i = 1 THEN seqs[i] ELSE f[i - 1] \o seqs[i]
      BY <2>1 DEF Joins
    <3>3. \A i \in 1..m : g[i] = f[i]
      BY <2>2
    <3>4. ASSUME NEW i \in 1..m PROVE g[i] = IF i = 1 THEN seqs[i] ELSE g[i - 1] \o seqs[i]
      <4>1. i # 1 => i - 1 \in 1..m
        BY <2>2
      <4>. HIDE DEF g
      <4>. QED
        BY <3>2, <3>3, <4>1
    <3>5. \A i \in 1..(m + 1) : i = m + 1 \/ i \in 1..m
      BY <2>2
    <3>6. \A i \in 1..(m + 1) : g[i] = IF i = 1 THEN seqs[i] ELSE g[i - 1] \o seqs[i]
      <4>. HIDE DEF g
      <4>. QED
        BY <3>1, <3>4, <3>5
    <3>7. g = [i \in 1..(m + 1) |-> g[i]]
      OBVIOUS
    <3>. HIDE DEF g
    <3>. QED
      BY <3>6, <3>7
  <2>4. Joins(seqs, m + 1, g)
    <3>. HIDE DEF g
    <3>. QED
      BY <2>3 DEF Joins
  <2>. QED
    BY <2>2, <2>4
<1>. HIDE DEF has
<1>3. \A m \in 1..n : m \in has
  BY <1>1, <1>2, Induction
<1>. QED
  BY <1>3 DEF has

\* What FlattenSeq makes of sequences is a sequence.
LEMMA FlattenIsSeq ==
    ASSUME NEW S, NEW seqs \in Seq(Seq(S)), seqs # <<>>
    PROVE  FlattenSeq(seqs) \in Seq(S)
<1>. DEFINE n    == Len(seqs)
            flat == CHOOSE f : Joins(seqs, n, f)
            is   == {m \in Nat : m > n \/ flat[m] \in Seq(S)}
<1>1. n \in Nat \ {0} /\ \A i \in 1..n : seqs[i] \in Seq(S)
  OBVIOUS
<1>2. FlattenSeq(seqs) = flat[n]
  BY <1>1 DEF FlattenSeq, Joins
<1>. HIDE DEF n
<1>3. Joins(seqs, n, flat)
  BY <1>1, JoinsExist
<1>. HIDE DEF flat
<1>4. \A i \in 1..n : flat[i] = IF i = 1 THEN seqs[i] ELSE flat[i - 1] \o seqs[i]
  BY <1>3 DEF Joins
<1>5. 1 \in is
  <2>1. 1 \in 1..n
    BY <1>1
  <2>2. flat[1] = seqs[1]
    BY <1>4, <2>1
  <2>. QED
    BY <1>1, <2>1, <2>2
<1>6. ASSUME NEW m \in 1..n, m \in is PROVE m + 1 \in is
  <2>1. m \in Nat /\ m >= 1 /\ ~(m > n) /\ m + 1 \in Nat /\ m + 1 # 1 /\ (m + 1) - 1 = m
    BY <1>1
  <2>2. CASE m + 1 > n
    BY <2>1, <2>2
  <2>3. CASE m + 1 \in 1..n
    <3>1. flat[m] \in Seq(S)
      BY <1>6, <2>1
    <3>2. flat[m + 1] = flat[m] \o seqs[m + 1] /\ seqs[m + 1] \in Seq(S)
      BY <1>1, <1>4, <2>1, <2>3
    <3>3. flat[m + 1] \in Seq(S)
      BY <3>1, <3>2, ConcatProperties
    <3>. QED
      BY <2>1, <3>3
  <2>. QED
    BY <1>1, <2>1, <2>2, <2>3
<1>7. n \in is
  <2>. HIDE DEF is
  <2>1. \A m \in 1..n : m \in is
    BY <1>1, <1>5, <1>6, Induction
  <2>. QED
    BY <1>1, <2>1
<1>. QED
  BY <1>1, <1>2, <1>7

\* One element alone.
LEMMA SingleIs == ASSUME NEW S, NEW x \in S PROVE <<x>> \in Seq(S)
  OBVIOUS

\* Joining goes by the sequences alone, however many come after them.
LEMMA JoinsAgree ==
    ASSUME NEW s, NEW t, NEW m \in Nat, NEW n \in Nat, NEW j \in Nat, j <= m, j <= n,
           NEW f, NEW g, Joins(s, m, f), Joins(t, n, g),
           \A i \in 1..j : s[i] = t[i], j # 0
    PROVE  f[j] = g[j]
<1>. DEFINE same == {i \in Nat : i > j \/ f[i] = g[i]}
<1>1. \A i \in 1..j : /\ f[i] = IF i = 1 THEN s[i] ELSE f[i - 1] \o s[i]
                      /\ g[i] = IF i = 1 THEN s[i] ELSE g[i - 1] \o s[i]
  <2>1. \A i \in 1..m : f[i] = IF i = 1 THEN s[i] ELSE f[i - 1] \o s[i]
    BY DEF Joins
  <2>2. \A i \in 1..n : g[i] = IF i = 1 THEN t[i] ELSE g[i - 1] \o t[i]
    BY DEF Joins
  <2>3. \A i \in 1..j : i \in 1..m /\ i \in 1..n
    OBVIOUS
  <2>. QED
    BY <2>1, <2>2, <2>3
<1>2. 1 \in same
  BY <1>1
<1>3. ASSUME NEW i \in 1..j, i \in same PROVE i + 1 \in same
  <2>1. i \in Nat /\ i + 1 \in Nat /\ i + 1 # 1 /\ (i + 1) - 1 = i /\ f[i] = g[i]
    BY <1>3
  <2>2. CASE i + 1 \in 1..j
    <3>1. f[i + 1] = f[i] \o s[i + 1] /\ g[i + 1] = g[i] \o s[i + 1]
      BY <1>1, <2>1, <2>2
    <3>. QED
      BY <2>1, <3>1
  <2>3. CASE i + 1 > j
    BY <2>1, <2>3
  <2>. QED
    BY <2>1, <2>2, <2>3
<1>. HIDE DEF same
<1>4. \A i \in 1..j : i \in same
  BY <1>2, <1>3, Induction
<1>5. j \in 1..j /\ ~(j > j)
  OBVIOUS
<1>. QED
  BY <1>4, <1>5 DEF same

\* Joining none, and joining one more.
LEMMA FlattenEmpty == FlattenSeq(<<>>) = <<>>
  BY DEF FlattenSeq

LEMMA FlattenAppend ==
    ASSUME NEW S, NEW seqs \in Seq(Seq(S)), NEW x \in Seq(S)
    PROVE  FlattenSeq(Append(seqs, x)) = FlattenSeq(seqs) \o x
<1>. DEFINE n    == Len(seqs)
            more == Append(seqs, x)
            f == CHOOSE h : Joins(seqs, n, h)
            g == CHOOSE h : Joins(more, n + 1, h)
<1>1. /\ n \in Nat /\ n + 1 \in Nat /\ n + 1 # 0 /\ n <= n + 1
      /\ Len(more) = n + 1 /\ more[n + 1] = x /\ \A i \in 1..n : more[i] = seqs[i]
  OBVIOUS
<1>2. FlattenSeq(more) = g[n + 1]
  <2>. HIDE DEF more
  <2>. QED
    BY <1>1 DEF FlattenSeq, Joins
<1>3. n # 0 => FlattenSeq(seqs) = f[n]
  BY <1>1 DEF FlattenSeq, Joins
<1>. HIDE DEF n, more
<1>4. Joins(more, n + 1, g)
  BY <1>1, JoinsExist
<1>5. n # 0 => Joins(seqs, n, f)
  BY <1>1, JoinsExist
<1>. HIDE DEF f, g
<1>6. g[n + 1] = IF n + 1 = 1 THEN x ELSE g[(n + 1) - 1] \o x
  <2>1. n + 1 \in 1..(n + 1)
    BY <1>1
  <2>. QED
    BY <1>1, <1>4, <2>1 DEF Joins
<1>7. CASE n = 0
  <2>1. seqs = <<>>
    BY <1>7 DEF n
  <2>2. FlattenSeq(seqs) \o x = x
    BY <2>1, FlattenEmpty, ConcatEmptySeq
  <2>. QED
    BY <1>2, <1>6, <1>7, <2>2 DEF more
<1>8. CASE n # 0
  <2>1. f[n] = g[n]
    <3>1. \A i \in 1..n : seqs[i] = more[i]
      BY <1>1
    <3>2. n <= n
      BY <1>1
    <3>. QED
      BY <1>1, <1>4, <1>5, <1>8, <3>1, <3>2, JoinsAgree
  <2>2. (n + 1) - 1 = n /\ n + 1 # 1
    BY <1>1, <1>8
  <2>. QED
    BY <1>2, <1>3, <1>6, <1>8, <2>1, <2>2 DEF more
<1>. QED
  BY <1>7, <1>8

\* The type of what comes of it, with none too.
LEMMA FlattenType ==
    ASSUME NEW S, NEW seqs \in Seq(Seq(S))
    PROVE  FlattenSeq(seqs) \in Seq(S)
<1>1. CASE seqs = <<>>
  BY <1>1, FlattenEmpty, EmptySeq
<1>. QED
  BY <1>1, FlattenIsSeq

\* The first m elements of a sequence; an induction goes from m to m + 1.
First(m, s) == [i \in 1..m |-> s[i]]

LEMMA FirstIs ==
    ASSUME NEW S, NEW s \in Seq(S)
    PROVE  /\ First(0, s) = <<>>
           /\ First(Len(s), s) = s
           /\ \A m \in 0..Len(s) :
                 /\ First(m, s) \in Seq(S)
                 /\ m < Len(s) => /\ First(m + 1, s) = Append(First(m, s), s[m + 1])
                                  /\ s[m + 1] \in S
<1>1. First(0, s) = <<>> /\ First(Len(s), s) = s
  BY DEF First
<1>2. ASSUME NEW m \in 0..Len(s)
      PROVE  /\ First(m, s) \in Seq(S)
             /\ m < Len(s) => /\ First(m + 1, s) = Append(First(m, s), s[m + 1])
                              /\ s[m + 1] \in S
  <2>1. First(m, s) \in Seq(S) /\ Len(First(m, s)) = m
    BY DEF First
  <2>2. ASSUME m < Len(s) PROVE First(m + 1, s) = Append(First(m, s), s[m + 1]) /\ s[m + 1] \in S
    <3>1. m + 1 \in 1..Len(s) /\ m \in Nat
      BY <2>2
    <3>2. s[m + 1] \in S
      BY <3>1
    <3>3. First(m + 1, s) \in Seq(S) /\ Len(First(m + 1, s)) = m + 1
      BY <3>1 DEF First
    <3>4. /\ Append(First(m, s), s[m + 1]) \in Seq(S)
          /\ Len(Append(First(m, s), s[m + 1])) = m + 1
      BY <2>1, <3>2
    <3>5. \A i \in 1..(m + 1) : First(m + 1, s)[i] = Append(First(m, s), s[m + 1])[i]
      <4>1. \A i \in 1..(m + 1) : First(m + 1, s)[i] = s[i]
        BY DEF First
      <4>2. \A i \in 1..m : First(m, s)[i] = s[i]
        BY DEF First
      <4>3. \A i \in 1..(m + 1) :
               Append(First(m, s), s[m + 1])[i] = IF i = m + 1 THEN s[m + 1] ELSE First(m, s)[i]
        BY <2>1, <3>1, <3>2
      <4>4. \A i \in 1..(m + 1) : i = m + 1 \/ i \in 1..m
        BY <3>1
      <4>. QED
        BY <4>1, <4>2, <4>3, <4>4
    <3>. QED
      BY <3>2, <3>3, <3>4, <3>5, SeqEqual
  <2>. QED
    BY <2>1, <2>2
<1>. QED
  BY <1>1, <1>2

\* The same of sequences that are joined.
LEMMA FlattenFirst ==
    ASSUME NEW S, NEW seqs \in Seq(Seq(S)), NEW m \in 0..Len(seqs), m < Len(seqs)
    PROVE  /\ FlattenSeq(First(m + 1, seqs)) = FlattenSeq(First(m, seqs)) \o seqs[m + 1]
           /\ FlattenSeq(First(m, seqs)) \in Seq(S) /\ seqs[m + 1] \in Seq(S)
<1>1. /\ First(m, seqs) \in Seq(Seq(S)) /\ seqs[m + 1] \in Seq(S)
      /\ First(m + 1, seqs) = Append(First(m, seqs), seqs[m + 1])
  BY FirstIs
<1>. QED
  BY <1>1, FlattenAppend, FlattenType

---------------------------------------------------------------------------
(* A request declared at compile time (TypedRequest), which rests on the   *)
(* same lemmas: its groups of parameters and its texts are joined, too.    *)

\* What replaces one token.
One(c, token, by) == IF c = token THEN by ELSE <<c>>
Ones(text, token, by) == [i \in DOMAIN text |-> One(text[i], token, by)]

\* Replacing in a text, token by token.
LEMMA OnesAre ==
    ASSUME NEW S, NEW text \in Seq(S), NEW token, NEW by \in Seq(S)
    PROVE  /\ Ones(text, token, by) \in Seq(Seq(S))
           /\ Len(Ones(text, token, by)) = Len(text)
           /\ \A i \in 1..Len(text) : /\ Ones(text, token, by)[i] = One(text[i], token, by)
                                      /\ One(text[i], token, by) \in Seq(S)
<1>1. \A i \in 1..Len(text) : One(text[i], token, by) \in Seq(S)
  BY DEF One
<1>. QED
  BY <1>1 DEF Ones

LEMMA ReplaceIs ==
    ASSUME NEW S, NEW text \in Seq(S), NEW token, NEW by \in Seq(S)
    PROVE  /\ ReplaceEach(text, token, by) = FlattenSeq(Ones(text, token, by))
           /\ ReplaceEach(text, token, by) \in Seq(S)
<1>1. ReplaceEach(text, token, by) = FlattenSeq(Ones(text, token, by))
  BY DEF ReplaceEach, Ones, One
<1>. QED
  BY <1>1, OnesAre, FlattenType

LEMMA ReplaceEmpty ==
    ASSUME NEW token, NEW by
    PROVE  ReplaceEach(<<>>, token, by) = <<>>
<1>1. ReplaceEach(<<>>, token, by) = FlattenSeq(Ones(<<>>, token, by))
  BY DEF ReplaceEach, Ones, One
<1>2. Ones(<<>>, token, by) = <<>>
  BY DEF Ones
<1>. QED
  BY <1>1, <1>2, FlattenEmpty

LEMMA ReplaceAppend ==
    ASSUME NEW S, NEW text \in Seq(S), NEW c \in S, NEW token, NEW by \in Seq(S)
    PROVE  ReplaceEach(Append(text, c), token, by)
              = ReplaceEach(text, token, by) \o One(c, token, by)
<1>. DEFINE more == Append(text, c)
            n == Len(text)
<1>1. /\ more \in Seq(S) /\ Len(more) = n + 1 /\ n \in Nat
      /\ more[n + 1] = c /\ \A i \in 1..n : more[i] = text[i]
  OBVIOUS
<1>2. One(c, token, by) \in Seq(S)
  BY DEF One
<1>. HIDE DEF more
<1>3. Ones(more, token, by) = Append(Ones(text, token, by), One(c, token, by))
  <2>1. /\ Ones(text, token, by) \in Seq(Seq(S)) /\ Len(Ones(text, token, by)) = n
        /\ \A i \in 1..n : Ones(text, token, by)[i] = One(text[i], token, by)
    BY OnesAre
  <2>2. /\ Ones(more, token, by) \in Seq(Seq(S)) /\ Len(Ones(more, token, by)) = n + 1
        /\ \A i \in 1..(n + 1) : Ones(more, token, by)[i] = One(more[i], token, by)
    <3>1. /\ Ones(more, token, by) \in Seq(Seq(S)) /\ Len(Ones(more, token, by)) = Len(more)
          /\ \A i \in 1..Len(more) : Ones(more, token, by)[i] = One(more[i], token, by)
      BY <1>1, OnesAre
    <3>. QED
      BY <1>1, <3>1
  <2>. DEFINE few == Ones(text, token, by)
              x == One(c, token, by)
  <2>. HIDE DEF few, x, n
  <2>3. /\ Append(few, x) \in Seq(Seq(S)) /\ Len(Append(few, x)) = n + 1
        /\ \A i \in 1..n : Append(few, x)[i] = few[i]
        /\ Append(few, x)[n + 1] = x
    BY <1>1, <1>2, <2>1 DEF few, x
  <2>4. \A i \in 1..(n + 1) : i = n + 1 \/ i \in 1..n
    BY <1>1
  <2>5. ASSUME NEW i \in 1..(n + 1) PROVE Ones(more, token, by)[i] = Append(few, x)[i]
    <3>1. CASE i = n + 1
      BY <1>1, <2>2, <2>3, <3>1 DEF x
    <3>2. CASE i \in 1..n
      BY <1>1, <2>1, <2>2, <2>3, <3>2 DEF few
    <3>. QED
      BY <2>4, <3>1, <3>2
  <2>6. Ones(more, token, by) = Append(few, x)
    BY <1>1, <2>2, <2>3, <2>5, SeqEqual
  <2>. QED
    BY <2>6 DEF few, x
<1>4. ReplaceEach(more, token, by) = FlattenSeq(Ones(more, token, by))
  BY <1>1, ReplaceIs
<1>5. ReplaceEach(text, token, by) = FlattenSeq(Ones(text, token, by))
  BY ReplaceIs
<1>6. Ones(text, token, by) \in Seq(Seq(S))
  BY OnesAre
<1>7. FlattenSeq(Append(Ones(text, token, by), One(c, token, by)))
         = FlattenSeq(Ones(text, token, by)) \o One(c, token, by)
  BY <1>2, <1>6, FlattenAppend
<1>. QED
  BY <1>3, <1>4, <1>5, <1>7 DEF more

\* In a text made of two.
LEMMA ReplaceConcat ==
    ASSUME NEW S, NEW a \in Seq(S), NEW b \in Seq(S), NEW token, NEW by \in Seq(S)
    PROVE  ReplaceEach(a \o b, token, by)
              = ReplaceEach(a, token, by) \o ReplaceEach(b, token, by)
<1>. DEFINE done(t) == ReplaceEach(t, token, by)
            so == {m \in Nat : done(a \o First(m, b)) = done(a) \o done(First(m, b))}
<1>1. \A t \in Seq(S) : \A c \in S : done(Append(t, c)) = done(t) \o One(c, token, by)
  BY ReplaceAppend
<1>2. \A t \in Seq(S) : done(t) \in Seq(S)
  BY ReplaceIs
<1>3. done(<<>>) = <<>> /\ \A c \in S : One(c, token, by) \in Seq(S)
  BY ReplaceEmpty DEF One
<1>. HIDE DEF done
<1>4. Len(b) \in Nat /\ First(0, b) = <<>> /\ First(Len(b), b) = b
  BY FirstIs
<1>5. 0 \in so
  <2>1. a \o <<>> = a /\ done(a) \o <<>> = done(a)
    BY <1>2, ConcatEmptySeq
  <2>. QED
    BY <1>3, <1>4, <2>1
<1>6. ASSUME NEW m \in 0..Len(b), m < Len(b), m \in so PROVE m + 1 \in so
  <2>1. /\ First(m, b) \in Seq(S) /\ b[m + 1] \in S
        /\ First(m + 1, b) = Append(First(m, b), b[m + 1])
    BY <1>6, FirstIs
  <2>. DEFINE front == First(m, b)
              c == b[m + 1]
  <2>2. a \o Append(front, c) = Append(a \o front, c) /\ a \o front \in Seq(S)
    BY <2>1
  <2>3. done(a \o front) = done(a) \o done(front) /\ m + 1 \in Nat
    BY <1>6
  <2>4. /\ done(a) \in Seq(S) /\ done(front) \in Seq(S) /\ One(c, token, by) \in Seq(S)
    BY <1>2, <1>3, <2>1
  <2>5. /\ done(Append(a \o front, c)) = done(a \o front) \o One(c, token, by)
        /\ done(Append(front, c)) = done(front) \o One(c, token, by)
    BY <1>1, <2>1, <2>2
  <2>6. (done(a) \o done(front)) \o One(c, token, by)
           = done(a) \o (done(front) \o One(c, token, by))
    BY <2>4, ConcatAssociative
  <2>7. First(m + 1, b) = Append(front, c)
    BY <2>1
  <2>. HIDE DEF front, c
  <2>. QED
    BY <2>2, <2>3, <2>5, <2>6, <2>7
<1>. HIDE DEF so
<1>7. \A m \in 0..Len(b) : m \in so
  BY <1>4, <1>5, <1>6, InductionFromZero
<1>8. Len(b) \in so
  BY <1>4, <1>7
<1>. QED
  BY <1>4, <1>8 DEF so, done

\* Where the token is not, nothing is replaced.
LEMMA ReplaceAbsent ==
    ASSUME NEW S, NEW token, NEW text \in Seq(S \ {token}), NEW by \in Seq(S)
    PROVE  ReplaceEach(text, token, by) = text
<1>. DEFINE rest == S \ {token}
            so == {m \in Nat : ReplaceEach(First(m, text), token, by) = First(m, text)}
<1>1. /\ Len(text) \in Nat /\ First(0, text) = <<>> /\ First(Len(text), text) = text
  BY FirstIs
<1>2. 0 \in so
  BY <1>1, ReplaceEmpty
<1>. DEFINE done(t) == ReplaceEach(t, token, by)
<1>3. \A t \in Seq(S) : \A d \in S : done(Append(t, d)) = done(t) \o One(d, token, by)
  BY ReplaceAppend
<1>4. ASSUME NEW m \in 0..Len(text), m < Len(text), m \in so PROVE m + 1 \in so
  <2>. DEFINE front == First(m, text)
              c == text[m + 1]
  <2>1. front \in Seq(rest) /\ c \in rest /\ First(m + 1, text) = Append(front, c)
    BY <1>4, FirstIs
  <2>2. front \in Seq(S)
    BY <2>1, SeqMonotonic
  <2>3. c \in S /\ One(c, token, by) = <<c>>
    BY <2>1 DEF One
  <2>4. ReplaceEach(front, token, by) = front /\ m + 1 \in Nat
    BY <1>4
  <2>. HIDE DEF front, c
  <2>5. ReplaceEach(Append(front, c), token, by)
           = ReplaceEach(front, token, by) \o One(c, token, by)
    BY <1>3, <2>2, <2>3
  <2>6. front \o <<c>> = Append(front, c)
    BY <2>2, <2>3
  <2>. QED
    BY <2>1, <2>3, <2>4, <2>5, <2>6
<1>. HIDE DEF so
<1>5. \A m \in 0..Len(text) : m \in so
  BY <1>1, <1>2, <1>4, InductionFromZero
<1>6. Len(text) \in so
  BY <1>1, <1>5
<1>. QED
  BY <1>1, <1>6 DEF so

\* In one token.
LEMMA ReplaceSingle ==
    ASSUME NEW S, NEW c \in S, NEW token, NEW by \in Seq(S)
    PROVE  ReplaceEach(<<c>>, token, by) = One(c, token, by)
<1>1. <<>> \in Seq(S) /\ Append(<<>>, c) = <<c>> /\ One(c, token, by) \in Seq(S)
  BY DEF One
<1>2. ReplaceEach(Append(<<>>, c), token, by)
         = ReplaceEach(<<>>, token, by) \o One(c, token, by)
  <2>1. \A t \in Seq(S) : \A d \in S :
           ReplaceEach(Append(t, d), token, by)
              = ReplaceEach(t, token, by) \o One(d, token, by)
    BY ReplaceAppend
  <2>. QED
    BY <1>1, <2>1
<1>3. <<>> \o One(c, token, by) = One(c, token, by)
  BY <1>1, ConcatEmptySeq
<1>. QED
  BY <1>1, <1>2, <1>3, ReplaceEmpty

\* Joining a text's tokens gives the text: a token that cannot occur is replaced.
LEMMA FlattenSingles ==
    ASSUME NEW S, NEW text \in Seq(S)
    PROVE  FlattenSeq([n \in DOMAIN text |-> <<text[n]>>]) = text
<1>1. PICK x : x \notin S
  <2>. DEFINE x == {c \in S : c \notin c}
  <2>1. \A c \in S : c \in x <=> c \notin c
    OBVIOUS
  <2>. HIDE DEF x
  <2>2. x \notin S
    BY <2>1
  <2>. QED
    BY <2>2
<1>2. S \ {x} = S /\ <<>> \in Seq(S)
  BY <1>1
<1>3. ReplaceEach(text, x, <<>>) = text
  BY <1>2, ReplaceAbsent
<1>4. ReplaceEach(text, x, <<>>) = FlattenSeq(Ones(text, x, <<>>))
  BY <1>2, ReplaceIs
<1>5. Ones(text, x, <<>>) = [n \in DOMAIN text |-> <<text[n]>>]
  <2>1. \A n \in DOMAIN text : One(text[n], x, <<>>) = <<text[n]>>
    <3>1. \A n \in DOMAIN text : text[n] \in S
      OBVIOUS
    <3>. QED
      BY <1>1, <3>1 DEF One
  <2>. QED
    BY <2>1 DEF Ones
<1>. QED
  BY <1>3, <1>4, <1>5

\* Replacing in texts that are joined is replacing in each of them.
Replaced(texts, token, by) == [n \in DOMAIN texts |-> ReplaceEach(texts[n], token, by)]

LEMMA ReplaceJoined ==
    ASSUME NEW S, NEW texts \in Seq(Seq(S)), NEW token, NEW by \in Seq(S)
    PROVE  /\ Replaced(texts, token, by) \in Seq(Seq(S))
           /\ ReplaceEach(FlattenSeq(texts), token, by)
                 = FlattenSeq(Replaced(texts, token, by))
<1>. DEFINE done(t) == ReplaceEach(t, token, by)
            all == Replaced(texts, token, by)
            so == {m \in Nat : done(FlattenSeq(First(m, texts))) = FlattenSeq(First(m, all))}
<1>1. /\ \A t \in Seq(S) : done(t) \in Seq(S)
      /\ done(<<>>) = <<>>
      /\ \A s, t \in Seq(S) : done(s \o t) = done(s) \o done(t)
  <2>1. \A t \in Seq(S) : done(t) \in Seq(S)
    BY ReplaceIs
  <2>2. \A s, t \in Seq(S) : done(s \o t) = done(s) \o done(t)
    BY ReplaceConcat
  <2>. QED
    BY <2>1, <2>2, ReplaceEmpty
<1>2. /\ all \in Seq(Seq(S)) /\ Len(all) = Len(texts) /\ Len(texts) \in Nat
      /\ \A n \in 1..Len(texts) : all[n] = done(texts[n])
  <2>1. \A n \in 1..Len(texts) : done(texts[n]) \in Seq(S)
    <3>1. \A n \in 1..Len(texts) : texts[n] \in Seq(S)
      OBVIOUS
    <3>. HIDE DEF done
    <3>. QED
      BY <1>1, <3>1
  <2>2. all = [n \in 1..Len(texts) |-> done(texts[n])]
    BY DEF Replaced
  <2>. HIDE DEF done, all
  <2>. QED
    BY <2>1, <2>2
<1>. HIDE DEF done, all
<1>3. /\ First(0, texts) = <<>> /\ First(0, all) = <<>>
      /\ First(Len(texts), texts) = texts /\ First(Len(texts), all) = all
  <2>1. First(0, all) = <<>> /\ First(Len(all), all) = all
    BY <1>2, FirstIs
  <2>. QED
    BY <1>2, <2>1, FirstIs
<1>4. 0 \in so
  BY <1>1, <1>3, FlattenEmpty
<1>5. ASSUME NEW m \in 0..Len(texts), m < Len(texts), m \in so PROVE m + 1 \in so
  <2>1. /\ FlattenSeq(First(m + 1, texts)) = FlattenSeq(First(m, texts)) \o texts[m + 1]
        /\ FlattenSeq(First(m, texts)) \in Seq(S) /\ texts[m + 1] \in Seq(S)
    BY <1>5, FlattenFirst
  <2>2. m \in 0..Len(all) /\ m < Len(all)
    BY <1>2, <1>5
  <2>3. FlattenSeq(First(m + 1, all)) = FlattenSeq(First(m, all)) \o all[m + 1]
    BY <1>2, <2>2, FlattenFirst
  <2>4. all[m + 1] = done(texts[m + 1]) /\ m + 1 \in Nat
    BY <1>2, <1>5
  <2>. QED
    BY <1>1, <1>5, <2>1, <2>3, <2>4
<1>. HIDE DEF so
<1>6. \A m \in 0..Len(texts) : m \in so
  BY <1>2, <1>4, <1>5, InductionFromZero
<1>7. Len(texts) \in so
  BY <1>2, <1>6
<1>8. done(FlattenSeq(texts)) = FlattenSeq(all)
  BY <1>3, <1>7 DEF so
<1>. QED
  BY <1>2, <1>8 DEF done, all

---------------------------------------------------------------------------
(* Filling a path goes parameter by parameter.                             *)

\* The path after each of the parameters, as Filled defines it.
Fills(path, params, m, f) ==
    f = [n \in 0..m |->
            IF n = 0 THEN path
            ELSE ReplaceEach(f[n - 1], Holder[params[n].key], TextOf(params[n]))]

LEMMA FillsExist ==
    ASSUME NEW path, NEW params, NEW n \in Nat
    PROVE  \E f : Fills(path, params, n, f)
<1>. DEFINE has == {m \in Nat : \E f : Fills(path, params, m, f)}
            next(text, k) == ReplaceEach(text, Holder[params[k].key],
                                               TextOf(params[k]))
<1>1. 0 \in has
  <2>1. Fills(path, params, 0, [i \in 0..0 |-> path])
    BY DEF Fills
  <2>. QED
    BY <2>1
<1>2. ASSUME NEW m \in 0..n, m < n, m \in has PROVE m + 1 \in has
  <2>1. PICK f : Fills(path, params, m, f)
    BY <1>2
  <2>2. f = [i \in 0..m |-> IF i = 0 THEN path ELSE next(f[i - 1], i)]
    BY <2>1 DEF Fills
  <2>. HIDE DEF next
  <2>. DEFINE g == [i \in 0..(m + 1) |-> IF i = m + 1 THEN next(f[m], i) ELSE f[i]]
  <2>3. m \in Nat /\ m + 1 # 0 /\ (m + 1) - 1 = m /\ m # m + 1 /\ m + 1 \in Nat
    OBVIOUS
  <2>4. g[m + 1] = next(g[m], m + 1)
    <3>1. m \in 0..(m + 1) /\ m + 1 \in 0..(m + 1)
      BY <2>3
    <3>. QED
      BY <2>3, <3>1
  <2>5. \A i \in 0..m : f[i] = IF i = 0 THEN path ELSE next(f[i - 1], i)
    BY <2>2
  <2>6. \A i \in 0..m : g[i] = f[i]
    BY <2>3
  <2>7. g = [i \in 0..(m + 1) |-> g[i]]
    OBVIOUS
  <2>. HIDE DEF g
  <2>8. \A i \in 0..(m + 1) : g[i] = IF i = 0 THEN path ELSE next(g[i - 1], i)
    <3>1. \A i \in 0..(m + 1) : i = m + 1 \/ i \in 0..m
      BY <2>3
    <3>2. ASSUME NEW i \in 0..m PROVE g[i] = IF i = 0 THEN path ELSE next(g[i - 1], i)
      <4>1. i # 0 => i - 1 \in 0..m
        BY <2>3
      <4>. QED
        BY <2>5, <2>6, <4>1
    <3>. QED
      BY <2>3, <2>4, <3>1, <3>2
  <2>9. g = [i \in 0..(m + 1) |-> IF i = 0 THEN path ELSE next(g[i - 1], i)]
    BY <2>7, <2>8
  <2>10. Fills(path, params, m + 1, g)
    BY <2>9 DEF Fills, next
  <2>. QED
    BY <2>3, <2>10
<1>. HIDE DEF has
<1>3. \A m \in 0..n : m \in has
  BY <1>1, <1>2, InductionFromZero
<1>. QED
  BY <1>3 DEF has

\* It goes by the parameters alone, however many come after them.
LEMMA FillsAgree ==
    ASSUME NEW path, NEW s, NEW t, NEW m \in Nat, NEW n \in Nat, m <= n,
           NEW f, NEW g, Fills(path, s, m, f), Fills(path, t, n, g),
           \A i \in 1..m : s[i] = t[i]
    PROVE  f[m] = g[m]
<1>. DEFINE same == {i \in Nat : f[i] = g[i]}
            next(text, p) == ReplaceEach(text, Holder[p.key], TextOf(p))
<1>1. /\ \A i \in 0..m : f[i] = IF i = 0 THEN path ELSE next(f[i - 1], s[i])
      /\ \A i \in 0..n : g[i] = IF i = 0 THEN path ELSE next(g[i - 1], t[i])
  <2>1. /\ f = [i \in 0..m |-> IF i = 0 THEN path ELSE next(f[i - 1], s[i])]
        /\ g = [i \in 0..n |-> IF i = 0 THEN path ELSE next(g[i - 1], t[i])]
    BY DEF Fills
  <2>. HIDE DEF next
  <2>. QED
    BY <2>1
<1>. HIDE DEF next
<1>2. 0 \in same
  <2>1. 0 \in 0..m /\ 0 \in 0..n
    OBVIOUS
  <2>. QED
    BY <1>1, <2>1
<1>3. ASSUME NEW i \in 0..m, i < m, i \in same PROVE i + 1 \in same
  <2>1. /\ i + 1 \in Nat /\ i + 1 # 0 /\ (i + 1) - 1 = i /\ f[i] = g[i]
        /\ i + 1 \in 0..m /\ i + 1 \in 0..n /\ i + 1 \in 1..m
    BY <1>3
  <2>2. f[i + 1] = next(f[i], s[i + 1]) /\ g[i + 1] = next(g[i], t[i + 1])
    BY <1>1, <2>1
  <2>. QED
    BY <2>1, <2>2
<1>. HIDE DEF same
<1>4. \A i \in 0..m : i \in same
  BY <1>2, <1>3, InductionFromZero
<1>5. m \in 0..m
  OBVIOUS
<1>. QED
  BY <1>4, <1>5 DEF same

\* Filling in no parameter, and one more.
LEMMA FilledEmpty == ASSUME NEW path PROVE Filled(path, <<>>) = path
<1>. DEFINE f == CHOOSE h : Fills(path, <<>>, 0, h)
<1>1. Filled(path, <<>>) = f[0]
  <2>1. Len(<<>>) = 0
    OBVIOUS
  <2>. QED
    BY <2>1 DEF Filled, Fills
<1>2. Fills(path, <<>>, 0, f)
  BY FillsExist
<1>. HIDE DEF f
<1>. QED
  BY <1>1, <1>2 DEF Fills

LEMMA FilledAppend ==
    ASSUME NEW S, NEW path, NEW params \in Seq(S), NEW p \in S
    PROVE  Filled(path, Append(params, p))
              = ReplaceEach(Filled(path, params), Holder[p.key], TextOf(p))
<1>. DEFINE n    == Len(params)
            more == Append(params, p)
            f == CHOOSE h : Fills(path, params, n, h)
            g == CHOOSE h : Fills(path, more, n + 1, h)
<1>1. /\ n \in Nat /\ n + 1 \in Nat /\ n <= n + 1
      /\ Len(more) = n + 1 /\ more[n + 1] = p /\ \A i \in 1..n : params[i] = more[i]
  OBVIOUS
<1>2. /\ Filled(path, params) = f[n]
      /\ Filled(path, more) = g[n + 1]
  <2>1. Filled(path, params) = f[n]
    BY DEF Filled, Fills
  <2>. HIDE DEF more, n
  <2>2. Filled(path, more) = g[n + 1]
    BY <1>1 DEF Filled, Fills
  <2>. QED
    BY <2>1, <2>2
<1>. HIDE DEF n, more
<1>3. Fills(path, params, n, f) /\ Fills(path, more, n + 1, g)
  BY <1>1, FillsExist
<1>. HIDE DEF f, g
<1>4. f[n] = g[n]
  BY <1>1, <1>3, FillsAgree
<1>5. g[n + 1] = ReplaceEach(g[n], Holder[p.key], TextOf(p))
  <2>1. n + 1 \in 0..(n + 1) /\ n + 1 # 0 /\ (n + 1) - 1 = n
    BY <1>1
  <2>. QED
    BY <1>1, <1>3, <2>1 DEF Fills
<1>. QED
  BY <1>2, <1>4, <1>5 DEF more

---------------------------------------------------------------------------
(* The invariant: what the instance and the request are made of, and what  *)
(* an attempt may find in the form of a multipart.                         *)

\* A parameter that was declared, with its argument.
ParamOf(i) == [tag |-> decl[i].tag, key |-> decl[i].key,
               type |-> decl[i].type, value |-> args[i]]
Tagged(tag) == {i \in DOMAIN decl : decl[i].tag = tag}

\* The form as it is read before and after the caller's strings are gone.
Early == Items(inst["form"])
Late  == [i \in DOMAIN inst["form"] |->
             <<inst["form"][i].key,
               IF inst["form"][i].type = "string" THEN <<"garbage">>
               ELSE TextOf(inst["form"][i])>>]

Possible ==
    {Arrives(request, Early)}
        \cup (IF freed THEN {Arrives(request, Late)} ELSE {})

Chosen ==
    /\ decl \in Declarations
    /\ \A i \in DOMAIN decl : args[i] \in Values[decl[i].type]

Made ==
    /\ inst = None => request = None /\ got = <<>>
    /\ inst # None => /\ inst = Make(decl, args)
                            /\ request = Convert(inst)
                            /\ got \in Seq(Possible)

TypedIInv == Chosen /\ Made

\* Nothing is made at first.
LEMMA InitTyped == TypedInit => TypedIInv
<1>. SUFFICES ASSUME TypedInit PROVE TypedIInv
  OBVIOUS
<1>1. Chosen
  BY DEF TypedInit, Chosen
<1>. QED
  BY <1>1 DEF TypedInit, TypedIInv, Made

\* make() and the conversion.
LEMMA SendTyped == TypedIInv /\ Send => TypedIInv'
<1>. SUFFICES ASSUME TypedIInv, Send PROVE TypedIInv'
  OBVIOUS
<1>1. /\ inst = None /\ inst' = Make(decl, args) /\ request' = Convert(inst')
      /\ decl' = decl /\ args' = args /\ multipart' = multipart /\ freed' = freed /\ got' = got
  BY DEF Send
<1>2. \A i : i = inst' => Convert(inst)' = Convert(i)
  BY <1>1 DEF Convert, Body
<1>3. Chosen'
  BY <1>1 DEF TypedIInv, Chosen
<1>4. got' = <<>>
  BY <1>1 DEF TypedIInv, Made
<1>5. inst' # None
  BY <1>1 DEF Make, None, Tags
<1>. QED
  BY <1>1, <1>2, <1>3, <1>4, <1>5, EmptySeq DEF TypedIInv, Made

\* What an attempt may find stays what it was, or a bit more after Return.
LEMMA PossibleStays ==
    ASSUME UNCHANGED <<multipart, inst, request>>, freed => freed'
    PROVE  Possible \subseteq Possible'
<1>1. Early' = Early /\ Late' = Late
  BY DEF Early, Late
<1>2. \A form : Arrives(request, form)' = Arrives(request, form)
  BY DEF Arrives, QueryOf
<1>3. Arrives(request, Early)' = Arrives(request, Early)
  BY <1>1, <1>2
<1>4. Arrives(request, Late)' = Arrives(request, Late)
  BY <1>1, <1>2
<1>. QED
  BY <1>3, <1>4 DEF Possible

\* The caller's strings go.
LEMMA ReturnTyped == TypedIInv /\ Return => TypedIInv'
<1>. SUFFICES ASSUME TypedIInv, Return PROVE TypedIInv'
  OBVIOUS
<1>1. /\ inst # None /\ decl' = decl /\ args' = args /\ multipart' = multipart
      /\ inst' = inst /\ request' = request /\ got' = got /\ freed'
  BY DEF Return
<1>2. Convert(inst)' = Convert(inst)
  BY <1>1 DEF Convert, Body
<1>3. Chosen'
  BY <1>1 DEF TypedIInv, Chosen
<1>4. got \in Seq(Possible) /\ inst = Make(decl, args) /\ request = Convert(inst)
  BY <1>1 DEF TypedIInv, Made
<1>5. got' \in Seq(Possible')
  BY <1>1, <1>4, PossibleStays, SeqMonotonic
<1>. QED
  BY <1>1, <1>2, <1>3, <1>4, <1>5 DEF TypedIInv, Made

\* An attempt finds the request as it was made, and a form early or late.
LEMMA AttemptTyped == TypedIInv /\ Attempt => TypedIInv'
<1>. SUFFICES ASSUME TypedIInv, Attempt PROVE TypedIInv'
  OBVIOUS
<1>. DEFINE form == [i \in DOMAIN inst["form"] |->
                        <<inst["form"][i].key, Now(inst["form"][i])>>]
            x == Arrives(request, form)
<1>1. /\ inst # None /\ decl' = decl /\ args' = args /\ multipart' = multipart
      /\ inst' = inst /\ request' = request /\ freed' = freed /\ got' = Append(got, x)
  BY DEF Attempt
<1>2. x \in Possible
  <2>1. CASE freed
    <3>1. form = Late
      BY <2>1 DEF Late, Now
    <3>. HIDE DEF form
    <3>. QED
      BY <2>1, <3>1 DEF Possible
  <2>2. CASE ~freed
    <3>1. form = Early
      BY <2>2 DEF Early, Items, Now
    <3>. HIDE DEF form
    <3>. QED
      BY <2>2, <3>1 DEF Possible
  <2>. QED
    BY <2>1, <2>2
<1>. HIDE DEF form, x
<1>3. Convert(inst)' = Convert(inst)
  BY <1>1 DEF Convert, Body
<1>4. Chosen'
  BY <1>1 DEF TypedIInv, Chosen
<1>5. got \in Seq(Possible) /\ inst = Make(decl, args) /\ request = Convert(inst)
  BY <1>1 DEF TypedIInv, Made
<1>6. got' \in Seq(Possible')
  <2>1. got' \in Seq(Possible)
    BY <1>1, <1>2, <1>5
  <2>. QED
    BY <1>1, <2>1, PossibleStays, SeqMonotonic
<1>. QED
  BY <1>1, <1>3, <1>4, <1>5, <1>6 DEF TypedIInv, Made

\* Every step preserves the invariant.
LEMMA NextTyped == TypedIInv /\ [TypedNext]_typedVars => TypedIInv'
<1>. SUFFICES ASSUME TypedIInv, [TypedNext]_typedVars PROVE TypedIInv'
  OBVIOUS
<1>1. CASE UNCHANGED typedVars
  <2>1. /\ decl' = decl /\ args' = args /\ multipart' = multipart /\ inst' = inst
        /\ request' = request /\ freed' = freed /\ got' = got
    BY <1>1 DEF typedVars
  <2>2. Convert(inst)' = Convert(inst)
    BY <2>1 DEF Convert, Body
  <2>3. got \in Seq(Possible) => got' \in Seq(Possible')
    BY <2>1, PossibleStays, SeqMonotonic
  <2>. QED
    BY <2>1, <2>2, <2>3 DEF TypedIInv, Chosen, Made
<1>2. CASE TypedNext
  BY <1>2, SendTyped, ReturnTyped, AttemptTyped DEF TypedNext
<1>. QED
  BY <1>1, <1>2

\* The invariant holds of every execution: the instance is what make() made of the
\* arguments, the request what it was converted to, and what each attempt sent is that
\* request, with a form that may have been read late (HttpRequest.h:349,
\* NetworkClient.h:45).
THEOREM TypedIInvHolds == TypedSpec => []TypedIInv
  BY InitTyped, NextTyped, PTL DEF TypedSpec

---------------------------------------------------------------------------
(* Attempt by attempt.                                                     *)

\* The parameters of a tag, each with its own argument and nothing else.
Own(tag) == [i \in DOMAIN decl |-> IF decl[i].tag = tag THEN <<ParamOf(i)>> ELSE <<>>]

\* What the declaration and the arguments are.
LEMMA DeclIs ==
    ASSUME Chosen
    PROVE  /\ decl \in Seq([tag : Tags, key : STRING, type : DOMAIN Values])
           /\ Len(decl) \in Nat /\ DOMAIN decl = 1..Len(decl)
           /\ \A i \in DOMAIN decl : /\ args[i] \in Text
                                     /\ decl[i].tag = "path" => decl[i].key \in DOMAIN Holder
           /\ Template \in Text /\ Limit \in Nat
           /\ Count(decl, "body") = 0 \/ Count(decl, "form") = 0
<1>1. /\ decl \in Seq([tag : Tags, key : STRING, type : DOMAIN Values])
      /\ \A i \in DOMAIN decl : decl[i].tag = "path" => decl[i].key \in DOMAIN Holder
      /\ Count(decl, "body") = 0 \/ Count(decl, "form") = 0
  BY TypedRequestAssumption DEF Chosen
<1>2. Template \in Text /\ Limit \in Nat
  BY TypedRequestAssumption
<1>3. Len(decl) \in Nat /\ DOMAIN decl = 1..Len(decl)
  BY <1>1, LenProperties
<1>4. ASSUME NEW i \in DOMAIN decl PROVE args[i] \in Text
  <2>. DEFINE parameters == [tag : Tags, key : STRING, type : DOMAIN Values]
  <2>1. decl[i] \in parameters
    <3>1. decl \in Seq(parameters)
      BY <1>1
    <3>. HIDE DEF parameters
    <3>. QED
      BY <3>1
  <2>2. decl[i].type \in DOMAIN Values
    BY <2>1
  <2>3. \A type \in DOMAIN Values : Values[type] \subseteq Text
    BY TypedRequestAssumption
  <2>. QED
    BY <2>2, <2>3 DEF Chosen
<1>. QED
  BY <1>1, <1>2, <1>4, <1>3

LEMMA OwnIs ==
    ASSUME Chosen, NEW tag
    PROVE  /\ Own(tag) \in Seq(Seq({ParamOf(i) : i \in Tagged(tag)}))
           /\ Group(tag, decl, args) = FlattenSeq(Own(tag))
           /\ Len(Own(tag)) = Len(decl) /\ Len(decl) \in Nat
<1>. DEFINE all == {ParamOf(i) : i \in Tagged(tag)}
<1>1. Len(decl) \in Nat /\ DOMAIN decl = 1..Len(decl)
  BY DeclIs
<1>2. \A i \in 1..Len(decl) :
         (IF decl[i].tag = tag THEN <<ParamOf(i)>> ELSE <<>>) \in Seq(all)
  <2>1. \A i \in 1..Len(decl) : decl[i].tag = tag => ParamOf(i) \in all
    BY <1>1 DEF Tagged
  <2>. HIDE DEF all
  <2>. QED
    BY <2>1
<1>3. Own(tag) \in Seq(Seq(all)) /\ Len(Own(tag)) = Len(decl)
  <2>1. Own(tag) = [i \in 1..Len(decl) |-> IF decl[i].tag = tag THEN <<ParamOf(i)>> ELSE <<>>]
    BY <1>1 DEF Own
  <2>. HIDE DEF all
  <2>. QED
    BY <1>1, <1>2, <2>1
<1>4. Group(tag, decl, args) = FlattenSeq(Own(tag))
  BY DEF Group, Own, ParamOf
<1>. QED
  BY <1>1, <1>3, <1>4

LEMMA GroupIs ==
    ASSUME Chosen, NEW tag
    PROVE  Group(tag, decl, args) \in Seq({ParamOf(i) : i \in Tagged(tag)})
  BY OwnIs, FlattenType

\* NetworkClient.h:69: whatever is declared and passed, and however often and late a
\* request is sent, its attempts differ in nothing but a form that views strings.
THEOREM AttemptsAlikeHolds ==
    TypedSpec => []AttemptsAlike
<1>1. ASSUME TypedIInv PROVE AttemptsAlike
  <2>. SUFFICES ASSUME NEW m \in DOMAIN got, NEW n \in DOMAIN got
                PROVE  /\ [got[m] EXCEPT !.body = <<>>] = [got[n] EXCEPT !.body = <<>>]
                       /\ got[m].body # got[n].body => Viewed
    BY DEF AttemptsAlike
  <2>1. inst # None
    BY <1>1 DEF TypedIInv, Made
  <2>2. inst = Make(decl, args) /\ got \in Seq(Possible) /\ Chosen
    BY <1>1, <2>1 DEF TypedIInv, Made
  <2>3. got[m] \in Possible /\ got[n] \in Possible
    BY <2>2
  <2>4. \A e, f : [Arrives(request, e) EXCEPT !.body = <<>>]
                     = [Arrives(request, f) EXCEPT !.body = <<>>]
    BY DEF Arrives
  <2>5. [got[m] EXCEPT !.body = <<>>] = [got[n] EXCEPT !.body = <<>>]
    BY <2>3, <2>4 DEF Possible
  <2>6. ASSUME got[m].body # got[n].body PROVE Viewed
    <3>1. freed /\ Arrives(request, Early).body # Arrives(request, Late).body
      BY <2>3, <2>6 DEF Possible
    <3>2. multipart /\ Early # Late
      BY <3>1 DEF Arrives
    <3>3. inst["form"] = Group("form", decl, args)
      BY <2>2 DEF Make, Tags
    <3>4. inst["form"] \in Seq({ParamOf(i) : i \in Tagged("form")})
      BY <2>2, <3>3, GroupIs
    <3>5. PICK i \in DOMAIN inst["form"] : inst["form"][i].type = "string"
      BY <3>2 DEF Early, Late, Items
    <3>6. PICK j \in Tagged("form") : inst["form"][i] = ParamOf(j)
      BY <3>4, <3>5
    <3>7. decl[j].type = "string"
      BY <3>5, <3>6 DEF ParamOf
    <3>. QED
      BY <3>1, <3>2, <3>6, <3>7 DEF Viewed, Tagged
  <2>. QED
    BY <2>5, <2>6
<1>. QED
  BY <1>1, TypedIInvHolds, PTL

---------------------------------------------------------------------------
(* Placeholders.                                                           *)

\* A text that mentions none of the tokens is one of the others.
LEMMA Unmentioned ==
    ASSUME NEW S, NEW text \in Seq(S), NEW tokens, ~Mentions(text, tokens)
    PROVE  text \in Seq(S \ tokens)
<1>1. \A n \in 1..Len(text) : text[n] \in S \ tokens
  BY DEF Mentions
<1>2. text = [n \in 1..Len(text) |-> text[n]] /\ Len(text) \in Nat
  OBVIOUS
<1>. QED
  BY <1>1, <1>2

\* A set of numbers has a least one.
LEMMA MinIs ==
    ASSUME NEW S \in SUBSET Nat, S # {}
    PROVE  Min(S) \in S /\ \A i \in S : Min(S) <= i
<1>. DEFINE less == {p \in Nat \X Nat : p[1] < p[2]}
<1>1. IsWellFoundedOn(less, Nat)
  BY NatLessThanWellFounded DEF OpToRel
<1>2. PICK x \in S : \A y \in S : <<y, x>> \notin less
  <2>. HIDE DEF less
  <2>. QED
    BY <1>1, WFMin
<1>3. \A y \in S : x <= y
  <2>1. \A y \in S : ~(y < x)
    BY <1>2
  <2>. QED
    BY <2>1
<1>. QED
  BY <1>3 DEF Min

\* The parameters among the first m that a token of the path is the placeholder of, and
\* what stands for the token once they are filled in.
Named(n, m) == {i \in 1..m : decl[i].tag = "path" /\ Holder[decl[i].key] = Template[n]}
Part(n, m)  == IF Named(n, m) = {} THEN <<Template[n]>> ELSE args[Min(Named(n, m))]
Partly(m)   == [n \in DOMAIN Template |-> Part(n, m)]

\* No value holds the placeholder of a later parameter, and none is rounded.
Undisturbed ==
    \A i, j \in DOMAIN decl :
        decl[i].tag = "path" /\ decl[j].tag = "path" /\ i < j =>
            ~Mentions(args[i], {Holder[decl[j].key]})
Unrounded(tag) == \A i \in Tagged(tag) : TextOf(ParamOf(i)) = args[i]

LEMMA AtOnceIs ==
    ASSUME Chosen
    PROVE  AtOnce = FlattenSeq(Partly(Len(decl)))
<1>1. DOMAIN decl = 1..Len(decl)
  BY DeclIs
<1>2. AtOnce = FlattenSeq(Partly(Len(decl)))
  BY <1>1 DEF AtOnce, Partly, Part, Named
<1>. QED
  BY <1>2

\* What stands for a token is a text.
LEMMA PartIs ==
    ASSUME Chosen, NEW m \in 0..Len(decl)
    PROVE  /\ \A n \in DOMAIN Template :
                 /\ Part(n, m) \in Text
                 /\ Named(n, m) # {} =>
                       /\ Min(Named(n, m)) \in Named(n, m)
                       /\ \A i \in Named(n, m) : Min(Named(n, m)) <= i
           /\ Partly(m) \in Seq(Text) /\ Len(Partly(m)) = Len(Template)
<1>1. /\ Len(decl) \in Nat /\ DOMAIN decl = 1..Len(decl) /\ Len(Template) \in Nat
      /\ DOMAIN Template = 1..Len(Template) /\ \A n \in DOMAIN Template : Template[n] \in STRING
      /\ \A i \in DOMAIN decl : args[i] \in Text
  <2>1. Template \in Text
    BY DeclIs
  <2>2. Template \in Seq(STRING)
    BY <2>1 DEF Text
  <2>3. /\ Len(decl) \in Nat /\ DOMAIN decl = 1..Len(decl)
        /\ \A i \in DOMAIN decl : args[i] \in Text
    BY DeclIs
  <2>4. /\ Len(Template) \in Nat /\ DOMAIN Template = 1..Len(Template)
        /\ \A n \in DOMAIN Template : Template[n] \in STRING
    BY <2>2
  <2>. QED
    BY <2>3, <2>4
<1>2. ASSUME NEW n \in DOMAIN Template
      PROVE  /\ Part(n, m) \in Text
             /\ Named(n, m) # {} =>
                   /\ Min(Named(n, m)) \in Named(n, m)
                   /\ \A i \in Named(n, m) : Min(Named(n, m)) <= i
  <2>1. Named(n, m) \in SUBSET Nat /\ Named(n, m) \subseteq DOMAIN decl
    BY <1>1 DEF Named
  <2>2. CASE Named(n, m) = {}
    BY <1>1, <2>2 DEF Part, Text
  <2>3. CASE Named(n, m) # {}
    <3>1. /\ Min(Named(n, m)) \in Named(n, m)
          /\ \A i \in Named(n, m) : Min(Named(n, m)) <= i
      BY <2>1, <2>3, MinIs
    <3>2. Part(n, m) \in Text
      BY <1>1, <2>1, <2>3, <3>1 DEF Part
    <3>. QED
      BY <3>1, <3>2
  <2>. QED
    BY <2>2, <2>3
<1>3. Partly(m) = [n \in 1..Len(Template) |-> Part(n, m)]
  BY <1>1 DEF Partly
<1>. QED
  BY <1>1, <1>2, <1>3

\* One parameter more: where it is named and nothing stands yet, its argument does.
LEMMA PartNext ==
    ASSUME Chosen, Undisturbed,
           NEW m \in 0..Len(decl), m < Len(decl), NEW n \in DOMAIN Template
    PROVE  Part(n, m + 1)
              = IF decl[m + 1].tag = "path"
                THEN ReplaceEach(Part(n, m), Holder[decl[m + 1].key], args[m + 1])
                ELSE Part(n, m)
<1>. DEFINE h == Holder[decl[m + 1].key]
            v == args[m + 1]
<1>1. /\ m \in Nat /\ m + 1 \in DOMAIN decl /\ DOMAIN decl = 1..Len(decl)
      /\ \A i \in 1..(m + 1) : i = m + 1 \/ i \in 1..m
      /\ \A i \in 1..m : i \in 1..(m + 1) /\ i \in DOMAIN decl /\ i < m + 1 /\ i \in Nat
      /\ m + 1 \in 1..(m + 1) /\ m + 1 \in Nat
  <2>1. Len(decl) \in Nat /\ DOMAIN decl = 1..Len(decl)
    BY DeclIs
  <2>. QED
    BY <2>1
<1>2. Template[n] \in STRING /\ v \in Seq(STRING) /\ \A i \in DOMAIN decl : args[i] \in Seq(STRING)
  <2>1. Template \in Seq(STRING)
    BY DeclIs DEF Text
  <2>2. \A i \in DOMAIN decl : args[i] \in Seq(STRING)
    BY DeclIs DEF Text
  <2>. QED
    BY <1>1, <2>1, <2>2
<1>3. Named(n, m + 1) = Named(n, m)
                           \cup (IF decl[m + 1].tag = "path" /\ h = Template[n] THEN {m + 1} ELSE {})
  BY <1>1 DEF Named
<1>. HIDE DEF h, v
<1>4. CASE decl[m + 1].tag # "path"
  <2>1. Named(n, m + 1) = Named(n, m)
    BY <1>3, <1>4
  <2>. QED
    BY <1>4, <2>1 DEF Part
<1>5. CASE decl[m + 1].tag = "path" /\ Named(n, m) # {}
  <2>. DEFINE j == Min(Named(n, m))
  <2>1. j \in Named(n, m) /\ \A i \in Named(n, m) : j <= i
    BY <1>5, PartIs
  <2>2. Named(n, m + 1) # {} /\ Min(Named(n, m + 1)) \in Named(n, m + 1)
        /\ \A i \in Named(n, m + 1) : Min(Named(n, m + 1)) <= i
    <3>1. Named(n, m + 1) # {}
      BY <1>3, <1>5
    <3>2. m + 1 \in 0..Len(decl)
      BY <1>1
    <3>. QED
      BY <3>1, <3>2, PartIs
  <2>. DEFINE k == Min(Named(n, m + 1))
  <2>3. j \in 1..m /\ decl[j].tag = "path"
    BY <2>1 DEF Named
  <2>. HIDE DEF j, k
  <2>4. k = j
    <3>1. k \in Named(n, m) \/ k = m + 1
      BY <1>3, <2>2 DEF k
    <3>2. j \in Named(n, m + 1)
      BY <1>3, <2>1
    <3>3. k <= j
      BY <2>2, <3>2 DEF k
    <3>4. k \in Named(n, m)
      BY <1>1, <2>3, <3>1, <3>3
    <3>5. j <= k /\ k \in Nat /\ j \in Nat
      BY <1>1, <2>1, <2>3, <3>4 DEF Named
    <3>. QED
      BY <3>3, <3>5
  <2>5. Part(n, m + 1) = args[j] /\ Part(n, m) = args[j]
    BY <1>5, <2>2, <2>4 DEF Part, j, k
  <2>6. args[j] \in Seq(STRING \ {h})
    <3>1. ~Mentions(args[j], {h})
      BY <1>1, <1>5, <2>3 DEF Undisturbed, h
    <3>2. args[j] \in Seq(STRING)
      BY <1>1, <1>2, <2>3
    <3>. QED
      BY <3>1, <3>2, Unmentioned
  <2>7. ReplaceEach(args[j], h, v) = args[j]
    BY <1>2, <2>6, ReplaceAbsent
  <2>. QED
    BY <1>5, <2>5, <2>7 DEF h, v
<1>6. CASE decl[m + 1].tag = "path" /\ Named(n, m) = {}
  <2>1. Part(n, m) = <<Template[n]>>
    BY <1>6 DEF Part
  <2>2. ReplaceEach(<<Template[n]>>, h, v) = One(Template[n], h, v)
    BY <1>2, ReplaceSingle
  <2>3. CASE h = Template[n]
    <3>1. Named(n, m + 1) = {m + 1}
      BY <1>3, <1>6, <2>3
    <3>2. Min({m + 1}) = m + 1
      <4>1. {m + 1} \in SUBSET Nat /\ {m + 1} # {}
        BY <1>1
      <4>2. Min({m + 1}) \in {m + 1}
        BY <4>1, MinIs
      <4>. QED
        BY <4>2
    <3>3. Part(n, m + 1) = v
      BY <3>1, <3>2 DEF Part, v
    <3>. QED
      BY <1>6, <2>1, <2>2, <2>3, <3>3 DEF One, h, v
  <2>4. CASE h # Template[n]
    <3>1. Named(n, m + 1) = {}
      BY <1>3, <1>6, <2>4
    <3>2. Part(n, m + 1) = <<Template[n]>>
      BY <3>1 DEF Part
    <3>. QED
      BY <1>6, <2>1, <2>2, <2>4, <3>2 DEF One, h, v
  <2>. QED
    BY <2>3, <2>4
<1>. QED
  BY <1>4, <1>5, <1>6

\* The path with some of the parameters filled in is the one in which those stand for
\* their placeholders, all at once.
LEMMA FilledIs ==
    ASSUME Chosen, Undisturbed, Unrounded("path")
    PROVE  Filled(Template, Group("path", decl, args)) = AtOnce
<1>. DEFINE all == {ParamOf(i) : i \in Tagged("path")}
            own == Own("path")
            params(m) == FlattenSeq(First(m, own))
            so == {m \in Nat : Filled(Template, params(m)) = FlattenSeq(Partly(m))}
<1>1. /\ own \in Seq(Seq(all)) /\ Len(own) = Len(decl) /\ Len(decl) \in Nat
      /\ Group("path", decl, args) = FlattenSeq(own)
  BY OwnIs
<1>2. First(0, own) = <<>> /\ First(Len(decl), own) = own
  <2>1. First(0, own) = <<>> /\ First(Len(own), own) = own
    <3>. HIDE DEF own, all
    <3>. QED
      BY <1>1, FirstIs
  <2>. QED
    BY <1>1, <2>1
<1>3. /\ Template \in Seq(STRING) /\ Text = Seq(STRING)
      /\ DOMAIN decl = 1..Len(decl)
  <2>1. Template \in Text /\ Text = Seq(STRING)
    BY DeclIs DEF Text
  <2>2. DOMAIN decl = 1..Len(decl)
    BY DeclIs
  <2>. QED
    BY <2>1, <2>2
<1>4. \A i \in DOMAIN decl : args[i] \in Seq(STRING)
  <2>1. \A i \in DOMAIN decl : args[i] \in Text
    BY DeclIs
  <2>. QED
    BY <1>3, <2>1
<1>5. 0 \in so
  <2>1. params(0) = <<>>
    BY <1>2, FlattenEmpty
  <2>2. Partly(0) = [n \in DOMAIN Template |-> <<Template[n]>>]
    <3>1. \A n \in DOMAIN Template : Part(n, 0) = <<Template[n]>>
      BY DEF Part, Named
    <3>. QED
      BY <3>1 DEF Partly
  <2>3. FlattenSeq(Partly(0)) = Template
    BY <1>3, <2>2, FlattenSingles
  <2>. QED
    BY <2>1, <2>3, FilledEmpty
<1>6. ASSUME NEW m \in 0..Len(decl), m < Len(decl), m \in so PROVE m + 1 \in so
  <2>. DEFINE h == Holder[decl[m + 1].key]
              v == args[m + 1]
              p == ParamOf(m + 1)
  <2>1. /\ m + 1 \in DOMAIN decl /\ m + 1 \in Nat /\ m \in 0..Len(own) /\ m < Len(own)
        /\ v \in Seq(STRING)
    <3>1. m + 1 \in 1..Len(decl) /\ m + 1 \in Nat /\ m \in 0..Len(own) /\ m < Len(own)
      <4>. HIDE DEF own, so
      <4>. QED
        BY <1>1, <1>6
    <3>. QED
      BY <1>3, <1>4, <3>1
  <2>2. /\ params(m + 1) = params(m) \o own[m + 1] /\ params(m) \in Seq(all)
    <3>. HIDE DEF own, all
    <3>. QED
      BY <1>1, <2>1, FlattenFirst
  <2>3. Filled(Template, params(m)) = FlattenSeq(Partly(m))
    BY <1>6
  <2>4. Partly(m) \in Seq(Seq(STRING))
    <3>1. Partly(m) \in Seq(Text)
      BY <1>6, PartIs
    <3>. QED
      BY <1>3, <3>1
  <2>5. own[m + 1] = IF decl[m + 1].tag = "path" THEN <<p>> ELSE <<>>
    BY <2>1 DEF Own
  <2>. HIDE DEF params, own
  <2>6. CASE decl[m + 1].tag # "path"
    <3>1. params(m + 1) = params(m)
      BY <2>2, <2>5, <2>6, ConcatEmptySeq
    <3>2. \A n \in DOMAIN Template : Part(n, m + 1) = Part(n, m)
      BY <1>6, <2>6, PartNext
    <3>3. Partly(m + 1) = Partly(m)
      BY <3>2 DEF Partly
    <3>. QED
      BY <2>1, <2>3, <3>1, <3>3
  <2>7. CASE decl[m + 1].tag = "path"
    <3>1. m + 1 \in Tagged("path")
      BY <2>1, <2>7 DEF Tagged
    <3>2. p \in all /\ TextOf(p) = v /\ Holder[p.key] = h
      BY <3>1 DEF Unrounded, ParamOf
    <3>. HIDE DEF p, all
    <3>3. params(m + 1) = Append(params(m), p)
      BY <2>2, <2>5, <2>7, <3>2
    <3>4. Filled(Template, Append(params(m), p))
             = ReplaceEach(Filled(Template, params(m)), Holder[p.key], TextOf(p))
      BY <2>2, <3>2, FilledAppend
    <3>. HIDE DEF h, v
    <3>5. ReplaceEach(FlattenSeq(Partly(m)), h, v) = FlattenSeq(Replaced(Partly(m), h, v))
      BY <2>1, <2>4, ReplaceJoined
    <3>6. Replaced(Partly(m), h, v) = Partly(m + 1)
      <4>1. \A n \in DOMAIN Template : Part(n, m + 1) = ReplaceEach(Part(n, m), h, v)
        BY <1>6, <2>7, PartNext DEF h, v
      <4>. QED
        BY <4>1 DEF Replaced, Partly
    <3>. QED
      BY <2>1, <2>3, <3>2, <3>3, <3>4, <3>5, <3>6
  <2>. QED
    BY <2>6, <2>7
<1>. HIDE DEF so
<1>7. \A m \in 0..Len(decl) : m \in so
  BY <1>1, <1>5, <1>6, InductionFromZero
<1>8. Len(decl) \in so
  BY <1>1, <1>7
<1>9. Filled(Template, params(Len(decl))) = FlattenSeq(Partly(Len(decl)))
  BY <1>8 DEF so
<1>. QED
  BY <1>1, <1>2, <1>9, AtOnceIs

\* The literal as STR() keeps it, if it is not too long.
LEMMA StrIs ==
    ASSUME Chosen, Len(Template) <= Limit
    PROVE  Str(Template) = Template
<1>1. Template \in Seq(STRING) /\ Limit \in Nat
  BY DeclIs DEF Text
<1>2. Len(Template) \in Nat /\ SubSeq(Template, 1, Len(Template)) = Template
  BY <1>1, SubSeqFull
<1>3. (IF Len(Template) < Limit THEN Len(Template) ELSE Limit) = Len(Template)
  <2>. DEFINE n == Len(Template)
  <2>1. n \in Nat /\ Limit \in Nat /\ n <= Limit
    BY <1>1, <1>2
  <2>. HIDE DEF n
  <2>2. (IF n < Limit THEN n ELSE Limit) = n
    BY <2>1
  <2>. QED
    BY <2>2 DEF n
<1>. QED
  BY <1>2, <1>3 DEF Str

\* The converted path.
LEMMA PathIs ==
    ASSUME TypedIInv, inst # None,
           Len(Template) <= Limit, Undisturbed, Unrounded("path")
    PROVE  request.path = AtOnce
<1>1. Chosen /\ inst = Make(decl, args) /\ request = Convert(inst)
  BY DEF TypedIInv, Made
<1>2. inst["path"] = Group("path", decl, args)
  BY <1>1 DEF Make, Tags
<1>3. request.path = Filled(Str(Template), inst["path"])
  BY <1>1 DEF Convert
<1>. QED
  BY <1>1, <1>2, <1>3, StrIs, FilledIs

\* RequestConverter.h:162: for any declaration, arguments and path that STR() keeps whole,
\* replacing the placeholders one after the other comes to the same as replacing them all
\* at once, unless a value holds the placeholder of a later parameter.
THEOREM ReplacedAsIfAtOnceHolds ==
    TypedSpec => []ReplacedAsIfAtOnce
<1>1. ASSUME TypedIInv PROVE ReplacedAsIfAtOnce
  <2>. SUFFICES ASSUME request # None, Len(Template) <= Limit,
                       \A i \in DOMAIN decl : decl[i].tag = "path" => decl[i].type # "float",
                       Undisturbed
                PROVE  request.path = AtOnce
    BY DEF ReplacedAsIfAtOnce, Undisturbed
  <2>1. inst # None
    BY <1>1 DEF TypedIInv, Made
  <2>2. Unrounded("path")
    BY DEF Unrounded, Tagged, ParamOf, TextOf
  <2>. QED
    BY <1>1, <2>1, <2>2, PathIs
<1>. QED
  BY <1>1, TypedIInvHolds, PTL

---------------------------------------------------------------------------
(* Everything else of a request.                                           *)

\* The arguments of a tag under their keys, one after the other.
Pairs(tag) == [i \in DOMAIN decl |-> IF decl[i].tag = tag THEN <<<<decl[i].key, args[i]>>>> ELSE <<>>]
PairsOf(tag) == {<<decl[i].key, args[i]>> : i \in Tagged(tag)}

LEMMA PassedIs ==
    ASSUME Chosen, NEW tag
    PROVE  /\ Pairs(tag) \in Seq(Seq(PairsOf(tag)))
           /\ Passed(tag) = FlattenSeq(Pairs(tag))
           /\ Len(Pairs(tag)) = Len(decl)
           /\ Passed(tag) \in Seq(PairsOf(tag))
<1>1. Len(decl) \in Nat /\ DOMAIN decl = 1..Len(decl)
  BY DeclIs
<1>2. \A i \in 1..Len(decl) :
         (IF decl[i].tag = tag THEN <<<<decl[i].key, args[i]>>>> ELSE <<>>) \in Seq(PairsOf(tag))
  <2>1. ASSUME NEW i \in 1..Len(decl)
        PROVE  (IF decl[i].tag = tag THEN <<<<decl[i].key, args[i]>>>> ELSE <<>>) \in Seq(PairsOf(tag))
    <3>. DEFINE x == <<decl[i].key, args[i]>>
    <3>1. decl[i].tag = tag => x \in PairsOf(tag)
      BY <1>1 DEF PairsOf, Tagged
    <3>. HIDE DEF x
    <3>2. (IF decl[i].tag = tag THEN <<x>> ELSE <<>>) \in Seq(PairsOf(tag))
      BY <3>1
    <3>. QED
      BY <3>2 DEF x
  <2>. QED
    BY <2>1
<1>3. Pairs(tag) \in Seq(Seq(PairsOf(tag))) /\ Len(Pairs(tag)) = Len(decl)
  BY <1>1, <1>2 DEF Pairs
<1>4. Passed(tag) = FlattenSeq(Pairs(tag))
  BY DEF Passed, Pairs
<1>. QED
  BY <1>3, <1>4, FlattenType

\* What a conversion writes of a tag's parameters is what was passed for them.
LEMMA ItemsArePassed ==
    ASSUME Chosen, NEW tag, Unrounded(tag)
    PROVE  Items(Group(tag, decl, args)) = Passed(tag)
<1>. DEFINE all   == {ParamOf(i) : i \in Tagged(tag)}
            own   == Own(tag)
            pairs == Pairs(tag)
            so == {m \in Nat : Items(FlattenSeq(First(m, own))) = FlattenSeq(First(m, pairs))}
<1>1. /\ own \in Seq(Seq(all)) /\ Len(own) = Len(decl) /\ Len(decl) \in Nat
      /\ Group(tag, decl, args) = FlattenSeq(own)
  BY OwnIs
<1>2. /\ pairs \in Seq(Seq(PairsOf(tag))) /\ Len(pairs) = Len(decl)
      /\ Passed(tag) = FlattenSeq(pairs)
  BY PassedIs
<1>3. /\ First(0, own) = <<>> /\ First(Len(decl), own) = own
      /\ First(0, pairs) = <<>> /\ First(Len(decl), pairs) = pairs
  <2>. HIDE DEF own, all, pairs
  <2>1. First(0, own) = <<>> /\ First(Len(own), own) = own
    BY <1>1, FirstIs
  <2>2. First(0, pairs) = <<>> /\ First(Len(pairs), pairs) = pairs
    BY <1>2, FirstIs
  <2>. QED
    BY <1>1, <1>2, <2>1, <2>2
<1>4. 0 \in so
  <2>1. Items(<<>>) = <<>>
    BY DEF Items
  <2>. QED
    BY <1>3, <2>1, FlattenEmpty
<1>5. ASSUME NEW m \in 0..Len(decl), m < Len(decl), m \in so PROVE m + 1 \in so
  <2>. DEFINE front == FlattenSeq(First(m, own))
              x == <<decl[m + 1].key, args[m + 1]>>
              p == ParamOf(m + 1)
  <2>1. m + 1 \in Nat /\ m + 1 \in DOMAIN decl
    <3>1. DOMAIN decl = 1..Len(decl)
      BY DeclIs
    <3>. QED
      BY <1>1, <1>5, <3>1
  <2>2. /\ FlattenSeq(First(m + 1, own)) = front \o own[m + 1] /\ front \in Seq(all)
    <3>1. m \in 0..Len(own) /\ m < Len(own)
      BY <1>1, <1>5
    <3>. HIDE DEF own, all
    <3>. QED
      BY <1>1, <3>1, FlattenFirst
  <2>3. /\ FlattenSeq(First(m + 1, pairs)) = FlattenSeq(First(m, pairs)) \o pairs[m + 1]
        /\ FlattenSeq(First(m, pairs)) \in Seq(PairsOf(tag))
    <3>1. m \in 0..Len(pairs) /\ m < Len(pairs)
      BY <1>2, <1>5
    <3>. HIDE DEF pairs
    <3>. QED
      BY <1>2, <3>1, FlattenFirst
  <2>4. /\ own[m + 1] = IF decl[m + 1].tag = tag THEN <<p>> ELSE <<>>
        /\ pairs[m + 1] = IF decl[m + 1].tag = tag THEN <<x>> ELSE <<>>
    BY <2>1 DEF Own, Pairs
  <2>5. Items(front) = FlattenSeq(First(m, pairs))
    BY <1>5
  <2>6. decl[m + 1].tag = tag => p \in all /\ <<p.key, TextOf(p)>> = x
    BY <2>1 DEF Unrounded, Tagged, ParamOf
  <2>. HIDE DEF own, pairs, front, x, p, all
  <2>7. CASE decl[m + 1].tag # tag
    <3>1. /\ FlattenSeq(First(m + 1, own)) = front
          /\ FlattenSeq(First(m + 1, pairs)) = FlattenSeq(First(m, pairs))
      BY <2>2, <2>3, <2>4, <2>7, ConcatEmptySeq
    <3>. QED
      BY <2>1, <2>5, <3>1
  <2>8. CASE decl[m + 1].tag = tag
    <3>1. /\ FlattenSeq(First(m + 1, own)) = Append(front, p)
          /\ FlattenSeq(First(m + 1, pairs)) = Append(FlattenSeq(First(m, pairs)), x)
      BY <2>2, <2>3, <2>4, <2>6, <2>8
    <3>2. Items(Append(front, p)) = Append(Items(front), x)
      <4>. DEFINE done == Items(front)
                  more == Append(front, p)
      <4>1. p \in all
        BY <2>6, <2>8
      <4>2. /\ Len(front) \in Nat /\ DOMAIN front = 1..Len(front) /\ DOMAIN more = 1..(Len(front) + 1)
            /\ \A i \in 1..(Len(front) + 1) : more[i] = IF i = Len(front) + 1 THEN p ELSE front[i]
        BY <2>2, <4>1, AppendIs
      <4>3. done \in Seq(PairsOf(tag)) /\ x \in PairsOf(tag)
        <5>1. x \in PairsOf(tag)
          BY <2>1, <2>8 DEF PairsOf, Tagged, x
        <5>. QED
          BY <2>3, <2>5, <5>1
      <4>4. done = [i \in 1..Len(front) |-> <<front[i].key, TextOf(front[i])>>]
        BY <4>2 DEF Items
      <4>5. Items(more) = [i \in 1..(Len(front) + 1) |-> <<more[i].key, TextOf(more[i])>>]
        BY <4>2 DEF Items
      <4>. HIDE DEF done, more
      <4>6. Len(done) = Len(front)
        BY <4>2, <4>3, <4>4
      <4>7. /\ DOMAIN Append(done, x) = 1..(Len(front) + 1)
            /\ \A i \in 1..(Len(front) + 1) :
                  Append(done, x)[i] = IF i = Len(front) + 1 THEN x ELSE done[i]
            /\ Append(done, x) = [i \in DOMAIN Append(done, x) |-> Append(done, x)[i]]
        BY <4>3, <4>6, AppendIs
      <4>8. ASSUME NEW i \in 1..(Len(front) + 1)
            PROVE  <<more[i].key, TextOf(more[i])>> = Append(done, x)[i]
        <5>1. CASE i = Len(front) + 1
          BY <2>6, <2>8, <4>2, <4>7, <5>1
        <5>2. CASE i # Len(front) + 1
          <6>1. i \in 1..Len(front)
            BY <4>2, <5>2
          <6>2. more[i] = front[i] /\ Append(done, x)[i] = done[i]
            BY <4>2, <4>7, <5>2
          <6>3. done[i] = <<front[i].key, TextOf(front[i])>>
            BY <4>4, <6>1
          <6>. QED
            BY <6>2, <6>3
        <5>. QED
          BY <5>1, <5>2
      <4>9. Items(more) = Append(done, x)
        BY <4>5, <4>7, <4>8
      <4>. QED
        BY <4>9 DEF done, more
    <3>. QED
      BY <2>1, <2>5, <3>1, <3>2
  <2>. QED
    BY <2>7, <2>8
<1>. HIDE DEF so
<1>6. \A m \in 0..Len(decl) : m \in so
  BY <1>1, <1>4, <1>5, InductionFromZero
<1>7. Len(decl) \in so
  BY <1>1, <1>6
<1>8. Items(FlattenSeq(First(Len(decl), own))) = FlattenSeq(First(Len(decl), pairs))
  BY <1>7 DEF so
<1>. QED
  BY <1>1, <1>2, <1>3, <1>8

\* The parameters with a tag are none only if none is declared.
LEMMA GroupEmpty ==
    ASSUME Chosen, NEW tag
    PROVE  Group(tag, decl, args) = <<>> <=> Count(decl, tag) = 0
<1>. DEFINE all == {ParamOf(i) : i \in Tagged(tag)}
            own == Own(tag)
            upTo(m) == FlattenSeq(First(m, own))
            so == {m \in Nat : (\E i \in 1..m : decl[i].tag = tag) => upTo(m) # <<>>}
<1>1. /\ own \in Seq(Seq(all)) /\ Len(own) = Len(decl) /\ Len(decl) \in Nat
      /\ Group(tag, decl, args) = FlattenSeq(own)
      /\ DOMAIN decl = 1..Len(decl)
  BY OwnIs, DeclIs
<1>2. First(Len(decl), own) = own
  <2>1. First(Len(own), own) = own
    <3>. HIDE DEF own, all
    <3>. QED
      BY <1>1, FirstIs
  <2>. QED
    BY <1>1, <2>1
<1>3. Count(decl, tag) = 0 <=> Tagged(tag) = {}
  <2>1. Count(decl, tag) = Cardinality(Tagged(tag))
    BY DEF Count, Tagged
  <2>2. IsFiniteSet(Tagged(tag))
    <3>1. Tagged(tag) \subseteq 1..Len(decl)
      BY <1>1 DEF Tagged
    <3>2. IsFiniteSet(1..Len(decl))
      BY <1>1, FS_Interval
    <3>. QED
      BY <3>1, <3>2, FS_Subset
  <2>. QED
    BY <2>1, <2>2, FS_EmptySet
<1>4. 0 \in so
  OBVIOUS
<1>5. ASSUME NEW m \in 0..Len(decl), m < Len(decl), m \in so PROVE m + 1 \in so
  <2>1. m + 1 \in Nat /\ m \in 0..Len(own) /\ m < Len(own) /\ m + 1 \in DOMAIN decl
    BY <1>1, <1>5
  <2>2. /\ upTo(m + 1) = upTo(m) \o own[m + 1] /\ upTo(m) \in Seq(all)
        /\ own[m + 1] \in Seq(all)
    <3>. HIDE DEF own, all
    <3>. QED
      BY <1>1, <2>1, FlattenFirst
  <2>3. upTo(m + 1) = <<>> <=> upTo(m) = <<>> /\ own[m + 1] = <<>>
    <3>. HIDE DEF upTo, own, all
    <3>. QED
      BY <2>2, ConcatEqualIffEmpty
  <2>4. decl[m + 1].tag = tag => own[m + 1] # <<>>
    <3>1. \A i \in DOMAIN decl : own[i] = IF decl[i].tag = tag THEN <<ParamOf(i)>> ELSE <<>>
      BY DEF Own
    <3>2. \A y : <<y>> # <<>>
      OBVIOUS
    <3>. HIDE DEF own
    <3>. QED
      BY <2>1, <3>1, <3>2
  <2>5. (\E i \in 1..m : decl[i].tag = tag) => upTo(m) # <<>>
    BY <1>5
  <2>6. \A i \in 1..(m + 1) : i = m + 1 \/ i \in 1..m
    BY <1>5
  <2>. HIDE DEF upTo, own
  <2>. QED
    BY <2>1, <2>3, <2>4, <2>5, <2>6
<1>. HIDE DEF so
<1>6. \A m \in 0..Len(decl) : m \in so
  BY <1>1, <1>4, <1>5, InductionFromZero
<1>7. Len(decl) \in so
  BY <1>1, <1>6
<1>8. Tagged(tag) # {} => FlattenSeq(own) # <<>>
  <2>1. (\E i \in 1..Len(decl) : decl[i].tag = tag) => upTo(Len(decl)) # <<>>
    BY <1>7 DEF so
  <2>2. upTo(Len(decl)) = FlattenSeq(own)
    BY <1>2
  <2>. HIDE DEF upTo, own
  <2>. QED
    BY <1>1, <2>1, <2>2 DEF Tagged
<1>9. Tagged(tag) = {} => FlattenSeq(own) = <<>>
  <2>1. FlattenSeq(own) \in Seq(all)
    <3>. HIDE DEF own, all
    <3>. QED
      BY <1>1, FlattenType
  <2>2. ASSUME Tagged(tag) = {} PROVE FlattenSeq(own) = <<>>
    <3>1. all = {}
      BY <2>2
    <3>2. FlattenSeq(own) \in Seq({})
      BY <2>1, <3>1
    <3>. HIDE DEF own
    <3>3. \A s \in Seq({}) : s = <<>>
      OBVIOUS
    <3>. QED
      BY <3>2, <3>3
  <2>. QED
    BY <2>2
<1>. QED
  BY <1>1, <1>3, <1>8, <1>9

\* A plain value is what a server decodes, in an item and in a path.
Special == {"?", "+", "%41", "1.2345678"} \cup {Holder[k] : k \in DOMAIN Holder}
AllPlain == \A i \in DOMAIN decl : Plain(i)

LEMMA PlainIs ==
    ASSUME Chosen, AllPlain
    PROVE  /\ \A i \in DOMAIN decl : args[i] \in Seq(STRING \ Special)
           /\ \A tag : Unrounded(tag)
           /\ Undisturbed
<1>1. ASSUME NEW i \in DOMAIN decl
      PROVE  args[i] \in Seq(STRING \ Special) /\ TextOf(ParamOf(i)) = args[i]
  <2>1. args[i] \in Seq(STRING)
    BY DeclIs DEF Text
  <2>2. ~Mentions(args[i], Special)
    BY DEF AllPlain, Plain, Special
  <2>3. args[i] \in Seq(STRING \ Special)
    BY <2>1, <2>2, Unmentioned
  <2>4. args[i] # <<"1.2345678">>
    <3>1. "1.2345678" \in Special
      BY DEF Special
    <3>2. ASSUME args[i] = <<"1.2345678">> PROVE FALSE
      <4>1. args[i][1] = "1.2345678" /\ 1 \in DOMAIN args[i]
        BY <3>2
      <4>. QED
        BY <2>2, <3>1, <4>1 DEF Mentions
    <3>. QED
      BY <3>2
  <2>5. ParamOf(i).value = args[i]
    BY DEF ParamOf
  <2>6. TextOf(ParamOf(i)) = args[i]
    BY <2>4, <2>5 DEF TextOf
  <2>. QED
    BY <2>3, <2>6
<1>2. Undisturbed
  <2>. SUFFICES ASSUME NEW i \in DOMAIN decl, NEW j \in DOMAIN decl,
                       decl[j].tag = "path"
                PROVE  ~Mentions(args[i], {Holder[decl[j].key]})
    BY DEF Undisturbed
  <2>1. decl[j].key \in DOMAIN Holder
    BY DeclIs
  <2>2. ~Mentions(args[i], Special)
    BY DEF AllPlain, Plain, Special
  <2>3. Holder[decl[j].key] \in Special
    BY <2>1 DEF Special
  <2>. QED
    BY <2>2, <2>3 DEF Mentions
<1>3. \A tag : Unrounded(tag)
  BY <1>1 DEF Unrounded, Tagged
<1>. QED
  BY <1>1, <1>2, <1>3

\* The tokens of texts and of what a server makes of them.
Token == STRING \cup {"space", "A"}

\* What was passed for a tag, decoded.
LEMMA DecodedIs ==
    ASSUME Chosen, AllPlain, NEW tag
    PROVE  FormDecoded(Passed(tag)) = Passed(tag)
<1>. DEFINE passed == Passed(tag)
<1>1. passed \in Seq(PairsOf(tag))
  BY PassedIs
<1>2. ASSUME NEW n \in DOMAIN passed
      PROVE  passed[n] = <<passed[n][1], passed[n][2]>> /\ passed[n][2] \in Seq(STRING \ Special)
  <2>1. passed[n] \in PairsOf(tag)
    <3>. HIDE DEF passed
    <3>. QED
      BY <1>1, <1>2
  <2>2. PICK i \in Tagged(tag) : passed[n] = <<decl[i].key, args[i]>>
    BY <2>1 DEF PairsOf
  <2>3. args[i] \in Seq(STRING \ Special)
    BY PlainIs DEF Tagged
  <2>. HIDE DEF passed
  <2>. QED
    BY <2>2, <2>3
<1>3. \A token : \A by \in Seq(Token) : \A t \in Seq(Token \ {token}) :
         ReplaceEach(t, token, by) = t
  BY ReplaceAbsent
<1>4. ASSUME NEW t \in Seq(STRING \ Special)
      PROVE  ReplaceEach(ReplaceEach(t, "+", <<"space">>), "%41", <<"A">>) = t
  <2>1. t \in Seq(Token \ {"+"}) /\ t \in Seq(Token \ {"%41"})
    <3>1. STRING \ Special \subseteq Token \ {"+"} /\ STRING \ Special \subseteq Token \ {"%41"}
      BY DEF Special, Token
    <3>. QED
      BY <3>1, SeqMonotonic
  <2>2. <<"space">> \in Seq(Token) /\ <<"A">> \in Seq(Token)
    BY SingleIs DEF Token
  <2>3. ReplaceEach(t, "+", <<"space">>) = t
    BY <1>3, <2>1, <2>2
  <2>4. ReplaceEach(t, "%41", <<"A">>) = t
    BY <1>3, <2>1, <2>2
  <2>. QED
    BY <2>3, <2>4
<1>5. FormDecoded(passed)
         = [n \in DOMAIN passed |->
               <<passed[n][1],
                 ReplaceEach(ReplaceEach(passed[n][2], "+", <<"space">>), "%41", <<"A">>)>>]
  BY DEF FormDecoded
<1>. HIDE DEF passed
<1>6. passed = [n \in DOMAIN passed |-> passed[n]]
  BY <1>1
<1>7. \A n \in DOMAIN passed :
         <<passed[n][1],
           ReplaceEach(ReplaceEach(passed[n][2], "+", <<"space">>), "%41", <<"A">>)>>
            = passed[n]
  BY <1>2, <1>4
<1>8. FormDecoded(passed) = passed
  BY <1>5, <1>6, <1>7
<1>. QED
  BY <1>8 DEF passed

\* The path, when nothing in it means anything to a URL.
LEMMA PathArrives ==
    ASSUME Chosen, AllPlain,
           ~Mentions(Template, {"?", "%41"})
    PROVE  /\ PathOf(AtOnce) = AtOnce
           /\ Cut(AtOnce) > Len(AtOnce)
<1>. DEFINE clean == STRING \ {"?", "%41"}
            all == Partly(Len(decl))
            path == AtOnce
<1>1. /\ Template \in Seq(STRING) /\ Len(decl) \in Nat /\ DOMAIN decl = 1..Len(decl)
  <2>1. Template \in Text /\ Len(decl) \in Nat /\ DOMAIN decl = 1..Len(decl)
    BY DeclIs
  <2>. QED
    BY <2>1 DEF Text
<1>2. Template \in Seq(clean)
  <2>1. Template \in Seq(STRING \ {"?", "%41"})
    BY <1>1, Unmentioned
  <2>. QED
    BY <2>1
<1>3. \A i \in DOMAIN decl : args[i] \in Seq(clean)
  <2>1. STRING \ Special \subseteq clean
    BY DEF Special
  <2>2. \A i \in DOMAIN decl : args[i] \in Seq(STRING \ Special)
    BY PlainIs
  <2>. HIDE DEF clean
  <2>. QED
    BY <2>1, <2>2, SeqMonotonic
<1>4. all \in Seq(Seq(clean))
  <2>1. all = [n \in 1..Len(Template) |-> Part(n, Len(decl))] /\ Len(Template) \in Nat
    BY <1>1 DEF Partly
  <2>2. ASSUME NEW n \in 1..Len(Template) PROVE Part(n, Len(decl)) \in Seq(clean)
    <3>. HIDE DEF clean
    <3>1. Len(decl) \in 0..Len(decl) /\ n \in DOMAIN Template /\ Template[n] \in clean
      BY <1>1, <1>2
    <3>2. CASE Named(n, Len(decl)) = {}
      BY <3>1, <3>2 DEF Part
    <3>3. CASE Named(n, Len(decl)) # {}
      <4>1. Min(Named(n, Len(decl))) \in Named(n, Len(decl))
        BY <3>1, <3>3, PartIs
      <4>2. Min(Named(n, Len(decl))) \in DOMAIN decl
        BY <1>1, <4>1 DEF Named
      <4>. QED
        BY <1>3, <3>3, <4>2 DEF Part
    <3>. QED
      BY <3>2, <3>3
  <2>. HIDE DEF all, clean
  <2>. QED
    BY <2>1, <2>2
<1>5. path \in Seq(clean)
  <2>1. FlattenSeq(all) \in Seq(clean)
    <3>. HIDE DEF all, clean
    <3>. QED
      BY <1>4, FlattenType
  <2>. QED
    BY <2>1, AtOnceIs
<1>. HIDE DEF path
<1>6. Len(path) \in Nat /\ \A i \in DOMAIN path : path[i] # "?"
  BY <1>5
<1>7. Cut(path) = Len(path) + 1
  <2>1. {i \in DOMAIN path : path[i] = "?"} \cup {Len(path) + 1} = {Len(path) + 1}
    BY <1>6
  <2>2. Min({Len(path) + 1}) = Len(path) + 1
    <3>1. {Len(path) + 1} \in SUBSET Nat /\ {Len(path) + 1} # {}
      BY <1>6
    <3>2. Min({Len(path) + 1}) \in {Len(path) + 1}
      BY <3>1, MinIs
    <3>. QED
      BY <3>2
  <2>. QED
    BY <2>1, <2>2 DEF Cut
<1>8. SubSeq(path, 1, Cut(path) - 1) = path
  <2>1. Cut(path) - 1 = Len(path)
    BY <1>6, <1>7
  <2>. QED
    BY <1>5, <2>1, SubSeqFull
<1>9. ReplaceEach(path, "%41", <<"A">>) = path
  <2>1. path \in Seq(Token \ {"%41"})
    <3>. DEFINE plain == Token \ {"%41"}
    <3>1. clean \subseteq plain
      BY DEF Token
    <3>. HIDE DEF clean, plain
    <3>2. path \in Seq(plain)
      BY <1>5, <3>1, SeqMonotonic
    <3>. QED
      BY <3>2 DEF plain
  <2>2. <<"A">> \in Seq(Token)
    BY SingleIs DEF Token
  <2>3. \A token : \A by \in Seq(Token) : \A t \in Seq(Token \ {token}) :
           ReplaceEach(t, token, by) = t
    BY ReplaceAbsent
  <2>. QED
    BY <2>1, <2>2, <2>3
<1>10. PathOf(path) = path
  BY <1>8, <1>9 DEF PathOf
<1>11. Cut(path) > Len(path)
  BY <1>6, <1>7
<1>. QED
  BY <1>10, <1>11 DEF path

\* One more header takes the place of those with its name.
LEMMA HeadersAppend ==
    ASSUME NEW S, NEW s \in Seq(S), NEW x \in S
    PROVE  Headers(Append(s, x)) = {p \in Headers(s) : p[1] # x[1]} \cup {x}
<1>. DEFINE more == Append(s, x)
            n == Len(s)
            last(t, i) == \A m \in DOMAIN t : m > i => t[m][1] # t[i][1]
<1>1. /\ n \in Nat /\ DOMAIN s = 1..n /\ DOMAIN more = 1..(n + 1)
      /\ \A i \in 1..(n + 1) : more[i] = IF i = n + 1 THEN x ELSE s[i]
  BY AppendIs
<1>2. /\ Headers(more) = {more[i] : i \in {i \in 1..(n + 1) : last(more, i)}}
      /\ Headers(s) = {s[i] : i \in {i \in 1..n : last(s, i)}}
  BY <1>1 DEF Headers
<1>3. more[n + 1] = x /\ last(more, n + 1) /\ n + 1 \in 1..(n + 1)
  BY <1>1
<1>4. ASSUME NEW i \in 1..n
      PROVE  /\ i \in 1..(n + 1) /\ more[i] = s[i]
             /\ last(more, i) <=> (last(s, i) /\ s[i][1] # x[1])
  <2>1. i \in 1..(n + 1) /\ more[i] = s[i]
    BY <1>1
  <2>2. ASSUME last(more, i) PROVE last(s, i) /\ s[i][1] # x[1]
    <3>1. n + 1 > i /\ n + 1 \in DOMAIN more /\ \A m \in DOMAIN s : m \in DOMAIN more /\ more[m] = s[m]
      BY <1>1
    <3>. HIDE DEF more
    <3>. QED
      BY <1>3, <2>1, <2>2, <3>1
  <2>3. ASSUME last(s, i), s[i][1] # x[1] PROVE last(more, i)
    <3>1. \A m \in DOMAIN more : m = n + 1 \/ m \in DOMAIN s
      BY <1>1
    <3>2. \A m \in DOMAIN s : more[m] = s[m]
      BY <1>1
    <3>. HIDE DEF more
    <3>. QED
      BY <1>3, <2>1, <2>3, <3>1, <3>2
  <2>. QED
    BY <2>1, <2>2, <2>3
<1>5. \A i \in 1..(n + 1) : i = n + 1 \/ i \in 1..n
  BY <1>1
<1>. HIDE DEF more, n, last
<1>6. Headers(more) \subseteq {p \in Headers(s) : p[1] # x[1]} \cup {x}
  BY <1>2, <1>3, <1>4, <1>5
<1>7. {p \in Headers(s) : p[1] # x[1]} \cup {x} \subseteq Headers(more)
  BY <1>2, <1>3, <1>4
<1>. QED
  BY <1>6, <1>7 DEF more

\* So of several with one name the one declared last is left.
LEMMA HeadersAreLast ==
    ASSUME Chosen
    PROVE  Headers(Passed("header")) = LastHeaders
<1>. DEFINE pairs == Pairs("header")
            upTo(m) == FlattenSeq(First(m, pairs))
            is(i) == i \in DOMAIN decl /\ decl[i].tag = "header"
            pair(i) == <<decl[i].key, args[i]>>
            last(m) == {i \in 1..m : is(i) /\ \A j \in 1..m : j > i /\ is(j) => decl[j].key # decl[i].key}
            so == {m \in Nat : Headers(upTo(m)) = {pair(i) : i \in last(m)}}
<1>1. /\ pairs \in Seq(Seq(PairsOf("header"))) /\ Len(pairs) = Len(decl)
      /\ Passed("header") = FlattenSeq(pairs)
      /\ Len(decl) \in Nat /\ DOMAIN decl = 1..Len(decl)
  BY PassedIs, DeclIs
<1>2. /\ First(0, pairs) = <<>> /\ First(Len(decl), pairs) = pairs
  <2>. HIDE DEF pairs
  <2>1. First(0, pairs) = <<>> /\ First(Len(pairs), pairs) = pairs
    BY <1>1, FirstIs
  <2>. QED
    BY <1>1, <2>1
<1>3. 0 \in so
  <2>1. Headers(<<>>) = {}
    BY DEF Headers
  <2>2. upTo(0) = <<>>
    BY <1>2, FlattenEmpty
  <2>3. last(0) = {}
    OBVIOUS
  <2>. HIDE DEF upTo, last, pair
  <2>. QED
    BY <2>1, <2>2, <2>3
<1>4. ASSUME NEW m \in 0..Len(decl), m < Len(decl), m \in so PROVE m + 1 \in so
  <2>1. m \in Nat /\ m + 1 \in Nat /\ m + 1 \in DOMAIN decl
    BY <1>1, <1>4
  <2>2. upTo(m + 1) = upTo(m) \o pairs[m + 1] /\ upTo(m) \in Seq(PairsOf("header"))
    <3>1. m \in 0..Len(pairs) /\ m < Len(pairs)
      BY <1>1, <1>4
    <3>. HIDE DEF pairs
    <3>. QED
      BY <1>1, <3>1, FlattenFirst
  <2>3. pairs[m + 1] = IF is(m + 1) THEN <<pair(m + 1)>> ELSE <<>>
    BY <2>1 DEF Pairs
  <2>4. Headers(upTo(m)) = {pair(i) : i \in last(m)}
    BY <1>4
  <2>5. \A i \in 1..(m + 1) : i = m + 1 \/ i \in 1..m
    BY <2>1
  <2>6. \A i \in 1..m : i \in 1..(m + 1) /\ m + 1 > i
    BY <2>1
  <2>7. m + 1 \in 1..(m + 1) /\ \A j \in 1..(m + 1) : ~(j > m + 1)
    BY <2>1
  <2>8. CASE ~is(m + 1)
    <3>1. upTo(m + 1) = upTo(m)
      <4>. HIDE DEF upTo, pairs, is, pair
      <4>. QED
        BY <2>2, <2>3, <2>8, ConcatEmptySeq
    <3>2. last(m + 1) = last(m)
      <4>. HIDE DEF is
      <4>. QED
        BY <2>5, <2>6, <2>8
    <3>. HIDE DEF upTo, last, pair
    <3>. QED
      BY <2>1, <2>4, <3>1, <3>2
  <2>9. CASE is(m + 1)
    <3>. DEFINE x == pair(m + 1)
    <3>1. x \in PairsOf("header")
      BY <2>9 DEF PairsOf, Tagged
    <3>2. upTo(m + 1) = Append(upTo(m), x)
      <4>. HIDE DEF upTo, pairs, is, x, pair
      <4>1. upTo(m + 1) = upTo(m) \o <<x>>
        BY <2>2, <2>3, <2>9 DEF x
      <4>. QED
        BY <2>2, <3>1, <4>1
    <3>3. Headers(upTo(m + 1)) = {p \in Headers(upTo(m)) : p[1] # x[1]} \cup {x}
      <4>. HIDE DEF upTo, x
      <4>1. \A s \in Seq(PairsOf("header")) : \A y \in PairsOf("header") :
               Headers(Append(s, y)) = {p \in Headers(s) : p[1] # y[1]} \cup {y}
        BY HeadersAppend
      <4>2. upTo(m) \in Seq(PairsOf("header"))
        BY <2>2
      <4>. QED
        BY <3>1, <3>2, <4>1, <4>2
    <3>4. m + 1 \in last(m + 1)
      <4>. HIDE DEF is
      <4>. QED
        BY <2>7, <2>9
    <3>5. ASSUME NEW i \in 1..m
          PROVE  i \in last(m + 1) <=> (i \in last(m) /\ decl[i].key # decl[m + 1].key)
      <4>. HIDE DEF is
      <4>. QED
        BY <2>5, <2>6, <2>7, <2>9
    <3>6. \A i : pair(i)[1] = decl[i].key
      OBVIOUS
    <3>7. last(m) \subseteq 1..m /\ last(m + 1) \subseteq 1..(m + 1)
      OBVIOUS
    <3>8. {pair(i) : i \in last(m + 1)} = {p \in {pair(i) : i \in last(m)} : p[1] # x[1]} \cup {x}
      <4>. HIDE DEF last, pair
      <4>. QED
        BY <2>5, <3>4, <3>5, <3>6, <3>7
    <3>. HIDE DEF upTo, last, pair, x
    <3>. QED
      BY <2>1, <2>4, <3>3, <3>8
  <2>. QED
    BY <2>8, <2>9
<1>. HIDE DEF so
<1>5. \A m \in 0..Len(decl) : m \in so
  BY <1>1, <1>3, <1>4, InductionFromZero
<1>6. Headers(upTo(Len(decl))) = {pair(i) : i \in last(Len(decl))}
  <2>1. Len(decl) \in so
    BY <1>1, <1>5
  <2>. QED
    BY <2>1 DEF so
<1>7. LastHeaders = {pair(i) : i \in last(Len(decl))}
  BY <1>1 DEF LastHeaders
<1>8. upTo(Len(decl)) = Passed("header")
  BY <1>1, <1>2
<1>. HIDE DEF upTo, pair, last
<1>. QED
  BY <1>6, <1>7, <1>8

\* What the server gets of a plain request, but for the body.
LEMMA PlainArrives ==
    ASSUME TypedIInv, inst # None,
           AllPlain, Len(Template) <= Limit, ~Mentions(Template, {"?", "%41"}), NEW form
    PROVE  LET r == Arrives(request, form)
           IN  /\ r.path = AtOnce /\ r.query = Passed("query")
               /\ r.headers = LastHeaders
<1>1. /\ Chosen /\ inst = Make(decl, args) /\ request = Convert(inst)
      /\ Undisturbed /\ \A tag : Unrounded(tag)
  BY PlainIs DEF TypedIInv, Made
<1>2. /\ inst["query"] = Group("query", decl, args)
      /\ inst["header"] = Group("header", decl, args)
  BY <1>1 DEF Make, Tags
<1>3. request.path = AtOnce
  BY <1>1, PathIs
<1>4. request.query = Passed("query") /\ request.headers = LastHeaders
  <2>1. request.query = Items(inst["query"]) /\ request.headers = Headers(Items(inst["header"]))
    BY <1>1 DEF Convert
  <2>2. Items(inst["query"]) = Passed("query") /\ Items(inst["header"]) = Passed("header")
    BY <1>1, <1>2, ItemsArePassed
  <2>. QED
    BY <1>1, <2>1, <2>2, HeadersAreLast
<1>5. /\ PathOf(request.path) = AtOnce
      /\ Cut(request.path) > Len(request.path)
  BY <1>1, <1>3, PathArrives
<1>6. FormDecoded(request.query) = Passed("query")
  BY <1>1, <1>4, DecodedIs
<1>7. QueryOf(request) = Passed("query")
  BY <1>5, <1>6 DEF QueryOf
<1>. QED
  BY <1>4, <1>5, <1>7 DEF Arrives

\* The body of a plain request.
LEMMA BodyArrives ==
    ASSUME TypedIInv, inst # None, AllPlain,
           NEW r \in Possible
    PROVE  /\ (multipart \/ Count(decl, "body") = 0) /\ ~Viewed => r.body = Passed("form")
           /\ ~multipart /\ Count(decl, "body") = 1 => r.body = Passed("body")[1][2]
<1>1. /\ Chosen /\ inst = Make(decl, args) /\ request = Convert(inst)
      /\ \A tag : Unrounded(tag)
  BY PlainIs DEF TypedIInv, Made
<1>2. /\ inst["form"] = Group("form", decl, args)
      /\ inst["body"] = Group("body", decl, args)
  BY <1>1 DEF Make, Tags
<1>3. Early = Passed("form") /\ Items(inst["body"]) = Passed("body")
  BY <1>1, <1>2, ItemsArePassed DEF Early
<1>4. PICK form \in {Early, Late} : /\ r = Arrives(request, form)
                                    /\ form = Early \/ freed
  BY DEF Possible
<1>5. r.body = IF multipart THEN form
               ELSE IF inst["body"] # <<>> THEN request.body ELSE FormDecoded(request.body)
  BY <1>4 DEF Arrives
<1>6. request.body = IF inst["body"] # <<>> THEN TextOf(inst["body"][1])
                     ELSE IF multipart THEN <<>> ELSE Items(inst["form"])
  BY <1>1 DEF Convert, Body
<1>7. inst["body"] = <<>> <=> Count(decl, "body") = 0
  BY <1>1, <1>2, GroupEmpty
<1>8. ASSUME multipart \/ Count(decl, "body") = 0, ~Viewed PROVE r.body = Passed("form")
  <2>1. CASE multipart
    <3>1. freed => Late = Early
      <4>1. inst["form"] \in Seq({ParamOf(i) : i \in Tagged("form")})
        BY <1>1, <1>2, GroupIs
      <4>2. ASSUME freed, NEW n \in DOMAIN inst["form"] PROVE inst["form"][n].type # "string"
        <5>1. PICK i \in Tagged("form") : inst["form"][n] = ParamOf(i)
          BY <4>1, <4>2
        <5>2. decl[i].type # "string"
          BY <1>8, <2>1, <4>2, <5>1 DEF Viewed, Tagged
        <5>. QED
          BY <5>1, <5>2 DEF ParamOf
      <4>. QED
        BY <4>2 DEF Late, Early, Items
    <3>. QED
      BY <1>3, <1>4, <1>5, <2>1, <3>1
  <2>2. CASE ~multipart
    <3>1. r.body = FormDecoded(Early)
      BY <1>5, <1>6, <1>7, <1>8, <2>2 DEF Early
    <3>. QED
      BY <1>1, <1>3, <3>1, DecodedIs
  <2>. QED
    BY <2>1, <2>2
<1>9. ASSUME ~multipart, Count(decl, "body") = 1 PROVE r.body = Passed("body")[1][2]
  <2>1. inst["body"] # <<>>
    BY <1>7, <1>9
  <2>2. r.body = TextOf(inst["body"][1])
    BY <1>5, <1>6, <1>9, <2>1
  <2>3. 1 \in DOMAIN inst["body"]
    <3>1. inst["body"] \in Seq({ParamOf(i) : i \in Tagged("body")})
      BY <1>1, <1>2, GroupIs
    <3>. QED
      BY <2>1, <3>1
  <2>4. Items(inst["body"])[1][2] = TextOf(inst["body"][1])
    BY <2>3 DEF Items
  <2>. QED
    BY <1>3, <2>2, <2>4
<1>. QED
  BY <1>8, <1>9

\* HttpRequest.h:349, RequestConverter.h:149: for any declaration that compiles, whatever its
\* order, and any path, plain arguments of make() reach the server under their keys and in
\* their places, in every attempt: all but a header's whose name is declared again later, and
\* the Body of a multipart, whose server gets the form.
THEOREM ArgumentsArriveHolds ==
    TypedSpec => []ArgumentsArrive
<1>1. ASSUME TypedIInv PROVE ArgumentsArrive
  <2>. SUFFICES ASSUME AllPlain, Len(Template) <= Limit,
                       ~Mentions(Template, {"?", "%41"}), NEW n \in DOMAIN got
                PROVE  /\ got[n].path = AtOnce
                       /\ got[n].query = Passed("query")
                       /\ got[n].headers = LastHeaders
                       /\ (multipart \/ Count(decl, "body") = 0) /\ ~Viewed
                             => got[n].body = Passed("form")
                       /\ ~multipart /\ Count(decl, "body") = 1
                             => got[n].body = Passed("body")[1][2]
    BY DEF ArgumentsArrive, AllPlain
  <2>1. inst # None
    BY <1>1 DEF TypedIInv, Made
  <2>2. got[n] \in Possible
    BY <1>1, <2>1 DEF TypedIInv, Made
  <2>3. PICK form : got[n] = Arrives(request, form)
    BY <2>2 DEF Possible
  <2>4. /\ got[n].path = AtOnce /\ got[n].query = Passed("query")
        /\ got[n].headers = LastHeaders
    BY <1>1, <2>1, <2>3, PlainArrives
  <2>5. /\ (multipart \/ Count(decl, "body") = 0) /\ ~Viewed => got[n].body = Passed("form")
        /\ ~multipart /\ Count(decl, "body") = 1 => got[n].body = Passed("body")[1][2]
    BY <1>1, <2>1, <2>2, BodyArrives
  <2>. QED
    BY <2>4, <2>5
<1>. QED
  BY <1>1, TypedIInvHolds, PTL
=============================================================================

--------------------------- MODULE MultipartUpload ---------------------------
(***************************************************************************)
(* The upload of one multipart request: the objects every attempt builds,  *)
(* who owns them, what is sent of the files, and the progress heard of it. *)
(*                                                                         *)
(* The terminus builds the form anew for every attempt: a QHttpMultiPart,  *)
(* and below it a QFile for each part that is a file on disk.  A part is   *)
(* read from its device, on from where that stands.  A guard owns the form *)
(* until the reply takes it over; replies belong to the access manager and *)
(* so to the client.  Building is synchronous, so nothing else happens     *)
(* while `phase' is "building".                                            *)
(*                                                                         *)
(* A deferred deletion is posted before the reaction that starts the delay *)
(* of a retry, and so comes first: PreviousReplyGone of NetworkClient is   *)
(* about that order, and this module takes it over in Retry.               *)
(***************************************************************************)
EXTENDS Naturals, Sequences

CONSTANTS
    Parts,      \* the parts in the order added: "file" on disk, or "data"
    FileSize,   \* the blocks of a file, none of which is empty; data is one block
    MaxRetries

ASSUME MultipartUploadAssumption ==
    /\ Parts \in Seq({"file", "data"}) /\ Parts # <<>>
    /\ FileSize \in Nat \ {0}
    /\ MaxRetries \in Nat

Attempts == 1..(MaxRetries + 1)

\* The objects of attempt n, and the owners that are not among them.
Form(n)    == <<"form", n>>
Reply(n)   == <<"reply", n>>
File(n, k) == <<"file", n, k>>
Guard      == <<"guard">>       \* the unique_ptr in buildMultipart
Manager    == <<"manager">>     \* the client's QNetworkAccessManager
Nobody     == <<"nobody">>

\* What part k of attempt n is read from: its file, or its own copy of the data.
Device(n, k) == IF Parts[k] = "file" THEN File(n, k) ELSE <<"data", n, k>>
Size(k) == IF Parts[k] = "file" THEN FileSize ELSE 1

VARIABLES
    method,     \* "POST", or "GET", which cannot carry a form
    client,     \* the client exists
    attempt,    \* the attempt being made
    phase,      \* "ready", "building", "running", "late", "settled", "done"
    result,     \* what the attempt came to
    parent,     \* the objects that exist and who owns each
    doomed,     \* those with a deferred deletion
    finished,   \* the attempts whose reply has finished
    devices,    \* the devices of each attempt's form, part by part
    at,         \* how many blocks were read from each device that was opened
    body,       \* the blocks sent by each attempt
    heard       \* attempt and blocks of the last call of the progress callback

vars == <<method, client, attempt, phase, result, parent, doomed, finished, devices, at, body,
          heard>>

Live == DOMAIN parent

\* x and what is destroyed with it.
Family(x) ==
    {o \in Live : \/ o = x \/ parent[o] = x
                  \/ parent[o] \in Live /\ parent[parent[o]] = x
                  \/ parent[o] \in Live /\ parent[parent[o]] \in Live
                     /\ parent[parent[parent[o]]] = x}

Without(objects) == [o \in Live \ objects |-> parent[o]]
With(o, owner)   == [x \in Live \cup {o} |-> IF x = o THEN owner ELSE parent[x]]

Init ==
    /\ method \in {"POST", "GET"}
    /\ client = TRUE /\ attempt = 1 /\ phase = "ready" /\ result = "none"
    /\ parent = [o \in {} |-> Nobody] /\ doomed = {} /\ finished = {}
    /\ devices = [n \in Attempts |-> <<>>] /\ at = [d \in {} |-> 0]
    /\ body = [n \in Attempts |-> <<>>]
    /\ heard = <<0, 0>>

Settle(outcome) == phase' = "settled" /\ result' = outcome

---------------------------------------------------------------------------
(* The terminus.                                                           *)

ClientGone ==
    /\ phase = "ready" /\ ~client
    /\ Settle("logic")
    /\ UNCHANGED <<method, client, attempt, parent, doomed, finished, devices, at, body, heard>>

Begin ==
    /\ phase = "ready" /\ client
    /\ phase' = "building"
    /\ parent' = With(Form(attempt), Guard)
    /\ UNCHANGED <<method, client, attempt, result, doomed, finished, devices, at, body, heard>>

\* The parts are added one after the other.
Turn(k) == phase = "building" /\ k = Len(devices[attempt]) + 1

Opened(d) == [x \in DOMAIN at \cup {d} |-> IF x = d THEN 0 ELSE at[x]]

\* Mutant: what the first attempt opened is used again.
AddPartReusing(k) ==
    /\ Turn(k)
    /\ devices' = [devices EXCEPT ![attempt] = Append(@, Device(1, k))]
    /\ at' = IF attempt = 1 THEN Opened(Device(1, k)) ELSE at
    /\ parent' = IF Parts[k] = "file" THEN With(File(attempt, k), Form(attempt)) ELSE parent
    /\ UNCHANGED <<method, client, attempt, phase, result, doomed, finished, body, heard>>

\* A device of its own, at its beginning; a file belongs to the form.
AddPart(k) ==
    /\ Turn(k)
    /\ devices' = [devices EXCEPT ![attempt] = Append(@, Device(attempt, k))]
    /\ at' = Opened(Device(attempt, k))
    /\ parent' = IF Parts[k] = "file" THEN With(File(attempt, k), Form(attempt)) ELSE parent
    /\ UNCHANGED <<method, client, attempt, phase, result, doomed, finished, body, heard>>

\* Mutant: the form is a plain pointer.
OpenFailsUnguarded(k) ==
    /\ Turn(k) /\ Parts[k] = "file"
    /\ Settle("serialization")
    /\ UNCHANGED <<method, client, attempt, parent, doomed, finished, devices, at, body, heard>>

\* open() fails, now or in a later attempt: the guard takes the form and the files
\* opened before this one along.
OpenFails(k) ==
    /\ Turn(k) /\ Parts[k] = "file"
    /\ parent' = Without(Family(Form(attempt)))
    /\ Settle("serialization")
    /\ UNCHANGED <<method, client, attempt, doomed, finished, devices, at, body, heard>>

Complete == phase = "building" /\ Len(devices[attempt]) = Len(Parts)

\* Mutant: the form is deleted with nothing.
PostUnparented ==
    /\ Complete /\ method = "POST"
    /\ phase' = "running"
    /\ parent' = [With(Reply(attempt), Manager) EXCEPT ![Form(attempt)] = Nobody]
    /\ UNCHANGED <<method, client, attempt, result, doomed, finished, devices, at, body, heard>>

\* The reply takes the form over.
Post ==
    /\ Complete /\ method = "POST"
    /\ phase' = "running"
    /\ parent' = [With(Reply(attempt), Manager) EXCEPT ![Form(attempt)] = Reply(attempt)]
    /\ UNCHANGED <<method, client, attempt, result, doomed, finished, devices, at, body, heard>>

\* Mutant: no reply, and nobody takes the form.
NoReplyForgets ==
    /\ Complete /\ method = "GET"
    /\ parent' = [parent EXCEPT ![Form(attempt)] = Nobody]
    /\ Settle("logic")
    /\ UNCHANGED <<method, client, attempt, doomed, finished, devices, at, body, heard>>

\* A method without a body makes no reply; the form is deleted later.
NoReply ==
    /\ Complete /\ method = "GET"
    /\ parent' = [parent EXCEPT ![Form(attempt)] = Nobody]
    /\ doomed' = doomed \cup {Form(attempt)}
    /\ Settle("logic")
    /\ UNCHANGED <<method, client, attempt, finished, devices, at, body, heard>>

---------------------------------------------------------------------------
(* The network and the event loop.                                         *)

Running(n) == Reply(n) \in Live /\ n \notin finished

\* The parts of attempt n that have not been read to the end.
Unread(n) == {k \in DOMAIN devices[n] : at[devices[n][k]] < Size(k)}

\* Qt reads the first part that is left, on from where its device stands, and the
\* progress callback hears of it.
Read(n) ==
    /\ phase # "building" /\ Running(n)
    /\ \E k \in Unread(n) :
          LET d == devices[n][k]
          IN  /\ \A j \in Unread(n) : k <= j
              /\ at' = [at EXCEPT ![d] = @ + 1]
              /\ body' = [body EXCEPT ![n] = Append(@, <<k, at[d] + 1>>)]
    /\ heard' = <<n, Len(body'[n])>>
    /\ UNCHANGED <<method, client, attempt, phase, result, parent, doomed, finished, devices>>

\* handleFinished: the reply is deleted later, form and files with it.
Finish(n, outcome) ==
    /\ phase \in {"running", "late", "settled", "done"} /\ Running(n)
    /\ outcome = "ok" => Unread(n) = {}
    /\ finished' = finished \cup {n}
    /\ doomed' = doomed \cup {Reply(n)}
    /\ IF n = attempt /\ phase = "running" THEN Settle(outcome)
       ELSE UNCHANGED <<phase, result>>
    /\ UNCHANGED <<method, client, attempt, parent, devices, at, body, heard>>

\* The timeout fires; its catcher is run by a later event.
TimesOut ==
    /\ phase = "running"
    /\ phase' = "late"
    /\ UNCHANGED <<method, client, attempt, result, parent, doomed, finished, devices, at, body, heard>>

\* Mutant: the reply is not aborted.
GiveUpQuietly ==
    /\ phase = "late"
    /\ Settle("failed")
    /\ UNCHANGED <<method, client, attempt, parent, doomed, finished, devices, at, body, heard>>

\* The catcher: a reply that is there and has not finished is aborted, which
\* finishes it.
Abort ==
    /\ phase = "late"
    /\ LET aborted == {n \in {attempt} : Running(n)}
       IN  /\ finished' = finished \cup aborted
           /\ doomed' = doomed \cup {Reply(n) : n \in aborted}
    /\ Settle("failed")
    /\ UNCHANGED <<method, client, attempt, parent, devices, at, body, heard>>

\* A deferred deletion.
Reclaim(x) ==
    /\ phase # "building" /\ x \in doomed
    /\ parent' = Without(Family(x))
    /\ doomed' = doomed \ Family(x)
    /\ UNCHANGED <<method, client, attempt, phase, result, finished, devices, at, body, heard>>

\* RetryInterceptor calls the terminus again, or hands on what it came to.
Retry ==
    /\ phase = "settled" /\ result = "failed" /\ attempt <= MaxRetries
    /\ doomed = {}
    /\ attempt' = attempt + 1 /\ phase' = "ready"
    /\ UNCHANGED <<method, client, result, parent, doomed, finished, devices, at, body, heard>>

Answer ==
    /\ phase = "settled"
    /\ phase' = "done"
    /\ UNCHANGED <<method, client, attempt, result, parent, doomed, finished, devices, at, body, heard>>

\* The manager takes its replies along, without finished; the timeout remains.
DestroyClient ==
    /\ phase # "building" /\ client
    /\ client' = FALSE
    /\ LET lost == UNION {Family(Reply(n)) : n \in Attempts}
       IN  parent' = Without(lost) /\ doomed' = doomed \ lost
    /\ UNCHANGED <<method, attempt, phase, result, finished, devices, at, body, heard>>

Terminus == \/ ClientGone \/ Begin \/ Post \/ NoReply
            \/ \E k \in DOMAIN Parts : AddPart(k) \/ OpenFails(k)
Loop == TimesOut \/ Abort \/ Retry \/ Answer \/ \E x \in doomed : Reclaim(x)
Network == \E n \in Attempts :
               Read(n) \/ \E outcome \in {"ok", "failed", "denied"} : Finish(n, outcome)

Next == Terminus \/ Loop \/ Network \/ DestroyClient

Spec == Init /\ [][Next]_vars

\* The loop delivers what is posted, and timers fire.
FairSpec == Spec /\ WF_vars(Terminus) /\ WF_vars(Loop)

---------------------------------------------------------------------------
\* The block of a form that follows block b.
After(b) == IF b[2] < Size(b[1]) THEN <<b[1], b[2] + 1>> ELSE <<b[1] + 1, 1>>

\* HttpSpec.h:58: every attempt sends the parts from their beginning, in order and
\* without a gap, however much of them an earlier attempt has read; and an upload
\* that succeeded has sent them all.
SentFromTheStart ==
    /\ \A n \in Attempts : \A i \in DOMAIN body[n] :
          body[n][i] = IF i = 1 THEN <<1, 1>> ELSE After(body[n][i - 1])
    /\ result = "ok" =>
          LET sent == body[attempt]
          IN  sent # <<>> /\ After(sent[Len(sent)]) = <<Len(Parts) + 1, 1>>

\* NetworkClient.cpp:136: when an attempt begins, nothing is left of the ones
\* before: no form, and no file still open.
CleanStart == phase = "ready" => Live = {}

\* Every object has an owner who will take it along: the guard while the form is
\* built, the client's manager by way of the reply, or a deferred deletion.
Owned ==
    \A o \in Live :
        \/ phase = "building" /\ o \in Family(Form(attempt)) /\ parent[Form(attempt)] = Guard
        \/ client /\ \E n \in Attempts : Reply(n) \in Live /\ o \in Family(Reply(n))
        \/ \E x \in doomed : o \in Family(x)

\* Two uploads never run at once: a timed-out one is stopped before the retry.
OneUpload == \A m, n \in Attempts : Running(m) /\ Running(n) => m = n

\* The callback hears of the attempt under way only, in growing numbers, and no
\* more once the client is gone or the request is answered.
ProgressIsCurrent ==
    [][heard' # heard =>
          /\ client /\ phase \in {"running", "late"}
          /\ heard'[1] = attempt
          /\ heard'[1] = heard[1] => heard'[2] > heard[2]]_vars

\* In the end no file is open any more.
FilesClosed == phase = "done" ~> Live = {}
=============================================================================

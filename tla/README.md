# A TLA+ model of network-framework

network-framework is a C++/Qt 5.15 HTTP client library: requests declared at
compile time or built at run time, an interceptor chain with retries, promises
for answers (a vendored QtPromise), JSON by Qt reflection and a service layer.
Everything runs on the thread of one Qt event loop; what makes the code hard is
that one call of `sendRequest` is spread over posted events, timers, signals and
closures, and that the client, the interceptors and the replies may be destroyed
between any two of them.

This directory holds TLA+ modules for the parts that keep state or make
decisions, TLC configurations, and TLAPS proofs. Paths in comments are
repository files (`Interceptor.cpp:43` is line 43 of `src/client/Interceptor.cpp`).

## The system

| Component | State | Operations | Correct means |
| --- | --- | --- | --- |
| `NetworkClient` | access manager, timeout, interceptors; per attempt a reply, a `once` flag, a timeout timer, a multipart | `sendRequest`, `sendSpec`, `attachReplyHandler`, destruction | every promise is settled once, with what the last attempt came to; nothing is left on the network or leaked |
| `RetryInterceptor` | policy; a budget in each closure | `intercept`, `attempt`, destruction | at most `maxRetries + 1` attempts, stops when told to, never touches a dead interceptor |
| Interceptor chain | nested closures, the owners of each interceptor | `executeWithInterceptors`, `next()`, letting go of client and interceptors | outside in, and back in reverse; inner retries are invisible outside; no dead layer acts, none is kept for ever |
| `NetworkClientError`, default policy | two black lists | `handleFinished`'s classification, `shouldRetry` | one cause is judged alike in both forms it can take |
| QtPromise | settled flag, value, reactions; the thread's posted events | `then`, `fail`, `resolve`, `reject`, adoption, `delay`, `timeout` | first settlement wins; a reaction runs once, from the loop |
| `HttpRequestInstance`, `HttpSpec`, `RequestConverter`, `NetworkClientBuilder` | headers, body, content type, parts, timeout, redirects | builder calls, conversion to `QNetworkRequest` | both descriptions send the same request, under the client's limits |
| `HttpRequest`, `STR` | the parameters of a declaration, the groups of an instance | `make`, conversion, the terminus's later use of the instance | every argument arrives under its key, in every attempt |
| Multipart upload | form, files, reply and who owns each; what was read; progress | `buildMultipart`, `sendMultipartRawRequest`, abort, retry | each attempt sends the whole from the start; no file stays open |
| `NetworkService` | shared client, common headers | `httpCall`, `httpPromise`, `httpSpecPromise` | the right callback, once, never inside its own call |
| `JsonSerializer` | flags; the recursion's guards and parents | `serialize`, `deserialize` | no object leaks or is freed twice; what was written is read back; a fault in one place is refused or stays there |

The interaction: `NetworkService` adds headers and calls `NetworkClient`;
the client converts the request, wraps a *terminus* in the interceptors' handlers
and calls the outermost; the terminus asks the access manager for a reply and
bridges `finished` to a promise, with a timeout on it; `RetryInterceptor` waits
for that promise and calls the terminus again; the last promise is decoded by
`JsonSerializer` and handed to the caller or to the service's callbacks. The
parts share no state but promises, the event queue and weak references.

## Modules

* `PromiseLoop`: the promise engine and the event queue as operators on a record.
  `Settle`, `Then`, `Adopt`, `Post` stand for one library call each, so a handler that
  makes five calls is their composition in the order of the code.
* `NetworkClient` (extends `PromiseLoop`): the whole life of requests. Each action is one
  handler run by the event loop, one timer, one network completion or one call of the
  user; `loop.posted` is the queue, in order. Promises are named after the code that
  makes them (see the module's head). `abort()` emitting `finished` synchronously is
  inside `AbortOnTimeout`; a reply that is finished before `connect` is the `finished`
  stage of `Choices`, with its queued signal.
* `RequestContract`: the promise to the caller, without promises or events.
  `NetworkClient` implements it (`ImplementsContract`): a phase, the number of sends and
  the answer are read off the engine and the replies.
* `NetworkClientProofs`, `PromiseLoopProofs`, and a module of proofs for each of
  `MultipartUpload` (with `TypedRequest`), `InterceptorChain`, `NetworkService`,
  `ErrorPolicy`, `RequestConversion` and `JsonOwnership` (with `JsonNumbers`): the
  theorems, see below.
* `InterceptorChain`: any chain of layers that pass through, answer by themselves, mend,
  sign or retry. `Policy` is each layer's `shouldRetry`, which may let any error pass,
  that of a destroyed client included. `acts` is the tree of handler calls. `Alive` says
  who owns a layer: the client, the program, or the `next` that a retrying layer further
  out holds while it waits; a layer's own closures hold it weakly (`TrackLifeCycle`).
* `ErrorPolicy`: what a finished reply shows, the error made of it and the default
  policy's verdict, through the retries of one request. `NetworkClient` abstracts these
  errors to `transient`, `permanent` and so on.
* `RequestConversion`: the two descriptions built side by side by the same calls,
  converted and compared; also what a service's common headers and the client builder's
  timeout and redirects do.
* `TypedRequest`: from the literal of a declaration and the arguments of `make()` to what
  the server decodes, attempt by attempt. Texts are sequences of tokens; those that
  matter (a placeholder, `+`, `%41`, `?`, a long double) are values of their own.
  `freed` is the moment the caller's strings go out of scope. Its definitions are called
  `TypedInit`, `TypedSpec` and so on, because one module of proofs extends it together
  with `MultipartUpload`.
* `MultipartUpload`: one upload with its retries. `parent` is Qt's object tree over the
  forms, files and replies of all attempts, `doomed` the deferred deletions, `devices`
  what each attempt's parts are read from, `at` where each device stands, `body` what
  each attempt has sent. Building a form is synchronous and takes several steps here
  only so that any file may be the one that does not open.
* `NetworkService` (extends `PromiseLoop`): `httpCall`'s reactions and the user's
  callbacks, which may throw, make further calls and, like interceptors, run an event
  loop in which other callbacks are called. `inside` is the call stack.
* `JsonOwnership`: the recursion of `deserializeInternal` and `deserializeQVariant` as a
  stack of frames, with guards, parents and exceptions.
* `JsonNumbers`: what is written and read of an integer property, as operators, with
  scaled widths.
* `JsonRecords` (extends `JsonNumbers`): objects of classes with properties, bases,
  gadgets, pointers, lists, enums and bytes; written, changed in one place by a server,
  and read under other flags. The recursion over values is the code's.
* `MCNetworkClient`, `MCInterceptorChain`, `MCRequestConversion`, `MCTypedRequest`,
  `MCMultipartUpload`, `MCJsonRecords`: definitions for TLC's instances.

An operator commented `Mutant:` is a plausible bug in the definition after it. It
is used by no specification; substituting it shows that a property notices.

## Runs

Passing:

| Run | What it explores | What it shows |
| --- | --- | --- |
| `pipeline` | one request with a timeout and parts, one without, one retry; client and interceptor destroyed anywhere; the loop's fairness (159 000 states) | number of attempts, outcome, reclamation, silence after destruction, no lost wakeup; `NetworkClient` implements `RequestContract`, so that a request with a timeout is answered |
| `fair_network` | requests without timeout, one of them misused, three attempts under a policy that retries every error; replies finish (148 000 states) | answered, unless the client was destroyed under them |
| `chain` | six layers, a retry inside a retry, the inner one with a policy that retries even a destroyed client's error; client and interceptors let go of anywhere (2 200 states) | order, multiplicity and the way back; each layer's errors use up its retries under its own policy; only layers with an owner act; who never retries it hears once that the client is gone; every request is answered |
| `error_policy` | 19 statuses, 8 link errors, timeouts, two retries | the two lists agree but for 407 and 418; transient errors use up the retries |
| `conversion` | every sequence of builder calls, six clients (169 000 states) | header and content-type precedence, also of a service's Content-Type, timeouts in range, the client's limits on either sender, what the two paths share |
| `typed_request` | six declarations with interleaved groups, one key or one header name twice, a body; each plain and as a multipart, every choice of arguments, two attempts before or after the caller's strings are gone (41 000 states) | every plain argument arrives in its place, but for the two kinds that are lost (below); where replacing placeholders one by one matters; what a later attempt may read |
| `multipart_upload` | two files around data, three attempts, GET and POST, a file that does not open, errors, timeouts, the client gone (6 500 states) | each attempt sends its parts from the start and without a gap, a successful one all of them; it begins with nothing left over and never overlaps another; everything has an owner; files are closed; progress is the attempt's |
| `service` | two calls, made from callbacks too; callbacks that throw; event loops inside callbacks and interceptors (1 000 states) | callbacks match outcomes, also of calls that threw at their caller; none runs inside its own call; one always comes |
| `json_ownership` | objects, gadgets and lists nested in one another, either root, up to five objects and six frames (368 000 states) | no dangling, no double deletion; only what a gadget held is left behind, and without gadgets everything has an owner |
| `json_records` | records three levels deep, all flags, one change anywhere in the text; every value of six integer types (313 000 states) | what survives a round trip and how far off the rest is; tolerated spellings mean the same; a fault is refused or stays where it is; strictness reaches every level |

The bounds. Two requests are enough for every interaction the code allows: they
share the event queue and the two objects that can die, nothing else. One retry
reaches an attempt in the shadow of an earlier one's timer, reply and parts; two
retries (`fair_network`) reach a budget that is neither full nor empty. The attempt
numbers go one beyond the budget, so that a bug can exceed it. In
`JsonOwnership` five objects and six frames allow a list of objects in an object
in a list and siblings next to each; in `JsonNumbers` only the order of the
widths (short < int < double's mantissa < long long) matters. In `JsonRecords` a
class at the root, one behind a pointer and one in that or in a list is every
nesting the two functions distinguish, and the server changes one place because
the code looks at places one by one. Two files with data between them
(`multipart_upload`) make "opened before", "failing" and "not reached" three
different parts, and three attempts one with a predecessor and a successor.
`NestedRetries` has a layer above, between and below two retrying ones.
`NetworkClient`'s network answers at any moment or never, so no bound on time is
needed. An int of the model runs from -8 to 7 (`IntMax` in `conversion`), so that a
timeout can wrap; the proofs take any width.

`CHECK_DEADLOCK FALSE` is in every configuration because each of these systems
really stops: all requests answered, the JSON read, the request sent.

Violated, each a sentence of the repository that the code does not keep
(quoted in `PROJECT.json`):

| Run | The sentence | What happens |
| --- | --- | --- |
| `chain_signed_request` | an interceptor signs its copy of the request (README) | the captured request is sent |
| `json_leak_on_failure` | a failed filling of a `T*` releases everything (`JsonSerializer.h:104`) | objects below a gadget have no parent |

Narrower properties stand where the code does less than one might read into it:
`ExplicitTypeWins` (an explicit or common `Content-Type` replaces the multipart's, which
names the boundary), `CommonHeadersSent` (a service that spells one header in two ways
sends one of the two values; the proof asked for this), `ClientLimitsApply`
(milliseconds beyond an int wrap, `HttpSpec.cpp:95`; no redirects at all cannot be asked
of a policy that follows, `NetworkClient.cpp:54`), `NumbersSurvive` (an unsigned
property above `INT_MAX` is written as a negative number, `JsonSerializer.cpp:92`),
`JudgedAlike` (407 and 418 are permanent as network errors and retried as statuses),
`CallbacksMatchOutcome` (what `onSuccess` throws is reported to `onFail`),
`EveryCallReported` (an exception of the serialiser leaves `httpCall` at its caller,
`NetworkService.h:71`), `PathsAgree` (`HttpSpec` adds no `Bearer ` prefix and a
Content-Type of the body; the compile-time request does the opposite), `ArgumentsArrive`
(a `+`, a percent sign or a question mark in a value or in the path, a double of more
than six digits, a literal beyond 64 characters; of two parameters with one key the
first fills the placeholder; of two headers with one name the last is sent,
`RequestConverter.h:191`; a multipart may declare a `Body`, `HttpRequest.h:369`, which
`sendMultipartRawRequest` does not send, `NetworkClient.cpp:88`), `GoneOnce` (layers
whose policy, or that of a layer outside, retries the error of a destroyed client are
told as often as they ask), `AttemptsAlike` (views of freed strings in a multipart's
form, `NetworkClient.h:61`), `ReplacedAsIfAtOnce` (a value that holds a later
placeholder), `RoundTrip` (properties of a base class, bytes that are no UTF-8, an enum
written by name and read without the flag).

## Fairness

`LoopRuns` (in `FairSpec`) says that the event loop goes on: a posted event is delivered
and an armed timer fires. That is Qt's own guarantee for a thread that runs `exec()`.
Nothing is assumed of servers or of the user, so `ImplementsContract` holds even if no
reply ever finishes, and destruction may or may not happen. `FairNetworkSpec` adds that
replies finish; it is used only for requests that have no timeout, for which the code
promises nothing else. In `NetworkService` the client settles its promises (that is what
`NetworkClient` shows) and `httpCall` and the callbacks return, or throw; in
`InterceptorChain` (`Progress`) an attempt is settled, by the network or its timeout,
and posted outcomes and delays come, while nobody has to send, destroy or drop anything;
in `MultipartUpload` the terminus goes on with what it began and the loop delivers,
while the network may stall.

## Proofs

What TLC shows on small instances, the provers show for every value of the
constants, under the named assumption of each module (`NetworkClientAssumption`,
...) and nothing else. Hardly any of the properties is inductive: each proof module
defines the invariant `IInv` that is, shows that every action keeps it (one lemma
per action or group of actions), and that the property follows from it.

`NetworkClientProofs`, for every set of requests, every retry limit and every policy:
every safety invariant of its run (`TypeCorrect`, `RetriesBounded`,
`QuietAfterDestruction`, `PreviousAlwaysGone`, `OutcomeAlwaysLast`,
`PendingAlwaysCaused`, `AllReclaimedOnce`), `BudgetAlwaysKept`, the captured budgets
themselves, and `ContractKept`, the steps of `RequestContract`. None of them can be
seen from a single step, because what a step does is decided by closures that have been
waiting in promises and in the queue. The invariant `IInv` has these parts.

* The engine (`Wired`). Every closure listens to one promise (`Speaker`) and settles
  one (`next`). Each pending promise has its one listener and no other (`Listened`);
  what a queued event carries is what its speaker came to (`Outspoken`); a closure is
  held only while the promise it will settle is pending (`Aimed`), and every pending
  promise that no object settles has such a closure (`Awaited`); what reclaims an
  attempt is queued before the report of its outcome (`Orderly`); nothing is queued
  twice. A handler is a chain of library calls, and between them a promise may still
  lack its listener or its settler; `Wired` is therefore relative to the sets `X` and
  `Y` of promises that do. There is a lemma per call (what `Settle`, `Then`,
  `Adopt`, `Post` do to `X` and `Y`), and one per handler made of them. Below it,
  `PromiseLoopProofs` shows for any set of good jobs and forbidden promises that every
  call keeps an engine among them (`SafeEngine`): the good jobs are closures of attempts
  within the budget whose captured budget is what the attempt has left.
* Each attempt: the order in which its promises are made (`Created`), its reply, parts
  and deletions (`Reclaimed`), that nothing of it is left when its outcome has been
  handed on (`Reported`), and that its result is what it came to or what the next
  attempt came to (`Carried`).
* A step that does not concern an attempt leaves it `Untouched`, so that each action is
  checked for the attempts it is about (two at most).

The outcome follows by going down the attempts (`Induction`): the caller's answer is the
first result, which is the last attempt's. `PendingAlwaysCaused` goes the same way
(`Pursue`): from the promise the user waits on to the closure that will settle it, to
that closure's speaker, and on, until something is running, armed or queued.

`ContractKept` is the refinement without its fairness: `Init` implies the contract's, and
every step is one of the contract or leaves all it speaks of unchanged (`ContractStep`,
one lemma per action). Beside `IInv` it needs `Explained`: each outcome of an attempt has
its cause, and an aborted reply's error reaches nobody. An answer is then
plausible because the last attempt's outcome was; a retry is within the budget because no
attempt goes out twice; and it comes before the answer because a pending delay keeps
every result before it pending (`RetryWaits`).

`InterceptorChainProofs`, for chains of any layers: `OutsideIn`, `EnteredPerAttempt`,
`ErrorsExhausted`, `GoneOnce`, `InnerFirst`, `OnlyLivingAct`. The invariant describes
the tree of handler calls (`Tree`): who was called by whom, which calls wait, that each
layer has one call that waits at most and that those that wait are a path from the
outside in; `Counted`: a retrying call has as many children as its budget has lost;
`HandedOn`: an answered one hands on its last child's outcome; `Excused`: an error that
its policy would retry and that came back too early came from a layer nobody owned;
`GoneIsFinal`: where neither a layer nor one outside it retries that error, the news that
the client is gone is the last thing it hears. Policies are arbitrary.

`MultipartUploadProofs`, for every form and number of retries: `CleanStart`,
`OneUpload`, `Owned`, `SentFromTheStart`, `ProgressIsCurrent`. That nothing is left when
an attempt begins depends on what every way of ending the one before left to a deferred
deletion. `Shape` says it of the object tree: everything that lives belongs to the
present attempt; a file hangs from its form, a form from the guard, its reply or a
deferred deletion, a reply from the manager; and once the attempt has settled, its reply
is due for deletion. For what was sent, the invariant relates the last block of a body
to the device it came from (`Cursor`): every part before it was read to the end, its own
device stands behind that block, and no later one has been touched. It holds because an
attempt's devices are its own (`Fitted`) and stand at their beginning until the first
block is sent (`Stands`). A form that shared a device with an earlier attempt would
break it (the mutant `AddPartReusing`).

The same module, for any declaration, arguments, path, literal length and number of
attempts of a `TypedRequest`: `ArgumentsArrive`, `ReplacedAsIfAtOnce`, `AttemptsAlike`.
The invariant `TypedIInv` is short: the instance is what `make()` makes of the
arguments, the request what that converts to, and every attempt sent one of two things,
the request with its form read early or late (`Possible`). The work is in the texts,
part by part by induction on their number (`Induction`, `JoinsExist`, `FlattenIsSeq`).
`ReplaceIs`, `ReplaceAppend` and `ReplaceJoined` say what replacing does to a text token
by token and part by part. `FilledIs` goes through the parameters in the order of the
declaration: with the first m of them filled in, the path is the one in which exactly
their placeholders are replaced (`Partly`), because no value put in by then holds the
placeholder of a later one (`Undisturbed`). What of a declaration has no such form is
excluded by `TypedRequestAssumption`, which states the `static_assert`s of `HttpRequest`
and that a path parameter has a placeholder.

`NetworkServiceProofs`, for any number of calls made, nested and answered in any order:
`CallbacksMatchOutcome`, `NeverInsideItself`. The invariant gives the stage each call is
in (uncalled, calling, awaiting, answering, succeeding, judging, failing, finished),
with what the promises, the queue and the call stack show of it there, and says that
each event is in the queue at most once. That no call is on the stack twice follows
because each stage allows it one frame, and callbacks come from the queue only (an
answer that was there before is queued as well).

`ErrorPolicyProofs`, for any number of retries: `TransientOutlived`, `JudgedAlike`.
`TriedAgain` and `GivenUp` say of each verdict so far what it was given for.

`RequestConversionProofs`, for any common headers, clients and width of an int:
`PathsAgree`, `ExplicitTypeWins`, `CommonHeadersSent`, `ClientLimitsApply`. The two
descriptions stay `Alike` while they are built, what was asked for is what they hold
(`AskedFor`), and what is sent is made of that and of the client's configuration.

`JsonOwnershipProofs`, for any nesting and any failure: `NothingDangles`,
`OnlyGadgetsLeak`. Objects are numbered in the order they are made. A parent is older
than its children (`Older`), and what an inner call of the recursion may delete is
younger than all an outer call refers to, so that deleting an object with its children
(`WithChildren`, the smallest closed set) never touches what is still referred to.

The same module, for any widths (`JsonNumbersAssumption`): `IntegersSurvive`, what
`NumbersSurvive` says of each number, of the operators it goes through. The provers know
nothing of powers, so `TwoTo` is defined in `JsonNumbers` and its laws are proved
(`TwoToIs`, `TwoToGrows`, `TwoToSum`); `RoundedIs` shows that rounding is off by half the
last digit at most. The assumption that a double has two bits less than a `long long`
was found missing by this proof: a `ulong` of 2^DoubleBits would otherwise be written
as a negative number.

Only model-checked: liveness, which the installed provers cannot reason about under
fairness (`EveryCallReported`, `FilesClosed`, `AlwaysAnswered`, `AnsweredUnlessLost`, and
of `ImplementsContract` that an answer comes); and the properties of `JsonRecords`
(`RoundTrip`, `EditsAreLocal`, `ChecksReachDown`, and `NumbersSurvive` as far as it says
that the recursion hands each number to `JsonNumbers` and takes it from there). They are
about `RECURSIVE` operators on values nested in one another, and need an induction over
such values.
The library's induction theorems take an operator and cannot be used; where a
proof needs induction on numbers it takes a least counterexample instead.

## Abstractions

* Bodies, URLs and messages are single values. A response is `data`; decoding it
  succeeds or fails. Raw `sendSpec` lacks the decoding step: its caller holds the
  promise here called `result`.
* A client without a retrying interceptor behaves as with `MaxRetries = 0`, and a
  negative `maxRetries` too (`remaining <= 0`).
* Qt itself is modelled from how it is used: order of posted events, deferred
  deletion, `abort()`, the destruction of replies with their manager, the mapping
  of statuses to error codes, `QJsonValue`'s integers (Qt 5.15). In the map these
  definitions are marked external.
* Timers have no durations: any armed timer may fire next. How long a request with
  its retries takes in all is therefore not a question here (the builder's
  `totalTimeout` bounds an attempt).
* A retry policy is a fixed set of errors for each layer; `shouldRetry` may compute
  anything, but has only the error to go by unless it keeps state of its own.
* Undefined casts in `JsonNumbers` yield any value of the target.
* `MultipartUpload` takes over from `NetworkClient` that a deferred deletion is run
  before the retry (`Retry` waits for it; `PreviousReplyGone` is checked there), and
  takes one part of a file for one step of reading. Files are not empty, and what Qt
  reads again by itself (a redirect) is left to Qt.
* The client goes between events only; a callback that destroys it inside one of
  Qt's signals is left to Qt.

## Not modelled

* `HttpSpec::query` and the base URL (texts that are appended), floating-point and
  QJson properties (handed to Qt unchanged), `AllowNullForClasses` (what it yields is
  the null pointer that comes out without it), lists of enums (they depend on the
  program's registrations).
* The exception classes: carriers of an error or a text.
* QtPromise's combinators, which the framework does not call, and its locking: the
  framework uses it on one thread.
* Version, export macros, examples and tests: no behaviour of their own.

## Plan

Done: the pipeline and its engine; the chain with the lifetime of its layers; the
policy; both conversions; uploads; the service; JSON values and the ownership of what
is read; with proofs of every safety property but those of nested JSON values. Left:
QtPromise across threads, that is the lock of `PromiseDataBase` and dispatch to the
thread of the subscriber, and the combinators the examples use.

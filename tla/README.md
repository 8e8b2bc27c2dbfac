# A TLA+ model of the Boomi Platform SDK for Go

The SDK under `src/` talks to the Boomi Platform API on behalf of programs that
may run many calls at once against one account. The platform throttles an
account at about ten requests a second and locks it after repeated rejected
credentials. What makes the SDK hard to get right is therefore not any single
request but how the requests of one account share a budget, how a failed one is
repeated, and what a caller may conclude from what comes back. That is what is
modelled here.

Contents: [parts](#1-the-system), [plan](#2-plan), [modules](#3-modules),
[runs and bounds](#4-runs), [proofs](#5-proofs),
[disagreements with the documentation](#6-where-code-and-documentation-disagree),
[limits](#7-what-is-not-covered).

## 1. The system

```
 caller ──> objects.* services ──> Client.Do / Client.Download
               │ QueryAll, BulkGet      │ 1 Breaker.Allow      (pace, shared per account)
               │ poll loops             │ 2 Limiter.Acquire    (pace, shared per account)
               │ licensing report       │ 3 retryLoop: rewind, send, evaluate, back off
               ▼                        │      Policy.Wait, ParseRetryAfter  (pace)
            many Do calls               ▼
                                   net/http ──> platform
```

| Part | State | Operations | Hard about it | Correct when |
|---|---|---|---|---|
| Account limiter (`pace/pace.go`, `Limiter`, `gate`) | two counting gates (slots, limit, wake channel), the bucket (`next`, `interval`), first-value flags | `Acquire`, the release it returns, `Configure` | two kinds of mutex, a wake channel that is closed and replaced, a sleep outside the lock, cancellation at three places, reconfiguration while calls wait | writes exclude each other, slots are neither leaked nor returned twice, no wake-up is lost, grants are spaced, the final configuration does not depend on the order of the clients |
| Auth breaker (`Breaker`) | a count per account | `Allow`, `RecordAuthFailure` | asked at the start of a call, raised at the end of others | every rejection counts once, an open circuit refuses |
| Retry policy (`Policy.Wait`, `ParseRetryAfter`) | none | the pause before a retry | header in two forms, fixed-width durations, cap before jitter | a pause is never negative and never above its bound, hints are kept |
| Transport (`client.go`, `download.go`) | per call: attempt, body position, slot | `Do`, `Download` | the body is shared with `net/http`, an answer may be lost after its effect, the slot spans the back-offs | at most the allowed number of sends, one-shot bodies sent once, success means that it was applied, and not with the unread rest of a body, writes do not overtake a retried write, the call returns |
| Registry (`New`, `ForAccount`, `BreakerFor`, `attachPace`) | two process-wide maps, a `sync.Once` per client | validate a configuration, look up or create, attach | creation races, first calls that race for the `sync.Once`, spelling of the host, partner mode | requests to one address, one limiter, one breaker; the account asked about is the account reached |
| Errors (`errors.go`) | none | `Kind`, `KindOf`, the quirk predicates | chains of wrapped errors; what an error says of a call that was repeated | a caller who acts on a kind is not misled |
| Pagination (`objects/query.go`) | token, collected rows, total | `QueryAll`, `QueryOne` | rows change while paging, answers are lost | complete or an error |
| Bulk (`objects/bulk.go`) | position in the ids | `BulkGet` | attribution by position | every id is an object or a miss |
| Poll loops (`objects/async.go`, `executions.go`, `licensing.go`) | start, delay, download location | `pollAsync`, `AwaitRecord`, `Log`, `awaitDownload` | "not yet" and "done" have several spellings, a second request starts the work over, two waits in one budget | over within the budget, no result missed, nothing unfinished reported |
| Licensing report (`objects/licensing.go`) | the platform's one outstanding report | `ConnectionReport` | stuck reports, other callers, one report per class | rows belong to the caller's own request |
| Write operations (`objects/rest.go` and the services on it: runtime properties, extensions, schedules, web server, branches, merges, packages, deployments, executions, components, folders, raw access) | none; the caller holds what he read | a checked request each; the caller should read before a replacement, no service makes him | a replacement built from an old read or without one, a request with room for a part of what was read, requests repeated or applied late, several writers | no guarded write acts unconfirmed; an edit disturbs another entry only as a replacement that had not read it or has no room for it; every record is accounted for |
| Lists (`objects/metadata.go`, `internal/query`) | rows collected | `CurrentByFolders` in batches of pages, filters built and encoded | batch and page borders, edits between batches and between pages, groups that collapse | who stays is listed once; a filter asks for what it says |
| Download-URL check, decoders, accessors (of web server documents, component XML) | none | pure functions on texts | many cases | each maps its inputs as its callers expect |
| Reads of thin services (components, folders, atoms, queues, certificates, account) | none between calls | one request or one query each | nothing | the id check precedes the request |

Interactions: every service goes through `Do` (JSON, XML) or `Download`
(archives, reports). Both use the limiter and the breaker of the account, found
in the registry; a client configures the shared limiter when it is created, so
any number of clients may configure it while calls are in flight. The poll loops,
`QueryAll` and `BulkGet` are sequences of calls and hold no slot between them.
The caller's context reaches every wait. The observer (`progress`) is called
back with values; it changes nothing.

The hazards, each with its line and the properties that watch it, are the list
`hazards` of `PROJECT.json`.

## 2. Plan

Order of work, most important behaviour first. All of it exists.

1. `Limiter`, `AccountBudget`, `LimiterProofs`: the shared budget, what it
   promises, and the proof that it keeps it.
2. `Client`, `ClientProofs`: the life of a call on top of the budget.
3. `RetryPolicy`, `RetryPolicyProofs`: how long a retry waits.
4. `Pagination`, `Bulk`, composed in `Retrieval`; `RetrievalProofs`: what a caller
   may conclude from many calls.
5. `Polling`, `PollingProofs`: the four waiting loops.
6. `Licensing`, `LicensingProofs`: reporters of one account, one outstanding
   report on the platform, stuck and abandoned reports, a report per class with
   failures.
7. `AtLeastOnce`: what a call promises, with `Client` as its refinement, by TLC
   and by proof.
8. `Errors`: what the error of a call says about it.
9. `Registry`: clients attach concurrently; who shares what.
10. `Objects`: the write operations, each a call of `AtLeastOnce`.
11. `Account`, `AccountProofs`: `Registry` and `Objects` composed, and what is
    proved of each of the two by itself.
12. `Filters`, `Encoding`, `Metadata`, `MetadataProofs`: lists by filter and by
    batches of folders, run together with `Retrieval` in `MCRetrieval`.
13. A theorem for every safety property that a run checks.

Left open: to state once what a query promises and show that both `Pagination` and
the queries of `Metadata` keep it. `Metadata` has its queries page by page, with
the rows and edits of components; `Pagination` has them over a table of any rows.

`Limiter` and `Client` meet in `AccountBudget`: the one implements it, the other uses
it. `Client`, `Objects` and the lists meet in `AtLeastOnce`: `Client` implements it,
`Objects` is built on it, so that the operations need not be explored together
with attempts, bodies and back-offs. `Account` closes the remaining gap, which
writes wait for each other, by asking the registry.

## 3. Modules

An operator named `X_Suffix` next to an operator `X` is the same operator with a
plausible bug; it is not part of the specification and only serves to show that a
property would notice.

### Limiter and AccountBudget

`Limiter` models one limiter. An action is one critical section of the code or
one outcome of a `select`:

| Code | Action |
|---|---|
| the check of `ctx.Err()` at the top of `Acquire` | `Start` |
| `gate.acquire`, one turn of its loop under `g.mu` | `Enter`; `Full` is the loop's condition |
| the `select` of that loop | `Retry` (channel closed), `GiveUpParked` (context done) |
| `waitTurn`, one turn of its loop under `l.mu` | `TakeTurn`, which grants or computes the sleep (`Wait`) |
| `sleepCtx`, after unlocking | `Sleep` (it begins), `WakeUp` (timer), `GiveUpSleeping` (context done, slot given back) |
| the release function | `Release`; `FreeSlot` is `gate.release` with the channel it closes |
| `Configure` | `SetRate` under `l.mu`, then `Tighten` under `g.mu` |
| the clock, the caller | `Tick`, `Cancel` |

`pc = "parked"` means: the call holds the wake channel of this moment.
`FreeSlot` turns every parked call of the class into a woken one, which is what
closing that channel does; a call that parks later holds the new channel.
Instants (`next`, the end of a sleep) are kept as ticks to go, so no clock grows;
one that is past counts as now (`Remaining`), since the code asks of `next` only
whether it is past. Time may pass between the computation of a sleep and its start.
`since` and `gap` are history: time since the last grant and the spacing it imposed.

`AccountBudget` knows calls that hold something, calls that returned it, and the
clock. `Limiter` implements it under the mapping at its end (`holding` is the
set of calls granted and not yet released; slots taken by calls that still wait
for the bucket are internal).

### Client

`Client` models `Do` and `Download` for the calls of one account that share a
breaker and a limiter. The limiter appears as its slot counts; its timing and the
length of pauses are left to the modules that are about them. `UsesBudget` says
that the calls use those slots as `AccountBudget` hands them out, its clock aside:
this is where `Client` and `Limiter`, which implements the same module, meet. A call
whose body cannot seek takes a slot and gives it back in one step of the model, which
the budget does not see. `ImplementsCall` says that it implements `AtLeastOnce`: the budget of
requests is `Budgeted`, a result counts as "ok", "refused" (by the open circuit)
or "failed", and the writes are the `Ordered` calls. Actions follow the code: `Start` (the breaker), `UrlFails`, `Acquire`,
`AcquireFails`, `Send`, `BuildFails` and `RewindFails` (the top of `retryLoop`), `EvalSuccess`,
`EvalAuth`, `EvalBusy`, `EvalRefused`, `EvalLost` (`evalAttempt` and, for
downloads, `sendDownload`), `NextAttempt` and `BackOffCancelled` (`sleepCtx`).

The environment is a transport and a platform that may apply a request and lose
the answer, apply it late, or not at all (`Answer`, `Lose`, `ArriveLate`), go on
reading a request body after it has returned and close it at some point
(`TransportDone`), and a caller who cancels (`Cancel`). Bodies come in five
kinds: none, a seeker in memory, a file (a seeker the transport closes), a
one-shot stream, and a file that cannot seek.

`applied`, `sent`, `carried` and `inFlight` are history and what the platform
knows; no guard of a client action reads them.

### RetryPolicy

`ParseRetryAfter`, `Window` and `Wait` are the functions of `pace.go` on
durations of a scaled-down fixed width. `Wrap` is the 64-bit product. Jitter is a
set of outcomes. The state machine is one call whose attempts fail, each with any
of the headers.

### Pagination, Bulk, Retrieval

`Pagination` is `QueryAll`: `QueryFirst`, `QueryMore` per token, `QueryFails`,
`Finish` with the count check. The platform (external) keeps rows in an order and
a cursor behind the token. Each page may be disturbed: a row appears or
disappears, an answer is lost so that `Do`'s retry gets the page after it, a token
is missing.

`Bulk` is `BulkGet`: `BulkChunkGet` per chunk, `BulkFails` for a failed call, an
answer with an entry too few or too many or one that does not decode, `BulkReturns`.

`Retrieval` composes them: the listed ids (once with a repeated id) are fetched
with `BulkGet` while rows are deleted. `MCRetrieval` gives it an instance. Other
behaviours of the same run are those of `Metadata`; the two share no state.

### Polling

The four loops share one shape and differ in what they send, how they read the
answer and whether the delay grows. `flow` says which loop runs. What a loop takes
for an end is `Settled`: `Working` is `statusMessage`, `FinalRecord` is `pollRecord`,
the downloads go by `ErrNotReady`; `NotYet` and `Done` (external) list the forms the
platform has for either. `post` exists in `Log` only: the request is
refused until the execution is visible, an accepted one starts the generation
(`since`). A request stands for a whole `Do` or `Download`, its wait for the
limiter and its retries included; `RequestTime` bounds that.

### Licensing

`Licensing` is `ConnectionReport` for several callers of one account. `stage` is
0 for the unfiltered report and n for the n-th class of `reportByClass`; `try`
is 2 once `startReport` has cleared a stuck report and asks again. Actions:
`PostAccepted`, `PostRefused`, `PostFails` (`startReport` and its POST),
`PostTwice` (`Do` repeats a POST whose answer was lost, and is refused because of
the report the first one started),
`Discard`, `DiscardFails` (`discardDownload`), `Collect`, `GiveUp`
(`awaitDownload` and the parsing). `ReportFails` and `ReportArrives` are what
the code does at the end of each report: an error of the unfiltered report ends
the call, one of a class is noted, and rows win over noted errors at the end, on
purpose: `reportByClass` returns a nil error with the rows of the classes that
did not fail.

The platform (external) keeps one outstanding report and refuses another until
that one is downloaded; it may never generate it, and it is remembered only as
long as somebody can ask for it. Old reports of an earlier
process may be outstanding at the start. How long a caller waits is the subject
of `Polling`; here it may give up at any point. `disturbed` is history: callers
whose clearing was in vain, because the report was still being generated or
because somebody else's request was accepted in between.

### AtLeastOnce

What a call of the SDK amounts to for the services: its request goes out a
bounded number of times (`Try`), each may take effect, also after the call has
returned (`Land`), and the call ends done, failed with whatever effect, or refused
with none (`Conclude`). Ordered calls do not overlap.

### Errors

`Errors` extends `Client` by what can be told from its results: `Fate` and
`FateOf` are the status switches of `evalAttempt` and `sendDownload`, `Chains(c)`
the error chains with which call `c` may have ended, `StatusKind`, `KindOf` and the
predicates the functions of `errors.go`. `KindTellsEffect` then relates what the
error says to what happened on the platform. A call that was repeated may meet its
own first attempt (a second `Create` is refused as a duplicate, a second `DELETE`
finds nothing), which is why "validation" and "conflict" say "not applied" only of
calls that sent one request.

### Registry

A client is unconfigured, then has a normalised configuration (`New`), then is
attached by the first goroutine that calls it (`EnterOnce`, `ForAccount`,
`BreakerFor`, `Configure`; a `sync.Map` operation is a step). `limiters` and
`breakers` are sets of entries, so that two entries under one key are
representable and shown not to arise. `Address` is what `Client.url` makes of the
configuration, `Reaches` (external) the account the platform takes it for,
`AccountID` the account the services ask about. Host names are records of a name,
its case and a slash at the end: what `TrimRight` and `ToLower` change.

### Objects

The services' writes are instances of one shape, `Operation(name, does, scope,
carries, needs)`: it edits, creates or deletes; an edit covers an entry, a process or
the whole object; its request has room for some entries (`carries`); it needs some
inputs, `Confirmed` among them where the code asks for it. The table in the module
lists every method of the services that changes settings or makes or deletes records
on the platform; requests for reports and logs are in `Licensing` and `Polling`. A caller
may read first (`Fetch`) or not: the comments ask for it, no service enforces it. Then
he makes the request (`Submit`, where the service refuses it), and the call is one of
`AtLeastOnce` (`Send`, `TakeEffect`, `Return`). `doc` is the object on the platform, an
entry's value is the call that wrote it, `given` is what the request brought; `known` is
history, the entries whose present value a caller has read. A `Persisted` that finds
nothing returns an empty set (`Readings`), which agrees with no entry that is set.

What requests have room for: `Extensions.Update` has connections and properties and
none of the raw blocks that `Get` returns, nor a masked secret; `Schedules.Update` has
the windows and no retry windows of their own, which are dropped, or made of the
windows if `MaxRetry` is given (`Unsent`). The other replacements send the document
the caller has made of what he read.

`EntriesKept` is the strongest statement the code allows: it cannot prevent a
replacement from undoing what its caller had not read, because it was written later
or because he read nothing (the API has no versions), late and repeated requests
included, nor from dropping what its request has no room for. Whatever was read, has
not changed and can be sent survives.

`RecordsAccounted` asks for a confirmation by the list `Guarded`, which is taken from
`objects/doc.go` and the errors that name the guarded writes, not from `needs`; an
operation that forgets to check is noticed.

### Account

`Account` composes `Registry` and `Objects`: a goroutine is a call, it must have
attached before it sends, and a write waits for those that found the same limiter
(`Admitted`). `Ordered` is empty here, so that the order of writes is a result,
`AccountWritesInOrder`, and no assumption.

### Filters and Metadata

`Filters` has the constructors of `internal/query`, `Encoding` its encoder:
`MarshalJSON`, which encodes an expression through `Encode` and refuses what is
ill-formed, and `EncodeGroup` with the collapse of groups of one. An expression is
a tree of groups over comparisons. `Trees[d]` are those of at most `d` levels of
groups, and what Go's methods do by calling each other is a recursive function
whose domain these trees are (`ListAll` among them); `MaxDepth` bounds the levels
and stands for the size of the stack. External is what the platform makes of a
filter on the wire: `Selected`, the rows that satisfy it. `Satisfying` says which
rows satisfy a tree, and serves for both sides of `KeepsMeaning`: the rows the wire
selects are those that satisfy the expression as it was built, if that is well-formed,
and otherwise nothing is sent.

`Metadata` is `CurrentByFolders` and the lists by one filter, encoded with
`MarshalJSON`. A batch, and a list by a filter, is a `QueryAll`, page by page:
`FirstPage` with the count, `NextPage` per token, `PageFails`, `QueryReturns` with the
count check, after which the next batch is due. Components are saved, moved, deleted
and restored (`Edit`) between any two pages and batches; an answer may be lost, so
that `Do`'s retry gets the page after it (`AnswerLost`), and a token may be missing.
Rows are versions of components. `shifts` counts what goes wrong between the pages of
one query: each row that comes or goes, each lost answer, each missing token; `calm`
says that in no query so far there was more than one.

`StayersListedOnce` is claimed while it is calm. One disturbance is noticed by the
count. Two in one batch may cancel out: a row that leaves the part already served
shifts the rest up by one, so that a component nobody touched is skipped, and a row
that comes makes up for it in the count. One save of a listed component is enough, for
its old row is no longer current and its new one is: without `calm`, TLC finds that in
`retrieval_pages` with a single edit (section 6). Any edits between batches, and one
disturbance in every batch (a move into or out of the folders, a deletion, a lost
answer), are within the claim. It is about lists that name a folder
once: the code does not remove repetitions, so a folder named in two batches is listed
twice, and one named twice in one batch is not.

## 4. Runs

| Run | Instance | Shows |
|---|---|---|
| `limiter_reads` | 3 reads, 1 write, 2 clients with opposite configurations, default spacing 2 and 1 read, spacings 1 to 3 (1.1 million states up to symmetry) | `NoLostWakeup`, `BucketExact`, `ConfigOrderIrrelevant`, `ReadsDrain`, `ImplementsBudget` |
| `limiter_writes` | 1 read, 2 writes, the same clients, fair | `SlotsCounted`, `EveryCallSettles` |
| `client_retry` | 2 writes (memory, file), 2 attempts, fair | `SlotsCounted`, `SuccessMeansApplied`, `ImplementsCall`, `WritesDoNotInterleave`, `EveryCallReturns` |
| `client_auth` | two writes, one of them one-shot, and a download | `RejectionsCounted`, `RefusedLocally`, `OneShotSentOnce`, `KindTellsEffect` |
| `client_circuit`, `client_file` | smallest instances | two statements of the documentation the code does not keep (section 6) |
| `retry_pauses` | 9-bit durations, 20 headers, 4 attempts | `PausesBounded`, `HintHonoured` |
| `retry_toolong` | the same | a statement the code does not keep |
| `retrieval_pages` | up to 5 rows, pages of 2, 2 disturbances, chunks of 2; 3 components of 2 versions, lists of up to 3 folders, batches of 2, pages of 1 row, 2 edits and, in each query, up to 2 losses; filters with groups up to three deep over four leaves (205 000 states) | `CompleteOrFail`, `EveryIdAccountedFor`, `StayersListedOnce`, `MeaningKept`, `QueryEnds` |
| `polling_loops` | second of 2 ticks, delays 1 to 5, budget 8, requests up to 2, platform times up to 16 | `OneBudget`, `HonestTimeout`, `LocationKept` |
| `licensing_reports` | 2 callers, 2 classes, perhaps an old report, fair (63 000 states) | `OwnRows`, `WayCleared`, `NothingLeftBehind`, `EveryReportEnds` |
| `account_objects` | 2 clients (one account, two spellings or its partner), 3 goroutines with 2, 1 and 1 requests, 3 entries of 2 processes, two of which request types have room for, nine programs in which every operation takes part (2.6 million states) | `BudgetMatchesTarget`, `RecordsAccounted`, `EntriesKept`, `AccountWritesInOrder` |

Why the bounds suffice:

* Limiter. Two clients in opposite directions give every order of first value and
  tightening; the read limit passes through 1 and 2, so three reads both exceed
  the limit when it is lowered and wait when it is raised. Two writes contend, a
  third would only queue behind the second. Three spacings make a bucket that is
  pushed ahead under a sleeper. `Horizon` is the largest spacing: only whether
  `since` has reached `gap` matters, so the history clock may saturate there.
  Symmetry exchanges calls of one class; the symmetric run checks no liveness.
* Client. Two attempts are one retry; another retry repeats the state of the one
  before with a larger counter. Two writes show exclusion across a back-off,
  three calls the breaker's threshold of two.
* Retry policy. With a second of 5 units and 9 bits the products of the
  headers wrap to negative, short and long durations, as the 64-bit ones do for
  about 10^10 seconds.
* Retrieval. Five rows in pages of two give first, middle and last pages, the
  last one full or not; chunks of two over up to six ids give full and partial chunks.
* Polling. A first delay that is no multiple of a second makes the last step
  overshoot `MaxDelay`; platform times up to twice the budget make every loop
  both succeed and time out, `Log` in either of its two waits.
* Licensing. Two callers can stand in each other's way in every order, and the
  second one stands for any number. Two classes give one that fails next to one
  that succeeds, in both orders.
* Lists. Three folders in batches of two give a full and a partial batch. Three
  components in pages of one row give first, middle and last pages; one of them
  stays while the two others are edited, which is what it takes to lose it. Two
  edits can move a component out of a batch not yet asked for and another one
  into a batch already answered. A group of one inside a group of one is the
  smallest nested collapse; the third level
  collapses what has collapsed already.
* Account. Two goroutines race for one `sync.Once` while a third one's client
  races for the registry. One repeated request shows duplicates, late arrival and a
  replacement that lands twice. Three entries of two processes tell the three
  scopes of an edit apart; the one without a field in the request types shows what a
  request has no room for.

One run of each of `Limiter`, `Client`, `Retrieval`, `Polling`, `Licensing` and
`Account` also checks its type invariant. Some invariants have no run of their own
and are proved (section 5): `SleepBounded`, `GrantsSpaced`, `WriteExclusive` and
`SendsBounded`, whose violation a stronger property of the same run would notice,
`MetadataTypeOK`, and those the proofs modules add for the ends of calls
(`WaitsForHolder`, `CallsWindDown`, `CallersWindDown`).
`UsesBudget` of `Client` has no run either: it is proved from the invariants behind
`SlotsCounted` and `WritesDoNotInterleave`, which the runs check.
A body that cannot seek at all (`"pipe"`) is covered by the proofs only.

Deadlock is checked everywhere but in `account_objects`, which stops when the
calls have returned, all requests have landed and nobody is left to attach. Where a system is done, a stuttering action says
so (`AllReturned`, `GivenUp`, `Returned`, `Ended`);
`Limiter` has `Tick`.

Fairness, where liveness is claimed:

* `Limiter`: each call's steps, since goroutines are scheduled, mutexes of the Go
  runtime are handed over, timers fire, and `Do` and `Download` defer the release;
  and `Tick`. `Cancel` is not fair. Weak fairness per call is enough because two
  writes that contend for one slot finish; a stream of new calls is not modelled,
  against which neither gate gives any order.
* `Client`: each call's steps, and every request on the wire comes back, answered
  or failed (the transport, or the deadline of the caller's context). The late
  arrival of a request and the closing of a body are not fair.
* `Licensing`: each caller's steps, for the reason given for `Client`; that a
  wait ends is `OneBudget` of `Polling`. `Generate` is not fair.
* `Pagination`: the caller's steps. The platform's cursor ends the chain of
  tokens; the code has no bound of its own.

Safety of time (`OneBudget`) needs no fairness: time cannot pass beyond the end
of a pause or of a request.

## 5. Proofs

Every safety property the runs check is a theorem, proved for every value of the
constants that the assumptions allow.

`LimiterProofs` proves, for every finite set of calls, every set of writes among
them, every set of clients, all rates and read limits:

| Theorem | Statement |
|---|---|
| `Typing` | `Spec => []TypeOK` |
| `BucketTiming` | `Spec => [](BucketExact /\ SleepBounded)` |
| `Spacing` | `Spec => GrantsSpaced` |
| `Slots` | `Spec => [](SlotsCounted /\ WriteExclusive)` |
| `WakeUps` | `Spec => []NoLostWakeup` |
| `ConfigOrder` | `Spec => []ConfigOrderIrrelevant` |
| `BoundedReads` | the readers inside never outnumber the loosest limit configured |
| `Draining` | `Spec => ReadsDrain`: while there are more readers inside than a lowered limit allows, readers only leave |
| `Implements` | `Spec => ImplementsBudget`, i.e. `Limiter` refines `AccountBudget` |

Assumptions: those of the constants in `Limiter` (finitely many calls; rates and
limits are naturals, 0 for a value that `Configure` ignores; defaults positive; a
largest read limit exists; no spacing beyond the horizon). `TLC` evaluates them on
every run of the limiter.

Arguments:

* *Timing.* `BucketExact` says that `next` is what is left of `gap` since the last
  grant, and it is inductive together with `TypeOK`: a grant sets both sides to the
  interval, a tick lowers both, nothing else touches either. In particular
  `SetRate` must leave `next` alone. A grant then implies `since >= gap`, which is
  `Spacing`. `SleepBounded`: a sleep is computed from `next`, which is at most a
  spacing somebody asked for, and only shrinks; a sleeper may still find the bucket
  pushed ahead when it wakes, and computes another one.
* *Slots.* `WriteExclusive` is not inductive: that a gate has room says nothing
  about who is inside unless the count is right. `SlotInv` adds `SlotsCounted`, that
  the write limit stays 1, that limits are positive, and `NoLostWakeup`. The last
  one is preserved by `Enter` because a gate that is full has a positive count,
  hence a holder, and by `FreeSlot` because it empties the set of parked calls of
  the class.
* *Refinement.* A step of the limiter maps to a grant, a return, a tick of the
  clock or a stutter. The grant's guard needs all of the above: room for the call
  from `SlotInv` and `ReadsBounded`, the spacing from `BucketExact`.

`ClientProofs` proves, for every finite set of calls, every assignment of bodies
to them, every `MaxAttempts` (0 included) and every positive read limit:

| Theorem | Statement |
|---|---|
| `Typing` | `Spec => []TypeOK` |
| `Slots` | `Spec => []SlotsCounted` |
| `Sends` | `Spec => []SendsBounded` |
| `OneShots` | `Spec => []OneShotSentOnce` |
| `Successes` | `Spec => []SuccessMeansApplied` |
| `WritesInOrder` | `Spec => WritesDoNotInterleave` |
| `Rejections` | `Spec => []RejectionsCounted` |
| `Refusals` | `Spec => []RefusedLocally` |
| `Kinds` | `Spec => []KindTellsEffect` |
| `WindingDown` | `Spec => CallsWindDown`: each step and each answer brings a call nearer to its return, no step sets it back |
| `Waiting` | `Spec => []WaitsForHolder`: who waits for a slot waits for a call that is between its grant and its return |
| `Implements` | `Spec => ImplementsCall`, i.e. `Client` refines `AtLeastOnce` |
| `Uses` | `Spec => UsesBudget`, i.e. `Client` refines `AccountBudget` without its clock |

Assumptions: `CallsAssumption` (finitely many calls, downloads are reads),
`BodyAssumption` (downloads bring no body), `LimitsAssumption`. Argument:

* *Slots.* That a slot count stays a natural number needs to know that whoever
  gives a slot back holds one, so `TypeOK` and `SlotInv` are proved together.
  `SlotInv` adds `WriteExclusive`: the call inside is the only write inside.
* *A call.* `CallInv` says of each call by itself what it has done: where it
  stands decides how many of its attempts were sent (`AttemptInv`), what was
  applied or may still be was sent (`EffectInv`), a body that was read was sent, so
  that the next attempt rewinds it (`BodyInv`), and only a call that is done has
  an outcome (`OutcomeInv`). `Budgeted` is the number of attempts a call has given
  its body, which is where one-shot bodies, pipes and downloads come in.
  `OneAtATime` shows that a step leaves all calls but one alone.
* `WritesInOrder` combines both: a write that sends is inside, so any other write
  is outside, hence before its first request or done. `Rejections` needs
  `OutcomeInv`: the call that is rejected had no outcome before.
* *Errors.* `ErrorInv` relates the outcome of a call to the last answer it got: a
  rejection or a refusal ends the call, so that if its first request met it, that
  request is all there was and had no effect; a busy answer is returned only when
  the budget is used up. `Kinds` follows by going through the error chains and what
  `KindOf` and the predicates make of each.
* `Implements` takes each action to `Try`, `Land`, `Conclude` or a stutter: the
  budget of `Try` is `AttemptInv`, the effect behind `Land` was sent by
  `EffectInv`, a verdict of "ok" has its effect by `Successes`.
* *Ends.* `WindingDown` and `Waiting` are what can be proved here of `EveryCallReturns`.
  `Remaining` counts the steps a call may yet need, four to an attempt it has left;
  that it stays a natural number needs `AttemptInv`, that `NextAttempt` lowers it is
  the bound of the budget. Together they say that a call that does not return waits,
  in the end for the wire, a timer or the scheduler; that these come
  is the fairness of section 4, and what follows from it is for TLC.
* `Uses` takes the step that begins a call's first attempt to `Grant`, whose guard
  is `SlotInv` (a slot count below the limit is room in the gate), each return from
  under the deferred release to `Return`, and everything else, the back-offs
  included, to a stutter. That a call returns its slot once follows from
  `AttemptInv`: a call that is done and has made an attempt has held one.

`RetryPolicyProofs` proves, for every policy, every width of a duration and all
headers:

| Theorem | Statement |
|---|---|
| `Pauses` | `Spec => []PausesBounded` |
| `Hints` | `Spec => []HintHonoured` |

`WrapFits` is the fact about fixed width: a product that fits stays what it is, any
other becomes *some* duration, of which nothing is known. So the bound on a pause
may not depend on the header's value, and it does not: `WaitBounded` cuts at the
ceiling a hint that is positive, `JitterBounded` at `Cap` everything else.
`HintHonoured` is about the headers whose product fits. Assumptions:
`PolicyAssumption` (naturals, `Cap` and the ceiling are durations) and
`PowersAssumption`, that a power of a natural number is one, which the prover
cannot show by induction and TLC evaluates.

`RetrievalProofs` proves of `QueryAll` and `BulkGet`, for every finite set of
rows and every page and chunk size:

| Theorem | Statement |
|---|---|
| `Typing` | `RetrievalSpec => []TypeOK` |
| `Completeness` | `RetrievalSpec => []CompleteOrFail` |
| `Attribution` | `RetrievalSpec => []EveryIdAccountedFor` |

* *Pages.* `CompleteOrFail` says nothing of a query under way. `PageInv` says where
  one is: `Undisturbed`, it has collected the first `cursor` rows of the table it
  began with; after one disturbance, `Settled` (the tokens ended, and the count is
  off or the rows are all there), `PageLost` (fewer rows than the cursor has passed,
  in a table whose size is the count) or `TableChanged` (all rows up to the cursor,
  in a table whose size is not the count). The last two end in a count that is off;
  that the table's size and the rows served move together is what `Finish` relies
  on.
* *Chunks.* `BulkInv` says that what was filed so far is the picks from the verdicts
  so far (`Filed`); a chunk adds its own picks to them (`PickedSplits`), and in the
  end every id has a verdict. `Linked` keeps the two apart: ids are fetched only
  when the query is done.
* *Data.* `Picked` is a recursive function and `InOrder` a `CHOOSE`, so what they
  yield needs induction, of the kind described below (`UpTo`).

`MetadataProofs` proves, for every finite set of components, every list of folders,
every size of a batch, every set of comparisons and every number of levels:

| Theorem | Statement |
|---|---|
| `EncoderKeepsMeaning` | `KeepsMeaning` of every expression that can be built, over every set of rows |
| `FiltersKeepMeaning` | `MetadataSpec => []MeaningKept` |
| `ListTyping` | `MetadataSpec => []MetadataTypeOK` |
| `Stayers` | `MetadataSpec => []StayersListedOnce` |

* *Induction.* The library's induction theorems take an operator as a parameter,
  which the provers cannot instantiate. `UpTo` is the same principle for a set of
  numbers, from the least member of a set (`LeastOne`, by the well-foundedness of
  `<`); each induction here and in `RetrievalProofs` is over the set of the numbers
  for which the claim holds.
* *Trees.* An expression is finite, but the prover knows no induction over
  expressions; so they are taken by levels, and a claim about trees is an induction
  over the levels: a comparison has none, the members of a group have fewer than
  the group. That the recursive functions of the encoder and of the meaning exist
  at all, i.e. that each obeys its own equation on every level, is proved first, by
  the same induction.
* *Encoder.* Well-formed trees are encoded, ill-formed ones refused, by one
  induction each. A group of one stands for its member in either reading, a longer
  group keeps its operator, and a member that is refused makes the group refused. No
  leaf hides behind a collapse since the collapse takes the *encoded* member.
* *Lists.* `ListInv` is `StayersListedOnce` for a list under way: as long as it is
  calm, a component nobody has edited is in what was collected once if its folder is
  among those asked for, and else never. A query that has returned adds to that
  (`Concatenated`): its filter is well-formed, so by `EncoderKeepsMeaning` the
  platform selects what it says; of the rows of a component that is the one of its
  current version at most (`BatchListed`), and its folder is in one batch only, since
  no folder is named twice.
* *Pages.* Within a query (`QueryInv`), as long as nothing went wrong, what was
  collected is what the platform has served of the rows there are (`Smooth`); after
  one row has come or gone or one answer was lost, the rows collected and the count
  can no longer agree at the end (`Shaken`), so that `QueryReturns` refuses
  (`PageCollected`, `RowComesOrGoes`, `TrackShifted`). That an edit which changes no
  selected row leaves the platform's order alone is `ListingStays`.

Assumptions: `ComparisonsAssumption` (comparisons are no groups), `DepthAssumption`,
`BatchAssumption`, `ComponentsAssumption`, `FoldersAssumption`,
`ExpressionsAssumption` (the comparisons of the folder filter are comparisons, two
levels are allowed, and the expressions a caller lists by are built from them).

`LicensingProofs` proves, for every set of callers and every number of classes:

| Theorem | Statement |
|---|---|
| `Typing` | `Spec => []TypeOK` |
| `Rows` | `Spec => []OwnRows` |
| `Clearing` | `Spec => []WayCleared` |
| `Leaving` | `Spec => []NothingLeftBehind` |
| `WindingDown` | `Spec => CallersWindDown`: each step of a caller brings it nearer to its return, nobody else's sets it back |

The invariant says of each caller: what it has merged and noted is of stages behind
the one it is at, and it waits for its own report (`CallerInv`); a merged row is of
its own request, one per stage, of a stage that has not failed (`OwnRowsOf`); when
it has cleared the way, or is about to, nothing but what it clears is in it unless
it was disturbed (`WayInv`); and a report of its own that is outstanding is the one
it waits for or clears away, or it has cleared it away and asks again, unless a
report of it failed (`PendingInv`). That exception is needed: who gives up leaves his
report outstanding. A caller's step touches the others' parts only through the one
report they share (`Apart`, `GoApart`), which is also why nobody can keep another one
going: a caller has four steps to a report (`Remaining`), two for one in its way and
two for its own, and only its own steps count. Assumptions: finitely many callers, and that "no
report" and an old one are no locations (`OldAssumption`).

`PollingProofs` proves, for all delays, budgets, request times and platform
times that the assumptions of `Polling` allow:

| Theorem | Statement |
|---|---|
| `Typing` | `Spec => []TypeOK`; in particular a pause never exceeds `DelayBound` |
| `Budget` | `Spec => []OneBudget` |
| `OneLocation` | `Spec => LocationKept` |
| `Honesty` | `Spec => []HonestTimeout` |

`BudgetInv` ties the clock to what the loop does: a pause begins within the
budget and is at most `DelayBound`, a request follows a pause, and in `Log` a
second request may follow the first. `LocationInv` says that a loop that polls has
its location, and that it is the first one. `Honesty` rests on `SettledIffReady`:
for each loop, the spellings the platform has for "ready" are the ones the loop
takes for an end.

`AccountProofs` proves of the registry, for all clients, goroutines and
configurations:

| Theorem | Statement |
|---|---|
| `RegistryTyping` | `RegistrySpec => []RegistryTypeOK` |
| `Sharing` | `RegistrySpec => []BudgetMatchesTarget` |

`RegistryInv` says that a registry holds each limiter under one key and one per
key, that at most one goroutine is inside a client's `sync.Once`, and what it has
found so far. That the key and the address say the same (`KeyIsAddress`) needs that
`New` accepts partner mode and an override account only together.

and of the write operations, for all calls, operations of the
table and budgets:

| Theorem | Statement |
|---|---|
| `ObjectsTyping` | `ObjectsSpec => []ObjectsTypeOK` |
| `Accounting` | `ObjectsSpec => []RecordsAccounted` |
| `Keeping` | `ObjectsSpec => EntriesKept` |

`CopyInv` is the heart of `Keeping`: what a call read agrees with the object on
every entry in `known`, which a landing that changes the entry takes out of it.
`OperationFacts` is read off the table: what an operation of a wide scope is called,
and that every guarded one needs the confirmation. `Accounting` carries a
confirmation from the check in `Submit` to every later landing of the request: only a
request that was accepted is ever sent.

It proves further that the composition is a behaviour of both parts
(`Composition`), so that their theorems hold in it (`AccountTyping`,
`AccountSharing`, `AccountAccounting`, `AccountKeeping`), and

| Theorem | Statement |
|---|---|
| `WritesOrdered` | `AccountSpec => AccountWritesInOrder` |

which neither part says alone: a call that has sent something is attached
(`Attached`), and two attached calls with one address have one limiter.

Only model-checked: liveness (`EveryCallSettles`, `EveryCallReturns`, `QueryEnds`,
`EveryReportEnds`), which is out of reach of the prover used. Of `EveryCallReturns` and
`EveryReportEnds` the part that is safety is proved, the two `WindingDown`.

The statements of section 6 that are violated are of course not theorems.

## 6. Where code and documentation disagree

Shown by a run that ends in a counterexample:

* `client_circuit`. `client.go:127` says an open circuit fails "locally with zero
  network activity". The breaker is asked once per call, before the wait for the
  limiter; a call that waits or backs off while two others are rejected is sent
  afterwards. So more than two rejected credentials may reach the platform.
* `client_file`. `objects/raw.go:80` says an `os.File` "can be re-sent on retry".
  It is an `io.Closer`, the transport closes it after the first send, the rewind
  fails, and the caller gets an error about the body in place of the platform's.
* `retry_toolong`. `pace.go:356` says a `Retry-After` above the ceiling fails. A
  number of seconds whose product overflows becomes negative (and is ignored) or
  short (and is slept).

Seen while modelling, no run:

* `pace.go:261` calls a gate one that is "never loosened"; the first explicit read
  limit replaces the default even when it is larger. `Configure`'s own comment
  (line 176) says so, and `ConfigOrderIrrelevant` is stated accordingly.
* `pace.go:205` says every request is paced by the bucket; a retry is sent after
  its pause without another turn.
* `client.go:118` says a seeker is rewound and re-sent; `net/http` may still be
  reading the body for the attempt before, in which case the two share an offset
  (`carried = "mixed"` in `Client`).
* `client.go:35` says "the same account in two Clients shares one budget and one
  circuit". It does for one address. A client of an account and a client of its
  partner with that account as override reach the same account under two keys, and
  so do two spellings of a host that differ in more than case and slashes at the
  end (a port, a path); `BudgetMatchesTarget` is stated for addresses.
* `errors.go:58` says an error is transport by its type. A seek on a pipe fails
  with an errno, which has the methods of a `net.Error`, so `KindOf` calls it
  transport although nothing was sent and no repetition will help (`Chains`).
* `objects/doc.go:15` says `QueryAll` never returns partial results with a nil
  error, `objects/query.go:68` that partial results "are never passed off as
  complete". The count check notices every single disturbance (`CompleteOrFail`), not
  two that cancel out, such as a deleted row and a new one. In `CurrentByFolders`
  one component saved between the pages of a batch, whose old row goes and whose new
  one comes, can thereby cost another one that nobody edited, if the platform lists
  the new row on a later page (`StayersListedOnce` without `calm`).
* `objects/doc.go:30-34` says that branch and merge writes "refuse to act" until
  `Confirmed` is set, and `ErrBranchWriteUnconfirmed` (`merge.go:40-45`) says that it
  guards them. `Branches.Create` (line 52), `MergeRequests.Create` (114) and
  `MergeRequests.Delete` (179) ask for no confirmation; only the delete of a branch,
  `Execute` and `Revert` do. `Guarded` in `Objects` leaves the three out.
* `extensions.go:46-48` says the blocks the SDK does not model are kept raw "so
  nothing the platform sends is lost". They are kept on reading;
  `UpdateExtensionsRequest` has no field for them, so that a `FullReplace` built from
  everything `Get` returned deletes process properties, cross references and
  certificates, and the secrets that were masked (`UpdateExtensions(TRUE)`).
* `Schedules.Update` replaces the windows of a process, as its comment says, and
  with them the retry windows `ForProcess` returned: without `MaxRetry` no retry block
  is sent, and with it the block holds the windows.
* A creation or an execution whose answer is lost is sent again like any other write
  and may make two records (`rest.go:63`, through `Do`); no comment says otherwise, and
  `RecordsAccounted` bounds the records of a call by the requests it sent.

## 7. What is not covered

* The parts listed as not modelled in `components` of `PROJECT.json`, with the
  reason for each: pure text handling (the download-URL check, component XML, the
  web server's accessors) and thin services that keep nothing between calls.
* Of `Client`: redirects and re-sends inside `net/http`, headers, escaping of
  URLs, observer events, response bodies (the slot is released when `Do` returns,
  while the caller may still read the body).
* Of `Limiter`: the conversion of a rate from floating point (a tiny rate
  overflows the interval), a clock that is not monotonic, panics.
* Of `Registry`: `ReadConcurrency` (see `Limiter`), the defaults of transport,
  observer and policy. Entries are never removed, in the code as in the model.
* Of `Objects`: how the platform merges a document is external (`Covered`).
* Of `RetryPolicy`: that `Policy.Wait` takes an attempt below one for the first
  (`pace.go:373`). `Do` counts from one, so it is not reached from this client.
* Of `Pagination` and `Metadata`: how the platform really orders rows and keeps
  cursors is external. The batches of `CurrentByFolders` are no snapshot: of a
  component moved in between nothing is claimed. Tables are finite and the cursor
  moves on, so `QueryEnds` says nothing of a platform that hands out tokens without
  end; the code has no bound of its own.
* Of `Errors`: what a conflict or a validation error means after a repeated request.
* Of `Licensing`: the CSV itself, the order of the classes, the budget (see
  `Polling`).
* Pure decoding of JSON, XML and CSV.

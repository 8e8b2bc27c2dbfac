------------------------------- MODULE Client -------------------------------
(***************************************************************************)
(* Client.Do and Client.Download (src/client.go, src/download.go): every   *)
(* call of one account asks the shared breaker, takes a slot of the shared *)
(* limiter, and then drives the send / evaluate / back-off cycle of        *)
(* retryLoop, or the single send of a download, until it returns.          *)
(*                                                                         *)
(* The limiter is taken at the level of AccountBudget (Limiter implements  *)
(* it): a slot per call, one write at a time.  Its timing is left to       *)
(* Limiter, and the length of a back-off to RetryPolicy.                   *)
(*                                                                         *)
(* The platform, the transport and the caller's context are the            *)
(* environment: a request may be applied and its answer lost, it may be    *)
(* applied late, after the call gave up on it, or never.                   *)
(*                                                                         *)
(* An operator named X_Suffix is a faulty variant of X, used only to show  *)
(* that the properties notice the fault.                                   *)
(***************************************************************************)
EXTENDS Integers, FiniteSets

CONSTANTS
    Calls,        \* the calls, one per element
    Writes,       \* those of class Write
    Downloads,    \* calls of Download; the others are calls of Do
    Body,         \* what kind of body each call brings
    MaxAttempts,  \* Policy.MaxAttempts
    MaxReads      \* read concurrency in force

\* "none"; a seeker that is no closer (bytes.Reader); a seeker that is a
\* closer too (os.File); a one-shot stream; a seeker that cannot seek (an
\* os.File on a pipe).
BodyKinds == {"none", "seeker", "file", "stream", "pipe"}

ASSUME CallsAssumption ==
    /\ IsFiniteSet(Calls)
    /\ Writes \subseteq Calls
    /\ Downloads \subseteq Calls \ Writes
ASSUME BodyAssumption ==
    /\ Body \in [Calls -> BodyKinds]
    /\ \A c \in Downloads : Body[c] = "none"
ASSUME LimitsAssumption == MaxAttempts \in Nat /\ MaxReads \in Nat \ {0}

breakerThreshold == 2

Classes == {"Read", "Write"}
Class(c) == IF c \in Writes THEN "Write" ELSE "Read"

VARIABLES
    pc,         \* where each call is
    result,     \* how it returned
    attempt,    \* number of the attempt it is at
    answer,     \* what its latest attempt came back with
    cancelled,  \* calls whose context is done
    slots,      \* slots of the limiter in use, per class
    failures,   \* the breaker's count of auth rejections
    body,       \* per call: has the body been read, closed, is it being read
    sent,       \* history: requests put on the wire
    carried,    \* history: what the latest request carried of the body
    inFlight,   \* requests the platform may still apply late
    applied     \* history: times the platform applied the call

callVars == <<pc, result, attempt, answer>>
wireVars == <<sent, carried, inFlight, applied>>
vars == <<pc, result, attempt, answer, cancelled, slots, failures, body,
          sent, carried, inFlight, applied>>

Active == {"ready", "wire", "answered", "backoff"}
Answers == {"ok", "pending", "auth", "busy", "busyLong", "refused", "lost"}
Results == {"ok", "notReady", "auth", "circuit", "request", "api", "network",
            "cancelled", "body"}

Holders(cl) == {c \in Calls : Class(c) = cl /\ pc[c] \in Active}

TypeOK ==
    /\ pc \in [Calls -> {"start", "acquire", "done"} \cup Active]
    /\ result \in [Calls -> Results \cup {"none"}]
    /\ attempt \in [Calls -> Nat]
    /\ answer \in [Calls -> Answers \cup {"none"}]
    /\ cancelled \in SUBSET Calls
    /\ slots \in [Classes -> Nat]
    /\ failures \in Nat
    /\ body \in [Calls -> [read : BOOLEAN, closed : BOOLEAN, busy : BOOLEAN]]
    /\ sent \in [Calls -> Nat]
    /\ carried \in [Calls -> {"nothing", "whole", "rest", "mixed"}]
    /\ inFlight \in [Calls -> Nat]
    /\ applied \in [Calls -> Nat]

Init ==
    /\ pc = [c \in Calls |-> "start"]
    /\ result = [c \in Calls |-> "none"]
    /\ attempt = [c \in Calls |-> 0]
    /\ answer = [c \in Calls |-> "none"]
    /\ cancelled = {}
    /\ slots = [cl \in Classes |-> 0]
    /\ failures = 0
    /\ body = [c \in Calls |-> [read |-> FALSE, closed |-> FALSE, busy |-> FALSE]]
    /\ sent = [c \in Calls |-> 0]
    /\ carried = [c \in Calls |-> "nothing"]
    /\ inFlight = [c \in Calls |-> 0]
    /\ applied = [c \in Calls |-> 0]

Goto(c, l) == pc' = [pc EXCEPT ![c] = l]

\* Do returns before it holds a slot.
ReturnLocally(c, r) ==
    /\ Goto(c, "done")
    /\ result' = [result EXCEPT ![c] = r]

\* Do returns from under its deferred release.
Return(c, r) ==
    /\ ReturnLocally(c, r)
    /\ slots' = [slots EXCEPT ![Class(c)] = @ - 1]

-----------------------------------------------------------------------------
(* Before the wire *)

CircuitOpen_Early == failures >= breakerThreshold - 1
CircuitOpen == failures >= breakerThreshold

\* Breaker.Allow, asked once, before anything else.
Start(c) ==
    /\ pc[c] = "start"
    /\ IF CircuitOpen
         THEN ReturnLocally(c, "circuit")
         ELSE Goto(c, "acquire") /\ UNCHANGED result
    /\ UNCHANGED <<attempt, answer, cancelled, slots, failures, body, wireVars>>

\* Do and Download refuse a path or an address they cannot make a URL of, after
\* the breaker was asked and before a slot is.
UrlFails(c) ==
    /\ pc[c] = "start"
    /\ ~ CircuitOpen
    /\ ReturnLocally(c, "request")
    /\ UNCHANGED <<attempt, answer, cancelled, slots, failures, body, wireVars>>

\* Limiter.Acquire grants; rewinder then takes the body's offset, which
\* fails, under the deferred release, for a body that cannot seek.
Acquire(c) ==
    /\ pc[c] = "acquire"
    /\ slots[Class(c)] < IF c \in Writes THEN 1 ELSE MaxReads
    /\ IF Body[c] = "pipe"
         THEN ReturnLocally(c, "body") /\ UNCHANGED <<slots, attempt>>
         ELSE /\ Goto(c, "ready")
              /\ slots' = [slots EXCEPT ![Class(c)] = @ + 1]
              /\ attempt' = [attempt EXCEPT ![c] = 1]
              /\ UNCHANGED result
    /\ UNCHANGED <<answer, cancelled, failures, body, wireVars>>

AcquireFails_Releases(c) ==
    /\ pc[c] = "acquire"
    /\ c \in cancelled
    /\ Return(c, "cancelled")
    /\ UNCHANGED <<attempt, answer, cancelled, failures, body, wireVars>>

\* Limiter.Acquire fails: the context is done, nothing is held.
AcquireFails(c) ==
    /\ pc[c] = "acquire"
    /\ c \in cancelled
    /\ ReturnLocally(c, "cancelled")
    /\ UNCHANGED <<attempt, answer, cancelled, slots, failures, body, wireVars>>

-----------------------------------------------------------------------------
(* One attempt *)

Seekable(c) == Body[c] \in {"seeker", "file"}

\* The rewind before every attempt but the first, of a body that has one.
Rewinds_Never(c) == FALSE
Rewinds(c) == attempt[c] > 1 /\ Seekable(c)

\* What the request carries: the transport may still be reading the body on
\* behalf of the attempt before, from under the rewound offset.
Carries(c) ==
    IF body[c].busy THEN "mixed"
    ELSE IF body[c].read /\ ~Rewinds(c) THEN "rest"
    ELSE "whole"

\* retryLoop from the top: rewind (from the second attempt on), build, send.
\* A file the transport has closed cannot be rewound.
Send(c) ==
    /\ pc[c] = "ready"
    /\ ~ (Rewinds(c) /\ body[c].closed)
    /\ Goto(c, "wire")
    /\ sent' = [sent EXCEPT ![c] = @ + 1]
    /\ carried' = [carried EXCEPT ![c] = Carries(c)]
    /\ body' = [body EXCEPT ![c].read = Body[c] # "none"]
    /\ UNCHANGED <<result, attempt, answer, cancelled, slots, failures,
                   inFlight, applied>>

\* No request can be made of what the caller gave (buildRequest): the first
\* attempt tells.
BuildFails(c) ==
    /\ pc[c] = "ready" /\ attempt[c] = 1
    /\ Return(c, "request")
    /\ UNCHANGED <<attempt, answer, cancelled, failures, body, wireVars>>

RewindFails(c) ==
    /\ pc[c] = "ready"
    /\ Rewinds(c) /\ body[c].closed
    /\ Return(c, "body")
    /\ UNCHANGED <<attempt, answer, cancelled, failures, body, wireVars>>

\* httpClient.Do returns a (external).  When it does not end well, the
\* transport may go on reading the request body until it closes it.
Comes(c, a) ==
    /\ pc[c] = "wire"
    /\ Goto(c, "answered")
    /\ answer' = [answer EXCEPT ![c] = a]
    /\ \E b \in BOOLEAN :
         /\ b => a # "ok" /\ Body[c] # "none"
         /\ body' = [body EXCEPT ![c].busy = @ \/ b,
                                 ![c].closed = @ \/ (Body[c] = "file" /\ ~b)]
    /\ UNCHANGED <<result, attempt, cancelled, slots, failures, sent, carried>>

\* The platform answers: a success was applied, an overload or an internal
\* error may have been.
Answer(c) ==
    \E a \in Answers \ {"lost"} :
        /\ a = "pending" => c \in Downloads
        /\ Comes(c, a)
        /\ \/ a \notin {"pending", "auth", "refused"}
              /\ applied' = [applied EXCEPT ![c] = @ + 1]
           \/ a # "ok" /\ UNCHANGED applied
        /\ UNCHANGED inFlight

\* The transport fails: the request is gone, applied, or still under way.
Lose(c) ==
    /\ Comes(c, "lost")
    /\ \/ UNCHANGED <<applied, inFlight>>
       \/ applied' = [applied EXCEPT ![c] = @ + 1] /\ UNCHANGED inFlight
       \/ inFlight' = [inFlight EXCEPT ![c] = @ + 1] /\ UNCHANGED applied

-----------------------------------------------------------------------------
(* evalAttempt and sendDownload *)

MayRetry_AnyBody(c) == c \notin Downloads /\ attempt[c] < MaxAttempts
MayRetry_OneMore(c) ==
    /\ c \notin Downloads
    /\ Body[c] # "stream"
    /\ attempt[c] <= MaxAttempts
\* The attempt is over and another one is worth making.
MayRetry(c) ==
    /\ c \notin Downloads
    /\ Body[c] # "stream"
    /\ attempt[c] < MaxAttempts

EvalSuccess(c) ==
    /\ pc[c] = "answered" /\ answer[c] \in {"ok", "pending"}
    /\ Return(c, IF answer[c] = "ok" THEN "ok" ELSE "notReady")
    /\ UNCHANGED <<attempt, answer, cancelled, failures, body, wireVars>>

\* 401/403: the body is read first, which takes its time, and the breaker
\* hears of the rejection afterwards.
EvalAuth_DownloadForgets(c) ==
    /\ pc[c] = "answered" /\ answer[c] = "auth"
    /\ failures' = IF c \in Downloads THEN failures ELSE failures + 1
    /\ Return(c, "auth")
    /\ UNCHANGED <<attempt, answer, cancelled, body, wireVars>>
EvalAuth(c) ==
    /\ pc[c] = "answered" /\ answer[c] = "auth"
    /\ failures' = failures + 1
    /\ Return(c, "auth")
    /\ UNCHANGED <<attempt, answer, cancelled, body, wireVars>>

BackOff_FreeSlot(c) ==
    /\ Goto(c, "acquire")
    /\ slots' = [slots EXCEPT ![Class(c)] = @ - 1]
    /\ UNCHANGED result
BackOff(c) == Goto(c, "backoff") /\ UNCHANGED <<slots, result>>

\* 429/5xx: retried unless the budget or the body is spent or the platform
\* asks for more patience than the policy has.
EvalBusy(c) ==
    /\ pc[c] = "answered" /\ answer[c] \in {"busy", "busyLong"}
    /\ IF MayRetry(c) /\ answer[c] = "busy"
         THEN BackOff(c)
         ELSE Return(c, "api")
    /\ UNCHANGED <<attempt, answer, cancelled, failures, body, wireVars>>

EvalRefused(c) ==
    /\ pc[c] = "answered" /\ answer[c] = "refused"
    /\ Return(c, "api")
    /\ UNCHANGED <<attempt, answer, cancelled, failures, body, wireVars>>

\* A transport failure: Do never retries the caller's cancellation, Download
\* nothing at all.
EvalLost(c) ==
    /\ pc[c] = "answered" /\ answer[c] = "lost"
    /\ IF c \in cancelled \ Downloads THEN Return(c, "cancelled")
       ELSE IF MayRetry(c) THEN BackOff(c)
       ELSE Return(c, "network")
    /\ UNCHANGED <<attempt, answer, cancelled, failures, body, wireVars>>

\* sleepCtx ends: the next attempt begins, with the slot still held.
NextAttempt(c) ==
    /\ pc[c] = "backoff"
    /\ Goto(c, "ready")
    /\ attempt' = [attempt EXCEPT ![c] = @ + 1]
    /\ UNCHANGED <<result, answer, cancelled, slots, failures, body, wireVars>>

BackOffCancelled_KeepSlot(c) ==
    /\ pc[c] = "backoff"
    /\ c \in cancelled
    /\ ReturnLocally(c, "cancelled")
    /\ UNCHANGED <<attempt, answer, cancelled, slots, failures, body, wireVars>>
BackOffCancelled(c) ==
    /\ pc[c] = "backoff"
    /\ c \in cancelled
    /\ Return(c, "cancelled")
    /\ UNCHANGED <<attempt, answer, cancelled, failures, body, wireVars>>

-----------------------------------------------------------------------------
(* The rest of the environment *)

Cancel(c) ==
    /\ c \notin cancelled
    /\ pc[c] # "done"
    /\ cancelled' = cancelled \cup {c}
    /\ UNCHANGED <<callVars, slots, failures, body, wireVars>>

\* The transport is through with a body it went on reading, and closes it.
TransportDone(c) ==
    /\ body[c].busy
    /\ body' = [body EXCEPT ![c].busy = FALSE,
                            ![c].closed = Body[c] = "file"]
    /\ UNCHANGED <<callVars, cancelled, slots, failures, wireVars>>

\* A request that was given up on reaches the platform after all, or never.
ArriveLate(c) ==
    /\ inFlight[c] > 0
    /\ inFlight' = [inFlight EXCEPT ![c] = @ - 1]
    /\ \/ applied' = [applied EXCEPT ![c] = @ + 1]
       \/ UNCHANGED applied
    /\ UNCHANGED <<callVars, cancelled, slots, failures, body, sent, carried>>

Step(c) ==
    \/ Start(c)
    \/ UrlFails(c)
    \/ Acquire(c)
    \/ AcquireFails(c)
    \/ Send(c)
    \/ BuildFails(c)
    \/ RewindFails(c)
    \/ EvalSuccess(c)
    \/ EvalAuth(c)
    \/ EvalBusy(c)
    \/ EvalRefused(c)
    \/ EvalLost(c)
    \/ NextAttempt(c)
    \/ BackOffCancelled(c)

Environment(c) ==
    \/ Answer(c)
    \/ Lose(c)
    \/ Cancel(c)
    \/ TransportDone(c)
    \/ ArriveLate(c)

\* Nothing is left to do: not a deadlock.
AllReturned ==
    /\ \A c \in Calls : pc[c] = "done"
    /\ UNCHANGED vars

Next ==
    \/ \E c \in Calls : Step(c) \/ Environment(c)
    \/ AllReturned

Spec == Init /\ [][Next]_vars

\* Goroutines are scheduled, and every request comes back: answered, or
\* failed by the transport or by the deadline the caller's context carries.
Fairness ==
    \A c \in Calls : WF_vars(Step(c)) /\ WF_vars(Answer(c) \/ Lose(c))

FairSpec == Spec /\ Fairness

-----------------------------------------------------------------------------
(* Safety *)

\* Every way out of Do and Download gives the slot back exactly once, the
\* cancellation of a back-off and the failure to rewind included.
SlotsCounted == \A cl \in Classes : slots[cl] = Cardinality(Holders(cl))

\* The breaker's count is the number of calls that were rejected: none is
\* missed by one of the two entry points, none is counted twice, and a
\* rejected call has not been rejected before (auth is never retried).
RejectionsCounted ==
    failures = Cardinality({c \in Calls : result[c] = "auth"})

\* No call puts more requests on the wire than the policy allows.
SendsBounded ==
    \A c \in Calls : sent[c] <= IF MaxAttempts > 1 THEN MaxAttempts ELSE 1

\* A call whose body cannot be sent again, or that is a download, puts one
\* request on the wire, so that the platform applies it at most once, late
\* arrivals included.
OneShotSentOnce ==
    \A c \in Calls :
        Body[c] \in {"stream", "pipe"} \/ c \in Downloads =>
            sent[c] <= 1 /\ applied[c] + inFlight[c] <= 1

\* A call that reports success was applied, and its last request did not
\* carry just the unread rest of a body that was sent before.  (It may have
\* carried a body the transport was still reading for the attempt before.)
SuccessMeansApplied ==
    \A c \in Calls :
        result[c] = "ok" => applied[c] >= 1 /\ carried[c] # "rest"

\* A call refused by the open circuit left no trace on the wire, and at the
\* time it asked two calls had been rejected already.
RefusedLocally ==
    \A c \in Calls :
        result[c] = "circuit" =>
            /\ sent[c] = 0 /\ applied[c] = 0
            /\ Cardinality({d \in Calls : result[d] = "auth"}) >= breakerThreshold

-----------------------------------------------------------------------------
(* Action properties *)

\* Between the first request of a write and its return no other write puts
\* a request on the wire, however long the write backs off: a retried write
\* is never overtaken ("retries never widen concurrency").
WritesDoNotInterleave ==
    [][\A c, d \in Writes :
         c # d /\ sent'[d] > sent[d] => sent[c] = 0 \/ pc[c] = "done"]_vars

-----------------------------------------------------------------------------
(* What the documentation says and the code does not keep *)

\* client.go: "once the auth circuit is open, fail locally with zero network
\* activity".
OpenCircuitIsSilent ==
    [][CircuitOpen => sent' = sent]_vars

\* raw.go: a body that implements io.Seeker, os.File among them, "can be
\* re-sent on retry".
SeekerCanBeResent ==
    \A c \in Calls : Seekable(c) => result[c] # "body"

-----------------------------------------------------------------------------
(* What a call comes to *)

\* Requests a call may send: none if its body cannot seek, one if it cannot
\* be sent again or the policy has no retries.
Budgeted(c) ==
    IF Body[c] = "pipe" THEN 0
    ELSE IF c \in Downloads \/ Body[c] = "stream" \/ MaxAttempts <= 1 THEN 1
    ELSE MaxAttempts

\* A result as the caller may rely on it.
Verdict(c) ==
    CASE result[c] = "none" -> "open"
      [] result[c] = "ok" -> "ok"
      [] result[c] = "circuit" -> "refused"
      [] OTHER -> "failed"

AtLeast == INSTANCE AtLeastOnce WITH
    Ordered <- Writes,
    Tries <- [c \in Calls |-> Budgeted(c)],
    outcome <- [c \in Calls |-> Verdict(c)],
    tried <- sent,
    landed <- applied

\* Do and Download keep the promise of AtLeastOnce: the budget of sends, an
\* effect behind every reported success, nothing sent by a refused call, and
\* no write sent between the first request of another and its return.
ImplementsCall == AtLeast!CallsSpec

-----------------------------------------------------------------------------
(* What the limiter sees of the calls *)

HoldsSlot == {c \in Calls : pc[c] \in Active}

\* The budget without its clock, which is the limiter's.
Budget == INSTANCE AccountBudget WITH
    Spacings <- {0},
    Horizon  <- 0,
    since    <- 0,
    gap      <- 0,
    holding  <- HoldsSlot,
    returned <- {c \in Calls : pc[c] = "done" /\ attempt[c] > 0}

\* Do and Download use the account's budget as Limiter keeps it: a call is
\* granted one slot, when there is room for it, keeps it through its retries
\* and back-offs, and having returned it never takes another one.
UsesBudget == Budget!Spec

-----------------------------------------------------------------------------
(* Liveness *)

\* Every call returns: nobody waits for a slot that is not coming back.
EveryCallReturns == \A c \in Calls : <>(pc[c] = "done")
=============================================================================

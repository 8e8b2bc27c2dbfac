------------------------------ MODULE Polling ------------------------------
(***************************************************************************)
(* The loops that wait for the platform to finish something (src/objects): *)
(* pollAsync (async.go) for a token, AwaitRecord (executions.go) for an    *)
(* execution record, awaitDownload (licensing.go) for a report and Log     *)
(* (executions.go), which first waits until its request is accepted and    *)
(* then for the archive behind the location the request returned.          *)
(*                                                                         *)
(* Time is counted in ticks, Second of them in a second.  The platform is  *)
(* the environment: it needs some time from accepting a request to having  *)
(* the result, starts over when it is asked again, and phrases "not yet"   *)
(* and "done" in any of the forms it has.                                  *)
(*                                                                         *)
(* An operator named X_Suffix is a faulty variant of X, used only to show  *)
(* that the properties notice the fault.                                   *)
(***************************************************************************)
EXTENDS Integers

CONSTANTS
    Second,                           \* ticks in a second
    InitialDelay, MaxDelay, MaxWait,  \* AsyncOptions, defaults filled in
    RequestTime,                      \* longest a request takes
    MaxNeeded                         \* longest the platform takes to accept
                                      \* a log request, and to have a result

ASSUME UnitsAssumption ==
    Second \in Nat \ {0} /\ RequestTime \in Nat /\ MaxNeeded \in Nat
ASSUME OptionsAssumption ==
    /\ InitialDelay \in Nat \ {0}
    /\ MaxDelay \in Nat \ {0}
    /\ MaxWait \in Nat \ {0}

Flows == {"async", "record", "report", "log"}
Greater(m, n) == IF m < n THEN n ELSE m

\* The longest delay there can be: the last second may overshoot MaxDelay.
DelayBound == Greater(InitialDelay, MaxDelay + Second - 1)

VARIABLES
    flow,       \* which loop this is
    pc,         \* "post" and "poll": a request is out; "sleep"; "done"
    url,        \* Log has the location of the archive; the others start there
    now,        \* ticks since the loop began
    asked,      \* when the request that is out was sent
    delay,      \* the next pause
    wakeAt,     \* when the pause under way is over
    outcome,    \* how the loop ended
    visibleAt,  \* platform: when the log service knows the execution
    needed,     \* platform: time from accepting a request to the result
    since,      \* platform: when it accepted the latest request
    firstSince, \* history: when it accepted the first one
    heard       \* history: when the latest answer came

clockVars == <<now, asked, delay, wakeAt>>
platformVars == <<visibleAt, needed, since, firstSince>>
vars == <<flow, pc, url, clockVars, outcome, platformVars, heard>>

TypeOK ==
    /\ flow \in Flows
    /\ pc \in {"post", "poll", "sleep", "done"}
    /\ url \in BOOLEAN
    /\ now \in Nat /\ asked \in 0..now /\ wakeAt \in Nat /\ heard \in 0..now
    /\ delay \in 1..DelayBound
    /\ outcome \in {"none", "settled", "timeout", "error", "cancelled"}
    /\ visibleAt \in Nat /\ needed \in Nat
    /\ since \in 0..now /\ firstSince \in 0..now

Init ==
    /\ flow \in Flows
    /\ pc = IF flow = "log" THEN "post" ELSE "poll"
    /\ url = (flow # "log")
    /\ now = 0 /\ asked = 0 /\ wakeAt = 0 /\ heard = 0
    /\ delay = InitialDelay
    /\ outcome = "none"
    /\ visibleAt \in 0..MaxNeeded
    /\ needed \in 0..MaxNeeded
    /\ since = 0 /\ firstSince = 0

Return(o) == pc' = "done" /\ outcome' = o

-----------------------------------------------------------------------------
(* What the platform answers, and what the loops make of it *)

\* The result is there: counted from the first request the platform
\* accepted, and from the latest one.
Ready == now >= since + needed
ReadyAtFirst == heard >= firstSince + needed

\* The forms of an answer: the status code in the body, what its rows are,
\* and whether numberOfResults is present.
Answer(code, rows, counted) == [code |-> code, rows |-> rows, counted |-> counted]

NotYet ==
    CASE flow = "async"  -> {Answer(202, "status", FALSE), Answer(202, "none", FALSE)}
      [] flow = "record" -> {Answer(202, "status", FALSE), Answer(202, "none", FALSE),
                             Answer(200, "none", TRUE), Answer(200, "running", TRUE)}
      [] OTHER           -> {Answer(202, "none", FALSE)}
Done ==
    CASE flow = "async"  -> {Answer(200, "rows", TRUE), Answer(202, "rows", TRUE),
                             Answer(200, "none", TRUE), Answer(202, "none", TRUE)}
      [] flow = "record" -> {Answer(200, "rows", TRUE)}
      [] OTHER           -> {Answer(200, "rows", FALSE)}

PlatformAnswers == IF Ready THEN Done ELSE NotYet

\* What the loops take for a result.
Working(a) == a.code = 202 /\ (a.rows = "status" \/ (a.rows = "none" /\ ~a.counted))
FinalRecord(a) == a.code # 202 /\ a.rows = "rows"
Settled_RowsOnly(a) == IF flow = "record" THEN FinalRecord(a) ELSE a.rows = "rows"
Settled(a) ==
    CASE flow = "async"  -> ~ Working(a)
      [] flow = "record" -> FinalRecord(a)
      [] OTHER           -> a.code # 202

-----------------------------------------------------------------------------
(* The loops *)

\* The budget is looked at after each answer that is no result: one loop has
\* one budget, its waits together.
MayWait_OwnBudget == IF flow = "log" THEN now - since <= MaxWait ELSE now <= MaxWait
MayWait == now <= MaxWait

Pause ==
    IF MayWait
      THEN /\ pc' = "sleep"
           /\ wakeAt' = now + delay
           /\ UNCHANGED outcome
      ELSE Return("timeout") /\ UNCHANGED wakeAt

Poll ==
    /\ pc = "poll"
    /\ heard' = now
    /\ \E a \in PlatformAnswers :
         IF Settled(a) THEN Return("settled") /\ UNCHANGED wakeAt ELSE Pause
    /\ UNCHANGED <<flow, url, now, asked, delay, platformVars>>

\* Log's request is refused until the log service knows the execution.
PostRefused ==
    /\ pc = "post" /\ now < visibleAt
    /\ heard' = now
    /\ Pause
    /\ UNCHANGED <<flow, url, now, asked, delay, platformVars>>

\* The accepted request names the location; polling it starts at once.
PostAccepted ==
    /\ pc = "post" /\ now >= visibleAt
    /\ pc' = "poll"
    /\ url' = TRUE
    /\ asked' = now
    /\ since' = now
    /\ firstSince' = IF url THEN firstSince ELSE now
    /\ UNCHANGED <<flow, now, delay, wakeAt, outcome, visibleAt, needed, heard>>

\* A request fails, or its answer cannot be used.
Fails ==
    /\ pc \in {"post", "poll"}
    /\ Return("error")
    /\ UNCHANGED <<flow, url, clockVars, platformVars, heard>>

\* The delay grows by a second while it is below MaxDelay; Log's does not.
NextDelay_NoCap == IF flow = "log" THEN delay ELSE delay + Second
NextDelay == IF flow # "log" /\ delay < MaxDelay THEN delay + Second ELSE delay

WakeUp_PostAgain ==
    /\ pc = "sleep" /\ now = wakeAt
    /\ pc' = IF flow = "log" THEN "post" ELSE "poll"
    /\ asked' = now
    /\ delay' = NextDelay
    /\ UNCHANGED <<flow, url, now, wakeAt, outcome, platformVars, heard>>
WakeUp ==
    /\ pc = "sleep" /\ now = wakeAt
    /\ pc' = IF url THEN "poll" ELSE "post"
    /\ asked' = now
    /\ delay' = NextDelay
    /\ UNCHANGED <<flow, url, now, wakeAt, outcome, platformVars, heard>>

Cancelled ==
    /\ pc = "sleep"
    /\ Return("cancelled")
    /\ UNCHANGED <<flow, url, clockVars, platformVars, heard>>

\* Time passes while a request is out, up to RequestTime, and in a pause.
Tick ==
    /\ \/ pc \in {"post", "poll"} /\ now < asked + RequestTime
       \/ pc = "sleep" /\ now < wakeAt
    /\ now' = now + 1
    /\ UNCHANGED <<flow, pc, url, asked, delay, wakeAt, outcome, platformVars, heard>>

Returned == pc = "done" /\ UNCHANGED vars

Next ==
    \/ Poll
    \/ PostRefused
    \/ PostAccepted
    \/ Fails
    \/ WakeUp
    \/ Cancelled
    \/ Tick
    \/ Returned

Spec == Init /\ [][Next]_vars

-----------------------------------------------------------------------------
(* Properties *)

\* However a loop goes, it is over within its budget, one more pause and the
\* requests that follow it; Log's two waits share one budget.
OneBudget ==
    /\ pc = "sleep" => now <= MaxWait + DelayBound
    /\ pc \in {"post", "poll", "done"} => now <= MaxWait + DelayBound + 2 * RequestTime

\* Every form of a result is recognised and no form of "not yet" is taken
\* for one, and a loop that gives up has not been kept from a result by its
\* own requests: what the first accepted request asked for was still not
\* there at its last look, and it had looked past its budget.
HonestTimeout ==
    /\ outcome = "settled" => heard >= since + needed
    /\ outcome = "timeout" =>
         heard > MaxWait /\ (IF url THEN ~ReadyAtFirst ELSE heard < visibleAt)

\* A location once received is kept: it is never asked for again.
LocationKept == [][url => since' = since]_vars
=============================================================================

----------------------------- MODULE Licensing -----------------------------
(***************************************************************************)
(* ConnectionReport (src/objects/licensing.go) for several callers of one  *)
(* account: a report for the whole account first, one per connector class  *)
(* when that comes back empty.  Every report is asked for, waited for and  *)
(* parsed; a report somebody never collected is in the way of the next     *)
(* one, and is fetched and thrown away.                                    *)
(*                                                                         *)
(* The platform is the environment: it keeps one outstanding report per    *)
(* account and refuses another until that one is downloaded; it answers    *)
(* "not ready" at a location until the report is generated, which clears   *)
(* nothing, and may serve a collected report again or not.  How long a     *)
(* caller waits is the subject of Polling: here it may stop waiting at any *)
(* point.                                                                  *)
(*                                                                         *)
(* An operator named X_Suffix is a faulty variant of X, used only to show  *)
(* that the properties notice the fault.                                   *)
(***************************************************************************)
EXTENDS Integers, FiniteSets

CONSTANTS
    Callers,     \* calls of ConnectionReport
    Classes,     \* how many connector classes there are
    None, Old    \* no report; a report an earlier process left behind

ASSUME ClassesAssumption == Classes \in Nat
ASSUME CallersAssumption == IsFiniteSet(Callers) /\ None # Old

\* Stage 0 is the unfiltered report, stage n the n-th class; each asks at
\* most twice, and every accepted request gets a location of its own.
Stages == 0..Classes
Urls == [by : Callers, stage : Stages, try : 1..2]

\* None and the report of an earlier process are no locations of these callers.
ASSUME OldAssumption == None \notin Urls /\ Old \notin Urls

VARIABLES
    pc,         \* where each caller is
    stage,      \* which report it is at
    try,        \* its first or second request for that report
    url,        \* the location it waits at, or the one that is in the way
    merged,     \* the reports whose rows it has
    failures,   \* the classes that failed
    outcome,    \* how its call ended
    pending,    \* platform: the outstanding report
    generated,  \* platform: reports that exist and may be asked for
    disturbed   \* history: callers whose clearing was in vain

reportVars == <<stage, try, merged, failures, outcome>>
platformVars == <<pending, generated>>
vars == <<pc, url, reportVars, platformVars, disturbed>>

Reports == Urls \cup {Old}

TypeOK ==
    /\ pc \in [Callers -> {"post", "discard", "await", "done"}]
    /\ stage \in [Callers -> Stages]
    /\ try \in [Callers -> 1..2]
    /\ url \in [Callers -> Reports \cup {None}]
    /\ merged \in [Callers -> SUBSET Reports]
    /\ failures \in [Callers -> SUBSET (Stages \ {0})]
    /\ outcome \in [Callers -> {"none", "rows", "empty", "error"}]
    /\ pending \in Reports \cup {None}
    /\ generated \in SUBSET Reports
    /\ disturbed \in SUBSET Callers

Init ==
    /\ pc = [r \in Callers |-> "post"]
    /\ stage = [r \in Callers |-> 0]
    /\ try = [r \in Callers |-> 1]
    /\ url = [r \in Callers |-> None]
    /\ merged = [r \in Callers |-> {}]
    /\ failures = [r \in Callers |-> {}]
    /\ outcome = [r \in Callers |-> "none"]
    /\ pending \in {None, Old}
    /\ generated \in SUBSET ({Old} \cap {pending})
    /\ disturbed = {}

-----------------------------------------------------------------------------
(* How a report ends: ConnectionReport and reportByClass *)

Return(r, got, failed) ==
    /\ pc' = [pc EXCEPT ![r] = "done"]
    /\ outcome' = [outcome EXCEPT ![r] =
                     IF got # {} THEN "rows"
                     ELSE IF failed # {} THEN "error" ELSE "empty"]
    /\ UNCHANGED <<stage, try>>

NextStage(r) ==
    /\ pc' = [pc EXCEPT ![r] = "post"]
    /\ stage' = [stage EXCEPT ![r] = @ + 1]
    /\ try' = [try EXCEPT ![r] = 1]
    /\ UNCHANGED outcome

\* The reports got, with rows, and the stages that failed, when the report
\* of the present stage is over.
Go(r, got, failed) ==
    /\ merged' = [merged EXCEPT ![r] = got]
    /\ failures' = [failures EXCEPT ![r] = failed \ {0}]
    /\ IF stage[r] = Classes \/ (stage[r] = 0 /\ (got # {} \/ failed # {}))
         THEN Return(r, got, failed)
         ELSE NextStage(r)

ReportFails_NotesStageZero(r) ==
    /\ merged' = merged
    /\ failures' = [failures EXCEPT ![r] = @ \cup {stage[r]}]
    /\ IF stage[r] = Classes THEN Return(r, merged[r], failures'[r]) ELSE NextStage(r)
    /\ url' = [url EXCEPT ![r] = None]
\* An error ends the call when it is the unfiltered report's, and is noted
\* when it is that of a class.
ReportFails(r) ==
    /\ Go(r, merged[r], failures[r] \cup {stage[r]})
    /\ url' = [url EXCEPT ![r] = None]

\* A report without rows adds nothing.
ReportArrives(r, rows) ==
    /\ Go(r, IF rows THEN merged[r] \cup {url[r]} ELSE merged[r], failures[r])
    /\ url' = [url EXCEPT ![r] = None]

-----------------------------------------------------------------------------
(* startReport *)

Location(r) == [by |-> r, stage |-> stage[r], try |-> try[r]]

\* Those who are about to ask again, having cleared the way for r.
Beaten(r) == {c \in Callers \ {r} : pc[c] = "discard" \/ try[c] = 2}

\* The request is accepted; the answer names the location, or it does not,
\* or is lost.
PostAccepted(r) ==
    /\ pc[r] = "post" /\ pending = None
    /\ pending' = Location(r)
    /\ \/ /\ pc' = [pc EXCEPT ![r] = "await"]
          /\ url' = [url EXCEPT ![r] = Location(r)]
          /\ UNCHANGED reportVars
       \/ ReportFails(r)
    /\ disturbed' = disturbed \cup Beaten(r)
    /\ UNCHANGED generated

\* The first refusal names what has to be cleared, a second one fails the
\* report.
Refused(r, stuck) ==
    IF try[r] = 1
      THEN /\ pc' = [pc EXCEPT ![r] = "discard"]
           /\ url' = [url EXCEPT ![r] = stuck]
           /\ UNCHANGED reportVars
      ELSE ReportFails(r)

\* The request is accepted, its answer is lost, and when Do sends it again
\* the platform refuses it because of the very report it has just started.
PostTwice(r) ==
    /\ pc[r] = "post" /\ pending = None
    /\ pending' = Location(r)
    /\ Refused(r, Location(r))
    /\ disturbed' = (disturbed \cup Beaten(r)) \ {r}
    /\ UNCHANGED generated

PostRefused_Reuse(r) ==
    /\ pc[r] = "post" /\ pending # None
    /\ pc' = [pc EXCEPT ![r] = "await"]
    /\ url' = [url EXCEPT ![r] = pending]
    /\ UNCHANGED <<reportVars, platformVars, disturbed>>
\* The request is refused because of the outstanding report.
PostRefused(r) ==
    /\ pc[r] = "post" /\ pending # None
    /\ Refused(r, pending)
    /\ disturbed' = disturbed \ {r}
    /\ UNCHANGED platformVars

\* Any other failure of the request.
PostFails(r) ==
    /\ pc[r] = "post"
    /\ ReportFails(r)
    /\ UNCHANGED <<platformVars, disturbed>>

-----------------------------------------------------------------------------
(* Downloads *)

\* The platform serves a report (external), which then is no longer in the
\* way; another caller may still be waiting for it.  What nobody can ask for
\* any more is forgotten.
Serve(r) ==
    /\ url[r] \in generated
    /\ pending' = IF pending = url[r] THEN None ELSE pending
    /\ generated' = {u \in generated :
                       u = pending' \/ \E c \in Callers \ {r} : url[c] = u}

Discard_Blindly(r) ==
    /\ pc[r] = "discard"
    /\ pc' = [pc EXCEPT ![r] = "post"]
    /\ try' = [try EXCEPT ![r] = 2]
    /\ url' = [url EXCEPT ![r] = None]
    /\ UNCHANGED <<platformVars, stage, merged, failures, outcome, disturbed>>
Discard_AgainAndAgain(r) ==
    /\ pc[r] = "discard"
    /\ Serve(r) \/ (url[r] \notin generated /\ UNCHANGED platformVars)
    /\ pc' = [pc EXCEPT ![r] = "post"]
    /\ url' = [url EXCEPT ![r] = None]
    /\ UNCHANGED <<reportVars, disturbed>>
\* discardDownload: the content is thrown away, "not ready" counts as
\* cleared, and the report is asked for a second time.
Discard(r) ==
    /\ pc[r] = "discard"
    /\ \/ Serve(r)
       \/ url[r] \notin generated /\ UNCHANGED platformVars
    /\ pc' = [pc EXCEPT ![r] = "post"]
    /\ try' = [try EXCEPT ![r] = 2]
    /\ url' = [url EXCEPT ![r] = None]
    /\ disturbed' = IF url[r] \in generated THEN disturbed ELSE disturbed \cup {r}
    /\ UNCHANGED <<stage, merged, failures, outcome>>

DiscardFails(r) ==
    /\ pc[r] = "discard"
    /\ ReportFails(r)
    /\ UNCHANGED <<platformVars, disturbed>>

\* awaitDownload: the report is there, with rows or without.
Collect(r) ==
    /\ pc[r] = "await"
    /\ Serve(r)
    /\ \E rows \in BOOLEAN : ReportArrives(r, rows)
    /\ UNCHANGED disturbed

GiveUp_Empty(r) ==
    /\ pc[r] = "await"
    /\ ReportArrives(r, FALSE)
    /\ UNCHANGED <<platformVars, disturbed>>
\* The budget or the context is over, the download fails (somebody else
\* collected the report, say), or the report cannot be parsed.
GiveUp(r) ==
    /\ pc[r] = "await"
    /\ ReportFails(r)
    /\ UNCHANGED <<platformVars, disturbed>>

\* The platform generates the outstanding report.
Generate ==
    /\ pending # None /\ pending \notin generated
    /\ generated' = {u \in generated : \E r \in Callers : url[r] = u}
                     \cup {pending}
    /\ UNCHANGED <<pc, url, reportVars, pending, disturbed>>

Step(r) ==
    \/ PostAccepted(r)
    \/ PostTwice(r)
    \/ PostRefused(r)
    \/ PostFails(r)
    \/ Discard(r)
    \/ DiscardFails(r)
    \/ Collect(r)
    \/ GiveUp(r)

AllReturned == (\A r \in Callers : pc[r] = "done") /\ UNCHANGED vars

Next ==
    \/ \E r \in Callers : Step(r)
    \/ Generate
    \/ AllReturned

Spec == Init /\ [][Next]_vars

\* Calls return, and nobody waits for ever (Polling: OneBudget).  The
\* platform need not generate anything.
FairSpec == Spec /\ \A r \in Callers : WF_vars(Step(r))

-----------------------------------------------------------------------------
(* Properties *)

\* What a caller returns it asked for itself: no row comes from a report
\* that was in the way, however the callers' requests, refusals and
\* downloads interleave, and each report counts once, for a stage that has
\* not failed as well.
OwnRows ==
    \A r \in Callers : \A u \in merged[r] :
        /\ u \in Urls
        /\ u.by = r /\ u.stage \notin failures[r]
        /\ \A v \in merged[r] : v.stage = u.stage => v = u

\* A caller that fetched what was in its way finds the way free, unless that
\* report was still being generated or another caller's request came first.
WayCleared ==
    \A r \in Callers :
        pc[r] = "post" /\ try[r] = 2 /\ pending # None => r \in disturbed

\* A call that got an answer to everything it asked for leaves no report
\* behind that would be in the way of the next one.
NothingLeftBehind ==
    \A r \in Callers :
        outcome[r] \in {"rows", "empty"} /\ failures[r] = {} /\ pending \in Urls
            => pending.by # r

\* Callers that keep clearing each other's reports away still return.
EveryReportEnds == \A r \in Callers : <>(pc[r] = "done")
=============================================================================

-------------------------- MODULE LicensingProofs --------------------------
(***************************************************************************)
(* Theorems about ConnectionReport, for any number of callers and of       *)
(* connector classes, whatever the platform has left over from before.     *)
(***************************************************************************)
EXTENDS Licensing, TLAPS

USE DEF reportVars, platformVars, Reports, Stages

\* A report of caller r has failed: its call ends with an error, or goes on
\* with a note of it.
Failed(r) == outcome[r] = "error" \/ failures[r] # {}

\* What a caller has so far is of the stages behind it, and it waits for
\* nothing but the report it has asked for itself.
CallerInv(r) ==
    /\ outcome[r] = "none" <=> pc[r] # "done"
    /\ pc[r] = "await" => url[r] = Location(r)
    /\ pc[r] # "done" =>
         /\ \A u \in merged[r] : u \in Urls /\ u.stage < stage[r]
         /\ \A s \in failures[r] : s < stage[r]

\* OwnRows for one caller.
OwnRowsOf(r) ==
    \A u \in merged[r] :
        /\ u \in Urls
        /\ u.by = r /\ u.stage \notin failures[r]
        /\ \A v \in merged[r] : v.stage = u.stage => v = u

\* A caller that is about to clear the way, or has done so, has nothing else
\* in its way, or somebody else's request came first.
WayInv(r) ==
    /\ pc[r] = "post" /\ try[r] = 2 /\ pending # None => r \in disturbed
    /\ pc[r] = "discard" /\ pending \notin {None, url[r]} => r \in disturbed

\* An outstanding report of a caller that has not failed is the one it waits
\* for, or the one that was in its own way.
PendingInv(r) ==
    pending \in Urls /\ pending.by = r =>
        \/ Failed(r)
        \/ pc[r] \in {"await", "discard"} /\ url[r] = pending
        \/ pc[r] = "post" /\ try[r] = 2

Inv ==
    /\ TypeOK
    /\ \A r \in Callers :
         CallerInv(r) /\ OwnRowsOf(r) /\ WayInv(r) /\ PendingInv(r)
-----------------------------------------------------------------------------
(* The end of a report *)

\* What a caller has got and noted may be any of its own stages so far.
Consistent(r, got, failed) ==
    /\ got \subseteq Reports /\ failed \subseteq Stages
    /\ \A u \in got :
         /\ u \in Urls
         /\ u.by = r /\ u.stage <= stage[r] /\ u.stage \notin failed
         /\ \A v \in got : v.stage = u.stage => v = u
    /\ \A s \in failed : s <= stage[r] /\ (s = 0 => stage[r] = 0)

\* Whether the call returns or goes on, what it has got and noted so far is
\* behind it, and a failure shows.
LEMMA GoEnds ==
    ASSUME TypeOK, NEW r \in Callers, CallerInv(r), pc[r] # "done",
           NEW got, NEW failed, Consistent(r, got, failed), Go(r, got, failed)
    PROVE  /\ pc' \in [Callers -> {"post", "discard", "await", "done"}]
           /\ stage' \in [Callers -> Stages] /\ try' \in [Callers -> 1..2]
           /\ merged' \in [Callers -> SUBSET Reports]
           /\ failures' \in [Callers -> SUBSET (Stages \ {0})]
           /\ outcome' \in [Callers -> {"none", "rows", "empty", "error"}]
           /\ pc'[r] = "done" \/ (pc'[r] = "post" /\ try'[r] = 1)
           /\ CallerInv(r)' /\ OwnRowsOf(r)'
           /\ failed # {} => Failed(r)'
<1>1. /\ merged' \in [Callers -> SUBSET Reports]
      /\ failures' \in [Callers -> SUBSET (Stages \ {0})]
      /\ merged'[r] = got /\ failures'[r] = failed \ {0}
  BY DEF Go, TypeOK, Consistent
<1>2. OwnRowsOf(r)'
  BY <1>1 DEF Consistent, OwnRowsOf
<1>3. CASE Return(r, got, failed)
  <2>1. /\ pc' \in [Callers -> {"post", "discard", "await", "done"}]
        /\ outcome' \in [Callers -> {"none", "rows", "empty", "error"}]
        /\ stage' = stage /\ try' = try
        /\ pc'[r] = "done"
        /\ outcome'[r] = IF got # {} THEN "rows"
                         ELSE IF failed # {} THEN "error" ELSE "empty"
    BY <1>3 DEF Return, TypeOK
  <2>2. ASSUME failed # {} PROVE Failed(r)'
    <3>1. CASE failed \ {0} # {}
      BY <3>1, <1>1 DEF Failed
    <3>2. CASE failed \ {0} = {}
      <4>1. failed = {0}
        BY <2>2, <3>2
      <4>2. got = {}
        <5>1. \A u \in got : u.stage \in 0..Classes /\ u.stage <= 0 /\ u.stage # 0
          BY <4>1 DEF Consistent, Urls
        <5> QED
          BY <5>1
      <4> QED
        BY <2>1, <2>2, <4>2 DEF Failed
    <3> QED
      BY <3>1, <3>2
  <2> QED
    BY <1>1, <1>2, <2>1, <2>2 DEF CallerInv, TypeOK
<1>4. CASE /\ NextStage(r) /\ stage[r] # Classes
          /\ ~ (stage[r] = 0 /\ (got # {} \/ failed # {}))
  <2>1. /\ pc' \in [Callers -> {"post", "discard", "await", "done"}]
        /\ try' \in [Callers -> 1..2]
        /\ pc'[r] = "post" /\ try'[r] = 1 /\ stage'[r] = stage[r] + 1
        /\ outcome' = outcome
    BY <1>4 DEF NextStage, TypeOK
  <2>2. stage' \in [Callers -> Stages]
    BY <1>4, ClassesAssumption DEF NextStage, TypeOK
  <2>3. failed # {} => Failed(r)'
    BY <1>1, <1>4 DEF Consistent, Failed
  <2>4. CallerInv(r)'
    <3>1. \A u \in merged'[r] : u \in Urls /\ u.stage < stage'[r]
      BY <1>1, <2>1 DEF Consistent, TypeOK, Urls
    <3>2. \A s \in failures'[r] : s < stage'[r]
      BY <1>1, <2>1 DEF Consistent, TypeOK
    <3> QED
      BY <2>1, <3>1, <3>2 DEF CallerInv
  <2> QED
    BY <1>1, <1>2, <2>1, <2>2, <2>3, <2>4 DEF TypeOK
<1> QED
  BY <1>3, <1>4 DEF Go

\* What the end of a report leaves behind for its caller.
Over(r) ==
    /\ pc' \in [Callers -> {"post", "discard", "await", "done"}]
    /\ stage' \in [Callers -> Stages] /\ try' \in [Callers -> 1..2]
    /\ url' \in [Callers -> Reports \cup {None}]
    /\ merged' \in [Callers -> SUBSET Reports]
    /\ failures' \in [Callers -> SUBSET (Stages \ {0})]
    /\ outcome' \in [Callers -> {"none", "rows", "empty", "error"}]
    /\ pc'[r] = "done" \/ (pc'[r] = "post" /\ try'[r] = 1)
    /\ CallerInv(r)' /\ OwnRowsOf(r)'

LEMMA Fails ==
    ASSUME TypeOK, NEW r \in Callers, CallerInv(r), OwnRowsOf(r), pc[r] # "done",
           ReportFails(r)
    PROVE  Over(r) /\ Failed(r)'
<1> DEFINE failed == failures[r] \cup {stage[r]}
<1>1. Consistent(r, merged[r], failed)
  <2>1. merged[r] \subseteq Reports /\ failed \subseteq Stages
    BY DEF TypeOK
  <2>2. \A u \in merged[r] : u.stage <= stage[r] /\ u.stage \notin failed
    BY DEF CallerInv, OwnRowsOf, TypeOK, Urls
  <2>3. \A s \in failed : s <= stage[r] /\ (s = 0 => stage[r] = 0)
    BY ClassesAssumption DEF CallerInv, TypeOK
  <2> QED
    BY <2>1, <2>2, <2>3 DEF Consistent, OwnRowsOf
<1>2. Go(r, merged[r], failed)
  BY DEF ReportFails
<1>3. url' \in [Callers -> Reports \cup {None}]
  BY DEF ReportFails, TypeOK
<1>4. failed # {}
  OBVIOUS
<1> HIDE DEF failed
<1> QED
  BY <1>1, <1>2, <1>3, <1>4, GoEnds DEF Over

\* The rows of a report are those of the caller's own request, and a failure
\* noted earlier stays noted.
LEMMA Arrives ==
    ASSUME TypeOK, NEW r \in Callers, CallerInv(r), OwnRowsOf(r), pc[r] = "await",
           NEW rows \in BOOLEAN, ReportArrives(r, rows)
    PROVE  Over(r) /\ (Failed(r) => Failed(r)')
<1> DEFINE got == IF rows THEN merged[r] \cup {url[r]} ELSE merged[r]
<1>1. /\ url[r] = Location(r) /\ url[r] \in Urls
      /\ url[r].by = r /\ url[r].stage = stage[r]
  BY DEF CallerInv, Location, TypeOK, Urls
<1>2. Consistent(r, got, failures[r])
  <2>1. got \subseteq Reports /\ failures[r] \subseteq Stages
    BY <1>1 DEF TypeOK
  <2>2. \A u \in merged[r] : u \in Urls /\ u.stage < stage[r]
    BY DEF CallerInv
  <2>3. \A s \in failures[r] : s < stage[r] /\ s # 0
    BY DEF CallerInv, TypeOK
  <2>4. stage[r] \notin failures[r]
    BY <2>3 DEF TypeOK
  <2>5. \A u \in got : u \in Urls /\ u.by = r /\ u.stage <= stage[r]
                       /\ u.stage \notin failures[r]
    BY <1>1, <2>2, <2>4 DEF OwnRowsOf, TypeOK, Urls
  <2>6. \A u, v \in got : v.stage = u.stage => v = u
    BY <1>1, <2>2 DEF OwnRowsOf, TypeOK, Urls
  <2>7. \A s \in failures[r] : s <= stage[r]
    BY <2>3 DEF TypeOK
  <2> QED
    BY <2>1, <2>3, <2>5, <2>6, <2>7 DEF Consistent
<1>3. Go(r, got, failures[r])
  BY DEF ReportArrives
<1>4. url' \in [Callers -> Reports \cup {None}]
  BY DEF ReportArrives, TypeOK
<1>5. Failed(r) => failures[r] # {}
  BY DEF Failed, CallerInv
<1> QED
  BY <1>2, <1>3, <1>4, <1>5, GoEnds DEF Over

-----------------------------------------------------------------------------
(* What a step of one caller means for the others *)

Apart(r) ==
    \A c \in Callers \ {r} :
        /\ pc'[c] = pc[c] /\ stage'[c] = stage[c] /\ try'[c] = try[c]
        /\ url'[c] = url[c] /\ merged'[c] = merged[c]
        /\ failures'[c] = failures[c] /\ outcome'[c] = outcome[c]

LEMMA GoApart ==
    ASSUME TypeOK, NEW r \in Callers, NEW got, NEW failed, Go(r, got, failed)
    PROVE  \A c \in Callers \ {r} :
             /\ pc'[c] = pc[c] /\ stage'[c] = stage[c] /\ try'[c] = try[c]
             /\ merged'[c] = merged[c] /\ failures'[c] = failures[c]
             /\ outcome'[c] = outcome[c]
<1>1. Return(r, got, failed) \/ NextStage(r)
  BY DEF Go
<1> QED
  BY <1>1 DEF Go, Return, NextStage, TypeOK

LEMMA EndsApart ==
    ASSUME TypeOK, NEW r \in Callers,
           ReportFails(r) \/ \E rows \in BOOLEAN : ReportArrives(r, rows)
    PROVE  Apart(r)
BY GoApart DEF ReportFails, ReportArrives, Apart, TypeOK

LEMMA StepApart ==
    ASSUME TypeOK, NEW r \in Callers, Step(r)
    PROVE  Apart(r)
<1> USE DEF Apart, TypeOK
<1>1. CASE PostAccepted(r)
  BY <1>1, EndsApart DEF PostAccepted
<1>2. CASE PostTwice(r)
  BY <1>2, EndsApart DEF PostTwice, Refused
<1>3. CASE PostRefused(r)
  BY <1>3, EndsApart DEF PostRefused, Refused
<1>4. CASE PostFails(r)
  BY <1>4, EndsApart DEF PostFails
<1>5. CASE Discard(r)
  BY <1>5 DEF Discard
<1>6. CASE DiscardFails(r)
  BY <1>6, EndsApart DEF DiscardFails
<1>7. CASE Collect(r)
  BY <1>7, EndsApart DEF Collect
<1>8. CASE GiveUp(r)
  BY <1>8, EndsApart DEF GiveUp
<1> QED
  BY <1>1, <1>2, <1>3, <1>4, <1>5, <1>6, <1>7, <1>8 DEF Step

\* The platform's outstanding report stays, is cleared, or becomes that of
\* the caller that asks; and then everybody who meant to ask has been beaten.
LEMMA Outstanding ==
    ASSUME TypeOK, NEW r \in Callers, Step(r)
    PROVE  /\ pending' \in Reports \cup {None}
           /\ generated' \in SUBSET Reports
           /\ disturbed' \in SUBSET Callers
           /\ disturbed \ {r} \subseteq disturbed'
           /\ \/ pending' = pending
              \/ pending' = None
              \/ pending' = Location(r) /\ Beaten(r) \subseteq disturbed'
<1>1. Location(r) \in Urls
  BY DEF Location, TypeOK, Urls
<1>2. r \notin Beaten(r) /\ Beaten(r) \subseteq Callers
  BY DEF Beaten
<1> USE <1>1, <1>2 DEF TypeOK
<1>3. CASE PostAccepted(r)
  BY <1>3 DEF PostAccepted
<1>4. CASE PostTwice(r)
  BY <1>4 DEF PostTwice
<1>5. CASE PostRefused(r)
  BY <1>5 DEF PostRefused
<1>6. CASE PostFails(r) \/ DiscardFails(r) \/ GiveUp(r)
  BY <1>6 DEF PostFails, DiscardFails, GiveUp
<1>7. CASE Discard(r)
  BY <1>7 DEF Discard, Serve
<1>8. CASE Collect(r)
  BY <1>8 DEF Collect, Serve
<1> QED
  BY <1>3, <1>4, <1>5, <1>6, <1>7, <1>8 DEF Step

LEMMA OthersKeep ==
    ASSUME Inv, NEW r \in Callers, Step(r), NEW c \in Callers \ {r}
    PROVE  CallerInv(c)' /\ OwnRowsOf(c)' /\ WayInv(c)' /\ PendingInv(c)'
<1>1. /\ pc'[c] = pc[c] /\ stage'[c] = stage[c] /\ try'[c] = try[c]
      /\ url'[c] = url[c] /\ merged'[c] = merged[c]
      /\ failures'[c] = failures[c] /\ outcome'[c] = outcome[c]
  BY StepApart DEF Apart, Inv
<1>2. CallerInv(c)' /\ OwnRowsOf(c)'
  BY <1>1 DEF Inv, CallerInv, OwnRowsOf, Location
<1>3. /\ disturbed \ {r} \subseteq disturbed'
      /\ \/ pending' = pending
         \/ pending' = None
         \/ pending' = Location(r) /\ Beaten(r) \subseteq disturbed'
  BY Outstanding DEF Inv
<1>4. WayInv(c)'
  BY <1>1, <1>3 DEF Inv, WayInv, Beaten
<1>5. Location(r).by = r
  BY DEF Location
<1>6. PendingInv(c)'
  BY <1>1, <1>3, <1>5, OldAssumption DEF Inv, PendingInv, Failed
<1> QED
  BY <1>2, <1>4, <1>6

-----------------------------------------------------------------------------
(* The steps of a caller, as far as the caller itself is concerned *)

\* The types of the callers' variables.
Typed ==
    /\ pc' \in [Callers -> {"post", "discard", "await", "done"}]
    /\ stage' \in [Callers -> Stages] /\ try' \in [Callers -> 1..2]
    /\ url' \in [Callers -> Reports \cup {None}]
    /\ merged' \in [Callers -> SUBSET Reports]
    /\ failures' \in [Callers -> SUBSET (Stages \ {0})]
    /\ outcome' \in [Callers -> {"none", "rows", "empty", "error"}]

\* A report that has failed leaves nothing to be cleared.
LEMMA FailedKeeps ==
    ASSUME NEW r \in Callers, Over(r), Failed(r)'
    PROVE  WayInv(r)' /\ PendingInv(r)'
BY DEF Over, WayInv, PendingInv

\* A request is refused because of the report that is then in the way.
LEMMA RefusedKeeps ==
    ASSUME Inv, NEW r \in Callers, pc[r] = "post", pending' \in Reports,
           Refused(r, pending')
    PROVE  Typed /\ CallerInv(r)' /\ OwnRowsOf(r)' /\ WayInv(r)' /\ PendingInv(r)'
<1>1. CASE ReportFails(r)
  <2>1. Over(r) /\ Failed(r)'
    BY <1>1, Fails DEF Inv
  <2> QED
    BY <2>1, FailedKeeps DEF Over, Typed
<1>2. CASE /\ pc' = [pc EXCEPT ![r] = "discard"]
          /\ url' = [url EXCEPT ![r] = pending']
          /\ UNCHANGED reportVars
  <2>1. /\ pc'[r] = "discard" /\ url'[r] = pending'
        /\ Typed
    BY <1>2 DEF Inv, TypeOK, Typed
  <2>2. CallerInv(r)' /\ OwnRowsOf(r)'
    BY <1>2, <2>1 DEF Inv, CallerInv, OwnRowsOf
  <2>3. WayInv(r)' /\ PendingInv(r)'
    BY <2>1 DEF WayInv, PendingInv
  <2> QED
    BY <2>1, <2>2, <2>3
<1> QED
  BY <1>1, <1>2 DEF Refused

LEMMA StepKeepsOwn ==
    ASSUME Inv, NEW r \in Callers, Step(r)
    PROVE  Typed /\ CallerInv(r)' /\ OwnRowsOf(r)' /\ WayInv(r)' /\ PendingInv(r)'
<1> USE DEF Inv
<1>1. Location(r) \in Urls
  BY DEF Location, TypeOK, Urls
<1>2. ASSUME pc[r] # "done", ReportFails(r)
      PROVE  Typed /\ CallerInv(r)' /\ OwnRowsOf(r)' /\ WayInv(r)' /\ PendingInv(r)'
  <2>1. Over(r) /\ Failed(r)'
    BY <1>2, Fails
  <2> QED
    BY <2>1, FailedKeeps DEF Over, Typed
<1>3. CASE PostAccepted(r)
  <2>1. CASE ReportFails(r)
    BY <2>1, <1>2, <1>3 DEF PostAccepted
  <2>2. CASE /\ pc' = [pc EXCEPT ![r] = "await"]
             /\ url' = [url EXCEPT ![r] = Location(r)]
             /\ UNCHANGED reportVars
    <3>1. Typed /\ pc'[r] = "await" /\ url'[r] = Location(r) /\ pending' = Location(r)
      BY <1>1, <1>3, <2>2 DEF PostAccepted, Typed, TypeOK
    <3>2. Location(r)' = Location(r)
      BY <2>2 DEF Location
    <3>3. CallerInv(r)' /\ OwnRowsOf(r)'
      BY <1>3, <2>2, <3>1, <3>2 DEF PostAccepted, CallerInv, OwnRowsOf
    <3>4. WayInv(r)' /\ PendingInv(r)'
      BY <3>1 DEF WayInv, PendingInv
    <3> QED
      BY <3>1, <3>3, <3>4
  <2> QED
    BY <1>3, <2>1, <2>2 DEF PostAccepted
<1>4. CASE PostTwice(r)
  BY <1>1, <1>4, RefusedKeeps DEF PostTwice
<1>5. CASE PostRefused(r)
  BY <1>5, RefusedKeeps DEF PostRefused, TypeOK
<1>6. CASE PostFails(r) \/ DiscardFails(r) \/ GiveUp(r)
  BY <1>2, <1>6 DEF PostFails, DiscardFails, GiveUp
<1>7. CASE Discard(r)
  <2>1. /\ Typed /\ pc[r] = "discard" /\ pc'[r] = "post" /\ try'[r] = 2
        /\ UNCHANGED <<stage, merged, failures, outcome>>
    BY <1>7 DEF Discard, Typed, TypeOK
  <2>2. CallerInv(r)' /\ OwnRowsOf(r)'
    BY <2>1 DEF CallerInv, OwnRowsOf
  <2>3. PendingInv(r)'
    BY <2>1 DEF PendingInv
  <2>4. pending' # None => r \in disturbed'
    <3>1. CASE url[r] \in generated
      <4>1. Serve(r) /\ disturbed' = disturbed
        BY <1>7, <3>1 DEF Discard
      <4> QED
        BY <2>1, <4>1 DEF Serve, WayInv
    <3>2. CASE url[r] \notin generated
      BY <1>7, <3>2 DEF Discard, Serve
    <3> QED
      BY <3>1, <3>2
  <2>5. WayInv(r)'
    BY <2>1, <2>4 DEF WayInv
  <2> QED
    BY <2>1, <2>2, <2>3, <2>5
<1>8. CASE Collect(r)
  <2>1. Over(r) /\ (Failed(r) => Failed(r)')
    BY <1>8, Arrives DEF Collect
  <2>2. WayInv(r)' /\ Typed
    BY <2>1 DEF Over, WayInv, Typed
  <2>3. PendingInv(r)'
    <3> SUFFICES ASSUME pending' \in Urls, pending'.by = r
                 PROVE  Failed(r)'
      BY DEF PendingInv
    <3>1. pending' = pending /\ pending # url[r]
      BY <1>8, OldAssumption DEF Collect, Serve
    <3> QED
      BY <1>8, <2>1, <3>1 DEF Collect, PendingInv
  <2> QED
    BY <2>1, <2>2, <2>3 DEF Over
<1> QED
  BY <1>3, <1>4, <1>5, <1>6, <1>7, <1>8 DEF Step

-----------------------------------------------------------------------------
(* The invariant and what follows from it *)

LEMMA InvHolds == Spec => []Inv
<1>1. Init => Inv
  BY ClassesAssumption, OldAssumption
  DEF Init, Inv, TypeOK, CallerInv, OwnRowsOf, WayInv, PendingInv
<1>2. Inv /\ [Next]_vars => Inv'
  <2> SUFFICES ASSUME Inv, [Next]_vars PROVE Inv'
    OBVIOUS
  <2>1. ASSUME NEW r \in Callers, Step(r) PROVE Inv'
    <3>1. TypeOK'
      BY <2>1, StepKeepsOwn, Outstanding DEF Inv, Typed, TypeOK
    <3> QED
      BY <2>1, <3>1, StepKeepsOwn, OthersKeep DEF Inv
  <2>2. CASE Generate
    BY <2>2 DEF Generate, Inv, TypeOK, CallerInv, OwnRowsOf, WayInv, PendingInv,
                Failed, Location
  <2>3. CASE UNCHANGED vars
    BY <2>3 DEF vars, Inv, TypeOK, CallerInv, OwnRowsOf, WayInv, PendingInv,
                Failed, Location
  <2> QED
    BY <2>1, <2>2, <2>3 DEF Next, AllReturned
<1> QED
  BY <1>1, <1>2, PTL DEF Spec

\* Every variable keeps its type: a caller's stage stays one of the report's,
\* and its record of failures holds classes only.
THEOREM Typing == Spec => []TypeOK
<1>1. Inv => TypeOK
  BY DEF Inv
<1> QED
  BY <1>1, InvHolds, PTL

\* Whatever callers clear away, wait for and collect, a row a caller returns
\* is of a report it asked for itself, once per stage that has not failed.
THEOREM Rows == Spec => []OwnRows
<1>1. Inv => OwnRows
  BY DEF Inv, OwnRowsOf, OwnRows
<1> QED
  BY <1>1, InvHolds, PTL

\* Who fetched what was in its way finds the way free, unless the report was
\* not generated yet or somebody else's request came first.
THEOREM Clearing == Spec => []WayCleared
<1>1. Inv => WayCleared
  BY DEF Inv, WayInv, WayCleared
<1> QED
  BY <1>1, InvHolds, PTL

\* A call whose every report was answered leaves none of its own outstanding.
THEOREM Leaving == Spec => []NothingLeftBehind
<1>1. Inv => NothingLeftBehind
  BY DEF Inv, CallerInv, PendingInv, Failed, NothingLeftBehind
<1> QED
  BY <1>1, InvHolds, PTL

-----------------------------------------------------------------------------
(* Every call comes nearer to its return *)

\* The steps a caller may yet need: four to a report, two of them for a
\* report that is in its way.
Remaining(r) ==
    LET after == 4 * (Classes - stage[r])
    IN CASE pc[r] = "post" -> after + IF try[r] = 1 THEN 4 ELSE 2
         [] pc[r] = "discard" -> after + 3
         [] pc[r] = "await" -> after + 1
         [] pc[r] = "done" -> 0

\* No step sets a caller back: not the platform's, and not that of another
\* caller, whatever it collects or clears away; each step of its own brings
\* it nearer to its return.
CallersWindDown ==
    [][\A r \in Callers :
         /\ Remaining(r)' <= Remaining(r)
         /\ Step(r) => Remaining(r)' < Remaining(r)]_vars

LEMMA RemainingNat ==
    ASSUME TypeOK, NEW r \in Callers
    PROVE  Remaining(r) \in Nat /\ (Remaining(r) = 0 <=> pc[r] = "done")
BY ClassesAssumption DEF TypeOK, Remaining

\* A report that is over ends the call or leads to the first request for the
\* next one.
LEMMA GoAdvances ==
    ASSUME TypeOK, NEW r \in Callers, NEW got, NEW failed, Go(r, got, failed)
    PROVE  \/ pc'[r] = "done"
           \/ pc'[r] = "post" /\ stage'[r] = stage[r] + 1 /\ try'[r] = 1
<1>1. CASE Return(r, got, failed)
  BY <1>1 DEF Return, TypeOK
<1>2. CASE NextStage(r)
  BY <1>2 DEF NextStage, TypeOK
<1> QED
  BY <1>1, <1>2 DEF Go

\* What a step of a caller does to its place.
LEMMA Advances ==
    ASSUME TypeOK, NEW r \in Callers, Step(r)
    PROVE  /\ pc[r] # "done"
           /\ \/ pc'[r] = "done"
              \/ pc'[r] = "post" /\ stage'[r] = stage[r] + 1 /\ try'[r] = 1
              \/ /\ stage'[r] = stage[r]
                 /\ \/ pc[r] = "post" /\ pc'[r] = "await"
                    \/ pc[r] = "post" /\ try[r] = 1 /\ pc'[r] = "discard"
                    \/ pc[r] = "discard" /\ pc'[r] = "post" /\ try'[r] = 2
<1> USE DEF TypeOK
<1>1. CASE PostAccepted(r)
  BY <1>1, GoAdvances DEF PostAccepted, ReportFails
<1>2. CASE PostTwice(r)
  BY <1>2, GoAdvances DEF PostTwice, Refused, ReportFails
<1>3. CASE PostRefused(r)
  BY <1>3, GoAdvances DEF PostRefused, Refused, ReportFails
<1>4. CASE PostFails(r)
  BY <1>4, GoAdvances DEF PostFails, ReportFails
<1>5. CASE Discard(r)
  BY <1>5 DEF Discard
<1>6. CASE DiscardFails(r)
  BY <1>6, GoAdvances DEF DiscardFails, ReportFails
<1>7. CASE Collect(r)
  BY <1>7, GoAdvances DEF Collect, ReportArrives
<1>8. CASE GiveUp(r)
  BY <1>8, GoAdvances DEF GiveUp, ReportFails
<1> QED
  BY <1>1, <1>2, <1>3, <1>4, <1>5, <1>6, <1>7, <1>8 DEF Step

LEMMA AdvanceCounts ==
    ASSUME TypeOK, NEW r \in Callers, Step(r)
    PROVE  Remaining(r)' <= Remaining(r) /\ Remaining(r)' < Remaining(r)
<1>1. CASE pc'[r] = "done" /\ pc[r] # "done"
  <2>1. Remaining(r)' = 0
    BY <1>1 DEF Remaining
  <2> QED
    BY <1>1, <2>1, RemainingNat
<1>2. CASE pc'[r] # "done"
  <2> DEFINE after == 4 * (Classes - stage[r])
             after2 == 4 * (Classes - stage'[r])
  <2>1. /\ pc[r] = "post" => Remaining(r) = after + IF try[r] = 1 THEN 4 ELSE 2
        /\ pc[r] = "discard" => Remaining(r) = after + 3
        /\ pc[r] = "await" => Remaining(r) = after + 1
    BY DEF Remaining
  <2>2. /\ pc'[r] = "post" => Remaining(r)' = after2 + IF try'[r] = 1 THEN 4 ELSE 2
        /\ pc'[r] = "discard" => Remaining(r)' = after2 + 3
        /\ pc'[r] = "await" => Remaining(r)' = after2 + 1
    BY DEF Remaining
  <2>3. /\ after \in Int
        /\ stage'[r] = stage[r] => after2 = after
        /\ stage'[r] = stage[r] + 1 => after2 = after - 4
    BY ClassesAssumption DEF TypeOK
  <2>4. pc[r] \in {"post", "discard", "await", "done"}
    BY DEF TypeOK
  <2> HIDE DEF after, after2
  <2> QED
    BY <1>2, <2>1, <2>2, <2>3, <2>4, Advances
<1> QED
  BY <1>1, <1>2, Advances

\* Callers may keep clearing each other's reports away, but none of them for
\* more than four steps to each report of its own.
THEOREM WindingDown == Spec => CallersWindDown
<1> DEFINE A == \A r \in Callers :
                  /\ Remaining(r)' <= Remaining(r)
                  /\ Step(r) => Remaining(r)' < Remaining(r)
<1>1. TypeOK /\ [Next]_vars => [A]_vars
  <2> SUFFICES ASSUME TypeOK, Next, NEW r \in Callers
               PROVE  /\ Remaining(r)' <= Remaining(r)
                      /\ Step(r) => Remaining(r)' < Remaining(r)
    OBVIOUS
  <2>1. CASE Step(r)
    BY <2>1, AdvanceCounts
  <2>2. CASE ~ Step(r)
    <3>1. pc'[r] = pc[r] /\ stage'[r] = stage[r] /\ try'[r] = try[r]
      <4>1. CASE Generate \/ AllReturned
        BY <4>1 DEF Generate, AllReturned, vars
      <4>2. CASE \E c \in Callers \ {r} : Step(c)
        BY <4>2, StepApart DEF Apart
      <4> QED
        BY <2>2, <4>1, <4>2 DEF Next
    <3>2. Remaining(r)' = Remaining(r)
      BY <3>1 DEF Remaining
    <3> QED
      BY <2>2, <3>2, RemainingNat
  <2> QED
    BY <2>1, <2>2
<1> QED
  BY <1>1, Typing, PTL DEF Spec, CallersWindDown
=============================================================================

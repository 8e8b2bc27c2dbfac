--------------------------- MODULE PollingProofs ---------------------------
(***************************************************************************)
(* Theorems about the polling loops, for every choice of delays, budgets,  *)
(* request times and times the platform needs.                             *)
(***************************************************************************)
EXTENDS Polling, TLAPS

USE DEF clockVars, platformVars, Return

LEMMA DelayFacts ==
    /\ DelayBound \in Nat
    /\ InitialDelay \in 1..DelayBound
    /\ \A d \in 1..DelayBound : d < MaxDelay => d + Second \in 1..DelayBound
BY OptionsAssumption, UnitsAssumption DEF DelayBound, Greater

-----------------------------------------------------------------------------
(* Type correctness *)

\* Every variable keeps its type; in particular no pause is longer than
\* DelayBound, though the delay grows until it has reached MaxDelay.
THEOREM Typing == Spec => []TypeOK
<1>1. Init => TypeOK
  BY DelayFacts, UnitsAssumption DEF Init, TypeOK, Flows
<1>2. TypeOK /\ [Next]_vars => TypeOK'
  <2> SUFFICES ASSUME TypeOK, [Next]_vars PROVE TypeOK'
    OBVIOUS
  <2> USE DEF TypeOK
  <2>1. ASSUME Poll PROVE TypeOK'
    BY <2>1, DelayFacts DEF Poll, Pause
  <2>2. ASSUME PostRefused PROVE TypeOK'
    BY <2>2, DelayFacts DEF PostRefused, Pause
  <2>3. ASSUME PostAccepted PROVE TypeOK'
    BY <2>3 DEF PostAccepted
  <2>4. ASSUME Fails PROVE TypeOK'
    BY <2>4 DEF Fails
  <2>5. ASSUME WakeUp PROVE TypeOK'
    BY <2>5, DelayFacts DEF WakeUp, NextDelay
  <2>6. ASSUME Cancelled PROVE TypeOK'
    BY <2>6 DEF Cancelled
  <2>7. ASSUME Tick PROVE TypeOK'
    BY <2>7 DEF Tick
  <2>8. ASSUME UNCHANGED vars PROVE TypeOK'
    BY <2>8 DEF vars
  <2> QED
    BY <2>1, <2>2, <2>3, <2>4, <2>5, <2>6, <2>7, <2>8 DEF Next, Returned
<1> QED
  BY <1>1, <1>2, PTL DEF Spec

-----------------------------------------------------------------------------
(* The budget *)

\* Where time stands depends on what the loop is doing: a pause begins
\* within the budget, a request follows a pause, and in Log a second request
\* may follow the first.
BudgetInv ==
    /\ pc = "sleep" => now <= wakeAt /\ wakeAt <= MaxWait + DelayBound
    /\ pc \in {"post", "poll"} => now <= asked + RequestTime
    /\ pc = "post" => asked <= MaxWait + DelayBound
    /\ pc = "poll" => asked <= MaxWait + DelayBound + RequestTime
    /\ pc = "done" => now <= MaxWait + DelayBound + 2 * RequestTime

\* No loop outstays its budget by more than one pause and the requests that
\* follow it, whatever the platform answers and when.
THEOREM Budget == Spec => []OneBudget
<1>1. Init => BudgetInv
  BY DelayFacts, UnitsAssumption, OptionsAssumption DEF Init, BudgetInv
<1>2. TypeOK /\ BudgetInv /\ [Next]_vars => BudgetInv'
  <2> SUFFICES ASSUME TypeOK, BudgetInv, [Next]_vars PROVE BudgetInv'
    OBVIOUS
  <2> USE DelayFacts, UnitsAssumption, OptionsAssumption DEF TypeOK, BudgetInv
  <2>1. ASSUME Poll PROVE BudgetInv'
    BY <2>1 DEF Poll, Pause, MayWait
  <2>2. ASSUME PostRefused PROVE BudgetInv'
    BY <2>2 DEF PostRefused, Pause, MayWait
  <2>3. ASSUME PostAccepted PROVE BudgetInv'
    BY <2>3 DEF PostAccepted
  <2>4. ASSUME Fails PROVE BudgetInv'
    BY <2>4 DEF Fails
  <2>5. ASSUME WakeUp PROVE BudgetInv'
    BY <2>5 DEF WakeUp
  <2>6. ASSUME Cancelled PROVE BudgetInv'
    BY <2>6 DEF Cancelled
  <2>7. ASSUME Tick PROVE BudgetInv'
    BY <2>7 DEF Tick
  <2>8. ASSUME UNCHANGED vars PROVE BudgetInv'
    BY <2>8 DEF vars
  <2> QED
    BY <2>1, <2>2, <2>3, <2>4, <2>5, <2>6, <2>7, <2>8 DEF Next, Returned
<1>3. TypeOK /\ BudgetInv => OneBudget
  BY DelayFacts, UnitsAssumption, OptionsAssumption
     DEF TypeOK, BudgetInv, OneBudget
<1> QED
  BY <1>1, <1>2, <1>3, Typing, PTL DEF Spec

-----------------------------------------------------------------------------
(* What a loop concludes *)

\* No answer of a platform that is not ready is taken for a result, and
\* every answer of one that is ready is.
LEMMA SettledIffReady ==
    ASSUME flow \in Flows, NEW a \in PlatformAnswers
    PROVE  Settled(a) <=> Ready
<1>1. CASE Ready
  <2>1. a \in Done
    BY <1>1 DEF PlatformAnswers
  <2>2. Settled(a)
    BY <2>1 DEF Flows, Done, Settled, Working, FinalRecord, Answer
  <2> QED
    BY <1>1, <2>2
<1>2. CASE ~Ready
  <2>1. a \in NotYet
    BY <1>2 DEF PlatformAnswers
  <2>2. ~Settled(a)
    BY <2>1 DEF Flows, NotYet, Settled, Working, FinalRecord, Answer
  <2> QED
    BY <1>2, <2>2
<1> QED
  BY <1>1, <1>2

\* Once the location is known it is the one the first accepted request
\* named, and no other request is made; a loop that goes on has no outcome.
LocationInv ==
    /\ pc = "post" => ~url
    /\ pc = "poll" => url
    /\ url => since = firstSince
    /\ pc # "done" => outcome = "none"

LEMMA LocationInvariance == Spec => [](TypeOK /\ LocationInv)
<1>1. Init => LocationInv
  BY DEF Init, LocationInv
<1>2. TypeOK /\ LocationInv /\ [Next]_vars => LocationInv'
  BY DEF TypeOK, LocationInv, Next, vars, Poll, PostRefused, Pause,
         PostAccepted, Fails, WakeUp, Cancelled, Tick, Returned
<1> QED
  BY <1>1, <1>2, Typing, PTL DEF Spec

\* A download location, once received, is never asked for again, so the
\* generation of a log never starts over.
THEOREM OneLocation == Spec => LocationKept
<1>1. LocationInv /\ [Next]_vars => [url => since' = since]_vars
  BY DEF LocationInv, Next, vars, Poll, PostRefused, PostAccepted, Fails,
         WakeUp, Cancelled, Tick, Returned
<1> QED
  BY <1>1, LocationInvariance, PTL DEF Spec, LocationKept

\* A loop returns a result only if there is one, and gives up only past its
\* budget and only if what it first asked for was not there at its last look.
THEOREM Honesty == Spec => []HonestTimeout
<1>1. Init => HonestTimeout
  BY DEF Init, HonestTimeout
<1>2. TypeOK /\ LocationInv /\ HonestTimeout /\ [Next]_vars => HonestTimeout'
  <2> SUFFICES ASSUME TypeOK, LocationInv, HonestTimeout, [Next]_vars
               PROVE  HonestTimeout'
    OBVIOUS
  <2> USE DEF TypeOK, LocationInv, HonestTimeout, ReadyAtFirst
  <2>1. ASSUME Poll PROVE HonestTimeout'
    <3>1. PICK a \in PlatformAnswers :
            IF Settled(a) THEN Return("settled") /\ UNCHANGED wakeAt ELSE Pause
      BY <2>1 DEF Poll
    <3>2. CASE Settled(a)
      <4>1. Ready
        BY <3>2, SettledIffReady
      <4> QED
        BY <2>1, <3>1, <3>2, <4>1 DEF Poll, Ready
    <3>3. CASE ~Settled(a)
      <4>1. ~Ready
        BY <3>3, SettledIffReady
      <4> QED
        BY <2>1, <3>1, <3>3, <4>1, OptionsAssumption
           DEF Poll, Ready, Pause, MayWait
    <3> QED
      BY <3>2, <3>3
  <2>2. ASSUME PostRefused PROVE HonestTimeout'
    BY <2>2, OptionsAssumption DEF PostRefused, Pause, MayWait
  <2>3. ASSUME PostAccepted PROVE HonestTimeout'
    BY <2>3 DEF PostAccepted
  <2>4. ASSUME Fails PROVE HonestTimeout'
    BY <2>4 DEF Fails
  <2>5. ASSUME WakeUp PROVE HonestTimeout'
    BY <2>5 DEF WakeUp
  <2>6. ASSUME Cancelled PROVE HonestTimeout'
    BY <2>6 DEF Cancelled
  <2>7. ASSUME Tick PROVE HonestTimeout'
    BY <2>7 DEF Tick
  <2>8. ASSUME UNCHANGED vars PROVE HonestTimeout'
    BY <2>8 DEF vars
  <2> QED
    BY <2>1, <2>2, <2>3, <2>4, <2>5, <2>6, <2>7, <2>8 DEF Next, Returned
<1> QED
  BY <1>1, <1>2, LocationInvariance, PTL DEF Spec
=============================================================================

---------------------------- MODULE ClientProofs ----------------------------
(***************************************************************************)
(* Theorems about Do and Download, for every finite set of calls, whatever *)
(* bodies they bring and however often the policy lets them try.           *)
(***************************************************************************)
EXTENDS Errors, FiniteSetTheorems, TLAPS

USE DEF Goto, Classes, Class, Active, Answers, Results, callVars, wireVars

-----------------------------------------------------------------------------
(* Slots *)

LEMMA HoldersFinite ==
    \A cl \in Classes : /\ IsFiniteSet(Holders(cl))
                        /\ Cardinality(Holders(cl)) \in Nat
<1> TAKE cl \in Classes
<1>1. IsFiniteSet(Holders(cl))
  BY CallsAssumption, FS_Subset DEF Holders
<1> QED
  BY <1>1, FS_CardinalityType

\* The limiter's promise about writes, which the count alone does not give.
WriteExclusive == \A c, d \in Holders("Write") : c = d

SlotInv ==
    /\ slots \in [Classes -> Nat]
    /\ SlotsCounted
    /\ WriteExclusive

\* A step that moves no call in or out of its slot keeps the invariant.
LEMMA SameSlots ==
    ASSUME SlotInv, slots' = slots,
           \A cl \in Classes : Holders(cl)' = Holders(cl)
    PROVE  SlotInv'
BY DEF SlotInv, SlotsCounted, WriteExclusive

\* A call that stays where it was in this respect moves no call.
LEMMA StaysActive ==
    ASSUME pc \in [Calls -> {"start", "acquire", "done"} \cup Active],
           NEW c \in Calls, NEW l \in {"start", "acquire", "done"} \cup Active,
           Goto(c, l), pc[c] \in Active <=> l \in Active
    PROVE  \A cl \in Classes : Holders(cl)' = Holders(cl)
BY DEF Holders

\* The deferred release gives one slot back, the one the call holds.
LEMMA ReturnKeepsSlots ==
    ASSUME pc \in [Calls -> {"start", "acquire", "done"} \cup Active],
           SlotInv, NEW c \in Calls, pc[c] \in Active, NEW r, Return(c, r)
    PROVE  SlotInv'
<1>1. /\ Holders(Class(c))' = Holders(Class(c)) \ {c}
      /\ c \in Holders(Class(c))
      /\ \A cl \in Classes \ {Class(c)} : Holders(cl)' = Holders(cl)
  BY DEF Holders, Return, ReturnLocally
<1>2. Cardinality(Holders(Class(c))') = Cardinality(Holders(Class(c))) - 1
  BY <1>1, HoldersFinite, FS_RemoveElement
<1>3. /\ slots'[Class(c)] = slots[Class(c)] - 1
      /\ \A cl \in Classes \ {Class(c)} : slots'[cl] = slots[cl]
      /\ slots' = [slots EXCEPT ![Class(c)] = @ - 1]
  BY DEF Return, SlotInv
<1>4. SlotsCounted'
  BY <1>1, <1>2, <1>3 DEF SlotsCounted, SlotInv
<1>5. Cardinality(Holders(Class(c))') \in Nat
  <2>1. IsFiniteSet(Holders(Class(c))')
    BY <1>1, HoldersFinite, FS_RemoveElement
  <2> QED
    BY <2>1, FS_CardinalityType
<1>6. slots' \in [Classes -> Nat]
  BY <1>3, <1>4, <1>5 DEF SlotInv, SlotsCounted
<1>7. WriteExclusive'
  BY <1>1 DEF WriteExclusive, SlotInv
<1> QED
  BY <1>4, <1>6, <1>7 DEF SlotInv

\* A granted slot is taken by a call that has none, and a write is granted
\* only when no write has one.
LEMMA AcquireKeepsSlots ==
    ASSUME pc \in [Calls -> {"start", "acquire", "done"} \cup Active],
           SlotInv, NEW c \in Calls, Acquire(c)
    PROVE  SlotInv'
<1>1. pc[c] = "acquire"
  BY DEF Acquire
<1>2. CASE Body[c] = "pipe"
  <2>1. Goto(c, "done") /\ slots' = slots
    BY <1>2 DEF Acquire, ReturnLocally
  <2>2. \A cl \in Classes : Holders(cl)' = Holders(cl)
    BY <1>1, <2>1, StaysActive
  <2> QED
    BY <2>1, <2>2, SameSlots
<1>3. CASE Body[c] # "pipe"
  <2>1. /\ pc' = [pc EXCEPT ![c] = "ready"]
        /\ slots' = [slots EXCEPT ![Class(c)] = @ + 1]
        /\ slots[Class(c)] < IF c \in Writes THEN 1 ELSE MaxReads
    BY <1>3 DEF Acquire
  <2>2. /\ Holders(Class(c))' = Holders(Class(c)) \cup {c}
        /\ c \notin Holders(Class(c))
        /\ \A cl \in Classes \ {Class(c)} : Holders(cl)' = Holders(cl)
    BY <1>1, <2>1 DEF Holders
  <2>3. Cardinality(Holders(Class(c))') = Cardinality(Holders(Class(c))) + 1
    BY <2>2, HoldersFinite, FS_AddElement
  <2>4. /\ slots'[Class(c)] = slots[Class(c)] + 1
        /\ \A cl \in Classes \ {Class(c)} : slots'[cl] = slots[cl]
        /\ slots' \in [Classes -> Nat]
    BY <2>1 DEF SlotInv
  <2>5. SlotsCounted'
    BY <2>2, <2>3, <2>4 DEF SlotsCounted, SlotInv
  <2>6. WriteExclusive'
    <3>1. CASE c \in Writes
      <4>1. Cardinality(Holders("Write")) = 0
        BY <3>1, <2>1, HoldersFinite DEF SlotInv, SlotsCounted
      <4>2. Holders("Write") = {}
        BY <4>1, HoldersFinite, FS_EmptySet
      <4> QED
        BY <4>2, <2>2, <3>1 DEF WriteExclusive
    <3>2. CASE c \notin Writes
      BY <3>2, <2>2 DEF WriteExclusive, SlotInv
    <3> QED
      BY <3>1, <3>2
  <2> QED
    BY <2>4, <2>5, <2>6 DEF SlotInv
<1> QED
  BY <1>2, <1>3

-----------------------------------------------------------------------------
(* Types and slots together: that a slot count stays a natural number needs *)
(* to know that whoever returns a slot holds one.                           *)

\* What the small steps say of the function variables.
LEMMA BodyTyped ==
    ASSUME body \in [Calls -> [read : BOOLEAN, closed : BOOLEAN, busy : BOOLEAN]],
           NEW c \in Calls
    PROVE  /\ \A b \in BOOLEAN :
                [body EXCEPT ![c].read = b]
                   \in [Calls -> [read : BOOLEAN, closed : BOOLEAN, busy : BOOLEAN]]
           /\ \A x, y \in BOOLEAN :
                [body EXCEPT ![c].busy = x, ![c].closed = y]
                   \in [Calls -> [read : BOOLEAN, closed : BOOLEAN, busy : BOOLEAN]]
OBVIOUS

LEMMA ComesTyped ==
    ASSUME TypeOK, NEW c \in Calls, NEW a \in Answers, Comes(c, a)
    PROVE  body' \in [Calls -> [read : BOOLEAN, closed : BOOLEAN, busy : BOOLEAN]]
<1>1. PICK b \in BOOLEAN :
        body' = [body EXCEPT ![c].busy = @ \/ b,
                             ![c].closed = @ \/ (Body[c] = "file" /\ ~b)]
  BY DEF Comes
<1> DEFINE x == body[c].busy \/ b
           y == body[c].closed \/ (Body[c] = "file" /\ ~b)
<1>2. body' = [body EXCEPT ![c].busy = x, ![c].closed = y]
  BY <1>1 DEF TypeOK
<1>3. x \in BOOLEAN /\ y \in BOOLEAN
  OBVIOUS
<1> HIDE DEF x, y
<1> QED
  BY <1>2, <1>3, BodyTyped DEF TypeOK

Inv == TypeOK /\ SlotInv

LEMMA StepKeepsInv ==
    ASSUME Inv, NEW c \in Calls, Step(c)
    PROVE  Inv'
<1> USE DEF Inv
<1>0. pc \in [Calls -> {"start", "acquire", "done"} \cup Active]
  BY DEF TypeOK
<1>1. ASSUME Start(c) PROVE Inv'
  <2>1. TypeOK'
    BY <1>1 DEF TypeOK, Start, ReturnLocally
  <2>2. SlotInv'
    BY <1>0, <1>1, SameSlots, StaysActive DEF Start, ReturnLocally
  <2> QED
    BY <2>1, <2>2
<1>2. ASSUME Acquire(c) PROVE Inv'
  <2>1. SlotInv'
    BY <1>0, <1>2, AcquireKeepsSlots
  <2>2. attempt' \in [Calls -> Nat]
    BY <1>2 DEF TypeOK, Acquire
  <2>3. /\ pc' \in [Calls -> {"start", "acquire", "done"} \cup Active]
        /\ result' \in [Calls -> Results \cup {"none"}]
    BY <1>2 DEF TypeOK, Acquire, ReturnLocally
  <2>4. TypeOK'
    BY <1>2, <2>1, <2>2, <2>3 DEF TypeOK, Acquire, SlotInv
  <2> QED
    BY <2>1, <2>4
<1>3. ASSUME AcquireFails(c) PROVE Inv'
  <2>1. TypeOK'
    BY <1>3 DEF TypeOK, AcquireFails, ReturnLocally
  <2>2. SlotInv'
    BY <1>0, <1>3, SameSlots, StaysActive DEF AcquireFails, ReturnLocally
  <2> QED
    BY <2>1, <2>2
<1>4. ASSUME Send(c) PROVE Inv'
  <2>1. body' \in [Calls -> [read : BOOLEAN, closed : BOOLEAN, busy : BOOLEAN]]
    BY <1>4, BodyTyped DEF TypeOK, Send
  <2>2. TypeOK'
    BY <1>4, <2>1 DEF TypeOK, Send, Carries
  <2>3. SlotInv'
    BY <1>0, <1>4, SameSlots, StaysActive DEF Send
  <2> QED
    BY <2>2, <2>3
<1>5. ASSUME RewindFails(c) PROVE Inv'
  <2>1. SlotInv'
    BY <1>0, <1>5, ReturnKeepsSlots DEF RewindFails
  <2>2. TypeOK'
    BY <1>5, <2>1 DEF TypeOK, RewindFails, Return, ReturnLocally, SlotInv
  <2> QED
    BY <2>1, <2>2
<1>6. ASSUME EvalSuccess(c) PROVE Inv'
  <2>1. SlotInv'
    BY <1>0, <1>6, ReturnKeepsSlots DEF EvalSuccess
  <2>2. TypeOK'
    BY <1>6, <2>1 DEF TypeOK, EvalSuccess, Return, ReturnLocally, SlotInv
  <2> QED
    BY <2>1, <2>2
<1>7. ASSUME EvalAuth(c) PROVE Inv'
  <2>1. SlotInv'
    BY <1>0, <1>7, ReturnKeepsSlots DEF EvalAuth
  <2>2. TypeOK'
    BY <1>7, <2>1 DEF TypeOK, EvalAuth, Return, ReturnLocally, SlotInv
  <2> QED
    BY <2>1, <2>2
<1>8. ASSUME NEW r \in Results, pc[c] \in Active,
             BackOff(c) \/ Return(c, r),
             UNCHANGED <<attempt, answer, cancelled, failures, body, wireVars>>
      PROVE  Inv'
  <2>1. SlotInv'
    <3>1. CASE BackOff(c)
      BY <1>0, <1>8, <3>1, SameSlots, StaysActive DEF BackOff
    <3>2. CASE Return(c, r)
      BY <1>0, <1>8, <3>2, ReturnKeepsSlots
    <3> QED
      BY <1>8, <3>1, <3>2
  <2>2. /\ pc' \in [Calls -> {"start", "acquire", "done"} \cup Active]
        /\ result' \in [Calls -> Results \cup {"none"}]
    <3>1. CASE BackOff(c)
      BY <3>1 DEF TypeOK, BackOff
    <3>2. CASE Return(c, r)
      BY <1>8, <3>2 DEF TypeOK, Return, ReturnLocally
    <3> QED
      BY <1>8, <3>1, <3>2
  <2>3. TypeOK'
    BY <1>8, <2>1, <2>2 DEF TypeOK, SlotInv
  <2> QED
    BY <2>1, <2>3
<1>9. ASSUME \/ EvalBusy(c) \/ EvalRefused(c) \/ EvalLost(c)
             \/ BackOffCancelled(c) \/ BuildFails(c)
      PROVE  Inv'
  <2> HIDE DEF Inv
  <2> QED
    BY <1>8, <1>9 DEF EvalBusy, EvalRefused, EvalLost, BackOffCancelled, BuildFails
<1>10. ASSUME NextAttempt(c) PROVE Inv'
  <2>1. TypeOK'
    BY <1>10 DEF TypeOK, NextAttempt
  <2>2. SlotInv'
    BY <1>0, <1>10, SameSlots, StaysActive DEF NextAttempt
  <2> QED
    BY <2>1, <2>2
<1>11. ASSUME UrlFails(c) PROVE Inv'
  <2>1. TypeOK'
    BY <1>11 DEF TypeOK, UrlFails, ReturnLocally
  <2>2. SlotInv'
    BY <1>0, <1>11, SameSlots, StaysActive DEF UrlFails, ReturnLocally
  <2> QED
    BY <2>1, <2>2
<1> QED
  BY <1>1, <1>2, <1>3, <1>4, <1>5, <1>6, <1>7, <1>9, <1>10, <1>11 DEF Step

LEMMA EnvironmentKeepsInv ==
    ASSUME Inv, NEW c \in Calls, Environment(c)
    PROVE  Inv'
<1> USE DEF Inv
<1>0. pc \in [Calls -> {"start", "acquire", "done"} \cup Active]
  BY DEF TypeOK
<1>1. ASSUME NEW a \in Answers, Comes(c, a) PROVE SlotInv'
  BY <1>0, <1>1, SameSlots, StaysActive DEF Comes
<1>2. ASSUME Answer(c) PROVE Inv'
  <2>1. PICK a \in Answers : Comes(c, a)
    BY <1>2 DEF Answer
  <2>2. body' \in [Calls -> [read : BOOLEAN, closed : BOOLEAN, busy : BOOLEAN]]
    BY <2>1, ComesTyped
  <2>3. applied' \in [Calls -> Nat] /\ inFlight' = inFlight
    BY <1>2 DEF Answer, TypeOK
  <2>4. TypeOK'
    BY <2>1, <2>2, <2>3 DEF TypeOK, Comes
  <2> QED
    BY <1>1, <2>1, <2>4
<1>3. ASSUME Lose(c) PROVE Inv'
  <2>1. Comes(c, "lost") /\ "lost" \in Answers
    BY <1>3 DEF Lose
  <2>2. body' \in [Calls -> [read : BOOLEAN, closed : BOOLEAN, busy : BOOLEAN]]
    BY <2>1, ComesTyped
  <2>3. applied' \in [Calls -> Nat] /\ inFlight' \in [Calls -> Nat]
    <3>1. /\ applied \in [Calls -> Nat] /\ inFlight \in [Calls -> Nat]
          /\ [applied EXCEPT ![c] = @ + 1] \in [Calls -> Nat]
          /\ [inFlight EXCEPT ![c] = @ + 1] \in [Calls -> Nat]
      BY DEF TypeOK
    <3> QED
      BY <1>3, <3>1 DEF Lose
  <2>4. TypeOK'
    BY <2>1, <2>2, <2>3 DEF TypeOK, Comes
  <2> QED
    BY <1>1, <2>1, <2>4
<1>4. ASSUME UNCHANGED <<pc, slots>> PROVE SlotInv'
  BY <1>4, SameSlots DEF Holders
<1>5. ASSUME Cancel(c) PROVE Inv'
  BY <1>4, <1>5 DEF Cancel, TypeOK
<1>6. ASSUME TransportDone(c) PROVE Inv'
  <2>1. body' \in [Calls -> [read : BOOLEAN, closed : BOOLEAN, busy : BOOLEAN]]
    <3>1. (Body[c] = "file") \in BOOLEAN
      OBVIOUS
    <3> QED
      BY <1>6, <3>1, BodyTyped DEF TransportDone, TypeOK
  <2> QED
    BY <1>4, <1>6, <2>1 DEF TransportDone, TypeOK
<1>7. ASSUME ArriveLate(c) PROVE Inv'
  BY <1>4, <1>7 DEF ArriveLate, TypeOK
<1> QED
  BY <1>2, <1>3, <1>5, <1>6, <1>7 DEF Environment

LEMMA InvHolds == Spec => []Inv
<1>1. Init => Inv
  <2> SUFFICES ASSUME Init PROVE Inv
    OBVIOUS
  <2>1. \A cl \in Classes : Holders(cl) = {}
    BY DEF Init, Holders
  <2>2. SlotInv
    BY <2>1, FS_EmptySet DEF Init, SlotInv, SlotsCounted, WriteExclusive
  <2> QED
    BY <2>2 DEF Init, TypeOK, Inv
<1>2. Inv /\ [Next]_vars => Inv'
  <2> SUFFICES ASSUME Inv, [Next]_vars PROVE Inv'
    OBVIOUS
  <2>1. ASSUME UNCHANGED vars PROVE Inv'
    BY <2>1, SameSlots DEF vars, Inv, TypeOK, Holders
  <2> QED
    BY <2>1, StepKeepsInv, EnvironmentKeepsInv DEF Next, AllReturned
<1> QED
  BY <1>1, <1>2, PTL DEF Spec

\* Every variable keeps its type; in particular no slot is given back that
\* was not taken, and no request arrives late that was not sent.
THEOREM Typing == Spec => []TypeOK
BY InvHolds, PTL DEF Inv

\* However a call ends, the limiter has as many slots in use as there are
\* calls between their grant and their return.
THEOREM Slots == Spec => []SlotsCounted
BY InvHolds, PTL DEF Inv, SlotInv

-----------------------------------------------------------------------------
(* What a call has done so far                                             *)

\* Where a call stands decides how many of its attempts were sent.
AttemptInv(c) ==
    /\ attempt[c] <= Budgeted(c)
    /\ pc[c] \in {"start", "acquire"} => attempt[c] = 0
    /\ pc[c] \in Active => attempt[c] >= 1
    /\ pc[c] = "ready" => sent[c] = attempt[c] - 1
    /\ pc[c] \in Active \ {"ready"} => sent[c] = attempt[c]
    /\ pc[c] = "backoff" => attempt[c] < Budgeted(c)
    /\ sent[c] <= attempt[c]

\* What the platform applies was sent, and an answer to the request on the
\* wire leaves room for its effect.
EffectInv(c) ==
    /\ applied[c] + inFlight[c] <= sent[c]
    /\ pc[c] = "wire" => applied[c] + inFlight[c] < sent[c]
    /\ pc[c] = "answered" /\ answer[c] = "ok" => applied[c] >= 1
    /\ result[c] = "ok" => applied[c] >= 1

\* A body that was read was sent, so the next attempt rewinds it.
BodyInv(c) ==
    /\ body[c].read => sent[c] >= 1 /\ Body[c] # "none"
    /\ carried[c] # "rest"

OutcomeInv(c) ==
    /\ pc[c] # "done" <=> result[c] = "none"
    /\ result[c] = "circuit" => sent[c] = 0 /\ failures >= breakerThreshold

CallInv(c) == AttemptInv(c) /\ EffectInv(c) /\ BodyInv(c) /\ OutcomeInv(c)

\* Nothing about call d changes, and no rejection is forgotten.
SameCall(d) ==
    /\ pc'[d] = pc[d]
    /\ result'[d] = result[d]
    /\ attempt'[d] = attempt[d]
    /\ answer'[d] = answer[d]
    /\ body'[d] = body[d]
    /\ sent'[d] = sent[d]
    /\ carried'[d] = carried[d]
    /\ inFlight'[d] = inFlight[d]
    /\ applied'[d] = applied[d]

LEMMA SameCallKeeps ==
    ASSUME TypeOK, TypeOK', NEW d \in Calls, CallInv(d), SameCall(d),
           failures' >= failures
    PROVE  CallInv(d)'
<1>1. AttemptInv(d)'
  BY DEF CallInv, AttemptInv, SameCall, Budgeted
<1>2. EffectInv(d)'
  BY DEF CallInv, EffectInv, SameCall
<1>3. BodyInv(d)'
  BY DEF CallInv, BodyInv, SameCall
<1>4. OutcomeInv(d)'
  BY DEF CallInv, OutcomeInv, SameCall, TypeOK, breakerThreshold
<1> QED
  BY <1>1, <1>2, <1>3, <1>4 DEF CallInv

LEMMA OneAtATime ==
    ASSUME TypeOK, NEW c \in Calls, NEW d \in Calls, c # d,
           Step(c) \/ Environment(c)
    PROVE  SameCall(d)
<1> USE DEF TypeOK, SameCall, Return, ReturnLocally, BackOff
<1>1. ASSUME Start(c) PROVE SameCall(d)
  BY <1>1 DEF Start
<1>2. ASSUME Acquire(c) PROVE SameCall(d)
  BY <1>2 DEF Acquire
<1>3. ASSUME AcquireFails(c) PROVE SameCall(d)
  BY <1>3 DEF AcquireFails
<1>4. ASSUME Send(c) PROVE SameCall(d)
  BY <1>4 DEF Send
<1>5. ASSUME RewindFails(c) PROVE SameCall(d)
  BY <1>5 DEF RewindFails
<1>6. ASSUME EvalSuccess(c) PROVE SameCall(d)
  BY <1>6 DEF EvalSuccess
<1>7. ASSUME EvalAuth(c) PROVE SameCall(d)
  BY <1>7 DEF EvalAuth
<1>8. ASSUME EvalBusy(c) PROVE SameCall(d)
  BY <1>8 DEF EvalBusy
<1>9. ASSUME EvalRefused(c) PROVE SameCall(d)
  BY <1>9 DEF EvalRefused
<1>10. ASSUME EvalLost(c) PROVE SameCall(d)
  BY <1>10 DEF EvalLost
<1>11. ASSUME NextAttempt(c) PROVE SameCall(d)
  BY <1>11 DEF NextAttempt
<1>12. ASSUME BackOffCancelled(c) PROVE SameCall(d)
  BY <1>12 DEF BackOffCancelled
<1>13. ASSUME NEW a \in Answers, Comes(c, a)
       PROVE  /\ pc'[d] = pc[d] /\ result'[d] = result[d]
              /\ attempt'[d] = attempt[d] /\ answer'[d] = answer[d]
              /\ body'[d] = body[d] /\ sent'[d] = sent[d]
              /\ carried'[d] = carried[d]
  BY <1>13 DEF Comes
<1>14. ASSUME Answer(c) PROVE SameCall(d)
  <2>1. PICK a \in Answers : Comes(c, a)
    BY <1>14 DEF Answer
  <2>2. applied'[d] = applied[d] /\ inFlight'[d] = inFlight[d]
    BY <1>14 DEF Answer
  <2> QED
    BY <1>13, <2>1, <2>2
<1>15. ASSUME Lose(c) PROVE SameCall(d)
  <2>1. Comes(c, "lost") /\ "lost" \in Answers
    BY <1>15 DEF Lose
  <2>2. applied'[d] = applied[d] /\ inFlight'[d] = inFlight[d]
    BY <1>15 DEF Lose
  <2> QED
    BY <1>13, <2>1, <2>2
<1>16. ASSUME Cancel(c) PROVE SameCall(d)
  BY <1>16 DEF Cancel
<1>17. ASSUME TransportDone(c) PROVE SameCall(d)
  BY <1>17 DEF TransportDone
<1>18. ASSUME ArriveLate(c) PROVE SameCall(d)
  BY <1>18 DEF ArriveLate
<1>19. ASSUME UrlFails(c) PROVE SameCall(d)
  BY <1>19 DEF UrlFails
<1>20. ASSUME BuildFails(c) PROVE SameCall(d)
  BY <1>20 DEF BuildFails
<1> QED
  BY <1>1, <1>2, <1>3, <1>4, <1>5, <1>6, <1>7, <1>8, <1>9, <1>10, <1>11, <1>12,
     <1>14, <1>15, <1>16, <1>17, <1>18, <1>19, <1>20 DEF Step, Environment

LEMMA FailuresGrow ==
    ASSUME TypeOK, NEW c \in Calls, Step(c) \/ Environment(c)
    PROVE  failures' >= failures
BY DEF TypeOK, Step, Environment, Start, UrlFails, Acquire, AcquireFails,
       Send, BuildFails, RewindFails, EvalSuccess, EvalAuth, EvalBusy, EvalRefused, EvalLost,
       NextAttempt, BackOffCancelled, Comes, Answer, Lose, Cancel,
       TransportDone, ArriveLate

LEMMA BudgetFacts ==
    ASSUME NEW c \in Calls
    PROVE  /\ Budgeted(c) \in Nat
           /\ Body[c] # "pipe" => Budgeted(c) >= 1
           /\ Budgeted(c) > 1 => Seekable(c) \/ Body[c] = "none"
           /\ Budgeted(c) > 1 => Budgeted(c) = MaxAttempts
           /\ MayRetry(c) /\ Body[c] # "pipe" /\ MaxAttempts > 1
                => Budgeted(c) = MaxAttempts
BY BodyAssumption, LimitsAssumption
   DEF Budgeted, Seekable, BodyKinds, MayRetry

\* One leaf per part of the invariant, for a step that ends the call.
LEMMA Ends ==
    ASSUME TypeOK, NEW c \in Calls, CallInv(c),
           NEW r \in Results, ReturnLocally(c, r),
           UNCHANGED <<attempt, body, wireVars>>,
           failures' \in Nat, failures' >= failures,
           r = "ok" => applied[c] >= 1,
           r = "circuit" => sent[c] = 0 /\ failures >= breakerThreshold
    PROVE  CallInv(c)'
<1>1. pc'[c] = "done" /\ result'[c] = r
  BY DEF ReturnLocally, TypeOK
<1>2. AttemptInv(c)'
  BY <1>1 DEF CallInv, AttemptInv, Budgeted
<1>3. EffectInv(c)'
  BY <1>1 DEF CallInv, EffectInv
<1>4. BodyInv(c)'
  BY DEF CallInv, BodyInv
<1>5. failures \in Nat /\ breakerThreshold = 2
  BY DEF TypeOK, breakerThreshold
<1>6. OutcomeInv(c)'
  BY <1>1, <1>5 DEF CallInv, OutcomeInv
<1> QED
  BY <1>2, <1>3, <1>4, <1>6 DEF CallInv

\* A step that leaves the wire and the body alone and moves the call on.
LEMMA Moves ==
    ASSUME TypeOK, NEW c \in Calls, CallInv(c),
           NEW l \in {"acquire", "ready", "backoff"}, Goto(c, l),
           pc[c] # "done",
           UNCHANGED <<result, failures, body, wireVars>>,
           AttemptInv(c)'
    PROVE  CallInv(c)'
<1>1. pc'[c] = l
  BY DEF TypeOK
<1>2. EffectInv(c)'
  BY <1>1 DEF CallInv, EffectInv
<1>3. BodyInv(c)'
  BY DEF CallInv, BodyInv
<1>4. OutcomeInv(c)'
  BY <1>1 DEF CallInv, OutcomeInv
<1> QED
  BY <1>2, <1>3, <1>4 DEF CallInv

LEMMA StepKeepsCall ==
    ASSUME TypeOK, TypeOK', NEW c \in Calls, CallInv(c), Step(c)
    PROVE  CallInv(c)'
<1>0. /\ failures \in Nat /\ MaxAttempts \in Nat
      /\ attempt[c] \in Nat /\ sent[c] \in Nat
      /\ applied[c] \in Nat /\ inFlight[c] \in Nat
      /\ Budgeted(c) \in Nat /\ failures' \in Nat
  BY BudgetFacts, LimitsAssumption DEF TypeOK
<1>1. ASSUME Start(c) PROVE CallInv(c)'
  <2>1. CASE CircuitOpen
    <3>1. sent[c] = 0
      BY <1>0, <1>1 DEF Start, CallInv, AttemptInv
    <3> QED
      BY <1>0, <1>1, <2>1, <3>1, Ends DEF Start, CircuitOpen
  <2>2. CASE ~CircuitOpen
    <3>1. Goto(c, "acquire") /\ pc'[c] = "acquire"
      BY <1>1, <2>2 DEF Start, TypeOK
    <3>2. AttemptInv(c)'
      BY <1>1, <3>1 DEF Start, CallInv, AttemptInv, Budgeted
    <3> QED
      BY <1>1, <2>2, <3>1, <3>2, Moves DEF Start
  <2> QED
    BY <2>1, <2>2
<1>2. ASSUME Acquire(c) PROVE CallInv(c)'
  <2>1. CASE Body[c] = "pipe"
    BY <1>0, <1>2, <2>1, Ends DEF Acquire
  <2>2. CASE Body[c] # "pipe"
    <3>1. Goto(c, "ready") /\ pc'[c] = "ready" /\ attempt'[c] = 1
      BY <1>2, <2>2 DEF Acquire, TypeOK
    <3>2. attempt[c] = 0 /\ sent[c] = 0
      BY <1>0, <1>2 DEF Acquire, CallInv, AttemptInv
    <3>3. AttemptInv(c)'
      BY <1>2, <2>2, <3>1, <3>2, BudgetFacts
         DEF Acquire, CallInv, AttemptInv, Budgeted
    <3> QED
      BY <1>2, <2>2, <3>1, <3>3, Moves DEF Acquire
  <2> QED
    BY <2>1, <2>2
<1>3. ASSUME AcquireFails(c) PROVE CallInv(c)'
  BY <1>0, <1>3, Ends DEF AcquireFails
<1>4. ASSUME Send(c) PROVE CallInv(c)'
  <2>1. /\ pc[c] = "ready" /\ pc'[c] = "wire"
        /\ sent'[c] = sent[c] + 1
        /\ carried'[c] = Carries(c)
        /\ body'[c].read = (Body[c] # "none")
        /\ UNCHANGED <<result, attempt, failures, inFlight, applied>>
    BY <1>4 DEF Send, TypeOK
  <2>2. AttemptInv(c)'
    BY <1>0, <2>1 DEF CallInv, AttemptInv, Budgeted
  <2>3. EffectInv(c)'
    BY <1>0, <2>1 DEF CallInv, EffectInv, OutcomeInv
  <2>4. body[c].read => Rewinds(c)
    BY <1>0, <2>1, BudgetFacts
       DEF CallInv, AttemptInv, BodyInv, Rewinds
  <2>5. BodyInv(c)'
    <3>1. Carries(c) # "rest"
      BY <2>4 DEF Carries
    <3>2. sent'[c] >= 1
      BY <1>0, <2>1
    <3> QED
      BY <2>1, <3>1, <3>2 DEF BodyInv
  <2>6. OutcomeInv(c)'
    BY <2>1 DEF CallInv, OutcomeInv
  <2> QED
    BY <2>2, <2>3, <2>5, <2>6 DEF CallInv
<1>5. ASSUME RewindFails(c) PROVE CallInv(c)'
  BY <1>0, <1>5, Ends DEF RewindFails, Return
<1>6. ASSUME EvalSuccess(c) PROVE CallInv(c)'
  BY <1>0, <1>6, Ends DEF EvalSuccess, Return, CallInv, EffectInv
<1>7. ASSUME EvalAuth(c) PROVE CallInv(c)'
  BY <1>0, <1>7, Ends DEF EvalAuth, Return
<1>8. ASSUME BackOff(c), MayRetry(c), pc[c] = "answered",
             UNCHANGED <<attempt, answer, cancelled, failures, body, wireVars>>
      PROVE  CallInv(c)'
  <2>1. Goto(c, "backoff") /\ pc'[c] = "backoff" /\ result' = result
    BY <1>8 DEF BackOff, TypeOK
  <2>2. attempt[c] < Budgeted(c)
    BY <1>0, <1>8 DEF MayRetry, CallInv, AttemptInv, Budgeted
  <2>3. AttemptInv(c)'
    BY <1>8, <2>1, <2>2 DEF CallInv, AttemptInv, Budgeted
  <2> QED
    BY <1>8, <2>1, <2>3, Moves
<1>9. ASSUME NEW r \in Results \ {"ok", "circuit"}, Return(c, r),
             UNCHANGED <<attempt, answer, cancelled, failures, body, wireVars>>
      PROVE  CallInv(c)'
  BY <1>0, <1>9, Ends DEF Return
<1>10. ASSUME \/ EvalBusy(c) \/ EvalRefused(c) \/ EvalLost(c)
              \/ BackOffCancelled(c) \/ BuildFails(c)
       PROVE  CallInv(c)'
  BY <1>8, <1>9, <1>10
     DEF EvalBusy, EvalRefused, EvalLost, BackOffCancelled, BuildFails
<1>11. ASSUME NextAttempt(c) PROVE CallInv(c)'
  <2>1. /\ Goto(c, "ready") /\ pc'[c] = "ready" /\ pc[c] = "backoff"
        /\ attempt'[c] = attempt[c] + 1
    BY <1>11 DEF NextAttempt, TypeOK
  <2>2. AttemptInv(c)'
    BY <1>0, <1>11, <2>1 DEF NextAttempt, CallInv, AttemptInv, Budgeted
  <2> QED
    BY <1>11, <2>1, <2>2, Moves DEF NextAttempt
<1>12. ASSUME UrlFails(c) PROVE CallInv(c)'
  BY <1>0, <1>12, Ends DEF UrlFails
<1> QED
  BY <1>1, <1>2, <1>3, <1>4, <1>5, <1>6, <1>7, <1>10, <1>11, <1>12 DEF Step

LEMMA EnvironmentKeepsCall ==
    ASSUME TypeOK, TypeOK', NEW c \in Calls, CallInv(c), Environment(c)
    PROVE  CallInv(c)'
<1>0. /\ attempt[c] \in Nat /\ sent[c] \in Nat
      /\ applied[c] \in Nat /\ inFlight[c] \in Nat
  BY DEF TypeOK
<1>1. ASSUME NEW a \in Answers, Comes(c, a)
      PROVE  /\ pc[c] = "wire" /\ pc'[c] = "answered" /\ answer'[c] = a
             /\ result[c] = "none" /\ result'[c] = "none"
             /\ AttemptInv(c)' /\ BodyInv(c)' /\ OutcomeInv(c)'
  <2>1. /\ pc[c] = "wire" /\ pc'[c] = "answered" /\ answer'[c] = a
        /\ UNCHANGED <<result, attempt, failures, sent, carried>>
        /\ body'[c].read = body[c].read
    BY <1>1 DEF Comes, TypeOK
  <2>2. result[c] = "none"
    BY <2>1 DEF CallInv, OutcomeInv
  <2>3. AttemptInv(c)'
    BY <2>1 DEF CallInv, AttemptInv, Budgeted
  <2>4. BodyInv(c)' /\ OutcomeInv(c)'
    BY <2>1, <2>2 DEF CallInv, BodyInv, OutcomeInv
  <2> QED
    BY <2>1, <2>2, <2>3, <2>4
<1>2. ASSUME Answer(c) PROVE CallInv(c)'
  <2>1. PICK a \in Answers :
          /\ Comes(c, a)
          /\ \/ applied' = [applied EXCEPT ![c] = @ + 1]
             \/ a # "ok" /\ UNCHANGED applied
          /\ UNCHANGED <<inFlight, sent>>
    BY <1>2 DEF Answer, Comes
  <2>2. /\ applied'[c] = applied[c] + 1 \/ (a # "ok" /\ applied'[c] = applied[c])
        /\ inFlight'[c] = inFlight[c] /\ sent'[c] = sent[c]
    <3>1. [applied EXCEPT ![c] = @ + 1][c] = applied[c] + 1
      BY DEF TypeOK
    <3> QED
      BY <2>1, <3>1
  <2>3. EffectInv(c)'
    BY <1>0, <1>1, <2>1, <2>2 DEF CallInv, EffectInv
  <2> QED
    BY <1>1, <2>1, <2>3 DEF CallInv
<1>3. ASSUME Lose(c) PROVE CallInv(c)'
  <2>1. Comes(c, "lost") /\ "lost" \in Answers
    BY <1>3 DEF Lose
  <2>2. /\ \/ applied'[c] = applied[c] /\ inFlight'[c] = inFlight[c]
           \/ applied'[c] = applied[c] + 1 /\ inFlight'[c] = inFlight[c]
           \/ applied'[c] = applied[c] /\ inFlight'[c] = inFlight[c] + 1
        /\ sent'[c] = sent[c]
    BY <1>3 DEF Lose, Comes, TypeOK
  <2>3. EffectInv(c)'
    BY <1>0, <1>1, <2>1, <2>2 DEF CallInv, EffectInv
  <2> QED
    BY <1>1, <2>1, <2>3 DEF CallInv
<1>4. ASSUME Cancel(c) PROVE CallInv(c)'
  BY <1>4 DEF Cancel, CallInv, AttemptInv, EffectInv, BodyInv, OutcomeInv,
              Budgeted
<1>5. ASSUME TransportDone(c) PROVE CallInv(c)'
  <2>1. body'[c].read = body[c].read
    BY <1>5 DEF TransportDone, TypeOK
  <2> QED
    BY <1>5, <2>1 DEF TransportDone, CallInv, AttemptInv, EffectInv, BodyInv,
                      OutcomeInv, Budgeted
<1>6. ASSUME ArriveLate(c) PROVE CallInv(c)'
  <2>1. /\ inFlight'[c] = inFlight[c] - 1
        /\ applied'[c] = applied[c] + 1 \/ applied'[c] = applied[c]
        /\ UNCHANGED <<callVars, failures, body, sent, carried>>
    BY <1>6 DEF ArriveLate, TypeOK
  <2>2. EffectInv(c)'
    BY <1>0, <2>1 DEF CallInv, EffectInv
  <2> QED
    BY <2>1, <2>2 DEF CallInv, AttemptInv, BodyInv, OutcomeInv, Budgeted
<1> QED
  BY <1>2, <1>3, <1>4, <1>5, <1>6 DEF Environment

LEMMA CallInvHolds == Spec => [](\A c \in Calls : CallInv(c))
<1>1. Init => \A c \in Calls : CallInv(c)
  BY BudgetFacts
     DEF Init, CallInv, AttemptInv, EffectInv, BodyInv, OutcomeInv
<1>2. TypeOK /\ TypeOK' /\ (\A c \in Calls : CallInv(c)) /\ [Next]_vars
        => (\A c \in Calls : CallInv(c))'
  <2> SUFFICES ASSUME TypeOK, TypeOK', \A c \in Calls : CallInv(c),
                      [Next]_vars, NEW d \in Calls
               PROVE  CallInv(d)'
    OBVIOUS
  <2>1. CASE UNCHANGED vars
    BY <2>1 DEF vars, CallInv, AttemptInv, EffectInv, BodyInv, OutcomeInv,
                Budgeted
  <2>2. ASSUME NEW c \in Calls, Step(c) \/ Environment(c)
        PROVE  CallInv(d)'
    <3>1. CASE c = d
      BY <2>2, <3>1, StepKeepsCall, EnvironmentKeepsCall
    <3>2. CASE c # d
      BY <2>2, <3>2, OneAtATime, FailuresGrow, SameCallKeeps
    <3> QED
      BY <3>1, <3>2
  <2> QED
    BY <2>1, <2>2 DEF Next, AllReturned
<1> QED
  BY <1>1, <1>2, Typing, PTL DEF Spec

\* No call sends more often than the policy allows, however its attempts end.
THEOREM Sends == Spec => []SendsBounded
<1>1. TypeOK /\ (\A c \in Calls : CallInv(c)) => SendsBounded
  BY LimitsAssumption
     DEF TypeOK, CallInv, AttemptInv, Budgeted, SendsBounded
<1> QED
  BY <1>1, CallInvHolds, Typing, PTL

\* A body that cannot be sent again is sent once and takes effect at most
\* once, also when the platform hears of it after the call has returned.
THEOREM OneShots == Spec => []OneShotSentOnce
<1>1. TypeOK /\ (\A c \in Calls : CallInv(c)) => OneShotSentOnce
  BY LimitsAssumption
     DEF TypeOK, CallInv, AttemptInv, EffectInv, Budgeted, OneShotSentOnce
<1> QED
  BY <1>1, CallInvHolds, Typing, PTL

\* Success is never reported of a call that had no effect, nor of one whose
\* last request carried only the unread rest of its body.  (That it carried
\* a body read by nobody else is not claimed: see Carries.)
THEOREM Successes == Spec => []SuccessMeansApplied
<1>1. (\A c \in Calls : CallInv(c)) => SuccessMeansApplied
  BY DEF CallInv, EffectInv, BodyInv, SuccessMeansApplied
<1> QED
  BY <1>1, CallInvHolds, PTL

\* While a write is between its first request and its return it holds the
\* one slot there is for writes, and no other write can send.
THEOREM WritesInOrder == Spec => WritesDoNotInterleave
<1> DEFINE A == \A c, d \in Writes :
                  c # d /\ sent'[d] > sent[d] => sent[c] = 0 \/ pc[c] = "done"
<1>1. Inv /\ (\A c \in Calls : CallInv(c)) /\ [Next]_vars => [A]_vars
  <2> SUFFICES ASSUME Inv, \A c \in Calls : CallInv(c), Next,
                      NEW c \in Writes, NEW d \in Writes, c # d,
                      sent'[d] > sent[d]
               PROVE  sent[c] = 0 \/ pc[c] = "done"
    OBVIOUS
  <2>0. c \in Calls /\ d \in Calls /\ sent[d] \in Nat
    BY CallsAssumption DEF Inv, TypeOK
  <2>1. PICK e \in Calls : Step(e) \/ Environment(e)
    BY <2>0 DEF Next, AllReturned, vars
  <2>2. e = d
    BY <2>0, <2>1, OneAtATime DEF SameCall, Inv
  <2>3. pc[d] = "ready"
    BY <2>0, <2>1, <2>2
       DEF Step, Environment, Start, UrlFails, Acquire, AcquireFails, Send,
           BuildFails, RewindFails,
           EvalSuccess, EvalAuth, EvalBusy, EvalRefused, EvalLost,
           NextAttempt, BackOffCancelled, Comes, Answer, Lose, Cancel,
           TransportDone, ArriveLate
  <2>4. pc[c] \notin Active
    BY <2>0, <2>3 DEF Inv, SlotInv, WriteExclusive, Holders
  <2>5. pc[c] = "done" \/ (attempt[c] = 0 /\ sent[c] <= attempt[c])
    BY <2>0, <2>4 DEF Inv, TypeOK, CallInv, AttemptInv
  <2> QED
    BY <2>0, <2>5 DEF Inv, TypeOK
<1> QED
  BY <1>1, InvHolds, CallInvHolds, PTL DEF Spec, WritesDoNotInterleave

-----------------------------------------------------------------------------
(* Every call comes nearer to its return                                   *)

\* The steps of its own and answers a call may yet need: four to an attempt.
Remaining(c) ==
    LET after == 4 * (Budgeted(c) - attempt[c])
    IN CASE pc[c] = "start" -> after + 2
         [] pc[c] = "acquire" -> after + 1
         [] pc[c] = "ready" -> after + 4
         [] pc[c] = "wire" -> after + 3
         [] pc[c] = "answered" -> after + 2
         [] pc[c] = "backoff" -> after + 1
         [] pc[c] = "done" -> 0

\* No step sets a call back, be it another call's, the transport's or the
\* platform's, and each step of Do and each answer brings the call nearer to
\* its return.
CallsWindDown ==
    [][\A c \in Calls :
         /\ Remaining(c)' <= Remaining(c)
         /\ Step(c) \/ Answer(c) \/ Lose(c) => Remaining(c)' < Remaining(c)]_vars

\* The budget is not used up before the call is done with it.
LEMMA RemainingNat ==
    ASSUME TypeOK, NEW c \in Calls, CallInv(c)
    PROVE  Remaining(c) \in Nat /\ (Remaining(c) = 0 <=> pc[c] = "done")
<1>1. /\ Budgeted(c) \in Nat /\ attempt[c] \in Nat
      /\ attempt[c] <= Budgeted(c)
      /\ pc[c] \in {"start", "acquire", "done"} \cup Active
  BY BudgetFacts DEF TypeOK, CallInv, AttemptInv
<1> HIDE DEF Active
<1>2. pc[c] \in {"start", "acquire", "ready", "wire", "answered", "backoff", "done"}
  BY <1>1 DEF Active
<1> QED
  BY <1>1, <1>2 DEF Remaining

\* What a step of a call, or its answer, does to its place and its attempts.
LEMMA Advances ==
    ASSUME TypeOK, NEW c \in Calls, CallInv(c), Step(c) \/ Answer(c) \/ Lose(c)
    PROVE  \/ pc'[c] = "done" /\ pc[c] # "done"
           \/ pc[c] = "start" /\ pc'[c] = "acquire" /\ attempt'[c] = attempt[c]
           \/ pc[c] = "acquire" /\ pc'[c] = "ready" /\ attempt'[c] = attempt[c] + 1
           \/ pc[c] = "ready" /\ pc'[c] = "wire" /\ attempt'[c] = attempt[c]
           \/ pc[c] = "wire" /\ pc'[c] = "answered" /\ attempt'[c] = attempt[c]
           \/ pc[c] = "answered" /\ pc'[c] = "backoff" /\ attempt'[c] = attempt[c]
           \/ pc[c] = "backoff" /\ pc'[c] = "ready" /\ attempt'[c] = attempt[c] + 1
<1> USE DEF TypeOK, Return, ReturnLocally, BackOff
<1>1. CASE Start(c)
  BY <1>1 DEF Start
<1>2. CASE Acquire(c)
  BY <1>2 DEF Acquire, CallInv, AttemptInv
<1>3. CASE AcquireFails(c) \/ RewindFails(c) \/ EvalSuccess(c) \/ EvalAuth(c)
           \/ EvalRefused(c) \/ BackOffCancelled(c) \/ UrlFails(c) \/ BuildFails(c)
  BY <1>3 DEF AcquireFails, RewindFails, EvalSuccess, EvalAuth, EvalRefused,
              BackOffCancelled, UrlFails, BuildFails
<1>4. CASE Send(c)
  BY <1>4 DEF Send
<1>5. CASE EvalBusy(c)
  BY <1>5 DEF EvalBusy
<1>6. CASE EvalLost(c)
  BY <1>6 DEF EvalLost
<1>7. CASE NextAttempt(c)
  BY <1>7 DEF NextAttempt
<1>8. CASE Answer(c) \/ Lose(c)
  BY <1>8 DEF Answer, Lose, Comes
<1> QED
  BY <1>1, <1>2, <1>3, <1>4, <1>5, <1>6, <1>7, <1>8 DEF Step

LEMMA AdvanceCounts ==
    ASSUME TypeOK, TypeOK', NEW c \in Calls, CallInv(c), CallInv(c)',
           Step(c) \/ Answer(c) \/ Lose(c)
    PROVE  Remaining(c)' <= Remaining(c) /\ Remaining(c)' < Remaining(c)
<1>1. Budgeted(c) \in Nat /\ attempt[c] \in Nat /\ Budgeted(c)' = Budgeted(c)
  BY BudgetFacts DEF TypeOK, Budgeted
<1>2. CASE pc'[c] = "done" /\ pc[c] # "done"
  <2>1. Remaining(c)' = 0
    BY <1>2 DEF Remaining
  <2> QED
    BY <1>2, <2>1, RemainingNat
<1>3. CASE ~ (pc'[c] = "done" /\ pc[c] # "done")
  <2> DEFINE after == 4 * (Budgeted(c) - attempt[c])
             after2 == 4 * (Budgeted(c) - attempt'[c])
  <2>1. /\ pc[c] = "start" => Remaining(c) = after + 2
        /\ pc[c] = "acquire" => Remaining(c) = after + 1
        /\ pc[c] = "ready" => Remaining(c) = after + 4
        /\ pc[c] = "wire" => Remaining(c) = after + 3
        /\ pc[c] = "answered" => Remaining(c) = after + 2
        /\ pc[c] = "backoff" => Remaining(c) = after + 1
    BY DEF Remaining
  <2>2. /\ pc'[c] = "acquire" => Remaining(c)' = after2 + 1
        /\ pc'[c] = "ready" => Remaining(c)' = after2 + 4
        /\ pc'[c] = "wire" => Remaining(c)' = after2 + 3
        /\ pc'[c] = "answered" => Remaining(c)' = after2 + 2
        /\ pc'[c] = "backoff" => Remaining(c)' = after2 + 1
    BY <1>1 DEF Remaining
  <2>3. /\ after \in Int
        /\ attempt'[c] = attempt[c] => after2 = after
        /\ attempt'[c] = attempt[c] + 1 => after2 = after - 4
    BY <1>1
  <2> HIDE DEF after, after2
  <2> QED
    BY <1>3, <2>1, <2>2, <2>3, Advances
<1> QED
  BY <1>2, <1>3

\* However attempts end, a call makes at most as many steps as its budget
\* has room for; nothing prolongs it, so it can wait forever but not run
\* forever.
THEOREM WindingDown == Spec => CallsWindDown
<1> DEFINE A == \A c \in Calls :
                  /\ Remaining(c)' <= Remaining(c)
                  /\ Step(c) \/ Answer(c) \/ Lose(c) => Remaining(c)' < Remaining(c)
<1>1. TypeOK /\ TypeOK' /\ (\A c \in Calls : CallInv(c)) /\ (\A c \in Calls : CallInv(c))'
      /\ [Next]_vars => [A]_vars
  <2> SUFFICES ASSUME TypeOK, \A c \in Calls : CallInv(c), TypeOK',
                      (\A c \in Calls : CallInv(c))', Next, NEW c \in Calls
               PROVE  /\ Remaining(c)' <= Remaining(c)
                      /\ Step(c) \/ Answer(c) \/ Lose(c) =>
                           Remaining(c)' < Remaining(c)
    OBVIOUS
  <2>1. CASE Step(c) \/ Answer(c) \/ Lose(c)
    BY <2>1, AdvanceCounts
  <2>2. CASE ~ (Step(c) \/ Answer(c) \/ Lose(c))
    <3>1. pc'[c] = pc[c] /\ attempt'[c] = attempt[c]
      <4>1. CASE Cancel(c) \/ TransportDone(c) \/ ArriveLate(c) \/ AllReturned
        BY <4>1 DEF Cancel, TransportDone, ArriveLate, AllReturned, vars
      <4>2. CASE \E d \in Calls \ {c} : Step(d) \/ Environment(d)
        BY <4>2, OneAtATime DEF SameCall
      <4> QED
        BY <2>2, <4>1, <4>2 DEF Next, Environment
    <3>2. Remaining(c)' = Remaining(c)
      BY <3>1 DEF Remaining, Budgeted
    <3> QED
      BY <2>2, <3>2, RemainingNat
  <2> QED
    BY <2>1, <2>2
<1> QED
  BY <1>1, CallInvHolds, Typing, PTL DEF Spec, CallsWindDown

\* A call waits for another one only for a slot, and then a call of its class
\* is between its grant and its return, where it waits for nobody but the
\* wire and the clock.
WaitsForHolder ==
    \A c \in Calls :
        pc[c] = "acquire" /\ slots[Class(c)] >= (IF c \in Writes THEN 1 ELSE MaxReads) =>
            \E d \in Calls \ {c} : Class(d) = Class(c) /\ pc[d] \in Active

\* No circle of calls waits for each other, and none waits for a slot that
\* nobody will return.
THEOREM Waiting == Spec => []WaitsForHolder
<1>1. Inv => WaitsForHolder
  <2> SUFFICES ASSUME Inv, NEW c \in Calls, pc[c] = "acquire",
                      slots[Class(c)] >= IF c \in Writes THEN 1 ELSE MaxReads
               PROVE  \E d \in Calls \ {c} : Class(d) = Class(c) /\ pc[d] \in Active
    BY DEF WaitsForHolder
  <2>1. slots[Class(c)] = Cardinality(Holders(Class(c))) /\ slots[Class(c)] >= 1
    BY LimitsAssumption DEF Inv, TypeOK, SlotInv, SlotsCounted
  <2>2. Holders(Class(c)) # {}
    BY <2>1, FS_EmptySet
  <2> QED
    BY <2>2 DEF Holders
<1> QED
  BY <1>1, InvHolds, PTL

-----------------------------------------------------------------------------
(* Do and Download keep the promise of AtLeastOnce                         *)

\* A return with a result the history supports is a conclusion.
LEMMA ReturnConcludes ==
    ASSUME TypeOK, NEW c \in Calls, NEW r \in Results, result[c] = "none",
           ReturnLocally(c, r), UNCHANGED <<sent, applied>>,
           Verdict(c)' = "ok" => applied[c] >= 1,
           Verdict(c)' = "refused" => sent[c] = 0
    PROVE  AtLeast!CallNext
<1> DEFINE v == Verdict(c)'
<1>1. /\ result'[c] = r
      /\ \A d \in Calls \ {c} : result'[d] = result[d]
  BY DEF ReturnLocally, TypeOK
<1>2. v \in AtLeast!Outcomes \ {"open"}
  BY <1>1 DEF Verdict, AtLeast!Outcomes
<1>3. \A d \in Calls \ {c} : Verdict(d)' = Verdict(d)
  BY <1>1 DEF Verdict
<1>4. Verdict(c) = "open"
  BY DEF Verdict
<1> DEFINE F == [d \in Calls |-> Verdict(d)]
<1>5. F' = [F EXCEPT ![c] = v]
  <2>1. \A d \in Calls : F'[d] = [F EXCEPT ![c] = v][d]
    BY <1>3
  <2> QED
    BY <2>1
<1>6. AtLeast!Conclude(c, v)
  BY <1>4, <1>5 DEF AtLeast!Conclude, TypeOK
<1> HIDE DEF v
<1> QED
  BY <1>2, <1>6 DEF AtLeast!CallNext

LEMMA SendTries ==
    ASSUME Inv, \A d \in Calls : CallInv(d), NEW c \in Calls, Send(c)
    PROVE  AtLeast!Try(c)
<1>1. /\ pc[c] = "ready"
      /\ result' = result /\ applied' = applied
      /\ sent' = [sent EXCEPT ![c] = @ + 1]
  BY DEF Send
<1>2. result[c] = "none" /\ sent[c] < Budgeted(c)
  BY <1>1, BudgetFacts DEF CallInv, OutcomeInv, AttemptInv, Inv, TypeOK
<1>3. ASSUME c \in Writes, NEW d \in Writes \ {c}
      PROVE  ~ (Verdict(d) = "open" /\ sent[d] > 0)
  <2>1. d \in Calls /\ pc[d] \notin Active
    BY <1>1, <1>3, CallsAssumption
       DEF Inv, SlotInv, WriteExclusive, Holders
  <2>2. CASE pc[d] = "done"
    <3>1. result[d] # "none"
      BY <2>1, <2>2 DEF CallInv, OutcomeInv
    <3> QED
      BY <2>1, <3>1 DEF Verdict, Inv, TypeOK
  <2>3. CASE pc[d] # "done"
    BY <2>1, <2>3 DEF CallInv, AttemptInv, Inv, TypeOK
  <2> QED
    BY <2>2, <2>3
<1>4. Verdict(c) = "open"
  BY <1>2 DEF Verdict
<1>5. [d \in Calls |-> Verdict(d)'] = [d \in Calls |-> Verdict(d)]
  BY <1>1 DEF Verdict
<1>6. c \in Writes => \A d \in Writes \ {c} : ~ AtLeast!Underway(d)
  BY <1>3, CallsAssumption DEF AtLeast!Underway
<1> QED
  BY <1>1, <1>2, <1>4, <1>5, <1>6 DEF AtLeast!Try

\* A step that neither sends nor returns is a landing, or none of the
\* promise's business.
LEMMA LandsOrStutters ==
    ASSUME TypeOK, NEW c \in Calls, CallInv(c)', TypeOK',
           UNCHANGED <<result, sent>>,
           \/ UNCHANGED applied
           \/ applied' = [applied EXCEPT ![c] = @ + 1]
    PROVE  AtLeast!CallNext \/ UNCHANGED AtLeast!callState
<1>1. [d \in Calls |-> Verdict(d)'] = [d \in Calls |-> Verdict(d)]
  BY DEF Verdict
<1>2. CASE UNCHANGED applied
  BY <1>1, <1>2 DEF AtLeast!callState
<1>3. CASE applied' = [applied EXCEPT ![c] = @ + 1]
  <2>1. applied[c] < sent[c]
    BY <1>3 DEF TypeOK, CallInv, EffectInv
  <2>2. AtLeast!Land(c)
    BY <1>1, <1>3, <2>1 DEF AtLeast!Land
  <2> QED
    BY <2>2 DEF AtLeast!CallNext
<1> QED
  BY <1>2, <1>3

LEMMA StepKeepsPromise ==
    ASSUME Inv, TypeOK', \A d \in Calls : CallInv(d),
           \A d \in Calls : CallInv(d)',
           NEW c \in Calls, Step(c) \/ Environment(c)
    PROVE  AtLeast!CallNext \/ UNCHANGED AtLeast!callState
<1>0. /\ TypeOK /\ CallInv(c)'
      /\ sent[c] \in Nat /\ attempt[c] \in Nat /\ applied[c] \in Nat
      /\ pc[c] # "done" => result[c] = "none"
  BY DEF Inv, TypeOK, CallInv, OutcomeInv
<1>1. CASE Send(c)
  BY <1>1, SendTries DEF AtLeast!CallNext
<1>2. CASE Environment(c)
  BY <1>0, <1>2, LandsOrStutters
     DEF Environment, Answer, Lose, Comes, Cancel, TransportDone, ArriveLate,
         callVars
<1>3. ASSUME NEW r \in Results \ {"ok", "circuit"}, pc[c] # "done",
             ReturnLocally(c, r), UNCHANGED <<sent, applied>>
      PROVE  AtLeast!CallNext
  <2>1. result'[c] = r
    BY <1>0, <1>3 DEF ReturnLocally, TypeOK
  <2>2. Verdict(c)' \notin {"ok", "refused"}
    BY <1>3, <2>1 DEF Verdict
  <2> QED
    BY <1>0, <1>3, <2>2, ReturnConcludes
<1>4. ASSUME UNCHANGED <<result, sent, applied>>
      PROVE  AtLeast!CallNext \/ UNCHANGED AtLeast!callState
  BY <1>0, <1>4, LandsOrStutters
<1>5. CASE Start(c)
  <2>1. CASE CircuitOpen
    <3>1. ReturnLocally(c, "circuit") /\ UNCHANGED <<sent, applied>>
      BY <1>5, <2>1 DEF Start
    <3>2. sent[c] = 0
      BY <1>0, <1>5 DEF Start, CallInv, AttemptInv
    <3>3. Verdict(c)' = "refused"
      BY <1>0, <3>1 DEF Verdict, ReturnLocally, TypeOK
    <3> QED
      BY <1>0, <1>5, <3>1, <3>2, <3>3, ReturnConcludes DEF Start
  <2>2. CASE ~ CircuitOpen
    BY <1>4, <1>5, <2>2 DEF Start
  <2> QED
    BY <2>1, <2>2
<1>6. CASE \/ Acquire(c) \/ AcquireFails(c) \/ RewindFails(c)
           \/ UrlFails(c) \/ BuildFails(c)
  BY <1>3, <1>4, <1>6
     DEF Acquire, AcquireFails, RewindFails, UrlFails, BuildFails, Return
<1>7. CASE EvalSuccess(c)
  <2>1. CASE answer[c] = "ok"
    <3>1. ReturnLocally(c, "ok") /\ UNCHANGED <<sent, applied>>
      BY <1>7, <2>1 DEF EvalSuccess, Return
    <3>2. applied[c] >= 1 /\ pc[c] # "done"
      BY <1>7, <2>1 DEF EvalSuccess, CallInv, EffectInv
    <3>3. Verdict(c)' = "ok"
      BY <1>0, <3>1 DEF Verdict, ReturnLocally, TypeOK
    <3> QED
      BY <1>0, <3>1, <3>2, <3>3, ReturnConcludes
  <2>2. CASE answer[c] # "ok"
    BY <1>3, <1>7, <2>2 DEF EvalSuccess, Return
  <2> QED
    BY <2>1, <2>2
<1>8. CASE EvalAuth(c) \/ EvalRefused(c)
  BY <1>3, <1>8 DEF EvalAuth, EvalRefused, Return
<1>9. CASE EvalBusy(c) \/ EvalLost(c)
  BY <1>3, <1>4, <1>9 DEF EvalBusy, EvalLost, Return, BackOff
<1>10. CASE NextAttempt(c) \/ BackOffCancelled(c)
  BY <1>3, <1>4, <1>10 DEF NextAttempt, BackOffCancelled, Return
<1> QED
  BY <1>1, <1>2, <1>5, <1>6, <1>7, <1>8, <1>9, <1>10 DEF Step

\* Whatever answers are lost, bodies misbehave and contexts end, a caller may
\* rely on what AtLeastOnce says of its call.
THEOREM Implements == Spec => ImplementsCall
<1>1. Init => AtLeast!CallsInit
  <2>1. Init => \A c \in Calls : Verdict(c) = "open"
    BY DEF Init, Verdict
  <2> QED
    BY <2>1 DEF Init, AtLeast!CallsInit
<1>2. /\ Inv /\ Inv' /\ [Next]_vars
      /\ (\A c \in Calls : CallInv(c)) /\ (\A c \in Calls : CallInv(c))'
      => [AtLeast!CallNext]_(AtLeast!callState)
  <2> SUFFICES ASSUME Inv, Inv', \A c \in Calls : CallInv(c),
                      \A c \in Calls : CallInv(c)', [Next]_vars
               PROVE  AtLeast!CallNext \/ UNCHANGED AtLeast!callState
    OBVIOUS
  <2>1. CASE UNCHANGED vars
    <3>1. [d \in Calls |-> Verdict(d)'] = [d \in Calls |-> Verdict(d)]
      BY <2>1 DEF vars, Verdict
    <3> QED
      BY <2>1, <3>1 DEF vars, AtLeast!callState
  <2>2. ASSUME NEW c \in Calls, Step(c) \/ Environment(c)
        PROVE  AtLeast!CallNext \/ UNCHANGED AtLeast!callState
    BY <2>2, StepKeepsPromise DEF Inv
  <2> QED
    BY <2>1, <2>2 DEF Next, AllReturned
<1> QED
  BY <1>1, <1>2, InvHolds, CallInvHolds, PTL
     DEF Spec, ImplementsCall, AtLeast!CallsSpec

-----------------------------------------------------------------------------
(* Do and Download use the account's budget                                *)

Returned == {c \in Calls : pc[c] = "done" /\ attempt[c] > 0}

LEMMA SameCardinality == \A S : Budget!Cardinality(S) = Cardinality(S)
BY DEF Cardinality, Budget!Cardinality

\* A step that moves no call in or out of a slot is none of the budget's
\* business.
LEMMA BudgetUnused ==
    ASSUME HoldsSlot' = HoldsSlot, Returned' = Returned
    PROVE  UNCHANGED Budget!vars
BY DEF Budget!vars, Returned

LEMMA AcquireGrants ==
    ASSUME Inv, NEW c \in Calls, CallInv(c), Acquire(c), Body[c] # "pipe"
    PROVE  Budget!Grant(c)
<1>1. /\ pc[c] = "acquire" /\ attempt[c] = 0
      /\ pc' = [pc EXCEPT ![c] = "ready"] /\ attempt' = [attempt EXCEPT ![c] = 1]
      /\ slots[Class(c)] < IF c \in Writes THEN 1 ELSE MaxReads
  BY DEF Acquire, CallInv, AttemptInv
<1>2. /\ HoldsSlot' = HoldsSlot \cup {c} /\ Returned' = Returned
      /\ c \notin HoldsSlot \cup Returned
  BY <1>1 DEF HoldsSlot, Returned, Inv, TypeOK
<1>3. HoldsSlot \cap Writes = Holders("Write") /\ HoldsSlot \ Writes = Holders("Read")
  BY CallsAssumption DEF HoldsSlot, Holders
<1>4. ASSUME c \in Writes PROVE HoldsSlot \cap Writes = {}
  <2>1. Cardinality(Holders("Write")) = 0
    BY <1>1, <1>4, HoldersFinite DEF Inv, SlotInv, SlotsCounted
  <2> QED
    BY <1>3, <2>1, HoldersFinite, FS_EmptySet
<1>5. ASSUME c \notin Writes PROVE Budget!Cardinality(HoldsSlot \ Writes) < MaxReads
  <2>1. Cardinality(Holders("Read")) < MaxReads
    BY <1>1, <1>5 DEF Inv, SlotInv, SlotsCounted
  <2> QED
    BY <1>3, <2>1, SameCardinality
<1> QED
  BY <1>2, <1>4, <1>5 DEF Budget!Grant, Returned

LEMMA ReturnReturns ==
    ASSUME Inv, NEW c \in Calls, CallInv(c), NEW r, pc[c] \in Active, Return(c, r),
           UNCHANGED attempt
    PROVE  Budget!Return(c)
<1>1. attempt[c] > 0 /\ pc' = [pc EXCEPT ![c] = "done"] /\ attempt' = attempt
  BY DEF Return, ReturnLocally, CallInv, AttemptInv, Inv, TypeOK
<1>2. /\ c \in HoldsSlot /\ HoldsSlot' = HoldsSlot \ {c}
      /\ Returned' = Returned \cup {c}
  BY <1>1 DEF HoldsSlot, Returned, Inv, TypeOK
<1> QED
  BY <1>2 DEF Budget!Return, Returned

\* A call that has no slot and takes none, or keeps the one it has; it may
\* be at its next attempt.
LEMMA KeepsSlot ==
    ASSUME Inv, NEW c \in Calls, NEW l \in {"start", "acquire", "done"} \cup Active,
           Goto(c, l), pc[c] \in Active <=> l \in Active,
           pc[c] # "done", l = "done" => attempt[c] = 0 /\ UNCHANGED attempt,
           \E n \in Nat : attempt' = [attempt EXCEPT ![c] = n]
    PROVE  UNCHANGED Budget!vars
<1>1. HoldsSlot' = HoldsSlot
  BY DEF HoldsSlot, Inv, TypeOK
<1>2. pc' = [pc EXCEPT ![c] = l] /\ pc \in [Calls -> {"start", "acquire", "done"} \cup Active]
  BY DEF Inv, TypeOK
<1>3. \A d \in Calls \ {c} : pc'[d] = pc[d] /\ attempt'[d] = attempt[d]
  BY <1>2 DEF Inv, TypeOK
<1>4. (pc'[c] = "done" /\ attempt'[c] > 0) <=> (pc[c] = "done" /\ attempt[c] > 0)
  BY <1>2
<1>5. Returned' = Returned
  BY <1>3, <1>4 DEF Returned
<1> QED
  BY <1>1, <1>5, BudgetUnused

LEMMA StepUsesBudget ==
    ASSUME Inv, NEW c \in Calls, CallInv(c), Step(c) \/ Environment(c)
    PROVE  [Budget!Next]_(Budget!vars)
<1>0. CASE UNCHANGED <<pc, attempt>>
  BY <1>0, BudgetUnused DEF HoldsSlot, Returned
<1>a. attempt[c] \in Nat /\ (UNCHANGED attempt => attempt' = [attempt EXCEPT ![c] = attempt[c]])
  BY DEF Inv, TypeOK
<1>1. CASE Start(c)
  <2>1. attempt[c] = 0 /\ pc[c] = "start" /\ attempt' = attempt
    BY <1>1 DEF Start, CallInv, AttemptInv
  <2>2. Goto(c, "done") \/ Goto(c, "acquire")
    BY <1>1 DEF Start, ReturnLocally
  <2> QED
    BY <1>a, <2>1, <2>2, KeepsSlot
<1>2. CASE Acquire(c)
  <2>1. CASE Body[c] = "pipe"
    <3>1. pc[c] = "acquire" /\ attempt[c] = 0 /\ attempt' = attempt /\ Goto(c, "done")
      BY <1>2, <2>1 DEF Acquire, ReturnLocally, CallInv, AttemptInv
    <3> QED
      BY <1>a, <3>1, KeepsSlot
  <2>2. CASE Body[c] # "pipe"
    BY <1>2, <2>2, AcquireGrants DEF Budget!Next
  <2> QED
    BY <2>1, <2>2
<1>3. CASE AcquireFails(c)
  <2>1. pc[c] = "acquire" /\ attempt[c] = 0 /\ attempt' = attempt /\ Goto(c, "done")
    BY <1>3 DEF AcquireFails, ReturnLocally, CallInv, AttemptInv
  <2> QED
    BY <1>a, <2>1, KeepsSlot
<1>4. CASE Send(c)
  <2>1. pc[c] = "ready" /\ attempt' = attempt /\ Goto(c, "wire")
    BY <1>4 DEF Send
  <2> QED
    BY <1>a, <2>1, KeepsSlot
<1>5. ASSUME NEW r, pc[c] \in Active, Return(c, r), UNCHANGED attempt
      PROVE  Budget!Next
  BY <1>5, ReturnReturns DEF Budget!Next
<1>6. ASSUME pc[c] = "answered", BackOff(c), UNCHANGED attempt
      PROVE  UNCHANGED Budget!vars
  BY <1>6, <1>a, KeepsSlot DEF BackOff
<1>7. CASE \/ BuildFails(c) \/ RewindFails(c) \/ EvalSuccess(c) \/ EvalAuth(c)
           \/ EvalRefused(c) \/ BackOffCancelled(c)
  BY <1>5, <1>7 DEF BuildFails, RewindFails, EvalSuccess, EvalAuth, EvalRefused,
                    BackOffCancelled
<1>8. CASE EvalBusy(c) \/ EvalLost(c)
  BY <1>5, <1>6, <1>8 DEF EvalBusy, EvalLost
<1>9. CASE NextAttempt(c)
  <2>1. /\ pc[c] = "backoff" /\ Goto(c, "ready")
        /\ attempt' = [attempt EXCEPT ![c] = attempt[c] + 1] /\ attempt[c] + 1 \in Nat
    BY <1>9 DEF NextAttempt, Inv, TypeOK
  <2> QED
    BY <1>a, <2>1, KeepsSlot
<1>10. CASE Answer(c) \/ Lose(c)
  <2>1. pc[c] = "wire" /\ attempt' = attempt /\ Goto(c, "answered")
    BY <1>10 DEF Answer, Lose, Comes
  <2> QED
    BY <1>a, <2>1, KeepsSlot
<1>11. CASE Cancel(c) \/ TransportDone(c) \/ ArriveLate(c)
  BY <1>0, <1>11 DEF Cancel, TransportDone, ArriveLate
<1>12. CASE UrlFails(c)
  <2>1. pc[c] = "start" /\ attempt[c] = 0 /\ attempt' = attempt /\ Goto(c, "done")
    BY <1>12 DEF UrlFails, ReturnLocally, CallInv, AttemptInv
  <2> QED
    BY <1>a, <2>1, KeepsSlot
<1> QED
  BY <1>1, <1>2, <1>3, <1>4, <1>7, <1>8, <1>9, <1>10, <1>11, <1>12
     DEF Step, Environment

\* The calls of an account share its budget as AccountBudget has it, which
\* is what Limiter grants: one slot per call, held from its first request to
\* its return.
THEOREM Uses == Spec => UsesBudget
<1>1. Init => Budget!Init
  BY DEF Init, Budget!Init, HoldsSlot
<1>2. Inv /\ (\A c \in Calls : CallInv(c)) /\ [Next]_vars => [Budget!Next]_(Budget!vars)
  <2> SUFFICES ASSUME Inv, \A c \in Calls : CallInv(c), [Next]_vars
               PROVE  [Budget!Next]_(Budget!vars)
    OBVIOUS
  <2>1. CASE UNCHANGED vars
    BY <2>1, BudgetUnused DEF vars, HoldsSlot, Returned
  <2> QED
    BY <2>1, StepUsesBudget DEF Next, AllReturned
<1> QED
  BY <1>1, <1>2, InvHolds, CallInvHolds, PTL DEF Spec, UsesBudget, Budget!Spec

-----------------------------------------------------------------------------
(* The breaker                                                             *)

Rejected == {c \in Calls : result[c] = "auth"}

LEMMA RejectedFinite == IsFiniteSet(Rejected) /\ Cardinality(Rejected) \in Nat
<1>1. IsFiniteSet(Rejected)
  BY CallsAssumption, FS_Subset DEF Rejected
<1> QED
  BY <1>1, FS_CardinalityType

\* Every rejection is counted once: a call that is rejected returns, and has
\* not been rejected before.
THEOREM Rejections == Spec => []RejectionsCounted
<1>1. Init => RejectionsCounted
  <2> SUFFICES ASSUME Init PROVE RejectionsCounted
    OBVIOUS
  <2>1. {c \in Calls : result[c] = "auth"} = {}
    BY DEF Init
  <2> QED
    BY <2>1, FS_EmptySet DEF Init, RejectionsCounted
<1>2. /\ TypeOK /\ (\A c \in Calls : CallInv(c))
      /\ RejectionsCounted /\ [Next]_vars
      => RejectionsCounted'
  <2> SUFFICES ASSUME TypeOK, \A c \in Calls : CallInv(c),
                      RejectionsCounted, [Next]_vars
               PROVE  RejectionsCounted'
    OBVIOUS
  <2>1. ASSUME failures' = failures, Rejected' = Rejected
        PROVE  RejectionsCounted'
    BY <2>1 DEF RejectionsCounted, Rejected
  <2>2. CASE UNCHANGED vars
    BY <2>1, <2>2 DEF vars, Rejected
  <2>3. ASSUME NEW c \in Calls, EvalAuth(c) PROVE RejectionsCounted'
    <3>1. result[c] = "none"
      BY <2>3 DEF EvalAuth, CallInv, OutcomeInv
    <3>2. Rejected' = Rejected \cup {c} /\ c \notin Rejected
      BY <2>3, <3>1 DEF EvalAuth, Return, ReturnLocally, Rejected, TypeOK
    <3>3. Cardinality(Rejected') = Cardinality(Rejected) + 1
      BY <3>2, RejectedFinite, FS_AddElement
    <3> QED
      BY <2>3, <3>3 DEF EvalAuth, RejectionsCounted, Rejected
  <2>4. ASSUME NEW c \in Calls, NEW r \in Results \ {"auth"},
               pc[c] # "done", ReturnLocally(c, r)
        PROVE  Rejected' = Rejected
    <3>1. result[c] = "none"
      BY <2>4 DEF CallInv, OutcomeInv
    <3> QED
      BY <2>4, <3>1 DEF ReturnLocally, Rejected, TypeOK
  <2>5. ASSUME NEW c \in Calls, Step(c) \/ Environment(c), ~ EvalAuth(c)
        PROVE  failures' = failures /\ Rejected' = Rejected
    <3>1. ASSUME result' = result PROVE Rejected' = Rejected
      BY <3>1 DEF Rejected
    <3>2. CASE Environment(c)
      BY <3>1, <3>2 DEF Environment, Comes, Answer, Lose, Cancel,
                        TransportDone, ArriveLate
    <3>3. CASE Start(c) \/ UrlFails(c) \/ Acquire(c) \/ AcquireFails(c) \/ Send(c)
      BY <3>1, <3>3, <2>4 DEF Start, UrlFails, Acquire, AcquireFails, Send
    <3>4. CASE RewindFails(c) \/ EvalSuccess(c) \/ EvalBusy(c) \/ EvalRefused(c)
      BY <3>1, <3>4, <2>4 DEF RewindFails, EvalSuccess, EvalBusy, EvalRefused,
                              Return, BackOff
    <3>5. CASE EvalLost(c) \/ NextAttempt(c) \/ BackOffCancelled(c) \/ BuildFails(c)
      BY <3>1, <3>5, <2>4 DEF EvalLost, NextAttempt, BackOffCancelled,
                              BuildFails, Return, BackOff
    <3> QED
      BY <2>5, <3>2, <3>3, <3>4, <3>5 DEF Step
  <2> QED
    BY <2>1, <2>2, <2>3, <2>5 DEF Next, AllReturned
<1> QED
  BY <1>1, <1>2, Typing, CallInvHolds, PTL DEF Spec

\* A call the open circuit refused never reached the wire, and the circuit
\* was open because two calls had been rejected.
THEOREM Refusals == Spec => []RefusedLocally
<1>1. /\ TypeOK /\ (\A c \in Calls : CallInv(c)) /\ RejectionsCounted
      => RefusedLocally
  <2> SUFFICES ASSUME TypeOK, RejectionsCounted, NEW c \in Calls, CallInv(c),
                      result[c] = "circuit"
               PROVE  /\ sent[c] = 0 /\ applied[c] = 0
                      /\ Cardinality({d \in Calls : result[d] = "auth"})
                           >= breakerThreshold
    BY DEF RefusedLocally
  <2>1. sent[c] = 0 /\ failures >= breakerThreshold
    BY DEF CallInv, OutcomeInv
  <2>2. applied[c] = 0
    BY <2>1 DEF TypeOK, CallInv, EffectInv
  <2> QED
    BY <2>1, <2>2 DEF RejectionsCounted
<1> QED
  BY <1>1, Typing, CallInvHolds, Rejections, PTL

-----------------------------------------------------------------------------
(* What an error says about its call                                       *)

\* A rejection or a refusal ends the call, so that one request without an
\* effect is all there was if it was the first; a busy answer is returned
\* only by a call that has no request left.
ErrorInv(c) ==
    /\ pc[c] \in {"start", "acquire"} => answer[c] = "none"
    /\ pc[c] \in {"ready", "wire", "backoff"} => answer[c] \in {"none", "busy", "lost"}
    /\ result[c] # "none" => (result[c] = "auth" <=> answer[c] = "auth")
    /\ result[c] = "api" => answer[c] \in {"busy", "busyLong", "refused"}
    /\ result[c] = "api" /\ answer[c] = "busy" => sent[c] = Budgeted(c)
    /\ answer[c] \in {"auth", "refused"} /\ sent[c] = 1
         => applied[c] + inFlight[c] = 0

\* A step that ends the call without a new answer.
LEMMA EndsWithError ==
    ASSUME TypeOK, NEW c \in Calls, ErrorInv(c), NEW r \in Results,
           ReturnLocally(c, r), UNCHANGED <<attempt, answer, body, wireVars>>,
           r = "auth" <=> answer[c] = "auth",
           r = "api" => /\ answer[c] \in {"busy", "busyLong", "refused"}
                        /\ answer[c] = "busy" => sent[c] = Budgeted(c)
    PROVE  ErrorInv(c)'
<1>1. pc'[c] = "done" /\ result'[c] = r
  BY DEF ReturnLocally, TypeOK
<1> QED
  BY <1>1 DEF ErrorInv, Budgeted

LEMMA StepKeepsError ==
    ASSUME TypeOK, NEW c \in Calls, CallInv(c), ErrorInv(c), Step(c)
    PROVE  ErrorInv(c)'
<1> USE DEF Return
<1>0. pc[c] # "done" => result[c] = "none"
  BY DEF CallInv, OutcomeInv
<1>1. CASE Start(c)
  BY <1>1, <1>0, EndsWithError DEF Start, ErrorInv, TypeOK, ReturnLocally, Budgeted
<1>2. CASE Acquire(c)
  BY <1>2, <1>0 DEF Acquire, ErrorInv, TypeOK, ReturnLocally, Budgeted
<1>3. CASE \/ UrlFails(c) \/ AcquireFails(c) \/ BuildFails(c) \/ RewindFails(c)
           \/ BackOffCancelled(c)
  BY <1>3, <1>0, EndsWithError
     DEF UrlFails, AcquireFails, BuildFails, RewindFails, BackOffCancelled, ErrorInv
<1>4. CASE Send(c)
  BY <1>4, <1>0 DEF Send, ErrorInv, TypeOK, Budgeted
<1>5. CASE EvalSuccess(c) \/ EvalAuth(c) \/ EvalRefused(c)
  BY <1>5, <1>0, EndsWithError DEF EvalSuccess, EvalAuth, EvalRefused
<1>6. CASE EvalBusy(c)
  <2>1. ~ MayRetry(c) => sent[c] = Budgeted(c)
    <3>1. /\ sent[c] = attempt[c] /\ attempt[c] \in Nat
          /\ attempt[c] >= 1 /\ attempt[c] <= Budgeted(c)
      BY <1>6 DEF EvalBusy, CallInv, AttemptInv, TypeOK
    <3> QED
      BY <3>1, LimitsAssumption DEF MayRetry, Budgeted
  <2>2. CASE MayRetry(c) /\ answer[c] = "busy"
    BY <1>6, <1>0, <2>2 DEF EvalBusy, BackOff, ErrorInv, TypeOK, Budgeted
  <2>3. CASE ~ (MayRetry(c) /\ answer[c] = "busy")
    BY <1>6, <2>1, <2>3, EndsWithError DEF EvalBusy
  <2> QED
    BY <2>2, <2>3
<1>7. CASE EvalLost(c)
  <2>1. CASE BackOff(c)
    BY <1>7, <1>0, <2>1 DEF EvalLost, BackOff, ErrorInv, TypeOK, Budgeted
  <2>2. CASE \E r \in {"cancelled", "network"} : Return(c, r)
    BY <1>7, <2>2, EndsWithError DEF EvalLost
  <2> QED
    BY <1>7, <2>1, <2>2 DEF EvalLost
<1>8. CASE NextAttempt(c)
  BY <1>8, <1>0 DEF NextAttempt, ErrorInv, TypeOK, Budgeted
<1> QED
  BY <1>1, <1>2, <1>3, <1>4, <1>5, <1>6, <1>7, <1>8 DEF Step

LEMMA EnvironmentKeepsError ==
    ASSUME TypeOK, NEW c \in Calls, CallInv(c), ErrorInv(c), Environment(c)
    PROVE  ErrorInv(c)'
<1>0. /\ pc[c] # "done" => result[c] = "none"
      /\ sent[c] \in Nat /\ applied[c] \in Nat /\ inFlight[c] \in Nat
  BY DEF CallInv, OutcomeInv, TypeOK
<1>1. ASSUME NEW a \in Answers, Comes(c, a),
             a \in {"auth", "refused"} => UNCHANGED <<applied, inFlight>>
      PROVE  ErrorInv(c)'
  <2>1. /\ pc[c] = "wire" /\ pc'[c] = "answered" /\ answer'[c] = a
        /\ UNCHANGED <<result, sent>>
    BY <1>1 DEF Comes, TypeOK
  <2>2. a \in {"auth", "refused"} /\ sent[c] = 1 => applied[c] + inFlight[c] = 0
    BY <1>0, <2>1 DEF CallInv, EffectInv
  <2> QED
    BY <1>0, <1>1, <2>1, <2>2 DEF ErrorInv
<1>2. CASE Answer(c)
  BY <1>1, <1>2 DEF Answer
<1>3. CASE Lose(c)
  BY <1>1, <1>3 DEF Lose
<1>4. CASE Cancel(c) \/ TransportDone(c)
  BY <1>4 DEF Cancel, TransportDone, ErrorInv, Budgeted
<1>5. CASE ArriveLate(c)
  BY <1>5, <1>0 DEF ArriveLate, ErrorInv, Budgeted, TypeOK
<1> QED
  BY <1>2, <1>3, <1>4, <1>5 DEF Environment

LEMMA ErrorInvHolds == Spec => [](\A c \in Calls : ErrorInv(c))
<1>1. Init => \A c \in Calls : ErrorInv(c)
  BY DEF Init, ErrorInv
<1>2. /\ TypeOK /\ (\A c \in Calls : CallInv(c))
      /\ (\A c \in Calls : ErrorInv(c)) /\ [Next]_vars
      => (\A c \in Calls : ErrorInv(c))'
  <2> SUFFICES ASSUME TypeOK, \A c \in Calls : CallInv(c),
                      \A c \in Calls : ErrorInv(c), [Next]_vars, NEW d \in Calls
               PROVE  ErrorInv(d)'
    OBVIOUS
  <2>1. CASE UNCHANGED vars
    BY <2>1 DEF vars, ErrorInv, Budgeted
  <2>2. ASSUME NEW c \in Calls, Step(c) \/ Environment(c)
        PROVE  ErrorInv(d)'
    <3>1. CASE c = d
      BY <2>2, <3>1, StepKeepsError, EnvironmentKeepsError
    <3>2. CASE c # d
      BY <2>2, <3>2, OneAtATime DEF SameCall, ErrorInv, Budgeted
    <3> QED
      BY <3>1, <3>2
  <2> QED
    BY <2>1, <2>2 DEF Next, AllReturned
<1> QED
  BY <1>1, <1>2, Typing, CallInvHolds, PTL DEF Spec

\* A status that may have been the latest one leads back to the answer, and
\* the answer to the kind.
LEMMA KindOfStatus ==
    ASSUME NEW c \in Calls, answer[c] \in Answers, NEW s \in StatusesOf(c)
    PROVE  /\ s # 0
           /\ StatusKind(s) = "auth" <=> answer[c] = "auth"
           /\ StatusKind(s) \in {"validation", "conflict"} => answer[c] = "refused"
           /\ StatusKind(s) = "transport" => answer[c] \in {"busy", "busyLong"}
           /\ s \in {400, 403} => answer[c] \in {"auth", "refused"}
BY DEF StatusesOf, Statuses, FateOf, Fate, StatusKind

\* What every error chain of a call comes down to.
LEMMA ChainFacts ==
    ASSUME NEW c \in Calls, NEW err \in Chains(c)
    PROVE  \/ /\ result[c] \in {"api", "auth"}
              /\ err.api.status \in StatusesOf(c)
           \/ /\ result[c] \notin {"api", "auth", "none", "ok"}
              /\ err.api = NoResponse
              /\ KindOf(err) = "auth" <=> result[c] = "circuit"
              /\ KindOf(err) \notin {"validation", "conflict"}
<1>1. CASE result[c] = "api"
  BY <1>1 DEF Chains
<1>2. CASE result[c] = "auth"
  BY <1>2 DEF Chains
<1>3. CASE result[c] = "circuit"
  BY <1>3 DEF Chains, KindOf
<1>4. CASE result[c] = "notReady"
  BY <1>4 DEF Chains, KindOf
<1>5. CASE result[c] = "network"
  BY <1>5 DEF Chains, KindOf
<1>6. CASE result[c] = "cancelled"
  BY <1>6 DEF Chains, KindOf
<1>7. CASE result[c] = "body"
  BY <1>7 DEF Chains, KindOf
<1>8. CASE result[c] = "request"
  BY <1>8 DEF Chains, KindOf
<1> QED
  BY <1>1, <1>2, <1>3, <1>4, <1>5, <1>6, <1>7, <1>8 DEF Chains

\* Kinds and quirks mislead nobody: "validation", "conflict" and the quirks
\* mean without effect when one request was sent, "auth" a rejected credential
\* or the open circuit, "transport" of an answer a budget that is used up.
THEOREM Kinds == Spec => []KindTellsEffect
<1>1. /\ TypeOK /\ (\A c \in Calls : CallInv(c)) /\ (\A c \in Calls : ErrorInv(c))
      => KindTellsEffect
  <2> SUFFICES ASSUME TypeOK, NEW c \in Calls, CallInv(c), ErrorInv(c),
                      NEW err \in Chains(c)
               PROVE
        LET Unapplied == sent[c] = 1 => applied[c] + inFlight[c] = 0
        IN /\ KindOf(err) \in {"validation", "conflict"} => Unapplied
           /\ IsBranchUnlicensed(err) \/ IsDuplicateDeploy(err) \/ IsLogNotReady(err)
                => Unapplied
           /\ KindOf(err) = "auth"
                <=> answer[c] = "auth" \/ (result[c] = "circuit" /\ sent[c] = 0)
           /\ KindOf(err) = "transport" /\ err.api # NoResponse =>
                sent[c] = Budgeted(c) \/ answer[c] = "busyLong"
    BY DEF KindTellsEffect
  <2>1. CASE /\ result[c] \in {"api", "auth"}
             /\ err.api.status \in StatusesOf(c)
    <3>1. answer[c] \in Answers /\ (answer[c] = "auth" <=> result[c] = "auth")
      BY <2>1 DEF ErrorInv
    <3>2. err.api # NoResponse
      BY <2>1, <3>1, KindOfStatus DEF NoResponse
    <3>3. KindOf(err) = StatusKind(err.api.status)
      BY <3>2 DEF KindOf
    <3>4. /\ KindOf(err) = "auth" <=> answer[c] = "auth"
          /\ KindOf(err) \in {"validation", "conflict"} => answer[c] = "refused"
          /\ KindOf(err) = "transport" => answer[c] \in {"busy", "busyLong"}
          /\ err.api.status \in {400, 403} => answer[c] \in {"auth", "refused"}
      BY <2>1, <3>1, <3>3, KindOfStatus
    <3>5. answer[c] \in {"auth", "refused"} /\ sent[c] = 1
            => applied[c] + inFlight[c] = 0
      BY DEF ErrorInv
    <3>6. IsBranchUnlicensed(err) \/ IsDuplicateDeploy(err) \/ IsLogNotReady(err)
            => err.api.status \in {400, 403}
      BY DEF IsBranchUnlicensed, IsDuplicateDeploy, IsLogNotReady
    <3>7. answer[c] = "busy" => sent[c] = Budgeted(c)
      BY <2>1, <3>1 DEF ErrorInv
    <3> QED
      BY <2>1, <3>4, <3>5, <3>6, <3>7
  <2>2. CASE /\ result[c] \notin {"api", "auth", "none", "ok"}
             /\ err.api = NoResponse
             /\ KindOf(err) = "auth" <=> result[c] = "circuit"
             /\ KindOf(err) \notin {"validation", "conflict"}
    <3>1. answer[c] # "auth"
      BY <2>2 DEF ErrorInv
    <3>2. result[c] = "circuit" => sent[c] = 0
      BY DEF CallInv, OutcomeInv
    <3> QED
      BY <2>2, <3>1, <3>2
      DEF IsBranchUnlicensed, IsDuplicateDeploy, IsLogNotReady, NoResponse
  <2> QED
    BY <2>1, <2>2, ChainFacts
<1> QED
  BY <1>1, Typing, CallInvHolds, ErrorInvHolds, PTL

=============================================================================

--------------------------- MODULE LimiterProofs ---------------------------
(***************************************************************************)
(* Theorems about the limiter, for every finite set of calls, every set of *)
(* clients and whatever they configure.                                    *)
(***************************************************************************)
EXTENDS Limiter, FiniteSetTheorems, TLAPS

USE DEF Goto, Classes, Class, SlotStates, Settled, CallStates,
        bucketVars, historyVars

-----------------------------------------------------------------------------
(* Type correctness *)

LEMMA SpacingFacts ==
    /\ DefaultInterval \in Spacings \ {0}
    /\ Spacings \subseteq 0..Horizon
    /\ \A k \in Clients : Rate[k] \in Spacings
BY ConfigAssumption, HorizonAssumption DEF Spacings

LEMMA FreeSlotTypes ==
    ASSUME TypeOK, NEW c \in Calls, NEW l \in Settled, FreeSlot(c, l)
    PROVE  /\ pc' \in [Calls -> CallStates]
           /\ gate' \in [Classes -> [active : Int, limit : Nat \ {0},
                                    set : BOOLEAN]]
<1>1. pc' \in [Calls -> CallStates]
  BY DEF TypeOK, FreeSlot
<1>2. gate' \in [Classes -> [active : Int, limit : Nat \ {0}, set : BOOLEAN]]
  BY DEF TypeOK, FreeSlot
<1> QED
  BY <1>1, <1>2

\* Every variable keeps its type; in particular the bucket never opens at a
\* negative distance and every interval in force is one that was asked for.
THEOREM Typing == Spec => []TypeOK
<1>1. Init => TypeOK
  <2> SUFFICES ASSUME Init PROVE TypeOK
    OBVIOUS
  <2>1. gate \in [Classes -> [active : Int, limit : Nat \ {0}, set : BOOLEAN]]
    BY ConfigAssumption DEF Init
  <2> QED
    <3>1. /\ pc \in [Calls -> CallStates]
          /\ cancelled \in SUBSET Calls
          /\ sleepLeft \in [Calls -> Nat]
          /\ cfgpc \in [Clients -> {"new", "rated", "done"}]
      BY DEF Init
    <3>2. interval \in Spacings \ {0} /\ gap \in Spacings \cup {0}
      BY SpacingFacts DEF Init
    <3>3. rpsSet \in BOOLEAN
      BY DEF Init
    <3>4. next \in Nat /\ since \in 0..Horizon
      BY HorizonAssumption DEF Init
    <3> QED
      BY <2>1, <3>1, <3>2, <3>3, <3>4 DEF TypeOK
<1>2. TypeOK /\ [Next]_vars => TypeOK'
  <2> SUFFICES ASSUME TypeOK, [Next]_vars PROVE TypeOK'
    OBVIOUS
  <2> USE DEF TypeOK
  <2>1. ASSUME NEW c \in Calls, Start(c) PROVE TypeOK'
    BY <2>1 DEF Start
  <2>2. ASSUME NEW c \in Calls, Enter(c) PROVE TypeOK'
    BY <2>2 DEF Enter
  <2>3. ASSUME NEW c \in Calls, Retry(c) PROVE TypeOK'
    BY <2>3 DEF Retry
  <2>4. ASSUME NEW c \in Calls, GiveUpParked(c) PROVE TypeOK'
    BY <2>4 DEF GiveUpParked
  <2>5. ASSUME NEW c \in Calls, TakeTurn(c) PROVE TypeOK'
    BY <2>5, SpacingFacts, HorizonAssumption DEF TakeTurn, Wait
  <2>14. ASSUME NEW c \in Calls, Sleep(c) PROVE TypeOK'
    BY <2>14 DEF Sleep
  <2>6. ASSUME NEW c \in Calls, WakeUp(c) PROVE TypeOK'
    BY <2>6 DEF WakeUp
  <2>7. ASSUME NEW c \in Calls, GiveUpSleeping(c) PROVE TypeOK'
    <3>1. FreeSlot(c, "failed") /\ "failed" \in Settled
      BY <2>7 DEF GiveUpSleeping
    <3>2. /\ pc' \in [Calls -> CallStates]
          /\ gate' \in [Classes -> [active : Int, limit : Nat \ {0},
                                   set : BOOLEAN]]
      BY <3>1, FreeSlotTypes
    <3> QED
      BY <2>7, <3>2 DEF GiveUpSleeping
  <2>8. ASSUME NEW c \in Calls, Release(c) PROVE TypeOK'
    <3>1. FreeSlot(c, "done") /\ "done" \in Settled
      BY <2>8 DEF Release
    <3>2. /\ pc' \in [Calls -> CallStates]
          /\ gate' \in [Classes -> [active : Int, limit : Nat \ {0},
                                   set : BOOLEAN]]
      BY <3>1, FreeSlotTypes
    <3> QED
      BY <2>8, <3>2 DEF Release
  <2>9. ASSUME NEW c \in Calls, Cancel(c) PROVE TypeOK'
    BY <2>9 DEF Cancel
  <2>10. ASSUME NEW k \in Clients, SetRate(k) PROVE TypeOK'
    <3>1. rpsSet' \in BOOLEAN
      BY <2>10 DEF SetRate
    <3>2. interval' \in Spacings \ {0}
      BY <2>10, SpacingFacts, ConfigAssumption DEF SetRate, RateApplies
    <3>3. cfgpc' \in [Clients -> {"new", "rated", "done"}]
      BY <2>10 DEF SetRate
    <3>4. UNCHANGED <<pc, cancelled, gate, next, sleepLeft, historyVars>>
      BY <2>10 DEF SetRate
    <3> QED
      BY <3>1, <3>2, <3>3, <3>4
  <2>11. ASSUME NEW k \in Clients, Tighten(k) PROVE TypeOK'
    <3>1. cfgpc' \in [Clients -> {"new", "rated", "done"}]
      BY <2>11 DEF Tighten
    <3>2. gate' \in [Classes -> [active : Int, limit : Nat \ {0}, set : BOOLEAN]]
      <4>1. CASE gate' = gate
        BY <4>1
      <4>2. CASE gate' # gate
        <5>1. ReadConcurrency[k] \in Nat \ {0}
          <6>1. ReadConcurrency[k] \in Nat
            BY ConfigAssumption
          <6>2. ReadConcurrency[k] > 0
            BY <4>2, <2>11 DEF Tighten
          <6> QED
            BY <6>1, <6>2
        <5>2. gate' = [gate EXCEPT !["Read"] =
                         [@ EXCEPT !.limit = ReadConcurrency[k], !.set = TRUE]]
          BY <4>2, <2>11 DEF Tighten
        <5> QED
          BY <5>1, <5>2
      <4> QED
        BY <4>1, <4>2
    <3>3. UNCHANGED <<pc, cancelled, interval, rpsSet, next, sleepLeft, since, gap>>
      BY <2>11 DEF Tighten
    <3> QED
      BY <3>1, <3>2, <3>3
  <2>12. CASE Tick
    BY <2>12, HorizonAssumption DEF Tick, Remaining
  <2>13. CASE UNCHANGED vars
    BY <2>13 DEF vars
  <2> QED
    BY <2>1, <2>2, <2>3, <2>4, <2>5, <2>6, <2>7, <2>8, <2>9, <2>10, <2>11,
       <2>12, <2>13, <2>14 DEF Next, Step
<1> QED
  BY <1>1, <1>2, PTL DEF Spec

-----------------------------------------------------------------------------
(* Spacing of the grants *)

\* The bucket opens exactly one imposed spacing after the last grant, and
\* nobody sleeps longer than a spacing somebody has asked for.
THEOREM BucketTiming == Spec => [](BucketExact /\ SleepBounded)
<1>1. Init => BucketExact /\ SleepBounded
  <2>1. DefaultInterval \in Spacings /\ DefaultInterval >= 0
    BY ConfigAssumption DEF Spacings
  <2> QED
    BY <2>1, HorizonAssumption DEF Init, BucketExact, SleepBounded
<1>2. TypeOK /\ BucketExact /\ SleepBounded /\ [Next]_vars
        => BucketExact' /\ SleepBounded'
  <2> SUFFICES ASSUME TypeOK, BucketExact, SleepBounded, [Next]_vars
               PROVE  BucketExact' /\ SleepBounded'
    OBVIOUS
  <2>1. /\ next \in Nat /\ interval \in Nat \ {0} /\ since \in 0..Horizon
        /\ gap \in 0..Horizon /\ sleepLeft \in [Calls -> Nat]
        /\ gap \in Spacings \cup {0} /\ \A i \in Spacings : i \in Nat
    BY SpacingFacts, HorizonAssumption DEF TypeOK
  <2>2. ASSUME NEW c \in Calls, TakeTurn(c) PROVE BucketExact' /\ SleepBounded'
    <3>1. CASE next = 0
      BY <2>1, <2>2, <3>1 DEF TakeTurn, BucketExact, SleepBounded
    <3>2. CASE next # 0
      <4>1. UNCHANGED <<next, since, gap>> /\ sleepLeft' = [sleepLeft EXCEPT ![c] = next]
        BY <2>2, <3>2 DEF TakeTurn, Wait, historyVars
      <4>2. gap \in Spacings /\ next <= gap
        BY <2>1, <3>2 DEF BucketExact
      <4>3. ASSUME NEW d \in Calls PROVE \E i \in Spacings : sleepLeft'[d] <= i
        BY <2>1, <4>1, <4>2, <4>3 DEF SleepBounded
      <4> QED
        BY <4>1, <4>3 DEF BucketExact, SleepBounded
    <3> QED
      BY <3>1, <3>2
  <2>3. ASSUME NEW c \in Calls, GiveUpSleeping(c)
        PROVE  BucketExact' /\ SleepBounded'
    <3>1. UNCHANGED <<next, since, gap>> /\ sleepLeft' = [sleepLeft EXCEPT ![c] = 0]
      BY <2>3 DEF GiveUpSleeping, bucketVars, historyVars
    <3>2. ASSUME NEW d \in Calls PROVE \E i \in Spacings : sleepLeft'[d] <= i
      BY <2>1, <3>1 DEF SleepBounded
    <3> QED
      BY <3>1, <3>2 DEF BucketExact, SleepBounded
  <2>4. CASE Tick
    <3>1. /\ since' = (IF since < Horizon THEN since + 1 ELSE since)
          /\ gap' = gap
          /\ next' = IF next > 0 THEN next - 1 ELSE 0
      BY <2>4 DEF Tick, Remaining
    <3>2. \A c \in Calls : sleepLeft'[c] \in Nat /\ sleepLeft'[c] <= sleepLeft[c]
      BY <2>1, <2>4 DEF Tick, Remaining
    <3>3. BucketExact'
      BY <2>1, <3>1, HorizonAssumption DEF BucketExact
    <3>4. SleepBounded'
      BY <2>1, <3>2 DEF SleepBounded
    <3> QED
      BY <3>3, <3>4
  <2>5. ASSUME UNCHANGED <<next, sleepLeft, since, gap>>
        PROVE  BucketExact' /\ SleepBounded'
    BY <2>5 DEF BucketExact, SleepBounded
  <2> QED
    BY <2>2, <2>3, <2>4, <2>5
    DEF Next, Step, Start, Enter, Retry, GiveUpParked, Sleep, WakeUp, Release,
        Cancel, SetRate, Tighten, vars
<1> QED
  BY <1>1, <1>2, Typing, PTL DEF Spec

\* Two grants are at least the spacing in force at the first one apart.
THEOREM Spacing == Spec => GrantsSpaced
<1>1. TypeOK /\ BucketExact /\ [Next]_vars
        => [\A c \in Calls : pc[c] # "held" /\ pc'[c] = "held"
                               => since >= gap]_vars
  <2> SUFFICES ASSUME TypeOK, BucketExact, Next, NEW c \in Calls,
                      pc[c] # "held", pc'[c] = "held"
               PROVE  since >= gap
    BY DEF vars
  <2>1. TakeTurn(c) /\ next = 0
    BY DEF Next, Step, Start, Enter, Retry, GiveUpParked, TakeTurn, Sleep, WakeUp,
           GiveUpSleeping, Release, FreeSlot, Cancel, SetRate, Tighten, Tick,
           TypeOK
  <2>2. since \in Nat /\ gap \in Nat
    BY SpacingFacts, HorizonAssumption DEF TypeOK
  <2> QED
    BY <2>1, <2>2 DEF BucketExact
<1> QED
  BY <1>1, Typing, BucketTiming, PTL DEF Spec, GrantsSpaced

-----------------------------------------------------------------------------
(* The slots of the gates *)

\* The strengthening: a write gate's limit never moves, so a counted write
\* slot is the only one.
SlotInv ==
    /\ SlotsCounted
    /\ gate["Write"].limit = 1
    /\ WriteExclusive
    /\ NoLostWakeup

LEMMA HoldersFinite ==
    \A cl \in Classes : /\ IsFiniteSet(Holders(cl))
                        /\ Cardinality(Holders(cl)) \in Nat
<1> TAKE cl \in Classes
<1>1. IsFiniteSet(Holders(cl))
  BY CallsAssumption, FS_Subset DEF Holders
<1> QED
  BY <1>1, FS_CardinalityType

\* A step that moves no call across the border of a gate, and parks nobody,
\* keeps the invariant.
LEMMA SameSlots ==
    ASSUME TypeOK, SlotInv,
           \A cl \in Classes : Holders(cl)' = Holders(cl),
           \A cl \in Classes : gate'[cl].active = gate[cl].active,
           gate'["Write"] = gate["Write"],
           \A c \in Calls : pc'[c] = "parked" => pc[c] = "parked"
    PROVE  SlotInv'
<1>1. SlotsCounted'
  BY DEF SlotInv, SlotsCounted
<1>2. WriteExclusive'
  BY DEF SlotInv, WriteExclusive
<1>3. NoLostWakeup'
  BY DEF SlotInv, NoLostWakeup
<1> QED
  BY <1>1, <1>2, <1>3 DEF SlotInv

\* gate.release keeps the count, and wakes whom it may have left waiting for
\* nobody.
LEMMA FreeSlotKeepsSlots ==
    ASSUME TypeOK, SlotInv, NEW c \in Calls, pc[c] \in SlotStates,
           NEW l \in Settled, FreeSlot(c, l)
    PROVE  SlotInv'
<1>1. /\ Holders(Class(c))' = Holders(Class(c)) \ {c}
      /\ c \in Holders(Class(c))
      /\ \A cl \in Classes \ {Class(c)} : Holders(cl)' = Holders(cl)
  BY DEF Holders, FreeSlot, Wakes, TypeOK
<1>2. /\ gate'[Class(c)].active = gate[Class(c)].active - 1
      /\ \A cl \in Classes \ {Class(c)} : gate'[cl] = gate[cl]
      /\ gate'["Write"].limit = gate["Write"].limit
  BY DEF FreeSlot, TypeOK
<1>3. Cardinality(Holders(Class(c))') = Cardinality(Holders(Class(c))) - 1
  BY <1>1, HoldersFinite, FS_RemoveElement
<1>4. SlotsCounted'
  BY <1>1, <1>2, <1>3 DEF SlotsCounted, SlotInv
<1>5. WriteExclusive'
  BY <1>1 DEF WriteExclusive, SlotInv
<1>6. NoLostWakeup'
  <2> SUFFICES ASSUME NEW d \in Calls, pc'[d] = "parked"
               PROVE  Holders(Class(d))' # {}
    BY DEF NoLostWakeup
  <2>1. pc[d] = "parked" /\ Class(d) # Class(c)
    BY DEF FreeSlot, Wakes, TypeOK
  <2> QED
    BY <2>1, <1>1 DEF NoLostWakeup, SlotInv
<1> QED
  BY <1>2, <1>4, <1>5, <1>6 DEF SlotInv

\* One turn of gate.acquire's loop.
LEMMA EnterKeepsSlots ==
    ASSUME TypeOK, SlotInv, NEW c \in Calls, Enter(c)
    PROVE  SlotInv'
<1>1. pc[c] = "gate" /\ c \notin Holders(Class(c))
  BY DEF Enter, Holders
<1>2. gate[Class(c)].active = Cardinality(Holders(Class(c)))
  BY DEF SlotInv, SlotsCounted
<1>3. gate[Class(c)].limit \in Nat \ {0}
  BY DEF TypeOK
<1>4. CASE Full(gate[Class(c)])
  <2>1. pc' = [pc EXCEPT ![c] = "parked"] /\ gate' = gate
    BY <1>4 DEF Enter
  <2>2. \A cl \in Classes : Holders(cl)' = Holders(cl)
    BY <2>1, <1>1 DEF Holders, TypeOK
  <2>3. Holders(Class(c)) # {}
    BY <1>2, <1>3, <1>4, FS_EmptySet DEF Full
  <2>4. NoLostWakeup'
    BY <2>1, <2>2, <2>3 DEF NoLostWakeup, SlotInv, TypeOK
  <2>5. SlotsCounted' /\ WriteExclusive'
    BY <2>1, <2>2 DEF SlotInv, SlotsCounted, WriteExclusive
  <2> QED
    BY <2>1, <2>4, <2>5 DEF SlotInv
<1>5. CASE ~Full(gate[Class(c)])
  <2>1. /\ pc' = [pc EXCEPT ![c] = "bucket"]
        /\ gate' = [gate EXCEPT ![Class(c)].active = @ + 1]
    BY <1>5 DEF Enter
  <2>2. /\ Holders(Class(c))' = Holders(Class(c)) \cup {c}
        /\ \A cl \in Classes \ {Class(c)} : Holders(cl)' = Holders(cl)
    BY <2>1 DEF Holders, TypeOK
  <2>3. Cardinality(Holders(Class(c))') = Cardinality(Holders(Class(c))) + 1
    BY <2>2, <1>1, HoldersFinite, FS_AddElement
  <2>4. /\ gate'[Class(c)].active = gate[Class(c)].active + 1
        /\ \A cl \in Classes \ {Class(c)} : gate'[cl] = gate[cl]
        /\ gate'["Write"].limit = gate["Write"].limit
    BY <2>1 DEF TypeOK
  <2>5. SlotsCounted'
    BY <2>2, <2>3, <2>4 DEF SlotsCounted, SlotInv
  <2>6. WriteExclusive'
    <3>1. CASE Class(c) = "Write"
      <4>1. Cardinality(Holders("Write")) = 0
        BY <1>2, <1>5, <3>1, HoldersFinite DEF Full, SlotInv
      <4>2. Holders("Write") = {}
        BY <4>1, HoldersFinite, FS_EmptySet
      <4> QED
        BY <4>2, <2>2, <3>1 DEF WriteExclusive
    <3>2. CASE Class(c) # "Write"
      BY <3>2, <2>2 DEF WriteExclusive, SlotInv
    <3> QED
      BY <3>1, <3>2
  <2>7. NoLostWakeup'
    BY <2>1, <2>2 DEF NoLostWakeup, SlotInv, TypeOK
  <2> QED
    BY <2>4, <2>5, <2>6, <2>7 DEF SlotInv
<1> QED
  BY <1>4, <1>5

\* The gates keep their invariant under every step.
LEMMA SlotInvariance == Spec => []SlotInv
<1>1. Init => SlotInv
  <2> SUFFICES ASSUME Init PROVE SlotInv
    OBVIOUS
  <2>1. \A cl \in Classes : Holders(cl) = {}
    BY DEF Init, Holders
  <2>2. SlotsCounted
    BY <2>1, FS_EmptySet DEF Init, SlotsCounted
  <2>3. gate["Write"].limit = 1
    BY DEF Init
  <2>4. WriteExclusive /\ NoLostWakeup
    BY <2>1 DEF Init, WriteExclusive, NoLostWakeup
  <2> QED
    BY <2>2, <2>3, <2>4 DEF SlotInv
<1>2. TypeOK /\ SlotInv /\ [Next]_vars => SlotInv'
  <2> SUFFICES ASSUME TypeOK, SlotInv, [Next]_vars PROVE SlotInv'
    OBVIOUS
  <2>1. ASSUME NEW c \in Calls,
               \/ Start(c)  \/ Retry(c)  \/ GiveUpParked(c)
               \/ TakeTurn(c) \/ Sleep(c) \/ WakeUp(c)
        PROVE  SlotInv'
    <3>1. /\ gate' = gate
          /\ \A d \in Calls : pc'[d] = "parked" => pc[d] = "parked"
          /\ \A d \in Calls : pc'[d] \in SlotStates <=> pc[d] \in SlotStates
      BY <2>1 DEF Start, Retry, GiveUpParked, TakeTurn, Sleep, WakeUp, TypeOK
    <3>2. \A cl \in Classes : Holders(cl)' = Holders(cl)
      BY <3>1 DEF Holders
    <3> QED
      BY <3>1, <3>2, SameSlots
  <2>2. ASSUME NEW c \in Calls, Enter(c) PROVE SlotInv'
    BY <2>2, EnterKeepsSlots
  <2>3. ASSUME NEW c \in Calls, GiveUpSleeping(c) PROVE SlotInv'
    <3>1. FreeSlot(c, "failed") /\ "failed" \in Settled /\ pc[c] \in SlotStates
      BY <2>3 DEF GiveUpSleeping
    <3> QED
      BY <3>1, FreeSlotKeepsSlots
  <2>4. ASSUME NEW c \in Calls, Release(c) PROVE SlotInv'
    <3>1. FreeSlot(c, "done") /\ "done" \in Settled /\ pc[c] \in SlotStates
      BY <2>4 DEF Release
    <3> QED
      BY <3>1, FreeSlotKeepsSlots
  <2>5. ASSUME NEW k \in Clients, Tighten(k) PROVE SlotInv'
    <3>1. /\ pc' = pc
          /\ gate'["Write"] = gate["Write"]
          /\ \A cl \in Classes : gate'[cl].active = gate[cl].active
      BY <2>5 DEF Tighten, TypeOK
    <3>2. \A cl \in Classes : Holders(cl)' = Holders(cl)
      BY <3>1 DEF Holders
    <3> QED
      BY <3>1, <3>2, SameSlots
  <2>6. ASSUME UNCHANGED <<pc, gate>> PROVE SlotInv'
    <3>1. \A cl \in Classes : Holders(cl)' = Holders(cl)
      BY <2>6 DEF Holders
    <3> QED
      BY <2>6, <3>1, SameSlots
  <2> QED
    BY <2>1, <2>2, <2>3, <2>4, <2>5, <2>6
    DEF Next, Step, Cancel, SetRate, Tick, vars
<1> QED
  BY <1>1, <1>2, Typing, PTL DEF Spec

\* No slot is leaked or given back twice, and writes are exclusive, however
\* calls are cancelled and limits changed.
THEOREM Slots == Spec => [](SlotsCounted /\ WriteExclusive)
<1>1. SlotInv => SlotsCounted /\ WriteExclusive
  BY DEF SlotInv
<1> QED
  BY <1>1, SlotInvariance, PTL

\* Nobody waits for a wake-up that cannot come: while a call is parked,
\* somebody holds a slot of its class and will close the channel.
THEOREM WakeUps == Spec => []NoLostWakeup
<1>1. SlotInv => NoLostWakeup
  BY DEF SlotInv
<1> QED
  BY <1>1, SlotInvariance, PTL

\* After Configure has lowered the read limit below the number of readers
\* inside, readers only leave: Enter lets one in only if it fits.
THEOREM Draining == Spec => ReadsDrain
<1> DEFINE R == Holders("Read")
           Drains == Cardinality(R') > gate["Read"].limit' => R' \subseteq R
<1>1. TypeOK /\ SlotInv /\ SlotInv' /\ [Next]_vars => [Drains]_vars
  <2> SUFFICES ASSUME TypeOK, SlotInv, SlotInv', Next
               PROVE  Drains
    BY DEF vars
  <2>1. ASSUME NEW c \in Calls, Enter(c)
        PROVE  Drains
    <3>1. CASE c \notin Writes /\ ~ Full(gate["Read"])
      <4>1. /\ gate["Read"].active \in Int /\ gate["Read"].limit \in Nat
            /\ gate'["Read"].active = gate["Read"].active + 1
            /\ gate'["Read"].limit = gate["Read"].limit
        BY <2>1, <3>1 DEF Enter, Class, TypeOK, Classes
      <4>2. gate'["Read"].active <= gate'["Read"].limit
        BY <3>1, <4>1 DEF Full
      <4>3. Cardinality(R') = gate'["Read"].active
        BY DEF SlotInv, SlotsCounted, Classes
      <4> QED
        BY <4>1, <4>2, <4>3
    <3>2. CASE c \in Writes \/ Full(gate["Read"])
      <4>1. R' \subseteq R
        BY <2>1, <3>2 DEF Enter, Goto, Holders, Class, SlotStates, TypeOK
      <4> QED
        BY <4>1
    <3> QED
      BY <3>1, <3>2
  <2>2. ASSUME NEW c \in Calls,
               \/ Start(c) \/ Retry(c) \/ GiveUpParked(c)
               \/ TakeTurn(c) \/ Sleep(c) \/ WakeUp(c)
        PROVE  Drains
    <3>1. R' \subseteq R
      BY <2>2 DEF Start, Retry, GiveUpParked, TakeTurn, Sleep, WakeUp, Goto, Holders, Class,
                  SlotStates, TypeOK
    <3> QED
      BY <3>1
  <2>3. ASSUME NEW c \in Calls, GiveUpSleeping(c) \/ Release(c)
        PROVE  Drains
    <3>1. R' \subseteq R
      BY <2>3 DEF GiveUpSleeping, Release, FreeSlot, Wakes, Holders, Class, SlotStates, TypeOK
    <3> QED
      BY <3>1
  <2>4. CASE UNCHANGED pc
    <3>1. R' = R
      BY <2>4 DEF Holders, Class
    <3> QED
      BY <3>1
  <2> QED
    BY <2>1, <2>2, <2>3, <2>4 DEF Next, Step, Cancel, SetRate, Tighten, Tick
<1> QED
  BY <1>1, Typing, SlotInvariance, PTL DEF Spec, ReadsDrain

-----------------------------------------------------------------------------
(* The configuration                                                       *)

\* What the limiter keeps is the tightest of what has been applied so far.
RateInv ==
    /\ rpsSet => \E k \in Clients : cfgpc[k] # "new" /\ Rate[k] > 0 /\ Rate[k] = interval
    /\ \A k \in Clients :
         cfgpc[k] # "new" /\ Rate[k] > 0 => rpsSet /\ interval >= Rate[k]

LimitInv ==
    LET g == gate["Read"] IN
    /\ g.set => \E k \in Clients : /\ cfgpc[k] = "done"
                                   /\ ReadConcurrency[k] > 0
                                   /\ ReadConcurrency[k] = g.limit
    /\ \A k \in Clients :
         cfgpc[k] = "done" /\ ReadConcurrency[k] > 0
           => g.set /\ g.limit <= ReadConcurrency[k]

\* Whichever client comes first, the limiter ends up with the tightest rate
\* and the tightest read limit that anybody asked for.
THEOREM ConfigOrder == Spec => []ConfigOrderIrrelevant
<1>0. /\ \A k \in Clients : Rate[k] \in Nat /\ ReadConcurrency[k] \in Nat
      /\ \A i \in Spacings : i \in Nat
  BY SpacingFacts, ConfigAssumption, HorizonAssumption
<1>1. Init => RateInv /\ LimitInv
  BY DEF Init, RateInv, LimitInv
<1>2. TypeOK /\ RateInv /\ LimitInv /\ [Next]_vars => RateInv' /\ LimitInv'
  <2> SUFFICES ASSUME TypeOK, RateInv, LimitInv, [Next]_vars
               PROVE  RateInv' /\ LimitInv'
    OBVIOUS
  <2>1. ASSUME NEW k \in Clients, SetRate(k) PROVE RateInv' /\ LimitInv'
    <3>1. LimitInv'
      BY <2>1 DEF SetRate, LimitInv, TypeOK
    <3>2. CASE RateApplies(k)
      <4>1. interval' = Rate[k] /\ rpsSet' /\ cfgpc' = [cfgpc EXCEPT ![k] = "rated"]
        BY <2>1, <3>2 DEF SetRate
      <4>2. \A l \in Clients :
              cfgpc'[l] # "new" /\ Rate[l] > 0 => Rate[k] >= Rate[l]
        BY <1>0, <3>2, <4>1 DEF RateApplies, RateInv, TypeOK
      <4>3. Rate[k] > 0 /\ cfgpc'[k] # "new"
        BY <2>1, <3>2, <4>1 DEF RateApplies, SetRate, TypeOK
      <4>4. \A l \in Clients :
              cfgpc'[l] # "new" /\ Rate[l] > 0 => rpsSet' /\ interval' >= Rate[l]
        BY <4>1, <4>2
      <4>5. rpsSet' => \E l \in Clients :
                         cfgpc'[l] # "new" /\ Rate[l] > 0 /\ Rate[l] = interval'
        BY <4>1, <4>3
      <4> QED
        BY <3>1, <4>4, <4>5 DEF RateInv
    <3>3. CASE ~ RateApplies(k)
      <4>1. interval' = interval /\ rpsSet' = rpsSet
            /\ cfgpc' = [cfgpc EXCEPT ![k] = "rated"]
        BY <2>1, <3>3 DEF SetRate
      <4>2. Rate[k] > 0 => rpsSet /\ interval >= Rate[k]
        BY <1>0, <3>3 DEF RateApplies, TypeOK
      <4>3. \A l \in Clients : cfgpc[l] # "new" => cfgpc'[l] # "new"
        BY <4>1 DEF TypeOK
      <4>4. \A l \in Clients : cfgpc'[l] # "new" => l = k \/ cfgpc[l] # "new"
        BY <4>1 DEF TypeOK
      <4>5. \A l \in Clients :
              cfgpc'[l] # "new" /\ Rate[l] > 0 => rpsSet /\ interval >= Rate[l]
        BY <4>2, <4>4 DEF RateInv
      <4>6. rpsSet => \E l \in Clients :
                        cfgpc'[l] # "new" /\ Rate[l] > 0 /\ Rate[l] = interval
        BY <4>3 DEF RateInv
      <4> QED
        BY <3>1, <4>1, <4>5, <4>6 DEF RateInv
    <3> QED
      BY <3>2, <3>3
  <2>2. ASSUME NEW k \in Clients, Tighten(k) PROVE RateInv' /\ LimitInv'
    <3>1. RateInv'
      BY <2>2 DEF Tighten, RateInv, TypeOK, bucketVars
    <3>2. LimitInv'
      BY <1>0, <2>2 DEF Tighten, LimitInv, TypeOK, Classes
    <3> QED
      BY <3>1, <3>2
  <2>3. ASSUME UNCHANGED <<interval, rpsSet, cfgpc>>,
               gate'["Read"].limit = gate["Read"].limit,
               gate'["Read"].set = gate["Read"].set
        PROVE  RateInv' /\ LimitInv'
    BY <2>3 DEF RateInv, LimitInv
  <2>4. ASSUME NEW c \in Calls, Step(c) \/ Cancel(c) PROVE RateInv' /\ LimitInv'
    BY <2>3, <2>4 DEF Step, Start, Enter, Retry, GiveUpParked, TakeTurn, Sleep, WakeUp,
                      GiveUpSleeping, Release, FreeSlot, Cancel, TypeOK, bucketVars, Classes
  <2>5. CASE Tick \/ UNCHANGED vars
    BY <2>3, <2>5 DEF Tick, vars, bucketVars
  <2> QED
    BY <2>1, <2>2, <2>4, <2>5 DEF Next
<1>3. TypeOK /\ RateInv /\ LimitInv => ConfigOrderIrrelevant
  BY <1>0 DEF TypeOK, RateInv, LimitInv, ConfigOrderIrrelevant, Explicit
<1> QED
  BY <1>1, <1>2, <1>3, Typing, PTL DEF Spec

-----------------------------------------------------------------------------
(* Refinement of AccountBudget *)

\* The readers inside the gate never outnumber the loosest limit anyone
\* asked for; a limit lowered under them does not make them more.
ReadsBounded ==
    /\ gate["Read"].limit \in ReadLimits
    /\ gate["Read"].active <= MostReads

LEMMA MostReadsFacts ==
    MostReads \in ReadLimits /\ MostReads \in Nat
      /\ \A n \in ReadLimits : n <= MostReads /\ n \in Nat
<1>1. \A n \in ReadLimits : n \in Nat
  BY ConfigAssumption DEF ReadLimits
<1>2. MostReads \in ReadLimits /\ \A n \in ReadLimits : n <= MostReads
  BY ReadLimitsAssumption DEF MostReads
<1> QED
  BY <1>1, <1>2

\* Never more readers inside than the loosest limit in the configuration.
THEOREM BoundedReads == Spec => []ReadsBounded
<1>1. Init => ReadsBounded
  <2> SUFFICES ASSUME Init PROVE ReadsBounded
    OBVIOUS
  <2>1. gate["Read"].limit = DefaultReads /\ gate["Read"].active = 0
    BY DEF Init
  <2> QED
    BY <2>1, MostReadsFacts DEF ReadsBounded, ReadLimits
<1>2. TypeOK /\ ReadsBounded /\ [Next]_vars => ReadsBounded'
  <2> SUFFICES ASSUME TypeOK, ReadsBounded, [Next]_vars PROVE ReadsBounded'
    OBVIOUS
  <2>1. /\ gate["Read"].active \in Int
        /\ gate["Read"].limit \in Nat
        /\ MostReads \in Nat
        /\ gate["Read"].limit <= MostReads
    BY MostReadsFacts DEF TypeOK, ReadsBounded
  <2>2. ASSUME NEW c \in Calls, Enter(c) PROVE ReadsBounded'
    <3>1. CASE gate' = gate
      BY <3>1 DEF ReadsBounded
    <3>2. CASE gate' # gate
      <4>1. /\ ~Full(gate[Class(c)])
            /\ gate' = [gate EXCEPT ![Class(c)].active = @ + 1]
        BY <2>2, <3>2 DEF Enter
      <4>2. /\ gate'["Read"].limit = gate["Read"].limit
            /\ \/ gate'["Read"].active = gate["Read"].active
               \/ /\ gate'["Read"].active = gate["Read"].active + 1
                  /\ gate["Read"].active < gate["Read"].limit
        BY <4>1, <2>1 DEF TypeOK, Full
      <4> QED
        BY <4>2, <2>1 DEF ReadsBounded
    <3> QED
      BY <3>1, <3>2
  <2>3. ASSUME NEW c \in Calls, NEW l, FreeSlot(c, l) PROVE ReadsBounded'
    <3>1. /\ gate'["Read"].limit = gate["Read"].limit
          /\ \/ gate'["Read"].active = gate["Read"].active
             \/ gate'["Read"].active = gate["Read"].active - 1
      BY <2>3 DEF FreeSlot, TypeOK
    <3> QED
      BY <3>1, <2>1 DEF ReadsBounded
  <2>4. ASSUME NEW k \in Clients, Tighten(k) PROVE ReadsBounded'
    <3>1. gate'["Read"].active = gate["Read"].active
      BY <2>4 DEF Tighten, TypeOK
    <3>2. gate'["Read"].limit \in {gate["Read"].limit, ReadConcurrency[k]}
      BY <2>4 DEF Tighten, TypeOK
    <3> QED
      BY <3>1, <3>2 DEF ReadsBounded, ReadLimits
  <2>5. CASE UNCHANGED gate
    BY <2>5 DEF ReadsBounded
  <2> QED
    BY <2>2, <2>3, <2>4, <2>5
    DEF Next, Step, Start, Retry, GiveUpParked, TakeTurn, Sleep, WakeUp,
        GiveUpSleeping, Release, Cancel, SetRate, Tick, vars
<1> QED
  BY <1>1, <1>2, Typing, PTL DEF Spec

HeldCalls == {c \in Calls : pc[c] = "held"}
DoneCalls == {c \in Calls : pc[c] = "done"}

\* The Cardinality AccountBudget brings along is the one used here.
LEMMA SameCardinality == \A S : Budget!Cardinality(S) = Cardinality(S)
BY DEF Cardinality, Budget!Cardinality

\* Just before call c is granted there is room for it among the held calls.
LEMMA RoomForGrant ==
    ASSUME TypeOK, SlotInv, ReadsBounded, NEW c \in Calls, pc[c] = "bucket"
    PROVE  IF c \in Writes THEN HeldCalls \cap Writes = {}
                           ELSE Cardinality(HeldCalls \ Writes) < MostReads
<1>1. CASE c \in Writes
  BY <1>1 DEF SlotInv, WriteExclusive, Holders, HeldCalls
<1>2. CASE c \notin Writes
  <2>1. c \in Holders("Read")
    BY <1>2 DEF Holders
  <2>2. HeldCalls \ Writes \subseteq Holders("Read") \ {c}
    BY DEF Holders, HeldCalls
  <2>3. /\ IsFiniteSet(Holders("Read") \ {c})
        /\ Cardinality(Holders("Read") \ {c}) = Cardinality(Holders("Read")) - 1
    BY <2>1, HoldersFinite, FS_RemoveElement
  <2>4. /\ Cardinality(HeldCalls \ Writes) <= Cardinality(Holders("Read") \ {c})
        /\ IsFiniteSet(HeldCalls \ Writes)
    BY <2>2, <2>3, FS_Subset
  <2>5. Cardinality(Holders("Read")) <= MostReads
    BY DEF SlotInv, SlotsCounted, ReadsBounded
  <2>6. /\ Cardinality(Holders("Read")) \in Nat
        /\ Cardinality(HeldCalls \ Writes) \in Nat
    BY <2>4, HoldersFinite, FS_CardinalityType
  <2>7. MostReads \in Nat
    BY MostReadsFacts
  <2>8. Cardinality(HeldCalls \ Writes) < MostReads
    BY <2>3, <2>4, <2>5, <2>6, <2>7
  <2> QED
    BY <1>2, <2>8
<1> QED
  BY <1>1, <1>2

\* What callers of Acquire observe is an execution of AccountBudget: the
\* gates, wake channels and the bucket together implement the promise.
THEOREM Implements == Spec => ImplementsBudget
<1>1. Init => Budget!Init
  BY DEF Init, Budget!Init
<1>2. TypeOK /\ SlotInv /\ BucketExact /\ ReadsBounded /\ [Next]_vars
        => [Budget!Next]_(Budget!vars)
  <2> SUFFICES ASSUME TypeOK, SlotInv, BucketExact, ReadsBounded, [Next]_vars
               PROVE  [Budget!Next]_(Budget!vars)
    OBVIOUS
  <2> USE DEF HeldCalls, DoneCalls
  <2>1. ASSUME NEW c \in Calls, TakeTurn(c) PROVE [Budget!Next]_(Budget!vars)
    <3>1. CASE next = 0
      <4>1. /\ HeldCalls' = HeldCalls \cup {c}
            /\ DoneCalls' = DoneCalls
            /\ c \notin HeldCalls \cup DoneCalls
            /\ since' = 0
            /\ gap' = interval
        BY <2>1, <3>1 DEF TakeTurn, TypeOK
      <4>2. since >= gap
        <5>1. since \in Nat /\ gap \in Nat
          BY SpacingFacts, HorizonAssumption DEF TypeOK
        <5> QED
          BY <5>1, <3>1 DEF BucketExact
      <4>3. gap' \in Spacings
        BY <4>1 DEF TypeOK
      <4>4. IF c \in Writes THEN HeldCalls \cap Writes = {}
                            ELSE Cardinality(HeldCalls \ Writes) < MostReads
        BY <2>1, RoomForGrant DEF TakeTurn
      <4>5. Budget!Grant(c)
        <5>1. CASE c \in Writes
          BY <5>1, <4>1, <4>2, <4>3, <4>4 DEF Budget!Grant
        <5>2. CASE c \notin Writes
          <6>1. Cardinality(HeldCalls \ Writes) < MostReads
            BY <5>2, <4>4
          <6>2. Budget!Cardinality(HeldCalls \ Writes) < MostReads
            BY <6>1, SameCardinality
          <6> QED
            BY <5>2, <6>2, <4>1, <4>2, <4>3 DEF Budget!Grant
        <5> QED
          BY <5>1, <5>2
      <4> QED
        BY <4>5 DEF Budget!Next
    <3>2. CASE next # 0
      <4>1. UNCHANGED <<HeldCalls, DoneCalls, since, gap>>
        BY <2>1, <3>2 DEF TakeTurn, TypeOK
      <4> QED
        BY <4>1 DEF Budget!vars
    <3> QED
      BY <3>1, <3>2
  <2>2. ASSUME NEW c \in Calls, Release(c) PROVE [Budget!Next]_(Budget!vars)
    <3>1. /\ c \in HeldCalls
          /\ HeldCalls' = HeldCalls \ {c}
          /\ DoneCalls' = DoneCalls \cup {c}
          /\ UNCHANGED <<since, gap>>
      BY <2>2 DEF Release, FreeSlot, Wakes, TypeOK
    <3>2. Budget!Return(c)
      BY <3>1 DEF Budget!Return
    <3> QED
      BY <3>2 DEF Budget!Next
  <2>3. ASSUME NEW c \in Calls,
               \/ Start(c)  \/ Enter(c)  \/ Retry(c)  \/ GiveUpParked(c)
               \/ Sleep(c) \/ WakeUp(c)
        PROVE  [Budget!Next]_(Budget!vars)
    <3>1. UNCHANGED <<HeldCalls, DoneCalls, since, gap>>
      BY <2>3 DEF Start, Enter, Retry, GiveUpParked, Sleep, WakeUp, TypeOK
    <3> QED
      BY <3>1 DEF Budget!vars
  <2>4. ASSUME NEW c \in Calls, GiveUpSleeping(c)
        PROVE  [Budget!Next]_(Budget!vars)
    <3>1. UNCHANGED <<HeldCalls, DoneCalls, since, gap>>
      BY <2>4 DEF GiveUpSleeping, FreeSlot, Wakes, TypeOK
    <3> QED
      BY <3>1 DEF Budget!vars
  <2>5. CASE Tick
    <3>1. UNCHANGED <<HeldCalls, DoneCalls, gap>>
      BY <2>5 DEF Tick
    <3>2. CASE since < Horizon
      <4>1. Budget!TimePasses
        BY <2>5, <3>1, <3>2 DEF Tick, Budget!TimePasses
      <4> QED
        BY <4>1 DEF Budget!Next
    <3>3. CASE ~(since < Horizon)
      <4>1. since' = since
        BY <2>5, <3>3 DEF Tick
      <4> QED
        BY <3>1, <4>1 DEF Budget!vars
    <3> QED
      BY <3>2, <3>3
  <2>6. ASSUME UNCHANGED <<pc, since, gap>>
        PROVE  [Budget!Next]_(Budget!vars)
    <3>1. UNCHANGED <<HeldCalls, DoneCalls, since, gap>>
      BY <2>6
    <3> QED
      BY <3>1 DEF Budget!vars
  <2> QED
    BY <2>1, <2>2, <2>3, <2>4, <2>5, <2>6
    DEF Next, Step, Cancel, SetRate, Tighten, vars
<1>3. Spec => []SlotInv
  BY SlotInvariance
<1> QED
  BY <1>1, <1>2, <1>3, Typing, BucketTiming, BoundedReads, PTL
  DEF Spec, ImplementsBudget, Budget!Spec
=============================================================================

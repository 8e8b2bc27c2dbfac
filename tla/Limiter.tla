------------------------------ MODULE Limiter ------------------------------
(***************************************************************************)
(* The limiter of one account (src/pace/pace.go): Acquire takes a slot of  *)
(* the class gate, then waits for its turn on the token bucket; release    *)
(* gives the slot back; Configure may change the rate and the read limit   *)
(* while calls are in flight; a context may be cancelled anywhere.         *)
(*                                                                         *)
(* An action is one critical section of the code (l.mu or gate.mu) or one  *)
(* outcome of a select, so calls interleave exactly where the mutexes let  *)
(* them.  Time is relative: of every instant the code keeps, the model has *)
(* the ticks still to go, so no clock needs a bound.                       *)
(*                                                                         *)
(* An operator named X_Suffix is a faulty variant of X, used only to show  *)
(* that the properties notice the fault.                                   *)
(***************************************************************************)
EXTENDS Integers, FiniteSets

CONSTANTS
    Calls,            \* calls of Acquire, one per element
    Writes,           \* those of class Write; the others are reads
    Clients,          \* clients that attach to this limiter and configure it
    Rate,             \* the spacing a client asks for; 0: a non-positive rps
    ReadConcurrency,  \* the read limit a client asks for; 0: non-positive
    DefaultInterval,  \* spacing of a limiter never configured
    DefaultReads,     \* read limit of a limiter never configured
    Horizon           \* bound: the history clock "since" saturates here

Spacings == {DefaultInterval} \cup {Rate[k] : k \in Clients}
ReadLimits == {DefaultReads} \cup {ReadConcurrency[k] : k \in Clients}

ASSUME CallsAssumption == IsFiniteSet(Calls) /\ Writes \subseteq Calls
ASSUME ConfigAssumption ==
    /\ Rate \in [Clients -> Nat]
    /\ ReadConcurrency \in [Clients -> Nat]
    /\ DefaultInterval \in Nat \ {0}
    /\ DefaultReads \in Nat \ {0}
ASSUME ReadLimitsAssumption == \E m \in ReadLimits : \A n \in ReadLimits : n <= m
ASSUME HorizonAssumption == Horizon \in Nat /\ \A i \in Spacings : i <= Horizon

Classes == {"Read", "Write"}
Class(c) == IF c \in Writes THEN "Write" ELSE "Read"

VARIABLES
    pc,         \* where each call is
    cancelled,  \* the calls whose context is done
    gate,       \* per class: slots in use, limit, explicit limit configured
    interval,   \* spacing the bucket imposes from now on
    rpsSet,     \* an explicit rate has been configured
    next,       \* ticks until the bucket grants again
    sleepLeft,  \* per call: ticks left of the sleep it is in, or about to begin
    cfgpc,      \* per client: how far its Configure has come
    since,      \* history: ticks since the last grant, at most Horizon
    gap         \* history: spacing the last grant imposed

bucketVars == <<interval, rpsSet, next>>
historyVars == <<since, gap>>
vars == <<pc, cancelled, gate, interval, rpsSet, next, sleepLeft, cfgpc,
          since, gap>>

\* A call holds a slot of its gate from the gate to the release.
SlotStates == {"bucket", "timed", "sleeping", "held"}
Settled == {"done", "failed"}
CallStates == {"idle", "gate", "parked", "woken"} \cup SlotStates \cup Settled

Holders(cl) == {c \in Calls : Class(c) = cl /\ pc[c] \in SlotStates}

TypeOK ==
    /\ pc \in [Calls -> CallStates]
    /\ cancelled \in SUBSET Calls
    /\ gate \in [Classes -> [active : Int, limit : Nat \ {0}, set : BOOLEAN]]
    /\ interval \in Spacings \ {0}
    /\ rpsSet \in BOOLEAN
    /\ next \in Nat
    /\ sleepLeft \in [Calls -> Nat]
    /\ cfgpc \in [Clients -> {"new", "rated", "done"}]
    /\ since \in 0..Horizon
    /\ gap \in Spacings \cup {0}

-----------------------------------------------------------------------------
(* newLimiter *)

Init ==
    /\ pc = [c \in Calls |-> "idle"]
    /\ cancelled = {}
    /\ gate = [cl \in Classes |->
                 [active |-> 0,
                  limit  |-> IF cl = "Write" THEN 1 ELSE DefaultReads,
                  set    |-> FALSE]]
    /\ interval = DefaultInterval
    /\ rpsSet = FALSE
    /\ next = 0
    /\ sleepLeft = [c \in Calls |-> 0]
    /\ cfgpc = [k \in Clients |-> "new"]
    /\ since = Horizon
    /\ gap = 0

Goto(c, l) == pc' = [pc EXCEPT ![c] = l]

\* What is left of a wait a tick later; an instant that is past is now.
Remaining(n) == IF n > 0 THEN n - 1 ELSE 0

-----------------------------------------------------------------------------
(* Acquire *)

\* The check of ctx.Err() that precedes everything else.
Start(c) ==
    /\ pc[c] = "idle"
    /\ Goto(c, IF c \in cancelled THEN "failed" ELSE "gate")
    /\ UNCHANGED <<cancelled, gate, bucketVars, sleepLeft, cfgpc, historyVars>>

\* The condition of gate.acquire's loop.
Full_OffByOne(g) == g.active > g.limit
Full_OnlyAtLimit(g) == g.active = g.limit
Full(g) == g.active >= g.limit

\* gate.acquire, one turn of its loop under g.mu: a free slot is taken;
\* otherwise the call has the wake channel of this moment and waits on it.
Enter(c) ==
    LET g == gate[Class(c)] IN
    /\ pc[c] = "gate"
    /\ IF Full(g)
         THEN Goto(c, "parked") /\ UNCHANGED gate
         ELSE /\ Goto(c, "bucket")
              /\ gate' = [gate EXCEPT ![Class(c)].active = @ + 1]
    /\ UNCHANGED <<cancelled, bucketVars, sleepLeft, cfgpc, historyVars>>

\* The select of gate.acquire sees its channel closed and tries again.
Retry(c) ==
    /\ pc[c] = "woken"
    /\ Goto(c, "gate")
    /\ UNCHANGED <<cancelled, gate, bucketVars, sleepLeft, cfgpc, historyVars>>

\* The same select sees the context done, even when it was woken as well.
GiveUpParked(c) ==
    /\ pc[c] \in {"parked", "woken"}
    /\ c \in cancelled
    /\ Goto(c, "failed")
    /\ UNCHANGED <<cancelled, gate, bucketVars, sleepLeft, cfgpc, historyVars>>

Wait_Swapped == 0 - next
\* How long waitTurn sleeps before it looks again.
Wait == next

\* waitTurn, one turn of its loop under l.mu: the bucket grants and is
\* pushed one interval ahead, or the call knows how long it has to sleep.
\* The context is not looked at here.
TakeTurn(c) ==
    /\ pc[c] = "bucket"
    /\ IF next = 0
         THEN /\ next' = interval
              /\ since' = 0
              /\ gap' = interval
              /\ Goto(c, "held")
              /\ UNCHANGED sleepLeft
         ELSE /\ sleepLeft' = [sleepLeft EXCEPT ![c] = Wait]
              /\ Goto(c, "timed")
              /\ UNCHANGED <<next, historyVars>>
    /\ UNCHANGED <<cancelled, gate, interval, rpsSet, cfgpc>>

\* sleepCtx starts its timer, some time after l.mu was unlocked.
Sleep(c) ==
    /\ pc[c] = "timed"
    /\ Goto(c, "sleeping")
    /\ UNCHANGED <<cancelled, gate, bucketVars, sleepLeft, cfgpc, historyVars>>

\* sleepCtx returns nil: the timer fired, and the loop looks again.
WakeUp(c) ==
    /\ pc[c] = "sleeping"
    /\ sleepLeft[c] = 0
    /\ Goto(c, "bucket")
    /\ UNCHANGED <<cancelled, gate, bucketVars, sleepLeft, cfgpc, historyVars>>

\* The calls that wait on the channel call c's release closes.
Wakes_Nobody(c) == {}
Wakes(c) == {d \in Calls : Class(d) = Class(c) /\ pc[d] = "parked"}

\* gate.release by call c, which goes on to l.
FreeSlot(c, l) ==
    /\ gate' = [gate EXCEPT ![Class(c)].active = @ - 1]
    /\ pc' = [d \in Calls |->
                IF d = c THEN l
                ELSE IF d \in Wakes(c) THEN "woken"
                ELSE pc[d]]

GiveUpSleeping_KeepSlot(c) ==
    /\ pc[c] = "sleeping"
    /\ c \in cancelled
    /\ Goto(c, "failed")
    /\ sleepLeft' = [sleepLeft EXCEPT ![c] = 0]
    /\ UNCHANGED <<cancelled, gate, bucketVars, cfgpc, historyVars>>

\* sleepCtx returns ctx.Err(): Acquire gives the class slot back and fails.
GiveUpSleeping(c) ==
    /\ pc[c] = "sleeping"
    /\ c \in cancelled
    /\ FreeSlot(c, "failed")
    /\ sleepLeft' = [sleepLeft EXCEPT ![c] = 0]
    /\ UNCHANGED <<cancelled, bucketVars, cfgpc, historyVars>>

\* The caller runs the release function Acquire returned to it.
Release(c) ==
    /\ pc[c] = "held"
    /\ FreeSlot(c, "done")
    /\ UNCHANGED <<cancelled, bucketVars, sleepLeft, cfgpc, historyVars>>

-----------------------------------------------------------------------------
(* Configure, whose two knobs are set under two different mutexes *)

RateApplies_LastWins(k) == Rate[k] > 0
RateApplies(k) == Rate[k] > 0 /\ (~rpsSet \/ Rate[k] > interval)

SetRate_Retroactive(k) ==
    /\ cfgpc[k] = "new"
    /\ cfgpc' = [cfgpc EXCEPT ![k] = "rated"]
    /\ IF RateApplies(k)
         THEN interval' = Rate[k] /\ rpsSet' = TRUE /\ next' = Rate[k]
         ELSE UNCHANGED bucketVars
    /\ UNCHANGED <<pc, cancelled, gate, sleepLeft, historyVars>>

SetRate(k) ==
    /\ cfgpc[k] = "new"
    /\ cfgpc' = [cfgpc EXCEPT ![k] = "rated"]
    /\ IF RateApplies(k)
         THEN interval' = Rate[k] /\ rpsSet' = TRUE
         ELSE UNCHANGED <<interval, rpsSet>>
    /\ UNCHANGED <<pc, cancelled, gate, next, sleepLeft, historyVars>>

\* gate.tighten: nobody is woken, and slots already granted stay granted.
Tighten(k) ==
    LET g == gate["Read"] IN
    /\ cfgpc[k] = "rated"
    /\ cfgpc' = [cfgpc EXCEPT ![k] = "done"]
    /\ gate' = IF ReadConcurrency[k] > 0
                     /\ (~g.set \/ ReadConcurrency[k] < g.limit)
                 THEN [gate EXCEPT !["Read"] =
                         [@ EXCEPT !.limit = ReadConcurrency[k], !.set = TRUE]]
                 ELSE gate
    /\ UNCHANGED <<pc, cancelled, bucketVars, sleepLeft, historyVars>>

-----------------------------------------------------------------------------
(* The environment *)

\* The caller's context is cancelled or its deadline passes.
Cancel(c) ==
    /\ c \notin cancelled
    /\ pc[c] \notin Settled
    /\ cancelled' = cancelled \cup {c}
    /\ UNCHANGED <<pc, gate, bucketVars, sleepLeft, cfgpc, historyVars>>

Tick ==
    /\ next' = Remaining(next)
    /\ sleepLeft' = [c \in Calls |-> IF pc[c] = "sleeping" THEN Remaining(sleepLeft[c])
                                    ELSE sleepLeft[c]]
    /\ since' = IF since < Horizon THEN since + 1 ELSE since
    /\ UNCHANGED <<pc, cancelled, gate, interval, rpsSet, cfgpc, gap>>

\* Steps of a call's goroutine; a call that is not cancelled finishes them.
Step(c) ==
    \/ Start(c)
    \/ Enter(c)
    \/ Retry(c)
    \/ GiveUpParked(c)
    \/ TakeTurn(c)
    \/ Sleep(c)
    \/ WakeUp(c)
    \/ GiveUpSleeping(c)
    \/ Release(c)

Next ==
    \/ \E c \in Calls : Step(c) \/ Cancel(c)
    \/ \E k \in Clients : SetRate(k) \/ Tighten(k)
    \/ Tick

Spec == Init /\ [][Next]_vars

\* Goroutines are scheduled, callers release what they were granted (Do and
\* Download defer the release), and time passes.
Fairness ==
    /\ \A c \in Calls : WF_vars(Step(c))
    /\ WF_vars(Tick)

FairSpec == Spec /\ Fairness

-----------------------------------------------------------------------------
(* Safety *)

\* The slots a gate counts as taken are those of calls that are inside it:
\* no cancellation at any point leaks a slot or gives one back twice
\* (Acquire: "On error nothing is held").
SlotsCounted ==
    \A cl \in Classes : gate[cl].active = Cardinality(Holders(cl))

\* Writes are serialised from the gate to the release, the wait for the
\* bucket included, whatever Configure does meanwhile.
WriteExclusive == \A c, d \in Holders("Write") : c = d

\* A call waits on a wake channel only while somebody holds a slot whose
\* release closes that channel: the hand-over of the channel under g.mu
\* loses no wake-up, though tighten never closes it.
NoLostWakeup ==
    \A c \in Calls : pc[c] = "parked" => Holders(Class(c)) # {}

\* The bucket opens exactly one imposed spacing after the last grant: idle
\* time earns no credit and a tightened rate does not postpone a grant that
\* is already promised.
BucketExact == next = IF gap > since THEN gap - since ELSE 0

\* Nobody sleeps longer than a spacing somebody has asked for, however often
\* the bucket was pushed ahead and the rate tightened meanwhile.
SleepBounded == \A c \in Calls : \E i \in Spacings : sleepLeft[c] <= i

Explicit(asked) == {asked[k] : k \in Clients} \ {0}

\* First explicit value, then tighten only: once every client has been
\* through Configure the limiter runs at the most conservative values asked
\* for, in whatever order the clients' two critical sections interleaved.
ConfigOrderIrrelevant ==
    /\ (\A k \in Clients : cfgpc[k] # "new") /\ Explicit(Rate) # {}
          => /\ interval \in Explicit(Rate)
             /\ \A i \in Explicit(Rate) : interval >= i
    /\ (\A k \in Clients : cfgpc[k] = "done") /\ Explicit(ReadConcurrency) # {}
          => /\ gate["Read"].limit \in Explicit(ReadConcurrency)
             /\ \A n \in Explicit(ReadConcurrency) : gate["Read"].limit <= n

-----------------------------------------------------------------------------
(* Action properties *)

\* Two grants, of whatever class, are at least the spacing apart that was in
\* force at the first one.
GrantsSpaced ==
    [][\A c \in Calls : pc[c] # "held" /\ pc'[c] = "held" => since >= gap]_vars

\* When the read limit is lowered under the readers that are inside, no
\* reader enters until enough of them have left.
ReadsDrain ==
    [][Cardinality(Holders("Read")') > gate["Read"].limit'
         => Holders("Read")' \subseteq Holders("Read")]_vars

-----------------------------------------------------------------------------
(* Liveness *)

\* Every Acquire ends: it is granted and released, or it fails; no wake-up,
\* slot or turn is lost for good.
EveryCallSettles ==
    \A c \in Calls : pc[c] # "idle" ~> pc[c] \in Settled

-----------------------------------------------------------------------------
(* The limiter implements the budget it promises. *)

MostReads == CHOOSE m \in ReadLimits : \A n \in ReadLimits : n <= m

Budget == INSTANCE AccountBudget WITH
    MaxReads <- MostReads,
    holding  <- {c \in Calls : pc[c] = "held"},
    returned <- {c \in Calls : pc[c] = "done"}

\* What a caller of Acquire can observe is an execution of AccountBudget.
ImplementsBudget == Budget!Spec
=============================================================================

------------------------- MODULE RetryPolicyProofs -------------------------
(***************************************************************************)
(* Theorems about the pauses between the attempts of a call, for every     *)
(* policy, every width of a duration and every header.                     *)
(***************************************************************************)
EXTENDS RetryPolicy, TLAPS

-----------------------------------------------------------------------------
(* Durations *)

\* The product of ParseRetryAfter stays what it is as long as it fits, and
\* is some duration otherwise.
LEMMA WrapFits ==
    /\ \A n \in 0..MaxDuration : Wrap(n) = n
    /\ \A n \in Int : Wrap(n) \in -MaxDuration - 1..MaxDuration
<1> DEFINE width == 2 * (MaxDuration + 1)
<1>1. /\ MaxDuration \in Nat /\ width \in Nat \ {0}
      /\ width = MaxDuration + 1 + MaxDuration + 1
  BY UnitsAssumption
<1>2. \A n \in Int : (n + MaxDuration + 1) % width \in 0..width - 1
  BY <1>1
<1>3. \A m \in Nat : m < width => m % width = m
  BY <1>1
<1>4. ASSUME NEW n \in 0..MaxDuration PROVE Wrap(n) = n
  <2>1. n + MaxDuration + 1 \in Nat /\ n + MaxDuration + 1 < width
    BY <1>1
  <2>2. (n + MaxDuration + 1) % width = n + MaxDuration + 1
    BY <1>3, <2>1
  <2> QED
    BY <1>1, <2>2 DEF Wrap
<1>5. ASSUME NEW n \in Int PROVE Wrap(n) \in -MaxDuration - 1..MaxDuration
  BY <1>1, <1>2 DEF Wrap
<1> QED
  BY <1>4, <1>5

LEMMA Parsed ==
    ASSUME NEW h \in Headers \cup {NoHint}
    PROVE  ParseRetryAfter(h) \in Int
<1>1. h.value \in Int
  BY HeadersAssumption DEF NoHint
<1>2. h.value * Second \in Int /\ MaxDuration \in Int
  BY <1>1, UnitsAssumption
<1> QED
  BY <1>1, <1>2, WrapFits DEF ParseRetryAfter, Lesser

\* A hint within the ceiling is parsed to what it says.
LEMMA ParsedInFull ==
    ASSUME NEW h \in Headers \cup {NoHint},
           h.form = "seconds", h.value > 0, h.value * Second <= RetryAfterCeiling
    PROVE  ParseRetryAfter(h) = h.value * Second /\ ParseRetryAfter(h) > 0
<1>1. h.value \in Nat \ {0} /\ Second \in Nat \ {0}
  BY HeadersAssumption, UnitsAssumption DEF NoHint
<1>2. h.value * Second \in Nat /\ h.value <= h.value * Second
  BY <1>1
<1>3. /\ MaxDuration \in Nat
      /\ h.value \in 1..MaxDuration /\ h.value * Second \in 0..MaxDuration
  BY <1>1, <1>2, UnitsAssumption, PolicyAssumption
<1>4. Wrap(h.value * Second) = h.value * Second
  BY <1>3, WrapFits
<1> QED
  BY <1>1, <1>2, <1>3, <1>4 DEF ParseRetryAfter

-----------------------------------------------------------------------------
(* Pauses *)

Ceiling == Greater(Cap, RetryAfterCeiling)

LEMMA JitterBounded ==
    ASSUME NEW n \in 1..MaxAttempts, NEW p \in Jitter(n)
    PROVE  p.err = "nil" /\ p.wait \in 0..Cap
<1>1. Multiplier^(n - 1) \in Nat
  BY PowersAssumption, PolicyAssumption
<1>2. Base * Multiplier^(n - 1) \in Nat /\ Cap \in Nat
  BY <1>1, UnitsAssumption, PolicyAssumption
<1>3. Window(n) \in 0..Cap
  BY <1>2 DEF Window, Lesser
<1> QED
  BY <1>2, <1>3 DEF Jitter, Pause, Greater

\* A call that pauses has an attempt left; the pause is the hint to the tick
\* when there is one, and within the cap otherwise.
LEMMA WaitBounded ==
    ASSUME NEW n \in Nat \ {0}, NEW d \in Int, NEW p \in Wait(n, d)
    PROVE  /\ p.wait \in 0..(IF d > 0 THEN RetryAfterCeiling ELSE Cap)
           /\ p.err = "nil" => n < MaxAttempts /\ (d > 0 => p.wait = d)
<1>1. /\ Cap \in Nat /\ RetryAfterCeiling \in Nat /\ MaxAttempts \in Nat
  BY UnitsAssumption, PolicyAssumption
<1>2. CASE n >= MaxAttempts
  BY <1>1, <1>2 DEF Wait, Failure
<1>3. CASE n < MaxAttempts /\ d > RetryAfterCeiling
  BY <1>1, <1>3 DEF Wait, Failure
<1>4. CASE n < MaxAttempts /\ d <= RetryAfterCeiling /\ d > 0
  BY <1>1, <1>4 DEF Wait, Pause
<1>5. CASE n < MaxAttempts /\ d <= RetryAfterCeiling /\ d <= 0
  <2>1. p \in Jitter(n) /\ n \in 1..MaxAttempts
    BY <1>1, <1>5 DEF Wait
  <2> QED
    BY <1>5, <2>1, JitterBounded
<1> QED
  BY <1>1, <1>2, <1>3, <1>4, <1>5

-----------------------------------------------------------------------------
(* The call *)

\* What was slept stays within the ceiling per retry, and a pause that
\* follows a hint is that hint.
Inv ==
    /\ attempt \in Nat \ {0} /\ slept \in Nat
    /\ hint \in Headers \cup {NoHint}
    /\ PausesBounded
    /\ pause.err = "nil" /\ ParseRetryAfter(hint) > 0
         => pause.wait = ParseRetryAfter(hint)

LEMMA InvHolds == Spec => []Inv
<1>1. Init => Inv
  BY UnitsAssumption, PolicyAssumption
  DEF Init, Inv, PausesBounded, NoHint, ParseRetryAfter, Pause, Greater
<1>2. Inv /\ [Next]_vars => Inv'
  <2> SUFFICES ASSUME Inv, [Next]_vars PROVE Inv'
    OBVIOUS
  <2>1. ASSUME NEW h \in Headers \cup {NoHint}, FailAttempt(h) PROVE Inv'
    <3> DEFINE d == ParseRetryAfter(h)
    <3>1. d \in Int
      BY Parsed
    <3>2. /\ hint' = h /\ ParseRetryAfter(hint)' = d
          /\ pause' \in Wait(attempt, d)
      BY <2>1 DEF FailAttempt, ParseRetryAfter, Wrap, Lesser
    <3>3. /\ pause'.wait \in 0..(IF d > 0 THEN RetryAfterCeiling ELSE Cap)
          /\ pause'.err = "nil" => attempt < MaxAttempts /\ (d > 0 => pause'.wait = d)
      BY <3>1, <3>2, WaitBounded DEF Inv
    <3>4. /\ Ceiling \in Nat /\ MaxAttempts \in Nat
          /\ Cap \in Nat /\ RetryAfterCeiling \in Nat
          /\ Cap <= Ceiling /\ RetryAfterCeiling <= Ceiling
      BY UnitsAssumption, PolicyAssumption DEF Ceiling, Greater
    <3>5. /\ attempt' \in Nat \ {0} /\ slept' \in Nat
          /\ slept' <= (attempt' - 1) * Ceiling
          /\ attempt' <= Greater(MaxAttempts, 1)
      <4>1. CASE pause'.err = "nil"
        <5>1. /\ attempt' = attempt + 1 /\ slept' = slept + pause'.wait
              /\ attempt < MaxAttempts
              /\ pause'.wait \in Nat /\ pause'.wait <= Ceiling
          BY <2>1, <3>3, <3>4, <4>1 DEF FailAttempt
        <5>2. slept <= (attempt - 1) * Ceiling
          BY DEF Inv, PausesBounded, Ceiling
        <5>3. slept + pause'.wait <= attempt * Ceiling
          BY <3>4, <5>1, <5>2 DEF Inv
        <5> QED
          BY <3>4, <5>1, <5>3 DEF Inv, Greater
      <4>2. CASE pause'.err # "nil"
        BY <2>1, <4>2 DEF FailAttempt, Inv, PausesBounded, Ceiling
      <4> QED
        BY <4>1, <4>2
    <3> QED
      BY <3>2, <3>3, <3>5 DEF Inv, PausesBounded, Ceiling
  <2>2. CASE UNCHANGED vars
    BY <2>2 DEF vars, Inv, PausesBounded, ParseRetryAfter, Wrap, Lesser
  <2> QED
    BY <2>1, <2>2 DEF Next, GivenUp
<1> QED
  BY <1>1, <1>2, PTL DEF Spec

\* Whatever the platform sends and however wide a duration is, no pause is
\* negative or longer than its bound, and a call pauses once per retry.
THEOREM Pauses == Spec => []PausesBounded
<1>1. Inv => PausesBounded
  BY DEF Inv
<1> QED
  BY <1>1, InvHolds, PTL

\* A hint within the ceiling is kept to the tick: it neither wraps around nor
\* is cut by the cap or jittered.
THEOREM Hints == Spec => []HintHonoured
<1>1. Inv => HintHonoured
  <2> SUFFICES ASSUME Inv, hint.form = "seconds", hint.value > 0,
                      hint.value * Second <= RetryAfterCeiling, pause.err = "nil"
               PROVE  pause.wait = hint.value * Second
    BY DEF HintHonoured
  <2>1. /\ ParseRetryAfter(hint) = hint.value * Second
        /\ ParseRetryAfter(hint) > 0
    BY ParsedInFull DEF Inv
  <2> QED
    BY <2>1 DEF Inv
<1> QED
  BY <1>1, InvHolds, PTL
=============================================================================

---------------------------- MODULE RetryPolicy ----------------------------
(***************************************************************************)
(* How long a retry waits (src/pace/pace.go): ParseRetryAfter turns the    *)
(* platform's header into a duration, Policy.Wait turns that, or the       *)
(* backoff curve, into a pause, and one call goes through the attempts the *)
(* policy allows, each failing with a header of the platform's choice.     *)
(*                                                                         *)
(* A time.Duration is a signed integer of fixed width: the product of      *)
(* ParseRetryAfter wraps around.  The model keeps that width, scaled down, *)
(* in the unit Second.                                                     *)
(*                                                                         *)
(* An operator named X_Suffix is a faulty variant of X, used only to show  *)
(* that the properties notice the fault.                                   *)
(***************************************************************************)
EXTENDS Integers

CONSTANTS
    Second,            \* time.Second in the model's units
    MaxDuration,       \* the largest time.Duration; the smallest is -MaxDuration-1
    Base, Cap, RetryAfterCeiling, Multiplier, MaxAttempts,  \* the Policy
    Headers            \* Retry-After headers the platform may send

\* A header as ParseRetryAfter tells them apart: absent, neither a number
\* nor a date, a number of seconds, a date that far from now.
HeaderForms == {"absent", "invalid", "seconds", "date"}

ASSUME UnitsAssumption == Second \in Nat \ {0} /\ MaxDuration \in Nat \ {0}
ASSUME PolicyAssumption ==
    /\ Base \in Nat
    /\ Cap \in 0..MaxDuration /\ RetryAfterCeiling \in 0..MaxDuration
    /\ Multiplier \in Nat \ {0} /\ MaxAttempts \in Nat
\* A fact of arithmetic that the proof system does not know.
ASSUME PowersAssumption == \A n \in 0..MaxAttempts : Multiplier^n \in Nat
ASSUME HeadersAssumption == Headers \subseteq [form : HeaderForms, value : Int]

Lesser(m, n) == IF m < n THEN m ELSE n
Greater(m, n) == IF m < n THEN n ELSE m

-----------------------------------------------------------------------------
(* ParseRetryAfter *)

\* Arithmetic on a time.Duration.
Wrap(n) ==
    ((n + MaxDuration + 1) % (2 * (MaxDuration + 1))) - (MaxDuration + 1)

\* strconv.Atoi takes what fits an int, which is as wide as a duration;
\* Time.Sub saturates.
ParseRetryAfter(h) ==
    IF h.form = "seconds" /\ h.value \in 1..MaxDuration
      THEN Wrap(h.value * Second)
    ELSE IF h.form = "date" /\ h.value > 0
      THEN Lesser(h.value, MaxDuration)
    ELSE 0

-----------------------------------------------------------------------------
(* Policy.Wait *)

Failure(err) == [err |-> err, wait |-> 0]
Pause(d) == [err |-> "nil", wait |-> d]

\* The width of the jitter before retry number n.
Window_Uncapped(n) == Base * Multiplier^(n - 1)
Window(n) == Lesser(Cap, Base * Multiplier^(n - 1))

\* Full jitter draws from [0, window).
Jitter(n) == {Pause(d) : d \in 0..Greater(Window(n) - 1, 0)}

Wait_Jittered(n, retryAfter) ==
    IF n >= MaxAttempts THEN {Failure("exhausted")}
    ELSE IF retryAfter > RetryAfterCeiling THEN {Failure("tooLong")}
    ELSE IF retryAfter > 0 THEN {Pause(d) : d \in 0..retryAfter}
    ELSE Jitter(n)

\* What Wait may return for retry number n.
Wait(n, retryAfter) ==
    IF n >= MaxAttempts THEN {Failure("exhausted")}
    ELSE IF retryAfter > RetryAfterCeiling THEN {Failure("tooLong")}
    ELSE IF retryAfter > 0 THEN {Pause(retryAfter)}
    ELSE Jitter(IF n < 1 THEN 1 ELSE n)

-----------------------------------------------------------------------------
(* One call whose every attempt fails retryably *)

VARIABLES
    attempt,    \* number of the attempt that is made next
    hint,       \* the header the latest attempt was answered with
    pause,      \* what Wait said to that
    slept       \* history: time spent in back-offs

vars == <<attempt, hint, pause, slept>>

NoHint == [form |-> "absent", value |-> 0]

Init ==
    /\ attempt = 1
    /\ hint = NoHint
    /\ pause = Pause(0)
    /\ slept = 0

\* evalNetworkFailure passes no hint, evalRetryableStatus the header's; the
\* next attempt follows the pause.
FailAttempt(h) ==
    /\ pause.err = "nil"
    /\ hint' = h
    /\ pause' \in Wait(attempt, ParseRetryAfter(h))
    /\ IF pause'.err = "nil"
         THEN attempt' = attempt + 1 /\ slept' = slept + pause'.wait
         ELSE UNCHANGED <<attempt, slept>>

GivenUp == pause.err # "nil" /\ UNCHANGED vars

Next ==
    \/ \E h \in Headers \cup {NoHint} : FailAttempt(h)
    \/ GivenUp

Spec == Init /\ [][Next]_vars

-----------------------------------------------------------------------------
(* Properties *)

\* Whatever the header, its product's wrap-around included, no pause is
\* negative, none exceeds the ceiling, or the cap when no hint counts, and a
\* call sleeps at most the longer of the two once per retry.
PausesBounded ==
    /\ pause.wait \in 0..(IF ParseRetryAfter(hint) > 0 THEN RetryAfterCeiling
                                                       ELSE Cap)
    /\ slept <= (attempt - 1) * Greater(Cap, RetryAfterCeiling)
    /\ attempt <= Greater(MaxAttempts, 1)

\* A hint the policy has the patience for is kept to the tick, with no
\* jitter and no cut by the cap, as long as an attempt is left.
HintHonoured ==
    hint.form = "seconds" /\ hint.value > 0
      /\ hint.value * Second <= RetryAfterCeiling /\ pause.err = "nil"
      => pause.wait = hint.value * Second

\* pace.go: Wait returns "a *RetryAfterError when retryAfter exceeds the
\* ceiling".
TooLongFails ==
    hint.form = "seconds" /\ hint.value * Second > RetryAfterCeiling
      => pause.err # "nil"
=============================================================================

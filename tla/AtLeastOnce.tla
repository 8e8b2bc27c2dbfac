---------------------------- MODULE AtLeastOnce ----------------------------
(***************************************************************************)
(* What a call of the client promises to the services built on it, with no *)
(* mention of attempts, slots, bodies or back-offs: the request goes out   *)
(* at most Tries[c] times, takes effect at most once per time it went out, *)
(* possibly after the call has returned, and has had an effect if the call *)
(* reports success.  The Ordered calls, the writes of one limiter, do not  *)
(* overlap.  Client implements it (Client!ImplementsCall); Objects builds  *)
(* the account's objects on it.                                            *)
(***************************************************************************)
EXTENDS Naturals

CONSTANTS
    Calls,      \* the calls, one per element
    Ordered,    \* calls that do not overlap with each other
    Tries       \* how often each call may send its request

VARIABLES
    outcome,    \* how each call ended, "open" until it does
    tried,      \* times the request of the call went out
    landed      \* times it took effect

callState == <<outcome, tried, landed>>

Outcomes == {"open", "ok", "failed", "refused"}

CallsInit ==
    /\ outcome = [c \in Calls |-> "open"]
    /\ tried = [c \in Calls |-> 0]
    /\ landed = [c \in Calls |-> 0]

Underway(c) == outcome[c] = "open" /\ tried[c] > 0

\* The request goes out, for the first time or again.
Try(c) ==
    /\ outcome[c] = "open"
    /\ tried[c] < Tries[c]
    /\ c \in Ordered => \A d \in Ordered \ {c} : ~ Underway(d)
    /\ tried' = [tried EXCEPT ![c] = @ + 1]
    /\ UNCHANGED <<outcome, landed>>

\* The platform applies it, whether or not anybody still waits for it.
Land(c) ==
    /\ landed[c] < tried[c]
    /\ landed' = [landed EXCEPT ![c] = @ + 1]
    /\ UNCHANGED <<outcome, tried>>

\* The call returns: done, refused before anything went out, or failed, with
\* whatever effect.
Conclude(c, r) ==
    /\ outcome[c] = "open"
    /\ r = "ok" => landed[c] > 0
    /\ r = "refused" => tried[c] = 0
    /\ outcome' = [outcome EXCEPT ![c] = r]
    /\ UNCHANGED <<tried, landed>>

CallNext ==
    \E c \in Calls :
        \/ Try(c)
        \/ Land(c)
        \/ \E r \in Outcomes \ {"open"} : Conclude(c, r)

CallsSpec == CallsInit /\ [][CallNext]_callState
=============================================================================

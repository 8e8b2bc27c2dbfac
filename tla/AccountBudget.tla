--------------------------- MODULE AccountBudget ---------------------------
(***************************************************************************)
(* What package pace promises about the traffic of one account, with no    *)
(* mention of gates, wake channels, buckets or sleeps: at most one write   *)
(* and at most MaxReads reads are granted at a time, and two grants are    *)
(* at least the spacing fixed by the earlier one apart.                    *)
(***************************************************************************)
EXTENDS Naturals, FiniteSets

CONSTANTS
    Calls,      \* the calls of Acquire
    Writes,     \* those of class Write; the others are reads
    MaxReads,   \* no more reads than this are granted at once
    Spacings,   \* the spacings a grant may impose on its successor
    Horizon     \* the clock since the last grant saturates here

VARIABLES
    holding,    \* the calls that hold a slot
    returned,   \* the calls that gave theirs back
    since,      \* time since the last grant, at most Horizon
    gap         \* the spacing the last grant imposed

vars == <<holding, returned, since, gap>>

Init ==
    /\ holding = {}
    /\ returned = {}
    /\ since = Horizon
    /\ gap = 0

Grant(c) ==
    /\ c \notin holding \cup returned
    /\ since >= gap
    /\ IF c \in Writes
         THEN holding \cap Writes = {}
         ELSE Cardinality(holding \ Writes) < MaxReads
    /\ holding' = holding \cup {c}
    /\ since' = 0
    /\ gap' \in Spacings
    /\ UNCHANGED returned

Return(c) ==
    /\ c \in holding
    /\ holding' = holding \ {c}
    /\ returned' = returned \cup {c}
    /\ UNCHANGED <<since, gap>>

TimePasses ==
    /\ since < Horizon
    /\ since' = since + 1
    /\ UNCHANGED <<holding, returned, gap>>

Next ==
    \/ \E c \in Calls : Grant(c) \/ Return(c)
    \/ TimePasses

Spec == Init /\ [][Next]_vars
=============================================================================

--------------------------- MODULE MCRetryPolicy ---------------------------
(* The retry policy on scaled-down durations: a second is 5 units and a    *)
(* duration has 9 bits, so that the products below wrap to negative, small *)
(* and large values; the ceiling is 12 seconds, the cap 8 units.           *)
EXTENDS RetryPolicy

SecondsHeaders == {[form |-> "seconds", value |-> n] :
                     n \in {-1, 0, 1, 2, 12, 13, 51, 52, 100, 104, 109, 255, 256}}
DateHeaders == {[form |-> "date", value |-> n] : n \in {-3, 0, 7, 60, 61, 400}}
AllHeaders == SecondsHeaders \cup DateHeaders
                \cup {[form |-> "invalid", value |-> 0]}
=============================================================================

----------------------------- MODULE MCLimiter -----------------------------
(* Small instances of the limiter for TLC. *)
EXTENDS Limiter, TLC

CONSTANTS r1, r2, r3, w1, w2, slow, fast

\* With a default interval of 2 and a default of one read: "slow" is stricter,
\* "fast" is faster and allows more reads.
MCRate == slow :> 3 @@ fast :> 1
MCReads == slow :> 1 @@ fast :> 2

\* The calls of one class are interchangeable.
CallSymmetry == Permutations({r1, r2, r3}) \cup Permutations({w1, w2})
=============================================================================

------------------------------ MODULE MCClient ------------------------------
(* Small instances of the client for TLC. *)
EXTENDS Errors, TLC

CONSTANTS w1, w2, r1, r2

\* Which body each call brings, by run.
SeekerAndFile == w1 :> "seeker" @@ w2 :> "file"
OneShots == w1 :> "stream" @@ w2 :> "none" @@ r2 :> "none"
NoBodies == w1 :> "none" @@ w2 :> "none" @@ r1 :> "none"
FileBody == w1 :> "file"
=============================================================================

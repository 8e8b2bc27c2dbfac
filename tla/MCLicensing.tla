---------------------------- MODULE MCLicensing ----------------------------
(* Two callers, two connector classes. *)
EXTENDS Licensing

CONSTANTS a, b
=============================================================================

----------------------------- MODULE MCPolling -----------------------------
(***************************************************************************)
(* Small times for Polling: a second is two ticks, so that a first delay   *)
(* of an odd number of ticks overshoots MaxDelay.                          *)
(***************************************************************************)
EXTENDS Polling
=============================================================================

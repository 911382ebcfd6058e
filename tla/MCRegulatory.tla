---------------------------- MODULE MCRegulatory ----------------------------
(***************************************************************************)
(* Reviews due after one day of four, two refreshes, so that one deploys   *)
(* while the other waits, and two overlapping runs of the watchdog.        *)
(***************************************************************************)
EXTENDS Regulatory

=============================================================================

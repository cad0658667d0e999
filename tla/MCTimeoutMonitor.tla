-------------------------- MODULE MCTimeoutMonitor --------------------------
(***************************************************************************)
(* The instance of TimeoutMonitor for TLC.                                 *)
(***************************************************************************)
EXTENDS TimeoutMonitor
=============================================================================

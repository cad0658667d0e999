---------------------------- MODULE MCRelayTask ----------------------------
(***************************************************************************)
(* The instance of RelayTask for TLC.                                      *)
(***************************************************************************)
EXTENDS RelayTask

\* An upload of several buffers beside a short download.
Totals == [d \in Directions |-> IF d = "Upload" THEN 3 ELSE 1]
=============================================================================

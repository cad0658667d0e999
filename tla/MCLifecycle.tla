---------------------------- MODULE MCLifecycle ----------------------------
(***************************************************************************)
(* The instance of Lifecycle for TLC.                                      *)
(***************************************************************************)
EXTENDS Lifecycle

TwoListeners == {"first", "second"}

\* A server, a client over TCP and a client over QUIC.
Pair(a, b) == [l \in Listeners |-> IF l = "first" THEN a ELSE b]
AllPrograms == {Pair("quic", "tcp"), Pair("user", "user"), Pair("user_quic", "user_quic")}
=============================================================================

---------------------------- MODULE MCUdpFrames ----------------------------
(***************************************************************************)
(* An instance of UdpFrames for TLC: addresses of one byte, and a buffer   *)
(* for two short frames.                                                   *)
(***************************************************************************)
EXTENDS UdpFrames

V4 == [type |-> "V4", ip |-> <<13>>, port |-> 3338]
Host == [type |-> "Hostname", ip |-> <<10>>, port |-> 80]
D(a, n) == [addr |-> a, data |-> [i \in 1..n |-> IF i % 2 = 1 THEN 13 ELSE 10]]

\* Two datagrams, the first of which may be empty; four, one of them empty; and three of
\* which the first two make the receiver's buffer smaller than a header.
Pairs == {<<D(a, m), D(b, n)>> : a \in {V4, Host}, b \in {V4, Host}, m \in {0, 1}, n \in {1, 4}}
Some == Pairs \cup {<<>>, <<D(V4, 1), D(Host, 0), D(V4, 2), D(Host, 1)>>, <<D(V4, 11), D(Host, 4), D(V4, 1)>>}
=============================================================================

--------------------------- MODULE MCUdpRelayTask ---------------------------
(***************************************************************************)
(* Instances of UdpRelayTask for TLC.                                      *)
(***************************************************************************)
EXTENDS UdpRelayTask

TwoIps == {"ip1", "ip2"}
OneName == {"name"}
Lookup == [n \in OneName |-> "ip2"]

In(kinds, from, addrs) == [kind : kinds, from : {from}, addr : addrs]

\* Datagrams of the user and of others, replies of targets, and what is none.
Both ==
  [client |-> [local |-> In(Kinds, "user", OneName) \cup In({"ok"}, "other", {"ip1"}),
               tunnel |-> In({"ok"}, "other", {"ip1"})],
   server |-> [local |-> In({"ok", "empty"}, "other", {"ip1"}),
               tunnel |-> In({"ok"}, "other", {"ip1", "name"})]]

\* Three one way and one the other.
ThreeAndOne == {[local |-> 3, tunnel |-> 1], [local |-> 1, tunnel |-> 3]}
=============================================================================

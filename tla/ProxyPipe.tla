----------------------------- MODULE ProxyPipe -----------------------------
(***************************************************************************)
(* What a proxied connection promises to the user and the target: in each  *)
(* direction the receiver gets the bytes the sender wrote, in order, once  *)
(* each and with nothing added.  How they travel is not visible here, and  *)
(* a connection that fails simply delivers no more.                        *)
(***************************************************************************)
EXTENDS Naturals, Sequences

CONSTANT Directions

VARIABLES
  written,    \* written[d]: all the sender of direction d has written
  delivered   \* delivered[d]: all its receiver has got

Prefix(s, t) == Len(s) <= Len(t) /\ s = SubSeq(t, 1, Len(s))

Init ==
  /\ written = [d \in Directions |-> <<>>]
  /\ delivered = [d \in Directions |-> <<>>]

Write(d) ==
  /\ Prefix(written[d], written'[d])
  /\ \A c \in Directions \ {d} : written'[c] = written[c]
  /\ UNCHANGED delivered

Deliver(d) ==
  /\ Prefix(delivered[d], delivered'[d])
  /\ Prefix(delivered'[d], written[d])
  /\ \A c \in Directions \ {d} : delivered'[c] = delivered[c]
  /\ UNCHANGED written

Next == \E d \in Directions : Write(d) \/ Deliver(d)

Spec == Init /\ [][Next]_<<written, delivered>>
=============================================================================

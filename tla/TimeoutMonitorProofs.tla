------------------------ MODULE TimeoutMonitorProofs ------------------------
(***************************************************************************)
(* Proofs about TimeoutMonitor, for every deadline, resolution of the      *)
(* clock and latency of the runtime.  The inductive invariant says when    *)
(* the timer is set relative to the last activity: never more than a       *)
(* deadline ahead of the clock, and never more than two deadlines and a    *)
(* second behind the activity.                                             *)
(***************************************************************************)
EXTENDS TimeoutMonitor, TLAPS

\* TimeoutMonitor::poll with TimedoutIO's note, between two steps.
IInv ==
  /\ TypeOK
  /\ last_active = as_secs(lastIo)
  /\ lastIo <= now
  /\ sleep <= now + Deadline * Sec
  /\ state = "watching" => now <= sleep + Lag
  /\ state = "watching" => sleep - lastIo < (2 * Deadline + 1) * Sec
  /\ NeverEarly

\* as_secs truncates: the second noted is at most a second behind the tick.
LEMMA AsSecs ==
  ASSUME NEW t \in Nat
  PROVE  /\ as_secs(t) \in Nat
         /\ as_secs(t) * Sec <= t
         /\ t < as_secs(t) * Sec + Sec
  BY TimeAssumption DEF as_secs

\* as_secs keeps the order of ticks.
LEMMA AsSecsMonotonic ==
  ASSUME NEW s \in Nat, NEW t \in Nat, s <= t
  PROVE  as_secs(s) <= as_secs(t)
<1> DEFINE q == as_secs(s)  r == as_secs(t)
<1>1. q \in Nat /\ r \in Nat /\ q * Sec <= s /\ t < r * Sec + Sec
  BY AsSecs
<1>2. q * Sec < (r + 1) * Sec
  BY <1>1, TimeAssumption
<1> HIDE DEF q, r
<1>3. q < r + 1
  BY <1>1, <1>2, TimeAssumption
<1> QED
  BY <1>1, <1>3 DEF q, r

\* What the seconds between two ticks say of the ticks: d seconds or fewer are
\* less than d + 1 full ones, more than d are more than d full ones.
LEMMA SecondsApart ==
  ASSUME NEW s \in Nat, NEW t \in Nat, NEW d \in Nat
  PROVE  /\ as_secs(t) - as_secs(s) <= d => t - s < (d + 1) * Sec
         /\ as_secs(t) - as_secs(s) > d => t - s > d * Sec
<1> DEFINE q == as_secs(s)  r == as_secs(t)
<1>1. /\ q \in Nat /\ r \in Nat
      /\ q * Sec <= s /\ s < q * Sec + Sec
      /\ r * Sec <= t /\ t < r * Sec + Sec
  BY AsSecs
<1> HIDE DEF q, r
<1>2. ASSUME r - q <= d PROVE t - s < (d + 1) * Sec
  <2>1. r * Sec <= (q + d) * Sec
    BY <1>1, <1>2, TimeAssumption
  <2>2. (q + d) * Sec = q * Sec + d * Sec /\ (d + 1) * Sec = d * Sec + Sec
    BY <1>1, TimeAssumption
  <2> QED
    BY <1>1, <2>1, <2>2, TimeAssumption
<1>3. ASSUME r - q > d PROVE t - s > d * Sec
  <2>1. r * Sec >= (q + d + 1) * Sec
    BY <1>1, <1>3, TimeAssumption
  <2>2. (q + d + 1) * Sec = q * Sec + d * Sec + Sec
    BY <1>1, TimeAssumption
  <2> QED
    BY <1>1, <2>1, <2>2, TimeAssumption
<1> QED
  BY <1>2, <1>3 DEF q, r

\* The products that bound the timer are what their names say.
LEMMA Products ==
  /\ Deadline * Sec \in Nat
  /\ (2 * Deadline + 1) * Sec = Deadline * Sec + Deadline * Sec + Sec
  /\ (Deadline + 1) * Sec = Deadline * Sec + Sec
  BY TimeAssumption

\* A fresh monitor satisfies the invariant.
LEMMA InitInv == Init => IInv
<1> SUFFICES ASSUME Init PROVE IInv
  OBVIOUS
<1>1. as_secs(0) = 0
  <2>1. as_secs(0) \in Nat /\ as_secs(0) * Sec <= 0
    BY AsSecs
  <2> QED
    BY <2>1, TimeAssumption
<1> QED
  BY <1>1, Products, TimeAssumption DEF Init, IInv, TypeOK, NeverEarly, inactive_time

\* Every step of the clock, of the stream and of the monitor keeps it.
LEMMA StepInv == IInv /\ [Next]_vars => IInv'
<1> SUFFICES ASSUME IInv, [Next]_vars PROVE IInv'
  OBVIOUS
<1> DEFINE P == Deadline * Sec
<1>0. P \in Nat /\ (2 * Deadline + 1) * Sec = P + P + Sec /\ (Deadline + 1) * Sec = P + Sec
  BY Products
<1> USE TimeAssumption
<1>t. /\ now \in Nat /\ last_active \in Nat /\ lastIo \in Nat /\ sleep \in Nat
      /\ as_secs(now) \in Nat
  BY AsSecs DEF IInv, TypeOK
<1>1. CASE Tick
  <2>1. as_secs(now + 1) \in Nat /\ as_secs(lastIo) <= as_secs(now + 1)
    BY <1>t, AsSecs, AsSecsMonotonic DEF IInv
  <2> QED
    BY <1>0, <1>1, <1>t, <2>1 DEF Tick, IInv, TypeOK, NeverEarly, inactive_time
<1>2. CASE Io
  <2>1. inactive_time' = 0
    BY <1>2, <1>t DEF Io, inactive_time
  <2> QED
    BY <1>0, <1>2, <1>t, <2>1 DEF Io, IInv, TypeOK, NeverEarly
<1>3. CASE StillActive
  <2>1. now - lastIo < P + Sec
    BY <1>0, <1>3, <1>t, SecondsApart DEF StillActive, inactive_time, IInv
  <2>2. inactive_time' = inactive_time
    BY <1>3 DEF StillActive, inactive_time
  <2> HIDE DEF P
  <2>3. sleep' = now + P
    BY <1>3 DEF StillActive, P
  <2>4. sleep' \in Nat /\ sleep' - lastIo < P + P + Sec
    BY <1>0, <1>t, <2>1, <2>3
  <2> QED
    BY <1>0, <1>3, <1>t, <2>2, <2>3, <2>4 DEF StillActive, IInv, TypeOK, NeverEarly, P
<1>4. CASE TimedOut
  <2>1. now - lastIo > P
    BY <1>4, <1>t, SecondsApart DEF TimedOut, inactive_time, IInv
  <2> QED
    BY <1>4, <1>t, <2>1 DEF TimedOut, IInv, TypeOK, NeverEarly, inactive_time
<1>5. CASE UNCHANGED vars
  BY <1>5 DEF vars, IInv, TypeOK, NeverEarly, inactive_time
<1> QED
  BY <1>1, <1>2, <1>3, <1>4, <1>5 DEF Next

\* TimeoutMonitor always satisfies its invariant.
LEMMA Invariant == Spec => []IInv
<1>1. Init => IInv
  BY InitInv
<1>2. IInv /\ [Next]_vars => IInv'
  BY StepInv
<1> QED
  BY <1>1, <1>2, PTL DEF Spec

\* The subtraction of seconds in TimeoutMonitor::poll never wraps, and the other
\* variables have their types.
THEOREM TimeoutTypeOK == Spec => []TypeOK
<1>1. IInv => TypeOK
  BY DEF IInv
<1> QED
  BY <1>1, Invariant, PTL

\* TimeoutMonitor never gives up a connection that was active within the last
\* Deadline seconds, although both times are truncated.
THEOREM NeverEarlyHolds == Spec => []NeverEarly
<1>1. IInv => NeverEarly
  BY DEF IInv
<1> QED
  BY <1>1, Invariant, PTL

\* TimeoutMonitor::poll gives up an idle connection within two deadlines, a
\* second and the latency of the runtime.
THEOREM ClosedInTimeHolds == Spec => []ClosedInTime
<1>1. IInv => ClosedInTime
  <2> SUFFICES ASSUME IInv, state = "watching"
               PROVE  now - lastIo < (2 * Deadline + 1) * Sec + Lag
    BY DEF ClosedInTime
  <2>1. (2 * Deadline + 1) * Sec \in Nat
    BY Products, TimeAssumption
  <2> QED
    BY <2>1, TimeAssumption DEF IInv, TypeOK
<1> QED
  BY <1>1, Invariant, PTL
=============================================================================

--------------------------- MODULE TimeoutMonitor ---------------------------
(***************************************************************************)
(* How a relay finds out that its connection is idle.  TimedoutIO wraps    *)
(* the outbound stream and notes the second of every call that is ready;   *)
(* TimeoutMonitor is a future beside the relay that looks at the note each *)
(* time its timer fires, and sets the timer again.                         *)
(*                                                                         *)
(* Time is counted in ticks, Sec of them a second, from the creation of    *)
(* the monitor.  Both ends truncate it to seconds.                         *)
(***************************************************************************)
EXTENDS Integers

CONSTANTS
  Deadline,  \* TCP_MAX_IDLE_TIMEOUT, in seconds
  Sec,       \* ticks in a second
  Lag,       \* ticks from the firing of the timer to the poll it causes, at most
  MaxTime    \* bound: ticks

ASSUME TimeAssumption ==
  /\ Deadline \in Nat /\ Sec \in Nat \ {0} /\ Lag \in Nat /\ MaxTime \in Nat

VARIABLES
  now,          \* the clock
  last_active,  \* the note, in seconds
  sleep,        \* when the timer fires
  state,        \* "watching", or "idle" once the monitor is ready
  lastIo        \* when the outbound stream was really active last

vars == <<now, last_active, sleep, state, lastIo>>

as_secs(t) == t \div Sec

Init ==
  /\ now = 0 /\ last_active = 0 /\ lastIo = 0
  /\ sleep = Deadline * Sec
  /\ state = "watching"

\* Time passes, but not beyond the poll of a timer that has fired.
Tick ==
  /\ state = "watching" /\ now < MaxTime /\ now < sleep + Lag
  /\ now' = now + 1
  /\ UNCHANGED <<last_active, sleep, state, lastIo>>

\* Mutants: the note is taken only once; it is rounded up.
NoteFirst ==
  /\ state = "watching"
  /\ last_active' = IF last_active = 0 THEN as_secs(now) ELSE last_active
  /\ lastIo' = now
  /\ UNCHANGED <<now, sleep, state>>
NoteRoundedUp ==
  /\ state = "watching"
  /\ last_active' = as_secs(now + Sec - 1)
  /\ lastIo' = now
  /\ UNCHANGED <<now, sleep, state>>

\* poll_timeout!: a read or a write of the outbound stream is ready.
Io ==
  /\ state = "watching"
  /\ last_active' = as_secs(now)
  /\ lastIo' = now
  /\ UNCHANGED <<now, sleep, state>>

inactive_time == as_secs(now) - last_active

\* Mutant: twice the deadline until the next look.
StillActiveSleepsLong ==
  /\ state = "watching" /\ now >= sleep /\ inactive_time <= Deadline
  /\ sleep' = now + 2 * Deadline * Sec + Sec
  /\ UNCHANGED <<now, last_active, state, lastIo>>

\* TimeoutMonitor::poll once the timer has fired.
StillActive ==
  /\ state = "watching" /\ now >= sleep /\ inactive_time <= Deadline
  /\ sleep' = now + Deadline * Sec
  /\ UNCHANGED <<now, last_active, state, lastIo>>

TimedOut ==
  /\ state = "watching" /\ now >= sleep /\ inactive_time > Deadline
  /\ state' = "idle"
  /\ UNCHANGED <<now, last_active, sleep, lastIo>>

Next == Tick \/ Io \/ StillActive \/ TimedOut

Spec == Init /\ [][Next]_vars
-----------------------------------------------------------------------------
\* Every variable has its type.  The note never lies in the future, so that the
\* subtraction of two u32 in poll does not wrap.
TypeOK ==
  /\ now \in Nat /\ last_active \in Nat /\ lastIo \in Nat /\ sleep \in Nat
  /\ state \in {"watching", "idle"}
  /\ inactive_time \in Nat

\* Truncated seconds or not, no connection is cut that was active during the
\* last Deadline seconds.
NeverEarly == state = "idle" => now - lastIo > Deadline * Sec

\* A monitor that looks at the note only when its timer fires, and may just have
\* missed the deadline by a second then, still lets no idle connection live for
\* two deadlines and a second, plus what the runtime adds.
ClosedInTime == state = "watching" => now - lastIo < (2 * Deadline + 1) * Sec + Lag
=============================================================================

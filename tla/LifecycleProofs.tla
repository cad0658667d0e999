-------------------------- MODULE LifecycleProofs --------------------------
(***************************************************************************)
(* Theorems about Lifecycle, for any listeners, connections and streams,   *)
(* and any capacity of the channel to glommio: the type invariant, that a  *)
(* listener lets in at most one connection after its signal, and that a    *)
(* relay is cut only by what is above it.                                  *)
(***************************************************************************)
EXTENDS Lifecycle, TLAPS

USE DEF TaskStates

\* Where the loop of a kind of listener can stand; a listener that has let in a
\* late connection is on its way to see the signal; and while nobody has pressed
\* ctrl-c, only a failure ends a listener.
LoopOk(l) ==
  /\ loop[l] = "handshake" => kind[l] = "quic"
  /\ loop[l] = "send" => kind[l] = "user_quic"
  /\ loop[l] = "check" => kind[l] # "quic"
  /\ late[l] # 0 =>
       /\ late[l] = 1 /\ ~running
       /\ loop[l] \in (IF kind[l] = "quic" THEN {"accept", "ended"} ELSE {"check", "ended"})
  /\ running /\ loop[l] = "ended" => l \in failed
Loops == \A l \in Listeners : LoopOk(l)

\* A connection that waits does so in one place, a backlog or the hand of a listener.
Placed ==
  /\ \A l \in Listeners : \A i \in 1..Len(backlog[l]) : task[backlog[l][i]] = "waiting"
  /\ \A l, m \in Listeners : \A i \in 1..Len(backlog[l]), j \in 1..Len(backlog[m]) :
       backlog[l][i] = backlog[m][j] => l = m /\ i = j
  /\ \A l \in Listeners : hand[l] # NoTask =>
       /\ task[hand[l]] = "waiting"
       /\ \A m \in Listeners : \A i \in 1..Len(backlog[m]) : backlog[m][i] # hand[l]
       /\ \A m \in Listeners : hand[m] = hand[l] => m = l

\* A task is in the channel to glommio at most once.
QueuedOnce ==
  \A i, j \in 1..Len(queue) : queue[i] = queue[j] => i = j

\* A task gets its parent when it is spawned, only connections have a listener for
\* their parent, and only those can be relayed by glommio.
Spawned ==
  \A t \in Tasks :
    /\ task[t] \in {"idle", "waiting"} => parent[t] = NoTask /\ why[t] = "none"
    /\ parent[t] \in Listeners => t \in Callers
    /\ task[t] = "plain" => t \in Callers

\* What a signal has cut has lost what it listened to.
Orphan(t) ==
  \/ parent[t] \in failed
  \/ parent[t] \in Callers /\ task[parent[t]] = "ended"
Orphaned == \A t \in Tasks : running /\ why[t] = "signal" => Orphan(t)

IInv == TypeOK /\ Loops /\ Placed /\ QueuedOnce /\ Spawned /\ Orphaned
-----------------------------------------------------------------------------
(***************************************************************************)
(* Sequences.                                                              *)
(***************************************************************************)

\* What is left of a channel or a backlog when its first element is taken.
LEMMA TailFacts ==
  ASSUME NEW S, NEW q \in Seq(S), q # <<>>
  PROVE  /\ Tail(q) \in Seq(S) /\ Len(q) \in Nat \ {0} /\ Len(Tail(q)) = Len(q) - 1
         /\ Head(q) = q[1] /\ q[1] \in S
         /\ \A i \in 1..Len(Tail(q)) : Tail(q)[i] = q[i + 1] /\ i + 1 \in 1..Len(q)
  OBVIOUS

\* What a channel or a backlog is when an element is added.
LEMMA AppendFacts ==
  ASSUME NEW S, NEW q \in Seq(S), NEW x \in S
  PROVE  /\ Append(q, x) \in Seq(S) /\ Len(q) \in Nat /\ Len(Append(q, x)) = Len(q) + 1
         /\ \A i \in 1..Len(q) : Append(q, x)[i] = q[i]
         /\ Append(q, x)[Len(q) + 1] = x
  OBVIOUS

\* The elements of a sequence are those at its indices.
LEMMA ToSetFacts ==
  ASSUME NEW S, NEW q \in Seq(S)
  PROVE  \A x : x \in ToSet(q) <=> \E i \in 1..Len(q) : q[i] = x
  BY DEF ToSet

\* The connections that listeners have in hand or in their backlogs are tasks.
LEMMA WaitingTasks ==
  ASSUME TypeOK, NEW l \in Listeners
  PROVE  /\ backlog[l] \in Seq(Callers) /\ Len(backlog[l]) \in Nat
         /\ \A i \in 1..Len(backlog[l]) : backlog[l][i] \in Callers /\ backlog[l][i] \in Tasks
         /\ hand[l] # NoTask => hand[l] \in Callers /\ hand[l] \in Tasks
<1>1. backlog[l] \in Seq(Callers) /\ hand[l] \in Callers \cup {NoTask}
  BY DEF TypeOK
<1>2. Len(backlog[l]) \in Nat /\ \A i \in 1..Len(backlog[l]) : backlog[l][i] \in Callers
  BY <1>1
<1> QED
  BY <1>1, <1>2 DEF Tasks

\* The same facts about the set of the elements.
LEMMA ToSetAppend ==
  ASSUME NEW S, NEW q \in Seq(S), NEW x \in S
  PROVE  ToSet(Append(q, x)) = ToSet(q) \cup {x}
<1> DEFINE r == Append(q, x)
<1>1. /\ r \in Seq(S) /\ Len(q) \in Nat /\ Len(r) = Len(q) + 1
      /\ \A i \in 1..Len(q) : r[i] = q[i]
      /\ r[Len(q) + 1] = x
  BY AppendFacts
<1>2. \A y : y \in ToSet(q) <=> \E i \in 1..Len(q) : q[i] = y
  BY ToSetFacts
<1> HIDE DEF r
<1>3. \A y : y \in ToSet(r) <=> \E i \in 1..Len(r) : r[i] = y
  BY <1>1, ToSetFacts
<1>4. \A y : y \in ToSet(r) <=> y \in ToSet(q) \/ y = x
  BY <1>1, <1>2, <1>3
<1> QED
  BY <1>4 DEF r

LEMMA ToSetTail ==
  ASSUME NEW S, NEW q \in Seq(S), q # <<>>, \A i, j \in 1..Len(q) : q[i] = q[j] => i = j
  PROVE  ToSet(Tail(q)) = ToSet(q) \ {Head(q)}
<1> DEFINE r == Tail(q)
<1>1. /\ r \in Seq(S) /\ Len(q) \in Nat \ {0} /\ Len(r) = Len(q) - 1 /\ Head(q) = q[1]
      /\ \A i \in 1..Len(r) : r[i] = q[i + 1] /\ i + 1 \in 1..Len(q)
  BY TailFacts
<1>2. \A y : y \in ToSet(q) <=> \E i \in 1..Len(q) : q[i] = y
  BY ToSetFacts
<1> HIDE DEF r
<1>3. \A y : y \in ToSet(r) <=> \E i \in 1..Len(r) : r[i] = y
  BY <1>1, ToSetFacts
<1>4. ASSUME NEW y \in ToSet(r) PROVE y \in ToSet(q) /\ y # Head(q)
  <2>1. PICK i \in 1..Len(r) : r[i] = y
    BY <1>3
  <2>2. i + 1 \in 1..Len(q) /\ q[i + 1] = y /\ 1 \in 1..Len(q) /\ i + 1 # 1
    BY <1>1, <2>1
  <2> QED
    BY <1>1, <1>2, <2>2
<1>5. ASSUME NEW y \in ToSet(q), y # Head(q) PROVE y \in ToSet(r)
  <2>1. PICK i \in 1..Len(q) : q[i] = y
    BY <1>2
  <2>2. i - 1 \in 1..Len(r) /\ (i - 1) + 1 = i
    BY <1>1, <1>5, <2>1
  <2>3. r[i - 1] = y
    BY <1>1, <2>1, <2>2
  <2> QED
    BY <1>3, <2>2, <2>3
<1> QED
  BY <1>4, <1>5 DEF r

LEMMA EmptyFacts ==
  ASSUME NEW S
  PROVE  <<>> \in Seq(S) /\ Len(<<>>) = 0 /\ ToSet(<<>>) = {}
  BY DEF ToSet
-----------------------------------------------------------------------------
(***************************************************************************)
(* The initial states.                                                     *)
(***************************************************************************)

LEMMA InitInv == Init => IInv
<1> SUFFICES ASSUME Init PROVE IInv
  OBVIOUS
<1> USE ProgramAssumption, ZioAssumption, TaskAssumption
<1>1. TypeOK
  BY EmptyFacts DEF Init, TypeOK, Tasks
<1>2. Loops
  BY DEF Init, Loops, LoopOk
<1>3. Placed
  BY EmptyFacts DEF Init, Placed
<1>4. QueuedOnce
  BY EmptyFacts DEF Init, QueuedOnce
<1>5. Spawned
  BY DEF Init, Spawned
<1>6. Orphaned
  BY DEF Init, Orphaned
<1> QED
  BY <1>1, <1>2, <1>3, <1>4, <1>5, <1>6 DEF IInv
-----------------------------------------------------------------------------
(***************************************************************************)
(* The steps of a task.                                                    *)
(***************************************************************************)

\* The states of a task that runs: it is in no backlog, no hand and no channel.
Active == {"setup", "flush", "serving", "echo", "fallback", "spin", "plain", "zio"}

\* A running task ends, by a signal only if there is one.
LEMMA EndTaskInv ==
  ASSUME IInv, NEW t \in Tasks, NEW reason \in {"peer", "error", "signal"},
         task[t] \in Active, reason = "signal" => Signal(t), EndTask(t, reason)
  PROVE  IInv'
<1> USE TaskAssumption DEF EndTask, listenerVars, zioVars, Active
<1>1. TypeOK'
  <2>1. {x \in Tasks : task'[x] = "queued"} = {x \in Tasks : task[x] = "queued"}
    BY DEF IInv, TypeOK
  <2> QED
    BY <2>1 DEF IInv, TypeOK
<1>2. Loops'
  BY DEF IInv, Loops, LoopOk
<1>3. Placed'
  <2>1. \A x \in Tasks : task[x] = "waiting" => task'[x] = "waiting"
    BY DEF IInv, TypeOK
  <2> QED
    BY <2>1, WaitingTasks DEF IInv, Placed
<1>4. QueuedOnce'
  BY DEF IInv, QueuedOnce
<1>5. Spawned'
  BY ZenonT(90) DEF IInv, Spawned, TypeOK
<1>6. Orphaned'
  <2>1. \A x \in Callers : task[x] = "ended" => task'[x] = "ended"
    BY DEF IInv, TypeOK, Tasks
  <2>2. \A x \in Tasks : Orphan(x) => Orphan(x)'
    BY <2>1 DEF Orphan
  <2>3. ASSUME reason = "signal", running PROVE Orphan(t)
    <3>1. parent[t] \in Listeners \cup Callers \cup {NoTask}
      BY DEF IInv, TypeOK
    <3>2. CASE parent[t] \in Listeners
      BY <2>3, <3>2 DEF IInv, Signal, Loops, LoopOk, Orphan
    <3>3. CASE parent[t] \notin Listeners
      BY <2>3, <3>1, <3>3 DEF Signal, Orphan
    <3> QED
      BY <3>2, <3>3
  <2> QED
    BY <2>2, <2>3 DEF IInv, TypeOK, Orphaned
<1> QED
  BY <1>1, <1>2, <1>3, <1>4, <1>5, <1>6 DEF IInv

\* A running task goes on to another state.
LEMMA BecomeInv ==
  ASSUME IInv, NEW t \in Tasks, NEW state \in {"serving", "plain", "flush", "fallback", "echo", "spin"},
         task[t] \in {"setup", "flush", "echo"}, state = "plain" => t \in Callers, Become(t, state)
  PROVE  IInv'
<1> USE DEF Become, listenerVars, zioVars
<1>1. TypeOK'
  <2>1. {x \in Tasks : task'[x] = "queued"} = {x \in Tasks : task[x] = "queued"}
    BY DEF IInv, TypeOK
  <2> QED
    BY <2>1 DEF IInv, TypeOK
<1>2. Loops'
  BY DEF IInv, Loops, LoopOk
<1>3. Placed'
  <2>1. \A x \in Tasks : task[x] = "waiting" => task'[x] = "waiting"
    BY DEF IInv, TypeOK
  <2> QED
    BY <2>1, WaitingTasks DEF IInv, Placed
<1>4. QueuedOnce'
  BY DEF IInv, QueuedOnce
<1>5. Spawned'
  BY DEF IInv, Spawned, TypeOK
<1>6. Orphaned'
  <2>1. \A x \in Callers : task[x] = "ended" => task'[x] = "ended"
    BY DEF IInv, TypeOK, Tasks
  <2>2. \A x \in Tasks : Orphan(x) => Orphan(x)'
    BY <2>1 DEF Orphan
  <2> QED
    BY <2>2 DEF IInv, TypeOK, Orphaned
<1> QED
  BY <1>1, <1>2, <1>3, <1>4, <1>5, <1>6 DEF IInv

\* The sockets of a plain relay are sent to glommio.
LEMMA SubmitInv ==
  ASSUME IInv, NEW t \in Tasks, Submit(t)
  PROVE  IInv'
<1> USE ZioAssumption DEF Submit, listenerVars
<1>0. t \in Callers /\ queue \in Seq(Callers) /\ task \in [Tasks -> TaskStates]
  BY DEF IInv, TypeOK, Spawned
<1>1. TypeOK'
  <2>1. {x \in Tasks : task'[x] = "queued"} = {x \in Tasks : task[x] = "queued"} \cup {t}
    BY <1>0
  <2>2. ToSet(queue') = ToSet(queue) \cup {t}
    BY <1>0, ToSetAppend
  <2>3. queue' \in Seq(Callers) /\ Len(queue') <= QueueCap
    BY <1>0, AppendFacts
  <2> QED
    BY <2>1, <2>2, <2>3 DEF IInv, TypeOK
<1>2. Loops'
  BY DEF IInv, Loops, LoopOk
<1>3. Placed'
  <2>1. \A x \in Tasks : task[x] = "waiting" => task'[x] = "waiting"
    BY DEF IInv, TypeOK
  <2> QED
    BY <2>1, WaitingTasks DEF IInv, Placed
<1>4. QueuedOnce'
  <2>1. \A i \in 1..Len(queue) : queue[i] # t
    BY <1>0, ToSetFacts, ZenonT(60) DEF IInv, TypeOK
  <2> QED
    BY <1>0, <2>1, AppendFacts DEF IInv, QueuedOnce
<1>5. Spawned'
  BY DEF IInv, Spawned, TypeOK
<1>6. Orphaned'
  <2>1. \A x \in Callers : task[x] = "ended" => task'[x] = "ended"
    BY DEF IInv, TypeOK, Tasks
  <2>2. \A x \in Tasks : Orphan(x) => Orphan(x)'
    BY <2>1 DEF Orphan
  <2> QED
    BY <2>2 DEF IInv, TypeOK, Orphaned
<1> QED
  BY <1>1, <1>2, <1>3, <1>4, <1>5, <1>6 DEF IInv

\* The glommio thread takes the next connection.
LEMMA TakeInv ==
  ASSUME IInv, Take
  PROVE  IInv'
<1> USE ZioAssumption DEF Take, listenerVars
<1> DEFINE t == Head(queue)
<1>0. /\ queue \in Seq(Callers) /\ queue # <<>> /\ t \in Tasks /\ t \in ToSet(queue) /\ task[t] = "queued"
      /\ task \in [Tasks -> TaskStates]
      /\ task' = [task EXCEPT ![t] = "zio"]
  <2>1. queue \in Seq(Callers) /\ queue # <<>>
    BY DEF IInv, TypeOK
  <2>2. t = queue[1] /\ 1 \in 1..Len(queue)
    BY <2>1, TailFacts
  <2>3. t \in ToSet(queue)
    BY <2>1, <2>2, ToSetFacts
  <2> QED
    BY <2>1, <2>3 DEF IInv, TypeOK
<1> HIDE DEF t
<1>1. TypeOK'
  <2>1. {x \in Tasks : task'[x] = "queued"} = {x \in Tasks : task[x] = "queued"} \ {t}
    BY <1>0
  <2>2. ToSet(queue') = ToSet(queue) \ {t}
    BY <1>0, ToSetTail DEF IInv, QueuedOnce, t
  <2>3. queue' \in Seq(Callers) /\ Len(queue') <= QueueCap
    <3>1. queue' \in Seq(Callers) /\ Len(queue) \in Nat /\ Len(queue') = Len(queue) - 1
      BY <1>0, TailFacts
    <3>2. Len(queue) <= QueueCap
      BY DEF IInv, TypeOK
    <3> QED
      BY <3>1, <3>2
  <2> QED
    BY <1>0, <2>1, <2>2, <2>3, ZenonT(90) DEF IInv, TypeOK
<1>2. Loops'
  BY DEF IInv, Loops, LoopOk
<1>3. Placed'
  <2>1. \A x \in Tasks : task[x] = "waiting" => task'[x] = "waiting"
    BY <1>0
  <2> QED
    BY <2>1, WaitingTasks DEF IInv, Placed
<1>4. QueuedOnce'
  <2>1. ASSUME NEW i \in 1..Len(queue'), NEW j \in 1..Len(queue'), queue'[i] = queue'[j] PROVE i = j
    <3>1. /\ queue'[i] = queue[i + 1] /\ i + 1 \in 1..Len(queue)
          /\ queue'[j] = queue[j + 1] /\ j + 1 \in 1..Len(queue)
      BY <1>0, TailFacts
    <3>2. i + 1 = j + 1
      BY <2>1, <3>1 DEF IInv, QueuedOnce
    <3> QED
      BY <3>2
  <2> QED
    BY <2>1 DEF QueuedOnce
<1>5. Spawned'
  BY <1>0 DEF IInv, Spawned
<1>6. Orphaned'
  <2>1. \A x \in Callers : task[x] = "ended" => task'[x] = "ended"
    BY <1>0 DEF Tasks
  <2>2. \A x \in Tasks : Orphan(x) => Orphan(x)'
    BY <2>1 DEF Orphan
  <2> QED
    BY <2>2 DEF IInv, TypeOK, Orphaned
<1> QED
  BY <1>1, <1>2, <1>3, <1>4, <1>5, <1>6 DEF IInv

\* The glommio thread ends, with what it relays and what waits for it.
LEMMA InitFailsInv ==
  ASSUME IInv, InitFails
  PROVE  IInv'
<1> USE ZioAssumption DEF InitFails, DropCallers, listenerVars
<1>1. TypeOK'
  <2>1. {x \in Tasks : task'[x] = "queued"} = {}
    BY DEF IInv, TypeOK
  <2>2. queue' \in Seq(Callers) /\ Len(queue') = 0 /\ ToSet(queue') = {}
    BY EmptyFacts
  <2>3. /\ task' \in [Tasks -> TaskStates]
        /\ why' \in [Tasks -> {"none", "peer", "error", "signal", "no daemon", "exit"}]
    BY DEF IInv, TypeOK
  <2>4. Len(queue') <= QueueCap
    BY <2>2
  <2> QED
    BY <2>1, <2>2, <2>3, <2>4 DEF IInv, TypeOK
<1>2. Loops'
  BY DEF IInv, Loops, LoopOk
<1>3. Placed'
  <2>1. \A x \in Tasks : task[x] = "waiting" => task'[x] = "waiting"
    OBVIOUS
  <2> QED
    BY <2>1, WaitingTasks DEF IInv, Placed
<1>4. QueuedOnce'
  BY DEF QueuedOnce
<1>5. Spawned'
  BY DEF IInv, Spawned
<1>6. Orphaned'
  <2>1. \A x \in Callers : task[x] = "ended" => task'[x] = "ended"
    BY DEF Tasks
  <2>2. \A x \in Tasks : Orphan(x) => Orphan(x)'
    BY <2>1 DEF Orphan
  <2> QED
    BY <2>2 DEF IInv, Orphaned
<1> QED
  BY <1>1, <1>2, <1>3, <1>4, <1>5, <1>6 DEF IInv

\* A peer opens a stream on a QUIC connection.
LEMMA OpenStreamInv ==
  ASSUME IInv, NEW c \in Callers, NEW s \in Streams, OpenStream(c, s)
  PROVE  IInv'
<1> USE TaskAssumption DEF OpenStream, Spawn, listenerVars, zioVars
<1>0. s \in Tasks
  BY DEF Tasks
<1>1. TypeOK'
  <2>1. {x \in Tasks : task'[x] = "queued"} = {x \in Tasks : task[x] = "queued"}
    BY <1>0 DEF IInv, TypeOK
  <2> QED
    BY <1>0, <2>1 DEF IInv, TypeOK
<1>2. Loops'
  BY DEF IInv, Loops, LoopOk
<1>3. Placed'
  <2>1. \A x \in Tasks : task[x] = "waiting" => task'[x] = "waiting"
    BY <1>0 DEF IInv, TypeOK
  <2> QED
    BY <2>1, WaitingTasks DEF IInv, Placed
<1>4. QueuedOnce'
  BY DEF IInv, QueuedOnce
<1>5. Spawned'
  BY <1>0, ZenonT(60) DEF IInv, Spawned, TypeOK
<1>6. Orphaned'
  <2>1. \A x \in Callers : task[x] = "ended" => task'[x] = "ended"
    BY DEF IInv, TypeOK, Tasks
  <2>2. \A x \in Tasks : x # s => parent'[x] = parent[x]
    BY DEF IInv, TypeOK
  <2>3. \A x \in Tasks : x # s /\ Orphan(x) => Orphan(x)'
    BY <2>1, <2>2 DEF Orphan
  <2>4. why[s] = "none"
    BY <1>0 DEF IInv, Spawned
  <2> QED
    BY <2>3, <2>4 DEF IInv, TypeOK, Orphaned
<1> QED
  BY <1>1, <1>2, <1>3, <1>4, <1>5, <1>6 DEF IInv
-----------------------------------------------------------------------------
(***************************************************************************)
(* The steps of a listener and of the process.                             *)
(***************************************************************************)

\* A step that moves no task, no backlog and no hand, and ends no listener.
LEMMA LoopInv ==
  ASSUME IInv, TypeOK', Loops', UNCHANGED <<hand, backlog, task, parent, why, queue, failed>>,
         running' => running
  PROVE  IInv'
<1>1. Placed'
  BY DEF IInv, Placed
<1>2. QueuedOnce'
  BY DEF IInv, QueuedOnce
<1>3. Spawned'
  BY DEF IInv, Spawned
<1>4. Orphaned'
  BY DEF IInv, Orphaned, Orphan
<1> QED
  BY <1>1, <1>2, <1>3, <1>4 DEF IInv

LEMMA CtrlCInv == IInv /\ CtrlC => IInv'
<1> SUFFICES ASSUME IInv, CtrlC PROVE IInv'
  OBVIOUS
<1> USE DEF CtrlC, taskVars, zioVars
<1>1. TypeOK'
  BY DEF IInv, TypeOK
<1>2. Loops'
  BY DEF IInv, Loops, LoopOk
<1> QED
  BY <1>1, <1>2, LoopInv

LEMMA DaemonEndsInv == ASSUME IInv, NEW l \in Listeners, DaemonEnds(l) PROVE IInv'
<1> USE DEF DaemonEnds, taskVars, zioVars
<1>1. TypeOK'
  BY DEF IInv, TypeOK
<1>2. Loops'
  BY DEF IInv, Loops, LoopOk
<1> QED
  BY <1>1, <1>2, LoopInv

LEMMA StartInv == ASSUME IInv, NEW l \in Listeners, Start(l) PROVE IInv'
<1> USE DEF Start, OfKind, UserKinds, taskVars, zioVars
<1>1. TypeOK'
  BY DEF IInv, TypeOK
<1>2. Loops'
  BY ZenonT(90) DEF IInv, Loops, LoopOk, TypeOK
<1> QED
  BY <1>1, <1>2, LoopInv

LEMMA CheckInv ==
  ASSUME IInv, NEW l \in Listeners, loop[l] = "check", running, loop' = [loop EXCEPT ![l] = "accept"],
         UNCHANGED <<kind, running, hand, backlog, failed, daemon, late, taskVars, zioVars>>
  PROVE  IInv'
<1> USE DEF taskVars, zioVars
<1>1. TypeOK'
  BY DEF IInv, TypeOK
<1>2. Loops'
  BY DEF IInv, Loops, LoopOk, TypeOK
<1> QED
  BY <1>1, <1>2, LoopInv

\* The process ends.
LEMMA ExitInv == IInv /\ Exit => IInv'
<1> SUFFICES ASSUME IInv, Exit PROVE IInv'
  OBVIOUS
<1> USE ZioAssumption, TaskAssumption
<1>0. /\ ~running /\ running' = running
      /\ loop' = [l \in Listeners |-> "ended"] /\ hand' = [l \in Listeners |-> NoTask]
      /\ backlog' = [l \in Listeners |-> <<>>] /\ daemon' = [l \in Listeners |-> "gone"]
      /\ UNCHANGED <<kind, failed, late, parent>>
      /\ DOMAIN task' = Tasks /\ DOMAIN why' = Tasks
      /\ \A t \in Tasks :
           \/ task'[t] = task[t] /\ why'[t] = why[t]
           \/ task[t] # "idle" /\ task'[t] = "ended" /\ why'[t] = "exit"
      /\ \A t \in Tasks : task'[t] # "waiting"
      /\ task' = [t \in Tasks |-> task'[t]] /\ why' = [t \in Tasks |-> why'[t]]
      /\ \/ queue' = <<>> /\ worker' = "gone" /\ \A t \in Tasks : task'[t] # "queued"
         \/ UNCHANGED zioVars /\ \A t \in Tasks : task'[t] = "queued" <=> task[t] = "queued"
  BY DEF Exit, IInv, TypeOK
<1>1. TypeOK'
  <2>1. ToSet(queue') = {x \in Tasks : task'[x] = "queued"} /\ queue' \in Seq(Callers) /\ Len(queue') <= QueueCap
    <3>1. CASE queue' = <<>> /\ \A t \in Tasks : task'[t] # "queued"
      BY <3>1, EmptyFacts
    <3>2. CASE UNCHANGED zioVars /\ \A t \in Tasks : task'[t] = "queued" <=> task[t] = "queued"
      BY <3>2 DEF zioVars, IInv, TypeOK
    <3> QED
      BY <1>0, <3>1, <3>2
  <2>2. <<>> \in Seq(Callers)
    BY EmptyFacts
  <2>3. /\ task' \in [Tasks -> TaskStates]
        /\ why' \in [Tasks -> {"none", "peer", "error", "signal", "no daemon", "exit"}]
    <3>1. \A t \in Tasks : /\ task'[t] \in TaskStates
                          /\ why'[t] \in {"none", "peer", "error", "signal", "no daemon", "exit"}
      BY <1>0 DEF IInv, TypeOK
    <3> QED
      BY <1>0, <3>1
  <2>4. worker' \in {"up", "gone"}
    BY <1>0 DEF zioVars, IInv, TypeOK
  <2> QED
    BY <1>0, <2>1, <2>2, <2>3, <2>4 DEF IInv, TypeOK
<1>2. Loops'
  BY <1>0 DEF IInv, Loops, LoopOk
<1>3. Placed'
  BY <1>0, EmptyFacts DEF Placed
<1>4. QueuedOnce'
  BY <1>0, EmptyFacts DEF IInv, QueuedOnce, zioVars
<1>5. Spawned'
  <2>1. \A t \in Tasks : task'[t] \in {"idle", "waiting", "plain"} => task'[t] = task[t] /\ why'[t] = why[t]
    BY <1>0
  <2> QED
    BY <1>0, <2>1 DEF IInv, Spawned
<1>6. Orphaned'
  BY <1>0 DEF Orphaned
<1> QED
  BY <1>1, <1>2, <1>3, <1>4, <1>5, <1>6 DEF IInv

\* What a step does to tasks that has no effect on the channel to glommio.
TaskTypes ==
  /\ task \in [Tasks -> TaskStates]
  /\ why \in [Tasks -> {"none", "peer", "error", "signal", "no daemon", "exit"}]
  /\ ToSet(queue) = {t \in Tasks : task[t] = "queued"}

\* A listening socket is dropped with the connections that wait there.
LEMMA DropBacklog ==
  ASSUME IInv, NEW l \in Listeners, NEW reason \in {"error", "signal"},
         reason = "signal" => ~running, running' = running, hand' = hand,
         backlog' = [backlog EXCEPT ![l] = <<>>], DropCallers(ToSet(backlog[l]), reason),
         UNCHANGED <<parent, queue>>, failed \subseteq failed'
  PROVE  /\ TaskTypes' /\ backlog' \in [Listeners -> Seq(Callers)]
         /\ Placed' /\ QueuedOnce' /\ Spawned' /\ Orphaned'
<1> USE DEF DropCallers
<1> DEFINE cs == ToSet(backlog[l])
<1>0. /\ task' = [t \in Tasks |-> IF t \in cs THEN "ended" ELSE task[t]]
      /\ why' = [t \in Tasks |-> IF t \in cs THEN reason ELSE why[t]]
  OBVIOUS
<1>1. \A x : x \in cs <=> \E i \in 1..Len(backlog[l]) : backlog[l][i] = x
  BY WaitingTasks, ToSetFacts DEF IInv
<1>2. \A x \in cs : x \in Callers /\ x \in Tasks /\ task[x] = "waiting"
  BY <1>1, WaitingTasks DEF IInv, Placed
<1> HIDE DEF cs
<1>3. TaskTypes'
  <2>1. {t \in Tasks : task'[t] = "queued"} = {t \in Tasks : task[t] = "queued"}
    BY <1>0, <1>2
  <2>2. /\ task \in [Tasks -> TaskStates]
        /\ why \in [Tasks -> {"none", "peer", "error", "signal", "no daemon", "exit"}]
        /\ ToSet(queue) = {t \in Tasks : task[t] = "queued"}
    BY DEF IInv, TypeOK
  <2>3. /\ task' \in [Tasks -> TaskStates]
        /\ why' \in [Tasks -> {"none", "peer", "error", "signal", "no daemon", "exit"}]
    BY <1>0, <2>2
  <2>4. queue' = queue
    OBVIOUS
  <2> QED
    BY <2>1, <2>2, <2>3, <2>4 DEF TaskTypes
<1>4. backlog' \in [Listeners -> Seq(Callers)] /\ backlog'[l] = <<>> /\ Len(backlog'[l]) = 0
  BY EmptyFacts DEF IInv, TypeOK
<1>5. \A m \in Listeners : m # l => backlog'[m] = backlog[m]
  BY DEF IInv, TypeOK
<1>6. Placed'
  <2>1. ASSUME NEW m \in Listeners, NEW i \in 1..Len(backlog'[m])
        PROVE  m # l /\ i \in 1..Len(backlog[m]) /\ backlog'[m][i] = backlog[m][i]
    BY <1>4, <1>5
  <2>2. ASSUME NEW m \in Listeners, NEW i \in 1..Len(backlog'[m]) PROVE task'[backlog'[m][i]] = "waiting"
    <3>1. backlog[m][i] \in Tasks /\ task[backlog[m][i]] = "waiting" /\ backlog[m][i] \notin cs
      BY <1>1, <2>1, <2>2, WaitingTasks DEF IInv, Placed
    <3> QED
      BY <1>0, <2>1, <2>2, <3>1
  <2>3. ASSUME NEW m \in Listeners, NEW n \in Listeners, NEW i \in 1..Len(backlog'[m]), NEW j \in 1..Len(backlog'[n]),
               backlog'[m][i] = backlog'[n][j]
        PROVE  m = n /\ i = j
    BY <2>1, <2>3 DEF IInv, Placed
  <2>4. ASSUME NEW m \in Listeners, hand'[m] # NoTask
        PROVE  /\ task'[hand'[m]] = "waiting"
               /\ \A n \in Listeners : \A i \in 1..Len(backlog'[n]) : backlog'[n][i] # hand'[m]
               /\ \A n \in Listeners : hand'[n] = hand'[m] => n = m
    <3>1. hand[m] \in Tasks /\ hand[m] \notin cs
      BY <1>1, <2>4, WaitingTasks DEF IInv, Placed
    <3> QED
      BY <1>0, <2>1, <2>4, <3>1 DEF IInv, Placed
  <2> QED
    BY <2>2, <2>3, <2>4 DEF Placed
<1>7. QueuedOnce'
  BY DEF IInv, QueuedOnce
<1>8. Spawned'
  BY <1>0, <1>2 DEF IInv, Spawned
<1>9. Orphaned'
  <2>1. \A x \in Callers : task[x] = "ended" => task'[x] = "ended"
    BY <1>0 DEF Tasks
  <2>2. \A x \in Tasks : Orphan(x) => Orphan(x)'
    BY <2>1 DEF Orphan
  <2> QED
    BY <1>0, <2>2 DEF IInv, Orphaned
<1> QED
  BY <1>3, <1>4, <1>6, <1>7, <1>8, <1>9

\* A listener returns, by a failure or because it has seen the signal.
LEMMA EndLoopInv ==
  ASSUME IInv, NEW l \in Listeners, NEW reason \in {"error", "signal"}, hand[l] = NoTask,
         EndLoop(l, reason),
         failed' = failed \cup {l} \/ (~running /\ failed' = failed),
         reason = "signal" => ~running
  PROVE  IInv'
<1> USE DEF EndLoop, zioVars
<1>1. hand' = hand
  BY DEF IInv, TypeOK
<1>2. /\ TaskTypes' /\ backlog' \in [Listeners -> Seq(Callers)]
      /\ Placed' /\ QueuedOnce' /\ Spawned' /\ Orphaned'
  BY <1>1, DropBacklog
<1>3. TypeOK'
  BY <1>1, <1>2, ZenonT(60) DEF IInv, TypeOK, TaskTypes
<1>4. Loops'
  BY ZenonT(60) DEF IInv, Loops, LoopOk, TypeOK
<1> QED
  BY <1>2, <1>3, <1>4 DEF IInv

\* accept fails and the TCP listener binds a new socket.
LEMMA RebindInv ==
  ASSUME IInv, NEW l \in Listeners, loop[l] = "accept", kind[l] = "tcp",
         loop' = [loop EXCEPT ![l] = "check"], backlog' = [backlog EXCEPT ![l] = <<>>],
         DropCallers(ToSet(backlog[l]), "error"),
         UNCHANGED <<kind, running, hand, failed, daemon, late, parent, zioVars>>
  PROVE  IInv'
<1> USE DEF zioVars
<1>1. /\ TaskTypes' /\ backlog' \in [Listeners -> Seq(Callers)]
      /\ Placed' /\ QueuedOnce' /\ Spawned' /\ Orphaned'
  BY DropBacklog
<1>2. TypeOK'
  BY <1>1 DEF IInv, TypeOK, TaskTypes
<1>3. Loops'
  BY DEF IInv, Loops, LoopOk, TypeOK
<1> QED
  BY <1>1, <1>2, <1>3 DEF IInv

\* The first connection of a backlog, and what is left when it is taken.
LEMMA TakeCallerFacts ==
  ASSUME IInv, NEW l \in Listeners, backlog[l] # <<>>, TakeCaller(l)
  PROVE  /\ Head(backlog[l]) \in Callers /\ Head(backlog[l]) \in Tasks /\ Head(backlog[l]) # NoTask
         /\ task[Head(backlog[l])] = "waiting"
         /\ backlog' \in [Listeners -> Seq(Callers)]
         /\ \A m \in Listeners : \A i \in 1..Len(backlog'[m]) :
              /\ backlog'[m][i] \in Tasks /\ task[backlog'[m][i]] = "waiting"
              /\ backlog'[m][i] # Head(backlog[l])
              /\ \A n \in Listeners : hand[n] # NoTask => hand[n] # backlog'[m][i]
         /\ \A m, n \in Listeners : \A i \in 1..Len(backlog'[m]), j \in 1..Len(backlog'[n]) :
              backlog'[m][i] = backlog'[n][j] => m = n /\ i = j
         /\ \A m \in Listeners : hand[m] # NoTask => hand[m] # Head(backlog[l])
<1> USE DEF TakeCaller
<1> DEFINE q == backlog[l]
           shift(m) == IF m = l THEN 1 ELSE 0
<1>1. q \in Seq(Callers) /\ q # <<>>
  BY WaitingTasks DEF IInv
<1>2. Head(q) = q[1] /\ 1 \in 1..Len(q) /\ Tail(q) \in Seq(Callers)
  BY <1>1, TailFacts
<1>3. \A i \in 1..Len(Tail(q)) : Tail(q)[i] = q[i + 1] /\ i + 1 \in 1..Len(q)
  BY <1>1, TailFacts
<1>4. backlog' = [backlog EXCEPT ![l] = Tail(q)] /\ backlog \in [Listeners -> Seq(Callers)]
  BY DEF IInv, TypeOK
<1>5. ASSUME NEW m \in Listeners, NEW i \in 1..Len(backlog'[m])
      PROVE  /\ backlog'[m][i] = backlog[m][i + shift(m)] /\ i + shift(m) \in 1..Len(backlog[m])
             /\ m = l => i + shift(m) # 1
  <2>1. CASE m = l
    BY <1>3, <1>4, <2>1
  <2>2. CASE m # l
    BY <1>4, <2>2
  <2> QED
    BY <2>1, <2>2
<1>6. Head(q) \in Callers /\ Head(q) \in Tasks /\ task[Head(q)] = "waiting" /\ Head(q) # NoTask
  BY <1>2, WaitingTasks, TaskAssumption DEF IInv, Placed
<1>7. ASSUME NEW m \in Listeners, NEW i \in 1..Len(backlog'[m])
      PROVE  /\ backlog'[m][i] \in Tasks /\ task[backlog'[m][i]] = "waiting"
             /\ backlog'[m][i] # Head(q)
             /\ \A n \in Listeners : hand[n] # NoTask => hand[n] # backlog'[m][i]
  <2> DEFINE k == i + shift(m)
  <2>1. backlog'[m][i] = backlog[m][k] /\ k \in 1..Len(backlog[m]) /\ (m = l => k # 1)
    BY <1>5
  <2> HIDE DEF k
  <2>2. backlog[m][k] \in Tasks /\ task[backlog[m][k]] = "waiting"
    BY <2>1, WaitingTasks DEF IInv, Placed
  <2>3. backlog[m][k] # backlog[l][1]
    BY <1>2, <2>1 DEF IInv, Placed
  <2>4. \A n \in Listeners : hand[n] # NoTask => hand[n] # backlog[m][k]
    BY <2>1 DEF IInv, Placed
  <2> QED
    BY <1>2, <2>1, <2>2, <2>3, <2>4
<1>8. ASSUME NEW m \in Listeners, NEW n \in Listeners, NEW i \in 1..Len(backlog'[m]), NEW j \in 1..Len(backlog'[n]),
             backlog'[m][i] = backlog'[n][j]
      PROVE  m = n /\ i = j
  <2>1. /\ backlog'[m][i] = backlog[m][i + shift(m)] /\ i + shift(m) \in 1..Len(backlog[m])
        /\ backlog'[n][j] = backlog[n][j + shift(n)] /\ j + shift(n) \in 1..Len(backlog[n])
    BY <1>5
  <2>2. m = n /\ i + shift(m) = j + shift(n)
    BY <1>8, <2>1 DEF IInv, Placed
  <2> QED
    BY <2>2
<1>9. \A m \in Listeners : hand[m] # NoTask => hand[m] # Head(q)
  BY <1>2 DEF IInv, Placed
<1>10. backlog' \in [Listeners -> Seq(Callers)]
  BY <1>2, <1>4
<1> QED
  BY <1>6, <1>7, <1>8, <1>9, <1>10

\* The types, for a step of a listener.
LEMMA ListenerTypes ==
  ASSUME TypeOK, TaskTypes', UNCHANGED <<kind, running, daemon, failed, queue, worker>>,
         loop' \in [Listeners -> {"start", "check", "accept", "handshake", "send", "ended"}],
         hand' \in [Listeners -> Callers \cup {NoTask}],
         \A m \in Listeners : (hand'[m] # NoTask) <=> loop'[m] \in {"handshake", "send"},
         backlog' \in [Listeners -> Seq(Callers)],
         parent' \in [Tasks -> Listeners \cup Callers \cup {NoTask}],
         late' \in [Listeners -> Nat]
  PROVE  TypeOK'
  BY DEF TypeOK, TaskTypes

\* A task is spawned for a connection that waits.
LEMMA SpawnFacts ==
  ASSUME IInv, NEW c \in Callers, NEW l \in Listeners, NEW state \in {"setup", "serving"},
         task[c] = "waiting", Spawn(c, l, state), UNCHANGED <<running, failed, queue>>
  PROVE  /\ TaskTypes' /\ parent' \in [Tasks -> Listeners \cup Callers \cup {NoTask}]
         /\ \A x \in Tasks : x # c => task'[x] = task[x]
         /\ Spawned' /\ Orphaned'
<1> USE TaskAssumption DEF Spawn
<1>0. c \in Tasks /\ why[c] = "none"
  BY DEF Tasks, IInv, Spawned
<1>1. TaskTypes'
  <2>1. {x \in Tasks : task'[x] = "queued"} = {x \in Tasks : task[x] = "queued"}
    BY <1>0 DEF IInv, TypeOK
  <2> QED
    BY <1>0, <2>1 DEF IInv, TypeOK, TaskTypes
<1>2. parent' \in [Tasks -> Listeners \cup Callers \cup {NoTask}]
  BY DEF IInv, TypeOK
<1>3. \A x \in Tasks : x # c => task'[x] = task[x]
  BY DEF IInv, TypeOK
<1>4. Spawned'
  <2>1. \A x \in Tasks : x # c => parent'[x] = parent[x]
    BY DEF IInv, TypeOK
  <2>2. task'[c] = state
    BY <1>0 DEF IInv, TypeOK
  <2>3. why' = why
    OBVIOUS
  <2> QED
    BY <1>3, <2>1, <2>2, <2>3 DEF IInv, Spawned
<1>5. Orphaned'
  <2>1. \A x \in Callers : task[x] = "ended" => task'[x] = "ended"
    BY <1>3 DEF Tasks
  <2>2. \A x \in Tasks : x # c => parent'[x] = parent[x]
    BY DEF IInv, TypeOK
  <2>3. \A x \in Tasks : x # c /\ Orphan(x) => Orphan(x)'
    BY <2>1, <2>2 DEF Orphan
  <2> QED
    BY <1>0, <2>3 DEF IInv, Orphaned
<1> QED
  BY <1>1, <1>2, <1>3, <1>4, <1>5

\* A listener that spawns is counted late at most once, and looks at its signal next.
LEMMA CountLateFacts ==
  ASSUME IInv, NEW l \in Listeners, late[l] = 0, CountLate(l),
         NEW next \in {"accept", "check"}, loop[l] # "ended", (next = "accept") <=> kind[l] = "quic",
         loop' = [loop EXCEPT ![l] = next], UNCHANGED <<kind, running, failed>>
  PROVE  /\ late' \in [Listeners -> Nat]
         /\ loop' \in [Listeners -> {"start", "check", "accept", "handshake", "send", "ended"}]
         /\ loop'[l] = next /\ \A m \in Listeners : m # l => loop'[m] = loop[m]
         /\ Loops'
<1>1. /\ late \in [Listeners -> Nat]
      /\ loop \in [Listeners -> {"start", "check", "accept", "handshake", "send", "ended"}]
  BY DEF IInv, TypeOK
<1>2. late' = [late EXCEPT ![l] = IF running THEN 0 ELSE 1]
  BY <1>1 DEF CountLate
<1>3. /\ late' \in [Listeners -> Nat] /\ late'[l] = (IF running THEN 0 ELSE 1)
      /\ \A m \in Listeners : m # l => late'[m] = late[m]
  BY <1>1, <1>2
<1>4. /\ loop' \in [Listeners -> {"start", "check", "accept", "handshake", "send", "ended"}]
      /\ loop'[l] = next /\ \A m \in Listeners : m # l => loop'[m] = loop[m]
  BY <1>1
<1>5. Loops'
  <2> SUFFICES ASSUME NEW m \in Listeners PROVE LoopOk(m)'
    BY DEF Loops
  <2>1. LoopOk(m)
    BY DEF IInv, Loops
  <2>2. CASE m = l
    BY <1>3, <1>4, <2>2 DEF LoopOk
  <2>3. CASE m # l
    BY <1>3, <1>4, <2>1, <2>3 DEF LoopOk
  <2> QED
    BY <2>2, <2>3
<1> QED
  BY <1>3, <1>4, <1>5

LEMMA AcceptInv == ASSUME IInv, NEW l \in Listeners, Accept(l) PROVE IInv'
<1> USE DEF Accept, Called, OfKind, CountLate, zioVars
<1> DEFINE c == Head(backlog[l])
<1>1. /\ c \in Callers /\ c \in Tasks /\ task[c] = "waiting" /\ backlog' \in [Listeners -> Seq(Callers)]
      /\ \A m \in Listeners : \A i \in 1..Len(backlog'[m]) :
           /\ backlog'[m][i] \in Tasks /\ task[backlog'[m][i]] = "waiting" /\ backlog'[m][i] # c
           /\ \A n \in Listeners : hand[n] # NoTask => hand[n] # backlog'[m][i]
      /\ \A m, n \in Listeners : \A i \in 1..Len(backlog'[m]), j \in 1..Len(backlog'[n]) :
           backlog'[m][i] = backlog'[n][j] => m = n /\ i = j
      /\ \A m \in Listeners : hand[m] # NoTask => hand[m] # c
  BY TakeCallerFacts
<1>2. Spawn(c, l, "setup")
  OBVIOUS
<1> HIDE DEF c
<1>3. /\ TaskTypes' /\ parent' \in [Tasks -> Listeners \cup Callers \cup {NoTask}]
      /\ \A x \in Tasks : x # c => task'[x] = task[x]
      /\ Spawned' /\ Orphaned'
  BY <1>1, <1>2, SpawnFacts
<1>4. /\ late' \in [Listeners -> Nat]
      /\ loop' \in [Listeners -> {"start", "check", "accept", "handshake", "send", "ended"}]
      /\ loop'[l] = "check" /\ \A m \in Listeners : m # l => loop'[m] = loop[m]
      /\ Loops'
  <2>1. late[l] = 0
    BY DEF IInv, Loops, LoopOk
  <2> QED
    BY <2>1, CountLateFacts
<1>5. TypeOK'
  <2>1. /\ UNCHANGED <<kind, running, daemon, failed, queue, worker>>
        /\ hand' = hand /\ hand \in [Listeners -> Callers \cup {NoTask}]
    BY DEF IInv, TypeOK
  <2>2. \A m \in Listeners : (hand'[m] # NoTask) <=> loop'[m] \in {"handshake", "send"}
    <3>1. \A m \in Listeners : (hand[m] # NoTask) <=> loop[m] \in {"handshake", "send"}
      BY DEF IInv, TypeOK
    <3>2. loop[l] = "accept"
      OBVIOUS
    <3> QED
      BY <1>4, <2>1, <3>1, <3>2
  <2> QED
    BY <1>1, <1>3, <1>4, <2>1, <2>2, ListenerTypes DEF IInv
<1>6. Placed'
  <2>1. \A m \in Listeners : hand[m] # NoTask => hand[m] \in Tasks /\ hand[m] # c
    BY <1>1, WaitingTasks DEF IInv
  <2>2. \A m \in Listeners : hand[m] # NoTask => task'[hand[m]] = "waiting"
    BY <1>3, <2>1 DEF IInv, Placed
  <2>3. \A m \in Listeners : \A i \in 1..Len(backlog'[m]) : task'[backlog'[m][i]] = "waiting"
    BY <1>1, <1>3
  <2> QED
    BY <1>1, <2>2, <2>3 DEF IInv, Placed
<1>7. QueuedOnce'
  BY DEF IInv, QueuedOnce
<1> QED
  BY <1>3, <1>4, <1>5, <1>6, <1>7 DEF IInv

\* The next connection is taken in hand, for its handshake or for the daemon.
LEMMA ToHandInv ==
  ASSUME IInv, NEW l \in Listeners, Called(l), TakeCaller(l),
         NEW next \in {"handshake", "send"}, kind[l] = IF next = "handshake" THEN "quic" ELSE "user_quic",
         late[l] = 0, hand' = [hand EXCEPT ![l] = Head(backlog[l])], loop' = [loop EXCEPT ![l] = next],
         UNCHANGED <<kind, running, failed, daemon, late, taskVars, zioVars>>
  PROVE  IInv'
<1> USE DEF Called, taskVars, zioVars
<1> DEFINE c == Head(backlog[l])
<1>1. /\ c \in Callers /\ c # NoTask /\ task[c] = "waiting" /\ backlog' \in [Listeners -> Seq(Callers)]
      /\ \A m \in Listeners : \A i \in 1..Len(backlog'[m]) :
           /\ backlog'[m][i] \in Tasks /\ task[backlog'[m][i]] = "waiting" /\ backlog'[m][i] # c
           /\ \A n \in Listeners : hand[n] # NoTask => hand[n] # backlog'[m][i]
      /\ \A m, n \in Listeners : \A i \in 1..Len(backlog'[m]), j \in 1..Len(backlog'[n]) :
           backlog'[m][i] = backlog'[n][j] => m = n /\ i = j
      /\ \A m \in Listeners : hand[m] # NoTask => hand[m] # c
  BY TakeCallerFacts
<1>2. hand' = [hand EXCEPT ![l] = c]
  OBVIOUS
<1> HIDE DEF c
<1>3. TypeOK'
  <2>0. hand \in [Listeners -> Callers \cup {NoTask}]
    BY DEF IInv, TypeOK
  <2>1. /\ hand' \in [Listeners -> Callers \cup {NoTask}] /\ hand'[l] = c
        /\ \A m \in Listeners : m # l => hand'[m] = hand[m]
    BY <1>1, <1>2, <2>0
  <2>2. /\ loop' \in [Listeners -> {"start", "check", "accept", "handshake", "send", "ended"}]
        /\ loop'[l] = next /\ \A m \in Listeners : m # l => loop'[m] = loop[m]
    BY DEF IInv, TypeOK
  <2>3. \A m \in Listeners : (hand'[m] # NoTask) <=> loop'[m] \in {"handshake", "send"}
    <3>1. \A m \in Listeners : (hand[m] # NoTask) <=> loop[m] \in {"handshake", "send"}
      BY DEF IInv, TypeOK
    <3> QED
      BY <1>1, <2>1, <2>2, <3>1
  <2> QED
    BY <1>1, <2>1, <2>2, <2>3, ZenonT(60) DEF IInv, TypeOK
<1>4. Loops'
  BY ZenonT(40) DEF IInv, Loops, LoopOk, TypeOK
<1>5. Placed'
  <2>1. hand'[l] = c /\ \A m \in Listeners : m # l => hand'[m] = hand[m]
    BY <1>2 DEF IInv, TypeOK
  <2> QED
    BY <1>1, <2>1 DEF IInv, Placed
<1>6. QueuedOnce' /\ Spawned'
  BY DEF IInv, QueuedOnce, Spawned
<1>7. Orphaned'
  BY DEF IInv, Orphaned, Orphan
<1> QED
  BY <1>3, <1>4, <1>5, <1>6, <1>7 DEF IInv

\* What is in hand goes, and no task but it has moved.
LEMMA LetGoPlaced ==
  ASSUME IInv, NEW l \in Listeners, hand[l] # NoTask, hand' = [hand EXCEPT ![l] = NoTask], backlog' = backlog,
         \A x \in Tasks : x # hand[l] => task'[x] = task[x]
  PROVE  Placed'
<1>1. hand'[l] = NoTask /\ \A m \in Listeners : m # l => hand'[m] = hand[m]
  BY DEF IInv, TypeOK
<1>2. \A m \in Listeners : \A i \in 1..Len(backlog[m]) : backlog[m][i] # hand[l]
  BY DEF IInv, Placed
<1>3. \A m \in Listeners : hand[m] # NoTask /\ m # l => hand[m] # hand[l]
  BY DEF IInv, Placed
<1> QED
  BY <1>1, <1>2, <1>3, WaitingTasks DEF IInv, Placed

\* The connection in hand gets a task.
LEMMA SpawnHeldInv ==
  ASSUME IInv, NEW l \in Listeners, NEW next \in {"accept", "check"}, NEW state \in {"setup", "serving"},
         loop[l] = IF next = "accept" THEN "handshake" ELSE "send",
         Spawn(hand[l], l, state), CountLate(l), LetGo(l, next)
  PROVE  IInv'
<1> USE DEF CountLate, LetGo, zioVars
<1>1. hand[l] # NoTask /\ hand[l] \in Callers /\ task[hand[l]] = "waiting"
  BY WaitingTasks DEF IInv, TypeOK, Placed
<1>2. /\ TaskTypes' /\ parent' \in [Tasks -> Listeners \cup Callers \cup {NoTask}]
      /\ \A x \in Tasks : x # hand[l] => task'[x] = task[x]
      /\ Spawned' /\ Orphaned'
  BY <1>1, SpawnFacts
<1>3. /\ late' \in [Listeners -> Nat]
      /\ loop' \in [Listeners -> {"start", "check", "accept", "handshake", "send", "ended"}]
      /\ loop'[l] = next /\ \A m \in Listeners : m # l => loop'[m] = loop[m]
      /\ Loops'
  <2>1. late[l] = 0 /\ ((next = "accept") <=> kind[l] = "quic")
    BY DEF IInv, Loops, LoopOk
  <2> QED
    BY <2>1, CountLateFacts
<1>4. TypeOK'
  <2>1. UNCHANGED <<kind, running, daemon, failed, queue, worker>> /\ backlog' \in [Listeners -> Seq(Callers)]
    BY DEF IInv, TypeOK
  <2>2. /\ hand' \in [Listeners -> Callers \cup {NoTask}] /\ hand'[l] = NoTask
        /\ \A m \in Listeners : m # l => hand'[m] = hand[m]
    BY DEF IInv, TypeOK
  <2>3. \A m \in Listeners : (hand'[m] # NoTask) <=> loop'[m] \in {"handshake", "send"}
    BY <1>3, <2>2, ZenonT(90) DEF IInv, TypeOK
  <2> QED
    BY <1>2, <1>3, <2>1, <2>2, <2>3, ListenerTypes DEF IInv
<1>5. Placed'
  BY <1>1, <1>2, LetGoPlaced
<1>6. QueuedOnce'
  BY DEF IInv, QueuedOnce
<1> QED
  BY <1>2, <1>3, <1>4, <1>5, <1>6 DEF IInv

\* The connection in hand is dropped.
LEMMA DropHeldInv ==
  ASSUME IInv, NEW l \in Listeners, NEW next \in {"accept", "check"}, NEW reason \in {"error", "no daemon"},
         loop[l] = IF next = "accept" THEN "handshake" ELSE "send",
         DropCallers({hand[l]}, reason), LetGo(l, next), UNCHANGED <<late, parent>>
  PROVE  IInv'
<1> USE DEF DropCallers, LetGo, zioVars
<1>1. hand[l] # NoTask /\ hand[l] \in Callers /\ task[hand[l]] = "waiting"
  BY WaitingTasks DEF IInv, TypeOK, Placed
<1>2. TypeOK'
  <2>1. {x \in Tasks : task'[x] = "queued"} = {x \in Tasks : task[x] = "queued"}
    BY <1>1
  <2>2. /\ task' \in [Tasks -> TaskStates]
        /\ why' \in [Tasks -> {"none", "peer", "error", "signal", "no daemon", "exit"}]
    BY DEF IInv, TypeOK
  <2> QED
    BY <2>1, <2>2, ZenonT(40) DEF IInv, TypeOK
<1>3. Loops'
  BY DEF IInv, Loops, LoopOk, TypeOK
<1>4. Placed'
  BY <1>1, LetGoPlaced
<1>5. QueuedOnce'
  BY DEF IInv, QueuedOnce
<1>6. Spawned'
  BY DEF IInv, Spawned
<1>7. Orphaned'
  <2>1. \A x \in Callers : task[x] = "ended" => task'[x] = "ended"
    BY DEF Tasks
  <2>2. \A x \in Tasks : Orphan(x) => Orphan(x)'
    BY <2>1 DEF Orphan
  <2> QED
    BY <2>2 DEF IInv, Orphaned
<1> QED
  BY <1>2, <1>3, <1>4, <1>5, <1>6, <1>7 DEF IInv

\* A connection joins the backlog of a listener.
LEMMA ArriveInv == ASSUME IInv, NEW l \in Listeners, NEW c \in Callers, Arrive(l, c) PROVE IInv'
<1> USE DEF Arrive, zioVars
<1> DEFINE q == backlog[l]
<1>0. c \in Tasks /\ task[c] = "idle" /\ q \in Seq(Callers)
  BY WaitingTasks DEF IInv, Tasks
<1>1. /\ Append(q, c) \in Seq(Callers) /\ Len(q) \in Nat /\ Len(Append(q, c)) = Len(q) + 1
      /\ \A i \in 1..Len(q) : Append(q, c)[i] = q[i]
      /\ Append(q, c)[Len(q) + 1] = c
  BY <1>0, AppendFacts
<1>2. backlog' = [backlog EXCEPT ![l] = Append(q, c)] /\ backlog \in [Listeners -> Seq(Callers)]
  BY DEF IInv, TypeOK
<1>3. \A x \in Tasks : x # c => task'[x] = task[x]
  BY DEF IInv, TypeOK
<1>4. task'[c] = "waiting"
  BY <1>0 DEF IInv, TypeOK
<1>5. TypeOK'
  <2>1. {x \in Tasks : task'[x] = "queued"} = {x \in Tasks : task[x] = "queued"}
    BY <1>0, <1>3, <1>4
  <2>2. TaskTypes'
    BY <2>1 DEF IInv, TypeOK, TaskTypes
  <2>3. backlog' \in [Listeners -> Seq(Callers)]
    BY <1>1, <1>2
  <2>4. /\ UNCHANGED <<kind, running, daemon, failed, queue, worker>>
        /\ loop' \in [Listeners -> {"start", "check", "accept", "handshake", "send", "ended"}]
        /\ hand' \in [Listeners -> Callers \cup {NoTask}]
        /\ parent' \in [Tasks -> Listeners \cup Callers \cup {NoTask}]
        /\ late' \in [Listeners -> Nat]
        /\ \A m \in Listeners : (hand'[m] # NoTask) <=> loop'[m] \in {"handshake", "send"}
    BY DEF IInv, TypeOK
  <2> QED
    BY <2>2, <2>3, <2>4, ListenerTypes DEF IInv
<1>6. Loops'
  BY DEF IInv, Loops, LoopOk
<1>7. Placed'
  <2>1. ASSUME NEW m \in Listeners, NEW i \in 1..Len(backlog'[m])
        PROVE  \/ m = l /\ i = Len(q) + 1 /\ backlog'[m][i] = c
               \/ i \in 1..Len(backlog[m]) /\ backlog'[m][i] = backlog[m][i] /\ backlog[m][i] # c
    <3>1. \A j \in 1..Len(backlog[m]) : backlog[m][j] # c
      BY <1>0 DEF IInv, Placed
    <3>2. CASE m = l
      <4>1. backlog'[m] = Append(q, c)
        BY <1>2, <3>2
      <4>2. i \in 1..Len(q) \/ i = Len(q) + 1
        BY <1>1, <4>1
      <4> QED
        BY <1>1, <3>1, <3>2, <4>1, <4>2
    <3>3. CASE m # l
      BY <1>2, <3>1, <3>3
    <3> QED
      BY <3>2, <3>3
  <2>2. ASSUME NEW m \in Listeners, NEW i \in 1..Len(backlog'[m]) PROVE task'[backlog'[m][i]] = "waiting"
    BY <1>3, <1>4, <2>1, <2>2, WaitingTasks DEF IInv, Placed
  <2>3. ASSUME NEW m \in Listeners, NEW n \in Listeners, NEW i \in 1..Len(backlog'[m]), NEW j \in 1..Len(backlog'[n]),
               backlog'[m][i] = backlog'[n][j]
        PROVE  m = n /\ i = j
    BY <2>1, <2>3 DEF IInv, Placed
  <2>4. ASSUME NEW m \in Listeners, hand[m] # NoTask
        PROVE  /\ hand[m] \in Tasks /\ hand[m] # c /\ task'[hand[m]] = "waiting"
               /\ \A n \in Listeners : \A i \in 1..Len(backlog'[n]) : backlog'[n][i] # hand[m]
               /\ \A n \in Listeners : hand[n] = hand[m] => n = m
    <3>1. hand[m] \in Tasks /\ hand[m] # c
      BY <1>0, <2>4, WaitingTasks DEF IInv, Placed
    <3> QED
      BY <1>3, <2>1, <2>4, <3>1 DEF IInv, Placed
  <2>5. hand' = hand
    OBVIOUS
  <2> QED
    BY <2>2, <2>3, <2>4, <2>5 DEF Placed
<1>8. QueuedOnce'
  BY DEF IInv, QueuedOnce
<1>9. Spawned'
  BY <1>0, <1>3, <1>4 DEF IInv, Spawned
<1>10. Orphaned'
  <2>1. \A x \in Callers : task[x] = "ended" => task'[x] = "ended"
    BY <1>0, <1>3 DEF Tasks
  <2>2. \A x \in Tasks : Orphan(x) => Orphan(x)'
    BY <2>1 DEF Orphan
  <2> QED
    BY <2>2 DEF IInv, Orphaned
<1> QED
  BY <1>5, <1>6, <1>7, <1>8, <1>9, <1>10 DEF IInv
-----------------------------------------------------------------------------
(***************************************************************************)
(* All steps together.                                                     *)
(***************************************************************************)

\* What a listener does by itself.
LEMMA ListenInv == ASSUME IInv, NEW l \in Listeners, Listen(l) PROVE IInv'
<1>0. /\ loop[l] \in {"start", "check", "accept"} => hand[l] = NoTask
      /\ loop[l] = "handshake" => kind[l] = "quic"
      /\ loop[l] = "send" => kind[l] = "user_quic"
  BY DEF IInv, TypeOK, Loops, LoopOk
<1>1. CASE Start(l)
  BY <1>1, StartInv
<1>2. CASE Check(l)
  <2>1. CASE running
    BY <1>2, <2>1, CheckInv DEF Check
  <2>2. CASE ~running
    BY <1>0, <1>2, <2>2, EndLoopInv DEF Check, Stops
  <2> QED
    BY <2>1, <2>2
<1>3. CASE Accept(l)
  BY <1>3, AcceptInv
<1>4. CASE QuicNext(l)
  <2>1. CASE running
    <3>1. late[l] = 0
      BY <2>1 DEF IInv, Loops, LoopOk
    <3>2. /\ Called(l) /\ TakeCaller(l) /\ kind[l] = "quic"
          /\ hand' = [hand EXCEPT ![l] = Head(backlog[l])] /\ loop' = [loop EXCEPT ![l] = "handshake"]
          /\ UNCHANGED <<kind, running, failed, daemon, late, taskVars, zioVars>>
      BY <1>4, <2>1 DEF QuicNext, OfKind
    <3> QED
      BY <3>1, <3>2, ToHandInv
  <2>2. CASE ~running
    BY <1>0, <1>4, <2>2, EndLoopInv DEF QuicNext, Called, Stops
  <2> QED
    BY <2>1, <2>2
<1>5. CASE HandshakeDone(l)
  BY <1>5, SpawnHeldInv DEF HandshakeDone
<1>6. CASE HandshakeFails(l)
  BY <1>6, DropHeldInv DEF HandshakeFails
<1>7. CASE AskDaemon(l)
  <2>1. kind[l] = "user_quic" /\ loop[l] = "accept"
    BY <1>7 DEF AskDaemon, Called, OfKind
  <2>2. late[l] = 0
    BY <2>1 DEF IInv, Loops, LoopOk
  <2> QED
    BY <1>7, <2>1, <2>2, ToHandInv DEF AskDaemon
<1>8. CASE Asked(l)
  <2>1. CASE daemon[l] = "up"
    BY <1>8, <2>1, SpawnHeldInv DEF Asked
  <2>2. CASE daemon[l] # "up"
    BY <1>8, <2>2, DropHeldInv DEF Asked
  <2> QED
    BY <2>1, <2>2
<1> QED
  BY <1>1, <1>2, <1>3, <1>4, <1>5, <1>6, <1>7, <1>8 DEF Listen

\* What is done to a listener.
LEMMA FaultInv == ASSUME IInv, NEW l \in Listeners, Fault(l) PROVE IInv'
<1>0. loop[l] \in {"start", "check", "accept"} => hand[l] = NoTask
  BY DEF IInv, TypeOK
<1>1. ASSUME Fails(l), loop[l] \in {"start", "accept"} PROVE IInv'
  BY <1>0, <1>1, EndLoopInv DEF Fails
<1>2. CASE StartFails(l) \/ NodelayFails(l) \/ EndpointLost(l)
  BY <1>1, <1>2 DEF StartFails, NodelayFails, EndpointLost, Called
<1>3. CASE AcceptFails(l)
  <2>1. CASE Fails(l)
    BY <1>1, <1>3, <2>1 DEF AcceptFails
  <2>2. CASE ~Fails(l)
    BY <1>3, <2>2, RebindInv DEF AcceptFails, OfKind
  <2> QED
    BY <2>1, <2>2
<1>4. CASE DaemonEnds(l)
  BY <1>4, DaemonEndsInv
<1> QED
  BY <1>2, <1>3, <1>4 DEF Fault

\* What a connection or a stream does.
LEMMA TaskInv ==
  ASSUME IInv, NEW t \in Tasks,
         SetUp(t) \/ Flush(t) \/ EchoEof(t) \/ Ends(t) \/ Stop(t) \/ Submission(t) \/ ZioEnds(t)
  PROVE  IInv'
<1>0. parent[t] \in Listeners => t \in Callers
  BY DEF IInv, Spawned
<1>1. CASE SetUp(t)
  <2>2. task[t] = "setup"
    BY <1>1 DEF SetUp
  <2>3. CASE Become(t, "serving")
    BY <2>2, <2>3, BecomeInv
  <2>4. CASE OfClient(t) /\ Become(t, "plain")
    BY <1>0, <2>2, <2>4, BecomeInv DEF OfClient
  <2>5. CASE \E state \in {"flush", "fallback", "echo"} : Become(t, state)
    BY <2>2, <2>5, BecomeInv
  <2>6. CASE EndTask(t, "error")
    BY <2>2, <2>6, EndTaskInv DEF Active
  <2> QED
    BY <1>1, <2>3, <2>4, <2>5, <2>6 DEF SetUp
<1>2. CASE Flush(t)
  <2>1. task[t] = "flush"
    BY <1>2 DEF Flush
  <2>2. CASE Become(t, "serving") \/ (parent[t] \in Listeners /\ Become(t, "plain"))
    BY <1>0, <2>1, <2>2, BecomeInv
  <2>3. CASE EndTask(t, "error")
    BY <2>1, <2>3, EndTaskInv DEF Active
  <2> QED
    BY <1>2, <2>2, <2>3 DEF Flush
<1>3. CASE EchoEof(t)
  BY <1>3, BecomeInv DEF EchoEof
<1>4. CASE Ends(t)
  BY <1>4, EndTaskInv DEF Ends, Active
<1>5. CASE Stop(t)
  BY <1>5, EndTaskInv DEF Stop, Active
<1>6. CASE Submission(t)
  <2>1. CASE Submit(t)
    BY <2>1, SubmitInv
  <2>2. CASE SubmitFails(t)
    BY <2>2, EndTaskInv DEF SubmitFails, Active
  <2> QED
    BY <1>6, <2>1, <2>2 DEF Submission
<1>7. CASE ZioEnds(t)
  BY <1>7, EndTaskInv DEF ZioEnds, Active
<1> QED
  BY <1>1, <1>2, <1>3, <1>4, <1>5, <1>6, <1>7

\* Every step keeps the invariant.
LEMMA NextInv == IInv /\ [Next]_vars => IInv'
<1> SUFFICES ASSUME IInv, [Next]_vars PROVE IInv'
  OBVIOUS
<1>1. CASE UNCHANGED vars
  <2>1. UNCHANGED <<kind, running, loop, hand, backlog, failed, daemon, late, task, parent, why, queue, worker>>
    BY <1>1 DEF vars, listenerVars, taskVars, zioVars
  <2>2. TypeOK'
    BY <2>1 DEF IInv, TypeOK
  <2>3. Loops'
    BY <2>1 DEF IInv, Loops, LoopOk
  <2> QED
    BY <2>1, <2>2, <2>3, LoopInv
<1>2. CASE Next
  <2>1. CASE CtrlC \/ Exit
    BY <2>1, CtrlCInv, ExitInv
  <2>2. CASE \E l \in Listeners : Listen(l) \/ Fault(l) \/ \E c \in Callers : Arrive(l, c)
    BY <2>2, ListenInv, FaultInv, ArriveInv
  <2>3. CASE \E t \in Tasks :
               SetUp(t) \/ Flush(t) \/ EchoEof(t) \/ Ends(t) \/ Stop(t) \/ Submission(t) \/ ZioEnds(t)
    BY <2>3, TaskInv
  <2>4. CASE \E c \in Callers, s \in Streams : OpenStream(c, s)
    BY <2>4, OpenStreamInv
  <2>5. CASE Take \/ InitFails
    BY <2>5, TakeInv, InitFailsInv
  <2> QED
    BY <1>2, <2>1, <2>2, <2>3, <2>4, <2>5 DEF Next, Runtime
<1> QED
  BY <1>1, <1>2

LEMMA Invariance == Spec => []IInv
  BY InitInv, NextInv, PTL DEF Spec

\* Every variable keeps its type, a listener holds a connection exactly where its
\* loop waits for one, and the channel to glommio holds what has been sent there and
\* no more than it has room for.
THEOREM LifecycleTypeOK == Spec => []TypeOK
<1>1. IInv => TypeOK
  BY DEF IInv
<1> QED
  BY <1>1, Invariance, PTL

\* However many connections there are, a listener lets in at most one after its
\* signal (listener.rs: try_recv! between two accepts).
THEOREM OneLateConnectionHolds == Spec => []OneLateConnection
<1>1. IInv => OneLateConnection
  <2> SUFFICES ASSUME IInv, NEW l \in Listeners PROVE late[l] <= 1
    BY DEF OneLateConnection
  <2>1. late[l] = 0 \/ late[l] = 1
    BY DEF IInv, Loops, LoopOk
  <2> QED
    BY <2>1
<1> QED
  BY <1>1, Invariance, PTL

\* What ends one listener or connection cuts no relay of another
\* (clone_with_signal: a task listens to the sender of its own parent).
THEOREM IsolatedHolds == Spec => []Isolated
<1>1. IInv => Isolated
  <2> SUFFICES ASSUME IInv, NEW t \in Tasks, why[t] = "signal", parent[t] # NoTask, running
               PROVE  \/ ListenerOf(t) \in failed
                      \/ parent[t] \in Callers /\ task[parent[t]] = "ended"
    BY DEF Isolated
  <2>1. Orphan(t)
    BY DEF IInv, Orphaned
  <2>2. failed \subseteq Listeners
    BY DEF IInv, TypeOK
  <2> QED
    BY <2>1, <2>2 DEF Orphan, ListenerOf
<1> QED
  BY <1>1, Invariance, PTL
=============================================================================

----------------------------- MODULE Lifecycle -----------------------------
(***************************************************************************)
(* The tasks of one process and how they come and go: build_tunnel, the    *)
(* listeners it starts, the connections and streams they hand to tasks of  *)
(* their own, and the glommio threads that take over plain relays.         *)
(*                                                                         *)
(* Nobody ever sends a shutdown message.  run_server, run_client, the      *)
(* listeners and a QUIC connection own a broadcast sender and give their   *)
(* children receivers of it: when the function returns, or is dropped, the *)
(* sender goes and the receivers of the children are closed.  A child that *)
(* looks at its receiver ends and so closes those of its own children.     *)
(* Where a child does not look, in accept, in a handshake, in the setup of *)
(* a connection, the signal waits.  Three places never look: the bytes a   *)
(* Lite-TLS handshake leaves over are flushed without a time limit, a      *)
(* refused request goes on in a relay to the fallback service that has     *)
(* neither signal nor time limit, and an echo whose peer has closed takes  *)
(* the end of the stream for data and never gives its thread back.         *)
(*                                                                         *)
(* A server has a listener for QUIC and one for TCP, a client one for HTTP *)
(* and one for SOCKS5, both in the mode the options name.                  *)
(***************************************************************************)
EXTENDS Naturals, Sequences, FiniteSets, SequencesExt

CONSTANTS
  Listeners,  \* the two listeners of a process
  Programs,   \* what they may be: a set of functions from Listeners to Kinds
  Callers,    \* bound: the connections made to the listeners
  Streams,    \* bound: the streams opened on QUIC connections
  Zio,        \* compiled with the zio feature: plain relays go to glommio
  QueueCap,   \* the capacity of a glommio thread's channel
  Threads,    \* the worker threads of the tokio runtime
  NoTask      \* the parent of a task that has not been spawned

\* The QUIC and the TCP listener of a server; the listeners of a client that
\* connects to it through TCP and through QUIC.
Kinds == {"quic", "tcp", "user", "user_quic"}

ASSUME ProgramAssumption == Programs \subseteq [Listeners -> Kinds] /\ Programs # {}
ASSUME ZioAssumption == Zio \in BOOLEAN /\ QueueCap \in Nat \ {0}
ASSUME ThreadAssumption == Threads \in Nat \ {0}
ASSUME TaskAssumption ==
  NoTask \notin Listeners \cup Callers \cup Streams /\ Listeners \cap Callers = {}

Tasks == Callers \cup Streams

\* How far a task is: made but not accepted ("waiting"), in its set-up, flushing
\* what a Lite-TLS handshake left over, relaying with an eye on its signal
\* ("serving", "echo"), relaying for the fallback service, an echo at the end of
\* its stream ("spin"), and on the way to glommio or there.
TaskStates == {"idle", "waiting", "setup", "flush", "serving", "echo", "fallback", "spin",
               "plain", "queued", "zio", "ended"}

VARIABLES
  kind,     \* kind[l]: what listener l is
  running,  \* run_server or run_client: the sender of the listeners' signal
  loop,     \* loop[l]: where the loop of listener l stands
  hand,     \* hand[l]: the connection it holds, NoTask if none
  backlog,  \* backlog[l]: connections that wait for accept
  failed,   \* the listeners that have ended by a failure of their own
  daemon,   \* daemon[l]: the quic_connection_daemon of a client listener
  task,     \* task[t]: how far a connection or stream is
  parent,   \* parent[t]: the task or listener whose sender t listens to
  why,      \* why[t]: what has ended t
  late,     \* late[l]: connections that l has spawned after its signal
  queue,    \* the channel of the glommio thread
  worker    \* the glommio thread: "up" or "gone"

listenerVars == <<kind, running, loop, hand, backlog, failed, daemon, late>>
taskVars == <<task, parent, why>>
zioVars == <<queue, worker>>
vars == <<listenerVars, taskVars, zioVars>>

Init ==
  /\ kind \in Programs
  /\ running = TRUE
  /\ loop = [l \in Listeners |-> "start"]
  /\ hand = [l \in Listeners |-> NoTask]
  /\ backlog = [l \in Listeners |-> <<>>]
  /\ failed = {}
  /\ daemon = [l \in Listeners |-> "none"]
  /\ task = [t \in Tasks |-> "idle"]
  /\ parent = [t \in Tasks |-> NoTask]
  /\ why = [t \in Tasks |-> "none"]
  /\ late = [l \in Listeners |-> 0]
  /\ queue = <<>> /\ worker = "up"
-----------------------------------------------------------------------------
(***************************************************************************)
(* Signals.                                                                *)
(***************************************************************************)

\* Mutant: all tasks listen to one signal that every listener can end.
AnySignal(t) == \E l \in Listeners : loop[l] = "ended"

\* The receiver in the context of t is closed: clone_with_signal gave it the
\* channel of its parent, and the parent has ended.
Signal(t) ==
  IF parent[t] \in Listeners THEN loop[parent[t]] = "ended"
                             ELSE parent[t] # NoTask /\ task[parent[t]] = "ended"

\* ctrl-c drops run_server or run_client, and with it its sender.
CtrlC ==
  /\ running
  /\ running' = FALSE
  /\ UNCHANGED <<kind, loop, hand, backlog, failed, daemon, late, taskVars, zioVars>>

\* The tasks that never give their thread back.
Spinning == {t \in Tasks : task[t] = "spin"}

\* All threads of the runtime are taken: no task of it runs, and nobody waits for
\* sockets, timers or ctrl-c.
Stalled == Cardinality(Spinning) >= Threads

\* main returns after build_tunnel: the runtime drops all of its tasks and waits
\* for its threads.  A task that spins keeps its thread, and so the process with
\* its glommio threads; otherwise the process ends with them.
Exit ==
  LET survives == IF Spinning = {} THEN {"idle", "ended"}
                                   ELSE {"idle", "ended", "spin", "queued", "zio"}
  IN  /\ ~running
      /\ loop' = [l \in Listeners |-> "ended"]
      /\ hand' = [l \in Listeners |-> NoTask]
      /\ backlog' = [l \in Listeners |-> <<>>]
      /\ daemon' = [l \in Listeners |-> "gone"]
      /\ task' = [t \in Tasks |-> IF task[t] \in survives THEN task[t] ELSE "ended"]
      /\ why' = [t \in Tasks |-> IF task[t] \in survives THEN why[t] ELSE "exit"]
      /\ IF Spinning = {} THEN queue' = <<>> /\ worker' = "gone" ELSE UNCHANGED zioVars
      /\ UNCHANGED <<kind, running, failed, late, parent>>
-----------------------------------------------------------------------------
(***************************************************************************)
(* Listeners.                                                              *)
(***************************************************************************)

OfKind(l, ks) == kind[l] \in ks
UserKinds == {"user", "user_quic"}

\* A user or a client connects.
Arrive(l, c) ==
  /\ task[c] = "idle" /\ loop[l] \notin {"start", "ended"}
  /\ task' = [task EXCEPT ![c] = "waiting"]
  /\ backlog' = [backlog EXCEPT ![l] = Append(@, c)]
  /\ UNCHANGED <<kind, running, loop, hand, failed, daemon, late, parent, why, zioVars>>

\* The listening socket is dropped, and with it the set cs of connections.
DropCallers(cs, reason) ==
  /\ task' = [t \in Tasks |-> IF t \in cs THEN "ended" ELSE task[t]]
  /\ why' = [t \in Tasks |-> IF t \in cs THEN reason ELSE why[t]]

\* The function of the listener returns: what it holds and its socket are gone.
EndLoop(l, reason) ==
  /\ loop' = [loop EXCEPT ![l] = "ended"]
  /\ hand' = [hand EXCEPT ![l] = NoTask]
  /\ backlog' = [backlog EXCEPT ![l] = <<>>]
  /\ DropCallers(ToSet(backlog[l]), reason)
  /\ UNCHANGED <<kind, running, daemon, late, parent, zioVars>>

Fails(l) == EndLoop(l, "error") /\ failed' = failed \cup {l}
Stops(l) == EndLoop(l, "signal") /\ UNCHANGED failed

\* The listener reads its certificate and binds its port; a client's starts its
\* daemon.  QUIC goes to its first accept without a look at the signal.
Start(l) ==
  /\ loop[l] = "start"
  /\ loop' = [loop EXCEPT ![l] = IF OfKind(l, {"quic"}) THEN "accept" ELSE "check"]
  /\ daemon' = [daemon EXCEPT ![l] = IF OfKind(l, UserKinds) THEN "up" ELSE @]
  /\ UNCHANGED <<kind, running, hand, backlog, failed, late, taskVars, zioVars>>

StartFails(l) == loop[l] = "start" /\ Fails(l)

\* Mutant: the signal is not looked at.
CheckNothing(l) ==
  /\ loop[l] = "check"
  /\ loop' = [loop EXCEPT ![l] = "accept"]
  /\ UNCHANGED <<kind, running, hand, backlog, failed, daemon, late, taskVars, zioVars>>

\* try_recv! before each accept: break if the signal is there.
Check(l) ==
  /\ loop[l] = "check"
  /\ IF running
       THEN /\ loop' = [loop EXCEPT ![l] = "accept"]
            /\ UNCHANGED <<kind, running, hand, backlog, failed, daemon, late, taskVars, zioVars>>
       ELSE Stops(l)

\* A task is spawned for c, with a receiver of p's sender.
Spawn(c, p, state) ==
  /\ task' = [task EXCEPT ![c] = state]
  /\ parent' = [parent EXCEPT ![c] = p]
  /\ UNCHANGED why

CountLate(l) == late' = [late EXCEPT ![l] = IF running THEN @ ELSE @ + 1]

Called(l) == loop[l] = "accept" /\ backlog[l] # <<>>
TakeCaller(l) == backlog' = [backlog EXCEPT ![l] = Tail(@)]

\* tcp_tls_listener, and user_endpoint_listener where no daemon is needed.
Accept(l) ==
  /\ Called(l) /\ OfKind(l, {"tcp", "user"})
  /\ TakeCaller(l)
  /\ Spawn(Head(backlog[l]), l, "setup")
  /\ CountLate(l)
  /\ loop' = [loop EXCEPT ![l] = "check"]
  /\ UNCHANGED <<kind, running, hand, failed, daemon, zioVars>>

\* set_nodelay fails on the accepted connection: its ? ends the whole listener.
NodelayFails(l) ==
  /\ Called(l) /\ OfKind(l, {"tcp"})
  /\ Fails(l)

\* accept itself fails: the TCP listener drops its socket, with the connections
\* that wait there, and binds another; it ends if it cannot.  A client's ends.
AcceptFails(l) ==
  /\ loop[l] = "accept" /\ OfKind(l, {"tcp"} \cup UserKinds)
  /\ \/ Fails(l)
     \/ /\ OfKind(l, {"tcp"})
        /\ loop' = [loop EXCEPT ![l] = "check"]
        /\ backlog' = [backlog EXCEPT ![l] = <<>>]
        /\ DropCallers(ToSet(backlog[l]), "error")
        /\ UNCHANGED <<kind, running, hand, failed, daemon, late, parent, zioVars>>

\* Mutant: the signal is not looked at.
QuicNextUnchecked(l) ==
  /\ Called(l) /\ OfKind(l, {"quic"})
  /\ TakeCaller(l)
  /\ hand' = [hand EXCEPT ![l] = Head(backlog[l])]
  /\ loop' = [loop EXCEPT ![l] = "handshake"]
  /\ UNCHANGED <<kind, running, failed, daemon, late, taskVars, zioVars>>

\* QUIC: the signal is looked at after a connection has come; then the loop
\* itself awaits the handshake.
QuicNext(l) ==
  /\ Called(l) /\ OfKind(l, {"quic"})
  /\ IF running
       THEN /\ TakeCaller(l)
            /\ hand' = [hand EXCEPT ![l] = Head(backlog[l])]
            /\ loop' = [loop EXCEPT ![l] = "handshake"]
            /\ UNCHANGED <<kind, running, failed, daemon, late, taskVars, zioVars>>
       ELSE Stops(l)

\* The endpoint is lost: incoming has no more connections.
EndpointLost(l) ==
  /\ loop[l] = "accept" /\ OfKind(l, {"quic"})
  /\ Fails(l)

LetGo(l, next) ==
  /\ loop' = [loop EXCEPT ![l] = next]
  /\ hand' = [hand EXCEPT ![l] = NoTask]
  /\ UNCHANGED <<kind, running, backlog, failed, daemon, zioVars>>

HandshakeDone(l) ==
  /\ loop[l] = "handshake"
  /\ Spawn(hand[l], l, "serving")
  /\ CountLate(l)
  /\ LetGo(l, "accept")

\* The peer gives up, or is silent until the connection times out.
HandshakeFails(l) ==
  /\ loop[l] = "handshake"
  /\ DropCallers({hand[l]}, "error")
  /\ LetGo(l, "accept")
  /\ UNCHANGED <<late, parent>>

\* A client in QUIC mode asks its daemon for a stream: the send waits while the
\* channel is full.  Without a daemon the user is let go and the loop goes on.
AskDaemon(l) ==
  /\ Called(l) /\ OfKind(l, {"user_quic"})
  /\ TakeCaller(l)
  /\ hand' = [hand EXCEPT ![l] = Head(backlog[l])]
  /\ loop' = [loop EXCEPT ![l] = "send"]
  /\ UNCHANGED <<kind, running, failed, daemon, late, taskVars, zioVars>>

\* Mutant: a listener without a daemon waits for one.
AskedAlways(l) ==
  /\ loop[l] = "send" /\ daemon[l] = "up"
  /\ Spawn(hand[l], l, "setup")
  /\ CountLate(l)
  /\ LetGo(l, "check")

Asked(l) ==
  /\ loop[l] = "send"
  /\ IF daemon[l] = "up"
       THEN Spawn(hand[l], l, "setup") /\ CountLate(l)
       ELSE DropCallers({hand[l]}, "no daemon") /\ UNCHANGED <<late, parent>>
  /\ LetGo(l, "check")

\* The daemon panics (no first connection, or an unwrap: QuicConnection), or
\* sees the end of its listener.
DaemonEnds(l) ==
  /\ daemon[l] = "up"
  /\ daemon' = [daemon EXCEPT ![l] = "gone"]
  /\ UNCHANGED <<kind, running, loop, hand, backlog, failed, late, taskVars, zioVars>>
-----------------------------------------------------------------------------
(***************************************************************************)
(* Connections and streams.                                                *)
(***************************************************************************)

OfClient(t) == parent[t] \in Listeners /\ OfKind(parent[t], UserKinds)
IsConnection(t) == parent[t] \in Listeners /\ OfKind(parent[t], {"quic"})

EndTask(t, reason) ==
  /\ task' = [task EXCEPT ![t] = "ended"]
  /\ why' = [why EXCEPT ![t] = reason]
  /\ UNCHANGED <<listenerVars, parent, zioVars>>

Become(t, state) ==
  /\ task' = [task EXCEPT ![t] = state]
  /\ UNCHANGED <<listenerVars, parent, why, zioVars>>

\* The request is read and the other side connected.  A client waits for its user
\* and its server as long as they like.  On a server TLS, request, connect and
\* Lite-TLS handshake have timeouts; a refused request goes to the fallback
\* service, in a task that nobody holds, one for an echo is answered at once, and
\* after a Lite-TLS handshake there may be bytes to flush.  Nobody looks at the
\* signal.
SetUp(t) ==
  /\ task[t] = "setup"
  /\ \/ Become(t, "serving")
     \/ Zio /\ OfClient(t) /\ OfKind(parent[t], {"user"}) /\ Become(t, "plain")
     \/ ~OfClient(t) /\ \E state \in {"flush", "fallback", "echo"} : Become(t, state)
     \/ EndTask(t, "error")

\* flush_tls and flush_non_tls read from the peer and write what is left over,
\* outside of handshake_timeout and of any select!; then the relay begins.
Flush(t) ==
  /\ task[t] = "flush"
  /\ \/ Become(t, "serving")
     \/ Zio /\ parent[t] \in Listeners /\ Become(t, "plain")
     \/ EndTask(t, "error")

\* The peer of an echo closes: read gives Ok(0), nothing is written back, and read
\* is called again.  None of these calls waits, so select! is never polled again.
EchoEof(t) == task[t] = "echo" /\ Become(t, "spin")

\* The relay ends by its peers, an error or its idle timeout; a QUIC connection
\* when it is closed or lost; a fallback relay by its peers or an error only, an
\* echo by an error only.  One that spins sees an error if its stream is one of
\* QUIC, where even the empty write asks the connection.
Ends(t) ==
  /\ \/ task[t] \in {"serving", "fallback", "echo"}
     \/ task[t] = "spin" /\ parent[t] \in Callers
  /\ EndTask(t, "peer")

\* Mutant: a QUIC connection that waits for streams only.
StopsRelay(t) ==
  task[t] \in {"serving", "echo"} /\ ~IsConnection(t) /\ Signal(t) /\ EndTask(t, "signal")

\* shutdown.recv() of select!, in a relay, a QUIC connection, or an echo that waits.
Stop(t) == task[t] \in {"serving", "echo"} /\ Signal(t) /\ EndTask(t, "signal")

\* handle_quic_connection: the peer opens a stream.
OpenStream(c, s) ==
  /\ task[c] = "serving" /\ IsConnection(c) /\ task[s] = "idle"
  /\ Spawn(s, c, "setup")
  /\ UNCHANGED <<listenerVars, zioVars>>
-----------------------------------------------------------------------------
(***************************************************************************)
(* glommio: relay_tcp_zio and the thread at the other end of the channel.  *)
(***************************************************************************)

\* Both sockets go to the thread, waiting for room; the task is done with them.
Submit(t) ==
  /\ task[t] = "plain" /\ worker = "up" /\ Len(queue) < QueueCap
  /\ queue' = Append(queue, t)
  /\ task' = [task EXCEPT ![t] = "queued"]
  /\ UNCHANGED <<listenerVars, parent, why, worker>>

SubmitFails(t) == task[t] = "plain" /\ worker = "gone" /\ EndTask(t, "error")

\* Mutant: the thread relays one connection after the other.
TakeInTurn ==
  /\ worker = "up" /\ queue # <<>> /\ \A t \in Tasks : task[t] # "zio"
  /\ queue' = Tail(queue)
  /\ task' = [task EXCEPT ![Head(queue)] = "zio"]
  /\ UNCHANGED <<listenerVars, parent, why, worker>>

\* The thread starts a relay of its own for the next connection.
Take ==
  /\ worker = "up" /\ queue # <<>>
  /\ queue' = Tail(queue)
  /\ task' = [task EXCEPT ![Head(queue)] = "zio"]
  /\ UNCHANGED <<listenerVars, parent, why, worker>>

\* init_tcp_stream fails for one connection: the worker returns, its executor
\* with all relays and its channel with all that wait there are dropped.
InitFails ==
  /\ worker = "up" /\ queue # <<>>
  /\ worker' = "gone" /\ queue' = <<>>
  /\ DropCallers({t \in Tasks : task[t] \in {"queued", "zio"}}, "error")
  /\ UNCHANGED <<listenerVars, parent>>

ZioEnds(t) == task[t] = "zio" /\ EndTask(t, "peer")
-----------------------------------------------------------------------------
\* What a listener does by itself, and what is done to it.
Listen(l) ==
  \/ Start(l) \/ Check(l) \/ Accept(l) \/ QuicNext(l) \/ HandshakeDone(l) \/ HandshakeFails(l)
  \/ AskDaemon(l) \/ Asked(l)

Fault(l) ==
  StartFails(l) \/ NodelayFails(l) \/ AcceptFails(l) \/ EndpointLost(l) \/ DaemonEnds(l)

Submission(t) == Submit(t) \/ SubmitFails(t)

\* What the threads of the runtime do.
Runtime ==
  \/ CtrlC \/ Exit
  \/ \E l \in Listeners : Listen(l) \/ Fault(l)
  \/ \E t \in Tasks : SetUp(t) \/ Flush(t) \/ Stop(t) \/ EchoEof(t) \/ Submission(t)
  \/ \E c \in Callers, s \in Streams : OpenStream(c, s)

\* A task that spins finds its error by itself, and the kernel and the glommio
\* thread do not need the runtime.
Next ==
  \/ ~Stalled /\ Runtime
  \/ \E t \in Tasks : (Stalled => task[t] = "spin") /\ Ends(t)
  \/ \E l \in Listeners, c \in Callers : Arrive(l, c)
  \/ \E t \in Tasks : ZioEnds(t)
  \/ Take \/ InitFails

Spec == Init /\ [][Next]_vars

\* A runtime that has a thread to spare runs a task that can go on; a handshake and
\* the set-up of a server, up to the flush, end by their timeouts, the send to the
\* daemon because the daemon answers one request after the other.  Nothing obliges
\* anybody to call, a client's user to speak, a peer to close or to take the bytes
\* of a flush, or the process to exit.
FairSpec ==
  /\ Spec
  /\ \A l \in Listeners : WF_vars(~Stalled /\ Listen(l))
  /\ \A t \in Tasks :
       /\ WF_vars(~Stalled /\ ~OfClient(t) /\ SetUp(t))
       /\ WF_vars(~Stalled /\ Stop(t)) /\ WF_vars(~Stalled /\ Submission(t))
  /\ WF_vars(Take)
-----------------------------------------------------------------------------
(***************************************************************************)
(* Properties.                                                             *)
(***************************************************************************)

\* Every variable has its type, a listener holds a connection exactly where its
\* loop waits for one, and the channel to glommio keeps to its capacity and holds
\* the tasks that have submitted their sockets.
TypeOK ==
  /\ kind \in Programs /\ running \in BOOLEAN
  /\ loop \in [Listeners -> {"start", "check", "accept", "handshake", "send", "ended"}]
  /\ hand \in [Listeners -> Callers \cup {NoTask}]
  /\ \A l \in Listeners : (hand[l] # NoTask) <=> loop[l] \in {"handshake", "send"}
  /\ backlog \in [Listeners -> Seq(Callers)]
  /\ failed \subseteq Listeners
  /\ daemon \in [Listeners -> {"none", "up", "gone"}]
  /\ task \in [Tasks -> TaskStates]
  /\ parent \in [Tasks -> Listeners \cup Callers \cup {NoTask}]
  /\ why \in [Tasks -> {"none", "peer", "error", "signal", "no daemon", "exit"}]
  /\ late \in [Listeners -> Nat]
  /\ queue \in Seq(Callers) /\ Len(queue) <= QueueCap
  /\ ToSet(queue) = {t \in Tasks : task[t] = "queued"}
  /\ worker \in {"up", "gone"}

\* The signal is looked at between two connections only, so one that comes after
\* it can still be let in by a listener that was waiting: one, and no more.
OneLateConnection == \A l \in Listeners : late[l] <= 1

\* The listener that t came in by.
ListenerOf(t) == IF parent[t] \in Listeners THEN parent[t] ELSE parent[parent[t]]

\* A relay is cut by a signal only after a ctrl-c, a failure of the listener it
\* came in by (on a server also by set_nodelay on another connection, whose ? ends
\* the listener) or, for a stream, the end of its QUIC connection: the end of one
\* listener cuts no relay of the other, that of one QUIC connection no stream of
\* another.
Isolated ==
  \A t \in Tasks : why[t] = "signal" /\ parent[t] # NoTask =>
    \/ ~running
    \/ ListenerOf(t) \in failed
    \/ parent[t] \in Callers /\ task[parent[t]] = "ended"

\* A relay, an echo, or a set-up of a server whose listener or connection has ended
\* does not go on: the cascade of dropped senders reaches it, down to the streams of
\* a QUIC connection.  What the cascade does not reach is named: a plain relay in
\* the hands of glommio, the flush after a Lite-TLS handshake, the relay to the
\* fallback service, an echo at the end of its stream; and when such echoes hold
\* every thread of the runtime, nothing ends any more.
Unreached == {"queued", "zio", "flush", "fallback", "spin"}
Released ==
  \A t \in Tasks :
    Signal(t) /\ (task[t] \in {"serving", "echo"} \/ (task[t] = "setup" /\ ~OfClient(t)))
      ~> task[t] \in {"ended"} \cup Unreached \/ Stalled

\* A connection that waits is accepted or turned away, also behind one whose
\* handshake fails or whose daemon is gone, while the runtime has a thread left.
Served == \A c \in Callers : task[c] = "waiting" ~> task[c] # "waiting" \/ Stalled

\* A listener that waits in accept sleeps through the signal; the next one to
\* call makes it see it, while the runtime has a thread left.
EndsAtNextCall ==
  \A l \in Listeners :
    ~running /\ backlog[l] # <<>> ~> loop[l] = "ended" \/ Stalled

\* A connection handed to glommio does not wait for the relays before it: it is
\* taken, or dropped with the worker and its channel when init_tcp_stream fails.
\* The glommio thread needs no thread of the runtime.
TakenByGlommio == \A t \in Tasks : task[t] = "queued" ~> task[t] # "queued"
=============================================================================

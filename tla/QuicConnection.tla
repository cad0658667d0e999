--------------------------- MODULE QuicConnection ---------------------------
(***************************************************************************)
(* The client's QUIC connections.  Every listener (HTTP, SOCKS5) starts a  *)
(* daemon that owns an EndpointManager and answers requests for a stream,  *)
(* one at a time: it opens streams on its current connection until the     *)
(* connection is used up or reported closed, then connects again.  An echo *)
(* task, on a stream of its own, is what reports a closed connection,      *)
(* through a flag that all daemons share.                                  *)
(*                                                                         *)
(* A connection is "up", "silent" (the path is broken, nobody knows yet)   *)
(* or "lost" (quinn has given it up).  A stream opens at once on one that  *)
(* is not lost, as long as the server's stream credit lasts; an echo gets  *)
(* an answer on one that is up only, and may time out even there.          *)
(***************************************************************************)
EXTENDS Naturals

CONSTANTS
  Daemons,                      \* one per listener
  MAX_CONCURRENT_BIDI_STREAMS,  \* 30 in protocol.rs, on both ends
  QueueCap,                     \* capacity of the request channel (20)
  MaxRequests,                  \* bound: requests per daemon
  MaxConns,                     \* bound: connections made by all daemons
  MayFail                       \* connecting may fail, daemons may be shut down

ASSUME StreamsAssumption ==
  MAX_CONCURRENT_BIDI_STREAMS \in Nat /\ MAX_CONCURRENT_BIDI_STREAMS >= 1
ASSUME BoundsAssumption ==
  QueueCap \in Nat /\ MaxRequests \in Nat /\ MaxConns \in Nat
ASSUME MayFailAssumption == MayFail \in BOOLEAN

VARIABLES
  IS_CONNECTION_OPENED,  \* the static AtomicBool
  pc,        \* where each daemon waits
  queue,     \* queue[m]: requests to daemon m that have no answer yet
  asked,     \* asked[m]: requests made so far (for the bound)
  conn,      \* conn[m]: its current connection, 0 before the first
  concurrent_streams_counter,
  failed,    \* failed[m]: requests refused since the last refresh
  echo,      \* echo[m]: its echo task and the ping in its channel
  last,      \* the connections made so far are 1..last
  net,       \* net[c]: "up", "silent" or "lost"
  streams    \* streams[c]: calls of open_bi on connection c

daemonVars == <<pc, queue, asked, conn, concurrent_streams_counter, failed>>
vars == <<IS_CONNECTION_OPENED, daemonVars, echo, last, net, streams>>

Conns == 1..MaxConns
PCs == {"new", "idle", "connecting", "opening", "down", "panicked", "stopped"}
Gone == {"down", "panicked", "stopped"}
EchoStates == {"closed", "opening", "waiting", "pinging", "closing"}

Init ==
  /\ IS_CONNECTION_OPENED = FALSE
  /\ pc = [m \in Daemons |-> "new"]
  /\ queue = [m \in Daemons |-> 0]
  /\ asked = [m \in Daemons |-> 0]
  /\ conn = [m \in Daemons |-> 0]
  /\ concurrent_streams_counter = [m \in Daemons |-> 0]
  /\ failed = [m \in Daemons |-> 0]
  /\ echo = [m \in Daemons |-> [task |-> "closed", conn |-> 0, ping |-> FALSE]]
  /\ last = 0
  /\ net = [c \in Conns |-> "up"]
  /\ streams = [c \in Conns |-> 0]
-----------------------------------------------------------------------------
(***************************************************************************)
(* Listeners and network.                                                  *)
(***************************************************************************)

\* The request that connect is working on has left the channel; it is counted in
\* queue until it is answered.
InService(m) == IF pc[m] \in {"connecting", "opening"} THEN 1 ELSE 0

\* A user connects: the listener sends a request, waiting while the channel is
\* full.  Once the daemon is gone the send fails and the user is dropped.
Request(m) ==
  /\ pc[m] \notin Gone /\ asked[m] < MaxRequests /\ queue[m] < QueueCap + InService(m)
  /\ queue' = [queue EXCEPT ![m] = @ + 1]
  /\ asked' = [asked EXCEPT ![m] = @ + 1]
  /\ UNCHANGED <<IS_CONNECTION_OPENED, pc, conn, concurrent_streams_counter, failed,
                 echo, last, net, streams>>

Break(c) ==
  /\ c <= last /\ net[c] = "up"
  /\ net' = [net EXCEPT ![c] = "silent"]
  /\ UNCHANGED <<IS_CONNECTION_OPENED, daemonVars, echo, last, streams>>

\* The peer closed the connection, or QUIC_MAX_IDLE_TIMEOUT passed.
Lose(c) ==
  /\ c <= last /\ net[c] # "lost"
  /\ net' = [net EXCEPT ![c] = "lost"]
  /\ UNCHANGED <<IS_CONNECTION_OPENED, daemonVars, echo, last, streams>>
-----------------------------------------------------------------------------
(***************************************************************************)
(* QuicConnectionWrapper and EndpointManager.                              *)
(***************************************************************************)
\* Mutant: one stream too many.
HasRemainingOffByOne(n) == n <= MAX_CONCURRENT_BIDI_STREAMS

has_remaining(n) == n < MAX_CONCURRENT_BIDI_STREAMS

echo_task_status(m) == echo[m].task # "closed"

\* refresh and the store that follows it: a fresh connection, of which n streams
\* are opened at once.
Refresh(m, n) ==
  /\ last < MaxConns
  /\ last' = last + 1
  /\ conn' = [conn EXCEPT ![m] = last + 1]
  /\ concurrent_streams_counter' = [concurrent_streams_counter EXCEPT ![m] = n]
  /\ streams' = [streams EXCEPT ![last + 1] = n]
  /\ failed' = [failed EXCEPT ![m] = 0]
  /\ IS_CONNECTION_OPENED' = TRUE

\* A daemon that ends drops its channel with the requests in it.
Leave(m, how) ==
  /\ pc' = [pc EXCEPT ![m] = how]
  /\ queue' = [queue EXCEPT ![m] = 0]

\* EndpointManager::new makes the first connection, or the daemon is no more.
New(m) ==
  /\ pc[m] = "new"
  /\ Refresh(m, 0)
  /\ pc' = [pc EXCEPT ![m] = "idle"]
  /\ UNCHANGED <<queue, asked, echo, net>>

NewFailed(m) ==
  /\ MayFail /\ pc[m] = "new"
  /\ Leave(m, "down")
  /\ UNCHANGED <<IS_CONNECTION_OPENED, asked, conn, concurrent_streams_counter, failed,
                 echo, last, net, streams>>

\* Whether connect has to give its echo task a stream first.
Spawns(m) == has_remaining(concurrent_streams_counter[m]) /\ ~echo_task_status(m)

\* The counter after echo, and after the open_bi of connect where it comes to it.
AfterEcho(m) == concurrent_streams_counter[m] + (IF Spawns(m) THEN 1 ELSE 0)

\* echo: start the task if there is none, and ask it for a ping (try_send: a
\* ping that is already in the channel is enough).
Echo(m) ==
  echo' = [echo EXCEPT ![m] =
             IF Spawns(m) THEN [task |-> "opening", conn |-> conn[m], ping |-> TRUE]
                          ELSE [@ EXCEPT !.ping = TRUE]]

\* Mutant: open_bi forgets to count.
OpensUncounted(m, n) ==
  /\ streams' = [streams EXCEPT ![conn[m]] = @ + n]
  /\ UNCHANGED concurrent_streams_counter

Opens(m, n) ==
  /\ concurrent_streams_counter' = [concurrent_streams_counter EXCEPT ![m] = @ + n]
  /\ streams' = [streams EXCEPT ![conn[m]] = @ + n]

\* Mutant: connecting again before anybody asked.
ReconnectsUnasked(m) ==
  /\ pc[m] = "idle"
  /\ ~has_remaining(concurrent_streams_counter[m])
  /\ pc' = [pc EXCEPT ![m] = "connecting"]
  /\ UNCHANGED <<IS_CONNECTION_OPENED, queue, asked, conn, concurrent_streams_counter, failed,
                 echo, last, net, streams>>

\* connect up to its first await.  There is no stream left: connect again.
ConnectUsedUp(m) ==
  /\ pc[m] = "idle" /\ queue[m] > 0
  /\ ~has_remaining(concurrent_streams_counter[m])
  /\ pc' = [pc EXCEPT ![m] = "connecting"]
  /\ UNCHANGED <<IS_CONNECTION_OPENED, queue, asked, conn, concurrent_streams_counter, failed,
                 echo, last, net, streams>>

\* The flag says closed: connect again.
ConnectClosed(m) ==
  /\ pc[m] = "idle" /\ queue[m] > 0
  /\ has_remaining(concurrent_streams_counter[m]) /\ ~IS_CONNECTION_OPENED
  /\ Echo(m)
  /\ Opens(m, AfterEcho(m) - concurrent_streams_counter[m])
  /\ pc' = [pc EXCEPT ![m] = "connecting"]
  /\ UNCHANGED <<IS_CONNECTION_OPENED, queue, asked, conn, failed, last, net>>

\* The flag says opened: open a stream.  open_bi().unwrap() panics when the echo
\* task has just been given the last one.
ConnectOpened(m) ==
  /\ pc[m] = "idle" /\ queue[m] > 0
  /\ has_remaining(concurrent_streams_counter[m]) /\ IS_CONNECTION_OPENED
  /\ Echo(m)
  /\ IF has_remaining(AfterEcho(m))
       THEN /\ Opens(m, AfterEcho(m) + 1 - concurrent_streams_counter[m])
            /\ pc' = [pc EXCEPT ![m] = "opening"]
            /\ UNCHANGED queue
       ELSE /\ Opens(m, 1)
            /\ Leave(m, "panicked")
  /\ UNCHANGED <<IS_CONNECTION_OPENED, asked, conn, failed, last, net>>

\* new_connection succeeded, connect opens the first stream of it.
Connected(m) ==
  /\ pc[m] = "connecting"
  /\ Refresh(m, 1)
  /\ pc' = [pc EXCEPT ![m] = "opening"]
  /\ UNCHANGED <<queue, asked, echo, net>>

\* The request of daemon m is answered.
Answer(m) ==
  /\ pc' = [pc EXCEPT ![m] = "idle"]
  /\ queue' = [queue EXCEPT ![m] = @ - 1]
  /\ UNCHANGED <<IS_CONNECTION_OPENED, asked, conn, concurrent_streams_counter,
                 echo, last, net, streams>>

\* new_connection failed, or took more than 2 seconds.
ConnectFailed(m) ==
  /\ pc[m] = "connecting" /\ (MayFail \/ last = MaxConns)
  /\ Answer(m)
  /\ UNCHANGED failed

\* The stream is there: open_bi waits for credit, which the server gives for
\* MAX_CONCURRENT_BIDI_STREAMS streams that are open at the same time.
Opened(m) ==
  /\ pc[m] = "opening" /\ net[conn[m]] # "lost"
  /\ streams[conn[m]] <= MAX_CONCURRENT_BIDI_STREAMS
  /\ Answer(m)
  /\ UNCHANGED failed

OpenFailed(m) ==
  /\ pc[m] = "opening" /\ net[conn[m]] = "lost"
  /\ Answer(m)
  /\ failed' = [failed EXCEPT ![m] = @ + 1]

\* The shutdown branch of the daemon's select!.
Shutdown(m) ==
  /\ MayFail /\ pc[m] = "idle"
  /\ Leave(m, "stopped")
  /\ UNCHANGED <<IS_CONNECTION_OPENED, asked, conn, concurrent_streams_counter, failed,
                 echo, last, net, streams>>
-----------------------------------------------------------------------------
(***************************************************************************)
(* The echo task: forward up to send_echo, then the loop of send_echo.     *)
(***************************************************************************)
EchoTo(m, state) ==
  /\ echo' = [echo EXCEPT ![m].task = state]
  /\ UNCHANGED <<daemonVars, last, net, streams>>

EchoOpened(m) ==
  /\ echo[m].task = "opening" /\ net[echo[m].conn] # "lost"
  /\ streams[echo[m].conn] <= MAX_CONCURRENT_BIDI_STREAMS
  /\ EchoTo(m, "waiting")
  /\ UNCHANGED IS_CONNECTION_OPENED

\* The task ends, and the flag is left as it is.
EchoOpenFailed(m) ==
  /\ echo[m].task = "opening" /\ net[echo[m].conn] = "lost"
  /\ EchoTo(m, "closed")
  /\ UNCHANGED IS_CONNECTION_OPENED

\* recv returns a ping, or at once when the sender is gone.
EchoPing(m) ==
  /\ echo[m].task = "waiting" /\ (echo[m].ping \/ pc[m] \in Gone)
  /\ echo' = [echo EXCEPT ![m] = [@ EXCEPT !.task = "pinging", !.ping = FALSE]]
  /\ UNCHANGED <<IS_CONNECTION_OPENED, daemonVars, last, net, streams>>

EchoPong(m) ==
  /\ echo[m].task = "pinging" /\ net[echo[m].conn] = "up"
  /\ EchoTo(m, "waiting")
  /\ UNCHANGED IS_CONNECTION_OPENED

\* A write or a read failed or timed out: the flag first, then the channel.
EchoFail(m) ==
  /\ echo[m].task = "pinging"
  /\ EchoTo(m, "closing")
  /\ IS_CONNECTION_OPENED' = FALSE

EchoClose(m) ==
  /\ echo[m].task = "closing"
  /\ EchoTo(m, "closed")
  /\ UNCHANGED IS_CONNECTION_OPENED
-----------------------------------------------------------------------------
DaemonStep(m) ==
  \/ New(m) \/ NewFailed(m)
  \/ ConnectUsedUp(m) \/ ConnectClosed(m) \/ ConnectOpened(m)
  \/ Connected(m) \/ ConnectFailed(m) \/ Opened(m) \/ OpenFailed(m)

EchoStep(m) ==
  EchoOpened(m) \/ EchoOpenFailed(m) \/ EchoPing(m) \/ EchoPong(m) \/ EchoFail(m) \/ EchoClose(m)

Next ==
  \/ \E m \in Daemons : Request(m) \/ DaemonStep(m) \/ EchoStep(m) \/ Shutdown(m)
  \/ \E c \in Conns : Break(c) \/ Lose(c)

Spec == Init /\ [][Next]_vars

\* The runtime polls a daemon whose await is over, and every await of a daemon is
\* over some day: new_connection has a timeout of 2 seconds.
FairSpec == Spec /\ \A m \in Daemons : WF_vars(DaemonStep(m))
-----------------------------------------------------------------------------
\* Every variable has its type.  No daemon answers a request nobody made (queue
\* stays a natural number) and no connection beyond last is used.
TypeOK ==
  /\ IS_CONNECTION_OPENED \in BOOLEAN
  /\ pc \in [Daemons -> PCs]
  /\ queue \in [Daemons -> Nat]
  /\ asked \in [Daemons -> Nat]
  /\ conn \in [Daemons -> 0..MaxConns]
  /\ concurrent_streams_counter \in [Daemons -> Nat]
  /\ failed \in [Daemons -> Nat]
  /\ echo \in [Daemons -> [task : EchoStates, conn : 0..MaxConns, ping : BOOLEAN]]
  /\ last \in 0..MaxConns
  /\ net \in [Conns -> {"up", "silent", "lost"}]
  /\ streams \in [Conns -> Nat]

\* concurrent_streams_counter, which is never decremented and is shared by user
\* streams and echo streams, is what keeps open_bi from waiting for credit: no
\* connection is ever asked for more streams than the server allows, through
\* refreshes, panics and echo tasks that outlive their connection.
StreamBudget == \A c \in Conns : streams[c] <= MAX_CONCURRENT_BIDI_STREAMS

\* A connection that is lost while the flag still says opened cannot refuse
\* requests for ever: each refusal has used up a stream, so that after at most
\* MAX_CONCURRENT_BIDI_STREAMS of them connect gives the connection up.
FailuresBounded == \A m \in Daemons : failed[m] <= MAX_CONCURRENT_BIDI_STREAMS

\* Every request gets an answer, or its channel is dropped with the daemon.
RequestsAnswered == \A m \in Daemons : queue[m] > 0 ~> queue[m] = 0

\* open_bi().unwrap() in connect: after has_remaining and echo there is always
\* a stream left.
UnwrapHolds == \A m \in Daemons : pc[m] # "panicked"
=============================================================================

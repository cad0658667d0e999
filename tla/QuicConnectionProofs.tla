------------------------ MODULE QuicConnectionProofs ------------------------
(***************************************************************************)
(* The stream budget of QuicConnection, for any number of daemons and any  *)
(* MAX_CONCURRENT_BIDI_STREAMS.                                            *)
(***************************************************************************)
EXTENDS QuicConnection, TLAPS

\* A daemon past EndpointManager::new has a connection, and a request in hand
\* while it connects or opens.
Busy ==
  \A m \in Daemons :
    /\ pc[m] \notin {"new", "down"} => conn[m] # 0
    /\ pc[m] \in {"connecting", "opening"} => queue[m] > 0

\* Connections are not shared: a fresh one is nobody's.
Owned ==
  /\ \A m \in Daemons : conn[m] <= last
  /\ \A m, n \in Daemons : m # n /\ conn[m] # 0 => conn[m] # conn[n]

\* The counter of the wrapper is the number of streams of its connection.
Counted ==
  \A m \in Daemons : conn[m] # 0 => concurrent_streams_counter[m] = streams[conn[m]]

\* Every refused request, and the one that is being opened, has been counted.
Paid ==
  \A m \in Daemons :
    /\ failed[m] <= concurrent_streams_counter[m]
    /\ pc[m] = "opening" => failed[m] < concurrent_streams_counter[m]
    /\ concurrent_streams_counter[m] <= MAX_CONCURRENT_BIDI_STREAMS

IInv == TypeOK /\ Busy /\ Owned /\ Counted /\ Paid /\ StreamBudget
-----------------------------------------------------------------------------
\* The initial state satisfies the invariant.
LEMMA InitInv == Init => IInv
  <1> SUFFICES ASSUME Init PROVE IInv
    OBVIOUS
  <1> USE StreamsAssumption, BoundsAssumption
  <1>1. TypeOK
    <2>1. IS_CONNECTION_OPENED \in BOOLEAN BY DEF Init
    <2>2. echo \in [Daemons -> [task : EchoStates, conn : 0..MaxConns, ping : BOOLEAN]]
      BY DEF Init, EchoStates
    <2>3. last \in 0..MaxConns BY DEF Init
    <2> QED BY <2>1, <2>2, <2>3 DEF Init, TypeOK, PCs
  <1>2. Busy /\ Owned /\ Counted BY DEF Init, Busy, Owned, Counted
  <1>3. Paid /\ StreamBudget BY DEF Init, Paid, StreamBudget
  <1> QED BY <1>1, <1>2, <1>3 DEF IInv

\* Steps that change neither connections nor counters.
LEMMA RequestInv == ASSUME IInv, NEW m \in Daemons, Request(m) PROVE IInv'
  BY DEF Request, IInv, TypeOK, Busy, Owned, Counted, Paid, StreamBudget

\* The network changes the state of a connection and nothing else.
LEMMA NetInv == ASSUME IInv, NEW c \in Conns, Break(c) \/ Lose(c) PROVE IInv'
  BY DEF Break, Lose, daemonVars, IInv, TypeOK, Busy, Owned, Counted, Paid, StreamBudget

\* An echo task changes itself and the flag, never a counter.
LEMMA EchoInv == ASSUME IInv, NEW m \in Daemons, EchoStep(m) PROVE IInv'
  <1> USE DEF IInv, TypeOK, Busy, Owned, Counted, Paid, StreamBudget, EchoStates, daemonVars
  <1>1. CASE EchoOpened(m) BY <1>1 DEF EchoOpened, EchoTo
  <1>2. CASE EchoOpenFailed(m) BY <1>2 DEF EchoOpenFailed, EchoTo
  <1>3. CASE EchoPing(m) BY <1>3, ZenonT(30) DEF EchoPing
  <1>4. CASE EchoPong(m) BY <1>4, SMTT(30) DEF EchoPong, EchoTo
  <1>5. CASE EchoFail(m) BY <1>5 DEF EchoFail, EchoTo
  <1>6. CASE EchoClose(m) BY <1>6, SMTT(30) DEF EchoClose, EchoTo
  <1> QED BY <1>1, <1>2, <1>3, <1>4, <1>5, <1>6 DEF EchoStep

\* A daemon that ends, and one that starts to connect, opens no stream.
LEMMA LeaveInv ==
  ASSUME IInv, NEW m \in Daemons, NewFailed(m) \/ Shutdown(m) \/ ConnectUsedUp(m)
  PROVE  IInv'
  <1> USE DEF IInv, TypeOK, Busy, Owned, Counted, Paid, StreamBudget, PCs, Leave
  <1>1. CASE NewFailed(m) BY <1>1 DEF NewFailed
  <1>2. CASE Shutdown(m) BY <1>2 DEF Shutdown
  <1>3. CASE ConnectUsedUp(m) BY <1>3 DEF ConnectUsedUp
  <1> QED BY <1>1, <1>2, <1>3

\* A refused request has been counted when its stream was opened.
LEMMA AnswerInv ==
  ASSUME IInv, NEW m \in Daemons, ConnectFailed(m) \/ Opened(m) \/ OpenFailed(m)
  PROVE  IInv'
  <1> USE DEF IInv, TypeOK, Busy, Owned, Counted, Paid, StreamBudget, PCs, Answer
  <1>1. CASE ConnectFailed(m) BY <1>1 DEF ConnectFailed
  <1>2. CASE Opened(m) BY <1>2 DEF Opened
  <1>3. CASE OpenFailed(m) BY <1>3 DEF OpenFailed
  <1> QED BY <1>1, <1>2, <1>3

\* refresh installs a connection that no daemon has and sets counter and stream
\* count alike.
LEMMA RefreshInv ==
  ASSUME IInv, NEW m \in Daemons, New(m) \/ Connected(m)
  PROVE  IInv'
  <1> USE StreamsAssumption, BoundsAssumption
  <1>1. ASSUME NEW n \in {0, 1}, Refresh(m, n), NEW p \in {"idle", "opening"},
               pc' = [pc EXCEPT ![m] = p], p = "opening" => n = 1,
               p = "opening" => queue[m] > 0,
               UNCHANGED <<queue, asked, echo, net>>
        PROVE  IInv'
    <2>1. TypeOK'
      <3>1. /\ IS_CONNECTION_OPENED' \in BOOLEAN
            /\ last' \in 0..MaxConns
            /\ conn' \in [Daemons -> 0..MaxConns]
        BY <1>1 DEF IInv, TypeOK, Refresh
      <3>2. /\ pc' \in [Daemons -> PCs]
            /\ concurrent_streams_counter' \in [Daemons -> Nat]
            /\ failed' \in [Daemons -> Nat]
            /\ streams' \in [Conns -> Nat]
        BY <1>1 DEF IInv, TypeOK, Refresh, PCs, Conns
      <3> QED BY <1>1, <3>1, <3>2 DEF IInv, TypeOK
    <2>2. Busy' BY <1>1 DEF IInv, TypeOK, Busy, Refresh
    <2>3. Owned' BY <1>1 DEF IInv, TypeOK, Owned, Refresh
    <2>4. Counted'
      <3> SUFFICES ASSUME NEW k \in Daemons, conn'[k] # 0
                   PROVE  concurrent_streams_counter'[k] = streams'[conn'[k]]
        BY DEF Counted
      <3>1. last \in Nat /\ last + 1 \in Conns /\ conn[k] \in 0..MaxConns /\ conn[k] <= last
        BY <1>1 DEF IInv, TypeOK, Owned, Refresh, Conns
      <3>2. conn \in [Daemons -> 0..MaxConns] /\ streams \in [Conns -> Nat]
            /\ concurrent_streams_counter \in [Daemons -> Nat]
        BY DEF IInv, TypeOK
      <3>3. CASE k = m BY <1>1, <3>1, <3>2, <3>3 DEF Refresh
      <3>4. CASE k # m
        <4>1. conn'[k] = conn[k]
              /\ concurrent_streams_counter'[k] = concurrent_streams_counter[k]
          BY <1>1, <3>2, <3>4 DEF Refresh
        <4>2. conn[k] \in Conns /\ conn[k] # last + 1 BY <3>1, <4>1 DEF Conns
        <4>3. streams'[conn[k]] = streams[conn[k]] BY <1>1, <3>2, <4>2 DEF Refresh
        <4> QED BY <4>1, <4>3 DEF IInv, Counted
      <3> QED BY <3>3, <3>4
    <2>5. Paid' BY <1>1 DEF IInv, TypeOK, Paid, Refresh
    <2>6. StreamBudget' BY <1>1 DEF IInv, TypeOK, StreamBudget, Refresh
    <2> QED BY <2>1, <2>2, <2>3, <2>4, <2>5, <2>6 DEF IInv
  <1>2. CASE New(m) BY <1>1, <1>2 DEF New
  <1>3. CASE Connected(m) BY <1>1, <1>3 DEF Connected, IInv, Busy
  <1> QED BY <1>2, <1>3

\* open_bi counts each stream once, on the daemon's own connection.
LEMMA OpensInv ==
  ASSUME IInv, NEW m \in Daemons, conn[m] # 0, NEW n \in Nat, Opens(m, n),
         concurrent_streams_counter[m] + n <= MAX_CONCURRENT_BIDI_STREAMS,
         UNCHANGED <<conn, last, failed>>
  PROVE  /\ concurrent_streams_counter' \in [Daemons -> Nat]
         /\ streams' \in [Conns -> Nat]
         /\ concurrent_streams_counter'[m] = concurrent_streams_counter[m] + n
         /\ \A k \in Daemons \ {m} :
              concurrent_streams_counter'[k] = concurrent_streams_counter[k]
         /\ Owned' /\ Counted' /\ StreamBudget'
  <1> USE StreamsAssumption, BoundsAssumption
  <1>1. conn[m] \in Conns BY DEF IInv, TypeOK, Conns
  <1>2. /\ concurrent_streams_counter' \in [Daemons -> Nat]
        /\ streams' \in [Conns -> Nat]
        /\ concurrent_streams_counter'[m] = concurrent_streams_counter[m] + n
        /\ \A k \in Daemons \ {m} :
             concurrent_streams_counter'[k] = concurrent_streams_counter[k]
        /\ streams'[conn[m]] = streams[conn[m]] + n
        /\ \A c \in Conns \ {conn[m]} : streams'[c] = streams[c]
    BY <1>1 DEF Opens, IInv, TypeOK
  <1>3. Owned' BY DEF IInv, Owned
  <1>4. Counted'
    <2> SUFFICES ASSUME NEW k \in Daemons, conn[k] # 0
                 PROVE  concurrent_streams_counter'[k] = streams'[conn[k]]
      BY DEF Counted
    <2>1. CASE k = m BY <1>2, <2>1 DEF IInv, Counted
    <2>2. CASE k # m
      <3>1. conn[k] \in Conns \ {conn[m]} BY <2>2 DEF IInv, TypeOK, Owned, Conns
      <3> QED BY <1>2, <2>2, <3>1 DEF IInv, Counted
    <2> QED BY <2>1, <2>2
  <1>5. StreamBudget'
    <2>1. streams'[conn[m]] <= MAX_CONCURRENT_BIDI_STREAMS
      BY <1>1, <1>2 DEF IInv, TypeOK, Counted
    <2> QED BY <1>2, <2>1 DEF IInv, StreamBudget
  <1> QED BY <1>2, <1>3, <1>4, <1>5

\* connect opens a stream for the echo task, for the user, or for both, within
\* the budget it has just checked.
LEMMA ConnectInv ==
  ASSUME IInv, NEW m \in Daemons, ConnectClosed(m) \/ ConnectOpened(m)
  PROVE  IInv'
  <1> USE StreamsAssumption, BoundsAssumption
  <1>1. concurrent_streams_counter[m] \in Nat /\ conn[m] # 0 /\ queue[m] > 0
    BY DEF IInv, TypeOK, Busy, ConnectClosed, ConnectOpened
  <1>2. AfterEcho(m) \in Nat /\ AfterEcho(m) >= concurrent_streams_counter[m]
        /\ AfterEcho(m) <= concurrent_streams_counter[m] + 1
        /\ AfterEcho(m) <= MAX_CONCURRENT_BIDI_STREAMS
    BY <1>1 DEF AfterEcho, Spawns, has_remaining, ConnectClosed, ConnectOpened
  <1>3. echo' \in [Daemons -> [task : EchoStates, conn : 0..MaxConns, ping : BOOLEAN]]
    <2>1. Echo(m) BY DEF ConnectClosed, ConnectOpened
    <2>2. conn[m] \in 0..MaxConns
          /\ echo \in [Daemons -> [task : EchoStates, conn : 0..MaxConns, ping : BOOLEAN]]
      BY DEF IInv, TypeOK
    <2>3. CASE Spawns(m) BY <2>1, <2>2, <2>3 DEF Echo, EchoStates
    <2>4. CASE ~Spawns(m)
      <3>1. [echo[m] EXCEPT !.ping = TRUE] \in [task : EchoStates, conn : 0..MaxConns, ping : BOOLEAN]
        BY <2>2
      <3> QED BY <2>1, <2>2, <2>4, <3>1 DEF Echo
    <2> QED BY <2>3, <2>4
  <1>4. ASSUME NEW n \in Nat, Opens(m, n), n >= 0,
               concurrent_streams_counter[m] + n <= MAX_CONCURRENT_BIDI_STREAMS,
               UNCHANGED <<IS_CONNECTION_OPENED, asked, conn, failed, last, net>>,
               NEW p \in {"connecting", "opening", "panicked"},
               pc' = [pc EXCEPT ![m] = p], p = "opening" => n > 0,
               queue' = queue \/ (p = "panicked" /\ queue' = [queue EXCEPT ![m] = 0])
        PROVE  IInv'
    <2>1. /\ concurrent_streams_counter' \in [Daemons -> Nat]
          /\ streams' \in [Conns -> Nat]
          /\ concurrent_streams_counter'[m] = concurrent_streams_counter[m] + n
          /\ \A k \in Daemons \ {m} :
               concurrent_streams_counter'[k] = concurrent_streams_counter[k]
          /\ Owned' /\ Counted' /\ StreamBudget'
      BY <1>1, <1>4, OpensInv
    <2>2. TypeOK'
      <3>1. pc' \in [Daemons -> PCs] /\ queue' \in [Daemons -> Nat]
        BY <1>4 DEF IInv, TypeOK, PCs
      <3> QED BY <1>3, <1>4, <2>1, <3>1 DEF IInv, TypeOK
    <2>3. Busy' BY <1>1, <1>4 DEF IInv, TypeOK, Busy
    <2>4. Paid' BY <1>1, <1>4, <2>1 DEF IInv, TypeOK, Paid
    <2> QED BY <2>1, <2>2, <2>3, <2>4 DEF IInv
  <1>5. CASE ConnectClosed(m)
    BY <1>1, <1>2, <1>4, <1>5 DEF ConnectClosed
  <1>6. CASE ConnectOpened(m)
    <2>1. CASE has_remaining(AfterEcho(m))
      BY <1>1, <1>2, <1>4, <1>6, <2>1 DEF ConnectOpened, has_remaining
    <2>2. CASE ~has_remaining(AfterEcho(m))
      <3>1. concurrent_streams_counter[m] + 1 <= MAX_CONCURRENT_BIDI_STREAMS
        BY <1>1, <1>6 DEF ConnectOpened, has_remaining
      <3> QED BY <1>1, <1>4, <1>6, <2>2, <3>1 DEF ConnectOpened, Leave
    <2> QED BY <2>1, <2>2
  <1> QED BY <1>5, <1>6

\* A step that changes no variable keeps the invariant.
LEMMA StutterInv == ASSUME IInv, UNCHANGED vars PROVE IInv'
  BY DEF IInv, TypeOK, Busy, Owned, Counted, Paid, StreamBudget, vars, daemonVars

\* One step per action of the next-state relation.
LEMMA NextInv == IInv /\ [Next]_vars => IInv'
  <1> SUFFICES ASSUME IInv, [Next]_vars PROVE IInv'
    OBVIOUS
  <1>1. ASSUME NEW m \in Daemons, DaemonStep(m) PROVE IInv'
    BY <1>1, LeaveInv, AnswerInv, RefreshInv, ConnectInv DEF DaemonStep
  <1>2. ASSUME NEW m \in Daemons, Shutdown(m) PROVE IInv'
    BY <1>2, LeaveInv
  <1> QED BY <1>1, <1>2, RequestInv, EchoInv, NetInv, StutterInv DEF Next

\* Every reachable state satisfies the invariant, and with it the types.
THEOREM QuicTypeOK == Spec => []TypeOK
  <1>1. IInv => TypeOK BY DEF IInv
  <1> QED BY <1>1, InitInv, NextInv, PTL DEF Spec

\* No connection is asked for more streams than the server allows, so that
\* neither connect nor an echo task ever waits for credit in open_bi.
THEOREM StreamBudgetHolds == Spec => []StreamBudget
  <1>1. IInv => StreamBudget BY DEF IInv
  <1> QED BY <1>1, InitInv, NextInv, PTL DEF Spec

\* A lost connection refuses at most MAX_CONCURRENT_BIDI_STREAMS requests before
\* connect replaces it.
THEOREM FailuresBoundedHolds == Spec => []FailuresBounded
  <1>1. IInv => FailuresBounded
    <2> SUFFICES ASSUME IInv, NEW m \in Daemons
                 PROVE  failed[m] <= MAX_CONCURRENT_BIDI_STREAMS
      BY DEF FailuresBounded
    <2>1. failed[m] \in Nat /\ concurrent_streams_counter[m] \in Nat BY DEF IInv, TypeOK
    <2> QED BY <2>1, StreamsAssumption DEF IInv, Paid
  <1> QED BY <1>1, InitInv, NextInv, PTL DEF Spec
=============================================================================

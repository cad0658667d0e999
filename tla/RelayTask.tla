----------------------------- MODULE RelayTask -----------------------------
(***************************************************************************)
(* Adapter::relay_tcp: one task that copies both directions of a proxied   *)
(* connection until both have ended, one fails, the connection has been    *)
(* idle for too long, or the proxy shuts down.  tcp_relay_task is the same *)
(* on a glommio thread, for connections that have left TLS on both sides:  *)
(* it has no other branch than the two copies, its sockets time out by     *)
(* themselves, and its writers are plain sockets that it never flushes.    *)
(*                                                                         *)
(*   inbound --> outbound   direction "Upload"                             *)
(*   inbound <-- outbound   direction "Download"                           *)
(*                                                                         *)
(* The task is polled when a waker it has left with a socket is called. A  *)
(* poll of select! polls its branches in any order; the branch of the two  *)
(* copies polls upload, then download, each until it can go no further.    *)
(*                                                                         *)
(* A writer takes bytes into a session buffer (held) and from there to the *)
(* wire; it must do so only when it is flushed.  A plain socket is the     *)
(* case HoldCap = 0.  Bytes are numbered as their sender wrote them.       *)
(***************************************************************************)
EXTENDS Naturals, Sequences

CONSTANTS
  BufCap,    \* RELAY_BUFFER_SIZE
  HoldCap,   \* bytes a session keeps before its write is pending
  WireCap,   \* bytes in flight to the receiver
  Engines,   \* which of the two relays: a subset of {"tokio", "glommio"}
  Total,     \* bound: Total[d] bytes are written by the sender of d
  MayFail    \* sockets may fail, the timeout and the shutdown may come

Directions == {"Upload", "Download"}

ASSUME CapAssumption ==
  /\ BufCap \in Nat \ {0} /\ WireCap \in Nat \ {0}
  /\ HoldCap \in Nat /\ Total \in [Directions -> Nat]
ASSUME FailAssumption == MayFail \in BOOLEAN
ASSUME EngineAssumption == Engines \subseteq {"tokio", "glommio"} /\ Engines # {}

Branches == {"duplex", "timeout", "shutdown"}

VARIABLES
  engine,   \* the runtime that polls the task
  sent,     \* sent[d]: bytes the sender of d has written
  source,   \* source[d]: bytes that can be read
  ended,    \* ended[d]: the sender has closed its side
  stalled,  \* the directions whose receiver does not read
  copy,     \* copy[d]: TransferState with its CopyBuffer
  held,     \* held[d]: bytes in the session of the writer
  wire,     \* wire[d]: bytes on their way to the receiver
  closed,   \* closed[d]: the writer has been shut down or dropped
  got,      \* got[d]: all the receiver has read
  todo,     \* the branches of select! still to be polled in this poll
  at,       \* the direction being polled, "none" outside the duplex branch
  wakers,   \* the sockets that hold a waker of the task
  woken,    \* the task is scheduled
  stop_reason,
  reason    \* why the relay has ended, "none" while it runs

envVars == <<engine, sent, ended, stalled, got>>
taskVars == <<todo, at, stop_reason, reason>>
vars == <<envVars, source, copy, held, wire, closed, taskVars, wakers, woken>>

Sockets == {"read", "write"} \X Directions
TransferStates ==
  [state : {"Running", "ShuttingDown", "Done"}, buf : Seq(Nat), pos : Nat, cap : Nat,
   read_done : BOOLEAN, need_flush : BOOLEAN]
Running == [state |-> "Running", buf |-> <<>>, pos |-> 0, cap |-> 0,
            read_done |-> FALSE, need_flush |-> FALSE]

Init ==
  /\ engine \in Engines
  /\ sent = [d \in Directions |-> 0]
  /\ source = [d \in Directions |-> <<>>]
  /\ ended = [d \in Directions |-> FALSE]
  /\ stalled \in SUBSET Directions
  /\ copy = [d \in Directions |-> Running]
  /\ held = [d \in Directions |-> <<>>]
  /\ wire = [d \in Directions |-> <<>>]
  /\ closed = [d \in Directions |-> FALSE]
  /\ got = [d \in Directions |-> <<>>]
  /\ todo = {} /\ at = "none"
  /\ wakers = {} /\ woken = TRUE
  /\ stop_reason = "Download" /\ reason = "none"
-----------------------------------------------------------------------------
(***************************************************************************)
(* Senders and receivers.                                                  *)
(***************************************************************************)

\* A socket that becomes ready calls the waker it holds.
Ready(s) ==
  /\ woken' = (woken \/ s \in wakers)
  /\ wakers' = wakers \ {s}

Send(d) ==
  /\ ~ended[d] /\ sent[d] < Total[d]
  /\ sent' = [sent EXCEPT ![d] = @ + 1]
  /\ source' = [source EXCEPT ![d] = Append(@, sent[d] + 1)]
  /\ Ready(<<"read", d>>)
  /\ UNCHANGED <<engine, ended, stalled, got, copy, held, wire, closed, taskVars>>

End(d) ==
  /\ ~ended[d]
  /\ ended' = [ended EXCEPT ![d] = TRUE]
  /\ Ready(<<"read", d>>)
  /\ UNCHANGED <<engine, sent, stalled, got, source, copy, held, wire, closed, taskVars>>

Receive(d) ==
  /\ d \notin stalled /\ wire[d] # <<>>
  /\ got' = [got EXCEPT ![d] = Append(@, Head(wire[d]))]
  /\ wire' = [wire EXCEPT ![d] = Tail(@)]
  /\ Ready(<<"write", d>>)
  /\ UNCHANGED <<engine, sent, ended, stalled, source, copy, held, closed, taskVars>>
-----------------------------------------------------------------------------
(***************************************************************************)
(* The writer: n bytes of the session go to the wire.                      *)
(***************************************************************************)
Room(d) == WireCap - Len(wire[d])
Pushable(d) == 0..(IF Len(held[d]) < Room(d) THEN Len(held[d]) ELSE Room(d))

Push(d, h, n) ==
  /\ wire' = [wire EXCEPT ![d] = @ \o SubSeq(h, 1, n)]
  /\ held' = [held EXCEPT ![d] = SubSeq(h, n + 1, Len(h))]

\* What a writer may keep back: only relay_tcp has sessions to write to.
Hold == IF engine = "tokio" THEN HoldCap ELSE 0

\* The bytes a call of poll_write can accept, and what it may push.
WriteRoom(d) == Room(d) + Hold - Len(held[d])

\* poll_flush pushes what fits; it is ready when nothing is left.
FlushNow(d) == CHOOSE n \in Pushable(d) : \A m \in Pushable(d) : m <= n
Flushes(d) == Len(held[d]) <= Room(d)
-----------------------------------------------------------------------------
(***************************************************************************)
(* The task.  A poll begins when the task is scheduled and ends when no    *)
(* branch is left.                                                         *)
(***************************************************************************)
Poll ==
  /\ woken /\ todo = {} /\ reason = "none"
  /\ woken' = FALSE
  /\ todo' = IF engine = "tokio" THEN Branches ELSE {"duplex"}
  /\ UNCHANGED <<envVars, source, copy, held, wire, closed, at, stop_reason, reason, wakers>>

\* The relay returns and drops both streams with what their sessions hold.
Finish(why) ==
  /\ reason' = why
  /\ todo' = {} /\ at' = "none"
  /\ closed' = [d \in Directions |-> TRUE]

PollTimeout ==
  /\ "timeout" \in todo /\ at = "none"
  /\ \/ /\ MayFail /\ Finish("Timeout")
     \/ /\ todo' = todo \ {"timeout"}
        /\ UNCHANGED <<at, reason, closed>>
  /\ UNCHANGED <<envVars, source, copy, held, wire, stop_reason, wakers, woken>>

PollShutdown ==
  /\ "shutdown" \in todo /\ at = "none"
  /\ \/ /\ MayFail /\ Finish("Shutdown")
     \/ /\ todo' = todo \ {"shutdown"}
        /\ UNCHANGED <<at, reason, closed>>
  /\ UNCHANGED <<envVars, source, copy, held, wire, stop_reason, wakers, woken>>

\* The timer of the task or of a glommio socket fires, or the proxy shuts down,
\* while the task is parked.
Alarm ==
  /\ MayFail /\ reason = "none" /\ ~woken
  /\ woken' = TRUE
  /\ UNCHANGED <<envVars, source, copy, held, wire, closed, taskVars, wakers>>

PollDuplex ==
  /\ "duplex" \in todo /\ at = "none"
  /\ at' = "Upload"
  /\ UNCHANGED <<envVars, source, copy, held, wire, closed, todo, stop_reason, reason, wakers, woken>>

\* Mutant: an upload that is pending ends the poll.
ReturnEarly(d, done) ==
  IF d = "Upload" /\ d \in done
    THEN at' = "Download" /\ UNCHANGED <<todo, stop_reason, reason, closed>>
    ELSE IF done = Directions
      THEN Finish(stop_reason) /\ UNCHANGED stop_reason
      ELSE at' = "none" /\ todo' = todo \ {"duplex"} /\ UNCHANGED <<stop_reason, reason, closed>>

\* transfer_one_direction(d) has returned: on to the download, and after it to
\* the end of CopyBidirectional::poll, with done the directions that are Ready.
Return(d, done) ==
  IF d = "Upload"
    THEN at' = "Download" /\ UNCHANGED <<todo, stop_reason, reason, closed>>
    ELSE IF done = Directions
      THEN Finish(stop_reason) /\ UNCHANGED stop_reason
      ELSE /\ at' = "none" /\ todo' = todo \ {"duplex"}
           /\ stop_reason' = IF done = {} THEN stop_reason ELSE CHOOSE c \in done : TRUE
           /\ UNCHANGED <<reason, closed>>

Done == {d \in Directions : copy[d].state = "Done"}
Empty(d) == copy[d].pos = copy[d].cap

\* poll_copy: the buffer is empty and the reader has something.
ReadData(d) ==
  /\ at = d /\ copy[d].state = "Running" /\ Empty(d) /\ ~copy[d].read_done
  /\ \E n \in 1..BufCap :
       /\ n <= Len(source[d])
       /\ copy' = [copy EXCEPT ![d] = [@ EXCEPT !.buf = SubSeq(source[d], 1, n), !.pos = 0, !.cap = n]]
       /\ source' = [source EXCEPT ![d] = SubSeq(@, n + 1, Len(@))]
  /\ UNCHANGED <<envVars, held, wire, closed, taskVars, wakers, woken>>

ReadEof(d) ==
  /\ at = d /\ copy[d].state = "Running" /\ Empty(d) /\ ~copy[d].read_done
  /\ source[d] = <<>> /\ ended[d]
  /\ copy' = [copy EXCEPT ![d].read_done = TRUE]
  /\ UNCHANGED <<envVars, source, held, wire, closed, taskVars, wakers, woken>>

\* Mutant: the flush is forgotten.
ReadPendingNoFlush(d) ==
  /\ at = d /\ copy[d].state = "Running" /\ Empty(d) /\ ~copy[d].read_done
  /\ source[d] = <<>> /\ ~ended[d]
  /\ wakers' = wakers \cup {<<"read", d>>}
  /\ Return(d, Done)
  /\ UNCHANGED <<envVars, source, copy, wire, held, woken>>

\* The reader is pending: flush the writer if that is due, and wait.
ReadPending(d) ==
  /\ engine = "tokio"
  /\ at = d /\ copy[d].state = "Running" /\ Empty(d) /\ ~copy[d].read_done
  /\ source[d] = <<>> /\ ~ended[d]
  /\ IF copy[d].need_flush
       THEN /\ Push(d, held[d], FlushNow(d))
            /\ copy' = [copy EXCEPT ![d].need_flush = ~Flushes(d)]
            /\ wakers' = wakers \cup {<<"read", d>>}
                           \cup (IF Flushes(d) THEN {} ELSE {<<"write", d>>})
       ELSE /\ wakers' = wakers \cup {<<"read", d>>}
            /\ UNCHANGED <<copy, wire, held>>
  /\ Return(d, Done)
  /\ UNCHANGED <<envVars, source, woken>>

\* The same on glommio, which has nothing to flush.
GlommioReadPending(d) ==
  /\ engine = "glommio"
  /\ at = d /\ copy[d].state = "Running" /\ Empty(d) /\ ~copy[d].read_done
  /\ source[d] = <<>> /\ ~ended[d]
  /\ wakers' = wakers \cup {<<"read", d>>}
  /\ Return(d, Done)
  /\ UNCHANGED <<envVars, source, copy, wire, held, woken>>

\* The writer accepts i bytes of the buffer and keeps or pushes them.
Accepts(d, i) ==
  /\ at = d /\ copy[d].state = "Running" /\ ~Empty(d)
  /\ i <= copy[d].cap - copy[d].pos /\ i <= WriteRoom(d)
  /\ LET h == held[d] \o SubSeq(copy[d].buf, copy[d].pos + 1, copy[d].pos + i)
     IN \E n \in 0..Room(d) : n <= Len(h) /\ Len(h) - n <= Hold /\ Push(d, h, n)
  /\ UNCHANGED <<envVars, source, closed, taskVars, wakers, woken>>

\* Mutants: a write counts as complete; it does not ask for a flush.
WriteOnce(d) ==
  /\ engine = "tokio"
  /\ \E i \in 1..BufCap : Accepts(d, i)
  /\ copy' = [copy EXCEPT ![d] = [@ EXCEPT !.pos = copy[d].cap, !.need_flush = TRUE]]

WriteUnmarked(d) ==
  /\ engine = "tokio"
  /\ \E i \in 1..BufCap : Accepts(d, i) /\ copy' = [copy EXCEPT ![d].pos = @ + i]

Write(d) ==
  /\ engine = "tokio"
  /\ \E i \in 1..BufCap :
       /\ Accepts(d, i)
       /\ copy' = [copy EXCEPT ![d].pos = @ + i, ![d].need_flush = TRUE]

GlommioWrite(d) ==
  /\ engine = "glommio"
  /\ \E i \in 1..BufCap : Accepts(d, i) /\ copy' = [copy EXCEPT ![d].pos = @ + i]

WritePending(d) ==
  /\ at = d /\ copy[d].state = "Running" /\ ~Empty(d) /\ WriteRoom(d) = 0
  /\ wakers' = wakers \cup {<<"write", d>>}
  /\ Return(d, Done)
  /\ UNCHANGED <<envVars, source, copy, held, wire, woken>>

\* Flushing at the end of the stream, then poll_shutdown, which flushes too.
\* Mutant: the writer is shut down without a flush.
ShutDownUnflushed(d) ==
  /\ at = d /\ copy[d].state # "Done" /\ Empty(d) /\ copy[d].read_done
  /\ copy' = [copy EXCEPT ![d].state = "Done"]
  /\ closed' = [closed EXCEPT ![d] = TRUE]
  /\ held' = [held EXCEPT ![d] = <<>>]
  /\ UNCHANGED <<envVars, source, wire, taskVars, wakers, woken>>

ShutDown(d) ==
  /\ at = d /\ copy[d].state # "Done" /\ Empty(d) /\ copy[d].read_done
  /\ Push(d, held[d], FlushNow(d))
  /\ IF Flushes(d)
       THEN /\ copy' = [copy EXCEPT ![d].state =
                          IF @ = "Running" THEN "ShuttingDown" ELSE "Done"]
            /\ closed' = [closed EXCEPT ![d] = (copy[d].state = "ShuttingDown")]
            /\ UNCHANGED <<taskVars, wakers>>
       ELSE /\ wakers' = wakers \cup {<<"write", d>>}
            /\ Return(d, Done)
            /\ UNCHANGED copy
  /\ UNCHANGED <<envVars, source, woken>>

\* A direction that is done is Ready at once.
ReturnDone(d) ==
  /\ at = d /\ copy[d].state = "Done"
  /\ Return(d, Done)
  /\ UNCHANGED <<envVars, source, copy, held, wire, wakers, woken>>

\* A read, write, flush or shutdown fails: relay_tcp has the direction for its
\* reason, tcp_relay_task the error, which may also be a timeout of the socket.
Fail(d) ==
  /\ MayFail /\ at = d /\ copy[d].state # "Done"
  /\ Finish(IF engine = "tokio" THEN d ELSE "Error")
  /\ UNCHANGED <<envVars, source, copy, held, wire, stop_reason, wakers, woken>>
-----------------------------------------------------------------------------
Copy(d) ==
  \/ ReadData(d) \/ ReadEof(d) \/ ReadPending(d) \/ GlommioReadPending(d)
  \/ Write(d) \/ GlommioWrite(d) \/ WritePending(d)
  \/ ShutDown(d) \/ ReturnDone(d) \/ Fail(d)

Task ==
  \/ Poll \/ PollTimeout \/ PollShutdown \/ PollDuplex
  \/ \E d \in Directions : Copy(d)

Next == Task \/ Alarm \/ \E d \in Directions : Send(d) \/ End(d) \/ Receive(d)

Spec == Init /\ [][Next]_vars

\* The runtime polls a task that is scheduled, and a receiver that is not stalled
\* reads what is there.  Senders owe nothing.
FairSpec == Spec /\ WF_vars(Task) /\ \A d \in Directions : WF_vars(Receive(d))
-----------------------------------------------------------------------------
(***************************************************************************)
(* Properties.                                                             *)
(***************************************************************************)

\* Every variable has its type; of a CopyBuffer pos <= cap <= its size, so that
\* the slice buf[pos..cap] exists, and session and wire keep to their bounds.
TypeOK ==
  /\ engine \in Engines
  /\ sent \in [Directions -> Nat]
  /\ source \in [Directions -> Seq(Nat)]
  /\ ended \in [Directions -> BOOLEAN]
  /\ stalled \in SUBSET Directions
  /\ copy \in [Directions -> TransferStates]
  /\ held \in [Directions -> Seq(Nat)]
  /\ wire \in [Directions -> Seq(Nat)]
  /\ \A d \in Directions :
       /\ copy[d].pos <= copy[d].cap
       /\ copy[d].cap = Len(copy[d].buf) /\ copy[d].cap <= BufCap
       /\ Len(held[d]) <= Hold /\ Len(wire[d]) <= WireCap
  /\ closed \in [Directions -> BOOLEAN]
  /\ got \in [Directions -> Seq(Nat)]
  /\ todo \subseteq Branches
  /\ at \in Directions \cup {"none"}
  /\ wakers \subseteq Sockets
  /\ woken \in BOOLEAN
  /\ stop_reason \in Directions
  /\ reason \in Directions \cup {"none", "Timeout", "Shutdown", "Error"}

\* Bytes pass through reads and writes of any size, a session and half-closes,
\* and are cut off by failures anywhere: the relay is a pipe.
Pipe == INSTANCE ProxyPipe WITH
          written <- [d \in Directions |-> [i \in 1..sent[d] |-> i]],
          delivered <- got
ImplementsPipe == Pipe!Spec

\* What poll_copy could do for direction d if the task were polled now.
CouldCopy(d) ==
  \/ copy[d].state = "Running" /\ Empty(d) /\ ~copy[d].read_done /\ (source[d] # <<>> \/ ended[d])
  \/ ~Empty(d) /\ WriteRoom(d) > 0
  \/ Empty(d) /\ held[d] # <<>> /\ Room(d) > 0
  \/ copy[d].state # "Done" /\ copy[d].read_done /\ Empty(d) /\ Flushes(d)

\* A task that waits has left a waker wherever its next step may come from, in
\* either direction and also behind a flush that did not get everything out: it
\* is never asleep while there is something to read, write or flush.
NoLostWakeup ==
  todo = {} /\ reason = "none" /\ ~woken => \A d \in Directions : ~CouldCopy(d)

\* A receiver that sees the end of the stream while the relay runs has been sent
\* all of it: a half-close overtakes nothing in the buffer or in the session.
EofAfterData ==
  \A d \in Directions : closed[d] /\ reason = "none" =>
    ended[d] /\ Len(got[d]) + Len(wire[d]) = sent[d]

\* The relay ended before both directions were done.
Cut == reason # "none" /\ Done # Directions

\* What a sender writes is delivered in the end, whatever the other direction
\* does: also if the receiver there has stopped reading.
AllDelivered ==
  \A d \in Directions : <>[](d \in stalled \/ Cut \/ Len(got[d]) = sent[d])

\* The end of a stream is passed on, again whatever the other direction does.
EndPassedOn ==
  \A d \in Directions : ended[d] /\ d \notin stalled ~> closed[d]
=============================================================================

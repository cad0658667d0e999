---------------------------- MODULE UdpRelayTask ----------------------------
(***************************************************************************)
(* Adapter::relay_udp: one task that copies datagrams between a tunnel and *)
(* a local UDP socket, at the client (Socks5UdpStream) or at the server    *)
(* (ServerUdpStream).                                                      *)
(*                                                                         *)
(*   direction "toTunnel"   upload at the client, download at the server   *)
(*   direction "toLocal"    download at the client, upload at the server   *)
(*                                                                         *)
(* The task is polled when a waker it has left with a socket or with the   *)
(* resolver is called; a poll tries the upload, then the download, each    *)
(* until it can go no further.  Frames are the business of UdpFrames: here *)
(* the tunnel carries datagrams, and its writer keeps them (held) until it *)
(* is flushed.                                                             *)
(***************************************************************************)
EXTENDS Naturals, Sequences

CONSTANTS
  Sides,      \* the sides that are looked at
  Ips, Names, \* addresses
  lookup,     \* what the resolver answers for a name
  Inputs,     \* Inputs[side][e]: datagrams [kind, from, addr] that may come in at e
  Loads,      \* bound: how many come in, by end
  HoldCap,    \* datagrams a session keeps before its write is pending
  WireCap,    \* datagrams in flight in the tunnel
  MayFail     \* sockets and resolver may fail, the timeout and the shutdown may come

Directions == {"toTunnel", "toLocal"}
Ends == {"local", "tunnel"}
Source(d) == IF d = "toTunnel" THEN "local" ELSE "tunnel"
Addrs == Ips \cup Names
Kinds == {"ok", "empty", "short", "bad"}
Senders == {"user", "other"}

ASSUME SideAssumption == Sides \subseteq {"client", "server"}
ASSUME AddrAssumption ==
  /\ lookup \in [Names -> Ips] /\ Ips \cap Names = {}
  /\ "none" \notin Addrs /\ "dropped" \notin Addrs
\* What is no datagram comes from outside: the other end of the tunnel sends frames.
ASSUME InputAssumption ==
  \A s \in Sides :
    /\ \A e \in Ends : Inputs[s][e] \subseteq [kind : Kinds, from : Senders, addr : Addrs]
    /\ \A x \in Inputs[s]["tunnel"] : x.kind = "ok"
ASSUME BoundAssumption ==
  Loads \subseteq [Ends -> Nat] /\ HoldCap \in Nat /\ WireCap \in Nat \ {0} /\ MayFail \in BOOLEAN

VARIABLES
  side,
  arrived,    \* arrived[e]: how many datagrams have come in at e
  due,        \* due[d]: what the receiver of d ought to get of them
  inbox,      \* inbox[e]: those that can be read
  ended,      \* the other end of the tunnel has closed it
  reset,      \* the user's TCP connection has ended: signal_reset
  copy,       \* copy[d]: TransferState with its UdpCopyBuf
  client_udp_addr,
  buffer,     \* Socks5UdpSpecifiedBuffer: the datagram in it, if any
  addr_task,  \* ResolveAddr
  answer,     \* what the oneshot of the resolver holds
  writable,   \* the local socket takes another datagram
  held, wire, \* the tunnel's writer
  got,        \* got[d]: what has arrived
  at,         \* the direction being polled, or "none"
  wakers, woken,
  stop_reason, reason

netVars == <<side, arrived, due, inbox, ended, reset>>
localVars == <<client_udp_addr, buffer, addr_task, answer, writable>>
tunnelVars == <<held, wire>>
taskVars == <<at, stop_reason, reason>>
vars == <<netVars, copy, localVars, tunnelVars, got, taskVars, wakers, woken>>

Upload == IF side = "client" THEN "toTunnel" ELSE "toLocal"
Running == [state |-> "Running", buf |-> <<>>, need_flush |-> FALSE, read_done |-> FALSE]
NoTask == [state |-> "None", ip |-> "none", missed_wakeup |-> FALSE]

Init ==
  /\ side \in Sides
  /\ arrived = [e \in Ends |-> 0] /\ inbox = [e \in Ends |-> <<>>]
  /\ due = [d \in Directions |-> <<>>]
  /\ ended = FALSE /\ reset = FALSE
  /\ copy = [d \in Directions |-> Running]
  /\ client_udp_addr = "none" /\ buffer = <<>>
  /\ addr_task = NoTask /\ answer = "none"
  /\ writable = TRUE
  /\ held = <<>> /\ wire = <<>>
  /\ got = [d \in Directions |-> <<>>]
  /\ at = "none" /\ wakers = {} /\ woken = TRUE
  /\ stop_reason = "Download" /\ reason = "none"
-----------------------------------------------------------------------------
(***************************************************************************)
(* The world around the task.                                              *)
(***************************************************************************)

\* What becomes ready calls the waker it holds.
Ready(s) == woken' = (woken \/ s \in wakers) /\ wakers' = wakers \ {s}

\* The address a datagram of d has to go to.
Target(d, a) == IF side = "server" /\ d = "toLocal" /\ a \in Names THEN lookup[a] ELSE a

\* Datagrams are numbered; what is none has the number of the next.
Arrive(d, x) ==
  LET e == Source(d)
      n == Len(due[d]) + 1
  IN /\ reason = "none"
     /\ \E l \in Loads : arrived[e] < l[e] /\ \A c \in Ends : arrived[c] <= l[c]
     /\ arrived' = [arrived EXCEPT ![e] = @ + 1]
     /\ inbox' = [inbox EXCEPT ![e] =
                    Append(@, [id |-> n, kind |-> x.kind, from |-> x.from, addr |-> x.addr])]
     /\ due' = IF x.kind = "ok"
                 THEN [due EXCEPT ![d] = Append(@, [id |-> n, addr |-> Target(d, x.addr)])]
                 ELSE due
     /\ Ready(<<"read", e>>)
     /\ UNCHANGED <<side, ended, reset, copy, localVars, tunnelVars, got, taskVars>>

ArriveLocal == \E x \in Inputs[side]["local"] : Arrive("toTunnel", x)
ArriveTunnel == ~ended /\ \E x \in Inputs[side]["tunnel"] : Arrive("toLocal", x)

EndTunnel ==
  /\ reason = "none" /\ ~ended
  /\ ended' = TRUE
  /\ Ready(<<"read", "tunnel">>)
  /\ UNCHANGED <<side, arrived, due, inbox, reset, copy, localVars, tunnelVars, got, taskVars>>

\* The task that watches the user's TCP connection.  try_recv leaves no waker.
SendReset ==
  /\ reason = "none" /\ side = "client" /\ ~reset
  /\ reset' = TRUE
  /\ UNCHANGED <<side, arrived, due, inbox, ended, copy, localVars, tunnelVars, got, taskVars, wakers, woken>>

\* The local socket has sent what it had.
Drain ==
  /\ ~writable /\ writable' = TRUE
  /\ Ready(<<"write", "local">>)
  /\ UNCHANGED <<netVars, copy, client_udp_addr, buffer, addr_task, answer, tunnelVars, got, taskVars>>

ReceiveTunnel ==
  /\ wire # <<>>
  /\ got' = [got EXCEPT !["toTunnel"] = Append(@, Head(wire))]
  /\ wire' = Tail(wire)
  /\ Ready(<<"write", "tunnel">>)
  /\ UNCHANGED <<netVars, copy, localVars, held, taskVars>>

\* The resolver answers or drops the question.
Resolve ==
  /\ answer \in Names
  /\ \/ answer' = lookup[answer]
     \/ MayFail /\ answer' = "dropped"
  /\ Ready(<<"resolver">>)
  /\ UNCHANGED <<netVars, copy, client_udp_addr, buffer, addr_task, writable, tunnelVars, got, taskVars>>
-----------------------------------------------------------------------------
(***************************************************************************)
(* The task.                                                               *)
(***************************************************************************)
Poll ==
  /\ woken /\ at = "none" /\ reason = "none"
  /\ woken' = FALSE /\ at' = Upload
  /\ UNCHANGED <<netVars, copy, localVars, tunnelVars, got, stop_reason, reason, wakers>>

\* The other branches of select!: the idle timeout of the server and the shutdown.
Stop ==
  /\ MayFail /\ at = "none" /\ reason = "none"
  /\ reason' \in {"Shutdown"} \cup (IF side = "server" THEN {"Timeout"} ELSE {})
  /\ UNCHANGED <<netVars, copy, localVars, tunnelVars, got, at, stop_reason, wakers, woken>>

Done == {d \in Directions : copy[d].state = "Done"}

\* transfer_one_direction(d) is over for this poll, and those in Done are Ready.
Return(d) ==
  IF d = Upload
    THEN at' = (CHOOSE c \in Directions : c # d) /\ UNCHANGED <<stop_reason, reason>>
    ELSE /\ at' = "none"
         /\ IF Done = Directions THEN reason' = stop_reason /\ UNCHANGED stop_reason
            ELSE /\ stop_reason' = IF Done = {} THEN stop_reason
                                   ELSE IF Upload \in Done THEN "Upload" ELSE "Download"
                 /\ UNCHANGED reason

\* `?`: the relay is left at once.
Err == reason' = "error" /\ at' = "none" /\ UNCHANGED stop_reason

Reading(d) == at = d /\ copy[d].state = "Running" /\ copy[d].buf = <<>> /\ ~copy[d].read_done
Writing(d) == at = d /\ copy[d].state = "Running" /\ copy[d].buf # <<>>
ReadDone(d) == copy' = [copy EXCEPT ![d].read_done = TRUE]

\* What poll_proxy_stream_read makes of a datagram.  At the client the first sender
\* is the user, and what comes from anybody else fails.
Outcome(x) ==
  IF side = "client"
    THEN CASE client_udp_addr \notin {"none", x.from} -> "fail"
           [] x.kind = "short" -> "eof" [] x.kind = "bad" -> "fail" [] OTHER -> x.kind
    ELSE IF x.kind = "ok" THEN "ok" ELSE "eof"

\* poll_copy: a datagram is read.  One without payload is not written.
ReadDatagram(d) ==
  /\ Reading(d) /\ inbox[Source(d)] # <<>>
  /\ d = "toTunnel" => ~reset
  /\ inbox' = [inbox EXCEPT ![Source(d)] = Tail(@)]
  /\ LET x == Head(inbox[Source(d)])
         r == IF d = "toTunnel" THEN Outcome(x) ELSE "ok"
     IN /\ copy' = CASE r = "ok" -> [copy EXCEPT ![d].buf = <<[id |-> x.id, addr |-> x.addr]>>]
                     [] r = "eof" -> [copy EXCEPT ![d].read_done = TRUE]
                     [] OTHER -> copy
        /\ client_udp_addr' = IF d = "toTunnel" /\ client_udp_addr = "none" THEN x.from ELSE client_udp_addr
        /\ IF r = "fail" THEN Err ELSE UNCHANGED taskVars
  /\ UNCHANGED <<side, arrived, due, ended, reset, buffer, addr_task, answer, writable, tunnelVars, got, wakers, woken>>

\* The end of the tunnel, or of the user's connection, which is looked at first.
ReadEnd(d) ==
  /\ Reading(d)
  /\ IF d = "toTunnel" THEN reset ELSE ended /\ inbox["tunnel"] = <<>>
  /\ ReadDone(d)
  /\ UNCHANGED <<netVars, localVars, tunnelVars, got, taskVars, wakers, woken>>

Room == WireCap - Len(wire)
Push(h, n) == wire' = wire \o SubSeq(h, 1, n) /\ held' = SubSeq(h, n + 1, Len(h))
FlushNow == IF Len(held) < Room THEN Len(held) ELSE Room
Flushes == Len(held) <= Room

\* Mutant: no flush while the reader waits.
PendingNoFlush(d) ==
  /\ Reading(d) /\ inbox[Source(d)] = <<>>
  /\ IF d = "toTunnel" THEN ~reset ELSE ~ended
  /\ wakers' = wakers \cup {<<"read", Source(d)>>}
  /\ UNCHANGED <<tunnelVars, copy>>
  /\ Return(d)
  /\ UNCHANGED <<netVars, localVars, got, woken>>

\* Nothing to read: the tunnel's writer is flushed if that is due; the local ones
\* have nothing to do.
ReadPending(d) ==
  /\ Reading(d) /\ inbox[Source(d)] = <<>>
  /\ IF d = "toTunnel" THEN ~reset ELSE ~ended
  /\ IF copy[d].need_flush /\ d = "toTunnel"
       THEN /\ Push(held, FlushNow)
            /\ copy' = [copy EXCEPT ![d].need_flush = ~Flushes]
            /\ wakers' = wakers \cup {<<"read", "local">>} \cup (IF Flushes THEN {} ELSE {<<"write", "tunnel">>})
       ELSE /\ copy' = [copy EXCEPT ![d].need_flush = FALSE]
            /\ wakers' = wakers \cup {<<"read", Source(d)>>}
            /\ UNCHANGED tunnelVars
  /\ Return(d)
  /\ UNCHANGED <<netVars, localVars, got, woken>>

Written(d) == copy' = [copy EXCEPT ![d].buf = <<>>, ![d].need_flush = TRUE]

WriteTunnel ==
  /\ Writing("toTunnel")
  /\ LET h == held \o copy["toTunnel"].buf
     IN \E n \in 0..Len(h) : n <= Room /\ Len(h) - n <= HoldCap /\ Push(h, n)
  /\ Written("toTunnel")
  /\ UNCHANGED <<netVars, localVars, got, taskVars, wakers, woken>>

WriteTunnelPending ==
  /\ Writing("toTunnel") /\ Room + HoldCap - Len(held) = 0
  /\ wakers' = wakers \cup {<<"write", "tunnel">>}
  /\ Return("toTunnel")
  /\ UNCHANGED <<netVars, copy, localVars, tunnelVars, got, woken>>
-----------------------------------------------------------------------------
(***************************************************************************)
(* Writing to the local socket.  A socket that has taken a datagram may    *)
(* take no other for a while.                                              *)
(***************************************************************************)
Datagram == copy["toLocal"].buf[1]
PollSendTo(x) ==
  IF writable
    THEN /\ got' = [got EXCEPT !["toLocal"] = Append(@, x)]
         /\ writable' \in BOOLEAN
         /\ UNCHANGED wakers
    ELSE /\ wakers' = wakers \cup {<<"write", "local">>}
         /\ UNCHANGED <<got, writable>>

\* Socks5UdpStream: the buffer is filled if it is empty and sent if the socket takes
\* it.  A call that did not fill it is pending, whatever the socket has done.
Socks5Write ==
  /\ side = "client" /\ Writing("toLocal") /\ client_udp_addr # "none"
  /\ PollSendTo(IF buffer = <<>> THEN Datagram ELSE buffer[1])
  /\ buffer' = IF writable THEN <<>> ELSE IF buffer = <<>> THEN <<Datagram>> ELSE buffer
  /\ IF buffer = <<>> THEN Written("toLocal") /\ UNCHANGED taskVars
     ELSE Return("toLocal") /\ UNCHANGED copy
  /\ UNCHANGED <<netVars, client_udp_addr, addr_task, answer, tunnelVars, woken>>

\* There is nobody to send to before the user has sent a datagram.
Socks5WriteTooEarly ==
  /\ side = "client" /\ Writing("toLocal") /\ client_udp_addr = "none"
  /\ Err
  /\ UNCHANGED <<netVars, copy, localVars, tunnelVars, got, wakers, woken>>

\* ServerUdpStream, ResolveAddr::None.
StartResolve ==
  /\ side = "server" /\ Writing("toLocal") /\ addr_task.state = "None"
  /\ IF Datagram.addr \in Ips
       THEN addr_task' = [NoTask EXCEPT !.state = "Ready", !.ip = Datagram.addr] /\ UNCHANGED answer
       ELSE addr_task' = [NoTask EXCEPT !.state = "Pending"] /\ answer' = Datagram.addr
  /\ UNCHANGED <<netVars, copy, client_udp_addr, buffer, writable, tunnelVars, got, taskVars, wakers, woken>>

\* Mutant: no waker is left with the resolver.
AwaitUnwoken ==
  /\ side = "server" /\ Writing("toLocal") /\ addr_task.state = "Pending" /\ answer \in Names
  /\ addr_task' = [addr_task EXCEPT !.missed_wakeup = TRUE]
  /\ Return("toLocal")
  /\ UNCHANGED <<netVars, copy, client_udp_addr, buffer, answer, writable, tunnelVars, got, wakers, woken>>

\* ResolveAddr::Pending, without an answer and with one.
AwaitResolve ==
  /\ side = "server" /\ Writing("toLocal") /\ addr_task.state = "Pending" /\ answer \in Names
  /\ addr_task' = [addr_task EXCEPT !.missed_wakeup = TRUE]
  /\ wakers' = wakers \cup {<<"resolver">>}
  /\ Return("toLocal")
  /\ UNCHANGED <<netVars, copy, client_udp_addr, buffer, answer, writable, tunnelVars, got, woken>>

Resolved ==
  /\ side = "server" /\ Writing("toLocal") /\ addr_task.state = "Pending" /\ answer \in Ips
  /\ woken' = (woken \/ addr_task.missed_wakeup)
  /\ addr_task' = [NoTask EXCEPT !.state = "Ready", !.ip = answer]
  /\ UNCHANGED <<netVars, copy, client_udp_addr, buffer, answer, writable, tunnelVars, got, taskVars, wakers>>

\* The resolver has dropped the question: Ok(0), which poll_copy makes an error.
ResolveFailed ==
  /\ side = "server" /\ Writing("toLocal") /\ addr_task.state = "Pending" /\ answer = "dropped"
  /\ Err
  /\ UNCHANGED <<netVars, copy, localVars, tunnelVars, got, wakers, woken>>

\* Mutant: the address is kept for the next datagram.
SendToKeepsAddr ==
  /\ side = "server" /\ Writing("toLocal") /\ addr_task.state = "Ready"
  /\ PollSendTo([id |-> Datagram.id, addr |-> addr_task.ip])
  /\ IF writable THEN Written("toLocal") /\ UNCHANGED <<addr_task, taskVars>>
     ELSE Return("toLocal") /\ UNCHANGED <<copy, addr_task>>
  /\ UNCHANGED <<netVars, client_udp_addr, buffer, answer, tunnelVars, woken>>

\* ResolveAddr::Ready.
SendTo ==
  /\ side = "server" /\ Writing("toLocal") /\ addr_task.state = "Ready"
  /\ PollSendTo([id |-> Datagram.id, addr |-> addr_task.ip])
  /\ IF writable THEN Written("toLocal") /\ addr_task' = NoTask /\ UNCHANGED taskVars
     ELSE Return("toLocal") /\ UNCHANGED <<copy, addr_task>>
  /\ UNCHANGED <<netVars, client_udp_addr, buffer, answer, tunnelVars, woken>>
-----------------------------------------------------------------------------
Closing(d) == at = d /\ copy[d].state # "Done" /\ copy[d].buf = <<>> /\ copy[d].read_done

\* The flush at the end of poll_copy, then poll_shutdown.
ShutDown(d) ==
  /\ Closing(d)
  /\ IF d = "toTunnel" THEN Push(held, FlushNow) ELSE UNCHANGED tunnelVars
  /\ IF d = "toLocal" \/ Flushes
       THEN /\ copy' = [copy EXCEPT ![d].state = IF @ = "Running" THEN "ShuttingDown" ELSE "Done"]
            /\ UNCHANGED <<taskVars, wakers>>
       ELSE /\ wakers' = wakers \cup {<<"write", "tunnel">>}
            /\ Return(d)
            /\ UNCHANGED copy
  /\ UNCHANGED <<netVars, localVars, got, woken>>

ReturnDone(d) ==
  /\ at = d /\ copy[d].state = "Done"
  /\ Return(d)
  /\ UNCHANGED <<netVars, copy, localVars, tunnelVars, got, wakers, woken>>

\* A read, a write or a flush fails.
Fail(d) ==
  /\ MayFail /\ at = d /\ copy[d].state # "Done"
  /\ Err
  /\ UNCHANGED <<netVars, copy, localVars, tunnelVars, got, wakers, woken>>

Copy(d) ==
  \/ ReadDatagram(d) \/ ReadEnd(d) \/ ReadPending(d)
  \/ ShutDown(d) \/ ReturnDone(d) \/ Fail(d)

WriteLocal ==
  \/ Socks5Write \/ Socks5WriteTooEarly
  \/ StartResolve \/ AwaitResolve \/ Resolved \/ ResolveFailed \/ SendTo

Task ==
  \/ Poll \/ WriteTunnel \/ WriteTunnelPending \/ WriteLocal
  \/ \E d \in Directions : Copy(d)

World == ArriveLocal \/ ArriveTunnel \/ EndTunnel \/ SendReset \/ Stop

Next == Task \/ World \/ Drain \/ ReceiveTunnel \/ Resolve

Spec == Init /\ [][Next]_vars

\* The runtime polls a task that is scheduled, sockets drain, the other end of the
\* tunnel reads, and the resolver ends every lookup.  Nobody has to send anything.
FairSpec ==
  Spec /\ WF_vars(Task) /\ WF_vars(Drain) /\ WF_vars(ReceiveTunnel) /\ WF_vars(Resolve)
-----------------------------------------------------------------------------
(***************************************************************************)
(* Properties.                                                             *)
(***************************************************************************)
Sent == [id : Nat, addr : Addrs]
Received == [id : Nat, kind : Kinds, from : Senders, addr : Addrs]
Slot == {s \in Seq(Sent) : Len(s) <= 1}
TransferStates ==
  [state : {"Running", "ShuttingDown", "Done"}, buf : Slot, need_flush : BOOLEAN, read_done : BOOLEAN]
ResolveAddrs ==
  [state : {"None", "Pending"}, ip : {"none"}, missed_wakeup : BOOLEAN]
    \cup [state : {"Ready"}, ip : Ips, missed_wakeup : BOOLEAN]

\* Every variable has its type; session, wire and the one-datagram buffers keep to
\* their bounds.
TypeOK ==
  /\ side \in Sides /\ ended \in BOOLEAN /\ reset \in BOOLEAN
  /\ writable \in BOOLEAN /\ woken \in BOOLEAN
  /\ arrived \in [Ends -> Nat] /\ inbox \in [Ends -> Seq(Received)]
  /\ \A e \in Ends : Len(inbox[e]) <= arrived[e]
  /\ copy \in [Directions -> TransferStates]
  /\ due \in [Directions -> Seq(Sent)] /\ got \in [Directions -> Seq(Sent)]
  /\ client_udp_addr \in Senders \cup {"none"}
  /\ buffer \in Slot
  /\ addr_task \in ResolveAddrs /\ answer \in Addrs \cup {"none", "dropped"}
  /\ held \in Seq(Sent) /\ Len(held) <= HoldCap /\ wire \in Seq(Sent) /\ Len(wire) <= WireCap
  /\ at \in Directions \cup {"none"}
  /\ wakers \subseteq ({"read", "write"} \X Ends) \cup {<<"resolver">>}
  /\ stop_reason \in {"Upload", "Download"}
  /\ reason \in {"none", "Upload", "Download", "Timeout", "Shutdown", "error"}

\* Buffers that are filled ahead, addresses that are resolved while others wait and
\* a session that is flushed late: in each direction datagrams arrive in order, once
\* each, and each goes to its own address.
Pipe == INSTANCE ProxyPipe WITH written <- due, delivered <- got
ImplementsPipe == Pipe!Spec

Parked == at = "none" /\ ~woken /\ reason = "none"

\* What poll_copy could do for d if the task were polled now.
CanRead(d) ==
  /\ copy[d].state = "Running" /\ copy[d].buf = <<>> /\ ~copy[d].read_done
  /\ inbox[Source(d)] # <<>> \/ (d = "toLocal" /\ ended)
CanWriteTunnel ==
  \/ copy["toTunnel"].buf # <<>> /\ Room + HoldCap > Len(held)
  \/ copy["toTunnel"].buf = <<>> /\ held # <<>> /\ Room > 0
CanWriteServer ==
  side = "server" /\ copy["toLocal"].buf # <<>> /\
    (addr_task.state = "Pending" => answer \notin Names) /\ (addr_task.state = "Ready" => writable)

\* A task that waits has left a waker wherever its next step may come from, with the
\* sockets, the tunnel's session and the resolver, though one lookup keeps a whole
\* direction waiting.  (For Socks5Write see SentWhenWritable.)
NoLostWakeup ==
  Parked => (\A d \in Directions : ~CanRead(d)) /\ ~CanWriteTunnel /\ ~CanWriteServer

\* The relay has ended early, or a direction was ended by its reader.
Over(d) == reason # "none" \/ copy[d].read_done

\* Whatever one direction waits for, a full tunnel, a busy socket or a lookup that
\* takes its time, every datagram of the other gets through.
AllDelivered ==
  /\ <>[](Over("toTunnel") \/ got["toTunnel"] = due["toTunnel"])
  /\ side = "server" => <>[](Over("toLocal") \/ got["toLocal"] = due["toLocal"])

\* "Try flushing when the reader has no progress": a datagram that Socks5UdpStream has
\* accepted leaves as soon as the socket takes it.  The code does not do so.
SentWhenWritable == Parked /\ side = "client" /\ writable => buffer = <<>> /\ copy["toLocal"].buf = <<>>
=============================================================================

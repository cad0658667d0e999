------------------------- MODULE UdpRelayTaskProofs -------------------------
(***************************************************************************)
(* Theorems about UdpRelayTask, at both sides of the tunnel, for any       *)
(* datagrams, sessions and wires of any size: the type invariant, that a   *)
(* parked task has missed nothing, and that the relay implements           *)
(* ProxyPipe, with each datagram at its own address.                       *)
(***************************************************************************)
EXTENDS UdpRelayTask, Integers, TLAPS

\* s is what t has after its first k members.
Part(s, t, k) == k + Len(s) <= Len(t) /\ \A i \in 1..Len(s) : s[i] = t[k + i]

\* The datagram x of direction d as its receiver ought to get it.
Routed(d, x) == [id |-> x.id, addr |-> Target(d, x.addr)]

\* How many of the datagrams of a direction the relay has read.
Passed == Len(got["toTunnel"]) + Len(wire) + Len(held)
Taken(d) ==
  IF d = "toTunnel" THEN Passed + Len(copy[d].buf)
  ELSE Len(got[d]) + Len(buffer) + Len(copy[d].buf)

\* The number that follows x.
After(x) == IF x.kind = "ok" THEN x.id + 1 ELSE x.id

\* The numbers of what is in an inbox run from a to just before b.
Chain(q, a, b) ==
  /\ q = <<>> => a = b
  /\ q # <<>> => q[1].id = a /\ After(q[Len(q)]) = b
  /\ \A i \in 1..Len(q) - 1 : q[i + 1].id = After(q[i])

\* The datagrams of q have their places in t.
Listed(d, q, t) ==
  \A i \in 1..Len(q) : q[i].kind = "ok" => q[i].id \in 1..Len(t) /\ t[q[i].id] = Routed(d, q[i])

\* What can be read is due, in order, after what has been read.
InboxOk(d) ==
  /\ Listed(d, inbox[Source(d)], due[d])
  /\ reason = "none" /\ ~copy[d].read_done =>
       Chain(inbox[Source(d)], Taken(d) + 1, Len(due[d]) + 1)

\* The datagrams of a direction lie in order over the places they pass through.
\* The buffer of the copy holds the address as it was read.
TunnelStream ==
  /\ Part(got["toTunnel"], due["toTunnel"], 0)
  /\ Part(wire, due["toTunnel"], Len(got["toTunnel"]))
  /\ Part(held, due["toTunnel"], Len(got["toTunnel"]) + Len(wire))
  /\ Part(copy["toTunnel"].buf, due["toTunnel"], Passed)
LocalStream ==
  /\ Part(got["toLocal"], due["toLocal"], 0)
  /\ Part(buffer, due["toLocal"], Len(got["toLocal"]))
  /\ copy["toLocal"].buf # <<>> =>
       /\ Taken("toLocal") <= Len(due["toLocal"])
       /\ due["toLocal"][Taken("toLocal")] = Routed("toLocal", Datagram)

\* What comes out of the tunnel has been written by the other end's relay.
FramesOk == \A i \in 1..Len(inbox["tunnel"]) : inbox["tunnel"][i].kind = "ok"

\* The end of the stream comes after everything else, and only then is the writer
\* shut down, empty.  A session that holds something will be flushed.
EndOk ==
  /\ \A d \in Directions :
       /\ copy[d].read_done => copy[d].buf = <<>>
       /\ copy[d].state # "Running" => copy[d].read_done
  /\ copy["toTunnel"].state # "Running" => held = <<>>
  /\ held # <<>> => copy["toTunnel"].need_flush

\* The address is looked up for the datagram in the buffer, and only at the server.
AddrOk ==
  /\ side = "server" => buffer = <<>>
  /\ addr_task.state # "None" => side = "server" /\ copy["toLocal"].buf # <<>>
  /\ addr_task.state = "Ready" => addr_task.ip = Target("toLocal", Datagram.addr)
  /\ addr_task.state = "Pending" =>
       /\ Datagram.addr \in Names
       /\ answer \in {Datagram.addr, lookup[Datagram.addr], "dropped"}

Control == at # "none" => reason = "none"

\* What a direction waits for when its copy is pending, with the waker it has left.
AwaitsFlush == <<"write", "tunnel">> \in wakers /\ held # <<>> /\ Room = 0
WaitsTunnel ==
  LET c == copy["toTunnel"]
  IN \/ c.state = "Done"
     \/ /\ c.buf = <<>> /\ ~c.read_done
        /\ <<"read", "local">> \in wakers /\ inbox["local"] = <<>>
        /\ held # <<>> => AwaitsFlush
     \/ c.buf # <<>> /\ <<"write", "tunnel">> \in wakers /\ Room + HoldCap - Len(held) = 0
     \/ c.read_done /\ AwaitsFlush
WaitsLocal ==
  LET c == copy["toLocal"]
  IN \/ c.state = "Done"
     \/ /\ c.buf = <<>> /\ ~c.read_done
        /\ <<"read", "tunnel">> \in wakers /\ inbox["tunnel"] = <<>> /\ ~ended
     \/ c.buf # <<>> /\ side = "client"
     \/ c.buf # <<>> /\ addr_task.state = "Pending" /\ answer \in Names /\ <<"resolver">> \in wakers
     \/ c.buf # <<>> /\ addr_task.state = "Ready" /\ ~writable /\ <<"write", "local">> \in wakers
Waits(d) == IF d = "toTunnel" THEN WaitsTunnel ELSE WaitsLocal

\* A direction that this poll of the task is done with, and that the next has not
\* come to yet, waits, or a next poll is due.
Settled(d) == at = "none" \/ (d = Upload /\ at # d)
Awake(d) == reason = "none" /\ Settled(d) => woken \/ Waits(d)

IInv ==
  /\ TypeOK
  /\ \A d \in Directions : InboxOk(d) /\ Awake(d)
  /\ TunnelStream /\ LocalStream /\ FramesOk /\ EndOk /\ AddrOk /\ Control
-----------------------------------------------------------------------------
(***************************************************************************)
(* Types.                                                                  *)
(***************************************************************************)

\* A slot holds one datagram or none.
LEMMA SlotFacts ==
  ASSUME NEW s \in Slot
  PROVE  /\ s \in Seq(Sent) /\ Len(s) \in 0..1
         /\ s # <<>> => Len(s) = 1 /\ s[1] \in Sent
         /\ s = <<>> <=> Len(s) = 0
<1>1. s \in Seq(Sent) /\ Len(s) <= 1
  BY DEF Slot
<1>2. Len(s) \in Nat /\ (s = <<>> <=> Len(s) = 0)
  BY <1>1
<1> DEFINE n == Len(s)
<1>3. n \in Nat /\ n <= 1
  BY <1>1, <1>2
<1> HIDE DEF n
<1>4. n \in 0..1 /\ (n # 0 => n = 1)
  BY <1>3
<1>5. Len(s) \in 0..1 /\ (s # <<>> => Len(s) = 1)
  BY <1>2, <1>4 DEF n
<1> QED
  BY <1>1, <1>2, <1>5

LEMMA OneInSlot ==
  ASSUME NEW x \in Sent
  PROVE  <<x>> \in Slot /\ <<x>> # <<>> /\ Len(<<x>>) = 1 /\ <<x>>[1] = x
  BY DEF Slot

LEMMA EmptySlot == <<>> \in Slot /\ Len(<<>>) = 0
  BY DEF Slot

LEMMA TargetType ==
  ASSUME NEW d \in Directions, NEW a \in Addrs
  PROVE  Target(d, a) \in Addrs
  BY AddrAssumption DEF Target, Addrs

\* The fields of a TransferState, and what an assignment to one of them leaves.
LEMMA CopyFields ==
  ASSUME copy \in [Directions -> TransferStates], NEW d \in Directions
  PROVE  /\ copy[d] \in TransferStates
         /\ copy[d].state \in {"Running", "ShuttingDown", "Done"} /\ copy[d].buf \in Slot
         /\ copy[d].need_flush \in BOOLEAN /\ copy[d].read_done \in BOOLEAN
  BY DEF TransferStates

LEMMA SetBuf ==
  ASSUME copy \in [Directions -> TransferStates], NEW d \in Directions, NEW b \in Slot,
         copy' = [copy EXCEPT ![d].buf = b]
  PROVE  /\ copy' \in [Directions -> TransferStates]
         /\ copy'[d].state = copy[d].state /\ copy'[d].buf = b
         /\ copy'[d].need_flush = copy[d].need_flush /\ copy'[d].read_done = copy[d].read_done
         /\ \A c \in Directions \ {d} : copy'[c] = copy[c]
  BY DEF TransferStates

LEMMA SetReadDone ==
  ASSUME copy \in [Directions -> TransferStates], NEW d \in Directions,
         copy' = [copy EXCEPT ![d].read_done = TRUE]
  PROVE  /\ copy' \in [Directions -> TransferStates]
         /\ copy'[d].state = copy[d].state /\ copy'[d].buf = copy[d].buf
         /\ copy'[d].need_flush = copy[d].need_flush /\ copy'[d].read_done = TRUE
         /\ \A c \in Directions \ {d} : copy'[c] = copy[c]
  BY DEF TransferStates

LEMMA SetNeedFlush ==
  ASSUME copy \in [Directions -> TransferStates], NEW d \in Directions, NEW f \in BOOLEAN,
         copy' = [copy EXCEPT ![d].need_flush = f]
  PROVE  /\ copy' \in [Directions -> TransferStates]
         /\ copy'[d].state = copy[d].state /\ copy'[d].buf = copy[d].buf
         /\ copy'[d].need_flush = f /\ copy'[d].read_done = copy[d].read_done
         /\ \A c \in Directions \ {d} : copy'[c] = copy[c]
  BY DEF TransferStates

LEMMA SetWritten ==
  ASSUME copy \in [Directions -> TransferStates], NEW d \in Directions, Written(d)
  PROVE  /\ copy' \in [Directions -> TransferStates]
         /\ copy'[d].state = copy[d].state /\ copy'[d].buf = <<>>
         /\ copy'[d].need_flush = TRUE /\ copy'[d].read_done = copy[d].read_done
         /\ \A c \in Directions \ {d} : copy'[c] = copy[c]
  BY EmptySlot DEF TransferStates, Written

LEMMA SetState ==
  ASSUME copy \in [Directions -> TransferStates], NEW d \in Directions,
         copy' = [copy EXCEPT ![d].state = IF @ = "Running" THEN "ShuttingDown" ELSE "Done"]
  PROVE  /\ copy' \in [Directions -> TransferStates]
         /\ copy'[d].state \in {"ShuttingDown", "Done"} /\ copy'[d].buf = copy[d].buf
         /\ copy'[d].need_flush = copy[d].need_flush /\ copy'[d].read_done = copy[d].read_done
         /\ \A c \in Directions \ {d} : copy'[c] = copy[c]
  BY DEF TransferStates

\* Where a poll goes on when one direction can go no further.
LEMMA ReturnFacts ==
  ASSUME NEW d \in Directions, Return(d), TypeOK
  PROVE  /\ at' \in Directions \cup {"none"} /\ stop_reason' \in {"Upload", "Download"}
         /\ reason' \in {"none", "Upload", "Download", "Timeout", "Shutdown", "error"}
         /\ reason' = "none" => reason = "none"
         /\ d = Upload => at' \in Directions \ {d}
         /\ d # Upload => at' = "none"
<1>1. stop_reason \in {"Upload", "Download"}
      /\ reason \in {"none", "Upload", "Download", "Timeout", "Shutdown", "error"}
  BY DEF TypeOK
<1>2. \E c \in Directions : c # d
  BY DEF Directions
<1>3. (CHOOSE c \in Directions : c # d) \in Directions \ {d}
  BY <1>2
<1>4. CASE d = Upload
  BY <1>1, <1>3, <1>4 DEF Return
<1>5. CASE d # Upload
  BY <1>1, <1>5 DEF Return
<1> QED
  BY <1>4, <1>5

\* What leaves the session goes into the wire.
LEMMA PushFacts ==
  ASSUME wire \in Seq(Sent), NEW h \in Seq(Sent), NEW n \in Nat, n <= Len(h), Push(h, n)
  PROVE  /\ wire' \in Seq(Sent) /\ held' \in Seq(Sent)
         /\ Len(wire') = Len(wire) + n /\ Len(held') = Len(h) - n
<1>1. SubSeq(h, 1, n) \in Seq(Sent) /\ Len(SubSeq(h, 1, n)) = n
  OBVIOUS
<1>2. SubSeq(h, n + 1, Len(h)) \in Seq(Sent) /\ Len(SubSeq(h, n + 1, Len(h))) = Len(h) - n
  OBVIOUS
<1> QED
  BY <1>1, <1>2 DEF Push

LEMMA LenFacts ==
  ASSUME TypeOK
  PROVE  /\ Len(wire) \in Nat /\ Len(held) \in Nat /\ Room \in Nat /\ HoldCap \in Nat /\ WireCap \in Nat
         /\ held \in Seq(Sent) /\ wire \in Seq(Sent)
         /\ Len(held) <= HoldCap /\ Room = WireCap - Len(wire)
         /\ held = <<>> <=> Len(held) = 0
<1>1. held \in Seq(Sent) /\ wire \in Seq(Sent) /\ Len(held) <= HoldCap /\ Len(wire) <= WireCap
  BY DEF TypeOK
<1>2. HoldCap \in Nat /\ WireCap \in Nat
  BY BoundAssumption
<1>3. Len(wire) \in Nat /\ Len(held) \in Nat /\ (held = <<>> <=> Len(held) = 0)
  BY <1>1
<1> DEFINE w == Len(wire)
<1>4. w \in Nat /\ w <= WireCap /\ Room = WireCap - w
  BY <1>1, <1>3 DEF Room
<1> HIDE DEF w
<1>5. Room \in Nat
  BY <1>2, <1>4
<1> QED
  BY <1>1, <1>2, <1>3, <1>5 DEF Room

\* A flush empties the session or fills the wire.
LEMMA FlushFacts ==
  ASSUME TypeOK, Push(held, FlushNow)
  PROVE  /\ FlushNow \in Nat /\ FlushNow <= Len(held)
         /\ wire' \in Seq(Sent) /\ held' \in Seq(Sent)
         /\ Len(wire') = Len(wire) + FlushNow /\ Len(held') = Len(held) - FlushNow
         /\ Len(wire') <= WireCap /\ Len(held') <= HoldCap
         /\ Flushes => held' = <<>>
         /\ ~Flushes => held' # <<>> /\ Room' = 0
         /\ held = <<>> => Flushes
<1> DEFINE w == Len(wire)  h == Len(held)  n == FlushNow
<1>1. /\ w \in Nat /\ h \in Nat /\ HoldCap \in Nat /\ WireCap \in Nat /\ Room \in Nat
      /\ h <= HoldCap /\ Room = WireCap - w /\ held \in Seq(Sent) /\ wire \in Seq(Sent)
      /\ held = <<>> <=> h = 0
  BY LenFacts
<1>2. n = (IF h < Room THEN h ELSE Room) /\ (Flushes <=> h <= Room)
  BY DEF FlushNow, Flushes
<1>3. n \in Nat /\ n <= h
  <2> HIDE DEF w, h, n
  <2> QED
    BY <1>1, <1>2
<1>4. wire' \in Seq(Sent) /\ held' \in Seq(Sent) /\ Len(wire') = w + n /\ Len(held') = h - n
  BY <1>1, <1>3, PushFacts
<1>5. /\ w + n <= WireCap /\ h - n <= HoldCap
      /\ Flushes => h - n = 0
      /\ ~Flushes => h - n # 0 /\ WireCap - (w + n) = 0
      /\ h = 0 => Flushes
  <2> HIDE DEF w, h, n
  <2> QED
    BY <1>1, <1>2, <1>3
<1>6. Room' = WireCap - Len(wire')
  BY DEF Room
<1>7. held' = <<>> <=> Len(held') = 0
  BY <1>4
<1> HIDE DEF w, h, n
<1>8. /\ Len(wire') <= WireCap /\ Len(held') <= HoldCap
      /\ Flushes => held' = <<>>
      /\ ~Flushes => held' # <<>> /\ Room' = 0
  BY <1>4, <1>5, <1>6, <1>7
<1> QED
  BY <1>1, <1>3, <1>4, <1>5, <1>8 DEF w, h, n
-----------------------------------------------------------------------------
(***************************************************************************)
(* Every step keeps the types.                                             *)
(***************************************************************************)
LEMMA ReadyType ==
  ASSUME TypeOK, NEW s, Ready(s)
  PROVE  /\ woken' \in BOOLEAN /\ wakers' \subseteq ({"read", "write"} \X Ends) \cup {<<"resolver">>}
         /\ wakers' = wakers \ {s} /\ (woken => woken') /\ (s \in wakers => woken')
  BY DEF TypeOK, Ready

LEMMA WakerTypes ==
  /\ \A e \in Ends : {<<"read", e>>, <<"write", e>>} \subseteq ({"read", "write"} \X Ends) \cup {<<"resolver">>}
  /\ {<<"resolver">>} \subseteq ({"read", "write"} \X Ends) \cup {<<"resolver">>}
  BY DEF Ends

LEMMA SourceType ==
  ASSUME NEW d \in Directions
  PROVE  Source(d) \in Ends
  BY DEF Source, Ends

LEMMA TypeArrive ==
  ASSUME TypeOK, NEW d \in Directions, NEW x \in Inputs[side][Source(d)], Arrive(d, x)
  PROVE  TypeOK'
<1> DEFINE e == Source(d)
           n == Len(due[d]) + 1
           y == [id |-> n, kind |-> x.kind, from |-> x.from, addr |-> x.addr]
           z == [id |-> n, addr |-> Target(d, x.addr)]
<1>1. e \in Ends /\ side \in Sides
  BY SourceType DEF TypeOK
<1>2. x \in [kind : Kinds, from : Senders, addr : Addrs]
  BY <1>1, InputAssumption
<1>3. due[d] \in Seq(Sent) /\ inbox[e] \in Seq(Received) /\ arrived[e] \in Nat
  BY <1>1 DEF TypeOK
<1>4. n \in Nat
  BY <1>3
<1>5. y \in Received /\ z \in Sent
  BY <1>2, <1>4, TargetType DEF Received, Sent
<1>6. inbox' = [inbox EXCEPT ![e] = Append(inbox[e], y)] /\ arrived' = [arrived EXCEPT ![e] = arrived[e] + 1]
  BY DEF Arrive
<1>7. due' = [due EXCEPT ![d] = Append(due[d], z)] \/ due' = due
  BY DEF Arrive
<1> HIDE DEF y, z, n, e
<1>8. Append(inbox[e], y) \in Seq(Received) /\ Append(due[d], z) \in Seq(Sent)
  BY <1>3, <1>5
<1>9. inbox' \in [Ends -> Seq(Received)] /\ arrived' \in [Ends -> Nat]
  BY <1>1, <1>3, <1>6, <1>8 DEF TypeOK
<1>10. due' \in [Directions -> Seq(Sent)]
  BY <1>7, <1>8 DEF TypeOK
<1>11. Len(Append(inbox[e], y)) = Len(inbox[e]) + 1 /\ Len(inbox[e]) \in Nat /\ Len(inbox[e]) <= arrived[e]
  BY <1>1, <1>3, <1>5 DEF TypeOK
<1>12. Len(inbox'[e]) <= arrived'[e]
  <2> DEFINE k == Len(inbox[e])
  <2>1. Len(inbox'[e]) = k + 1 /\ arrived'[e] = arrived[e] + 1 /\ k \in Nat /\ k <= arrived[e]
    BY <1>1, <1>6, <1>11 DEF TypeOK
  <2> HIDE DEF k
  <2> QED
    BY <1>3, <2>1
<1>13. \A c \in Ends : Len(inbox'[c]) <= arrived'[c]
  BY <1>6, <1>12 DEF TypeOK
<1>14. Ready(<<"read", e>>)
  BY DEF Arrive, e
<1>15. woken' \in BOOLEAN /\ wakers' \subseteq ({"read", "write"} \X Ends) \cup {<<"resolver">>}
  BY <1>14, ReadyType
<1>16. UNCHANGED <<side, ended, reset, copy, localVars, tunnelVars, got, taskVars>>
  BY DEF Arrive
<1> QED
  BY <1>9, <1>10, <1>13, <1>15, <1>16 DEF TypeOK, localVars, tunnelVars, taskVars

\* The sockets, the other end of the tunnel and the resolver.
LEMMA TypeWorld ==
  ASSUME TypeOK, World \/ Drain \/ ReceiveTunnel \/ Resolve
  PROVE  TypeOK'
<1>1. CASE ArriveLocal
  <2> PICK x \in Inputs[side]["local"] : Arrive("toTunnel", x)
    BY <1>1 DEF ArriveLocal
  <2> QED
    BY TypeArrive DEF Source, Directions
<1>2. CASE ArriveTunnel
  <2> PICK x \in Inputs[side]["tunnel"] : Arrive("toLocal", x)
    BY <1>2 DEF ArriveTunnel
  <2> QED
    BY TypeArrive DEF Source, Directions
<1>3. CASE EndTunnel
  BY <1>3, ReadyType DEF EndTunnel, TypeOK, localVars, tunnelVars, taskVars
<1>4. CASE SendReset
  BY <1>4 DEF SendReset, TypeOK, localVars, tunnelVars, taskVars
<1>5. CASE Stop
  BY <1>5 DEF Stop, TypeOK, netVars, localVars, tunnelVars
<1>6. CASE Drain
  BY <1>6, ReadyType DEF Drain, TypeOK, netVars, tunnelVars, taskVars
<1>7. CASE ReceiveTunnel
  <2>1. wire \in Seq(Sent) /\ wire # <<>> /\ got["toTunnel"] \in Seq(Sent) /\ Len(wire) <= WireCap
    BY <1>7 DEF TypeOK, ReceiveTunnel, Directions
  <2>2. Head(wire) \in Sent /\ Tail(wire) \in Seq(Sent) /\ Len(Tail(wire)) = Len(wire) - 1
        /\ Len(wire) \in Nat /\ WireCap \in Nat
    BY <2>1, BoundAssumption
  <2>3. Append(got["toTunnel"], Head(wire)) \in Seq(Sent)
    BY <2>1, <2>2
  <2>4. Len(Tail(wire)) <= WireCap
    <3> DEFINE k == Len(wire)
    <3>1. Len(Tail(wire)) = k - 1 /\ k \in Nat /\ k <= WireCap
      BY <2>1, <2>2
    <3> HIDE DEF k
    <3> QED
      BY <2>2, <3>1
  <2>5. got' \in [Directions -> Seq(Sent)] /\ wire' \in Seq(Sent) /\ Len(wire') <= WireCap
    BY <1>7, <2>2, <2>3, <2>4 DEF ReceiveTunnel, TypeOK
  <2>6. woken' \in BOOLEAN /\ wakers' \subseteq ({"read", "write"} \X Ends) \cup {<<"resolver">>}
    BY <1>7, ReadyType DEF ReceiveTunnel
  <2> QED
    BY <1>7, <2>5, <2>6 DEF ReceiveTunnel, TypeOK, netVars, localVars, taskVars
<1>8. CASE Resolve
  <2>1. answer' \in Addrs \cup {"none", "dropped"}
    BY <1>8, AddrAssumption DEF Resolve, Addrs
  <2>2. woken' \in BOOLEAN /\ wakers' \subseteq ({"read", "write"} \X Ends) \cup {<<"resolver">>}
    BY <1>8, ReadyType DEF Resolve
  <2> QED
    BY <1>8, <2>1, <2>2 DEF Resolve, TypeOK, netVars, tunnelVars, taskVars
<1> QED
  BY <1>1, <1>2, <1>3, <1>4, <1>5, <1>6, <1>7, <1>8 DEF World

LEMMA TypeErr ==
  ASSUME TypeOK, Err
  PROVE  /\ at' = "none" /\ reason' = "error" /\ at' \in Directions \cup {"none"}
         /\ stop_reason' \in {"Upload", "Download"}
         /\ reason' \in {"none", "Upload", "Download", "Timeout", "Shutdown", "error"}
  BY DEF TypeOK, Err

\* What a datagram that is read becomes.
LEMMA ReadFacts ==
  ASSUME TypeOK, NEW d \in Directions, ReadDatagram(d), NEW x, x = Head(inbox[Source(d)])
  PROVE  /\ x \in Received /\ inbox[Source(d)] # <<>> /\ inbox[Source(d)] \in Seq(Received)
         /\ Tail(inbox[Source(d)]) \in Seq(Received)
         /\ inbox' = [inbox EXCEPT ![Source(d)] = Tail(inbox[Source(d)])]
         /\ copy' \in [Directions -> TransferStates]
         /\ \A c \in Directions \ {d} : copy'[c] = copy[c]
         /\ copy'[d].state = copy[d].state /\ copy'[d].need_flush = copy[d].need_flush
         /\ \/ /\ x.kind = "ok" \/ d = "toLocal"
               /\ copy'[d].buf = <<[id |-> x.id, addr |-> x.addr]>>
               /\ copy'[d].read_done = copy[d].read_done /\ UNCHANGED taskVars
            \/ /\ d = "toTunnel" /\ copy'[d].buf = copy[d].buf /\ copy'[d].read_done = TRUE
               /\ UNCHANGED taskVars
            \/ d = "toTunnel" /\ x.kind = "empty" /\ copy' = copy /\ UNCHANGED taskVars
            \/ d = "toTunnel" /\ copy' = copy /\ Err
<1> DEFINE q == inbox[Source(d)]
           r == IF d = "toTunnel" THEN Outcome(x) ELSE "ok"
           b == <<[id |-> x.id, addr |-> x.addr]>>
<1>1. q \in Seq(Received) /\ q # <<>> /\ copy \in [Directions -> TransferStates]
  BY SourceType DEF TypeOK, ReadDatagram
<1>2. x \in Received /\ Tail(q) \in Seq(Received)
  BY <1>1
<1>3. inbox' = [inbox EXCEPT ![Source(d)] = Tail(q)]
  BY DEF ReadDatagram
<1>4. b \in Slot
  <2>1. [id |-> x.id, addr |-> x.addr] \in Sent
    BY <1>2 DEF Received, Sent
  <2> QED
    BY <2>1, OneInSlot
<1>5. /\ r = "ok" => copy' = [copy EXCEPT ![d].buf = b]
      /\ r = "eof" => copy' = [copy EXCEPT ![d].read_done = TRUE]
      /\ r # "ok" /\ r # "eof" => copy' = copy
      /\ r = "fail" => Err
      /\ r # "fail" => UNCHANGED taskVars
  BY DEF ReadDatagram
<1>6. /\ r \in {"ok", "eof", "fail", "empty"} /\ (r # "ok" => d = "toTunnel")
      /\ r = "ok" /\ d = "toTunnel" => x.kind = "ok"
      /\ r = "empty" => x.kind = "empty"
  <2>1. x.kind \in Kinds
    BY <1>2 DEF Received
  <2>2. /\ Outcome(x) \in {"ok", "eof", "fail", "empty"}
        /\ Outcome(x) = "ok" => x.kind = "ok"
        /\ Outcome(x) = "empty" => x.kind = "empty"
    BY <2>1 DEF Outcome, Kinds
  <2> QED
    BY <2>2
<1> HIDE DEF q, r, b
<1>7. CASE r = "ok"
  <2>1. copy' = [copy EXCEPT ![d].buf = b] /\ UNCHANGED taskVars
    BY <1>5, <1>7
  <2>2. /\ copy' \in [Directions -> TransferStates]
        /\ copy'[d].state = copy[d].state /\ copy'[d].buf = b
        /\ copy'[d].need_flush = copy[d].need_flush /\ copy'[d].read_done = copy[d].read_done
        /\ \A c \in Directions \ {d} : copy'[c] = copy[c]
    BY <1>1, <1>4, <2>1, SetBuf
  <2>3. x.kind = "ok" \/ d = "toLocal"
    BY <1>6, <1>7 DEF Directions
  <2> QED
    BY <1>1, <1>2, <1>3, <1>7, <2>1, <2>2, <2>3 DEF b, q
<1>8. CASE r = "eof"
  <2>1. copy' = [copy EXCEPT ![d].read_done = TRUE] /\ UNCHANGED taskVars /\ d = "toTunnel"
    BY <1>5, <1>6, <1>8
  <2>2. /\ copy' \in [Directions -> TransferStates]
        /\ copy'[d].state = copy[d].state /\ copy'[d].buf = copy[d].buf
        /\ copy'[d].need_flush = copy[d].need_flush /\ copy'[d].read_done = TRUE
        /\ \A c \in Directions \ {d} : copy'[c] = copy[c]
    BY <1>1, <2>1, SetReadDone
  <2> QED
    BY <1>1, <1>2, <1>3, <2>1, <2>2 DEF q
<1>9. CASE r = "empty"
  <2>1. copy' = copy /\ UNCHANGED taskVars /\ d = "toTunnel" /\ x.kind = "empty"
    BY <1>5, <1>6, <1>9
  <2> QED
    BY <1>1, <1>2, <1>3, <2>1 DEF q
<1>10. CASE r = "fail"
  <2>1. copy' = copy /\ Err /\ d = "toTunnel"
    BY <1>5, <1>6, <1>10
  <2> QED
    BY <1>1, <1>2, <1>3, <2>1 DEF q
<1> QED
  BY <1>6, <1>7, <1>8, <1>9, <1>10

LEMMA TypeRead ==
  ASSUME TypeOK, NEW d \in Directions, ReadDatagram(d) \/ ReadEnd(d)
  PROVE  TypeOK'
<1>1. CASE ReadDatagram(d)
  <2> DEFINE x == Head(inbox[Source(d)])  q == inbox[Source(d)]
  <2>1. /\ x \in Received /\ q # <<>> /\ q \in Seq(Received) /\ Tail(q) \in Seq(Received)
        /\ inbox' = [inbox EXCEPT ![Source(d)] = Tail(q)]
        /\ copy' \in [Directions -> TransferStates]
        /\ UNCHANGED taskVars \/ Err
    BY <1>1, ReadFacts
  <2>2. Source(d) \in Ends
    BY SourceType
  <2>3. client_udp_addr' \in Senders \cup {"none"}
    BY <1>1, <2>1 DEF ReadDatagram, Received, TypeOK
  <2>4. Len(Tail(q)) = Len(q) - 1 /\ Len(q) \in Nat /\ Len(q) <= arrived[Source(d)]
    BY <2>1, <2>2 DEF TypeOK
  <2>5. Len(Tail(q)) <= arrived[Source(d)]
    <3> DEFINE k == Len(q)
    <3>1. Len(Tail(q)) = k - 1 /\ k \in Nat /\ k <= arrived[Source(d)] /\ arrived[Source(d)] \in Nat
      BY <2>2, <2>4 DEF TypeOK
    <3> HIDE DEF k
    <3> QED
      BY <3>1
  <2>6. inbox' \in [Ends -> Seq(Received)] /\ \A e \in Ends : Len(inbox'[e]) <= arrived[e]
    <3> HIDE DEF q
    <3> QED
      BY <2>1, <2>2, <2>5 DEF TypeOK
  <2>7. /\ at' \in Directions \cup {"none"} /\ stop_reason' \in {"Upload", "Download"}
        /\ reason' \in {"none", "Upload", "Download", "Timeout", "Shutdown", "error"}
    BY <2>1, TypeErr DEF TypeOK, taskVars
  <2>8. UNCHANGED <<side, arrived, due, ended, reset, buffer, addr_task, answer, writable, tunnelVars, got, wakers, woken>>
    BY <1>1 DEF ReadDatagram
  <2> QED
    BY <2>1, <2>3, <2>6, <2>7, <2>8 DEF TypeOK, tunnelVars
<1>2. CASE ReadEnd(d)
  <2>1. copy' \in [Directions -> TransferStates]
    BY <1>2, SetReadDone DEF ReadEnd, ReadDone, TypeOK
  <2> QED
    BY <1>2, <2>1 DEF ReadEnd, TypeOK, netVars, localVars, tunnelVars, taskVars
<1> QED
  BY <1>1, <1>2

LEMMA TypeReadPending ==
  ASSUME TypeOK, NEW d \in Directions, ReadPending(d)
  PROVE  TypeOK'
<1>1. copy \in [Directions -> TransferStates] /\ Source(d) \in Ends /\ "local" \in Ends /\ "tunnel" \in Ends
  BY SourceType DEF TypeOK, Ends
<1>2. /\ copy' \in [Directions -> TransferStates]
      /\ held' \in Seq(Sent) /\ Len(held') <= HoldCap /\ wire' \in Seq(Sent) /\ Len(wire') <= WireCap
      /\ wakers' \subseteq ({"read", "write"} \X Ends) \cup {<<"resolver">>}
  <2>1. CASE copy[d].need_flush /\ d = "toTunnel"
    <3>1. Push(held, FlushNow) /\ copy' = [copy EXCEPT ![d].need_flush = ~Flushes] /\ (~Flushes) \in BOOLEAN
      BY <2>1 DEF ReadPending
    <3>2. wakers' \subseteq wakers \cup {<<"read", "local">>, <<"write", "tunnel">>}
      BY <2>1 DEF ReadPending
    <3>3. copy' \in [Directions -> TransferStates]
      BY <1>1, <3>1, SetNeedFlush
    <3>4. wakers' \subseteq ({"read", "write"} \X Ends) \cup {<<"resolver">>}
      BY <1>1, <3>2, WakerTypes DEF TypeOK
    <3> QED
      BY <3>1, <3>3, <3>4, FlushFacts
  <2>2. CASE ~(copy[d].need_flush /\ d = "toTunnel")
    <3>1. copy' = [copy EXCEPT ![d].need_flush = FALSE] /\ wakers' = wakers \cup {<<"read", Source(d)>>}
          /\ UNCHANGED tunnelVars
      BY <2>2 DEF ReadPending
    <3>2. copy' \in [Directions -> TransferStates]
      BY <1>1, <3>1, SetNeedFlush
    <3> QED
      BY <1>1, <3>1, <3>2, WakerTypes DEF TypeOK, tunnelVars
  <2> QED
    BY <2>1, <2>2
<1>3. /\ at' \in Directions \cup {"none"} /\ stop_reason' \in {"Upload", "Download"}
      /\ reason' \in {"none", "Upload", "Download", "Timeout", "Shutdown", "error"}
  BY ReturnFacts DEF ReadPending
<1> QED
  BY <1>2, <1>3 DEF ReadPending, TypeOK, netVars, localVars

\* What the tunnel's writer makes of a datagram.
LEMMA WriteFacts ==
  ASSUME TypeOK, WriteTunnel
  PROVE  \E n \in Nat :
           LET h == held \o copy["toTunnel"].buf
           IN /\ h \in Seq(Sent) /\ n <= Len(h) /\ Push(h, n)
              /\ wire' \in Seq(Sent) /\ held' \in Seq(Sent)
              /\ Len(wire') <= WireCap /\ Len(held') <= HoldCap
<1> DEFINE h == held \o copy["toTunnel"].buf
<1>1. PICK n \in 0..Len(h) : n <= Room /\ Len(h) - n <= HoldCap /\ Push(h, n)
  BY DEF WriteTunnel
<1>2. copy["toTunnel"].buf \in Seq(Sent) /\ held \in Seq(Sent) /\ wire \in Seq(Sent)
  BY CopyFields, SlotFacts DEF TypeOK, Directions
<1>3. h \in Seq(Sent) /\ Len(h) \in Nat
  BY <1>2
<1> HIDE DEF h
<1>4. n \in Nat /\ n <= Len(h)
  BY <1>1, <1>3
<1>5. wire' \in Seq(Sent) /\ held' \in Seq(Sent) /\ Len(wire') = Len(wire) + n /\ Len(held') = Len(h) - n
  BY <1>1, <1>2, <1>3, <1>4, PushFacts
<1>6. Len(wire) \in Nat /\ Room = WireCap - Len(wire) /\ WireCap \in Nat
  BY LenFacts
<1>7. Len(wire') <= WireCap
  <2> DEFINE w == Len(wire)
  <2>1. Len(wire') = w + n /\ n <= WireCap - w /\ w \in Nat
    BY <1>1, <1>5, <1>6
  <2> HIDE DEF w
  <2> QED
    BY <1>4, <1>6, <2>1
<1> QED
  BY <1>1, <1>3, <1>4, <1>5, <1>7 DEF h

LEMMA TypeWriteTunnel ==
  ASSUME TypeOK, WriteTunnel \/ WriteTunnelPending
  PROVE  TypeOK'
<1>1. CASE WriteTunnel
  <2>1. wire' \in Seq(Sent) /\ held' \in Seq(Sent) /\ Len(wire') <= WireCap /\ Len(held') <= HoldCap
    BY <1>1, WriteFacts
  <2>2. copy' \in [Directions -> TransferStates]
    BY <1>1, SetWritten DEF WriteTunnel, TypeOK, Directions
  <2> QED
    BY <1>1, <2>1, <2>2 DEF WriteTunnel, TypeOK, netVars, localVars, taskVars
<1>2. CASE WriteTunnelPending
  <2>1. wakers' \subseteq ({"read", "write"} \X Ends) \cup {<<"resolver">>}
    BY <1>2, WakerTypes DEF WriteTunnelPending, TypeOK, Ends
  <2>2. /\ at' \in Directions \cup {"none"} /\ stop_reason' \in {"Upload", "Download"}
        /\ reason' \in {"none", "Upload", "Download", "Timeout", "Shutdown", "error"}
    BY <1>2, ReturnFacts DEF WriteTunnelPending, Directions
  <2> QED
    BY <1>2, <2>1, <2>2 DEF WriteTunnelPending, TypeOK, netVars, localVars, tunnelVars
<1> QED
  BY <1>1, <1>2

\* What the client's socket is given.
LEMMA SendFacts ==
  ASSUME TypeOK, NEW x \in Sent, PollSendTo(x)
  PROVE  /\ got' \in [Directions -> Seq(Sent)] /\ got'["toTunnel"] = got["toTunnel"]
         /\ writable' \in BOOLEAN
         /\ wakers' \subseteq ({"read", "write"} \X Ends) \cup {<<"resolver">>}
         /\ wakers \subseteq wakers'
         /\ writable => got'["toLocal"] = Append(got["toLocal"], x)
         /\ ~writable => <<"write", "local">> \in wakers' /\ writable' = writable /\ got' = got
<1>1. got \in [Directions -> Seq(Sent)] /\ "toLocal" \in Directions /\ "toTunnel" \in Directions
  BY DEF TypeOK, Directions
<1>2. CASE writable
  <2>1. got' = [got EXCEPT !["toLocal"] = Append(got["toLocal"], x)] /\ writable' \in BOOLEAN /\ wakers' = wakers
    BY <1>2 DEF PollSendTo
  <2>2. Append(got["toLocal"], x) \in Seq(Sent)
    BY <1>1
  <2> QED
    BY <1>1, <1>2, <2>1, <2>2 DEF TypeOK
<1>3. CASE ~writable
  <2>1. got' = got /\ writable' = writable /\ wakers' = wakers \cup {<<"write", "local">>}
    BY <1>3 DEF PollSendTo
  <2>2. wakers' \subseteq ({"read", "write"} \X Ends) \cup {<<"resolver">>}
    BY <2>1, WakerTypes DEF TypeOK, Ends
  <2> QED
    BY <1>1, <1>3, <2>1, <2>2 DEF TypeOK
<1> QED
  BY <1>2, <1>3 DEF TypeOK

LEMMA DatagramType ==
  ASSUME TypeOK, copy["toLocal"].buf # <<>>
  PROVE  Datagram \in Sent /\ Datagram.id \in Nat /\ Datagram.addr \in Addrs
<1>1. copy["toLocal"].buf \in Slot
  BY CopyFields DEF TypeOK, Directions
<1>2. Datagram \in Sent
  BY <1>1, SlotFacts DEF Datagram
<1> QED
  BY <1>2 DEF Sent

LEMMA ReadyIp ==
  ASSUME TypeOK
  PROVE  /\ addr_task.state \in {"None", "Pending", "Ready"}
         /\ addr_task.state = "Ready" => addr_task.ip \in Ips
  BY DEF TypeOK, ResolveAddrs

LEMMA TypeSocks5 ==
  ASSUME TypeOK, Socks5Write \/ Socks5WriteTooEarly
  PROVE  TypeOK'
<1>1. CASE Socks5Write
  <2>1. /\ copy["toLocal"].buf # <<>> /\ buffer \in Slot /\ copy \in [Directions -> TransferStates]
        /\ "toLocal" \in Directions
    BY <1>1 DEF Socks5Write, Writing, TypeOK, Directions
  <2> DEFINE x == IF buffer = <<>> THEN Datagram ELSE buffer[1]
  <2>2. x \in Sent /\ Datagram \in Sent
    BY <2>1, DatagramType, SlotFacts
  <2>3. PollSendTo(x)
    BY <1>1 DEF Socks5Write
  <2> HIDE DEF x
  <2>4. /\ got' \in [Directions -> Seq(Sent)] /\ writable' \in BOOLEAN
        /\ wakers' \subseteq ({"read", "write"} \X Ends) \cup {<<"resolver">>}
    BY <2>2, <2>3, SendFacts
  <2>5. buffer' \in Slot
    BY <1>1, <2>1, <2>2, OneInSlot, EmptySlot DEF Socks5Write
  <2>6. \/ Written("toLocal") /\ UNCHANGED taskVars
        \/ Return("toLocal") /\ UNCHANGED copy
    BY <1>1 DEF Socks5Write
  <2>7. copy' \in [Directions -> TransferStates]
    BY <2>1, <2>6, SetWritten
  <2>8. /\ at' \in Directions \cup {"none"} /\ stop_reason' \in {"Upload", "Download"}
        /\ reason' \in {"none", "Upload", "Download", "Timeout", "Shutdown", "error"}
    BY <2>1, <2>6, ReturnFacts DEF TypeOK, taskVars
  <2> QED
    BY <1>1, <2>4, <2>5, <2>7, <2>8 DEF Socks5Write, TypeOK, netVars, tunnelVars
<1>2. CASE Socks5WriteTooEarly
  BY <1>2, TypeErr DEF Socks5WriteTooEarly, TypeOK, netVars, localVars, tunnelVars
<1> QED
  BY <1>1, <1>2

LEMMA TypeResolve ==
  ASSUME TypeOK, StartResolve \/ AwaitResolve \/ Resolved \/ ResolveFailed
  PROVE  TypeOK'
<1>1. CASE StartResolve
  <2>1. Datagram.addr \in Addrs
    BY <1>1, DatagramType DEF StartResolve, Writing
  <2>2. addr_task' \in ResolveAddrs /\ answer' \in Addrs \cup {"none", "dropped"}
    <3>1. answer' \in Addrs \cup {"none", "dropped"}
      BY <1>1, <2>1 DEF StartResolve, TypeOK
    <3>2. addr_task' \in ResolveAddrs
      BY <1>1 DEF StartResolve, NoTask, ResolveAddrs, TypeOK
    <3> QED
      BY <3>1, <3>2
  <2> QED
    BY <1>1, <2>2 DEF StartResolve, TypeOK, netVars, tunnelVars, taskVars
<1>2. CASE AwaitResolve
  <2>1. addr_task' \in ResolveAddrs
    BY <1>2 DEF AwaitResolve, ResolveAddrs, TypeOK
  <2>2. wakers' \subseteq ({"read", "write"} \X Ends) \cup {<<"resolver">>}
    BY <1>2, WakerTypes DEF AwaitResolve, TypeOK
  <2>3. /\ at' \in Directions \cup {"none"} /\ stop_reason' \in {"Upload", "Download"}
        /\ reason' \in {"none", "Upload", "Download", "Timeout", "Shutdown", "error"}
    BY <1>2, ReturnFacts DEF AwaitResolve, Directions
  <2> QED
    BY <1>2, <2>1, <2>2, <2>3 DEF AwaitResolve, TypeOK, netVars, tunnelVars
<1>3. CASE Resolved
  <2>1. addr_task' \in ResolveAddrs
    BY <1>3 DEF Resolved, NoTask, ResolveAddrs
  <2>2. woken' \in BOOLEAN
    BY <1>3 DEF Resolved
  <2> QED
    BY <1>3, <2>1, <2>2 DEF Resolved, TypeOK, netVars, tunnelVars, taskVars
<1>4. CASE ResolveFailed
  BY <1>4, TypeErr DEF ResolveFailed, TypeOK, netVars, localVars, tunnelVars
<1> QED
  BY <1>1, <1>2, <1>3, <1>4

LEMMA TypeSendTo ==
  ASSUME TypeOK, SendTo
  PROVE  TypeOK'
<1>1. copy["toLocal"].buf # <<>> /\ copy \in [Directions -> TransferStates] /\ "toLocal" \in Directions
  BY DEF SendTo, Writing, TypeOK, Directions
<1> DEFINE x == [id |-> Datagram.id, addr |-> addr_task.ip]
<1>2. x \in Sent
  BY <1>1, DatagramType, ReadyIp DEF SendTo, Sent, Addrs
<1>3. PollSendTo(x)
  BY DEF SendTo
<1> HIDE DEF x
<1>4. /\ got' \in [Directions -> Seq(Sent)] /\ writable' \in BOOLEAN
      /\ wakers' \subseteq ({"read", "write"} \X Ends) \cup {<<"resolver">>}
  BY <1>2, <1>3, SendFacts
<1>5. \/ Written("toLocal") /\ addr_task' = NoTask /\ UNCHANGED taskVars
      \/ Return("toLocal") /\ UNCHANGED <<copy, addr_task>>
  BY DEF SendTo
<1>6. copy' \in [Directions -> TransferStates]
  BY <1>1, <1>5, SetWritten
<1>7. addr_task' \in ResolveAddrs
  <2>1. NoTask \in ResolveAddrs
    BY DEF NoTask, ResolveAddrs
  <2> QED
    BY <1>5, <2>1 DEF TypeOK
<1>8. /\ at' \in Directions \cup {"none"} /\ stop_reason' \in {"Upload", "Download"}
      /\ reason' \in {"none", "Upload", "Download", "Timeout", "Shutdown", "error"}
  BY <1>1, <1>5, ReturnFacts DEF TypeOK, taskVars
<1> QED
  BY <1>4, <1>6, <1>7, <1>8 DEF SendTo, TypeOK, netVars, tunnelVars

LEMMA TypeEnd ==
  ASSUME TypeOK, NEW d \in Directions, ShutDown(d) \/ ReturnDone(d) \/ Fail(d)
  PROVE  TypeOK'
<1>1. CASE ShutDown(d)
  <2>1. held' \in Seq(Sent) /\ Len(held') <= HoldCap /\ wire' \in Seq(Sent) /\ Len(wire') <= WireCap
    BY <1>1, FlushFacts DEF ShutDown, TypeOK, tunnelVars
  <2>2. \/ /\ copy' = [copy EXCEPT ![d].state = IF @ = "Running" THEN "ShuttingDown" ELSE "Done"]
           /\ UNCHANGED <<taskVars, wakers>>
        \/ wakers' = wakers \cup {<<"write", "tunnel">>} /\ Return(d) /\ UNCHANGED copy
    BY <1>1 DEF ShutDown
  <2>3. copy' \in [Directions -> TransferStates]
    BY <2>2, SetState DEF TypeOK
  <2>4. wakers' \subseteq ({"read", "write"} \X Ends) \cup {<<"resolver">>}
    BY <2>2, WakerTypes DEF TypeOK, Ends
  <2>5. /\ at' \in Directions \cup {"none"} /\ stop_reason' \in {"Upload", "Download"}
        /\ reason' \in {"none", "Upload", "Download", "Timeout", "Shutdown", "error"}
    BY <2>2, ReturnFacts DEF TypeOK, taskVars
  <2> QED
    BY <1>1, <2>1, <2>3, <2>4, <2>5 DEF ShutDown, TypeOK, netVars, localVars
<1>2. CASE ReturnDone(d)
  BY <1>2, ReturnFacts DEF ReturnDone, TypeOK, netVars, localVars, tunnelVars
<1>3. CASE Fail(d)
  BY <1>3, TypeErr DEF Fail, TypeOK, netVars, localVars, tunnelVars
<1> QED
  BY <1>1, <1>2, <1>3

LEMMA TypeInit == Init => TypeOK
<1> SUFFICES ASSUME Init PROVE TypeOK
  OBVIOUS
<1>1. copy \in [Directions -> TransferStates] /\ buffer \in Slot
  BY EmptySlot DEF Init, Running, TransferStates
<1>2. addr_task \in ResolveAddrs
  BY DEF Init, NoTask, ResolveAddrs
<1>3. HoldCap \in Nat /\ WireCap \in Nat /\ Len(<<>>) = 0
  BY BoundAssumption
<1>4. inbox \in [Ends -> Seq(Received)] /\ arrived \in [Ends -> Nat] /\ \A e \in Ends : Len(inbox[e]) <= arrived[e]
  BY DEF Init
<1>5. due \in [Directions -> Seq(Sent)] /\ got \in [Directions -> Seq(Sent)]
  BY DEF Init
<1>6. held \in Seq(Sent) /\ Len(held) <= HoldCap /\ wire \in Seq(Sent) /\ Len(wire) <= WireCap
  BY <1>3 DEF Init
<1> QED
  BY <1>1, <1>2, <1>4, <1>5, <1>6 DEF Init, TypeOK

LEMMA TypeNext == TypeOK /\ [Next]_vars => TypeOK'
<1> SUFFICES ASSUME TypeOK, [Next]_vars PROVE TypeOK'
  OBVIOUS
<1>1. CASE World \/ Drain \/ ReceiveTunnel \/ Resolve
  BY <1>1, TypeWorld
<1>2. CASE Poll
  BY <1>2 DEF Poll, Upload, TypeOK, Directions, netVars, localVars, tunnelVars
<1>3. CASE WriteTunnel \/ WriteTunnelPending
  BY <1>3, TypeWriteTunnel
<1>4. CASE WriteLocal
  BY <1>4, TypeSocks5, TypeResolve, TypeSendTo DEF WriteLocal
<1>5. ASSUME NEW d \in Directions, Copy(d) PROVE TypeOK'
  BY <1>5, TypeRead, TypeReadPending, TypeEnd DEF Copy
<1>6. CASE UNCHANGED vars
  BY <1>6 DEF TypeOK, vars, netVars, localVars, tunnelVars, taskVars
<1> QED
  BY <1>1, <1>2, <1>3, <1>4, <1>5, <1>6 DEF Next, Task

\* Sessions, wire and buffers keep to their bounds whatever comes in
\* (UdpCopyBuf, Socks5UdpSpecifiedBuffer, ServerUdpStream.addr_task).
THEOREM UdpRelayTypeOK == Spec => []TypeOK
  BY TypeInit, TypeNext, PTL DEF Spec
-----------------------------------------------------------------------------
(***************************************************************************)
(* The order of the end: EndOk and Control.                                *)
(***************************************************************************)
LEMMA Two == Directions = {"toTunnel", "toLocal"} /\ "toTunnel" \in Directions /\ "toLocal" \in Directions
  BY DEF Directions

LEMMA EndFrame ==
  ASSUME EndOk, UNCHANGED <<copy, held>>
  PROVE  EndOk'
  BY DEF EndOk

LEMMA EndRead ==
  ASSUME TypeOK, EndOk, NEW d \in Directions, ReadDatagram(d) \/ ReadEnd(d)
  PROVE  EndOk'
<1>1. copy[d].state = "Running" /\ copy[d].buf = <<>> /\ ~copy[d].read_done /\ held' = held
  BY DEF ReadDatagram, ReadEnd, Reading, tunnelVars
<1>2. /\ copy'[d].state = "Running" /\ copy'[d].need_flush = copy[d].need_flush
      /\ copy'[d].read_done => copy'[d].buf = <<>>
      /\ \A c \in Directions \ {d} : copy'[c] = copy[c]
  <2>1. CASE ReadDatagram(d)
    <3>1. /\ \A c \in Directions \ {d} : copy'[c] = copy[c]
          /\ copy'[d].state = copy[d].state /\ copy'[d].need_flush = copy[d].need_flush
          /\ \/ copy'[d].read_done = copy[d].read_done
             \/ copy'[d].buf = copy[d].buf
             \/ copy' = copy
      BY <2>1, ReadFacts
    <3> QED
      BY <1>1, <3>1
  <2>2. CASE ReadEnd(d)
    BY <1>1, <2>2, SetReadDone DEF ReadEnd, ReadDone, TypeOK
  <2> QED
    BY <2>1, <2>2
<1> QED
  BY <1>1, <1>2, Two DEF EndOk

LEMMA EndReadPending ==
  ASSUME TypeOK, EndOk, NEW d \in Directions, ReadPending(d)
  PROVE  EndOk'
<1>1. copy \in [Directions -> TransferStates] /\ copy[d].need_flush \in BOOLEAN
  BY CopyFields DEF TypeOK
<1>2. copy[d].state = "Running"
  BY DEF ReadPending, Reading
<1>3. CASE copy[d].need_flush /\ d = "toTunnel"
  <2>1. Push(held, FlushNow) /\ copy' = [copy EXCEPT ![d].need_flush = ~Flushes] /\ (~Flushes) \in BOOLEAN
    BY <1>3 DEF ReadPending
  <2>2. /\ copy'[d].state = copy[d].state /\ copy'[d].buf = copy[d].buf
        /\ copy'[d].need_flush = ~Flushes /\ copy'[d].read_done = copy[d].read_done
        /\ \A c \in Directions \ {d} : copy'[c] = copy[c]
    BY <1>1, <2>1, SetNeedFlush
  <2>3. held' # <<>> => ~Flushes
    BY <2>1, FlushFacts
  <2> QED
    <3>1. \A c \in Directions :
            /\ copy'[c].read_done = copy[c].read_done /\ copy'[c].buf = copy[c].buf
            /\ copy'[c].state = copy[c].state
      BY <2>2
    <3>2. held' # <<>> => copy'["toTunnel"].need_flush
      BY <1>3, <2>2, <2>3
    <3>3. copy'["toTunnel"].state = "Running"
      BY <1>2, <1>3, <2>2
    <3> QED
      BY <3>1, <3>2, <3>3 DEF EndOk
<1>4. CASE ~(copy[d].need_flush /\ d = "toTunnel")
  <2>1. copy' = [copy EXCEPT ![d].need_flush = FALSE] /\ held' = held
    BY <1>4 DEF ReadPending, tunnelVars
  <2>2. /\ copy'[d].state = copy[d].state /\ copy'[d].buf = copy[d].buf
        /\ copy'[d].read_done = copy[d].read_done
        /\ \A c \in Directions \ {d} : copy'[c] = copy[c]
    BY <1>1, <2>1, SetNeedFlush
  <2>3. d = "toTunnel" => held = <<>>
    BY <1>4 DEF EndOk
  <2> QED
    BY <1>2, <2>1, <2>2, <2>3, Two DEF EndOk
<1> QED
  BY <1>3, <1>4

LEMMA EndWritten ==
  ASSUME TypeOK, EndOk, NEW d \in Directions, Writing(d), Written(d), d = "toTunnel" \/ held' = held
  PROVE  EndOk'
<1>1. copy[d].state = "Running" /\ copy[d].buf # <<>> /\ copy \in [Directions -> TransferStates]
  BY DEF Writing, TypeOK
<1>2. /\ copy'[d].state = copy[d].state /\ copy'[d].buf = <<>>
      /\ copy'[d].need_flush = TRUE /\ copy'[d].read_done = copy[d].read_done
      /\ \A c \in Directions \ {d} : copy'[c] = copy[c]
  BY <1>1, SetWritten
<1> QED
  BY <1>1, <1>2, Two DEF EndOk

LEMMA EndShutDown ==
  ASSUME TypeOK, EndOk, NEW d \in Directions, ShutDown(d)
  PROVE  EndOk'
<1>1. copy \in [Directions -> TransferStates] /\ copy[d].read_done /\ copy[d].buf = <<>>
  BY DEF TypeOK, ShutDown, Closing
<1>2. CASE d = "toLocal" \/ Flushes
  <2>1. copy' = [copy EXCEPT ![d].state = IF @ = "Running" THEN "ShuttingDown" ELSE "Done"]
    BY <1>2 DEF ShutDown
  <2>2. /\ copy'[d].buf = copy[d].buf
        /\ copy'[d].need_flush = copy[d].need_flush /\ copy'[d].read_done = copy[d].read_done
        /\ \A c \in Directions \ {d} : copy'[c] = copy[c]
    BY <1>1, <2>1, SetState
  <2>3. IF d = "toLocal" THEN held' = held ELSE held' = <<>>
    BY <1>2, FlushFacts, Two DEF ShutDown, tunnelVars
  <2> QED
    BY <1>1, <2>2, <2>3, Two DEF EndOk
<1>3. CASE ~(d = "toLocal" \/ Flushes)
  <2>1. copy' = copy /\ Push(held, FlushNow) /\ d = "toTunnel"
    BY <1>3, Two DEF ShutDown
  <2>2. held # <<>>
    BY <1>3, <2>1, FlushFacts
  <2> QED
    BY <2>1, <2>2 DEF EndOk
<1> QED
  BY <1>2, <1>3

LEMMA EndStep ==
  ASSUME TypeOK, EndOk, [Next]_vars
  PROVE  EndOk'
<1>1. CASE World \/ Drain \/ ReceiveTunnel \/ Resolve
  <2>1. UNCHANGED <<copy, held>>
    BY <1>1 DEF World, ArriveLocal, ArriveTunnel, Arrive, EndTunnel, SendReset, Stop, Drain, ReceiveTunnel,
         Resolve, tunnelVars
  <2> QED
    BY <2>1, EndFrame
<1>2. CASE Poll \/ WriteTunnelPending \/ UNCHANGED vars
  BY <1>2, EndFrame DEF Poll, WriteTunnelPending, vars, tunnelVars
<1>3. CASE WriteTunnel
  BY <1>3, EndWritten, Two DEF WriteTunnel
<1>4. CASE Socks5Write
  <2>1. \/ Writing("toLocal") /\ Written("toLocal") /\ held' = held
        \/ UNCHANGED <<copy, held>>
    BY <1>4 DEF Socks5Write, tunnelVars
  <2> QED
    BY <2>1, EndWritten, EndFrame, Two
<1>5. CASE SendTo
  <2>1. \/ Writing("toLocal") /\ Written("toLocal") /\ held' = held
        \/ UNCHANGED <<copy, held>>
    BY <1>5 DEF SendTo, tunnelVars
  <2> QED
    BY <2>1, EndWritten, EndFrame, Two
<1>6. CASE Socks5WriteTooEarly \/ StartResolve \/ AwaitResolve \/ Resolved \/ ResolveFailed
  BY <1>6, EndFrame DEF Socks5WriteTooEarly, StartResolve, AwaitResolve, Resolved, ResolveFailed, tunnelVars
<1>7. ASSUME NEW d \in Directions, ReadDatagram(d) \/ ReadEnd(d) \/ ReadPending(d) \/ ShutDown(d) PROVE EndOk'
  BY <1>7, EndRead, EndReadPending, EndShutDown
<1>8. ASSUME NEW d \in Directions, ReturnDone(d) \/ Fail(d) PROVE EndOk'
  BY <1>8, EndFrame DEF ReturnDone, Fail, tunnelVars
<1> QED
  BY <1>1, <1>2, <1>3, <1>4, <1>5, <1>6, <1>7, <1>8 DEF Next, Task, WriteLocal, Copy

\* A step of the task that belongs to direction d: it goes on with d, or returns
\* from it, or leaves the relay with an error.
Steps(d) ==
  /\ at = d
  /\ UNCHANGED taskVars \/ Return(d) \/ Err

LEMMA ControlStep ==
  ASSUME TypeOK, Control, [Next]_vars
  PROVE  Control'
<1>1. ASSUME NEW d \in Directions, Steps(d) PROVE Control'
  <2>1. at # "none" /\ reason = "none"
    BY <1>1, Two DEF Steps, Control
  <2>2. CASE UNCHANGED taskVars
    BY <2>1, <2>2 DEF Control, taskVars
  <2>3. CASE Return(d)
    BY <2>1, <2>3 DEF Return, Control
  <2>4. CASE Err
    BY <2>4 DEF Err, Control
  <2> QED
    BY <1>1, <2>2, <2>3, <2>4 DEF Steps
<1>2. CASE World \/ Drain \/ ReceiveTunnel \/ Resolve
  BY <1>2 DEF World, ArriveLocal, ArriveTunnel, Arrive, EndTunnel, SendReset, Stop, Drain, ReceiveTunnel,
       Resolve, taskVars, Control
<1>3. CASE Poll \/ UNCHANGED vars
  BY <1>3 DEF Poll, vars, taskVars, Control
<1>4. CASE WriteTunnel \/ WriteTunnelPending
  <2>1. Steps("toTunnel")
    BY <1>4 DEF WriteTunnel, WriteTunnelPending, Writing, Steps
  <2> QED
    BY <1>1, <2>1, Two
<1>5. CASE WriteLocal
  <2>1. Steps("toLocal")
    BY <1>5 DEF WriteLocal, Socks5Write, Socks5WriteTooEarly, StartResolve, AwaitResolve, Resolved,
         ResolveFailed, SendTo, Writing, Steps
  <2> QED
    BY <1>1, <2>1, Two
<1>6. ASSUME NEW d \in Directions, Copy(d) PROVE Control'
  <2>1. Steps(d)
    BY <1>6 DEF Copy, ReadDatagram, ReadEnd, ReadPending, ShutDown, ReturnDone, Fail, Reading, Closing, Steps
  <2> QED
    BY <1>1, <2>1
<1> QED
  BY <1>2, <1>3, <1>4, <1>5, <1>6 DEF Next, Task
-----------------------------------------------------------------------------
(***************************************************************************)
(* Nobody is forgotten: Awake.                                             *)
(***************************************************************************)

\* A direction goes on waiting while the other is polled.
LEMMA WaitsFrame ==
  ASSUME wakers \subseteq wakers'
  PROVE  /\ /\ WaitsTunnel /\ copy'["toTunnel"] = copy["toTunnel"] /\ inbox'["local"] = inbox["local"]
            /\ UNCHANGED <<held, wire>>
            => WaitsTunnel'
         /\ /\ WaitsLocal /\ copy'["toLocal"] = copy["toLocal"] /\ inbox'["tunnel"] = inbox["tunnel"]
            /\ UNCHANGED <<side, ended, addr_task, answer, writable>>
            => WaitsLocal'
  BY DEF WaitsTunnel, WaitsLocal, AwaitsFlush, Room

\* What becomes ready wakes the task, or is not what the direction waits for.
LEMMA TunnelReady ==
  ASSUME WaitsTunnel, NEW s, Ready(s), copy'["toTunnel"] = copy["toTunnel"], held' = held,
         inbox'["local"] = inbox["local"] \/ s = <<"read", "local">>,
         wire' = wire \/ s = <<"write", "tunnel">>
  PROVE  woken' \/ WaitsTunnel'
<1>1. CASE s \in wakers
  BY <1>1 DEF Ready
<1>2. CASE s \notin wakers
  <2>1. wakers' = wakers
    BY <1>2 DEF Ready
  <2>2. <<"write", "tunnel">> \in wakers => wire' = wire
    BY <1>2
  <2>3. <<"read", "local">> \in wakers => inbox'["local"] = inbox["local"]
    BY <1>2
  <2>4. AwaitsFlush => AwaitsFlush'
    BY <2>1, <2>2 DEF AwaitsFlush, Room
  <2> QED
    BY <2>1, <2>2, <2>3, <2>4 DEF WaitsTunnel, Room
<1> QED
  BY <1>1, <1>2

LEMMA LocalReady ==
  ASSUME WaitsLocal, NEW s, Ready(s), copy'["toLocal"] = copy["toLocal"], UNCHANGED <<side, addr_task>>,
         UNCHANGED <<inbox["tunnel"], ended>> \/ s = <<"read", "tunnel">>,
         answer' = answer \/ s = <<"resolver">>,
         writable' = writable \/ s = <<"write", "local">>
  PROVE  woken' \/ WaitsLocal'
<1>1. CASE s \in wakers
  BY <1>1 DEF Ready
<1>2. CASE s \notin wakers
  <2>1. wakers' = wakers
    BY <1>2 DEF Ready
  <2>2. /\ <<"read", "tunnel">> \in wakers => inbox'["tunnel"] = inbox["tunnel"] /\ ended' = ended
        /\ <<"resolver">> \in wakers => answer' = answer
        /\ <<"write", "local">> \in wakers => writable' = writable
    BY <1>2
  <2> QED
    BY <2>1, <2>2 DEF WaitsLocal
<1> QED
  BY <1>1, <1>2

\* The world does not disturb a direction that waits.
LEMMA WorldAwake ==
  ASSUME TypeOK, \A d \in Directions : Awake(d), World \/ Drain \/ ReceiveTunnel \/ Resolve
  PROVE  \A d \in Directions : Awake(d)'
<1> DEFINE Kept == /\ UNCHANGED <<at, side>> /\ (reason' = "none" => reason = "none") /\ (woken => woken')
                   /\ WaitsTunnel => woken' \/ WaitsTunnel'
                   /\ WaitsLocal => woken' \/ WaitsLocal'
<1>1. Kept => \A d \in Directions : Awake(d)'
  BY DEF Awake, Settled, Upload, Waits
<1>2. woken \in BOOLEAN /\ inbox \in [Ends -> Seq(Received)] /\ "local" \in Ends /\ "tunnel" \in Ends
  BY DEF TypeOK, Ends
<1>3. CASE ArriveLocal
  <2> PICK x \in Inputs[side]["local"] : Arrive("toTunnel", x)
    BY <1>3 DEF ArriveLocal
  <2>1. /\ Ready(<<"read", "local">>) /\ inbox'["tunnel"] = inbox["tunnel"]
        /\ UNCHANGED <<side, ended, copy, addr_task, answer, writable, held, wire, at, reason>>
    BY <1>2 DEF Arrive, Source, localVars, tunnelVars, taskVars
  <2>2. Kept
    BY <2>1, TunnelReady, LocalReady, ReadyType
  <2> QED
    BY <1>1, <2>2
<1>4. CASE ArriveTunnel
  <2> PICK x \in Inputs[side]["tunnel"] : Arrive("toLocal", x)
    BY <1>4 DEF ArriveTunnel
  <2>1. /\ Ready(<<"read", "tunnel">>) /\ inbox'["local"] = inbox["local"]
        /\ UNCHANGED <<side, ended, copy, addr_task, answer, writable, held, wire, at, reason>>
    BY <1>2 DEF Arrive, Source, localVars, tunnelVars, taskVars
  <2>2. Kept
    BY <2>1, TunnelReady, LocalReady, ReadyType
  <2> QED
    BY <1>1, <2>2
<1>5. CASE EndTunnel
  <2>1. /\ Ready(<<"read", "tunnel">>)
        /\ UNCHANGED <<side, inbox, copy, addr_task, answer, writable, held, wire, at, reason>>
    BY <1>5 DEF EndTunnel, localVars, tunnelVars, taskVars
  <2>2. Kept
    BY <2>1, TunnelReady, LocalReady, ReadyType
  <2> QED
    BY <1>1, <2>2
<1>6. CASE SendReset \/ Stop
  <2>1. /\ UNCHANGED <<side, inbox, ended, copy, addr_task, answer, writable, held, wire, at, wakers, woken>>
        /\ reason' = "none" => reason = "none"
    BY <1>6 DEF SendReset, Stop, netVars, localVars, tunnelVars, taskVars
  <2>2. Kept
    BY <2>1, WaitsFrame
  <2> QED
    BY <1>1, <2>2
<1>7. CASE Drain
  <2>1. /\ Ready(<<"write", "local">>)
        /\ UNCHANGED <<side, inbox, ended, copy, addr_task, answer, held, wire, at, reason>>
    BY <1>7 DEF Drain, netVars, tunnelVars, taskVars
  <2>2. Kept
    BY <2>1, TunnelReady, LocalReady, ReadyType
  <2> QED
    BY <1>1, <2>2
<1>8. CASE ReceiveTunnel
  <2>1. /\ Ready(<<"write", "tunnel">>)
        /\ UNCHANGED <<side, inbox, ended, copy, addr_task, answer, writable, held, at, reason>>
    BY <1>8 DEF ReceiveTunnel, netVars, localVars, taskVars
  <2>2. Kept
    BY <2>1, TunnelReady, LocalReady, ReadyType
  <2> QED
    BY <1>1, <2>2
<1>9. CASE Resolve
  <2>1. /\ Ready(<<"resolver">>)
        /\ UNCHANGED <<side, inbox, ended, copy, addr_task, writable, held, wire, at, reason>>
    BY <1>9 DEF Resolve, netVars, tunnelVars, taskVars
  <2>2. Kept
    BY <2>1, TunnelReady, LocalReady, ReadyType
  <2> QED
    BY <1>1, <2>2
<1> QED
  BY <1>3, <1>4, <1>5, <1>6, <1>7, <1>8, <1>9 DEF World

\* A step of the task for d: d is not settled before it returns, and waits when it
\* does; the other direction goes on waiting.
LEMMA StepAwake ==
  ASSUME TypeOK, Control, \A c \in Directions : Awake(c), NEW d \in Directions, at = d,
         UNCHANGED taskVars \/ Err \/ (Return(d) /\ Waits(d)'),
         side' = side, woken => woken', \A c \in Directions \ {d} : Waits(c) => Waits(c)'
  PROVE  \A c \in Directions : Awake(c)'
<1>1. at # "none" /\ reason = "none" /\ Upload' = Upload
  BY Two DEF Control, Upload
<1>2. CASE UNCHANGED taskVars
  BY <1>1, <1>2 DEF taskVars, Awake, Settled
<1>3. CASE Err
  BY <1>3 DEF Err, Awake
<1>4. CASE Return(d) /\ Waits(d)'
  <2>1. (d = Upload => at' \in Directions \ {d}) /\ (d # Upload => at' = "none")
    BY <1>4, ReturnFacts
  <2> SUFFICES ASSUME NEW c \in Directions PROVE Awake(c)'
    OBVIOUS
  <2>2. CASE c = d
    BY <1>4, <2>2 DEF Awake
  <2>3. CASE c # d /\ d = Upload
    <3>1. at' # "none" /\ c # Upload'
      BY <1>1, <2>1, <2>3, Two
    <3> QED
      BY <3>1 DEF Awake, Settled
  <2>4. CASE c # d /\ d # Upload
    <3>1. c = Upload
      BY <2>4, Two DEF Upload
    <3>2. woken \/ Waits(c)
      BY <1>1, <2>4, <3>1 DEF Awake, Settled
    <3> QED
      BY <2>4, <3>2 DEF Awake
  <2> QED
    BY <2>2, <2>3, <2>4
<1> QED
  BY <1>2, <1>3, <1>4

LEMMA TunnelSteps ==
  ASSUME TypeOK, EndOk, Control, \A c \in Directions : Awake(c),
         \/ ReadDatagram("toTunnel") \/ ReadEnd("toTunnel") \/ ReadPending("toTunnel")
         \/ WriteTunnel \/ WriteTunnelPending
         \/ ShutDown("toTunnel") \/ ReturnDone("toTunnel") \/ Fail("toTunnel")
  PROVE  \A c \in Directions : Awake(c)'
<1> DEFINE Kept ==
      /\ at = "toTunnel" /\ wakers \subseteq wakers' /\ copy'["toLocal"] = copy["toLocal"]
      /\ inbox'["tunnel"] = inbox["tunnel"] /\ UNCHANGED <<side, ended, addr_task, answer, writable, woken>>
      /\ UNCHANGED taskVars \/ Err \/ (Return("toTunnel") /\ WaitsTunnel')
<1>1. ASSUME Kept PROVE \A c \in Directions : Awake(c)'
  <2>1. WaitsLocal => WaitsLocal'
    BY <1>1, WaitsFrame
  <2>2. \A c \in Directions \ {"toTunnel"} : Waits(c) => Waits(c)'
    BY <2>1, Two DEF Waits
  <2>3. UNCHANGED taskVars \/ Err \/ (Return("toTunnel") /\ Waits("toTunnel")')
    BY <1>1 DEF Waits
  <2> QED
    BY <1>1, <2>2, <2>3, StepAwake, Two
<1>2. /\ copy \in [Directions -> TransferStates] /\ "toTunnel" \in Directions
      /\ "toLocal" \in Directions \ {"toTunnel"} /\ "local" \in Ends /\ "tunnel" \in Ends \ {"local"}
      /\ inbox \in [Ends -> Seq(Received)] /\ Source("toTunnel") = "local"
  BY Two DEF TypeOK, Ends, Source
<1>3. CASE ReadDatagram("toTunnel")
  <2>1. /\ inbox' = [inbox EXCEPT !["local"] = Tail(inbox["local"])]
        /\ copy'["toLocal"] = copy["toLocal"] /\ (UNCHANGED taskVars \/ Err)
    <3>1. /\ inbox' = [inbox EXCEPT ![Source("toTunnel")] = Tail(inbox[Source("toTunnel")])]
          /\ \A c \in Directions \ {"toTunnel"} : copy'[c] = copy[c]
          /\ UNCHANGED taskVars \/ Err
      <4> DEFINE x == Head(inbox[Source("toTunnel")])
      <4>1. x = Head(inbox[Source("toTunnel")])
        OBVIOUS
      <4> HIDE DEF x
      <4> QED
        BY <1>2, <1>3, <4>1, ReadFacts
    <3> QED
      BY <1>2, <3>1
  <2>2. inbox'["tunnel"] = inbox["tunnel"]
    BY <1>2, <2>1
  <2> QED
    BY <1>1, <1>3, <2>1, <2>2 DEF ReadDatagram, Reading
<1>4. CASE ReadEnd("toTunnel")
  <2>1. copy'["toLocal"] = copy["toLocal"]
    BY <1>2, <1>4, SetReadDone DEF ReadEnd, ReadDone
  <2> QED
    BY <1>1, <1>4, <2>1 DEF ReadEnd, Reading, netVars, localVars
<1>5. CASE ReadPending("toTunnel")
  <2>1. /\ at = "toTunnel" /\ copy["toTunnel"].buf = <<>> /\ ~copy["toTunnel"].read_done /\ inbox["local"] = <<>>
        /\ Return("toTunnel") /\ UNCHANGED <<side, inbox, ended, addr_task, answer, writable, woken>>
    BY <1>2, <1>5 DEF ReadPending, Reading, netVars, localVars
  <2>2. /\ copy'["toTunnel"].buf = copy["toTunnel"].buf /\ copy'["toTunnel"].read_done = copy["toTunnel"].read_done
        /\ copy'["toLocal"] = copy["toLocal"]
        /\ wakers \cup {<<"read", "local">>} \subseteq wakers'
        /\ held' # <<>> => <<"write", "tunnel">> \in wakers' /\ Room' = 0
    <3>1. CASE copy["toTunnel"].need_flush
      <4>1. /\ Push(held, FlushNow) /\ copy' = [copy EXCEPT !["toTunnel"].need_flush = ~Flushes]
            /\ (~Flushes) \in BOOLEAN
            /\ wakers' = wakers \cup {<<"read", "local">>} \cup (IF Flushes THEN {} ELSE {<<"write", "tunnel">>})
        BY <1>5, <3>1 DEF ReadPending
      <4>2. /\ copy'["toTunnel"].buf = copy["toTunnel"].buf
            /\ copy'["toTunnel"].read_done = copy["toTunnel"].read_done
            /\ copy'["toLocal"] = copy["toLocal"]
        BY <1>2, <4>1, SetNeedFlush
      <4>3. held' # <<>> => ~Flushes /\ Room' = 0
        BY <4>1, FlushFacts
      <4> QED
        BY <4>1, <4>2, <4>3
    <3>2. CASE ~copy["toTunnel"].need_flush
      <4>1. /\ copy' = [copy EXCEPT !["toTunnel"].need_flush = FALSE] /\ held' = held
            /\ wakers' = wakers \cup {<<"read", "local">>}
        BY <1>2, <1>5, <3>2 DEF ReadPending, tunnelVars
      <4>2. held = <<>>
        BY <3>2 DEF EndOk
      <4>3. /\ copy'["toTunnel"].buf = copy["toTunnel"].buf
            /\ copy'["toTunnel"].read_done = copy["toTunnel"].read_done
            /\ copy'["toLocal"] = copy["toLocal"]
        BY <1>2, <4>1, SetNeedFlush
      <4> QED
        BY <4>1, <4>2, <4>3
    <3> QED
      BY <3>1, <3>2
  <2>3. WaitsTunnel'
    BY <2>1, <2>2 DEF WaitsTunnel, AwaitsFlush
  <2> QED
    BY <1>1, <2>1, <2>2, <2>3
<1>6. CASE WriteTunnel
  <2>1. copy'["toLocal"] = copy["toLocal"]
    BY <1>2, <1>6, SetWritten DEF WriteTunnel
  <2> QED
    BY <1>1, <1>6, <2>1 DEF WriteTunnel, Writing, netVars, localVars
<1>7. CASE WriteTunnelPending
  <2>1. /\ at = "toTunnel" /\ copy["toTunnel"].buf # <<>> /\ Room + HoldCap - Len(held) = 0
        /\ wakers' = wakers \cup {<<"write", "tunnel">>} /\ Return("toTunnel")
        /\ UNCHANGED <<side, inbox, ended, copy, addr_task, answer, writable, held, wire, woken>>
    BY <1>7 DEF WriteTunnelPending, Writing, netVars, localVars, tunnelVars
  <2>2. WaitsTunnel'
    BY <2>1 DEF WaitsTunnel, Room
  <2> QED
    BY <1>1, <2>1, <2>2
<1>8. CASE ShutDown("toTunnel")
  <2>1. /\ at = "toTunnel" /\ Push(held, FlushNow) /\ copy["toTunnel"].read_done
        /\ UNCHANGED <<side, inbox, ended, addr_task, answer, writable, woken>>
    BY <1>8 DEF ShutDown, Closing, netVars, localVars
  <2>2. CASE Flushes
    <3>1. /\ copy' = [copy EXCEPT !["toTunnel"].state = IF @ = "Running" THEN "ShuttingDown" ELSE "Done"]
          /\ UNCHANGED <<taskVars, wakers>>
      BY <1>8, <2>2 DEF ShutDown
    <3>2. copy'["toLocal"] = copy["toLocal"]
      BY <1>2, <3>1, SetState
    <3> QED
      BY <1>1, <2>1, <3>1, <3>2
  <2>3. CASE ~Flushes
    <3>1. wakers' = wakers \cup {<<"write", "tunnel">>} /\ Return("toTunnel") /\ copy' = copy
      BY <1>8, <2>3 DEF ShutDown
    <3>2. held' # <<>> /\ Room' = 0
      BY <2>1, <2>3, FlushFacts
    <3>3. WaitsTunnel'
      BY <2>1, <3>1, <3>2 DEF WaitsTunnel, AwaitsFlush
    <3> QED
      BY <1>1, <2>1, <3>1, <3>3
  <2> QED
    BY <2>2, <2>3
<1>9. CASE ReturnDone("toTunnel")
  <2>1. WaitsTunnel'
    BY <1>9 DEF ReturnDone, WaitsTunnel
  <2> QED
    BY <1>1, <1>9, <2>1 DEF ReturnDone, netVars, localVars
<1>10. CASE Fail("toTunnel")
  BY <1>1, <1>10 DEF Fail, netVars, localVars
<1> QED
  BY <1>3, <1>4, <1>5, <1>6, <1>7, <1>8, <1>9, <1>10

LEMMA LocalSteps ==
  ASSUME TypeOK, Control, \A c \in Directions : Awake(c),
         \/ ReadDatagram("toLocal") \/ ReadEnd("toLocal") \/ ReadPending("toLocal")
         \/ WriteLocal
         \/ ShutDown("toLocal") \/ ReturnDone("toLocal") \/ Fail("toLocal")
  PROVE  \A c \in Directions : Awake(c)'
<1> DEFINE Kept ==
      /\ at = "toLocal" /\ wakers \subseteq wakers' /\ copy'["toTunnel"] = copy["toTunnel"]
      /\ inbox'["local"] = inbox["local"] /\ UNCHANGED <<side, held, wire>> /\ (woken => woken')
      /\ UNCHANGED taskVars \/ Err \/ (Return("toLocal") /\ WaitsLocal')
<1>1. ASSUME Kept PROVE \A c \in Directions : Awake(c)'
  <2>1. WaitsTunnel => WaitsTunnel'
    BY <1>1, WaitsFrame
  <2>2. \A c \in Directions \ {"toLocal"} : Waits(c) => Waits(c)'
    BY <2>1, Two DEF Waits
  <2>3. UNCHANGED taskVars \/ Err \/ (Return("toLocal") /\ Waits("toLocal")')
    BY <1>1 DEF Waits
  <2> QED
    BY <1>1, <2>2, <2>3, StepAwake, Two
<1>2. /\ copy \in [Directions -> TransferStates] /\ "toLocal" \in Directions
      /\ "toTunnel" \in Directions \ {"toLocal"} /\ "tunnel" \in Ends /\ "local" \in Ends \ {"tunnel"}
      /\ inbox \in [Ends -> Seq(Received)] /\ Source("toLocal") = "tunnel" /\ woken \in BOOLEAN
  BY Two DEF TypeOK, Ends, Source
<1>3. CASE ReadDatagram("toLocal")
  <2>1. /\ inbox' = [inbox EXCEPT !["tunnel"] = Tail(inbox["tunnel"])]
        /\ copy'["toTunnel"] = copy["toTunnel"] /\ (UNCHANGED taskVars \/ Err)
    <3>1. /\ inbox' = [inbox EXCEPT ![Source("toLocal")] = Tail(inbox[Source("toLocal")])]
          /\ \A c \in Directions \ {"toLocal"} : copy'[c] = copy[c]
          /\ UNCHANGED taskVars \/ Err
      <4> DEFINE x == Head(inbox[Source("toLocal")])
      <4>1. x = Head(inbox[Source("toLocal")])
        OBVIOUS
      <4> HIDE DEF x
      <4> QED
        BY <1>2, <1>3, <4>1, ReadFacts
    <3> QED
      BY <1>2, <3>1
  <2>2. inbox'["local"] = inbox["local"]
    BY <1>2, <2>1
  <2> QED
    BY <1>1, <1>3, <2>1, <2>2 DEF ReadDatagram, Reading, tunnelVars
<1>4. CASE ReadEnd("toLocal")
  <2>1. copy'["toTunnel"] = copy["toTunnel"]
    BY <1>2, <1>4, SetReadDone DEF ReadEnd, ReadDone
  <2> QED
    BY <1>1, <1>4, <2>1 DEF ReadEnd, Reading, netVars, tunnelVars
<1>5. CASE ReadPending("toLocal")
  <2>1. /\ at = "toLocal" /\ copy["toLocal"].buf = <<>> /\ ~copy["toLocal"].read_done /\ inbox["tunnel"] = <<>>
        /\ ~ended /\ copy' = [copy EXCEPT !["toLocal"].need_flush = FALSE]
        /\ wakers' = wakers \cup {<<"read", "tunnel">>}
        /\ Return("toLocal") /\ UNCHANGED <<side, inbox, ended, held, wire, woken>>
    BY <1>2, <1>5 DEF ReadPending, Reading, netVars, tunnelVars
  <2>2. /\ copy'["toLocal"].buf = copy["toLocal"].buf /\ copy'["toLocal"].read_done = copy["toLocal"].read_done
        /\ copy'["toTunnel"] = copy["toTunnel"]
    BY <1>2, <2>1, SetNeedFlush
  <2>3. WaitsLocal'
    BY <2>1, <2>2 DEF WaitsLocal
  <2> QED
    BY <1>1, <2>1, <2>2, <2>3
<1>6. CASE Socks5Write
  <2>1. /\ at = "toLocal" /\ copy["toLocal"].buf # <<>> /\ side = "client"
        /\ UNCHANGED <<side, inbox, held, wire, woken>>
        /\ \/ Written("toLocal") /\ UNCHANGED taskVars
           \/ Return("toLocal") /\ UNCHANGED copy
    BY <1>6 DEF Socks5Write, Writing, netVars, tunnelVars
  <2>2. wakers \subseteq wakers'
    BY <1>6 DEF Socks5Write, PollSendTo
  <2>3. CASE Written("toLocal") /\ UNCHANGED taskVars
    <3>1. copy'["toTunnel"] = copy["toTunnel"]
      BY <1>2, <2>3, SetWritten
    <3> QED
      BY <1>1, <2>1, <2>2, <2>3, <3>1
  <2>4. CASE Return("toLocal") /\ UNCHANGED copy
    <3>1. WaitsLocal'
      BY <2>1, <2>4 DEF WaitsLocal
    <3> QED
      BY <1>1, <2>1, <2>2, <2>4, <3>1
  <2> QED
    BY <2>1, <2>3, <2>4
<1>7. CASE Socks5WriteTooEarly \/ ResolveFailed
  BY <1>1, <1>7 DEF Socks5WriteTooEarly, ResolveFailed, Writing, netVars, tunnelVars
<1>8. CASE StartResolve
  BY <1>1, <1>8 DEF StartResolve, Writing, netVars, tunnelVars
<1>9. CASE AwaitResolve
  <2>1. /\ at = "toLocal" /\ copy["toLocal"].buf # <<>> /\ wakers' = wakers \cup {<<"resolver">>}
        /\ Return("toLocal") /\ answer \in Names /\ addr_task.state = "Pending"
        /\ addr_task' = [addr_task EXCEPT !.missed_wakeup = TRUE]
        /\ UNCHANGED <<side, inbox, copy, answer, held, wire, woken>>
    BY <1>9 DEF AwaitResolve, Writing, netVars, tunnelVars
  <2>2. addr_task'.state = "Pending"
    BY <2>1 DEF TypeOK, ResolveAddrs
  <2>3. WaitsLocal'
    BY <2>1, <2>2 DEF WaitsLocal
  <2> QED
    BY <1>1, <2>1, <2>3
<1>10. CASE Resolved
  BY <1>1, <1>2, <1>10 DEF Resolved, Writing, netVars, tunnelVars
<1>11. CASE SendTo
  <2>1. /\ at = "toLocal" /\ copy["toLocal"].buf # <<>> /\ addr_task.state = "Ready"
        /\ UNCHANGED <<side, inbox, held, wire, woken>>
    BY <1>11 DEF SendTo, Writing, netVars, tunnelVars
  <2>2. wakers \subseteq wakers'
    BY <1>11 DEF SendTo, PollSendTo
  <2>3. CASE writable
    <3>1. Written("toLocal") /\ UNCHANGED taskVars
      BY <1>11, <2>3 DEF SendTo
    <3>2. copy'["toTunnel"] = copy["toTunnel"]
      BY <1>2, <3>1, SetWritten
    <3> QED
      BY <1>1, <2>1, <2>2, <3>1, <3>2
  <2>4. CASE ~writable
    <3>1. /\ Return("toLocal") /\ UNCHANGED <<copy, addr_task, writable>>
          /\ <<"write", "local">> \in wakers'
      BY <1>11, <2>4 DEF SendTo, PollSendTo
    <3>2. WaitsLocal'
      BY <2>1, <2>4, <3>1 DEF WaitsLocal
    <3> QED
      BY <1>1, <2>1, <2>2, <3>1, <3>2
  <2> QED
    BY <2>3, <2>4
<1>12. CASE ShutDown("toLocal")
  <2>1. /\ at = "toLocal" /\ UNCHANGED <<side, inbox, held, wire, woken, wakers, taskVars>>
        /\ copy' = [copy EXCEPT !["toLocal"].state = IF @ = "Running" THEN "ShuttingDown" ELSE "Done"]
    BY <1>12 DEF ShutDown, Closing, netVars, tunnelVars
  <2>2. copy'["toTunnel"] = copy["toTunnel"]
    BY <1>2, <2>1, SetState
  <2> QED
    BY <1>1, <2>1, <2>2
<1>13. CASE ReturnDone("toLocal")
  <2>1. WaitsLocal'
    BY <1>13 DEF ReturnDone, WaitsLocal
  <2> QED
    BY <1>1, <1>13, <2>1 DEF ReturnDone, netVars, tunnelVars
<1>14. CASE Fail("toLocal")
  BY <1>1, <1>14 DEF Fail, netVars, tunnelVars
<1> QED
  BY <1>3, <1>4, <1>5, <1>6, <1>7, <1>8, <1>9, <1>10, <1>11, <1>12, <1>13, <1>14 DEF WriteLocal

LEMMA AwakeStep ==
  ASSUME TypeOK, EndOk, Control, \A d \in Directions : Awake(d), [Next]_vars
  PROVE  \A d \in Directions : Awake(d)'
<1>1. CASE World \/ Drain \/ ReceiveTunnel \/ Resolve
  BY <1>1, WorldAwake
<1>2. CASE Poll
  <2>1. at' = Upload /\ Upload' = Upload /\ at' # "none"
    BY <1>2, Two DEF Poll, Upload, netVars
  <2> QED
    BY <2>1 DEF Awake, Settled
<1>3. CASE WriteTunnel \/ WriteTunnelPending \/ Copy("toTunnel")
  BY <1>3, TunnelSteps DEF Copy
<1>4. CASE WriteLocal \/ Copy("toLocal")
  BY <1>4, LocalSteps DEF Copy
<1>5. CASE UNCHANGED vars
  BY <1>5 DEF vars, netVars, localVars, tunnelVars, taskVars, Awake, Settled, Upload, Waits, WaitsTunnel,
       WaitsLocal, AwaitsFlush, Room
<1> QED
  BY <1>1, <1>2, <1>3, <1>4, <1>5, Two DEF Next, Task

\* The first half of IInv is inductive by itself.
WakeInv == TypeOK /\ EndOk /\ Control /\ \A d \in Directions : Awake(d)

LEMMA WakeInvariance == Spec => []WakeInv
<1>1. Init => WakeInv
  <2> SUFFICES ASSUME Init PROVE WakeInv
    OBVIOUS
  <2>1. TypeOK
    BY TypeInit
  <2>2. EndOk
    BY DEF Init, EndOk, Running
  <2>3. Control /\ \A d \in Directions : Awake(d)
    BY DEF Init, Control, Awake
  <2> QED
    BY <2>1, <2>2, <2>3 DEF WakeInv
<1>2. WakeInv /\ [Next]_vars => WakeInv'
  <2> SUFFICES ASSUME WakeInv, [Next]_vars PROVE WakeInv'
    OBVIOUS
  <2>1. TypeOK /\ EndOk /\ Control /\ \A d \in Directions : Awake(d)
    BY DEF WakeInv
  <2>2. TypeOK' /\ EndOk' /\ Control'
    BY <2>1, TypeNext, EndStep, ControlStep
  <2>3. \A d \in Directions : Awake(d)'
    BY <2>1, AwakeStep
  <2> QED
    BY <2>2, <2>3 DEF WakeInv
<1> QED
  BY <1>1, <1>2, PTL DEF Spec

\* A parked task has missed nothing: whatever a poll could read, write, resolve or
\* flush, a waker for it has been left (UdpCopyBuf::poll_copy,
\* ServerUdpStream::poll_proxy_stream_write, TrojanUdpSendStream::poll_flush).
THEOREM UdpNoLostWakeupHolds == Spec => []NoLostWakeup
<1>1. WakeInv => NoLostWakeup
  <2> SUFFICES ASSUME WakeInv, Parked PROVE (\A d \in Directions : ~CanRead(d)) /\ ~CanWriteTunnel /\ ~CanWriteServer
    BY DEF NoLostWakeup
  <2>1. TypeOK /\ EndOk /\ at = "none" /\ ~woken /\ reason = "none"
    BY DEF WakeInv, Parked
  <2>2. WaitsTunnel /\ WaitsLocal
    <3>1. \A d \in Directions : Waits(d)
      BY <2>1 DEF WakeInv, Awake, Settled
    <3> QED
      BY <3>1, Two DEF Waits
  <2>3. ~CanRead("toTunnel")
    BY <2>1, <2>2, Two DEF CanRead, WaitsTunnel, Source, EndOk
  <2>4. ~CanRead("toLocal")
    BY <2>1, <2>2, Two DEF CanRead, WaitsLocal, Source, EndOk
  <2>5. ~CanWriteTunnel
    <3>1. CASE copy["toTunnel"].buf # <<>>
      <4>1. Room + HoldCap - Len(held) = 0
        BY <2>1, <2>2, <3>1, Two DEF WaitsTunnel, EndOk
      <4> DEFINE h == Len(held)
      <4>2. Room \in Nat /\ HoldCap \in Nat /\ h \in Nat /\ Room + HoldCap - h = 0
        BY <2>1, <4>1, LenFacts
      <4> HIDE DEF h
      <4>3. ~(Room + HoldCap > h)
        BY <4>2
      <4> QED
        BY <3>1, <4>3 DEF CanWriteTunnel, h
    <3>2. CASE copy["toTunnel"].buf = <<>>
      <4>1. held # <<>> => Room = 0
        BY <2>1, <2>2, <3>2, Two DEF WaitsTunnel, AwaitsFlush, EndOk
      <4> QED
        BY <3>2, <4>1 DEF CanWriteTunnel
    <3> QED
      BY <3>1, <3>2
  <2>6. ~CanWriteServer
    BY <2>1, <2>2, Two DEF CanWriteServer, WaitsLocal, EndOk
  <2> QED
    BY <2>3, <2>4, <2>5, <2>6, Two
<1> QED
  BY <1>1, WakeInvariance, PTL
-----------------------------------------------------------------------------
(***************************************************************************)
(* Parts of a stream, and the numbers of an inbox.                         *)
(***************************************************************************)
LEMMA LenConcat ==
  ASSUME NEW s \in Seq(Sent), NEW t \in Seq(Sent)
  PROVE  s \o t \in Seq(Sent) /\ Len(s \o t) = Len(s) + Len(t)
  OBVIOUS

LEMMA EmptyInbox ==
  ASSUME NEW q \in Seq(Received)
  PROVE  Len(q) \in Nat /\ (q = <<>> <=> Len(q) = 0)
  OBVIOUS

LEMMA PartGrow ==
  ASSUME NEW s \in Seq(Sent), NEW t \in Seq(Sent), NEW k \in Nat, Part(s, t, k), NEW x \in Sent
  PROVE  Part(s, Append(t, x), k)
  BY DEF Part

LEMMA PartAppend ==
  ASSUME NEW s \in Seq(Sent), NEW t \in Seq(Sent), NEW k \in Nat, Part(s, t, k),
         k + Len(s) + 1 <= Len(t), NEW x \in Sent, x = t[k + Len(s) + 1]
  PROVE  Part(Append(s, x), t, k)
  BY DEF Part

LEMMA PartTail ==
  ASSUME NEW s \in Seq(Sent), NEW t \in Seq(Sent), NEW k \in Nat, Part(s, t, k), s # <<>>
  PROVE  Head(s) = t[k + 1] /\ k + 1 <= Len(t) /\ Part(Tail(s), t, k + 1)
  BY DEF Part

LEMMA PartConcat ==
  ASSUME NEW s \in Seq(Sent), NEW u \in Seq(Sent), NEW t \in Seq(Sent), NEW k \in Nat,
         Part(s, t, k), Part(u, t, k + Len(s))
  PROVE  Part(s \o u, t, k)
  BY DEF Part

LEMMA PartCut ==
  ASSUME NEW s \in Seq(Sent), NEW t \in Seq(Sent), NEW k \in Nat, NEW n \in Nat, n <= Len(s), Part(s, t, k)
  PROVE  Part(SubSeq(s, 1, n), t, k) /\ Part(SubSeq(s, n + 1, Len(s)), t, k + n)
<1> DEFINE l == SubSeq(s, 1, n)  r == SubSeq(s, n + 1, Len(s))  m == Len(s)  e == Len(t)
<1>1. /\ Len(l) = n /\ Len(r) = m - n /\ m \in Nat /\ e \in Nat /\ n <= m
      /\ \A i \in 1..n : l[i] = s[i]
  OBVIOUS
<1>2. \A i \in 1..m - n : r[i] = s[n + i]
  OBVIOUS
<1>3. k + m <= e /\ \A i \in 1..m : s[i] = t[k + i]
  BY DEF Part
<1> HIDE DEF l, r, m, e
<1>4. k + n <= e /\ k + n + (m - n) <= e
  BY <1>1, <1>3
<1>5. \A i \in 1..n : l[i] = t[k + i]
  <2> SUFFICES ASSUME NEW i \in 1..n PROVE l[i] = t[k + i]
    OBVIOUS
  <2>1. i \in 1..m
    BY <1>1
  <2> QED
    BY <1>1, <1>3, <2>1
<1>6. \A i \in 1..m - n : r[i] = t[k + n + i]
  <2> SUFFICES ASSUME NEW i \in 1..m - n PROVE r[i] = t[k + n + i]
    OBVIOUS
  <2>1. n + i \in 1..m /\ k + (n + i) = k + n + i
    BY <1>1
  <2> QED
    BY <1>2, <1>3, <2>1
<1> QED
  BY <1>1, <1>4, <1>5, <1>6 DEF Part, l, r, e

LEMMA PartEmpty ==
  ASSUME NEW t \in Seq(Sent), NEW k \in Nat, k <= Len(t)
  PROVE  Part(<<>>, t, k)
  BY DEF Part

LEMMA PartOne ==
  ASSUME NEW t \in Seq(Sent), NEW k \in Nat, k + 1 <= Len(t), NEW x \in Sent, x = t[k + 1]
  PROVE  Part(<<x>>, t, k)
  BY DEF Part

\* A piece of the second part is moved to the end of the first.
LEMMA PartMove ==
  ASSUME NEW s \in Seq(Sent), NEW u \in Seq(Sent), NEW t \in Seq(Sent), NEW k \in Nat, NEW n \in Nat,
         n <= Len(u), Part(s, t, k), Part(u, t, k + Len(s))
  PROVE  /\ Part(s \o SubSeq(u, 1, n), t, k)
         /\ Part(SubSeq(u, n + 1, Len(u)), t, k + Len(s \o SubSeq(u, 1, n)))
<1> DEFINE l == SubSeq(u, 1, n)  r == SubSeq(u, n + 1, Len(u))
<1>1. l \in Seq(Sent) /\ Len(l) = n /\ r \in Seq(Sent) /\ Len(s) \in Nat /\ k + Len(s) \in Nat
  OBVIOUS
<1>2. Part(l, t, k + Len(s)) /\ Part(r, t, k + Len(s) + n)
  BY <1>1, PartCut
<1> HIDE DEF l, r
<1>3. Len(s \o l) = Len(s) + n
  <2>1. Len(s \o l) = Len(s) + Len(l)
    BY <1>1, LenConcat
  <2> QED
    BY <1>1, <2>1
<1>4. k + Len(s) + n = k + Len(s \o l)
  BY <1>1, <1>3
<1>5. Part(s \o l, t, k)
  BY <1>1, <1>2, PartConcat
<1> QED
  BY <1>2, <1>4, <1>5 DEF l, r

LEMMA AfterType ==
  ASSUME NEW x \in Received
  PROVE  After(x) \in Nat /\ x.id \in Nat
  BY DEF After, Received

LEMMA ChainAppend ==
  ASSUME NEW q \in Seq(Received), NEW a \in Nat, NEW b \in Nat, Chain(q, a, b),
         NEW x \in Received, x.id = b
  PROVE  Chain(Append(q, x), a, After(x))
<1> DEFINE p == Append(q, x)
<1>1. /\ p \in Seq(Received) /\ p # <<>> /\ Len(p) = Len(q) + 1 /\ Len(q) \in Nat /\ p[Len(q) + 1] = x
      /\ \A i \in 1..Len(q) : p[i] = q[i]
      /\ q = <<>> <=> Len(q) = 0
  OBVIOUS
<1> DEFINE n == Len(q)
<1>2. p[1].id = a
  BY <1>1 DEF Chain
<1>3. ASSUME NEW i \in 1..n PROVE p[i + 1].id = After(p[i])
  <2>1. CASE i = n
    BY <1>1, <1>3, <2>1 DEF Chain
  <2>2. CASE i # n
    <3>1. i \in 1..n - 1 /\ i + 1 \in 1..n
      BY <1>1, <1>3, <2>2
    <3>2. q[i + 1].id = After(q[i])
      BY <3>1 DEF Chain
    <3> QED
      BY <1>1, <3>1, <3>2
  <2> QED
    BY <2>1, <2>2
<1> HIDE DEF p
<1>4. Len(p) - 1 = n /\ p[Len(p)] = x
  BY <1>1
<1> HIDE DEF n
<1>5. \A i \in 1..Len(p) - 1 : p[i + 1].id = After(p[i])
  BY <1>3, <1>4
<1>6. Chain(p, a, After(x))
  BY <1>1, <1>2, <1>4, <1>5 DEF Chain
<1> QED
  BY <1>6 DEF p

LEMMA ChainTail ==
  ASSUME NEW q \in Seq(Received), NEW a \in Nat, NEW b \in Nat, Chain(q, a, b), q # <<>>
  PROVE  Head(q).id = a /\ Chain(Tail(q), After(Head(q)), b)
<1> DEFINE p == Tail(q)
<1>1. /\ p \in Seq(Received) /\ Len(p) = Len(q) - 1 /\ Len(q) \in Nat \ {0} /\ q[1] = Head(q)
      /\ \A i \in 1..Len(p) : p[i] = q[i + 1]
      /\ p = <<>> <=> Len(p) = 0
  <2>1. p \in Seq(Received) /\ Len(p) = Len(q) - 1 /\ Len(q) \in Nat \ {0} /\ q[1] = Head(q)
    OBVIOUS
  <2>2. \A i \in 1..Len(p) : p[i] = q[i + 1]
    OBVIOUS
  <2>3. p = <<>> <=> Len(p) = 0
    <3> HIDE DEF p
    <3> QED
      BY <2>1, EmptyInbox
  <2> QED
    BY <2>1, <2>2, <2>3
<1> DEFINE n == Len(p)  m == Len(q)
<1>2. n \in Nat /\ m = n + 1
  BY <1>1
<1>3. Head(q).id = a /\ After(q[m]) = b
  BY <1>1 DEF Chain
<1>4. \A i \in 1..m - 1 : q[i + 1].id = After(q[i])
  BY DEF Chain
<1>5. \A i \in 1..n : p[i] = q[i + 1]
  BY <1>1
<1>6. (p = <<>> <=> n = 0) /\ q[1] = Head(q)
  BY <1>1
<1> HIDE DEF p, n, m
<1>7. n = 0 => After(Head(q)) = b
  BY <1>2, <1>3, <1>6
<1>8. n # 0 => p[1].id = After(Head(q)) /\ After(p[n]) = b
  <2> SUFFICES ASSUME n # 0 PROVE p[1].id = After(Head(q)) /\ After(p[n]) = b
    OBVIOUS
  <2>1. 1 \in 1..n /\ n \in 1..n /\ 1 \in 1..m - 1
    BY <1>2
  <2>2. p[1] = q[2] /\ p[n] = q[m]
    BY <1>2, <1>5, <2>1
  <2>3. q[2].id = After(q[1])
    BY <1>4, <2>1
  <2> QED
    BY <1>3, <1>6, <2>2, <2>3
<1>9. \A i \in 1..n - 1 : p[i + 1].id = After(p[i])
  <2> SUFFICES ASSUME NEW i \in 1..n - 1 PROVE p[i + 1].id = After(p[i])
    OBVIOUS
  <2>1. i \in 1..n /\ i + 1 \in 1..n /\ i + 1 \in 1..m - 1
    BY <1>2
  <2>2. p[i] = q[i + 1] /\ p[i + 1] = q[i + 1 + 1]
    BY <1>5, <2>1
  <2>3. q[i + 1 + 1].id = After(q[i + 1])
    BY <1>4, <2>1
  <2> QED
    BY <2>2, <2>3
<1>10. Chain(p, After(Head(q)), b)
  BY <1>6, <1>7, <1>8, <1>9 DEF Chain, n
<1> QED
  BY <1>3, <1>10 DEF p
-----------------------------------------------------------------------------
(***************************************************************************)
(* What can be read stays in order: InboxOk.                               *)
(***************************************************************************)
LEMMA TakenType ==
  ASSUME TypeOK, NEW d \in Directions
  PROVE  /\ Taken(d) \in Nat /\ Len(due[d]) \in Nat /\ due[d] \in Seq(Sent) /\ got[d] \in Seq(Sent)
         /\ inbox[Source(d)] \in Seq(Received) /\ copy[d].buf \in Slot /\ Len(copy[d].buf) \in Nat
         /\ Len(got[d]) \in Nat /\ Len(buffer) \in Nat /\ copy[d].buf \in Seq(Sent)
<1>1. /\ due[d] \in Seq(Sent) /\ got[d] \in Seq(Sent) /\ got["toTunnel"] \in Seq(Sent)
      /\ inbox[Source(d)] \in Seq(Received)
      /\ copy[d].buf \in Slot /\ buffer \in Slot /\ held \in Seq(Sent) /\ wire \in Seq(Sent)
  BY SourceType, CopyFields, Two DEF TypeOK
<1>2. Len(copy[d].buf) \in Nat /\ Len(buffer) \in Nat /\ copy[d].buf \in Seq(Sent)
  BY <1>1, SlotFacts
<1>3. Len(got[d]) \in Nat /\ Len(got["toTunnel"]) \in Nat /\ Len(wire) \in Nat /\ Len(held) \in Nat /\ Len(due[d]) \in Nat
  BY <1>1
<1>4. Taken(d) \in Nat
  <2> DEFINE b == Len(copy[d].buf)  g == Len(got[d])  t == Len(got["toTunnel"])  w == Len(wire)  h == Len(held)
             f == Len(buffer)
  <2>1. b \in Nat /\ g \in Nat /\ t \in Nat /\ w \in Nat /\ h \in Nat /\ f \in Nat
    BY <1>2, <1>3
  <2>2. Taken(d) = IF d = "toTunnel" THEN t + w + h + b ELSE g + f + b
    BY DEF Taken, Passed
  <2> HIDE DEF b, g, t, w, h, f
  <2> QED
    BY <2>1, <2>2
<1> QED
  BY <1>1, <1>2, <1>3, <1>4

\* An inbox after a step.
LEMMA InboxAfter ==
  ASSUME NEW d \in Directions, side' = side, NEW q, q = inbox'[Source(d)], NEW t, t = due'[d],
         Listed(d, q, t),
         reason' = "none" /\ ~copy'[d].read_done => Chain(q, Taken(d)' + 1, Len(t) + 1)
  PROVE  InboxOk(d)'
<1>1. Listed(d, inbox[Source(d)], due[d])'
  BY DEF Listed, Routed, Target
<1>2. reason' = "none" /\ ~copy'[d].read_done => Chain(inbox'[Source(d)], Taken(d)' + 1, Len(due'[d]) + 1)
  OBVIOUS
<1> QED
  BY <1>1, <1>2 DEF InboxOk

LEMMA InboxFrame ==
  ASSUME NEW d \in Directions, InboxOk(d), inbox'[Source(d)] = inbox[Source(d)], due'[d] = due[d], side' = side,
         Taken(d)' = Taken(d), reason' = "none" => reason = "none",
         copy[d].read_done => copy'[d].read_done
  PROVE  InboxOk(d)'
<1>1. /\ Listed(d, inbox[Source(d)], due[d])
      /\ reason = "none" /\ ~copy[d].read_done => Chain(inbox[Source(d)], Taken(d) + 1, Len(due[d]) + 1)
  BY DEF InboxOk
<1> DEFINE q == inbox[Source(d)]  t == due[d]
<1>2. /\ q = inbox'[Source(d)] /\ t = due'[d] /\ Listed(d, q, t)
      /\ reason' = "none" /\ ~copy'[d].read_done => Chain(q, Taken(d)' + 1, Len(t) + 1)
  BY <1>1
<1> HIDE DEF q, t
<1> QED
  BY <1>2, InboxAfter

\* The next datagram is the one that is due next.
LEMMA InboxHead ==
  ASSUME TypeOK, NEW d \in Directions, InboxOk(d), reason = "none", ~copy[d].read_done,
         inbox[Source(d)] # <<>>, NEW x, x = Head(inbox[Source(d)])
  PROVE  /\ x.id = Taken(d) + 1 /\ x \in Received
         /\ x.kind = "ok" => Taken(d) + 1 <= Len(due[d]) /\ due[d][Taken(d) + 1] = Routed(d, x)
         /\ Chain(Tail(inbox[Source(d)]), After(x), Len(due[d]) + 1)
<1> DEFINE q == inbox[Source(d)]  k == Taken(d)  n == Len(due[d])
<1>1. q \in Seq(Received) /\ k \in Nat /\ n \in Nat /\ q # <<>>
  BY TakenType
<1>2. Chain(q, k + 1, n + 1)
  BY DEF InboxOk
<1>3. q[1] = x /\ x \in Received /\ 1 \in 1..Len(q) /\ x = Head(q)
  BY <1>1
<1>4. q[1].kind = "ok" => q[1].id \in 1..n /\ due[d][q[1].id] = Routed(d, q[1])
  BY <1>3 DEF InboxOk, Listed
<1> HIDE DEF q, k, n
<1>5. k + 1 \in Nat /\ n + 1 \in Nat
  BY <1>1
<1>6. Head(q).id = k + 1 /\ Chain(Tail(q), After(Head(q)), n + 1)
  BY <1>1, <1>2, <1>5, ChainTail
<1>7. x.kind = "ok" => k + 1 <= n /\ due[d][k + 1] = Routed(d, x)
  BY <1>1, <1>3, <1>4, <1>6
<1> QED
  BY <1>3, <1>6, <1>7 DEF q, k, n

LEMMA InboxTake ==
  ASSUME TypeOK, NEW d \in Directions, InboxOk(d), reason = "none", ~copy[d].read_done,
         inbox[Source(d)] # <<>>, inbox'[Source(d)] = Tail(inbox[Source(d)]), due'[d] = due[d], side' = side,
         \/ copy'[d].read_done \/ reason' # "none"
         \/ Taken(d)' + 1 = After(Head(inbox[Source(d)]))
  PROVE  InboxOk(d)'
<1> DEFINE q == inbox[Source(d)]  p == Tail(q)  t == due[d]
<1>1. q \in Seq(Received) /\ q # <<>>
  BY TakenType
<1>2. Chain(p, After(Head(q)), Len(t) + 1)
  BY InboxHead
<1>3. \A i \in 1..Len(p) : p[i] = q[i + 1] /\ i + 1 \in 1..Len(q)
  BY <1>1
<1>4. \A j \in 1..Len(q) : q[j].kind = "ok" => q[j].id \in 1..Len(t) /\ t[q[j].id] = Routed(d, q[j])
  BY DEF InboxOk, Listed
<1>5. /\ p = inbox'[Source(d)] /\ t = due'[d]
      /\ copy'[d].read_done \/ reason' # "none" \/ Taken(d)' + 1 = After(Head(q))
  OBVIOUS
<1> HIDE DEF p, q, t
<1>6. Listed(d, p, t)
  BY <1>3, <1>4 DEF Listed
<1> QED
  BY <1>2, <1>5, <1>6, InboxAfter

LEMMA InboxArrive ==
  ASSUME TypeOK, NEW d \in Directions, InboxOk(d), NEW x \in Inputs[side][Source(d)], Arrive(d, x)
  PROVE  /\ InboxOk(d)' /\ side' = side
         /\ \/ due' = due
            \/ \E z \in Sent : due' = [due EXCEPT ![d] = Append(due[d], z)]
<1> DEFINE e == Source(d)  q == inbox[e]  t == due[d]  n == Len(t) + 1  k == Taken(d)
           y == [id |-> n, kind |-> x.kind, from |-> x.from, addr |-> x.addr]
           z == [id |-> n, addr |-> Target(d, x.addr)]
<1>1. q \in Seq(Received) /\ k \in Nat /\ Len(t) \in Nat /\ t \in Seq(Sent) /\ e \in Ends /\ side \in Sides
  BY TakenType, SourceType DEF TypeOK
<1>2. x \in [kind : Kinds, from : Senders, addr : Addrs]
  BY <1>1, InputAssumption
<1>3. n \in Nat
  BY <1>1
<1>4. y \in Received /\ z \in Sent /\ y.id = n /\ y.kind = x.kind
  BY <1>2, <1>3, TargetType DEF Received, Sent
<1>5. /\ inbox'[e] = Append(q, y) /\ reason' = reason /\ reason = "none" /\ side' = side
      /\ Taken(d)' = k /\ copy'[d] = copy[d]
  BY <1>1 DEF Arrive, taskVars, Taken, Passed, tunnelVars, localVars, TypeOK
<1>6. due' = IF y.kind = "ok" THEN [due EXCEPT ![d] = Append(t, z)] ELSE due
  BY DEF Arrive
<1>7. Routed(d, y) = z
  BY DEF Routed
<1>8. \A j \in 1..Len(q) : q[j].kind = "ok" => q[j].id \in 1..Len(t) /\ t[q[j].id] = Routed(d, q[j])
  BY DEF InboxOk, Listed
<1>9. ~copy[d].read_done => Chain(q, k + 1, n)
  BY <1>5 DEF InboxOk
<1>10. Len(t) + 1 = n /\ due \in [Directions -> Seq(Sent)]
  BY DEF TypeOK
<1> HIDE DEF y, z, n, k, q, t, e
<1> DEFINE p == Append(q, y)
<1>11. /\ p \in Seq(Received) /\ Len(p) = Len(q) + 1 /\ Len(q) \in Nat
       /\ p[Len(q) + 1] = y /\ \A j \in 1..Len(q) : p[j] = q[j]
  BY <1>1, <1>4
<1>12. /\ k + 1 \in Nat
       /\ ~copy[d].read_done => Chain(p, k + 1, After(y))
  BY <1>1, <1>3, <1>4, <1>9, ChainAppend
<1>13. p = inbox'[e]
  BY <1>5
<1> HIDE DEF p
<1>14. \A i \in 1..Len(p) : i \in 1..Len(q) \/ i = Len(q) + 1
  BY <1>11
<1>15. CASE y.kind = "ok"
  <2> DEFINE u == Append(t, z)
  <2>1. u = due'[d] /\ due' = [due EXCEPT ![d] = u]
    BY <1>6, <1>10, <1>15
  <2>2. Len(u) = n /\ u[n] = z /\ \A j \in 1..Len(t) : u[j] = t[j] /\ j \in 1..n
    BY <1>1, <1>3, <1>4, <1>10
  <2>3. After(y) = n + 1 /\ n \in 1..n
    BY <1>1, <1>3, <1>4, <1>10, <1>15 DEF After
  <2> HIDE DEF u
  <2>4. Listed(d, p, u)
    <3> SUFFICES ASSUME NEW i \in 1..Len(p), p[i].kind = "ok"
                 PROVE  p[i].id \in 1..Len(u) /\ u[p[i].id] = Routed(d, p[i])
      BY DEF Listed
    <3>1. CASE i \in 1..Len(q)
      BY <1>8, <1>11, <2>2, <3>1
    <3>2. CASE i = Len(q) + 1
      BY <1>4, <1>7, <1>11, <2>2, <2>3, <3>2
    <3> QED
      BY <1>14, <3>1, <3>2
  <2>5. InboxOk(d)'
    BY <1>5, <1>12, <1>13, <2>1, <2>2, <2>3, <2>4, InboxAfter DEF e
  <2> QED
    BY <1>4, <1>5, <2>1, <2>5 DEF t, u
<1>16. CASE y.kind # "ok"
  <2>1. due' = due /\ t = due'[d] /\ After(y) = Len(t) + 1
    BY <1>4, <1>6, <1>10, <1>16 DEF t, After
  <2>2. Listed(d, p, t)
    <3> SUFFICES ASSUME NEW i \in 1..Len(p), p[i].kind = "ok"
                 PROVE  p[i].id \in 1..Len(t) /\ t[p[i].id] = Routed(d, p[i])
      BY DEF Listed
    <3>1. CASE i \in 1..Len(q)
      BY <1>8, <1>11, <3>1
    <3>2. CASE i = Len(q) + 1
      BY <1>11, <1>16, <3>2
    <3> QED
      BY <1>14, <3>1, <3>2
  <2>3. InboxOk(d)'
    BY <1>5, <1>12, <1>13, <2>1, <2>2, InboxAfter DEF e
  <2> QED
    BY <1>5, <2>1, <2>3
<1> QED
  BY <1>15, <1>16
-----------------------------------------------------------------------------
(***************************************************************************)
(* From the local socket to the tunnel: TunnelStream.                      *)
(***************************************************************************)
TunnelOk == TunnelStream /\ InboxOk("toTunnel")

\* The places of a stream after a step.
LEMMA TunnelAfter ==
  ASSUME NEW g, g = got'["toTunnel"], NEW w, w = wire', NEW h, h = held', NEW b, b = copy'["toTunnel"].buf,
         NEW t, t = due'["toTunnel"], Part(g, t, 0), Part(w, t, Len(g)), Part(h, t, Len(g) + Len(w)),
         Part(b, t, Len(g) + Len(w) + Len(h))
  PROVE  TunnelStream'
  BY DEF TunnelStream, Passed

LEMMA TunnelTypes ==
  ASSUME TypeOK
  PROVE  /\ got["toTunnel"] \in Seq(Sent) /\ wire \in Seq(Sent) /\ held \in Seq(Sent)
         /\ copy["toTunnel"].buf \in Seq(Sent) /\ due["toTunnel"] \in Seq(Sent)
         /\ Len(got["toTunnel"]) \in Nat /\ Len(wire) \in Nat /\ Len(held) \in Nat
         /\ Len(copy["toTunnel"].buf) \in Nat /\ Len(due["toTunnel"]) \in Nat
  BY TakenType, LenFacts, Two

\* Nothing that belongs to the direction has moved.
LEMMA TunnelFrame ==
  ASSUME TunnelOk, UNCHANGED <<side, held, wire>>, got'["toTunnel"] = got["toTunnel"],
         due'["toTunnel"] = due["toTunnel"], inbox'["local"] = inbox["local"],
         copy'["toTunnel"].buf = copy["toTunnel"].buf,
         copy["toTunnel"].read_done => copy'["toTunnel"].read_done, reason' = "none" => reason = "none"
  PROVE  TunnelOk'
<1>1. TunnelStream' /\ Taken("toTunnel")' = Taken("toTunnel")
  BY DEF TunnelOk, TunnelStream, Passed, Taken
<1>2. Source("toTunnel") = "local"
  BY DEF Source
<1>3. InboxOk("toTunnel")'
  BY <1>1, <1>2, InboxFrame, Two DEF TunnelOk
<1> QED
  BY <1>1, <1>3 DEF TunnelOk

LEMMA TunnelArrive ==
  ASSUME TypeOK, TunnelOk, NEW x \in Inputs[side]["local"], Arrive("toTunnel", x)
  PROVE  TunnelOk'
<1>1. /\ InboxOk("toTunnel")'
      /\ due' = due \/ \E z \in Sent : due' = [due EXCEPT !["toTunnel"] = Append(due["toTunnel"], z)]
  BY InboxArrive, Two DEF Source, TunnelOk
<1>2. /\ got' = got /\ wire' = wire /\ held' = held /\ copy' = copy /\ due \in [Directions -> Seq(Sent)]
      /\ due["toTunnel"] \in Seq(Sent)
  BY TunnelTypes DEF Arrive, tunnelVars, TypeOK
<1> DEFINE g == got["toTunnel"]  w == wire  h == held  b == copy["toTunnel"].buf  t == due["toTunnel"]
           u == due'["toTunnel"]
<1>3. u = t \/ \E z \in Sent : u = Append(t, z)
  BY <1>1, <1>2, Two
<1>4. /\ g \in Seq(Sent) /\ w \in Seq(Sent) /\ h \in Seq(Sent) /\ b \in Seq(Sent) /\ t \in Seq(Sent)
      /\ Len(g) \in Nat /\ Len(w) \in Nat /\ Len(h) \in Nat
  BY TunnelTypes
<1>5. /\ Part(g, t, 0) /\ Part(w, t, Len(g)) /\ Part(h, t, Len(g) + Len(w))
      /\ Part(b, t, Len(g) + Len(w) + Len(h))
  BY DEF TunnelOk, TunnelStream, Passed
<1>6. g = got'["toTunnel"] /\ w = wire' /\ h = held' /\ b = copy'["toTunnel"].buf /\ u = due'["toTunnel"]
  BY <1>2
<1> HIDE DEF g, w, h, b, t, u
<1>7. 0 \in Nat /\ Len(g) + Len(w) \in Nat /\ Len(g) + Len(w) + Len(h) \in Nat
  BY <1>4
<1>8. /\ Part(g, u, 0) /\ Part(w, u, Len(g)) /\ Part(h, u, Len(g) + Len(w))
      /\ Part(b, u, Len(g) + Len(w) + Len(h))
  BY <1>3, <1>4, <1>5, <1>7, PartGrow
<1>9. TunnelStream'
  BY <1>6, <1>8, TunnelAfter
<1> QED
  BY <1>1, <1>9 DEF TunnelOk

LEMMA TunnelReceive ==
  ASSUME TypeOK, TunnelOk, ReceiveTunnel
  PROVE  TunnelOk'
<1> DEFINE g == got["toTunnel"]  w == wire  h == held  b == copy["toTunnel"].buf  t == due["toTunnel"]
           x == Head(w)  v == Append(g, x)  y == Tail(w)
<1>1. /\ g \in Seq(Sent) /\ w \in Seq(Sent) /\ h \in Seq(Sent) /\ b \in Seq(Sent) /\ t \in Seq(Sent)
      /\ Len(g) \in Nat /\ Len(w) \in Nat /\ Len(h) \in Nat /\ Len(b) \in Nat
  BY TunnelTypes
<1>2. /\ Part(g, t, 0) /\ Part(w, t, Len(g)) /\ Part(h, t, Len(g) + Len(w))
      /\ Part(b, t, Len(g) + Len(w) + Len(h))
  BY DEF TunnelOk, TunnelStream, Passed
<1>3. /\ got'["toTunnel"] = v /\ wire' = y /\ w # <<>> /\ UNCHANGED <<side, due, inbox, copy, held, reason>>
  BY Two DEF ReceiveTunnel, netVars, taskVars, TypeOK
<1>4. /\ x \in Sent /\ v \in Seq(Sent) /\ y \in Seq(Sent) /\ Len(v) = Len(g) + 1 /\ Len(y) = Len(w) - 1
  BY <1>1, <1>3
<1>5. x = t[Len(g) + 1] /\ Len(g) + 1 <= Len(t) /\ Part(y, t, Len(g) + 1)
  BY <1>1, <1>2, <1>3, PartTail
<1>6. 0 + Len(g) + 1 = Len(g) + 1
  BY <1>1
<1>7. Part(v, t, 0)
  BY <1>1, <1>2, <1>4, <1>5, <1>6, PartAppend
<1>8. Len(v) + Len(y) = Len(g) + Len(w)
  <2> DEFINE k == Len(g)  m == Len(w)
  <2>1. Len(v) = k + 1 /\ Len(y) = m - 1 /\ k \in Nat /\ m \in Nat
    BY <1>1, <1>4
  <2> HIDE DEF k, m
  <2>2. k + 1 + (m - 1) = k + m
    BY <2>1
  <2> QED
    BY <2>1, <2>2 DEF k, m
<1>9. Part(y, t, Len(v)) /\ Part(h, t, Len(v) + Len(y)) /\ Part(b, t, Len(v) + Len(y) + Len(h))
  BY <1>2, <1>4, <1>5, <1>8
<1>10. v = got'["toTunnel"] /\ y = wire' /\ h = held' /\ b = copy'["toTunnel"].buf /\ t = due'["toTunnel"]
  BY <1>3
<1>11. Taken("toTunnel") = Len(g) + Len(w) + Len(h) + Len(b)
  BY DEF Taken, Passed
<1>12. Taken("toTunnel")' = Len(v) + Len(y) + Len(h) + Len(b)
  BY <1>10 DEF Taken, Passed
<1>13. Taken("toTunnel")' = Taken("toTunnel")
  BY <1>8, <1>11, <1>12
<1> HIDE DEF g, w, h, b, t, x, v, y
<1>14. TunnelStream'
  BY <1>7, <1>9, <1>10, TunnelAfter
<1>15. InboxOk("toTunnel")'
  BY <1>3, <1>13, InboxFrame, Two DEF TunnelOk
<1> QED
  BY <1>14, <1>15 DEF TunnelOk

\* What is pushed goes from the front of the session to the end of the wire.
Pushed(w, u, n, y, v) == y = w \o SubSeq(u, 1, n) /\ v = SubSeq(u, n + 1, Len(u))

LEMMA PushParts ==
  ASSUME NEW g \in Seq(Sent), NEW w \in Seq(Sent), NEW u \in Seq(Sent), NEW r \in Seq(Sent), NEW t \in Seq(Sent),
         Part(w, t, Len(g)), Part(u, t, Len(g) + Len(w)), Part(r, t, Len(g) + Len(w) + Len(u)),
         NEW n \in Nat, n <= Len(u), NEW y, NEW v, Pushed(w, u, n, y, v)
  PROVE  /\ Part(y, t, Len(g)) /\ Part(v, t, Len(g) + Len(y)) /\ Part(r, t, Len(g) + Len(y) + Len(v))
         /\ Len(g) + Len(y) + Len(v) = Len(g) + Len(w) + Len(u)
<1>1. y = w \o SubSeq(u, 1, n) /\ v = SubSeq(u, n + 1, Len(u))
  BY DEF Pushed
<1>2. /\ Len(g) \in Nat /\ Len(w) \in Nat /\ Len(u) \in Nat
      /\ SubSeq(u, 1, n) \in Seq(Sent) /\ Len(SubSeq(u, 1, n)) = n
      /\ Len(v) = Len(u) - n
  BY <1>1
<1>3. Len(y) = Len(w) + n
  <2> DEFINE z == SubSeq(u, 1, n)
  <2>1. z \in Seq(Sent) /\ Len(z) = n /\ y = w \o z
    BY <1>1, <1>2
  <2> HIDE DEF z
  <2>2. Len(w \o z) = Len(w) + Len(z)
    BY <2>1, LenConcat
  <2> QED
    BY <2>1, <2>2
<1>4. Part(y, t, Len(g)) /\ Part(v, t, Len(g) + Len(y))
  BY <1>1, <1>2, PartMove
<1>5. Len(g) + Len(y) + Len(v) = Len(g) + Len(w) + Len(u)
  <2> DEFINE a == Len(g)  b == Len(w)  c == Len(u)
  <2>1. a \in Nat /\ b \in Nat /\ c \in Nat /\ Len(y) = b + n /\ Len(v) = c - n
    BY <1>2, <1>3
  <2> HIDE DEF a, b, c
  <2>2. a + (b + n) + (c - n) = a + b + c
    BY <2>1
  <2> QED
    BY <2>1, <2>2 DEF a, b, c
<1> QED
  BY <1>4, <1>5

LEMMA TunnelFlush ==
  ASSUME TypeOK, TunnelOk, Push(held, FlushNow), copy'["toTunnel"].buf = copy["toTunnel"].buf,
         copy["toTunnel"].read_done => copy'["toTunnel"].read_done,
         UNCHANGED <<side, inbox, due, got>>, reason' = "none" => reason = "none"
  PROVE  TunnelOk'
<1> DEFINE g == got["toTunnel"]  w == wire  h == held  b == copy["toTunnel"].buf  t == due["toTunnel"]
           n == FlushNow  y == w \o SubSeq(h, 1, n)  v == SubSeq(h, n + 1, Len(h))
<1>1. g \in Seq(Sent) /\ w \in Seq(Sent) /\ h \in Seq(Sent) /\ b \in Seq(Sent) /\ t \in Seq(Sent)
  BY TunnelTypes
<1>2. /\ Part(g, t, 0) /\ Part(w, t, Len(g)) /\ Part(h, t, Len(g) + Len(w))
      /\ Part(b, t, Len(g) + Len(w) + Len(h))
  BY DEF TunnelOk, TunnelStream, Passed
<1>3. n \in Nat /\ n <= Len(h)
  BY FlushFacts
<1>4. g = got'["toTunnel"] /\ y = wire' /\ v = held' /\ b = copy'["toTunnel"].buf /\ t = due'["toTunnel"]
  BY DEF Push
<1>5. Taken("toTunnel") = Len(g) + Len(w) + Len(h) + Len(b)
  BY DEF Taken, Passed
<1>6. Taken("toTunnel")' = Len(g) + Len(y) + Len(v) + Len(b)
  BY <1>4 DEF Taken, Passed
<1>7. Pushed(w, h, n, y, v)
  BY DEF Pushed
<1> HIDE DEF g, w, h, b, t, n, y, v
<1>8. /\ Part(y, t, Len(g)) /\ Part(v, t, Len(g) + Len(y)) /\ Part(b, t, Len(g) + Len(y) + Len(v))
      /\ Len(g) + Len(y) + Len(v) = Len(g) + Len(w) + Len(h)
  BY <1>1, <1>2, <1>3, <1>7, PushParts
<1>9. TunnelStream'
  BY <1>2, <1>4, <1>8, TunnelAfter
<1>10. Taken("toTunnel")' = Taken("toTunnel")
  BY <1>5, <1>6, <1>8
<1>11. InboxOk("toTunnel")'
  BY <1>10, InboxFrame, Two DEF TunnelOk
<1> QED
  BY <1>9, <1>11 DEF TunnelOk

LEMMA TunnelWrite ==
  ASSUME TypeOK, TunnelOk, WriteTunnel
  PROVE  TunnelOk'
<1> DEFINE g == got["toTunnel"]  w == wire  h == held  b == copy["toTunnel"].buf  t == due["toTunnel"]  u == h \o b
<1>1. /\ g \in Seq(Sent) /\ w \in Seq(Sent) /\ h \in Seq(Sent) /\ b \in Seq(Sent) /\ t \in Seq(Sent)
      /\ Len(g) \in Nat /\ Len(w) \in Nat /\ Len(h) \in Nat /\ Len(b) \in Nat
  BY TunnelTypes
<1>2. /\ Part(g, t, 0) /\ Part(w, t, Len(g)) /\ Part(h, t, Len(g) + Len(w))
      /\ Part(b, t, Len(g) + Len(w) + Len(h))
  BY DEF TunnelOk, TunnelStream, Passed
<1>3. PICK n \in Nat : n <= Len(u) /\ Push(u, n)
  BY WriteFacts
<1> DEFINE y == w \o SubSeq(u, 1, n)  v == SubSeq(u, n + 1, Len(u))
<1>4. /\ copy'["toTunnel"].buf = <<>> /\ copy'["toTunnel"].read_done = copy["toTunnel"].read_done
      /\ UNCHANGED <<side, inbox, due, got, reason>>
  BY SetWritten, Two DEF WriteTunnel, TypeOK, netVars, taskVars
<1>5. g = got'["toTunnel"] /\ y = wire' /\ v = held' /\ t = due'["toTunnel"]
  BY <1>3, <1>4 DEF Push
<1>6. u \in Seq(Sent) /\ Len(u) = Len(h) + Len(b)
  BY <1>1, LenConcat
<1>7. Taken("toTunnel") = Len(g) + Len(w) + Len(h) + Len(b)
  BY DEF Taken, Passed
<1>8. Taken("toTunnel")' = Len(g) + Len(y) + Len(v) + 0
  BY <1>4, <1>5 DEF Taken, Passed
<1>9. Pushed(w, u, n, y, v)
  BY DEF Pushed
<1> HIDE DEF g, w, h, b, t, y, v
<1>10. Len(g) + Len(w) \in Nat
  BY <1>1
<1>11. Part(u, t, Len(g) + Len(w))
  BY <1>1, <1>2, <1>10, PartConcat
<1>12. u \in Seq(Sent) /\ n <= Len(u)
  BY <1>3, <1>6
<1> HIDE DEF u
<1>13. <<>> \in Seq(Sent) /\ Part(<<>>, t, Len(g) + Len(w) + Len(u))
  <2> DEFINE k == Len(g) + Len(w) + Len(u)
  <2>1. Len(u) \in Nat
    BY <1>6
  <2>2. k \in Nat
    BY <1>10, <2>1
  <2>3. k <= Len(t)
    BY <1>11 DEF Part
  <2> HIDE DEF k
  <2>4. Part(<<>>, t, k)
    BY <1>1, <2>2, <2>3, PartEmpty
  <2> QED
    BY <2>4 DEF k
<1>14. /\ Part(y, t, Len(g)) /\ Part(v, t, Len(g) + Len(y)) /\ Part(<<>>, t, Len(g) + Len(y) + Len(v))
       /\ Len(g) + Len(y) + Len(v) = Len(g) + Len(w) + Len(u)
  <2> DEFINE r == <<>>
  <2>1. r \in Seq(Sent) /\ Part(r, t, Len(g) + Len(w) + Len(u))
    BY <1>13
  <2> HIDE DEF r
  <2>2. /\ Part(y, t, Len(g)) /\ Part(v, t, Len(g) + Len(y)) /\ Part(r, t, Len(g) + Len(y) + Len(v))
        /\ Len(g) + Len(y) + Len(v) = Len(g) + Len(w) + Len(u)
    BY <1>1, <1>2, <1>9, <1>11, <1>12, <2>1, PushParts
  <2> QED
    BY <2>2 DEF r
<1>15. TunnelStream'
  BY <1>2, <1>4, <1>5, <1>14, TunnelAfter
<1>16. Taken("toTunnel")' = Taken("toTunnel")
  <2> DEFINE a == Len(g)  c == Len(w)  d == Len(h)  e == Len(b)  k == Len(g) + Len(y) + Len(v)
  <2>1. /\ a \in Nat /\ c \in Nat /\ d \in Nat /\ e \in Nat
        /\ k = a + c + (d + e) /\ Taken("toTunnel")' = k + 0 /\ Taken("toTunnel") = a + c + d + e
    BY <1>1, <1>6, <1>7, <1>8, <1>14
  <2> HIDE DEF a, c, d, e, k
  <2> QED
    BY <2>1
<1>17. InboxOk("toTunnel")'
  BY <1>4, <1>16, InboxFrame, Two DEF TunnelOk
<1> QED
  BY <1>15, <1>17 DEF TunnelOk

LEMMA TunnelRead ==
  ASSUME TypeOK, TunnelOk, Control, ReadDatagram("toTunnel")
  PROVE  TunnelOk'
<1> DEFINE q == inbox["local"]  x == Head(q)
           g == got["toTunnel"]  w == wire  h == held  b == copy["toTunnel"].buf  t == due["toTunnel"]
<1>1. /\ g \in Seq(Sent) /\ w \in Seq(Sent) /\ h \in Seq(Sent) /\ b \in Seq(Sent) /\ t \in Seq(Sent)
      /\ Len(g) \in Nat /\ Len(w) \in Nat /\ Len(h) \in Nat
  BY TunnelTypes
<1>2. /\ Part(g, t, 0) /\ Part(w, t, Len(g)) /\ Part(h, t, Len(g) + Len(w))
      /\ Part(b, t, Len(g) + Len(w) + Len(h)) /\ InboxOk("toTunnel")
  BY DEF TunnelOk, TunnelStream, Passed
<1>3. /\ b = <<>> /\ ~copy["toTunnel"].read_done /\ q # <<>> /\ reason = "none" /\ Source("toTunnel") = "local"
      /\ UNCHANGED <<side, due, got, wire, held>>
  BY Two DEF ReadDatagram, Reading, Control, Source, tunnelVars
<1>4. /\ inbox' = [inbox EXCEPT ![Source("toTunnel")] = Tail(inbox[Source("toTunnel")])]
      /\ \/ /\ x.kind = "ok" \/ "toTunnel" = "toLocal"
            /\ copy'["toTunnel"].buf = <<[id |-> x.id, addr |-> x.addr]>>
            /\ copy'["toTunnel"].read_done = copy["toTunnel"].read_done /\ UNCHANGED taskVars
         \/ copy'["toTunnel"].buf = b /\ copy'["toTunnel"].read_done = TRUE
         \/ x.kind = "empty" /\ copy' = copy /\ UNCHANGED taskVars
         \/ copy' = copy /\ Err
  <2>1. x = Head(inbox[Source("toTunnel")])
    BY <1>3
  <2> HIDE DEF x
  <2> QED
    BY <2>1, ReadFacts, Two
<1>5. inbox'["local"] = Tail(q)
  BY <1>3, <1>4 DEF TypeOK, Ends
<1>6. /\ x.id = Taken("toTunnel") + 1 /\ x \in Received
      /\ x.kind = "ok" => Taken("toTunnel") + 1 <= Len(t) /\ t[Taken("toTunnel") + 1] = Routed("toTunnel", x)
  <2>1. x = Head(inbox[Source("toTunnel")]) /\ inbox[Source("toTunnel")] # <<>>
    BY <1>3
  <2> HIDE DEF x
  <2> QED
    BY <1>2, <1>3, <2>1, InboxHead, Two
<1>7. Taken("toTunnel") = Len(g) + Len(w) + Len(h) + 0 /\ Taken("toTunnel") \in Nat
  BY <1>3, TakenType, Two DEF Taken, Passed
<1>8. Taken("toTunnel")' = Len(g) + Len(w) + Len(h) + Len(copy'["toTunnel"].buf)
  BY <1>3 DEF Taken, Passed
<1>9. g = got'["toTunnel"] /\ w = wire' /\ h = held' /\ t = due'["toTunnel"]
  BY <1>3
<1>10. Len(g) + Len(w) + Len(h) \in Nat /\ Taken("toTunnel") = Len(g) + Len(w) + Len(h)
  BY <1>1, <1>7
<1>11. ASSUME \/ copy'["toTunnel"].read_done \/ reason' # "none"
              \/ Taken("toTunnel")' + 1 = After(x)
       PROVE  InboxOk("toTunnel")'
  BY <1>2, <1>3, <1>5, <1>11, InboxTake, Two
<1> DEFINE k == Len(g) + Len(w) + Len(h)  z == [id |-> x.id, addr |-> x.addr]
<1>12. CASE x.kind = "ok" /\ copy'["toTunnel"].buf = <<z>>
  <2>1. z = Routed("toTunnel", x) /\ z \in Sent
    BY <1>6 DEF Routed, Target, Received, Sent
  <2>2. x.id + 1 = After(x)
    BY <1>12 DEF After
  <2>3. Taken("toTunnel")' = k + 1
    BY <1>8, <1>12
  <2>4. k \in Nat /\ k + 1 <= Len(t) /\ z = t[k + 1] /\ x.id = k + 1
    BY <1>6, <1>10, <1>12, <2>1
  <2> HIDE DEF k, z, x
  <2>5. Part(<<z>>, t, k)
    BY <1>1, <2>1, <2>4, PartOne
  <2>6. Taken("toTunnel")' + 1 = After(x)
    BY <2>2, <2>3, <2>4
  <2>7. InboxOk("toTunnel")'
    BY <1>11, <2>6
  <2> HIDE DEF g, w, h, t
  <2>8. TunnelStream'
    <3>1. Part(<<z>>, t, Len(g) + Len(w) + Len(h))
      BY <2>5 DEF k
    <3> QED
      BY <1>2, <1>9, <1>12, <3>1, TunnelAfter
  <2> QED
    BY <2>7, <2>8 DEF TunnelOk
<1>13. CASE copy'["toTunnel"].buf = b
  <2>1. TunnelStream'
    <3> HIDE DEF g, w, h, t
    <3> QED
      BY <1>2, <1>9, <1>13, TunnelAfter
  <2>2. Taken("toTunnel")' = Taken("toTunnel")
    BY <1>3, <1>7, <1>8, <1>13
  <2>3. \/ copy'["toTunnel"].read_done \/ reason' # "none"
        \/ Taken("toTunnel")' + 1 = After(x)
    <3>1. CASE copy'["toTunnel"].read_done = TRUE
      BY <3>1
    <3>2. CASE Err
      BY <3>2 DEF Err
    <3>3. CASE x.kind = "empty"
      BY <1>6, <2>2, <3>3 DEF After
    <3>4. <<z>> # <<>>
      OBVIOUS
    <3> QED
      BY <1>3, <1>4, <1>13, <3>1, <3>2, <3>3, <3>4
  <2> QED
    BY <1>11, <2>1, <2>3 DEF TunnelOk
<1> QED
  BY <1>4, <1>12, <1>13

\* Every step of the relay and of the world keeps the direction in order.
LEMMA TunnelStep ==
  ASSUME TypeOK, TunnelOk, Control, [Next]_vars
  PROVE  TunnelOk'
<1> DEFINE Kept == /\ UNCHANGED <<side, held, wire>> /\ got'["toTunnel"] = got["toTunnel"]
                   /\ due'["toTunnel"] = due["toTunnel"] /\ inbox'["local"] = inbox["local"]
                   /\ copy'["toTunnel"].buf = copy["toTunnel"].buf
                   /\ copy["toTunnel"].read_done => copy'["toTunnel"].read_done
                   /\ reason' = "none" => reason = "none"
<1>1. Kept => TunnelOk'
  BY TunnelFrame
<1>2. /\ copy \in [Directions -> TransferStates] /\ inbox \in [Ends -> Seq(Received)] /\ due \in [Directions -> Seq(Sent)]
      /\ "toTunnel" \in Directions /\ "toLocal" \in Directions /\ "toTunnel" \in Directions \ {"toLocal"}
      /\ "local" \in Ends \ {"tunnel"} /\ "tunnel" \in Ends
      /\ Source("toTunnel") = "local" /\ Source("toLocal") = "tunnel"
  BY Two DEF TypeOK, Ends, Source
<1>3. CASE ArriveLocal
  BY <1>3, TunnelArrive DEF ArriveLocal
<1>4. CASE ArriveTunnel
  <2> PICK x \in Inputs[side]["tunnel"] : Arrive("toLocal", x)
    BY <1>4 DEF ArriveTunnel
  <2>1. Kept
    BY <1>2 DEF Arrive, tunnelVars, taskVars
  <2> QED
    BY <1>1, <2>1
<1>5. CASE EndTunnel \/ SendReset \/ Stop \/ Drain \/ Resolve
  <2>1. Kept
    BY <1>5 DEF EndTunnel, SendReset, Stop, Drain, Resolve, netVars, tunnelVars, taskVars
  <2> QED
    BY <1>1, <2>1
<1>6. CASE ReceiveTunnel
  BY <1>6, TunnelReceive
<1>7. CASE Poll \/ UNCHANGED vars
  <2>1. Kept
    BY <1>7 DEF Poll, vars, netVars, tunnelVars, taskVars
  <2> QED
    BY <1>1, <2>1
<1>8. CASE WriteTunnel
  BY <1>8, TunnelWrite
<1>9. CASE WriteTunnelPending
  <2>1. reason' = "none" => reason = "none"
    BY <1>2, <1>9, ReturnFacts DEF WriteTunnelPending
  <2>2. Kept
    BY <1>9, <2>1 DEF WriteTunnelPending, netVars, tunnelVars
  <2> QED
    BY <1>1, <2>2
<1>10. CASE ReadDatagram("toTunnel")
  BY <1>10, TunnelRead
<1>11. CASE ReadEnd("toTunnel")
  <2>1. copy'["toTunnel"].buf = copy["toTunnel"].buf /\ copy'["toTunnel"].read_done
    BY <1>2, <1>11, SetReadDone DEF ReadEnd, ReadDone
  <2>2. Kept
    BY <1>11, <2>1 DEF ReadEnd, netVars, tunnelVars, taskVars
  <2> QED
    BY <1>1, <2>2
<1>12. CASE ReadPending("toTunnel")
  <2>1. reason' = "none" => reason = "none"
    BY <1>2, <1>12, ReturnFacts DEF ReadPending
  <2>2. copy' = [copy EXCEPT !["toTunnel"].need_flush = ~Flushes] \/ copy' = [copy EXCEPT !["toTunnel"].need_flush = FALSE]
    BY <1>12 DEF ReadPending
  <2>3. (~Flushes) \in BOOLEAN /\ FALSE \in BOOLEAN
    OBVIOUS
  <2>4. copy'["toTunnel"].buf = copy["toTunnel"].buf /\ copy'["toTunnel"].read_done = copy["toTunnel"].read_done
    BY <1>2, <2>2, <2>3, SetNeedFlush
  <2>5. Push(held, FlushNow) \/ UNCHANGED <<held, wire>>
    BY <1>12 DEF ReadPending, tunnelVars
  <2>6. UNCHANGED <<side, inbox, due, got>>
    BY <1>12 DEF ReadPending, netVars
  <2> QED
    BY <1>1, <2>1, <2>4, <2>5, <2>6, TunnelFlush
<1>13. CASE ShutDown("toTunnel")
  <2>1. \/ copy' = [copy EXCEPT !["toTunnel"].state = IF @ = "Running" THEN "ShuttingDown" ELSE "Done"] /\ UNCHANGED taskVars
        \/ copy' = copy /\ Return("toTunnel")
    BY <1>13 DEF ShutDown
  <2>2. reason' = "none" => reason = "none"
    BY <1>2, <2>1, ReturnFacts DEF taskVars
  <2>3. copy'["toTunnel"].buf = copy["toTunnel"].buf /\ copy'["toTunnel"].read_done = copy["toTunnel"].read_done
    BY <1>2, <2>1, SetState
  <2>4. Push(held, FlushNow) /\ UNCHANGED <<side, inbox, due, got>>
    BY <1>13 DEF ShutDown, netVars
  <2> QED
    BY <2>2, <2>3, <2>4, TunnelFlush
<1>14. ASSUME NEW d \in Directions, ReturnDone(d) \/ Fail(d) PROVE TunnelOk'
  <2>1. reason' = "none" => reason = "none"
    BY <1>14, ReturnFacts DEF ReturnDone, Fail, Err
  <2>2. Kept
    BY <1>14, <2>1 DEF ReturnDone, Fail, netVars, tunnelVars
  <2> QED
    BY <1>1, <2>2
<1>15. CASE WriteLocal \/ ReadDatagram("toLocal") \/ ReadEnd("toLocal") \/ ReadPending("toLocal") \/ ShutDown("toLocal")
  <2>1. UNCHANGED <<side, due, held, wire>>
    BY <1>15 DEF WriteLocal, Socks5Write, Socks5WriteTooEarly, StartResolve, AwaitResolve, Resolved, ResolveFailed,
         SendTo, ReadDatagram, ReadEnd, ReadPending, ShutDown, netVars, tunnelVars
  <2>2. got'["toTunnel"] = got["toTunnel"]
    BY <1>15, Two DEF WriteLocal, Socks5Write, Socks5WriteTooEarly, StartResolve, AwaitResolve, Resolved, ResolveFailed,
         SendTo, PollSendTo, ReadDatagram, ReadEnd, ReadPending, ShutDown, TypeOK
  <2>3. inbox'["local"] = inbox["local"]
    BY <1>2, <1>15 DEF WriteLocal, Socks5Write, Socks5WriteTooEarly, StartResolve, AwaitResolve, Resolved, ResolveFailed,
         SendTo, ReadDatagram, ReadEnd, ReadPending, ShutDown, netVars
  <2>4. copy'["toTunnel"] = copy["toTunnel"]
    <3>1. CASE WriteLocal
      <4>1. copy' = copy \/ Written("toLocal")
        BY <3>1 DEF WriteLocal, Socks5Write, Socks5WriteTooEarly, StartResolve, AwaitResolve, Resolved, ResolveFailed,
             SendTo
      <4> QED
        BY <1>2, <4>1, SetWritten
    <3>2. CASE ReadDatagram("toLocal")
      <4>1. \A c \in Directions \ {"toLocal"} : copy'[c] = copy[c]
        <5> DEFINE x == Head(inbox[Source("toLocal")])
        <5>1. x = Head(inbox[Source("toLocal")])
          OBVIOUS
        <5> HIDE DEF x
        <5> QED
          BY <1>2, <3>2, <5>1, ReadFacts
      <4> QED
        BY <1>2, <4>1
    <3>3. CASE ReadEnd("toLocal")
      BY <1>2, <3>3, SetReadDone DEF ReadEnd, ReadDone
    <3>4. CASE ReadPending("toLocal")
      <4>1. copy' = [copy EXCEPT !["toLocal"].need_flush = FALSE] /\ FALSE \in BOOLEAN
        BY <3>4 DEF ReadPending
      <4> QED
        BY <1>2, <4>1, SetNeedFlush
    <3>5. CASE ShutDown("toLocal")
      <4>1. copy' = [copy EXCEPT !["toLocal"].state = IF @ = "Running" THEN "ShuttingDown" ELSE "Done"]
        BY <3>5 DEF ShutDown
      <4> QED
        BY <1>2, <4>1, SetState
    <3> QED
      BY <1>15, <3>1, <3>2, <3>3, <3>4, <3>5
  <2>5. UNCHANGED taskVars \/ Err \/ Return("toLocal")
    BY <1>15 DEF WriteLocal, Socks5Write, Socks5WriteTooEarly, StartResolve, AwaitResolve, Resolved, ResolveFailed,
         SendTo, ReadDatagram, ReadEnd, ReadPending, ShutDown
  <2>6. reason' = "none" => reason = "none"
    BY <1>2, <2>5, ReturnFacts DEF taskVars, Err
  <2> QED
    BY <1>1, <2>1, <2>2, <2>3, <2>4, <2>6
<1> QED
  BY <1>3, <1>4, <1>5, <1>6, <1>7, <1>8, <1>9, <1>10, <1>11, <1>12, <1>13, <1>14, <1>15, Two
     DEF Next, Task, World, Copy
-----------------------------------------------------------------------------
(***************************************************************************)
(* From the tunnel to the local socket: LocalStream and AddrOk.            *)
(***************************************************************************)
LocalOk == LocalStream /\ AddrOk /\ FramesOk /\ InboxOk("toLocal")

LEMMA LocalTypes ==
  ASSUME TypeOK
  PROVE  /\ got["toLocal"] \in Seq(Sent) /\ buffer \in Slot /\ buffer \in Seq(Sent)
         /\ copy["toLocal"].buf \in Slot /\ copy["toLocal"].buf \in Seq(Sent) /\ due["toLocal"] \in Seq(Sent)
         /\ Len(got["toLocal"]) \in Nat /\ Len(buffer) \in Nat /\ Len(copy["toLocal"].buf) \in Nat
         /\ Len(due["toLocal"]) \in Nat
<1>1. buffer \in Slot
  BY DEF TypeOK
<1>2. buffer \in Seq(Sent)
  BY <1>1, SlotFacts
<1> QED
  BY <1>1, <1>2, TakenType, Two

\* A datagram b is the one after the first k that are due.
Waiting(b, t, k) == b # <<>> => k + 1 <= Len(t) /\ t[k + 1] = Routed("toLocal", b[1])

LEMMA LocalBefore ==
  ASSUME TypeOK, LocalOk
  PROVE  /\ Part(got["toLocal"], due["toLocal"], 0)
         /\ Part(buffer, due["toLocal"], Len(got["toLocal"]))
         /\ Waiting(copy["toLocal"].buf, due["toLocal"], Len(got["toLocal"]) + Len(buffer))
<1>1. LocalStream
  BY DEF LocalOk
<1>2. ASSUME copy["toLocal"].buf # <<>> PROVE Taken("toLocal") = Len(got["toLocal"]) + Len(buffer) + 1
  <2>1. Len(copy["toLocal"].buf) = 1
    BY <1>2, LocalTypes, SlotFacts
  <2> QED
    BY <2>1 DEF Taken
<1> QED
  BY <1>1, <1>2 DEF LocalStream, Waiting, Datagram

LEMMA LocalAfter ==
  ASSUME TypeOK', side' = side, NEW g, g = got'["toLocal"], NEW f, f = buffer', NEW b, b = copy'["toLocal"].buf,
         NEW t, t = due'["toLocal"], Part(g, t, 0), Part(f, t, Len(g)), Waiting(b, t, Len(g) + Len(f))
  PROVE  LocalStream'
<1>1. copy'["toLocal"].buf \in Slot
  BY Two DEF TypeOK, TransferStates
<1>2. b # <<>> => Taken("toLocal")' = Len(g) + Len(f) + 1
  <2>1. b # <<>> => Len(b) = 1
    BY <1>1, SlotFacts
  <2>2. Taken("toLocal")' = Len(g) + Len(f) + Len(b)
    BY DEF Taken
  <2> QED
    BY <2>1, <2>2
<1>3. b # <<>> => /\ Len(g) + Len(f) + 1 <= Len(t)
                  /\ t[Len(g) + Len(f) + 1] = [id |-> b[1].id, addr |-> Target("toLocal", b[1].addr)]
  BY DEF Waiting, Routed
<1>4. b # <<>> => Routed("toLocal", Datagram)' = [id |-> b[1].id, addr |-> Target("toLocal", b[1].addr)]
  BY DEF Routed, Target, Datagram
<1>5. copy'["toLocal"].buf # <<>> =>
        /\ Taken("toLocal")' <= Len(due'["toLocal"])
        /\ due'["toLocal"][Taken("toLocal")'] = Routed("toLocal", Datagram)'
  BY <1>2, <1>3, <1>4
<1> QED
  BY <1>5 DEF LocalStream

LEMMA LocalFrame ==
  ASSUME LocalOk, UNCHANGED <<side, buffer>>, got'["toLocal"] = got["toLocal"],
         due'["toLocal"] = due["toLocal"], inbox'["tunnel"] = inbox["tunnel"],
         copy'["toLocal"].buf = copy["toLocal"].buf,
         copy["toLocal"].read_done => copy'["toLocal"].read_done, reason' = "none" => reason = "none"
  PROVE  /\ AddrOk' => LocalOk'
         /\ UNCHANGED <<addr_task, answer>> => AddrOk'
<1>1. LocalStream' /\ Taken("toLocal")' = Taken("toLocal") /\ FramesOk'
  BY DEF LocalOk, LocalStream, FramesOk, Taken, Routed, Target, Datagram
<1>2. Source("toLocal") = "tunnel"
  BY DEF Source
<1>3. InboxOk("toLocal")'
  BY <1>1, <1>2, InboxFrame, Two DEF LocalOk
<1>4. UNCHANGED <<addr_task, answer>> => AddrOk'
  BY DEF LocalOk, AddrOk, Target, Datagram
<1> QED
  BY <1>1, <1>3, <1>4 DEF LocalOk

LEMMA LocalArrive ==
  ASSUME TypeOK, TypeOK', LocalOk, NEW x \in Inputs[side]["tunnel"], Arrive("toLocal", x)
  PROVE  LocalOk'
<1> DEFINE g == got["toLocal"]  f == buffer  b == copy["toLocal"].buf  t == due["toLocal"]  u == due'["toLocal"]
<1>1. /\ InboxOk("toLocal")'
      /\ due' = due \/ \E z \in Sent : due' = [due EXCEPT !["toLocal"] = Append(due["toLocal"], z)]
  BY InboxArrive, Two DEF Source, LocalOk
<1>2. /\ UNCHANGED <<side, got, buffer, copy, addr_task, answer>> /\ due \in [Directions -> Seq(Sent)]
      /\ inbox'["tunnel"] = Append(inbox["tunnel"], [id |-> Len(due["toLocal"]) + 1, kind |-> x.kind, from |-> x.from, addr |-> x.addr])
      /\ inbox["tunnel"] \in Seq(Received)
  BY Two DEF Arrive, localVars, TypeOK, Source, Ends
<1>3. u = t \/ \E z \in Sent : u = Append(t, z)
  BY <1>1, <1>2, Two
<1>4. /\ g \in Seq(Sent) /\ f \in Seq(Sent) /\ t \in Seq(Sent) /\ Len(g) \in Nat /\ Len(f) \in Nat
  BY LocalTypes
<1>5. Part(g, t, 0) /\ Part(f, t, Len(g)) /\ Waiting(b, t, Len(g) + Len(f))
  BY LocalBefore
<1>6. g = got'["toLocal"] /\ f = buffer' /\ b = copy'["toLocal"].buf /\ u = due'["toLocal"]
  BY <1>2
<1>7. FramesOk'
  <2> DEFINE q == inbox["tunnel"]
             y == [id |-> Len(due["toLocal"]) + 1, kind |-> x.kind, from |-> x.from, addr |-> x.addr]
             p == inbox'["tunnel"]
  <2>1. x.kind = "ok"
    BY InputAssumption DEF TypeOK
  <2>2. y.kind = "ok" /\ p = Append(q, y) /\ q \in Seq(Received) /\ \A i \in 1..Len(q) : q[i].kind = "ok"
    BY <1>2, <2>1 DEF LocalOk, FramesOk
  <2> HIDE DEF y, p, q
  <2>3. \A i \in 1..Len(Append(q, y)) : Append(q, y)[i].kind = "ok"
    BY <2>2
  <2>4. \A i \in 1..Len(p) : p[i].kind = "ok"
    BY <2>2, <2>3
  <2> QED
    BY <2>4 DEF FramesOk, p
<1> HIDE DEF g, f, b, t, u
<1>8. 0 \in Nat /\ Len(g) + Len(f) \in Nat
  BY <1>4
<1>9. Part(g, u, 0) /\ Part(f, u, Len(g))
  BY <1>3, <1>4, <1>5, <1>8, PartGrow
<1>10. Waiting(b, u, Len(g) + Len(f))
  <2> DEFINE k == Len(g) + Len(f)
  <2> SUFFICES ASSUME NEW z \in Sent, u = Append(t, z) PROVE Waiting(b, u, k)
    BY <1>3, <1>5
  <2>1. k \in Nat /\ Waiting(b, t, k)
    BY <1>5, <1>8
  <2> HIDE DEF k
  <2>2. b # <<>> => k + 1 \in 1..Len(t)
    BY <1>4, <2>1 DEF Waiting
  <2>3. Len(u) = Len(t) + 1 /\ \A i \in 1..Len(t) : u[i] = t[i]
    BY <1>4
  <2>4. b # <<>> => k + 1 <= Len(u)
    BY <1>4, <2>1, <2>2, <2>3
  <2> QED
    BY <2>1, <2>2, <2>3, <2>4 DEF Waiting
<1>11. LocalStream'
  BY <1>2, <1>6, <1>9, <1>10, LocalAfter
<1>12. AddrOk'
  BY <1>2 DEF LocalOk, AddrOk, Target, Datagram
<1> QED
  BY <1>1, <1>7, <1>11, <1>12 DEF LocalOk

LEMMA LocalRead ==
  ASSUME TypeOK, TypeOK', LocalOk, Control, ReadDatagram("toLocal")
  PROVE  LocalOk'
<1> DEFINE q == inbox["tunnel"]  x == Head(q)  z == [id |-> x.id, addr |-> x.addr]
           g == got["toLocal"]  f == buffer  t == due["toLocal"]  k == Len(g) + Len(f)
<1>1. /\ g \in Seq(Sent) /\ f \in Seq(Sent) /\ t \in Seq(Sent) /\ Len(g) \in Nat /\ Len(f) \in Nat
  BY LocalTypes
<1>2. Part(g, t, 0) /\ Part(f, t, Len(g)) /\ InboxOk("toLocal")
  BY LocalBefore DEF LocalOk
<1>3. /\ copy["toLocal"].buf = <<>> /\ ~copy["toLocal"].read_done /\ q # <<>> /\ reason = "none"
      /\ Source("toLocal") = "tunnel" /\ UNCHANGED <<side, due, got, buffer, addr_task, answer>>
      /\ q \in Seq(Received)
  BY Two DEF ReadDatagram, Reading, Control, Source, TypeOK, Ends
<1>4. /\ inbox' = [inbox EXCEPT ![Source("toLocal")] = Tail(inbox[Source("toLocal")])]
      /\ copy'["toLocal"].buf = <<z>>
      /\ copy'["toLocal"].read_done = copy["toLocal"].read_done
  <2>1. x = Head(inbox[Source("toLocal")])
    BY <1>3
  <2> HIDE DEF x
  <2> QED
    BY <2>1, ReadFacts, Two
<1>5. inbox'["tunnel"] = Tail(q)
  BY <1>3, <1>4 DEF TypeOK, Ends
<1>6. x.kind = "ok" /\ FramesOk'
  <2>1. \A i \in 1..Len(q) : q[i].kind = "ok"
    BY DEF LocalOk, FramesOk
  <2>2. x = q[1] /\ 1 \in 1..Len(q)
    BY <1>3
  <2>3. \A i \in 1..Len(Tail(q)) : Tail(q)[i] = q[i + 1] /\ i + 1 \in 1..Len(q)
    BY <1>3
  <2>4. \A i \in 1..Len(Tail(q)) : Tail(q)[i].kind = "ok"
    BY <2>1, <2>3
  <2> HIDE DEF q
  <2> QED
    BY <1>5, <2>1, <2>2, <2>4 DEF FramesOk
<1>7. /\ x.id = Taken("toLocal") + 1 /\ x \in Received
      /\ Taken("toLocal") + 1 <= Len(t) /\ t[Taken("toLocal") + 1] = Routed("toLocal", x)
  <2>1. x = Head(inbox[Source("toLocal")]) /\ inbox[Source("toLocal")] # <<>>
    BY <1>3
  <2> HIDE DEF x
  <2> QED
    BY <1>2, <1>3, <1>6, <2>1, InboxHead, Two
<1>8. Taken("toLocal") = k + 0 /\ Taken("toLocal")' = k + 1
  BY <1>3, <1>4 DEF Taken
<1>9. k \in Nat /\ k + 0 = k
  BY <1>1
<1>10. Routed("toLocal", x) = Routed("toLocal", z)
  BY DEF Routed
<1>11. g = got'["toLocal"] /\ f = buffer' /\ t = due'["toLocal"]
  BY <1>3
<1>12. InboxOk("toLocal")'
  <2>1. Taken("toLocal")' + 1 = After(x)
    BY <1>6, <1>7, <1>8, <1>9 DEF After
  <2> QED
    BY <1>2, <1>3, <1>5, <2>1, InboxTake, Two
<1>13. AddrOk'
  <2>1. addr_task.state = "None"
    BY <1>3, ReadyIp DEF LocalOk, AddrOk
  <2> QED
    BY <1>3, <2>1 DEF LocalOk, AddrOk
<1>14. Waiting(<<z>>, t, k)
  <2>1. k + 1 <= Len(t) /\ t[k + 1] = Routed("toLocal", z)
    BY <1>7, <1>8, <1>9, <1>10
  <2> HIDE DEF k, t, z
  <2> QED
    BY <2>1 DEF Waiting
<1> HIDE DEF g, f, t, z, x, q
<1>15. LocalStream'
  <2>1. Waiting(<<z>>, t, Len(g) + Len(f))
    BY <1>14
  <2> QED
    BY <1>2, <1>3, <1>4, <1>11, <2>1, LocalAfter
<1> QED
  BY <1>6, <1>12, <1>13, <1>15 DEF LocalOk

\* The head of the stream leaves for the socket.
LEMMA LocalSent ==
  ASSUME NEW g \in Seq(Sent), NEW t \in Seq(Sent), Part(g, t, 0), NEW x \in Sent,
         Len(g) + 1 <= Len(t), x = t[Len(g) + 1]
  PROVE  Part(Append(g, x), t, 0) /\ Part(<<>>, t, Len(Append(g, x))) /\ Len(Append(g, x)) = Len(g) + 1
<1>1. Len(g) \in Nat /\ 0 + Len(g) + 1 = Len(g) + 1 /\ Len(Append(g, x)) = Len(g) + 1
  OBVIOUS
<1>2. Len(g) + 1 \in Nat
  BY <1>1
<1>3. Part(Append(g, x), t, 0)
  BY <1>1, PartAppend
<1>4. Part(<<>>, t, Len(g) + 1)
  BY <1>2, PartEmpty
<1> QED
  BY <1>1, <1>3, <1>4

LEMMA LocalSocks5 ==
  ASSUME TypeOK, TypeOK', LocalOk, Control, Socks5Write
  PROVE  LocalOk'
<1> DEFINE g == got["toLocal"]  f == buffer  b == copy["toLocal"].buf  t == due["toLocal"]
           x == IF f = <<>> THEN Datagram ELSE f[1]
<1>1. /\ g \in Seq(Sent) /\ f \in Slot /\ f \in Seq(Sent) /\ b \in Slot /\ t \in Seq(Sent)
      /\ Len(g) \in Nat /\ Len(f) \in Nat /\ Len(b) \in Nat
  BY LocalTypes
<1>2. Part(g, t, 0) /\ Part(f, t, Len(g)) /\ Waiting(b, t, Len(g) + Len(f)) /\ InboxOk("toLocal")
  BY LocalBefore DEF LocalOk
<1>3. /\ side = "client" /\ b # <<>> /\ UNCHANGED <<side, due, inbox, addr_task, answer>> /\ PollSendTo(x)
      /\ f' = IF writable THEN <<>> ELSE IF f = <<>> THEN <<Datagram>> ELSE f
      /\ f = <<>> => Written("toLocal") /\ UNCHANGED taskVars
      /\ f # <<>> => Return("toLocal") /\ UNCHANGED copy
  BY DEF Socks5Write, Writing, netVars
<1>4. Len(b) = 1 /\ Datagram \in Sent /\ (f # <<>> => Len(f) = 1 /\ f[1] \in Sent) /\ (f = <<>> => Len(f) = 0)
  BY <1>1, <1>3, SlotFacts, DatagramType
<1>5. x \in Sent
  BY <1>4
<1>6. /\ writable => got'["toLocal"] = Append(g, x)
      /\ ~writable => got' = got
  <2> HIDE DEF x
  <2> QED
    BY <1>3, <1>5, SendFacts
<1>7. f = <<>> => copy'["toLocal"].buf = <<>> /\ copy'["toLocal"].read_done = copy["toLocal"].read_done
  BY <1>3, SetWritten, Two DEF TypeOK
<1>8. reason' = "none" => reason = "none"
  BY <1>3, ReturnFacts, Two DEF taskVars
<1>9. Routed("toLocal", Datagram) = Datagram
  <2>1. \A y \in Sent : [id |-> y.id, addr |-> y.addr] = y
    BY DEF Sent
  <2> QED
    BY <1>3, <1>4, <2>1 DEF Routed, Target
<1>10. Len(g) + Len(f) + 1 <= Len(t) /\ t[Len(g) + Len(f) + 1] = Datagram
  BY <1>2, <1>3, <1>9 DEF Waiting, Datagram
<1>11. Taken("toLocal") = Len(g) + Len(f) + Len(b)
  BY DEF Taken
<1>12. Taken("toLocal")' = Len(got'["toLocal"]) + Len(f') + Len(copy'["toLocal"].buf)
  BY DEF Taken
<1>13. AddrOk'
  <2>1. addr_task.state = "None"
    BY <1>3, ReadyIp DEF LocalOk, AddrOk
  <2> QED
    BY <1>3, <2>1 DEF LocalOk, AddrOk
<1>14. FramesOk'
  BY <1>3 DEF LocalOk, FramesOk
<1>15. ASSUME LocalStream', Taken("toLocal")' = Taken("toLocal"),
              copy'["toLocal"].read_done = copy["toLocal"].read_done
       PROVE  LocalOk'
  <2>1. InboxOk("toLocal")'
    BY <1>2, <1>3, <1>8, <1>15, InboxFrame, Two
  <2> QED
    BY <1>13, <1>14, <1>15, <2>1 DEF LocalOk
<1>16. CASE f = <<>> /\ writable
  <2>1. /\ got'["toLocal"] = Append(g, Datagram) /\ buffer' = <<>> /\ copy'["toLocal"].buf = <<>>
        /\ copy'["toLocal"].read_done = copy["toLocal"].read_done /\ Len(f) = 0
    BY <1>3, <1>4, <1>6, <1>7, <1>16
  <2>2. Len(g) + 1 <= Len(t) /\ Datagram = t[Len(g) + 1]
    BY <1>1, <1>10, <2>1
  <2> DEFINE v == Append(g, Datagram)  e == <<>>
  <2>3. Part(v, t, 0) /\ Part(e, t, Len(v)) /\ Len(v) = Len(g) + 1 /\ Waiting(e, t, Len(v) + Len(e))
    BY <1>1, <1>2, <1>4, <2>2, LocalSent DEF Waiting
  <2>4. v = got'["toLocal"] /\ e = buffer' /\ e = copy'["toLocal"].buf /\ t = due'["toLocal"]
    BY <1>3, <2>1
  <2>5. Taken("toLocal")' = Taken("toLocal")
    <3>1. Taken("toLocal")' = Len(g) + 1 + 0 + 0 /\ Taken("toLocal") = Len(g) + 0 + 1
      BY <1>4, <1>11, <1>12, <2>1, <2>3
    <3> QED
      BY <1>1, <3>1
  <2> HIDE DEF v, e, t
  <2>6. LocalStream'
    BY <1>3, <2>3, <2>4, LocalAfter
  <2> QED
    BY <1>15, <2>1, <2>5, <2>6
<1>17. CASE f = <<>> /\ ~writable
  <2>1. /\ got' = got /\ buffer' = <<Datagram>> /\ copy'["toLocal"].buf = <<>>
        /\ copy'["toLocal"].read_done = copy["toLocal"].read_done /\ Len(f) = 0
    BY <1>3, <1>4, <1>6, <1>7, <1>17
  <2>2. Len(g) + 1 <= Len(t) /\ Datagram = t[Len(g) + 1]
    BY <1>1, <1>10, <2>1
  <2> DEFINE o == <<Datagram>>  e == <<>>
  <2>3. Part(o, t, Len(g)) /\ Len(o) = 1 /\ Waiting(e, t, Len(g) + Len(o))
    BY <1>1, <1>4, <2>2, PartOne DEF Waiting
  <2>4. g = got'["toLocal"] /\ o = buffer' /\ e = copy'["toLocal"].buf /\ t = due'["toLocal"]
    BY <1>3, <2>1
  <2>5. Taken("toLocal")' = Taken("toLocal")
    <3>1. Taken("toLocal")' = Len(g) + 1 + 0 /\ Taken("toLocal") = Len(g) + 0 + 1
      BY <1>4, <1>11, <1>12, <2>1, <2>3
    <3> QED
      BY <1>1, <3>1
  <2> HIDE DEF o, e, t, g
  <2>6. LocalStream'
    BY <1>2, <1>3, <2>3, <2>4, LocalAfter
  <2> QED
    BY <1>15, <2>1, <2>5, <2>6
<1>18. CASE f # <<>> /\ writable
  <2>1. got'["toLocal"] = Append(g, f[1]) /\ buffer' = <<>> /\ copy' = copy /\ Len(f) = 1
    BY <1>3, <1>4, <1>6, <1>18
  <2>2. Len(g) + 1 <= Len(t) /\ f[1] = t[Len(g) + 1]
    BY <1>1, <1>2, <2>1 DEF Part
  <2> DEFINE v == Append(g, f[1])  e == <<>>
  <2>3. Part(v, t, 0) /\ Part(e, t, Len(v)) /\ Len(v) = Len(g) + 1
    BY <1>1, <1>2, <1>4, <1>18, <2>2, LocalSent
  <2>4. v = got'["toLocal"] /\ e = buffer' /\ b = copy'["toLocal"].buf /\ t = due'["toLocal"]
    BY <1>3, <2>1
  <2>5. Len(v) + Len(e) = Len(g) + Len(f)
    BY <1>1, <2>1, <2>3
  <2>6. Waiting(b, t, Len(v) + Len(e))
    BY <1>2, <2>5
  <2>7. Taken("toLocal")' = Taken("toLocal")
    <3>1. Taken("toLocal")' = Len(v) + Len(e) + Len(b)
      BY <1>12, <2>4
    <3> QED
      BY <1>11, <2>5, <3>1
  <2> HIDE DEF v, e, t, b
  <2>8. LocalStream'
    BY <1>3, <2>3, <2>4, <2>6, LocalAfter
  <2> QED
    BY <1>15, <2>1, <2>7, <2>8
<1>19. CASE f # <<>> /\ ~writable
  <2>1. UNCHANGED <<side, got, buffer, copy, due, inbox, addr_task, answer>>
    BY <1>3, <1>6, <1>19
  <2> QED
    BY <1>8, <2>1, LocalFrame
<1> QED
  BY <1>16, <1>17, <1>18, <1>19

LEMMA LocalSendTo ==
  ASSUME TypeOK, TypeOK', LocalOk, Control, SendTo
  PROVE  LocalOk'
<1> DEFINE g == got["toLocal"]  b == copy["toLocal"].buf  t == due["toLocal"]
           x == [id |-> Datagram.id, addr |-> addr_task.ip]
<1>1. /\ g \in Seq(Sent) /\ b \in Slot /\ t \in Seq(Sent) /\ Len(g) \in Nat /\ Len(b) \in Nat
  BY LocalTypes
<1>2. /\ side = "server" /\ b # <<>> /\ addr_task.state = "Ready" /\ PollSendTo(x)
      /\ UNCHANGED <<side, due, inbox, buffer, answer>>
      /\ writable => Written("toLocal") /\ addr_task' = NoTask /\ UNCHANGED taskVars
      /\ ~writable => Return("toLocal") /\ UNCHANGED <<copy, addr_task>>
  BY DEF SendTo, Writing, netVars
<1>3. buffer = <<>> /\ x = Routed("toLocal", Datagram)
  BY <1>2 DEF LocalOk, AddrOk, Routed
<1>4. /\ Part(g, t, 0) /\ Len(g) + 1 <= Len(t) /\ t[Len(g) + 1] = x /\ InboxOk("toLocal")
  <2>1. Waiting(b, t, Len(g) + 0)
    BY <1>3, LocalBefore
  <2>2. Len(g) + 0 = Len(g)
    BY <1>1
  <2>3. Part(g, t, 0) /\ InboxOk("toLocal")
    BY LocalBefore DEF LocalOk
  <2> QED
    BY <1>2, <1>3, <2>1, <2>2, <2>3 DEF Waiting, Datagram
<1>5. x \in Sent
  BY <1>2, DatagramType, ReadyIp DEF Sent, Addrs
<1>6. CASE writable
  <2>1. got'["toLocal"] = Append(g, x)
    <3> HIDE DEF x
    <3> QED
      BY <1>2, <1>5, <1>6, SendFacts
  <2>2. /\ copy'["toLocal"].buf = <<>> /\ copy'["toLocal"].read_done = copy["toLocal"].read_done
        /\ buffer' = <<>> /\ addr_task' = NoTask /\ reason' = reason
    BY <1>2, <1>3, <1>6, SetWritten, Two DEF TypeOK, taskVars
  <2> DEFINE v == Append(g, x)  e == <<>>
  <2>3. Part(v, t, 0) /\ Part(e, t, Len(v)) /\ Len(v) = Len(g) + 1 /\ Waiting(e, t, Len(v) + Len(e))
    <3> HIDE DEF x
    <3> QED
      BY <1>1, <1>4, <1>5, LocalSent DEF Waiting
  <2>4. v = got'["toLocal"] /\ e = buffer' /\ e = copy'["toLocal"].buf /\ t = due'["toLocal"]
    BY <1>2, <2>1, <2>2
  <2>5. Taken("toLocal")' = Taken("toLocal")
    <3>1. Len(b) = 1
      BY <1>1, <1>2, SlotFacts
    <3>2. Taken("toLocal")' = Len(v) + 0 + 0
      BY <2>4 DEF Taken
    <3>3. Taken("toLocal") = Len(g) + 0 + 1
      BY <1>3, <3>1 DEF Taken
    <3> HIDE DEF v
    <3> QED
      BY <1>1, <2>3, <3>2, <3>3
  <2>6. AddrOk'
    BY <2>2 DEF AddrOk, NoTask
  <2>7. FramesOk'
    BY <1>2 DEF LocalOk, FramesOk
  <2>8. InboxOk("toLocal")'
    BY <1>2, <1>4, <2>2, <2>5, InboxFrame, Two
  <2> HIDE DEF v, e, t
  <2>9. LocalStream'
    BY <1>2, <2>3, <2>4, LocalAfter
  <2> QED
    BY <2>6, <2>7, <2>8, <2>9 DEF LocalOk
<1>7. CASE ~writable
  <2>1. got' = got /\ (reason' = "none" => reason = "none")
    BY <1>2, <1>7, ReturnFacts, Two DEF PollSendTo
  <2> QED
    BY <1>2, <1>7, <2>1, LocalFrame
<1> QED
  BY <1>6, <1>7

\* The answer belongs to the datagram that waits for it.
LEMMA LocalResolve ==
  ASSUME TypeOK, LocalOk, StartResolve \/ AwaitResolve \/ Resolved \/ Resolve
  PROVE  LocalOk'
<1>1. /\ UNCHANGED <<side, buffer, copy, got, due, inbox>> /\ (reason' = "none" => reason = "none")
      /\ Datagram' = Datagram
  BY ReturnFacts, Two DEF StartResolve, AwaitResolve, Resolved, Resolve, netVars, taskVars, Datagram
<1>2. AddrOk /\ addr_task \in ResolveAddrs
  BY DEF LocalOk, TypeOK
<1>3. lookup \in [Names -> Ips] /\ Ips \cap Names = {} /\ "dropped" \notin Ips /\ "dropped" \notin Names
  BY AddrAssumption DEF Addrs
<1>4. CASE StartResolve
  <2>1. side = "server" /\ copy["toLocal"].buf # <<>>
    BY <1>4 DEF StartResolve, Writing
  <2>2. Datagram.addr \in Ips \cup Names
    BY <2>1, DatagramType DEF Addrs
  <2>3. CASE Datagram.addr \in Ips
    <3>1. addr_task'.state = "Ready" /\ addr_task'.ip = Datagram.addr
      BY <1>4, <2>3 DEF StartResolve, NoTask
    <3>2. Datagram.addr = Target("toLocal", Datagram.addr)
      BY <1>3, <2>3 DEF Target
    <3>3. AddrOk'
      BY <1>1, <1>2, <2>1, <3>1, <3>2 DEF AddrOk, Target
    <3> QED
      BY <1>1, <3>3, LocalFrame
  <2>4. CASE Datagram.addr \notin Ips
    <3>1. addr_task'.state = "Pending" /\ answer' = Datagram.addr
      BY <1>4, <2>4 DEF StartResolve, NoTask
    <3>2. AddrOk'
      BY <1>1, <1>2, <2>1, <2>2, <2>4, <3>1 DEF AddrOk
    <3> QED
      BY <1>1, <3>2, LocalFrame
  <2> QED
    BY <2>3, <2>4
<1>5. CASE AwaitResolve
  <2>1. addr_task'.state = "Pending" /\ addr_task.state = "Pending" /\ answer' = answer
    BY <1>2, <1>5 DEF AwaitResolve, ResolveAddrs
  <2>2. AddrOk'
    BY <1>1, <1>2, <2>1 DEF AddrOk
  <2> QED
    BY <1>1, <2>2, LocalFrame
<1>6. CASE Resolved
  <2>1. /\ side = "server" /\ copy["toLocal"].buf # <<>> /\ addr_task.state = "Pending" /\ answer \in Ips
        /\ addr_task'.state = "Ready" /\ addr_task'.ip = answer
    BY <1>6 DEF Resolved, Writing, NoTask
  <2>2. answer = lookup[Datagram.addr] /\ Datagram.addr \in Names
    BY <1>2, <1>3, <2>1 DEF AddrOk
  <2>3. AddrOk'
    BY <1>1, <1>2, <2>1, <2>2 DEF AddrOk, Target
  <2> QED
    BY <1>1, <2>3, LocalFrame
<1>7. CASE Resolve
  <2>1. answer \in Names /\ answer' \in {lookup[answer], "dropped"} /\ addr_task' = addr_task
    BY <1>7 DEF Resolve
  <2>2. addr_task.state = "Pending" => answer = Datagram.addr
    BY <1>2, <1>3, <2>1 DEF AddrOk
  <2>3. AddrOk'
    BY <1>1, <1>2, <2>1, <2>2 DEF AddrOk, Target
  <2> QED
    BY <1>1, <2>3, LocalFrame
<1> QED
  BY <1>4, <1>5, <1>6, <1>7

LEMMA LocalStep ==
  ASSUME TypeOK, TypeOK', LocalOk, Control, [Next]_vars
  PROVE  LocalOk'
<1> DEFINE Kept == /\ UNCHANGED <<side, buffer, addr_task, answer>> /\ got'["toLocal"] = got["toLocal"]
                   /\ due'["toLocal"] = due["toLocal"] /\ inbox'["tunnel"] = inbox["tunnel"]
                   /\ copy'["toLocal"].buf = copy["toLocal"].buf
                   /\ copy["toLocal"].read_done => copy'["toLocal"].read_done
                   /\ reason' = "none" => reason = "none"
<1>1. Kept => LocalOk'
  BY LocalFrame
<1>2. /\ copy \in [Directions -> TransferStates] /\ inbox \in [Ends -> Seq(Received)] /\ due \in [Directions -> Seq(Sent)]
      /\ got \in [Directions -> Seq(Sent)]
      /\ "toTunnel" \in Directions /\ "toLocal" \in Directions /\ "toLocal" \in Directions \ {"toTunnel"}
      /\ "tunnel" \in Ends \ {"local"} /\ "local" \in Ends
      /\ Source("toTunnel") = "local" /\ Source("toLocal") = "tunnel"
  BY Two DEF TypeOK, Ends, Source
<1>3. CASE ArriveTunnel
  BY <1>3, LocalArrive DEF ArriveTunnel
<1>4. CASE ArriveLocal
  <2> PICK x \in Inputs[side]["local"] : Arrive("toTunnel", x)
    BY <1>4 DEF ArriveLocal
  <2>1. Kept
    BY <1>2 DEF Arrive, localVars, taskVars
  <2> QED
    BY <1>1, <2>1
<1>5. CASE EndTunnel \/ SendReset \/ Stop \/ Drain \/ ReceiveTunnel
  <2>1. Kept
    BY <1>2, <1>5 DEF EndTunnel, SendReset, Stop, Drain, ReceiveTunnel, netVars, localVars, taskVars
  <2> QED
    BY <1>1, <2>1
<1>6. CASE Resolve \/ StartResolve \/ AwaitResolve \/ Resolved
  BY <1>6, LocalResolve
<1>7. CASE Poll \/ UNCHANGED vars
  <2>1. Kept
    BY <1>7 DEF Poll, vars, netVars, localVars, taskVars
  <2> QED
    BY <1>1, <2>1
<1>8. CASE Socks5Write \/ SendTo
  BY <1>8, LocalSocks5, LocalSendTo
<1>9. CASE Socks5WriteTooEarly \/ ResolveFailed
  <2>1. Kept
    BY <1>9 DEF Socks5WriteTooEarly, ResolveFailed, Err, netVars, localVars
  <2> QED
    BY <1>1, <2>1
<1>10. CASE ReadDatagram("toLocal")
  BY <1>10, LocalRead
<1>11. ASSUME NEW d \in Directions, ReturnDone(d) \/ Fail(d) PROVE LocalOk'
  <2>1. reason' = "none" => reason = "none"
    BY <1>11, ReturnFacts DEF ReturnDone, Fail, Err
  <2>2. Kept
    BY <1>11, <2>1 DEF ReturnDone, Fail, netVars, localVars
  <2> QED
    BY <1>1, <2>2
<1>12. CASE \/ WriteTunnel \/ WriteTunnelPending \/ ReadDatagram("toTunnel")
            \/ \E d \in Directions : ReadEnd(d) \/ ReadPending(d) \/ ShutDown(d)
  <2>1. UNCHANGED <<side, buffer, addr_task, answer, due, got>>
    BY <1>12 DEF WriteTunnel, WriteTunnelPending, ReadDatagram, ReadEnd, ReadPending, ShutDown, netVars, localVars
  <2>2. inbox'["tunnel"] = inbox["tunnel"]
    BY <1>2, <1>12 DEF WriteTunnel, WriteTunnelPending, ReadDatagram, ReadEnd, ReadPending, ShutDown, netVars
  <2>3. /\ copy'["toLocal"].buf = copy["toLocal"].buf
        /\ copy["toLocal"].read_done => copy'["toLocal"].read_done
    <3>1. CASE WriteTunnel \/ WriteTunnelPending
      <4>1. copy' = copy \/ Written("toTunnel")
        BY <3>1 DEF WriteTunnel, WriteTunnelPending
      <4> QED
        BY <1>2, <4>1, SetWritten
    <3>2. CASE ReadDatagram("toTunnel")
      <4>1. \A c \in Directions \ {"toTunnel"} : copy'[c] = copy[c]
        <5> DEFINE x == Head(inbox[Source("toTunnel")])
        <5>1. x = Head(inbox[Source("toTunnel")])
          OBVIOUS
        <5> HIDE DEF x
        <5> QED
          BY <1>2, <3>2, <5>1, ReadFacts
      <4> QED
        BY <1>2, <4>1
    <3>3. ASSUME NEW d \in Directions, ReadEnd(d)
          PROVE  copy'["toLocal"].buf = copy["toLocal"].buf /\ (copy["toLocal"].read_done => copy'["toLocal"].read_done)
      BY <1>2, <3>3, SetReadDone DEF ReadEnd, ReadDone
    <3>4. ASSUME NEW d \in Directions, ReadPending(d)
          PROVE  copy'["toLocal"].buf = copy["toLocal"].buf /\ copy["toLocal"].read_done = copy'["toLocal"].read_done
      <4>1. \E y \in BOOLEAN : copy' = [copy EXCEPT ![d].need_flush = y]
        <5>1. (~Flushes) \in BOOLEAN /\ FALSE \in BOOLEAN
          OBVIOUS
        <5>2. copy' = [copy EXCEPT ![d].need_flush = ~Flushes] \/ copy' = [copy EXCEPT ![d].need_flush = FALSE]
          BY <3>4 DEF ReadPending
        <5> QED
          BY <5>1, <5>2
      <4> QED
        BY <1>2, <4>1, SetNeedFlush
    <3>5. ASSUME NEW d \in Directions, ShutDown(d)
          PROVE  copy'["toLocal"].buf = copy["toLocal"].buf /\ copy["toLocal"].read_done = copy'["toLocal"].read_done
      <4>1. \/ copy' = [copy EXCEPT ![d].state = IF @ = "Running" THEN "ShuttingDown" ELSE "Done"]
            \/ copy' = copy
        BY <3>5 DEF ShutDown
      <4> QED
        BY <1>2, <4>1, SetState
    <3> QED
      BY <1>12, <3>1, <3>2, <3>3, <3>4, <3>5
  <2>4. UNCHANGED taskVars \/ Err \/ \E d \in Directions : Return(d)
    BY <1>2, <1>12 DEF WriteTunnel, WriteTunnelPending, ReadDatagram, ReadEnd, ReadPending, ShutDown
  <2>5. reason' = "none" => reason = "none"
    BY <2>4, ReturnFacts DEF taskVars, Err
  <2> QED
    BY <1>1, <2>1, <2>2, <2>3, <2>5
<1> QED
  BY <1>3, <1>4, <1>5, <1>6, <1>7, <1>8, <1>9, <1>10, <1>11, <1>12, Two
     DEF Next, Task, World, Copy, WriteLocal
-----------------------------------------------------------------------------
(***************************************************************************)
(* The relay implements ProxyPipe: what comes in is a Write, what reaches  *)
(* the tunnel's other end or leaves the socket a Deliver, and all that the *)
(* relay does between them is invisible.                                   *)
(***************************************************************************)
LEMMA PartInit == Part(<<>>, <<>>, 0) /\ Len(<<>>) = 0
  BY DEF Part

LEMMA Invariance == Spec => []IInv
<1>1. Init => TunnelOk /\ LocalOk
  <2> SUFFICES ASSUME Init PROVE TunnelOk /\ LocalOk
    OBVIOUS
  <2>1. /\ \A d \in Directions : due[d] = <<>> /\ got[d] = <<>> /\ copy[d].buf = <<>> /\ inbox[Source(d)] = <<>>
        /\ wire = <<>> /\ held = <<>> /\ buffer = <<>> /\ inbox["tunnel"] = <<>> /\ addr_task = NoTask
    BY SourceType DEF Init, Running, Ends
  <2>2. TunnelStream /\ LocalStream /\ FramesOk /\ AddrOk
    BY <2>1, PartInit, Two DEF TunnelStream, LocalStream, FramesOk, AddrOk, Passed, NoTask
  <2>3. \A d \in Directions : Taken(d) = Len(due[d]) /\ InboxOk(d)
    <3> SUFFICES ASSUME NEW d \in Directions PROVE Taken(d) = Len(due[d]) /\ InboxOk(d)
      OBVIOUS
    <3>1. Taken(d) = 0 /\ Len(due[d]) = 0
      <4>1. /\ Len(due[d]) = 0 /\ Len(got[d]) = 0 /\ Len(copy[d].buf) = 0
            /\ Len(wire) = 0 /\ Len(held) = 0 /\ Len(buffer) = 0
        BY <2>1, PartInit
      <4>2. Len(got["toTunnel"]) = 0
        BY <2>1, PartInit, Two
      <4>3. Passed = 0
        BY <4>1, <4>2 DEF Passed
      <4> QED
        BY <4>1, <4>3 DEF Taken
    <3>2. Chain(<<>>, Taken(d) + 1, Len(due[d]) + 1) /\ Listed(d, <<>>, due[d])
      BY <3>1 DEF Chain, Listed
    <3> QED
      BY <2>1, <3>1, <3>2 DEF InboxOk
  <2> QED
    BY <2>2, <2>3, Two DEF TunnelOk, LocalOk
<1>2. WakeInv /\ WakeInv' /\ TunnelOk /\ LocalOk /\ [Next]_vars => TunnelOk' /\ LocalOk'
  BY TunnelStep, LocalStep DEF WakeInv
<1>3. WakeInv /\ TunnelOk /\ LocalOk => IInv
  BY Two DEF WakeInv, TunnelOk, LocalOk, IInv
<1> QED
  BY <1>1, <1>2, <1>3, WakeInvariance, PTL DEF Spec

\* A part that begins a sequence is a prefix of it.
LEMMA PartPrefix ==
  ASSUME NEW s \in Seq(Sent), NEW t \in Seq(Sent), Part(s, t, 0)
  PROVE  Pipe!Prefix(s, t)
<1> DEFINE p == SubSeq(t, 1, Len(s))
<1>1. Len(s) \in Nat /\ Len(t) \in Nat /\ Len(s) <= Len(t) /\ \A i \in 1..Len(s) : s[i] = t[i]
  BY DEF Part
<1>2. p \in Seq(Sent) /\ Len(p) = Len(s)
  BY <1>1
<1>3. \A i \in 1..Len(s) : p[i] = s[i]
  BY <1>1
<1> HIDE DEF p
<1>4. s = p
  BY <1>2, <1>3
<1> QED
  BY <1>1, <1>4 DEF Pipe!Prefix, p

LEMMA AppendPrefix ==
  ASSUME NEW s \in Seq(Sent), NEW x \in Sent
  PROVE  Pipe!Prefix(s, Append(s, x))
  BY DEF Pipe!Prefix

LEMMA ArrivePipe ==
  ASSUME IInv, NEW d \in Directions, NEW x \in Inputs[side][Source(d)], Arrive(d, x)
  PROVE  Pipe!Next \/ UNCHANGED <<due, got>>
<1>1. got' = got /\ TypeOK /\ InboxOk(d) /\ due \in [Directions -> Seq(Sent)]
  BY DEF Arrive, IInv, TypeOK
<1>2. due' = due \/ \E z \in Sent : due' = [due EXCEPT ![d] = Append(due[d], z)]
  BY <1>1, InboxArrive
<1>3. ASSUME NEW z \in Sent, due' = [due EXCEPT ![d] = Append(due[d], z)] PROVE Pipe!Write(d)
  <2>1. due'[d] = Append(due[d], z) /\ due[d] \in Seq(Sent) /\ \A c \in Directions \ {d} : due'[c] = due[c]
    BY <1>1, <1>3
  <2>2. Pipe!Prefix(due[d], due'[d])
    BY <2>1, AppendPrefix
  <2> QED
    BY <1>1, <2>1, <2>2 DEF Pipe!Write
<1> QED
  BY <1>1, <1>2, <1>3 DEF Pipe!Next

LEMMA DeliverPipe ==
  ASSUME IInv, IInv', NEW d \in Directions, NEW x \in Sent, due' = due,
         got' = [got EXCEPT ![d] = Append(got[d], x)]
  PROVE  Pipe!Deliver(d)
<1>1. /\ got \in [Directions -> Seq(Sent)] /\ got' \in [Directions -> Seq(Sent)] /\ due \in [Directions -> Seq(Sent)]
  BY DEF IInv, TypeOK
<1>2. got'[d] = Append(got[d], x) /\ \A c \in Directions \ {d} : got'[c] = got[c]
  BY <1>1
<1>3. Pipe!Prefix(got[d], got'[d])
  BY <1>1, <1>2, AppendPrefix
<1>4. Part(got'[d], due'[d], 0)
  <2>1. TunnelStream' /\ LocalStream'
    BY DEF IInv
  <2> QED
    BY <2>1, Two DEF TunnelStream, LocalStream
<1>5. Pipe!Prefix(got'[d], due[d])
  BY <1>1, <1>4, PartPrefix
<1> QED
  BY <1>2, <1>3, <1>5 DEF Pipe!Deliver

LEMMA StepPipe ==
  ASSUME IInv, IInv', [Next]_vars
  PROVE  Pipe!Next \/ UNCHANGED <<due, got>>
<1>1. TypeOK
  BY DEF IInv
<1>2. CASE ArriveLocal \/ ArriveTunnel
  BY <1>2, ArrivePipe, Two DEF ArriveLocal, ArriveTunnel, Source
<1>3. CASE ReceiveTunnel
  <2>1. wire \in Seq(Sent) /\ wire # <<>>
    BY <1>1, <1>3 DEF TypeOK, ReceiveTunnel
  <2>2. Head(wire) \in Sent
    BY <2>1
  <2>3. due' = due /\ got' = [got EXCEPT !["toTunnel"] = Append(got["toTunnel"], Head(wire))]
    BY <1>3 DEF ReceiveTunnel, netVars
  <2> DEFINE x == Head(wire)
  <2> HIDE DEF x
  <2>4. Pipe!Deliver("toTunnel")
    BY <2>2, <2>3, DeliverPipe, Two DEF x
  <2> QED
    BY <2>4, Two DEF Pipe!Next
<1>4. ASSUME NEW x \in Sent, PollSendTo(x), due' = due PROVE Pipe!Next \/ UNCHANGED <<due, got>>
  <2>1. got' = [got EXCEPT !["toLocal"] = Append(got["toLocal"], x)] \/ got' = got
    BY <1>4 DEF PollSendTo
  <2>2. got' = [got EXCEPT !["toLocal"] = Append(got["toLocal"], x)] => Pipe!Deliver("toLocal")
    BY <1>4, DeliverPipe, Two
  <2> QED
    BY <1>4, <2>1, <2>2, Two DEF Pipe!Next
<1>5. CASE Socks5Write
  <2> DEFINE x == IF buffer = <<>> THEN Datagram ELSE buffer[1]
  <2>1. copy["toLocal"].buf # <<>> /\ buffer \in Slot /\ PollSendTo(x) /\ due' = due
    BY <1>1, <1>5 DEF Socks5Write, Writing, TypeOK, netVars
  <2>2. x \in Sent
    BY <1>1, <2>1, DatagramType, SlotFacts
  <2> HIDE DEF x
  <2> QED
    BY <1>4, <2>1, <2>2
<1>6. CASE SendTo
  <2> DEFINE x == [id |-> Datagram.id, addr |-> addr_task.ip]
  <2>1. copy["toLocal"].buf # <<>> /\ addr_task.state = "Ready" /\ PollSendTo(x) /\ due' = due
    BY <1>6 DEF SendTo, Writing, netVars
  <2>2. x \in Sent
    BY <1>1, <2>1, DatagramType, ReadyIp DEF Sent, Addrs
  <2> HIDE DEF x
  <2> QED
    BY <1>4, <2>1, <2>2
<1>7. CASE \/ EndTunnel \/ SendReset \/ Stop \/ Drain \/ Resolve \/ Poll \/ WriteTunnel \/ WriteTunnelPending
           \/ Socks5WriteTooEarly \/ StartResolve \/ AwaitResolve \/ Resolved \/ ResolveFailed \/ UNCHANGED vars
  BY <1>7 DEF EndTunnel, SendReset, Stop, Drain, Resolve, Poll, WriteTunnel, WriteTunnelPending,
       Socks5WriteTooEarly, StartResolve, AwaitResolve, Resolved, ResolveFailed, vars, netVars
<1>8. ASSUME NEW d \in Directions, Copy(d) PROVE UNCHANGED <<due, got>>
  BY <1>8 DEF Copy, ReadDatagram, ReadEnd, ReadPending, ShutDown, ReturnDone, Fail, netVars
<1> QED
  BY <1>2, <1>3, <1>5, <1>6, <1>7, <1>8 DEF Next, Task, World, WriteLocal

\* In each direction datagrams arrive in order, once each, and each at the address it
\* was sent to or at the one its own name has been resolved to, for any mix of
\* inputs, at both sides and whatever fails (UdpCopyBuf::poll_copy,
\* ServerUdpStream::poll_proxy_stream_write, Socks5UdpStream::poll_proxy_stream_write).
THEOREM UdpRelayImplementsPipe == Spec => ImplementsPipe
<1>1. Init => Pipe!Init
  BY DEF Init, Pipe!Init
<1>2. IInv /\ IInv' /\ [Next]_vars => [Pipe!Next]_<<due, got>>
  BY StepPipe
<1> QED
  BY <1>1, <1>2, Invariance, PTL DEF Spec, ImplementsPipe, Pipe!Spec
=============================================================================

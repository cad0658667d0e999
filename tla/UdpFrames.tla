----------------------------- MODULE UdpFrames -----------------------------
(***************************************************************************)
(* Datagrams on a byte stream: one direction of a TrojanUdpStream, from    *)
(* the UdpCopyBuf that writes into it at one end of the tunnel to the one  *)
(* that reads from it at the other.                                        *)
(*                                                                         *)
(*   ATYP | DST.ADDR | DST.PORT | Length | CR LF | payload                 *)
(*                                                                         *)
(* A UdpRelayBuffer is the bytes of its Vec, the cursor in front of which  *)
(* they are used up, and the capacity of the Vec.                          *)
(***************************************************************************)
EXTENDS MixAddr

CONSTANTS
  UDP_BUFFER_SIZE,
  Growth,      \* bytes by which a Vec that is full grows (64)
  WireCap,     \* bytes in flight
  Traffic      \* set of sequences of datagrams [addr, data]

\* What MixAddrType can hold, and a datagram.
U16 == {n \in Nat : n < 65536}
MixAddrs ==
  {a \in [type : {"V4", "V6", "Hostname"}, ip : Seq(U16), port : U16] :
     a.type # "V6" => a.ip \in Seq(Byte)}
Packets == [addr : MixAddrs, data : Seq(Byte)]

ASSUME SizeAssumption == {UDP_BUFFER_SIZE, Growth, WireCap} \subseteq Nat \ {0}
ASSUME TrafficAssumption == Traffic \subseteq Seq(Packets)

VARIABLES
  traffic,     \* all that is to be sent
  datagrams,   \* those, none of them empty, that the sender's UdpCopyBuf has read
  stream,      \* bytes of all frames made of them
  bounds,      \* where in the stream these frames begin, and the last one ends
  todo,        \* what the sender has not finished, the head being in its UdpCopyBuf
  send,        \* send_buffer and data_len
  wire,        \* bytes in flight
  ended,       \* the sender's side of the tunnel is closed
  broken,      \* the tunnel has failed
  prefix,      \* BufferedRecv: bytes the acceptor has read behind the request
  recv,        \* recv_buffer, expecting and addr_buf
  want_to_extract,
  count,       \* bytes the receiver has read
  delivered,   \* datagrams the receiver's UdpCopyBuf has got
  state        \* of the receiver: "accepting", "open", "eof", "failed" or "panicked"

historyVars == <<traffic, datagrams, stream, bounds>>
vars == <<historyVars, todo, send, wire, ended, broken, prefix, recv, want_to_extract, count, delivered, state>>

None == -1
-----------------------------------------------------------------------------
(***************************************************************************)
(* UdpRelayBuffer.                                                         *)
(***************************************************************************)
New == [inner |-> <<>>, cursor |-> 0, cap |-> UDP_BUFFER_SIZE]

chunk(b) == SubSeq(b.inner, b.cursor + 1, Len(b.inner))
remaining(b) == Len(b.inner) - b.cursor
Atmost(m, n) == IF m < n THEN m ELSE n
Atleast(m, n) == IF m < n THEN n ELSE m

\* A Vec grows when it has to.
extend_from_slice(b, s) ==
  [b EXCEPT !.inner = @ \o s, !.cap = Atleast(@, Len(b.inner) + Len(s))]

reset(b) == [b EXCEPT !.inner = <<>>, !.cursor = 0]
compact(b) == [b EXCEPT !.inner = chunk(b), !.cursor = 0]

reserve_by_cursor(b, len) ==
  IF len + b.cursor <= b.cap THEN b
  ELSE extend_from_slice([inner |-> <<>>, cursor |-> 0, cap |-> len], chunk(b))

\* Mutant: what is free is offered, and no more.
OfferFree(b) == b

\* What a read may fill; a Vec that is full grows first.
as_read_buf(b) == IF Len(b.inner) = b.cap THEN [b EXCEPT !.cap = @ + Growth] ELSE b
-----------------------------------------------------------------------------
(***************************************************************************)
(* The sender.                                                             *)
(***************************************************************************)
Frame(d) == write_buf(d.addr) \o to_be_bytes(Len(d.data) % 65536) \o CRLF \o d.data

copy_into_inner(s, d) ==
  [buf |-> extend_from_slice(reserve_by_cursor(s.buf, Len(Frame(d))), Frame(d)),
   data_len |-> Len(d.data)]

\* Mutant: the frame is copied again by every call.
FillAlways(d) == [copy_into_inner(send, d) EXCEPT !.buf = extend_from_slice(reset(send.buf), Frame(d))]

\* The head of poll_proxy_stream_write.
Filled(d) == IF send.buf.inner = <<>> THEN copy_into_inner(send, d) ELSE send

Sending == todo # <<>> /\ ~ended

\* The datagram to write that UdpCopyBuf reads when the first of s is the next.
NextOf(s) == IF s # <<>> /\ Head(s).data # <<>> THEN <<Head(s)>> ELSE <<>>

\* UdpCopyBuf: a datagram of no bytes is not written, and the next one is read.
SkipEmpty ==
  /\ Sending /\ Head(todo).data = <<>>
  /\ todo' = Tail(todo) /\ datagrams' = datagrams \o NextOf(Tail(todo))
  /\ UNCHANGED <<traffic, stream, bounds, send, wire, ended, broken, prefix, recv, want_to_extract, count, delivered, state>>

\* UdpCopyBuf: the n bytes that a write reports are used up.
Advance(n) ==
  IF n = Len(Head(todo).data) THEN Tail(todo)
  ELSE <<[Head(todo) EXCEPT !.data = SubSeq(@, n + 1, Len(@))]>> \o Tail(todo)

\* The tunnel accepts x bytes of the frame; the call goes on or is made again.
PollWrite(x) ==
  /\ Sending /\ Head(todo).data # <<>>
  /\ Len(wire) + x <= WireCap
  /\ \E s \in {Filled(Head(todo))} :
       /\ x <= remaining(s.buf)
       /\ wire' = wire \o SubSeq(chunk(s.buf), 1, x)
       /\ IF x < remaining(s.buf)
            THEN /\ send' = [s EXCEPT !.buf.cursor = @ + x]
                 /\ UNCHANGED <<todo, datagrams>>
            ELSE /\ send' = [s EXCEPT !.buf = reset(@)]
                 /\ todo' = Advance(s.data_len)
                 /\ datagrams' = datagrams \o NextOf(Tail(todo))
  /\ IF send.buf.inner = <<>>
       THEN /\ stream' = stream \o Frame(Head(todo))
            /\ bounds' = Append(bounds, Len(stream'))
       ELSE UNCHANGED <<stream, bounds>>
  /\ UNCHANGED <<traffic, ended, broken, prefix, recv, want_to_extract, count, delivered, state>>

\* poll_shutdown when all has been sent.
Shutdown ==
  /\ todo = <<>> /\ ~ended
  /\ ended' = TRUE
  /\ UNCHANGED <<historyVars, todo, send, wire, broken, prefix, recv, want_to_extract, count, delivered, state>>

\* The tunnel fails, or the sender's relay ends, in the middle of anything.
Break ==
  /\ ~ended
  /\ ended' = TRUE /\ broken' = TRUE
  /\ UNCHANGED <<historyVars, todo, send, wire, prefix, recv, want_to_extract, count, delivered, state>>
-----------------------------------------------------------------------------
(***************************************************************************)
(* The receiver.  r is its buffer, expecting and addr_buf with the result  *)
(* of the last step: "Ok", "Incomplete", "Invalid" or "Panic".             *)
(***************************************************************************)
try_update_addr_buf(r) ==
  IF r.addr # NoAddr THEN r
  ELSE LET d == from_encoded_bytes(chunk(r.buf))
       IN [r EXCEPT !.res = d.res, !.addr = d.addr, !.buf.cursor = @ + d.len]

\* Mutant: the length is looked for before it is there.
ExpectEarly(r) ==
  IF r.expecting # None THEN r
  ELSE IF remaining(r.buf) < 4 THEN [r EXCEPT !.res = "Panic"]
  ELSE [r EXCEPT !.expecting = from_be_bytes(chunk(r.buf)[1], chunk(r.buf)[2]), !.buf.cursor = @ + 4]

\* Mutant: advance without its assertion.
AdvanceUnchecked(r) ==
  IF r.expecting # None THEN r
  ELSE IF remaining(r.buf) < 2 THEN [r EXCEPT !.res = "Incomplete"]
  ELSE [r EXCEPT !.expecting = from_be_bytes(chunk(r.buf)[1], chunk(r.buf)[2]), !.buf.cursor = @ + 4]

\* Two bytes are waited for and four are used up: the assertion of advance fails
\* if the CR LF is not there yet.
try_update_expecting(r) ==
  IF r.expecting # None THEN r
  ELSE IF remaining(r.buf) < 2 THEN [r EXCEPT !.res = "Incomplete"]
  ELSE IF remaining(r.buf) < 4 THEN [r EXCEPT !.res = "Panic"]
  ELSE LET len == from_be_bytes(chunk(r.buf)[1], chunk(r.buf)[2])
       IN [r EXCEPT !.expecting = len,
                    !.buf = reserve_by_cursor([r.buf EXCEPT !.cursor = @ + 4], len)]

\* What copy_into_outer leaves, with the address taken out.
copy_into_outer(r) ==
  [r EXCEPT !.buf = compact([r.buf EXCEPT !.cursor = @ + r.expecting]), !.expecting = None, !.addr = NoAddr]

\* The two updates of try_extract_packet, and whether a packet is there.
Updated(r) ==
  LET a == try_update_addr_buf([r EXCEPT !.res = "Ok"])
      e == IF a.res = "Ok" THEN try_update_expecting(a) ELSE a
  IN IF e.res = "Ok" /\ e.expecting > remaining(e.buf) THEN [e EXCEPT !.res = "Incomplete"] ELSE e

\* Mutant: after a packet the receiver goes on with a read.
ReadAfterPacket ==
  /\ state = "open" /\ want_to_extract
  /\ \E u \in {Updated(recv)} :
       /\ want_to_extract' = FALSE
       /\ recv' = IF u.res = "Ok" THEN copy_into_outer(u) ELSE u
       /\ delivered' = IF u.res # "Ok" THEN delivered
                       ELSE Append(delivered, [addr |-> u.addr, data |-> SubSeq(chunk(u.buf), 1, u.expecting)])
       /\ state' = CASE u.res = "Panic" -> "panicked" [] u.res = "Invalid" -> "failed" [] OTHER -> "open"
  /\ UNCHANGED <<historyVars, todo, send, wire, ended, broken, prefix, count>>

\* The first half of the loop of poll_proxy_stream_read.  The receiver's UdpCopyBuf
\* comes back for more after every packet, and drops one that is empty.
try_extract_packet ==
  /\ state = "open" /\ want_to_extract
  /\ \E u \in {Updated(recv)} :
       /\ want_to_extract' = (u.res = "Ok")
       /\ recv' = IF u.res = "Ok" THEN copy_into_outer(u) ELSE u
       /\ delivered' = IF u.res # "Ok" \/ u.expecting = 0 THEN delivered
                       ELSE Append(delivered, [addr |-> u.addr, data |-> SubSeq(chunk(u.buf), 1, u.expecting)])
       /\ state' = CASE u.res = "Panic" -> "panicked" [] u.res = "Invalid" -> "failed" [] OTHER -> "open"
  /\ UNCHANGED <<historyVars, todo, send, wire, ended, broken, prefix, count>>

\* The second half: n bytes are read.  None means the end of the stream, also if
\* there was no room for one.
Took(n, from) ==
  IF n = 0 THEN state' = "eof" /\ UNCHANGED <<recv, want_to_extract, count>>
  ELSE /\ recv' = [recv EXCEPT !.buf = [as_read_buf(recv.buf) EXCEPT !.inner = @ \o SubSeq(from, 1, n)]]
       /\ want_to_extract' = TRUE
       /\ count' = count + n
       /\ UNCHANGED state

Room == as_read_buf(recv.buf).cap - Len(recv.buf.inner)

PollRead(n) ==
  /\ state = "open" /\ ~want_to_extract /\ prefix = <<>>
  /\ n <= Atmost(Room, Len(wire))
  /\ n = 0 => Room = 0 \/ (ended /\ wire = <<>>)
  /\ Took(n, wire)
  /\ wire' = SubSeq(wire, n + 1, Len(wire))
  /\ UNCHANGED <<historyVars, todo, send, ended, broken, prefix, delivered>>

\* BufferedRecv: the first read is what the acceptor has left, all of it.
PollReadBuffered ==
  /\ state = "open" /\ ~want_to_extract /\ prefix # <<>>
  /\ Took(Len(prefix), prefix)
  /\ prefix' = <<>>
  /\ UNCHANGED <<historyVars, todo, send, wire, ended, broken, delivered>>
-----------------------------------------------------------------------------
Init ==
  /\ traffic \in Traffic
  /\ datagrams = NextOf(traffic) /\ stream = <<>> /\ bounds = <<0>>
  /\ todo = traffic /\ send = [buf |-> New, data_len |-> 0]
  /\ wire = <<>> /\ ended = FALSE /\ broken = FALSE
  /\ prefix = <<>>
  /\ recv = [buf |-> New, expecting |-> None, addr |-> NoAddr, res |-> "Ok"]
  /\ want_to_extract = FALSE /\ count = 0
  /\ delivered = <<>> /\ state = "accepting"

\* TrojanUdpStream::new: n bytes have been read together with the request.
Start(n) ==
  /\ state = "accepting" /\ n <= Atmost(UDP_BUFFER_SIZE, Len(wire))
  /\ prefix' = SubSeq(wire, 1, n)
  /\ wire' = SubSeq(wire, n + 1, Len(wire))
  /\ state' = "open"
  /\ UNCHANGED <<historyVars, todo, send, ended, broken, recv, want_to_extract, count, delivered>>

Receive ==
  \/ try_extract_packet \/ PollReadBuffered
  \/ \E n \in 0..WireCap : Start(n) \/ PollRead(n)
Send == SkipEmpty \/ Shutdown \/ \E x \in 1..WireCap : PollWrite(x)
Next == Send \/ Receive \/ Break

Spec == Init /\ [][Next]_vars

\* Both relays are polled when their streams are ready.
FairSpec == Spec /\ WF_vars(Send) /\ WF_vars(Receive)
-----------------------------------------------------------------------------
(***************************************************************************)
(* Properties.                                                             *)
(***************************************************************************)

UdpRelayBuffers ==
  {b \in [inner : Seq(Byte), cursor : Nat, cap : Nat] : b.cursor <= Len(b.inner) /\ Len(b.inner) <= b.cap}
Receivers ==
  [buf : UdpRelayBuffers, expecting : Nat \cup {None}, addr : MixAddrs \cup {NoAddr},
   res : {"Ok", "Incomplete", "Invalid", "Panic"}]

\* Every variable has its type, and of a UdpRelayBuffer the cursor is inside the
\* bytes and the bytes inside the capacity.
TypeOK ==
  /\ traffic \in Seq(Packets) /\ todo \in Seq(Packets)
  /\ datagrams \in Seq(Packets) /\ delivered \in Seq(Packets)
  /\ stream \in Seq(Byte) /\ bounds \in Seq(Nat)
  /\ send \in [buf : UdpRelayBuffers, data_len : Nat]
  /\ recv \in Receivers
  /\ wire \in Seq(Byte) /\ Len(wire) <= WireCap
  /\ prefix \in Seq(Byte) /\ Len(prefix) <= UDP_BUFFER_SIZE
  /\ ended \in BOOLEAN /\ broken \in BOOLEAN /\ want_to_extract \in BOOLEAN /\ count \in Nat
  /\ state \in {"accepting", "open", "eof", "failed", "panicked"}

Framed == SubSeq(datagrams, 1, Len(bounds) - 1)

\* However frames are cut by writes and reads, datagrams arrive whole, in order,
\* once each and with their addresses: the tunnel is a pipe of datagrams.
Pipe == INSTANCE ProxyPipe WITH
          Directions <- {"udp"},
          written <- [d \in {"udp"} |-> Framed],
          delivered <- [d \in {"udp"} |-> delivered]
ImplementsPipe == Pipe!Spec

\* A buffer that is full, or one that has shrunk to the length of a datagram, is
\* never mistaken for the end of the stream.
EofIsEnd == state = "eof" => ended /\ wire = <<>> /\ prefix = <<>>

\* The one cut that the receiver does not survive is right behind the length or
\* inside the CR LF after it; no address and no payload makes it fail.
OnlyCutLengthPanics ==
  state \in {"failed", "panicked"} =>
    \E i \in 1..(Len(bounds) - 1) : count - bounds[i] - Len(write_buf(datagrams[i].addr)) \in {2, 3}

NotEmpty(d) == d.data # <<>>
\* Every datagram arrives unless the tunnel breaks or the receiver has panicked: no
\* frame is left in the buffer because nothing follows it.
AllDelivered == <>(broken \/ state = "panicked" \/ delivered = SelectSeq(traffic, NotEmpty))
=============================================================================

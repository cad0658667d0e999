--------------------------- MODULE UdpFramesProofs ---------------------------
(***************************************************************************)
(* Theorems about UdpFrames, for buffers, wires and datagrams of any size: *)
(* the type invariant, which is the arithmetic of cursor, length and       *)
(* capacity of the two UdpRelayBuffers; that only the end of the stream is *)
(* taken for its end; and, for datagrams that their encoding can express,  *)
(* that frames implement ProxyPipe however they are cut, and which cut     *)
(* ends the receiver.                                                      *)
(***************************************************************************)
EXTENDS UdpFrames, TLAPS

\* A datagram that its frame can express: its length fits, and its address is an
\* IPv4 one or a host name that the length byte and from_utf8 admit.  Of an IPv6
\* address from_encoded_bytes makes another one.
Fits(n) == n < 65536
Expressible(d) ==
  /\ Fits(Len(d.data))
  /\ \/ d.addr.type = "V4" /\ Len(d.addr.ip) = V4Len
     \/ d.addr.type = "Hostname" /\ Len(d.addr.ip) <= 255 /\ from_utf8_ok(d.addr.ip)
AllExpressible == \A t \in Traffic : \A i \in 1..Len(t) : Expressible(t[i])

\* What the proof needs of it: the address is read back from its encoding.
Survives(d) ==
  /\ Fits(Len(d.data))
  /\ from_encoded_bytes(write_buf(d.addr)) =
       [res |-> "Ok", len |-> Len(write_buf(d.addr)), addr |-> d.addr]
Sound == \A t \in Traffic : \A i \in 1..Len(t) : Survives(t[i])

\* Nothing is read before what the acceptor has left.
FirstRead ==
  /\ state = "accepting" \/ prefix # <<>> => recv.buf = New /\ ~want_to_extract
  /\ state = "accepting" => prefix = <<>>

TInv == TypeOK /\ FirstRead /\ EofIsEnd

\* s is what t has after its first k members.
Part(s, t, k) == k + Len(s) <= Len(t) /\ \A i \in 1..Len(s) : s[i] = t[k + i]

\* The stream is made of frames.
FramesOk ==
  /\ bounds # <<>> /\ bounds[1] = 0 /\ bounds[Len(bounds)] = Len(stream)
  /\ Len(bounds) <= Len(datagrams) + 1
  /\ \A i \in 1..(Len(bounds) - 1) :
       /\ bounds[i + 1] = bounds[i] + Len(Frame(datagrams[i]))
       /\ Part(Frame(datagrams[i]), stream, bounds[i])

\* The last datagram read is the one at the head, and it has been framed exactly if
\* there is something in the buffer.
SenderOk ==
  /\ \A i \in 1..Len(todo) : Survives(todo[i])
  /\ \A i \in 1..Len(datagrams) : Survives(datagrams[i]) /\ datagrams[i].data # <<>>
  /\ NextOf(todo) # <<>> => datagrams # <<>> /\ datagrams[Len(datagrams)] = Head(todo)
  /\ NextOf(todo) = <<>> => send.buf.inner = <<>> /\ Len(bounds) = Len(datagrams) + 1
  /\ send.buf.inner # <<>> => send.data_len = Len(Head(todo).data) /\ Len(bounds) = Len(datagrams) + 1
  /\ NextOf(todo) # <<>> /\ send.buf.inner = <<>> => Len(bounds) = Len(datagrams)

\* The bytes of the stream lie in order over the places they pass through.
StreamOk ==
  /\ remaining(recv.buf) <= count
  /\ Part(chunk(recv.buf), stream, count - remaining(recv.buf))
  /\ Part(prefix, stream, count)
  /\ Part(wire, stream, count + Len(prefix))
  /\ Part(chunk(send.buf), stream, count + Len(prefix) + Len(wire))
  /\ Len(stream) = count + Len(prefix) + Len(wire) + remaining(send.buf)

\* The receiver has got the first datagrams and stands where it should in the frame
\* of the next.  r is the receiver with its buffer, k how many it has got.
At(r) == count - remaining(r.buf)
Standing(r, k) ==
  /\ r.addr = NoAddr => r.expecting = None /\ At(r) = bounds[k + 1]
  /\ r.addr # NoAddr =>
       /\ k + 1 < Len(bounds) /\ r.addr = datagrams[k + 1].addr
       /\ r.expecting = None => At(r) = bounds[k + 1] + Len(write_buf(r.addr))
       /\ r.expecting # None =>
            /\ r.expecting = Len(datagrams[k + 1].data)
            /\ At(r) = bounds[k + 1] + Len(write_buf(r.addr)) + 4
ReceiverOk ==
  /\ Len(delivered) < Len(bounds)
  /\ \A i \in 1..Len(delivered) : delivered[i] = datagrams[i]
  /\ Standing(recv, Len(delivered))
  /\ state # "failed"

IInv == TInv /\ FramesOk /\ SenderOk /\ StreamOk /\ ReceiverOk /\ OnlyCutLengthPanics
-----------------------------------------------------------------------------
(***************************************************************************)
(* UdpRelayBuffer.                                                         *)
(***************************************************************************)
LEMMA Sizes ==
  /\ UDP_BUFFER_SIZE \in Nat \ {0} /\ Growth \in Nat \ {0} /\ WireCap \in Nat \ {0}
  /\ V4Len \in Nat \ {0} /\ V6Len \in Nat \ {0}
  BY SizeAssumption, LengthAssumption

LEMMA BufferParts ==
  ASSUME NEW b \in UdpRelayBuffers
  PROVE  /\ b \in [inner : Seq(Byte), cursor : Nat, cap : Nat]
         /\ b.inner \in Seq(Byte) /\ Len(b.inner) \in Nat /\ b.cursor \in Nat /\ b.cap \in Nat
         /\ b.cursor <= Len(b.inner) /\ Len(b.inner) <= b.cap
         /\ chunk(b) \in Seq(Byte) /\ Len(chunk(b)) = remaining(b) /\ remaining(b) \in Nat
         /\ \A i \in 1..remaining(b) : chunk(b)[i] = b.inner[b.cursor + i]
<1>1. /\ b \in [inner : Seq(Byte), cursor : Nat, cap : Nat]
      /\ b.cursor <= Len(b.inner) /\ Len(b.inner) <= b.cap
  BY DEF UdpRelayBuffers
<1>2. b.inner \in Seq(Byte) /\ Len(b.inner) \in Nat /\ b.cursor \in Nat /\ b.cap \in Nat
  BY <1>1
<1> QED
  BY <1>1, <1>2 DEF chunk, remaining

LEMMA BufferIs ==
  ASSUME NEW s \in Seq(Byte), NEW c \in Nat, NEW k \in Nat, c <= Len(s), Len(s) <= k
  PROVE  [inner |-> s, cursor |-> c, cap |-> k] \in UdpRelayBuffers
  BY DEF UdpRelayBuffers

LEMMA EmptyBuffer ==
  ASSUME NEW k \in Nat
  PROVE  [inner |-> <<>>, cursor |-> 0, cap |-> k] \in UdpRelayBuffers
<1> DEFINE s == <<>>
<1>1. s \in Seq(Byte) /\ Len(s) = 0
  OBVIOUS
<1> HIDE DEF s
<1>2. [inner |-> s, cursor |-> 0, cap |-> k] \in UdpRelayBuffers
  BY <1>1 DEF UdpRelayBuffers
<1> QED
  BY <1>2 DEF s

LEMMA NewType ==
  /\ New \in UdpRelayBuffers
  /\ New.inner = <<>> /\ New.cursor = 0 /\ New.cap = UDP_BUFFER_SIZE
  BY Sizes, EmptyBuffer DEF New

\* A buffer with some of its fields changed.
Records == [inner : Seq(Byte), cursor : Nat, cap : Nat]

LEMMA RecordExcept ==
  ASSUME NEW b \in Records, NEW s \in Seq(Byte), NEW c \in Nat, NEW k \in Nat
  PROVE  /\ [b EXCEPT !.inner = s] = [inner |-> s, cursor |-> b.cursor, cap |-> b.cap]
         /\ [b EXCEPT !.cursor = c] = [inner |-> b.inner, cursor |-> c, cap |-> b.cap]
         /\ [b EXCEPT !.cap = k] = [inner |-> b.inner, cursor |-> b.cursor, cap |-> k]
         /\ [b EXCEPT !.inner = s] \in Records
  BY DEF Records

LEMMA BufferExcept ==
  ASSUME NEW b \in UdpRelayBuffers, NEW s \in Seq(Byte), NEW c \in Nat, NEW k \in Nat
  PROVE  /\ [b EXCEPT !.inner = s] = [inner |-> s, cursor |-> b.cursor, cap |-> b.cap]
         /\ [b EXCEPT !.cursor = c] = [inner |-> b.inner, cursor |-> c, cap |-> b.cap]
         /\ [b EXCEPT !.cap = k] = [inner |-> b.inner, cursor |-> b.cursor, cap |-> k]
         /\ [b EXCEPT !.inner = s, !.cursor = c] = [inner |-> s, cursor |-> c, cap |-> b.cap]
         /\ [b EXCEPT !.inner = s, !.cap = k] = [inner |-> s, cursor |-> b.cursor, cap |-> k]
<1> DEFINE x == [b EXCEPT !.inner = s]
<1>1. b \in Records
  BY DEF UdpRelayBuffers, Records
<1>2. /\ x = [inner |-> s, cursor |-> b.cursor, cap |-> b.cap] /\ x \in Records
      /\ [b EXCEPT !.cursor = c] = [inner |-> b.inner, cursor |-> c, cap |-> b.cap]
      /\ [b EXCEPT !.cap = k] = [inner |-> b.inner, cursor |-> b.cursor, cap |-> k]
  BY <1>1, RecordExcept
<1>3. x.inner = s /\ x.cursor = b.cursor /\ x.cap = b.cap
  BY <1>2
<1> HIDE DEF x
<1>4. /\ [x EXCEPT !.cursor = c] = [inner |-> x.inner, cursor |-> c, cap |-> x.cap]
      /\ [x EXCEPT !.cap = k] = [inner |-> x.inner, cursor |-> x.cursor, cap |-> k]
  BY <1>2, RecordExcept
<1>5. /\ [x EXCEPT !.cursor = c] = [inner |-> s, cursor |-> c, cap |-> b.cap]
      /\ [x EXCEPT !.cap = k] = [inner |-> s, cursor |-> b.cursor, cap |-> k]
  BY <1>3, <1>4, Zenon
<1> QED
  BY <1>2, <1>5, Zenon DEF x

LEMMA ExtendType ==
  ASSUME NEW b \in UdpRelayBuffers, NEW s \in Seq(Byte)
  PROVE  extend_from_slice(b, s) \in UdpRelayBuffers
<1> DEFINE t == b.inner \o s
           k == Atleast(b.cap, Len(b.inner) + Len(s))
<1>1. t \in Seq(Byte) /\ Len(t) = Len(b.inner) + Len(s) /\ Len(s) \in Nat
  BY BufferParts
<1>2. k \in Nat /\ Len(t) <= k /\ b.cursor <= Len(t)
  BY <1>1, BufferParts DEF Atleast
<1>3. extend_from_slice(b, s) = [inner |-> t, cursor |-> b.cursor, cap |-> k]
  BY <1>1, <1>2, BufferExcept DEF extend_from_slice
<1> HIDE DEF t, k
<1> QED
  BY <1>1, <1>2, <1>3, BufferIs, BufferParts

LEMMA ResetType ==
  ASSUME NEW b \in UdpRelayBuffers
  PROVE  reset(b) \in UdpRelayBuffers
<1>1. reset(b) = [inner |-> <<>>, cursor |-> 0, cap |-> b.cap]
  <2> DEFINE s == <<>>
  <2>1. s \in Seq(Byte)
    OBVIOUS
  <2> HIDE DEF s
  <2>2. [b EXCEPT !.inner = s, !.cursor = 0] = [inner |-> s, cursor |-> 0, cap |-> b.cap]
    <3>1. 0 \in Nat /\ b.cap \in Nat
      BY BufferParts
    <3> QED
      BY <2>1, <3>1, BufferExcept, ZenonT(60)
  <2> QED
    BY <2>2, Zenon DEF reset, s
<1> QED
  BY <1>1, BufferParts, EmptyBuffer

\* A buffer whose cursor is at the start is all chunk.
LEMMA FreshChunk ==
  ASSUME NEW b, NEW s \in Seq(Byte), b.inner = s, b.cursor = 0
  PROVE  chunk(b) = s /\ remaining(b) = Len(s)
<1>1. SubSeq(s, 0 + 1, Len(s)) = s /\ Len(s) - 0 = Len(s)
  OBVIOUS
<1> QED
  BY <1>1, Zenon DEF chunk, remaining

LEMMA CompactType ==
  ASSUME NEW b \in UdpRelayBuffers
  PROVE  compact(b) \in UdpRelayBuffers /\ chunk(compact(b)) = chunk(b) /\ remaining(compact(b)) = remaining(b)
<1>1. compact(b) = [inner |-> chunk(b), cursor |-> 0, cap |-> b.cap]
  <2> DEFINE s == chunk(b)
  <2>1. s \in Seq(Byte)
    BY BufferParts
  <2> HIDE DEF s
  <2>2. [b EXCEPT !.inner = s, !.cursor = 0] = [inner |-> s, cursor |-> 0, cap |-> b.cap]
    <3>1. 0 \in Nat /\ b.cap \in Nat
      BY BufferParts
    <3> QED
      BY <2>1, <3>1, BufferExcept, ZenonT(60)
  <2> QED
    BY <2>2, Zenon DEF compact, s
<1>2. Len(chunk(b)) <= b.cap
  BY BufferParts DEF remaining
<1>3. compact(b).inner = chunk(b) /\ compact(b).cursor = 0
  BY <1>1
<1>4. chunk(compact(b)) = chunk(b) /\ remaining(compact(b)) = Len(chunk(b))
  BY <1>3, BufferParts, FreshChunk
<1> QED
  BY <1>1, <1>2, <1>4, BufferParts, BufferIs

LEMMA ReserveType ==
  ASSUME NEW b \in UdpRelayBuffers, NEW n \in Nat
  PROVE  /\ reserve_by_cursor(b, n) \in UdpRelayBuffers
         /\ chunk(reserve_by_cursor(b, n)) = chunk(b)
         /\ remaining(reserve_by_cursor(b, n)) = remaining(b)
<1> DEFINE e == [inner |-> <<>>, cursor |-> 0, cap |-> n]
           x == extend_from_slice(e, chunk(b))
<1>1. CASE n + b.cursor <= b.cap
  BY <1>1 DEF reserve_by_cursor
<1>2. CASE ~(n + b.cursor <= b.cap)
  <2>1. e \in UdpRelayBuffers
    BY EmptyBuffer
  <2>2. x \in UdpRelayBuffers
    BY <2>1, BufferParts, ExtendType
  <2>3. x.inner = chunk(b) /\ x.cursor = 0
    BY BufferParts DEF extend_from_slice
  <2>4. chunk(x) = chunk(b)
    BY <2>3, BufferParts, FreshChunk
  <2>5. Len(chunk(x)) = remaining(x) /\ Len(chunk(b)) = remaining(b)
    BY <2>2, BufferParts
  <2>6. reserve_by_cursor(b, n) = x
    BY <1>2 DEF reserve_by_cursor
  <2> QED
    BY <2>2, <2>4, <2>5, <2>6
<1> QED
  BY <1>1, <1>2

\* The assertion of advance: no more is used up than there is.
LEMMA AdvanceType ==
  ASSUME NEW b \in UdpRelayBuffers, NEW n \in Nat, n <= remaining(b)
  PROVE  /\ [b EXCEPT !.cursor = @ + n] \in UdpRelayBuffers
         /\ remaining([b EXCEPT !.cursor = @ + n]) = remaining(b) - n
         /\ \A i \in 1..(remaining(b) - n) : chunk([b EXCEPT !.cursor = @ + n])[i] = chunk(b)[n + i]
<1> DEFINE x == [inner |-> b.inner, cursor |-> b.cursor + n, cap |-> b.cap]
<1>1. [b EXCEPT !.cursor = @ + n] = x
  BY BufferParts, SMTT(30)
<1>2. b.cursor + n <= Len(b.inner) /\ b.cursor + n \in Nat
  BY BufferParts DEF remaining
<1>3. x \in UdpRelayBuffers
  BY <1>2, BufferParts, BufferIs
<1>4. remaining(x) = remaining(b) - n
  BY BufferParts DEF remaining
<1>5. x.inner = b.inner /\ x.cursor = b.cursor + n
  OBVIOUS
<1> HIDE DEF x
<1>6. ASSUME NEW i \in 1..(remaining(b) - n) PROVE chunk(x)[i] = chunk(b)[n + i]
  <2> DEFINE m == remaining(b)
  <2>1. m \in Nat /\ i \in 1..(m - n) /\ remaining(x) = m - n
    BY <1>4, BufferParts
  <2> HIDE DEF m
  <2>2. n + i \in 1..m /\ i \in 1..(m - n)
    BY <2>1
  <2>3. chunk(b)[n + i] = b.inner[b.cursor + (n + i)]
    BY <2>2, BufferParts DEF m
  <2>4. chunk(x)[i] = x.inner[x.cursor + i]
    BY <1>3, <2>1, <2>2, BufferParts
  <2>5. b.cursor + (n + i) = x.cursor + i
    BY <1>5, BufferParts
  <2> QED
    BY <1>5, <2>3, <2>4, <2>5
<1> QED
  BY <1>1, <1>3, <1>4, <1>6

\* A Vec that is full grows, so there is always room for a read.
LEMMA ReadBufType ==
  ASSUME NEW b \in UdpRelayBuffers
  PROVE  /\ as_read_buf(b) \in UdpRelayBuffers
         /\ as_read_buf(b).inner = b.inner /\ as_read_buf(b).cursor = b.cursor
         /\ Len(b.inner) < as_read_buf(b).cap /\ b.cap <= as_read_buf(b).cap
<1> DEFINE x == [inner |-> b.inner, cursor |-> b.cursor, cap |-> b.cap + Growth]
<1>1. CASE Len(b.inner) = b.cap
  <2>1. as_read_buf(b) = x
    BY <1>1, BufferParts DEF as_read_buf
  <2>2. b.cap + Growth \in Nat /\ Len(b.inner) < b.cap + Growth /\ b.cap <= b.cap + Growth
    BY Sizes, BufferParts
  <2>3. x \in UdpRelayBuffers
    BY <2>2, BufferParts, BufferIs
  <2> QED
    BY <2>1, <2>2, <2>3
<1>2. CASE Len(b.inner) # b.cap
  BY <1>2, BufferParts DEF as_read_buf
<1> QED
  BY <1>1, <1>2

\* A read appends to the bytes and keeps within the capacity.
LEMMA FilledType ==
  ASSUME NEW b \in UdpRelayBuffers, NEW s \in Seq(Byte), Len(b.inner) + Len(s) <= b.cap
  PROVE  [b EXCEPT !.inner = @ \o s] \in UdpRelayBuffers
<1> DEFINE t == b.inner \o s
<1>1. t \in Seq(Byte) /\ Len(t) = Len(b.inner) + Len(s) /\ Len(s) \in Nat
  BY BufferParts
<1>2. [b EXCEPT !.inner = @ \o s] = [inner |-> t, cursor |-> b.cursor, cap |-> b.cap]
  BY <1>1, BufferExcept
<1>3. b.cursor <= Len(t) /\ Len(t) <= b.cap
  BY <1>1, BufferParts
<1> HIDE DEF t
<1> QED
  BY <1>1, <1>2, <1>3, BufferParts, BufferIs
-----------------------------------------------------------------------------
(***************************************************************************)
(* Addresses and frames are bytes, and a decoded address is one.           *)
(***************************************************************************)
LEMMA IsByte ==
  ASSUME NEW n \in Nat, n <= 255
  PROVE  n \in Byte
  BY DEF Byte

LEMMA ByteIs ==
  ASSUME NEW b \in Byte
  PROVE  b \in Nat /\ b <= 255
  BY DEF Byte

LEMMA Remainders ==
  ASSUME NEW n \in Nat
  PROVE  n % 256 \in Byte /\ n % 65536 \in U16
  BY DEF Byte, U16

LEMMA FromBytes ==
  ASSUME NEW a \in Byte, NEW b \in Byte
  PROVE  from_be_bytes(a, b) \in U16
  BY DEF Byte, U16, from_be_bytes

LEMMA BeBytes ==
  ASSUME NEW n \in U16
  PROVE  to_be_bytes(n) \in Seq(Byte) /\ Len(to_be_bytes(n)) = 2
<1>1. n \in Nat /\ n <= 65535
  BY DEF U16
<1>2. n \div 256 \in Nat /\ n \div 256 <= 255 /\ n % 256 \in Nat /\ n % 256 <= 255
  BY <1>1
<1>3. n \div 256 \in Byte /\ n % 256 \in Byte
  BY <1>2, IsByte
<1> QED
  BY <1>3 DEF to_be_bytes

\* The lengths in the encoding of a host name and in a frame.
NameLength(n) == <<3, n % 256>>
FrameLength(n) == to_be_bytes(n % 65536)

LEMMA LengthBytes ==
  ASSUME NEW n \in Nat
  PROVE  NameLength(n) \in Seq(Byte) /\ FrameLength(n) \in Seq(Byte)
<1> DEFINE b == n % 256  l == n % 65536
<1>1. b \in Byte /\ l \in U16 /\ 3 \in Byte
  BY Remainders, IsByte
<1> HIDE DEF b, l
<1>2. <<3, b>> \in Seq(Byte) /\ to_be_bytes(l) \in Seq(Byte)
  BY <1>1, BeBytes
<1> QED
  BY <1>2 DEF b, l, NameLength, FrameLength

LEMMA ConcatType ==
  ASSUME NEW s \in Seq(Byte), NEW t \in Seq(Byte)
  PROVE  s \o t \in Seq(Byte) /\ Len(s \o t) = Len(s) + Len(t) /\ Len(s) \in Nat /\ Len(t) \in Nat
  OBVIOUS

LEMMA AddrParts ==
  ASSUME NEW a \in MixAddrs
  PROVE  /\ a.port \in U16 /\ a.type \in {"V4", "V6", "Hostname"}
         /\ a.ip \in Seq(U16) /\ Len(a.ip) \in Nat
         /\ a.type # "V6" => a.ip \in Seq(Byte)
<1>1. a \in [type : {"V4", "V6", "Hostname"}, ip : Seq(U16), port : U16]
  BY DEF MixAddrs
<1>2. a.type # "V6" => a.ip \in Seq(Byte)
  BY DEF MixAddrs
<1>3. /\ a.port \in U16 /\ a.type \in {"V4", "V6", "Hostname"}
      /\ a.ip \in Seq(U16)
  BY <1>1
<1> QED
  BY <1>2, <1>3

LEMMA TransmuteType ==
  ASSUME NEW ip \in Seq(U16)
  PROVE  transmute_u16s_to_u8s(ip) \in Seq(Byte) /\ Len(transmute_u16s_to_u8s(ip)) = 2 * Len(ip)
<1>1. Len(ip) \in Nat /\ 2 * Len(ip) \in Nat
  OBVIOUS
<1>2. ASSUME NEW i \in 1..(2 * Len(ip)) PROVE to_be_bytes(ip[(i + 1) \div 2])[2 - (i % 2)] \in Byte
  <2> DEFINE n == Len(ip)  j == (i + 1) \div 2  k == 2 - (i % 2)
  <2>1. n \in Nat
    BY <1>1
  <2>2. i \in Nat /\ 1 <= i /\ i <= 2 * n
    BY <1>1
  <2> HIDE DEF n
  <2>3. j \in Nat /\ 1 <= j /\ j <= n /\ k \in 1..2
    BY <2>1, <2>2
  <2>4. j \in 1..Len(ip)
    BY <2>1, <2>3 DEF n
  <2> HIDE DEF j
  <2>5. ip[j] \in U16
    BY <2>4
  <2>6. to_be_bytes(ip[j]) \in Seq(Byte) /\ Len(to_be_bytes(ip[j])) = 2
    BY <2>5, BeBytes
  <2> HIDE DEF k
  <2>7. to_be_bytes(ip[j])[k] \in Byte
    BY <2>3, <2>6
  <2> QED
    BY <2>7 DEF j, k
<1> QED
  BY <1>1, <1>2 DEF transmute_u16s_to_u8s

LEMMA WriteBufType ==
  ASSUME NEW a \in MixAddrs
  PROVE  write_buf(a) \in Seq(Byte)
<1> DEFINE p == to_be_bytes(a.port)
<1>1. p \in Seq(Byte)
  BY AddrParts, BeBytes
<1> HIDE DEF p
<1>2. CASE a.type = "Hostname"
  <2> DEFINE h == NameLength(Len(a.ip))
  <2>1. a.ip \in Seq(Byte)
    BY <1>2, AddrParts
  <2>2. h \in Seq(Byte)
    BY AddrParts, LengthBytes
  <2>3. write_buf(a) = h \o a.ip \o p
    BY <1>2, Zenon DEF write_buf, p, NameLength
  <2> HIDE DEF h
  <2>4. h \o a.ip \in Seq(Byte)
    BY <2>1, <2>2, ConcatType
  <2> QED
    BY <1>1, <2>3, <2>4, ConcatType
<1>3. CASE a.type = "V4"
  <2> DEFINE h == <<1>>
  <2>1. a.ip \in Seq(Byte)
    BY <1>3, AddrParts
  <2>2. h \in Seq(Byte)
    BY IsByte
  <2>3. write_buf(a) = h \o a.ip \o p
    BY <1>3, Zenon DEF write_buf, p
  <2> HIDE DEF h
  <2>4. h \o a.ip \in Seq(Byte)
    BY <2>1, <2>2, ConcatType
  <2> QED
    BY <1>1, <2>3, <2>4, ConcatType
<1>4. CASE a.type = "V6"
  <2> DEFINE h == <<4>>  t == transmute_u16s_to_u8s(a.ip)
  <2>1. t \in Seq(Byte)
    BY AddrParts, TransmuteType
  <2>2. h \in Seq(Byte)
    BY IsByte
  <2>3. write_buf(a) = h \o t \o p
    BY <1>4, Zenon DEF write_buf, p
  <2> HIDE DEF h, t
  <2>4. h \o t \in Seq(Byte)
    BY <2>1, <2>2, ConcatType
  <2> QED
    BY <1>1, <2>3, <2>4, ConcatType
<1> QED
  BY <1>2, <1>3, <1>4, AddrParts

LEMMA FrameType ==
  ASSUME NEW d \in Packets
  PROVE  Frame(d) \in Seq(Byte) /\ Len(Frame(d)) \in Nat
<1> DEFINE w == write_buf(d.addr)  l == FrameLength(Len(d.data))
<1>1. d.addr \in MixAddrs /\ d.data \in Seq(Byte) /\ Len(d.data) \in Nat
  BY DEF Packets
<1>2. w \in Seq(Byte)
  BY <1>1, WriteBufType
<1>3. l \in Seq(Byte)
  BY <1>1, LengthBytes
<1>4. CRLF \in Seq(Byte)
  <2>1. 13 \in Byte /\ 10 \in Byte
    BY IsByte
  <2> QED
    BY <2>1 DEF CRLF
<1>5. Frame(d) = w \o l \o CRLF \o d.data
  BY DEF Frame, FrameLength
<1> HIDE DEF w, l
<1>6. w \o l \in Seq(Byte)
  BY <1>2, <1>3, ConcatType
<1>7. w \o l \o CRLF \in Seq(Byte)
  BY <1>4, <1>6, ConcatType
<1> QED
  BY <1>1, <1>5, <1>7, ConcatType

-----------------------------------------------------------------------------
(***************************************************************************)
(* from_encoded_bytes.                                                     *)
(***************************************************************************)
LEMMA DecodeCases ==
  ASSUME NEW b \in Seq(Byte)
  PROVE  /\ Len(b) < 2 => from_encoded_bytes(b) = Undecoded("Incomplete")
         /\ ~(Len(b) < 2) /\ b[1] = 1 =>
              from_encoded_bytes(b) =
                IF Len(b) < 1 + V4Len + 2 THEN Undecoded("Incomplete")
                ELSE Decoded(b, "V4", SubSeq(b, 2, 1 + V4Len), 1 + V4Len)
         /\ ~(Len(b) < 2) /\ b[1] = 3 =>
              from_encoded_bytes(b) =
                IF Len(b) < 2 + b[2] + 2 THEN Undecoded("Incomplete")
                ELSE IF ~from_utf8_ok(SubSeq(b, 3, 2 + b[2])) THEN Undecoded("Invalid")
                ELSE Decoded(b, "Hostname", SubSeq(b, 3, 2 + b[2]), 2 + b[2])
         /\ ~(Len(b) < 2) /\ b[1] = 4 =>
              from_encoded_bytes(b) =
                IF Len(b) < 1 + 2 * V6Len + 2 THEN Undecoded("Incomplete")
                ELSE Decoded(b, "V6", [i \in 1..V6Len |-> from_be_bytes(b[1 + i], b[2 + i])],
                             1 + 2 * V6Len)
         /\ ~(Len(b) < 2) /\ b[1] \notin {1, 3, 4} => from_encoded_bytes(b) = Undecoded("Invalid")
<1>1. 1 # 3 /\ 1 # 4 /\ 3 # 4
  OBVIOUS
<1> QED
  BY <1>1, Zenon DEF from_encoded_bytes

\* What a decoder returns for b.
DecodeOk(d, b) ==
  /\ d.res \in {"Ok", "Incomplete", "Invalid"}
  /\ d.len \in Nat /\ d.len <= Len(b)
  /\ d.res = "Ok" => d.addr \in MixAddrs
  /\ d.res # "Ok" => d.addr = NoAddr /\ d.len = 0

LEMMA UndecodedType ==
  ASSUME NEW b \in Seq(Byte), NEW why \in {"Incomplete", "Invalid"}
  PROVE  DecodeOk(Undecoded(why), b)
<1>1. Len(b) \in Nat
  OBVIOUS
<1> QED
  BY <1>1 DEF Undecoded, DecodeOk

LEMMA ByteSeq ==
  ASSUME NEW s \in Seq(Byte)
  PROVE  s \in Seq(U16)
<1>1. ASSUME NEW x \in Byte PROVE x \in U16
  BY DEF Byte, U16
<1> QED
  BY <1>1

LEMMA DecodedType ==
  ASSUME NEW b \in Seq(Byte), NEW type \in {"V4", "V6", "Hostname"}, NEW ip \in Seq(U16),
         type # "V6" => ip \in Seq(Byte), NEW hi \in Nat, hi + 2 <= Len(b)
  PROVE  DecodeOk(Decoded(b, type, ip, hi), b)
<1> DEFINE p == from_be_bytes(b[hi + 1], b[hi + 2])
           a == [type |-> type, ip |-> ip, port |-> p]
           d == [res |-> "Ok", len |-> hi + 2, addr |-> a]
<1>1. b[hi + 1] \in Byte /\ b[hi + 2] \in Byte
  OBVIOUS
<1>2. p \in U16
  BY <1>1, FromBytes
<1> HIDE DEF p
<1>3. a \in MixAddrs
  BY <1>2 DEF MixAddrs
<1> HIDE DEF a
<1>4. hi + 2 \in Nat
  OBVIOUS
<1>5. DecodeOk(d, b)
  BY <1>3, <1>4 DEF DecodeOk
<1>6. Decoded(b, type, ip, hi) = d
  BY Zenon DEF Decoded, a, p
<1> QED
  BY <1>5, <1>6

LEMMA DecodeType ==
  ASSUME NEW b \in Seq(Byte)
  PROVE  DecodeOk(from_encoded_bytes(b), b)
<1>1. Len(b) \in Nat
  OBVIOUS
<1>2. CASE Len(b) < 2
  BY <1>2, DecodeCases, UndecodedType
<1>3. CASE ~(Len(b) < 2) /\ b[1] = 1
  <2>1. CASE Len(b) < 1 + V4Len + 2
    BY <1>3, <2>1, DecodeCases, UndecodedType
  <2>2. CASE ~(Len(b) < 1 + V4Len + 2)
    <3> DEFINE ip == SubSeq(b, 2, 1 + V4Len)  hi == 1 + V4Len
    <3>1. hi \in Nat /\ hi + 2 <= Len(b)
      BY <1>1, <2>2, Sizes
    <3>2. ip \in Seq(Byte)
      BY <1>1, <3>1
    <3>3. from_encoded_bytes(b) = Decoded(b, "V4", ip, hi)
      BY <1>3, <2>2, DecodeCases
    <3> HIDE DEF ip, hi
    <3> QED
      BY <3>1, <3>2, <3>3, ByteSeq, DecodedType
  <2> QED
    BY <2>1, <2>2
<1>4. CASE ~(Len(b) < 2) /\ b[1] = 3
  <2>1. CASE Len(b) < 2 + b[2] + 2
    BY <1>4, <2>1, DecodeCases, UndecodedType
  <2>2. CASE ~(Len(b) < 2 + b[2] + 2)
    <3> DEFINE ip == SubSeq(b, 3, 2 + b[2])  hi == 2 + b[2]
    <3>1. b[2] \in Nat
      <4>1. b[2] \in Byte
        BY <1>1, <1>4
      <4> QED
        BY <4>1, ByteIs
    <3>2. hi \in Nat /\ hi + 2 <= Len(b)
      BY <1>1, <2>2, <3>1
    <3>3. ip \in Seq(Byte)
      BY <1>1, <3>1, <3>2
    <3>4. \/ from_encoded_bytes(b) = Undecoded("Invalid")
          \/ from_encoded_bytes(b) = Decoded(b, "Hostname", ip, hi)
      BY <1>4, <2>2, DecodeCases
    <3> HIDE DEF ip, hi
    <3>5. DecodeOk(Decoded(b, "Hostname", ip, hi), b)
      BY <3>2, <3>3, ByteSeq, DecodedType
    <3>6. DecodeOk(Undecoded("Invalid"), b)
      BY UndecodedType
    <3> QED
      BY <3>4, <3>5, <3>6
  <2> QED
    BY <2>1, <2>2
<1>5. CASE ~(Len(b) < 2) /\ b[1] = 4
  <2>1. CASE Len(b) < 1 + 2 * V6Len + 2
    BY <1>5, <2>1, DecodeCases, UndecodedType
  <2>2. CASE ~(Len(b) < 1 + 2 * V6Len + 2)
    <3> DEFINE ip == [i \in 1..V6Len |-> from_be_bytes(b[1 + i], b[2 + i])]  hi == 1 + 2 * V6Len
    <3>1. hi \in Nat /\ hi + 2 <= Len(b) /\ V6Len \in Nat
      BY <1>1, <2>2, Sizes
    <3>2. ip \in Seq(U16)
      <4>1. ASSUME NEW i \in 1..V6Len PROVE from_be_bytes(b[1 + i], b[2 + i]) \in U16
        <5>1. 1 + i \in 1..Len(b) /\ 2 + i \in 1..Len(b)
          BY <1>1, <3>1
        <5>2. b[1 + i] \in Byte /\ b[2 + i] \in Byte
          BY <5>1
        <5> QED
          BY <5>2, FromBytes
      <4> QED
        BY <3>1, <4>1
    <3>3. from_encoded_bytes(b) = Decoded(b, "V6", ip, hi)
      BY <1>5, <2>2, DecodeCases
    <3> HIDE DEF ip, hi
    <3> QED
      BY <3>1, <3>2, <3>3, DecodedType
  <2> QED
    BY <2>1, <2>2
<1>6. CASE ~(Len(b) < 2) /\ b[1] \notin {1, 3, 4}
  BY <1>6, DecodeCases, UndecodedType
<1> QED
  BY <1>2, <1>3, <1>4, <1>5, <1>6

-----------------------------------------------------------------------------
(***************************************************************************)
(* The receiver: what an attempt to extract a packet leaves.               *)
(***************************************************************************)
LEMMA NoAddrType == NoAddr \notin MixAddrs
<1>1. NoAddr.type = "None"
  BY DEF NoAddr
<1> QED
  BY <1>1, AddrParts

\* A receiver field by field.
LEMMA ReceiverParts ==
  ASSUME NEW r \in Receivers
  PROVE  /\ r.buf \in UdpRelayBuffers /\ r.expecting \in Nat \cup {None}
         /\ r.addr \in MixAddrs \cup {NoAddr} /\ r.res \in {"Ok", "Incomplete", "Invalid", "Panic"}
         /\ r = [buf |-> r.buf, expecting |-> r.expecting, addr |-> r.addr, res |-> r.res]
  BY DEF Receivers

LEMMA ReceiverIs ==
  ASSUME NEW b \in UdpRelayBuffers, NEW e \in Nat \cup {None}, NEW a \in MixAddrs \cup {NoAddr},
         NEW s \in {"Ok", "Incomplete", "Invalid", "Panic"}
  PROVE  [buf |-> b, expecting |-> e, addr |-> a, res |-> s] \in Receivers
  BY DEF Receivers

\* try_update_addr_buf uses up the bytes of the address that it has found.
LEMMA AddrBufFacts ==
  ASSUME NEW r \in Receivers, r.res = "Ok", r.addr = NoAddr
  PROVE  LET d == from_encoded_bytes(chunk(r.buf))
             u == try_update_addr_buf(r)
         IN /\ u \in Receivers /\ u.res = d.res /\ u.addr = d.addr /\ u.expecting = r.expecting
            /\ u.buf = [r.buf EXCEPT !.cursor = @ + d.len]
            /\ remaining(u.buf) = remaining(r.buf) - d.len
<1> DEFINE d == from_encoded_bytes(chunk(r.buf))
           b == [r.buf EXCEPT !.cursor = @ + d.len]
           u == try_update_addr_buf(r)
           v == [buf |-> b, expecting |-> r.expecting, addr |-> d.addr, res |-> d.res]
<1>1. r.buf \in UdpRelayBuffers /\ r.expecting \in Nat \cup {None}
  BY ReceiverParts
<1>2. chunk(r.buf) \in Seq(Byte) /\ Len(chunk(r.buf)) = remaining(r.buf)
  BY <1>1, BufferParts
<1>3. DecodeOk(d, chunk(r.buf))
  BY <1>2, DecodeType
<1>4. u = v
  <2>1. u = [r EXCEPT !.res = d.res, !.addr = d.addr, !.buf = b]
    BY Zenon DEF try_update_addr_buf
  <2>2. r = [buf |-> r.buf, expecting |-> r.expecting, addr |-> r.addr, res |-> r.res]
    BY ReceiverParts
  <2> HIDE DEF d, b, u
  <2> QED
    BY <2>1, <2>2
<1> HIDE DEF d
<1>5. d.len \in Nat /\ d.len <= remaining(r.buf)
  BY <1>2, <1>3 DEF DecodeOk
<1>6. b \in UdpRelayBuffers /\ remaining(b) = remaining(r.buf) - d.len
  BY <1>1, <1>5, AdvanceType
<1>7. d.addr \in MixAddrs \cup {NoAddr} /\ d.res \in {"Ok", "Incomplete", "Invalid"}
  BY <1>3 DEF DecodeOk
<1> HIDE DEF b, u
<1>8. v \in Receivers
  BY <1>1, <1>6, <1>7, ReceiverIs
<1> QED
  BY <1>4, <1>6, <1>8 DEF b, d, u

\* try_update_expecting waits for the length and uses up four bytes.
LEMMA ExpectingFacts ==
  ASSUME NEW r \in Receivers, r.res = "Ok"
  PROVE  LET u == try_update_expecting(r)
             n == remaining(r.buf)
         IN /\ u \in Receivers /\ u.addr = r.addr
            /\ r.expecting # None => u = r
            /\ r.expecting = None /\ n < 4 =>
                 /\ u.buf = r.buf /\ u.expecting = None
                 /\ u.res = IF n < 2 THEN "Incomplete" ELSE "Panic"
            /\ r.expecting = None /\ ~(n < 4) =>
                 /\ u.res = "Ok" /\ u.expecting = from_be_bytes(chunk(r.buf)[1], chunk(r.buf)[2])
                 /\ u.expecting \in Nat
                 /\ remaining(u.buf) = n - 4
                 /\ \A i \in 1..(n - 4) : chunk(u.buf)[i] = chunk(r.buf)[4 + i]
<1> DEFINE u == try_update_expecting(r)
           n == remaining(r.buf)
           len == from_be_bytes(chunk(r.buf)[1], chunk(r.buf)[2])
           a == [r.buf EXCEPT !.cursor = @ + 4]
           b == reserve_by_cursor(a, len)
<1>1. /\ r.buf \in UdpRelayBuffers /\ r.expecting \in Nat \cup {None} /\ r.addr \in MixAddrs \cup {NoAddr}
      /\ r = [buf |-> r.buf, expecting |-> r.expecting, addr |-> r.addr, res |-> r.res]
  BY ReceiverParts
<1>2. n \in Nat /\ chunk(r.buf) \in Seq(Byte) /\ Len(chunk(r.buf)) = n
  BY <1>1, BufferParts
<1>3. CASE r.expecting # None
  BY <1>3 DEF try_update_expecting
<1>4. CASE r.expecting = None /\ n < 4
  <2> DEFINE s == IF n < 2 THEN "Incomplete" ELSE "Panic"
             v == [buf |-> r.buf, expecting |-> None, addr |-> r.addr, res |-> s]
  <2>1. u = [r EXCEPT !.res = s]
    BY <1>4 DEF try_update_expecting
  <2>2. s \in {"Ok", "Incomplete", "Invalid", "Panic"}
    OBVIOUS
  <2> HIDE DEF s, u
  <2>3. u = v
    BY <1>1, <1>4, <2>1
  <2>4. v \in Receivers
    BY <1>1, <1>4, <2>2, ReceiverIs
  <2> QED
    BY <1>4, <2>3, <2>4 DEF s, u
<1>5. CASE r.expecting = None /\ ~(n < 4)
  <2> DEFINE v == [buf |-> b, expecting |-> len, addr |-> r.addr, res |-> "Ok"]
  <2>1. len \in Nat
    <3>1. chunk(r.buf)[1] \in Byte /\ chunk(r.buf)[2] \in Byte
      BY <1>2, <1>5
    <3>2. len \in U16
      BY <3>1, FromBytes
    <3> HIDE DEF len
    <3> QED
      BY <3>2 DEF U16
  <2>2. /\ a \in UdpRelayBuffers /\ remaining(a) = n - 4
        /\ \A i \in 1..(n - 4) : chunk(a)[i] = chunk(r.buf)[4 + i]
    <3>1. 4 \in Nat /\ 4 <= remaining(r.buf)
      BY <1>2, <1>5
    <3> QED
      BY <1>1, <3>1, AdvanceType
  <2>3. u = [r EXCEPT !.expecting = len, !.buf = b]
    <3>1. ~(n < 2)
      BY <1>2, <1>5
    <3> QED
      BY <1>5, <3>1, Zenon DEF try_update_expecting
  <2> HIDE DEF len, a
  <2>4. b \in UdpRelayBuffers /\ chunk(b) = chunk(a) /\ remaining(b) = remaining(a)
    BY <2>1, <2>2, ReserveType
  <2> HIDE DEF b, u
  <2>5. u = v
    BY <1>1, <2>3
  <2>6. v \in Receivers
    BY <1>1, <2>1, <2>4, ReceiverIs
  <2>7. /\ u \in Receivers /\ u.addr = r.addr /\ u.res = "Ok" /\ u.expecting = len /\ u.expecting \in Nat
        /\ remaining(u.buf) = n - 4
        /\ \A i \in 1..(n - 4) : chunk(u.buf)[i] = chunk(r.buf)[4 + i]
    BY <2>1, <2>2, <2>4, <2>5, <2>6
  <2> QED
    BY <1>5, <2>7 DEF u, len
<1> QED
  BY <1>2, <1>3, <1>4, <1>5

\* The two updates in turn: what the receiver has found, where it stands then, and
\* that a packet is there when the result is Ok.
LEMMA UpdatedFacts ==
  ASSUME NEW r \in Receivers
  PROVE  LET d == from_encoded_bytes(chunk(r.buf))
             a == try_update_addr_buf([r EXCEPT !.res = "Ok"])
             e == try_update_expecting(a)
             u == Updated(r)
         IN /\ a \in Receivers /\ u \in Receivers
            /\ r.addr # NoAddr => a.res = "Ok" /\ a.addr = r.addr /\ a.expecting = r.expecting /\ a.buf = r.buf
            /\ r.addr = NoAddr =>
                 /\ a.res = d.res /\ a.addr = d.addr /\ a.expecting = r.expecting
                 /\ a.buf = [r.buf EXCEPT !.cursor = @ + d.len]
            /\ a.res # "Ok" => u = a
            /\ a.res = "Ok" =>
                 /\ e \in Receivers /\ u.buf = e.buf /\ u.expecting = e.expecting /\ u.addr = e.addr
                 /\ e.res # "Ok" => u.res = e.res
                 /\ e.res = "Ok" => u.res = IF e.expecting > remaining(e.buf) THEN "Incomplete" ELSE "Ok"
<1> DEFINE o == [r EXCEPT !.res = "Ok"]
           d == from_encoded_bytes(chunk(r.buf))
           a == try_update_addr_buf(o)
           e == try_update_expecting(a)
           u == Updated(r)
<1>1. /\ o \in Receivers /\ o.res = "Ok"
      /\ o.addr = r.addr /\ o.expecting = r.expecting /\ o.buf = r.buf
  <2> DEFINE v == [buf |-> r.buf, expecting |-> r.expecting, addr |-> r.addr, res |-> "Ok"]
  <2>1. r = [buf |-> r.buf, expecting |-> r.expecting, addr |-> r.addr, res |-> r.res]
    BY ReceiverParts
  <2>2. o = v
    BY <2>1
  <2>3. v \in Receivers
    BY ReceiverParts, ReceiverIs
  <2> HIDE DEF o
  <2> QED
    BY <2>2, <2>3
<1> HIDE DEF o
<1>2. /\ a \in Receivers
      /\ r.addr # NoAddr => a = o
      /\ r.addr = NoAddr =>
           /\ a.res = d.res /\ a.addr = d.addr /\ a.expecting = r.expecting
           /\ a.buf = [r.buf EXCEPT !.cursor = @ + d.len]
  <2>1. CASE r.addr # NoAddr
    BY <1>1, <2>1 DEF try_update_addr_buf
  <2>2. CASE r.addr = NoAddr
    BY <1>1, <2>2, AddrBufFacts
  <2> QED
    BY <2>1, <2>2
<1>3. u = IF (IF a.res = "Ok" THEN e ELSE a).res = "Ok"
               /\ (IF a.res = "Ok" THEN e ELSE a).expecting > remaining((IF a.res = "Ok" THEN e ELSE a).buf)
          THEN [(IF a.res = "Ok" THEN e ELSE a) EXCEPT !.res = "Incomplete"]
          ELSE (IF a.res = "Ok" THEN e ELSE a)
  BY Zenon DEF Updated, o
<1>4. a.res = "Ok" => e \in Receivers
  BY <1>2, ExpectingFacts
<1> HIDE DEF a, e, u, d
<1>5. a.res # "Ok" => u = a
  BY <1>3
<1>6. ASSUME a.res = "Ok"
      PROVE  /\ u \in Receivers /\ u.buf = e.buf /\ u.expecting = e.expecting /\ u.addr = e.addr
             /\ e.res # "Ok" => u.res = e.res
             /\ e.res = "Ok" => u.res = IF e.expecting > remaining(e.buf) THEN "Incomplete" ELSE "Ok"
  <2> DEFINE v == [buf |-> e.buf, expecting |-> e.expecting, addr |-> e.addr, res |-> "Incomplete"]
  <2>1. e \in Receivers /\ e = [buf |-> e.buf, expecting |-> e.expecting, addr |-> e.addr, res |-> e.res]
    BY <1>4, <1>6, ReceiverParts
  <2>2. u = IF e.res = "Ok" /\ e.expecting > remaining(e.buf) THEN [e EXCEPT !.res = "Incomplete"] ELSE e
    BY <1>3, <1>6, Zenon
  <2>3. [e EXCEPT !.res = "Incomplete"] = v
    BY <2>1
  <2>4. v \in Receivers
    BY <2>1, ReceiverParts, ReceiverIs
  <2>5. CASE e.res = "Ok" /\ e.expecting > remaining(e.buf)
    <3>1. u = v
      BY <2>2, <2>3, <2>5, Zenon
    <3> QED
      BY <2>4, <2>5, <3>1
  <2>6. CASE ~(e.res = "Ok" /\ e.expecting > remaining(e.buf))
    <3>1. u = e
      BY <2>2, <2>6, Zenon
    <3> QED
      BY <2>1, <2>6, <3>1
  <2> QED
    BY <2>5, <2>6
<1>7. u \in Receivers
  BY <1>2, <1>5, <1>6
<1>8. r.addr # NoAddr => a.res = "Ok" /\ a.addr = r.addr /\ a.expecting = r.expecting /\ a.buf = r.buf
  BY <1>1, <1>2
<1> QED
  BY <1>2, <1>4, <1>5, <1>6, <1>7, <1>8 DEF a, e, u, d, o

LEMMA PacketFacts ==
  ASSUME NEW r \in Receivers, Updated(r).res = "Ok"
  PROVE  LET u == Updated(r)
             c == copy_into_outer(u)
         IN /\ u \in Receivers /\ u.addr \in MixAddrs
            /\ u.expecting \in Nat /\ u.expecting <= remaining(u.buf)
            /\ SubSeq(chunk(u.buf), 1, u.expecting) \in Seq(Byte)
            /\ c \in Receivers /\ c.addr = NoAddr /\ c.expecting = None
            /\ remaining(c.buf) = remaining(u.buf) - u.expecting
            /\ \A i \in 1..(remaining(u.buf) - u.expecting) : chunk(c.buf)[i] = chunk(u.buf)[u.expecting + i]
<1> DEFINE a == try_update_addr_buf([r EXCEPT !.res = "Ok"])
           d == from_encoded_bytes(chunk(r.buf))
           e == try_update_expecting(a)
           u == Updated(r)
           c == copy_into_outer(u)
           b == [u.buf EXCEPT !.cursor = @ + u.expecting]
           v == [buf |-> compact(b), expecting |-> None, addr |-> NoAddr, res |-> u.res]
<1>1. /\ a \in Receivers /\ u \in Receivers /\ a.res = "Ok"
      /\ e \in Receivers /\ u.buf = e.buf /\ u.expecting = e.expecting /\ u.addr = e.addr
      /\ e.res = "Ok" /\ ~(e.expecting > remaining(e.buf))
      /\ r.addr # NoAddr => a.addr = r.addr
      /\ r.addr = NoAddr => a.addr = d.addr /\ d.res = "Ok"
  BY UpdatedFacts
<1>2. a.addr \in MixAddrs
  <2>1. DecodeOk(d, chunk(r.buf))
    BY ReceiverParts, BufferParts, DecodeType
  <2>2. d.res = "Ok" => d.addr \in MixAddrs
    BY <2>1 DEF DecodeOk
  <2> QED
    BY <1>1, <2>2, ReceiverParts
<1>3. e.addr = a.addr /\ e.expecting \in Nat
  <2>1. e.addr = a.addr
    BY <1>1, ExpectingFacts
  <2>2. CASE a.expecting # None
    BY <1>1, <2>2, ExpectingFacts, ReceiverParts
  <2>3. CASE a.expecting = None
    <3> DEFINE n == remaining(a.buf)
    <3>1. n \in Nat
      BY <1>1, ReceiverParts, BufferParts
    <3>2. n < 4 => e.res = IF n < 2 THEN "Incomplete" ELSE "Panic"
      BY <1>1, <2>3, ExpectingFacts
    <3>3. ~(n < 4)
      BY <1>1, <3>2
    <3> QED
      BY <1>1, <2>1, <2>3, <3>3, ExpectingFacts
  <2> QED
    BY <2>1, <2>2, <2>3
<1> HIDE DEF a, e, u
<1>4. u.buf \in UdpRelayBuffers /\ remaining(u.buf) \in Nat /\ u.res \in {"Ok", "Incomplete", "Invalid", "Panic"}
  BY <1>1, ReceiverParts, BufferParts
<1>5. u.expecting \in Nat /\ u.expecting <= remaining(u.buf) /\ u.addr \in MixAddrs
  BY <1>1, <1>2, <1>3, <1>4
<1>6. SubSeq(chunk(u.buf), 1, u.expecting) \in Seq(Byte)
  <2> DEFINE s == chunk(u.buf)
  <2>1. s \in Seq(Byte) /\ Len(s) = remaining(u.buf)
    BY <1>4, BufferParts
  <2> HIDE DEF s
  <2>2. SubSeq(s, 1, u.expecting) \in Seq(Byte)
    BY <1>4, <1>5, <2>1
  <2> QED
    BY <2>2 DEF s
<1>7. /\ b \in UdpRelayBuffers /\ remaining(b) = remaining(u.buf) - u.expecting
      /\ \A i \in 1..(remaining(u.buf) - u.expecting) : chunk(b)[i] = chunk(u.buf)[u.expecting + i]
  BY <1>4, <1>5, AdvanceType
<1>8. c = v
  <2>1. c = [u EXCEPT !.buf = compact(b), !.expecting = None, !.addr = NoAddr]
    BY Zenon DEF copy_into_outer
  <2>2. u = [buf |-> u.buf, expecting |-> u.expecting, addr |-> u.addr, res |-> u.res]
    BY <1>1, ReceiverParts
  <2> HIDE DEF c, b
  <2> QED
    BY <2>1, <2>2
<1> HIDE DEF b, c
<1>9. compact(b) \in UdpRelayBuffers /\ chunk(compact(b)) = chunk(b) /\ remaining(compact(b)) = remaining(b)
  BY <1>7, CompactType
<1>10. v \in Receivers
  BY <1>4, <1>9, ReceiverIs
<1>11. /\ c \in Receivers /\ c.addr = NoAddr /\ c.expecting = None
       /\ chunk(c.buf) = chunk(b) /\ remaining(c.buf) = remaining(b)
  BY <1>8, <1>9, <1>10
<1> QED
  BY <1>1, <1>5, <1>6, <1>7, <1>11 DEF u, c

-----------------------------------------------------------------------------
(***************************************************************************)
(* The sender: the buffer holds the frame of the datagram at the head.     *)
(***************************************************************************)
SendBuffers == [buf : UdpRelayBuffers, data_len : Nat]

LEMMA SendParts ==
  ASSUME NEW s \in SendBuffers
  PROVE  /\ s.buf \in UdpRelayBuffers /\ s.data_len \in Nat
         /\ s = [buf |-> s.buf, data_len |-> s.data_len]
  BY DEF SendBuffers

LEMMA SendIs ==
  ASSUME NEW b \in UdpRelayBuffers, NEW n \in Nat
  PROVE  [buf |-> b, data_len |-> n] \in SendBuffers
  BY DEF SendBuffers

LEMMA PacketParts ==
  ASSUME NEW d \in Packets
  PROVE  d.addr \in MixAddrs /\ d.data \in Seq(Byte) /\ Len(d.data) \in Nat
         /\ d = [addr |-> d.addr, data |-> d.data]
<1>1. d.addr \in MixAddrs /\ d.data \in Seq(Byte) /\ d = [addr |-> d.addr, data |-> d.data]
  BY DEF Packets
<1> QED
  BY <1>1

\* What is appended to an empty buffer is all of it.
LEMMA EmptyExtend ==
  ASSUME NEW b \in UdpRelayBuffers, remaining(b) = 0, b.cursor = 0, NEW f \in Seq(Byte)
  PROVE  chunk(extend_from_slice(b, f)) = f /\ remaining(extend_from_slice(b, f)) = Len(f)
<1> DEFINE x == extend_from_slice(b, f)
           t == b.inner \o f
           k == Atleast(b.cap, Len(b.inner) + Len(f))
<1>1. b.inner \in Seq(Byte) /\ Len(b.inner) = 0
  BY BufferParts DEF remaining
<1>2. t \in Seq(Byte) /\ Len(t) = Len(f) /\ \A i \in 1..Len(f) : t[i] = f[i]
  BY <1>1
<1>3. k \in Nat
  BY <1>1, BufferParts DEF Atleast
<1>4. x = [b EXCEPT !.inner = t, !.cap = k]
  BY Zenon DEF extend_from_slice
<1> HIDE DEF t, k
<1>5. x = [inner |-> t, cursor |-> b.cursor, cap |-> k]
  <2>1. 0 \in Nat
    OBVIOUS
  <2> QED
    BY <1>2, <1>3, <1>4, <2>1, BufferExcept, ZenonT(60)
<1> HIDE DEF x
<1>6. x.inner = t /\ x.cursor = 0
  BY <1>5
<1>7. t = f
  BY <1>2
<1> QED
  BY <1>6, <1>7, FreshChunk DEF x

LEMMA FilledFacts ==
  ASSUME send \in SendBuffers, NEW d \in Packets
  PROVE  LET s == Filled(d)
         IN /\ s \in SendBuffers
            /\ send.buf.inner # <<>> => s = send
            /\ send.buf.inner = <<>> =>
                 chunk(s.buf) = Frame(d) /\ remaining(s.buf) = Len(Frame(d)) /\ s.data_len = Len(d.data)
<1> DEFINE f == Frame(d)  n == Len(Frame(d))
           b == reserve_by_cursor(send.buf, n)
           x == extend_from_slice(b, f)
           s == Filled(d)
<1>1. send.buf \in UdpRelayBuffers /\ f \in Seq(Byte) /\ n \in Nat /\ Len(d.data) \in Nat
  BY SendParts, FrameType, PacketParts
<1>2. b \in UdpRelayBuffers /\ remaining(b) = remaining(send.buf)
  BY <1>1, ReserveType
<1>3. x \in UdpRelayBuffers
  BY <1>1, <1>2, ExtendType
<1>4. CASE send.buf.inner = <<>>
  <2>1. send.buf.inner \in Seq(Byte) /\ Len(send.buf.inner) = 0
    BY <1>4
  <2>2. remaining(send.buf) = 0 /\ send.buf.cursor = 0
    BY <1>1, <2>1, BufferParts DEF remaining
  <2>3. b.cursor = 0
    <3>1. CASE n + send.buf.cursor <= send.buf.cap
      BY <2>2, <3>1 DEF reserve_by_cursor
    <3>2. CASE ~(n + send.buf.cursor <= send.buf.cap)
      <4> DEFINE e == [inner |-> <<>>, cursor |-> 0, cap |-> n]
      <4>1. b = [e EXCEPT !.inner = @ \o chunk(send.buf), !.cap = Atleast(@, Len(e.inner) + Len(chunk(send.buf)))]
        BY <3>2, Zenon DEF reserve_by_cursor, extend_from_slice
      <4> QED
        BY <4>1
    <3> QED
      BY <3>1, <3>2
  <2>4. s = [buf |-> x, data_len |-> Len(d.data)]
    BY <1>4, Zenon DEF Filled, copy_into_inner
  <2> HIDE DEF b
  <2>5. chunk(x) = f /\ remaining(x) = n
    BY <1>1, <1>2, <2>2, <2>3, EmptyExtend
  <2> HIDE DEF x, f, n, s
  <2>6. s \in SendBuffers /\ s.buf = x /\ s.data_len = Len(d.data)
    BY <1>1, <1>3, <2>4, SendIs
  <2> QED
    BY <1>4, <2>5, <2>6 DEF f, n, s
<1>5. CASE send.buf.inner # <<>>
  BY <1>5 DEF Filled
<1> QED
  BY <1>4, <1>5

LEMMA TodoFacts ==
  ASSUME NEW q \in Seq(Packets)
  PROVE  /\ NextOf(q) \in Seq(Packets) /\ Len(NextOf(q)) \in 0..1
         /\ NextOf(q) # <<>> => q # <<>> /\ Head(q).data # <<>> /\ NextOf(q) = <<Head(q)>>
         /\ q # <<>> => Head(q) \in Packets /\ Tail(q) \in Seq(Packets)
         /\ q # <<>> /\ Head(q).data # <<>> => NextOf(q) = <<Head(q)>>
<1>1. q # <<>> => Head(q) \in Packets /\ Tail(q) \in Seq(Packets)
  OBVIOUS
<1>2. CASE q # <<>> /\ Head(q).data # <<>>
  <2>1. NextOf(q) = <<Head(q)>>
    BY <1>2 DEF NextOf
  <2>2. <<Head(q)>> \in Seq(Packets) /\ Len(<<Head(q)>>) = 1 /\ <<Head(q)>> # <<>>
    BY <1>1, <1>2
  <2> QED
    BY <1>1, <1>2, <2>1, <2>2
<1>3. CASE ~(q # <<>> /\ Head(q).data # <<>>)
  <2>1. NextOf(q) = <<>>
    BY <1>3 DEF NextOf
  <2>2. <<>> \in Seq(Packets) /\ Len(<<>>) = 0
    OBVIOUS
  <2> QED
    BY <1>1, <1>3, <2>1, <2>2
<1> QED
  BY <1>2, <1>3

LEMMA AdvanceTodo ==
  ASSUME todo \in Seq(Packets), todo # <<>>, NEW n \in Nat
  PROVE  Advance(n) \in Seq(Packets) /\ (n = Len(Head(todo).data) => Advance(n) = Tail(todo))
<1> DEFINE h == Head(todo)
           r == SubSeq(h.data, n + 1, Len(h.data))
           d == [h EXCEPT !.data = r]
<1>1. h \in Packets /\ Tail(todo) \in Seq(Packets)
  BY TodoFacts
<1>2. CASE n = Len(h.data)
  BY <1>1, <1>2 DEF Advance
<1>3. CASE n # Len(h.data)
  <2>1. h.data \in Seq(Byte) /\ h = [addr |-> h.addr, data |-> h.data] /\ h.addr \in MixAddrs
    BY <1>1, PacketParts
  <2>2. r \in Seq(Byte)
    BY <2>1
  <2>3. Advance(n) = <<d>> \o Tail(todo)
    BY <1>3, Zenon DEF Advance
  <2> HIDE DEF r, h
  <2>4. d = [addr |-> h.addr, data |-> r]
    BY <2>1
  <2>5. d \in Packets
    BY <2>1, <2>2, <2>4 DEF Packets
  <2> HIDE DEF d
  <2>6. <<d>> \in Seq(Packets)
    BY <2>5
  <2>7. <<d>> \o Tail(todo) \in Seq(Packets)
    BY <1>1, <2>6
  <2> QED
    BY <1>3, <2>3, <2>7 DEF h
<1> QED
  BY <1>2, <1>3

\* A write moves x bytes of the frame to the wire; when it was the last of them the
\* buffer is empty and the next datagram is read.
LEMMA WriteFacts ==
  ASSUME TypeOK, NEW x \in 1..WireCap, PollWrite(x)
  PROVE  LET s == Filled(Head(todo))
             n == remaining(s.buf)
         IN /\ todo # <<>> /\ ~ended /\ Head(todo) \in Packets /\ Head(todo).data # <<>>
            /\ s \in SendBuffers /\ n \in Nat
            /\ Len(wire) + x <= WireCap /\ x <= n /\ x \in Nat
            /\ wire' = wire \o SubSeq(chunk(s.buf), 1, x)
            /\ send' \in SendBuffers /\ send'.data_len = s.data_len
            /\ remaining(send'.buf) = n - x
            /\ \A i \in 1..(n - x) : chunk(send'.buf)[i] = chunk(s.buf)[x + i]
            /\ x < n => send'.buf.inner # <<>> /\ todo' = todo /\ datagrams' = datagrams
            /\ ~(x < n) =>
                 /\ send'.buf.inner = <<>> /\ todo' = Advance(s.data_len)
                 /\ datagrams' = datagrams \o NextOf(Tail(todo))
<1> DEFINE d == Head(todo)  s == Filled(d)  n == remaining(s.buf)
<1>1. todo \in Seq(Packets) /\ send \in SendBuffers
  BY DEF TypeOK, SendBuffers
<1>2. todo # <<>> /\ ~ended /\ d.data # <<>> /\ Len(wire) + x <= WireCap
  BY DEF PollWrite, Sending
<1>3. d \in Packets /\ x \in Nat /\ 1 <= x
  BY <1>1, <1>2, TodoFacts, Sizes
<1>4. s \in SendBuffers
  BY <1>1, <1>3, FilledFacts
<1>5. /\ x <= n
      /\ wire' = wire \o SubSeq(chunk(s.buf), 1, x)
      /\ IF x < n
           THEN /\ send' = [s EXCEPT !.buf.cursor = @ + x]
                /\ UNCHANGED <<todo, datagrams>>
           ELSE /\ send' = [s EXCEPT !.buf = reset(@)]
                /\ todo' = Advance(s.data_len)
                /\ datagrams' = datagrams \o NextOf(Tail(todo))
  BY Zenon DEF PollWrite
<1> HIDE DEF d, s
<1>6. s.buf \in UdpRelayBuffers /\ s.data_len \in Nat /\ s = [buf |-> s.buf, data_len |-> s.data_len] /\ n \in Nat
  BY <1>4, SendParts, BufferParts
<1>7. CASE x < n
  <2> DEFINE b == [s.buf EXCEPT !.cursor = @ + x]
  <2>1. /\ b \in UdpRelayBuffers /\ remaining(b) = n - x
        /\ \A i \in 1..(n - x) : chunk(b)[i] = chunk(s.buf)[x + i]
    BY <1>3, <1>5, <1>6, AdvanceType
  <2>2. send' = [s EXCEPT !.buf = b]
    BY <1>5, <1>7, Zenon
  <2> HIDE DEF b
  <2>3. send' = [buf |-> b, data_len |-> s.data_len]
    BY <1>6, <2>2
  <2>4. send' \in SendBuffers /\ send'.buf = b /\ send'.data_len = s.data_len
    BY <1>6, <2>1, <2>3, SendIs
  <2>5. b.inner # <<>>
    <3>1. remaining(b) # 0 /\ Len(b.inner) \in Nat /\ b.cursor \in Nat
      BY <1>3, <1>6, <1>7, <2>1, BufferParts
    <3>2. Len(b.inner) # 0
      BY <2>1, <3>1, BufferParts DEF remaining
    <3>3. Len(<<>>) = 0
      OBVIOUS
    <3> QED
      BY <3>2, <3>3
  <2> QED
    BY <1>2, <1>3, <1>4, <1>5, <1>6, <1>7, <2>1, <2>4, <2>5 DEF d, s
<1>8. CASE ~(x < n)
  <2> DEFINE b == reset(s.buf)
  <2>1. b \in UdpRelayBuffers
    BY <1>6, ResetType
  <2>2. b.inner = <<>> /\ b.cursor = 0
    BY <1>6, BufferParts DEF reset
  <2>3. send' = [s EXCEPT !.buf = b]
    BY <1>5, <1>8, Zenon
  <2> HIDE DEF b
  <2>4. send' = [buf |-> b, data_len |-> s.data_len]
    BY <1>6, <2>3
  <2>5. send' \in SendBuffers /\ send'.buf = b /\ send'.data_len = s.data_len
    BY <1>6, <2>1, <2>4, SendIs
  <2>6. remaining(b) = 0 /\ n - x = 0
    <3>1. Len(b.inner) = 0
      BY <2>2
    <3>2. n - x = 0
      BY <1>3, <1>5, <1>6, <1>8
    <3> QED
      BY <2>2, <3>1, <3>2 DEF remaining
  <2> QED
    BY <1>2, <1>3, <1>4, <1>5, <1>6, <1>8, <2>2, <2>5, <2>6 DEF d, s
<1> QED
  BY <1>7, <1>8

-----------------------------------------------------------------------------
(***************************************************************************)
(* The type invariant, and the end of the stream.                          *)
(***************************************************************************)
LEMMA TInvInit ==
  ASSUME Init
  PROVE  TInv
<1> DEFINE q == <<>>
<1>0. /\ q \in Seq(Packets) /\ q \in Seq(Byte) /\ Len(q) = 0
      /\ <<0>> \in Seq(Nat)
  OBVIOUS
<1>1. traffic \in Seq(Packets) /\ NextOf(traffic) \in Seq(Packets)
  BY TrafficAssumption, TodoFacts DEF Init
<1>2. [buf |-> New, data_len |-> 0] \in SendBuffers
  BY NewType, SendIs
<1>3. [buf |-> New, expecting |-> None, addr |-> NoAddr, res |-> "Ok"] \in Receivers
  BY NewType, ReceiverIs
<1>4. recv.buf = New /\ ~want_to_extract /\ state = "accepting" /\ prefix = <<>>
  BY DEF Init
<1> HIDE DEF q
<1>5. /\ datagrams = NextOf(traffic) /\ todo = traffic /\ delivered = q /\ stream = q /\ bounds = <<0>>
      /\ send = [buf |-> New, data_len |-> 0]
      /\ recv = [buf |-> New, expecting |-> None, addr |-> NoAddr, res |-> "Ok"]
      /\ wire = q /\ prefix = q /\ ended = FALSE /\ broken = FALSE /\ want_to_extract = FALSE
      /\ count = 0 /\ state = "accepting"
  BY DEF Init, q
<1>6. TypeOK
  <2>1. Len(q) <= WireCap /\ Len(q) <= UDP_BUFFER_SIZE
    BY <1>0, Sizes
  <2>2. /\ traffic \in Seq(Packets) /\ todo \in Seq(Packets)
        /\ datagrams \in Seq(Packets) /\ delivered \in Seq(Packets)
        /\ stream \in Seq(Byte) /\ bounds \in Seq(Nat)
    BY <1>0, <1>1, <1>5
  <2>3. wire \in Seq(Byte) /\ Len(wire) <= WireCap /\ prefix \in Seq(Byte) /\ Len(prefix) <= UDP_BUFFER_SIZE
    BY <1>0, <1>5, <2>1
  <2>4. send \in SendBuffers /\ recv \in Receivers
    BY <1>2, <1>3, <1>5
  <2> QED
    BY <1>5, <2>2, <2>3, <2>4 DEF TypeOK, SendBuffers
<1> QED
  BY <1>4, <1>6 DEF TInv, FirstRead, EofIsEnd

\* What is written fits the wire, and nothing is written behind the end.
LEMMA SendTInv ==
  ASSUME TInv, NEW x \in 1..WireCap, PollWrite(x)
  PROVE  TInv'
<1> DEFINE s == Filled(Head(todo))
           n == remaining(s.buf)
           p == SubSeq(chunk(s.buf), 1, x)
           f == Frame(Head(todo))
<1>1. TypeOK /\ FirstRead /\ EofIsEnd
  BY DEF TInv
<1>2. /\ todo # <<>> /\ ~ended /\ Head(todo) \in Packets
      /\ s \in SendBuffers /\ n \in Nat
      /\ Len(wire) + x <= WireCap /\ x <= n /\ x \in Nat
      /\ wire' = wire \o p
      /\ send' \in SendBuffers
      /\ x < n => todo' = todo /\ datagrams' = datagrams
      /\ ~(x < n) => todo' = Advance(s.data_len) /\ datagrams' = datagrams \o NextOf(Tail(todo))
  BY <1>1, WriteFacts
<1>3. /\ send.buf.inner = <<>> => stream' = stream \o f /\ bounds' = Append(bounds, Len(stream'))
      /\ send.buf.inner # <<>> => stream' = stream /\ bounds' = bounds
      /\ UNCHANGED <<traffic, ended, broken, prefix, recv, want_to_extract, count, delivered, state>>
  BY DEF PollWrite
<1>4. p \in Seq(Byte) /\ Len(p) = x
  <2>1. chunk(s.buf) \in Seq(Byte) /\ Len(chunk(s.buf)) = n
    BY <1>2, SendParts, BufferParts
  <2> QED
    BY <1>2, <2>1
<1>5. wire \in Seq(Byte) /\ stream \in Seq(Byte) /\ bounds \in Seq(Nat) /\ todo \in Seq(Packets) /\ datagrams \in Seq(Packets)
  BY <1>1 DEF TypeOK
<1>6. wire' \in Seq(Byte) /\ Len(wire') <= WireCap
  <2> HIDE DEF p, n, s
  <2> QED
    BY <1>2, <1>4, <1>5, ConcatType
<1>7. f \in Seq(Byte)
  BY <1>2, FrameType
<1>8. stream' \in Seq(Byte) /\ bounds' \in Seq(Nat)
  <2> HIDE DEF f
  <2>1. stream' \in Seq(Byte)
    BY <1>3, <1>5, <1>7, ConcatType
  <2>2. Len(stream') \in Nat
    BY <2>1
  <2>3. Append(bounds, Len(stream')) \in Seq(Nat)
    BY <1>5, <2>2
  <2> QED
    BY <1>3, <1>5, <2>1, <2>3
<1>9. todo' \in Seq(Packets) /\ datagrams' \in Seq(Packets)
  <2>1. s.data_len \in Nat
    BY <1>2, SendParts
  <2>2. Advance(s.data_len) \in Seq(Packets)
    BY <1>2, <1>5, <2>1, AdvanceTodo
  <2>3. NextOf(Tail(todo)) \in Seq(Packets)
    BY <1>2, <1>5, TodoFacts
  <2> HIDE DEF s, n
  <2>4. datagrams \o NextOf(Tail(todo)) \in Seq(Packets)
    BY <1>5, <2>3
  <2> QED
    BY <1>2, <1>5, <2>2, <2>4
<1>10. TypeOK'
  BY <1>1, <1>2, <1>3, <1>6, <1>8, <1>9 DEF TypeOK, SendBuffers
<1>11. state # "eof"
  BY <1>1, <1>2 DEF EofIsEnd
<1> QED
  BY <1>1, <1>3, <1>10, <1>11 DEF TInv, FirstRead, EofIsEnd

LEMMA SkipTInv ==
  ASSUME TInv, SkipEmpty
  PROVE  TInv'
<1>1. TypeOK /\ FirstRead /\ EofIsEnd
  BY DEF TInv
<1>2. todo \in Seq(Packets) /\ datagrams \in Seq(Packets)
  BY <1>1 DEF TypeOK
<1>3. /\ todo # <<>> /\ todo' = Tail(todo) /\ datagrams' = datagrams \o NextOf(Tail(todo))
      /\ UNCHANGED <<traffic, stream, bounds, send, wire, ended, broken, prefix, recv, want_to_extract, count, delivered, state>>
  BY DEF SkipEmpty, Sending
<1>4. Tail(todo) \in Seq(Packets) /\ NextOf(Tail(todo)) \in Seq(Packets)
  BY <1>2, <1>3, TodoFacts
<1>5. datagrams' \in Seq(Packets)
  BY <1>2, <1>3, <1>4
<1>6. TypeOK'
  BY <1>1, <1>3, <1>4, <1>5 DEF TypeOK
<1> QED
  BY <1>1, <1>3, <1>6 DEF TInv, FirstRead, EofIsEnd

LEMMA EndTInv ==
  ASSUME TInv, Shutdown \/ Break
  PROVE  TInv'
<1>1. TypeOK /\ FirstRead /\ EofIsEnd
  BY DEF TInv
<1>2. /\ ended' = TRUE /\ (broken' = TRUE \/ broken' = broken)
      /\ UNCHANGED <<historyVars, todo, send, wire, prefix, recv, want_to_extract, count, delivered, state>>
  BY DEF Shutdown, Break
<1>3. UNCHANGED <<traffic, datagrams, stream, bounds>>
  BY <1>2 DEF historyVars
<1>4. TypeOK'
  BY <1>1, <1>2, <1>3 DEF TypeOK
<1> QED
  BY <1>1, <1>2, <1>4 DEF TInv, FirstRead, EofIsEnd

LEMMA ExtractTInv ==
  ASSUME TInv, try_extract_packet
  PROVE  TInv'
<1> DEFINE u == Updated(recv)
           c == copy_into_outer(u)
           d == [addr |-> u.addr, data |-> SubSeq(chunk(u.buf), 1, u.expecting)]
<1>1. TypeOK /\ FirstRead /\ EofIsEnd
  BY DEF TInv
<1>2. recv \in Receivers /\ delivered \in Seq(Packets)
  BY <1>1 DEF TypeOK
<1>3. /\ state = "open" /\ want_to_extract
      /\ want_to_extract' = (u.res = "Ok")
      /\ recv' = IF u.res = "Ok" THEN c ELSE u
      /\ delivered' = IF u.res # "Ok" \/ u.expecting = 0 THEN delivered ELSE Append(delivered, d)
      /\ state' = CASE u.res = "Panic" -> "panicked" [] u.res = "Invalid" -> "failed" [] OTHER -> "open"
      /\ UNCHANGED <<historyVars, todo, send, wire, ended, broken, prefix, count>>
  BY DEF try_extract_packet
<1>4. u \in Receivers
  BY <1>2, UpdatedFacts
<1>5. u.res = "Ok" => c \in Receivers /\ d \in Packets
  BY <1>2, PacketFacts DEF Packets
<1> HIDE DEF u, c, d
<1>6. delivered' \in Seq(Packets)
  BY <1>2, <1>3, <1>5
<1>7. state' \in {"open", "panicked", "failed"}
  BY <1>3, Zenon
<1>8. prefix = <<>>
  BY <1>1, <1>3 DEF FirstRead
<1>9. want_to_extract' \in BOOLEAN /\ recv' \in Receivers
  BY <1>3, <1>4, <1>5
<1>10. TypeOK'
  BY <1>1, <1>3, <1>6, <1>7, <1>9 DEF TypeOK, historyVars
<1> QED
  BY <1>3, <1>7, <1>8, <1>10 DEF TInv, FirstRead, EofIsEnd

\* What a read of n bytes leaves in the buffer of the receiver.
LEMMA TookType ==
  ASSUME recv \in Receivers, NEW w \in Seq(Byte), NEW n \in Nat, n <= Len(w),
         n + Len(recv.buf.inner) <= as_read_buf(recv.buf).cap
  PROVE  LET b == [as_read_buf(recv.buf) EXCEPT !.inner = @ \o SubSeq(w, 1, n)]
             r == [recv EXCEPT !.buf = [as_read_buf(recv.buf) EXCEPT !.inner = @ \o SubSeq(w, 1, n)]]
         IN /\ b \in UdpRelayBuffers /\ r \in Receivers
            /\ r.buf = b /\ r.addr = recv.addr /\ r.expecting = recv.expecting /\ r.res = recv.res
<1> DEFINE g == as_read_buf(recv.buf)
           p == SubSeq(w, 1, n)
           b == [g EXCEPT !.inner = @ \o p]
           r == [recv EXCEPT !.buf = [as_read_buf(recv.buf) EXCEPT !.inner = @ \o p]]
<1>1. recv.buf \in UdpRelayBuffers
  BY ReceiverParts
<1>2. p \in Seq(Byte) /\ Len(p) = n
  OBVIOUS
<1>3. g \in UdpRelayBuffers /\ g.inner = recv.buf.inner /\ Len(recv.buf.inner) \in Nat
  BY <1>1, ReadBufType, BufferParts
<1>4. b \in UdpRelayBuffers
  <2> HIDE DEF p, g
  <2>1. Len(g.inner) + Len(p) <= g.cap
    BY <1>2, <1>3 DEF g
  <2> QED
    BY <1>2, <1>3, <2>1, FilledType
<1>5. r = [recv EXCEPT !.buf = b]
  BY Zenon
<1> HIDE DEF b, r, g, p
<1>6. recv = [buf |-> recv.buf, expecting |-> recv.expecting, addr |-> recv.addr, res |-> recv.res]
      /\ recv.expecting \in Nat \cup {None} /\ recv.addr \in MixAddrs \cup {NoAddr}
      /\ recv.res \in {"Ok", "Incomplete", "Invalid", "Panic"}
  BY ReceiverParts
<1>7. r = [buf |-> b, expecting |-> recv.expecting, addr |-> recv.addr, res |-> recv.res]
  BY <1>5, <1>6
<1>8. r \in Receivers
  BY <1>4, <1>6, <1>7, ReceiverIs
<1> QED
  BY <1>4, <1>7, <1>8 DEF b, r, g, p

\* There is always room for a byte, so a read that finds none is the end.
LEMMA ReadTInv ==
  ASSUME TInv, NEW n \in 0..WireCap, PollRead(n)
  PROVE  TInv'
<1> DEFINE r == [recv EXCEPT !.buf = [as_read_buf(recv.buf) EXCEPT !.inner = @ \o SubSeq(wire, 1, n)]]
           k == as_read_buf(recv.buf).cap
           l == Len(recv.buf.inner)
<1>1. TypeOK /\ FirstRead /\ EofIsEnd
  BY DEF TInv
<1>2. recv \in Receivers /\ wire \in Seq(Byte) /\ Len(wire) \in Nat /\ Len(wire) <= WireCap /\ n \in Nat
      /\ prefix \in Seq(Byte) /\ count \in Nat /\ WireCap \in Nat
  BY <1>1, Sizes DEF TypeOK
<1>3. /\ state = "open" /\ ~want_to_extract /\ prefix = <<>>
      /\ n <= Atmost(Room, Len(wire))
      /\ n = 0 => Room = 0 \/ (ended /\ wire = <<>>)
      /\ Took(n, wire)
      /\ wire' = SubSeq(wire, n + 1, Len(wire))
      /\ UNCHANGED <<historyVars, todo, send, ended, broken, prefix, delivered>>
  BY DEF PollRead
<1>4. Room = k - l /\ l \in Nat /\ k \in Nat /\ l < k
  BY <1>2, ReceiverParts, ReadBufType, BufferParts DEF Room
<1>5. n + l <= k /\ n <= Len(wire) /\ (n = 0 => ended /\ wire = <<>>)
  <2> HIDE DEF k, l
  <2> QED
    BY <1>2, <1>3, <1>4 DEF Atmost
<1>6. wire' \in Seq(Byte) /\ Len(wire') <= WireCap
  <2>1. Len(SubSeq(wire, n + 1, Len(wire))) = Len(wire) - n /\ SubSeq(wire, n + 1, Len(wire)) \in Seq(Byte)
    BY <1>2, <1>5
  <2> QED
    BY <1>2, <1>3, <2>1
<1>7. CASE n = 0
  <2>1. state' = "eof" /\ UNCHANGED <<recv, want_to_extract, count>>
    BY <1>3, <1>7 DEF Took
  <2>2. wire' = <<>>
    BY <1>3, <1>5, <1>7
  <2>3. TypeOK'
    BY <1>1, <1>3, <1>6, <2>1 DEF TypeOK, historyVars
  <2> QED
    BY <1>3, <1>5, <1>7, <2>1, <2>2, <2>3 DEF TInv, FirstRead, EofIsEnd
<1>8. CASE n # 0
  <2>1. recv' = r /\ want_to_extract' = TRUE /\ count' = count + n /\ UNCHANGED state
    BY <1>3, <1>8, Zenon DEF Took
  <2>2. r \in Receivers
    BY <1>2, <1>5, TookType
  <2> HIDE DEF r
  <2>3. TypeOK'
    BY <1>1, <1>2, <1>3, <1>6, <2>1, <2>2 DEF TypeOK, historyVars
  <2> QED
    BY <1>3, <2>1, <2>3 DEF TInv, FirstRead, EofIsEnd
<1> QED
  BY <1>7, <1>8

LEMMA BufferedTInv ==
  ASSUME TInv, PollReadBuffered
  PROVE  TInv'
<1> DEFINE n == Len(prefix)
           r == [recv EXCEPT !.buf = [as_read_buf(recv.buf) EXCEPT !.inner = @ \o SubSeq(prefix, 1, n)]]
           q == <<>>
<1>1. TypeOK /\ FirstRead /\ EofIsEnd
  BY DEF TInv
<1>2. /\ recv \in Receivers /\ prefix \in Seq(Byte) /\ n \in Nat /\ n <= UDP_BUFFER_SIZE
      /\ count \in Nat /\ UDP_BUFFER_SIZE \in Nat
  BY <1>1, Sizes DEF TypeOK
<1>3. /\ state = "open" /\ ~want_to_extract /\ prefix # <<>>
      /\ Took(n, prefix) /\ prefix' = q
      /\ UNCHANGED <<historyVars, todo, send, wire, ended, broken, delivered>>
  BY DEF PollReadBuffered
<1>4. q \in Seq(Byte) /\ Len(q) = 0 /\ n # 0
  BY <1>2, <1>3
<1>5. n + Len(recv.buf.inner) <= as_read_buf(recv.buf).cap
  <2>1. recv.buf = New
    BY <1>1, <1>3 DEF FirstRead
  <2>2. New.cap <= as_read_buf(New).cap /\ as_read_buf(New).cap \in Nat
    BY NewType, ReadBufType, BufferParts
  <2>3. Len(New.inner) = 0 /\ New.cap = UDP_BUFFER_SIZE
    BY NewType
  <2> HIDE DEF n
  <2> QED
    BY <1>2, <2>1, <2>2, <2>3
<1>6. r \in Receivers
  <2>1. n <= Len(prefix)
    BY <1>2
  <2> QED
    BY <1>2, <1>5, <2>1, TookType
<1>7. recv' = r /\ want_to_extract' = TRUE /\ count' = count + n /\ UNCHANGED state
  BY <1>3, <1>4, Zenon DEF Took
<1> HIDE DEF r, n, q
<1>8. Len(prefix') <= UDP_BUFFER_SIZE /\ prefix' \in Seq(Byte) /\ count' \in Nat
  BY <1>2, <1>3, <1>4, <1>7
<1>9. TypeOK'
  BY <1>1, <1>3, <1>6, <1>7, <1>8 DEF TypeOK, historyVars
<1>10. prefix' = <<>>
  BY <1>3 DEF q
<1> QED
  BY <1>3, <1>7, <1>9, <1>10 DEF TInv, FirstRead, EofIsEnd

LEMMA StartTInv ==
  ASSUME TInv, NEW n \in 0..WireCap, Start(n)
  PROVE  TInv'
<1>1. TypeOK /\ FirstRead /\ EofIsEnd
  BY DEF TInv
<1>2. wire \in Seq(Byte) /\ Len(wire) \in Nat /\ Len(wire) <= WireCap /\ n \in Nat /\ UDP_BUFFER_SIZE \in Nat /\ WireCap \in Nat
  BY <1>1, Sizes DEF TypeOK
<1>3. /\ state = "accepting" /\ n <= Atmost(UDP_BUFFER_SIZE, Len(wire))
      /\ prefix' = SubSeq(wire, 1, n)
      /\ wire' = SubSeq(wire, n + 1, Len(wire))
      /\ state' = "open"
      /\ UNCHANGED <<historyVars, todo, send, ended, broken, recv, want_to_extract, count, delivered>>
  BY DEF Start
<1>4. n <= UDP_BUFFER_SIZE /\ n <= Len(wire)
  BY <1>2, <1>3 DEF Atmost
<1>5. /\ SubSeq(wire, 1, n) \in Seq(Byte) /\ Len(SubSeq(wire, 1, n)) = n
      /\ SubSeq(wire, n + 1, Len(wire)) \in Seq(Byte) /\ Len(SubSeq(wire, n + 1, Len(wire))) = Len(wire) - n
  BY <1>2, <1>4
<1>6. /\ prefix' \in Seq(Byte) /\ Len(prefix') <= UDP_BUFFER_SIZE
      /\ wire' \in Seq(Byte) /\ Len(wire') <= WireCap
  BY <1>2, <1>3, <1>4, <1>5
<1>7. TypeOK'
  BY <1>1, <1>3, <1>6 DEF TypeOK, historyVars
<1> QED
  BY <1>1, <1>3, <1>7 DEF TInv, FirstRead, EofIsEnd

LEMMA StutterTInv ==
  ASSUME TInv, UNCHANGED vars
  PROVE  TInv'
<1>1. UNCHANGED <<traffic, datagrams, stream, bounds, todo, send, wire, ended, broken, prefix, recv,
                  want_to_extract, count, delivered, state>>
  BY DEF vars, historyVars
<1>2. TypeOK' /\ FirstRead' /\ EofIsEnd'
  BY <1>1 DEF TInv, TypeOK, FirstRead, EofIsEnd
<1> QED
  BY <1>2 DEF TInv

LEMMA TInvNext ==
  ASSUME TInv, [Next]_vars
  PROVE  TInv'
<1>1. CASE SkipEmpty
  BY <1>1, SkipTInv
<1>2. CASE Shutdown \/ Break
  BY <1>2, EndTInv
<1>3. ASSUME NEW x \in 1..WireCap, PollWrite(x)
      PROVE  TInv'
  BY <1>3, SendTInv
<1>4. CASE try_extract_packet
  BY <1>4, ExtractTInv
<1>5. CASE PollReadBuffered
  BY <1>5, BufferedTInv
<1>6. ASSUME NEW n \in 0..WireCap, Start(n) \/ PollRead(n)
      PROVE  TInv'
  BY <1>6, StartTInv, ReadTInv
<1>7. CASE UNCHANGED vars
  BY <1>7, StutterTInv
<1> QED
  BY <1>1, <1>2, <1>3, <1>4, <1>5, <1>6, <1>7 DEF Next, Send, Receive

LEMMA TInvHolds == Spec => []TInv
<1>1. Init => TInv
  BY TInvInit
<1>2. TInv /\ [Next]_vars => TInv'
  BY TInvNext
<1> QED
  BY <1>1, <1>2, PTL DEF Spec

\* The types of all variables, and the arithmetic of the two UdpRelayBuffers: the
\* cursor never passes the bytes and the bytes never pass the capacity, whatever
\* reserve_by_cursor, compact, reset, advance and the reads make of them.
THEOREM UdpFramesTypeOK == Spec => []TypeOK
<1>1. TInv => TypeOK
  BY DEF TInv
<1> QED
  BY <1>1, TInvHolds, PTL

\* A read of no bytes is never the full buffer, or the buffer that
\* reserve_by_cursor has made as small as a datagram: it is the end of the stream.
THEOREM EofIsEndHolds == Spec => []EofIsEnd
<1>1. TInv => EofIsEnd
  BY DEF TInv
<1> QED
  BY <1>1, TInvHolds, PTL
-----------------------------------------------------------------------------
(***************************************************************************)
(* Parts of the stream.                                                    *)
(***************************************************************************)
LEMMA PartExtend ==
  ASSUME NEW s \in Seq(Byte), NEW t \in Seq(Byte), NEW f \in Seq(Byte), NEW k \in Nat, Part(s, t, k)
  PROVE  Part(s, t \o f, k)
<1> DEFINE tf == t \o f
<1>1. Len(tf) = Len(t) + Len(f) /\ \A j \in 1..Len(t) : tf[j] = t[j]
  OBVIOUS
<1>2. Len(s) \in Nat /\ Len(t) \in Nat /\ Len(f) \in Nat
  OBVIOUS
<1>3. k + Len(s) <= Len(t) /\ \A i \in 1..Len(s) : s[i] = t[k + i]
  BY DEF Part
<1> HIDE DEF tf
<1>4. Part(s, tf, k)
  <2>1. k + Len(s) <= Len(tf)
    BY <1>1, <1>2, <1>3
  <2>2. ASSUME NEW i \in 1..Len(s) PROVE s[i] = tf[k + i]
    BY <1>1, <1>2, <1>3
  <2> QED
    BY <2>1, <2>2 DEF Part
<1> QED
  BY <1>4 DEF tf

LEMMA PartEnd ==
  ASSUME NEW t \in Seq(Byte), NEW f \in Seq(Byte)
  PROVE  Part(f, t \o f, Len(t))
<1> DEFINE tf == t \o f
<1>1. Len(tf) = Len(t) + Len(f) /\ \A i \in 1..Len(f) : tf[Len(t) + i] = f[i]
  OBVIOUS
<1>2. Len(t) + Len(f) <= Len(tf)
  BY <1>1
<1> HIDE DEF tf
<1>3. Part(f, tf, Len(t))
  BY <1>1, <1>2 DEF Part
<1> QED
  BY <1>3 DEF tf

\* r is s without its first n bytes.
LEMMA PartRest ==
  ASSUME NEW s \in Seq(Byte), NEW t \in Seq(Byte), NEW k \in Nat, Part(s, t, k),
         NEW r \in Seq(Byte), NEW n \in Nat, n <= Len(s), Len(r) = Len(s) - n,
         \A i \in 1..Len(r) : r[i] = s[n + i]
  PROVE  Part(r, t, k + n)
<1>1. Len(s) \in Nat /\ Len(t) \in Nat /\ Len(r) \in Nat
  OBVIOUS
<1>2. k + Len(s) <= Len(t) /\ \A i \in 1..Len(s) : s[i] = t[k + i]
  BY DEF Part
<1>3. k + n + Len(r) <= Len(t)
  BY <1>1, <1>2
<1>4. ASSUME NEW i \in 1..Len(r) PROVE r[i] = t[k + n + i]
  <2>1. n + i \in 1..Len(s) /\ k + (n + i) = k + n + i
    BY <1>1
  <2> QED
    BY <1>2, <2>1
<1> QED
  BY <1>3, <1>4 DEF Part

LEMMA PartCut ==
  ASSUME NEW s \in Seq(Byte), NEW t \in Seq(Byte), NEW k \in Nat, Part(s, t, k),
         NEW n \in Nat, n <= Len(s)
  PROVE  /\ Part(SubSeq(s, 1, n), t, k) /\ Part(SubSeq(s, n + 1, Len(s)), t, k + n)
         /\ SubSeq(s, 1, n) \in Seq(Byte) /\ SubSeq(s, n + 1, Len(s)) \in Seq(Byte)
         /\ Len(SubSeq(s, 1, n)) = n /\ Len(SubSeq(s, n + 1, Len(s))) = Len(s) - n
<1> DEFINE p == SubSeq(s, 1, n)  r == SubSeq(s, n + 1, Len(s))
<1>1. /\ p \in Seq(Byte) /\ Len(p) = n /\ \A i \in 1..n : p[i] = s[i]
      /\ r \in Seq(Byte) /\ Len(r) = Len(s) - n /\ \A i \in 1..Len(r) : r[i] = s[n + i]
  <2>1. p \in Seq(Byte) /\ Len(p) = n /\ \A i \in 1..n : p[i] = s[i]
    OBVIOUS
  <2>2. r \in Seq(Byte) /\ Len(r) = Len(s) - n
    OBVIOUS
  <2>3. \A i \in 1..(Len(s) - n) : r[i] = s[n + i]
    OBVIOUS
  <2> QED
    BY <2>1, <2>2, <2>3
<1>2. k + Len(s) <= Len(t) /\ \A i \in 1..Len(s) : s[i] = t[k + i]
  BY DEF Part
<1> HIDE DEF p, r
<1>3. Part(p, t, k)
  BY <1>1, <1>2 DEF Part
<1>4. Part(r, t, k + n)
  BY <1>1, PartRest
<1> QED
  BY <1>1, <1>3, <1>4 DEF p, r

LEMMA PartJoin ==
  ASSUME NEW r \in Seq(Byte), NEW s \in Seq(Byte), NEW t \in Seq(Byte), NEW k \in Nat,
         Part(r, t, k), Part(s, t, k + Len(r))
  PROVE  Part(r \o s, t, k)
<1> DEFINE rs == r \o s
<1>1. /\ Len(rs) = Len(r) + Len(s) /\ \A i \in 1..Len(r) : rs[i] = r[i]
      /\ \A i \in 1..Len(s) : rs[Len(r) + i] = s[i]
      /\ Len(r) \in Nat /\ Len(s) \in Nat /\ Len(t) \in Nat
  OBVIOUS
<1>2. /\ \A i \in 1..Len(r) : r[i] = t[k + i]
      /\ k + Len(r) + Len(s) <= Len(t) /\ \A i \in 1..Len(s) : s[i] = t[k + Len(r) + i]
  BY DEF Part
<1> HIDE DEF rs
<1>3. ASSUME NEW i \in 1..Len(rs) PROVE rs[i] = t[k + i]
  <2>1. CASE i <= Len(r)
    BY <1>1, <1>2, <2>1
  <2>2. CASE ~(i <= Len(r))
    <3> DEFINE j == i - Len(r)
    <3>1. j \in 1..Len(s) /\ i = Len(r) + j /\ k + i = k + Len(r) + j
      BY <1>1, <2>2
    <3> HIDE DEF j
    <3> QED
      BY <1>1, <1>2, <3>1
  <2> QED
    BY <2>1, <2>2
<1>4. Part(rs, t, k)
  BY <1>1, <1>2, <1>3 DEF Part
<1> QED
  BY <1>4 DEF rs

\* Two parts that begin at the same place agree as far as both go.
LEMMA PartAgree ==
  ASSUME NEW s \in Seq(Byte), NEW f \in Seq(Byte), NEW t \in Seq(Byte), NEW k \in Nat,
         Part(s, t, k), Part(f, t, k)
  PROVE  \A i \in 1..Len(s) : i <= Len(f) => s[i] = f[i]
  BY DEF Part

LEMMA EmptyPart ==
  ASSUME NEW t \in Seq(Byte), NEW k \in Nat, k <= Len(t), NEW s \in Seq(Byte), Len(s) = 0
  PROVE  Part(s, t, k)
  BY DEF Part

\* Two neighbouring bytes read back as the number.
LEMMA BeRoundTrip ==
  ASSUME NEW n \in Nat, Fits(n)
  PROVE  from_be_bytes(FrameLength(n)[1], FrameLength(n)[2]) = n
<1>1. n % 65536 = n
  BY DEF Fits
<1>2. FrameLength(n)[1] = n \div 256 /\ FrameLength(n)[2] = n % 256
  BY <1>1 DEF FrameLength, to_be_bytes
<1>3. 256 * (n \div 256) + (n % 256) = n
  OBVIOUS
<1> QED
  BY <1>2, <1>3 DEF from_be_bytes

LEMMA JoinFacts ==
  ASSUME NEW s \in Seq(Byte), NEW t \in Seq(Byte)
  PROVE  /\ s \o t \in Seq(Byte) /\ Len(s \o t) = Len(s) + Len(t)
         /\ \A i \in 1..Len(s) : (s \o t)[i] = s[i]
         /\ \A i \in 1..Len(t) : (s \o t)[Len(s) + i] = t[i]
  OBVIOUS

\* What a frame has at which place.
LEMMA FrameParts ==
  ASSUME NEW d \in Packets, Fits(Len(d.data))
  PROVE  LET f == Frame(d)
             l == Len(write_buf(d.addr))
         IN /\ f \in Seq(Byte) /\ l \in Nat /\ Len(d.data) \in Nat
            /\ Len(f) = l + 4 + Len(d.data)
            /\ \A i \in 1..l : f[i] = write_buf(d.addr)[i]
            /\ from_be_bytes(f[l + 1], f[l + 2]) = Len(d.data)
            /\ \A i \in 1..Len(d.data) : f[l + 4 + i] = d.data[i]
<1> DEFINE w == write_buf(d.addr)
           n == Len(d.data)
           b == FrameLength(n)
           wb == w \o b
           wbe == wb \o CRLF
           x == wbe \o d.data
<1>1. d.addr \in MixAddrs /\ d.data \in Seq(Byte) /\ n \in Nat
  BY PacketParts
<1>2. w \in Seq(Byte) /\ Len(w) \in Nat
  BY <1>1, WriteBufType
<1>3. b \in Seq(Byte) /\ Len(b) = 2 /\ from_be_bytes(b[1], b[2]) = n
  <2>1. b \in Seq(Byte)
    BY <1>1, LengthBytes
  <2>3. from_be_bytes(b[1], b[2]) = n
    BY <1>1, BeRoundTrip
  <2>2. Len(b) = 2
    BY DEF FrameLength, to_be_bytes
  <2> QED
    BY <2>1, <2>2, <2>3
<1>4. CRLF \in Seq(Byte) /\ Len(CRLF) = 2
  <2>1. 13 \in Byte /\ 10 \in Byte
    BY IsByte
  <2> QED
    BY <2>1 DEF CRLF
<1>5. Frame(d) = x
  BY DEF Frame, FrameLength
<1> HIDE DEF w, b
<1>6. /\ wb \in Seq(Byte) /\ Len(wb) = Len(w) + 2
      /\ \A i \in 1..Len(w) : wb[i] = w[i]
      /\ wb[Len(w) + 1] = b[1] /\ wb[Len(w) + 2] = b[2]
  <2>1. /\ wb \in Seq(Byte) /\ Len(wb) = Len(w) + Len(b)
        /\ \A i \in 1..Len(w) : wb[i] = w[i]
        /\ \A i \in 1..Len(b) : wb[Len(w) + i] = b[i]
    BY <1>2, <1>3, JoinFacts, Zenon
  <2> HIDE DEF wb
  <2> QED
    BY <1>2, <1>3, <2>1
<1> HIDE DEF wb
<1>7. /\ wbe \in Seq(Byte) /\ Len(wbe) = Len(w) + 4
      /\ \A i \in 1..(Len(w) + 2) : wbe[i] = wb[i]
  <2>1. /\ wbe \in Seq(Byte) /\ Len(wbe) = Len(wb) + Len(CRLF)
        /\ \A i \in 1..Len(wb) : wbe[i] = wb[i]
    BY <1>4, <1>6, JoinFacts, Zenon
  <2> HIDE DEF wbe
  <2> QED
    BY <1>2, <1>4, <1>6, <2>1
<1> HIDE DEF wbe
<1>8. /\ x \in Seq(Byte) /\ Len(x) = Len(w) + 4 + n
      /\ \A i \in 1..(Len(w) + 4) : x[i] = wbe[i]
      /\ \A i \in 1..n : x[Len(w) + 4 + i] = d.data[i]
  <2>1. /\ x \in Seq(Byte) /\ Len(x) = Len(wbe) + Len(d.data)
        /\ \A i \in 1..Len(wbe) : x[i] = wbe[i]
        /\ \A i \in 1..Len(d.data) : x[Len(wbe) + i] = d.data[i]
    BY <1>1, <1>7, JoinFacts, Zenon
  <2> HIDE DEF x
  <2> QED
    BY <1>1, <1>2, <1>7, <2>1
<1> HIDE DEF x, n
<1>9. \A i \in 1..Len(w) : x[i] = w[i]
  BY <1>2, <1>6, <1>7, <1>8
<1>10. x[Len(w) + 1] = b[1] /\ x[Len(w) + 2] = b[2]
  BY <1>2, <1>6, <1>7, <1>8
<1>11. from_be_bytes(x[Len(w) + 1], x[Len(w) + 2]) = n
  BY <1>3, <1>10
<1>12. /\ x \in Seq(Byte) /\ Len(w) \in Nat /\ n \in Nat
       /\ Len(x) = Len(w) + 4 + n
       /\ \A i \in 1..Len(w) : x[i] = w[i]
       /\ from_be_bytes(x[Len(w) + 1], x[Len(w) + 2]) = n
       /\ \A i \in 1..n : x[Len(w) + 4 + i] = d.data[i]
  BY <1>1, <1>2, <1>8, <1>9, <1>11
<1> QED
  BY <1>5, <1>12, Zenon DEF w, n

(***************************************************************************)
(* from_encoded_bytes on a part of an address, and on more than one.       *)
(***************************************************************************)
Agree(c, e) == \A i \in 1..Len(c) : i <= Len(e) => c[i] = e[i]

LEMMA SameSeq ==
  ASSUME NEW s \in Seq(Byte), NEW t \in Seq(Byte), Len(s) = Len(t), \A i \in 1..Len(s) : s[i] = t[i]
  PROVE  s = t
  OBVIOUS

LEMMA AgreeSub ==
  ASSUME NEW c \in Seq(Byte), NEW e \in Seq(Byte), Agree(c, e),
         NEW i \in Nat, NEW j \in Nat, 1 <= i, i <= j + 1, j <= Len(c), j <= Len(e)
  PROVE  SubSeq(c, i, j) = SubSeq(e, i, j)
<1> DEFINE p == SubSeq(c, i, j)  q == SubSeq(e, i, j)  n == j - i + 1
<1>1. n \in Nat /\ Len(c) \in Nat /\ Len(e) \in Nat
  OBVIOUS
<1>2. p \in Seq(Byte) /\ Len(p) = n /\ \A m \in 1..n : p[m] = c[i + m - 1]
  OBVIOUS
<1>3. q \in Seq(Byte) /\ Len(q) = n /\ \A m \in 1..n : q[m] = e[i + m - 1]
  OBVIOUS
<1> HIDE DEF p, q
<1>4. ASSUME NEW m \in 1..n PROVE p[m] = q[m]
  <2>1. i + m - 1 \in 1..Len(c) /\ i + m - 1 <= Len(e)
    BY <1>1
  <2>2. c[i + m - 1] = e[i + m - 1]
    BY <2>1 DEF Agree
  <2> QED
    BY <1>2, <1>3, <2>2
<1> HIDE DEF n
<1>5. p = q
  BY <1>2, <1>3, <1>4, SameSeq
<1> QED
  BY <1>5 DEF p, q

LEMMA AgreeDecoded ==
  ASSUME NEW c \in Seq(Byte), NEW e \in Seq(Byte), Agree(c, e),
         NEW type, NEW ip, NEW hi \in Nat, hi + 2 <= Len(c), hi + 2 <= Len(e)
  PROVE  Decoded(c, type, ip, hi) = Decoded(e, type, ip, hi)
<1>1. c[hi + 1] = e[hi + 1] /\ c[hi + 2] = e[hi + 2]
  BY DEF Agree
<1> QED
  BY <1>1 DEF Decoded

LEMMA DecodeResults ==
  ASSUME NEW b, NEW type, NEW ip, NEW hi, NEW why
  PROVE  /\ Decoded(b, type, ip, hi).len = hi + 2
         /\ Undecoded(why).res = why
  BY DEF Decoded, Undecoded

\* What begins like an address is read as that address as soon as it is all there,
\* and waited for until then.
LEMMA DecodePrefix ==
  ASSUME NEW e \in Seq(Byte), from_encoded_bytes(e).res = "Ok", from_encoded_bytes(e).len = Len(e),
         NEW c \in Seq(Byte), Agree(c, e)
  PROVE  /\ Len(c) < Len(e) => from_encoded_bytes(c) = Undecoded("Incomplete")
         /\ ~(Len(c) < Len(e)) => from_encoded_bytes(c) = from_encoded_bytes(e)
<1> DEFINE lc == Len(c)  le == Len(e)  de == from_encoded_bytes(e)  dc == from_encoded_bytes(c)
<1>1. lc \in Nat /\ le \in Nat
  OBVIOUS
<1>2. V4Len \in Nat /\ V6Len \in Nat
  BY Sizes
<1>3. /\ lc < 2 => dc = Undecoded("Incomplete")
      /\ le < 2 => de = Undecoded("Incomplete")
  BY DecodeCases
<1>4. ~(le < 2) /\ 2 <= le
  <2>1. Undecoded("Incomplete").res # "Ok"
    BY DecodeResults
  <2> QED
    BY <1>1, <1>3, <2>1
<1>5. CASE lc < 2
  BY <1>3, <1>4, <1>5, <1>1
<1>6. CASE ~(lc < 2)
  <2>1. c[1] = e[1] /\ c[2] = e[2] /\ e[1] \in Byte /\ e[2] \in Byte
    <3>1. 1 \in 1..lc /\ 2 \in 1..lc /\ 1 <= le /\ 2 <= le
      BY <1>1, <1>4, <1>6
    <3>2. e[1] \in Byte /\ e[2] \in Byte
      BY <1>1, <1>4
    <3> QED
      BY <3>1, <3>2 DEF Agree
  <2>2. CASE e[1] = 1
    <3> DEFINE hi == 1 + V4Len
    <3>1. /\ de = IF le < 1 + V4Len + 2 THEN Undecoded("Incomplete")
                  ELSE Decoded(e, "V4", SubSeq(e, 2, hi), hi)
          /\ dc = IF lc < 1 + V4Len + 2 THEN Undecoded("Incomplete")
                  ELSE Decoded(c, "V4", SubSeq(c, 2, hi), hi)
      BY <1>4, <1>6, <2>1, <2>2, DecodeCases
    <3>2. hi \in Nat /\ 1 + V4Len + 2 = hi + 2
      BY <1>2
    <3> HIDE DEF hi, lc, le, de, dc
    <3>3. ~(le < hi + 2)
      <4>1. Undecoded("Incomplete").res # "Ok"
        BY DecodeResults
      <4> QED
        BY <3>1, <3>2, <4>1 DEF de
    <3>4. le = hi + 2
      <4>1. de = Decoded(e, "V4", SubSeq(e, 2, hi), hi)
        BY <3>1, <3>2, <3>3
      <4> QED
        BY <4>1, DecodeResults DEF de, le
    <3>5. ASSUME ~(lc < le) PROVE dc = de
      <4>1. hi + 2 <= Len(c) /\ hi + 2 <= Len(e) /\ hi <= Len(c) /\ hi <= Len(e)
        BY <1>1, <3>2, <3>4, <3>5 DEF lc, le
      <4>2. SubSeq(c, 2, hi) = SubSeq(e, 2, hi)
        <5>1. 2 \in Nat /\ 1 <= 2 /\ 2 <= hi + 1
          BY <1>2, <2>1, ByteIs DEF hi
        <5> QED
          BY <3>2, <4>1, <5>1, AgreeSub
      <4>3. Decoded(c, "V4", SubSeq(e, 2, hi), hi) = Decoded(e, "V4", SubSeq(e, 2, hi), hi)
        BY <3>2, <4>1, AgreeDecoded
      <4> QED
        BY <3>1, <3>2, <3>3, <3>4, <3>5, <4>2, <4>3
    <3>6. lc < le => dc = Undecoded("Incomplete")
      BY <3>1, <3>2, <3>4
    <3> QED
      BY <3>5, <3>6 DEF lc, le, dc, de
  <2>3. CASE e[1] = 3
    <3> DEFINE hi == 2 + e[2]
    <3>1. /\ de = IF le < 2 + e[2] + 2 THEN Undecoded("Incomplete")
                  ELSE IF ~from_utf8_ok(SubSeq(e, 3, hi)) THEN Undecoded("Invalid")
                  ELSE Decoded(e, "Hostname", SubSeq(e, 3, hi), hi)
          /\ dc = IF lc < 2 + e[2] + 2 THEN Undecoded("Incomplete")
                  ELSE IF ~from_utf8_ok(SubSeq(c, 3, hi)) THEN Undecoded("Invalid")
                  ELSE Decoded(c, "Hostname", SubSeq(c, 3, hi), hi)
      BY <1>4, <1>6, <2>1, <2>3, DecodeCases
    <3>2. hi \in Nat /\ 2 + e[2] + 2 = hi + 2
      BY <2>1, ByteIs
    <3> HIDE DEF hi, lc, le, de, dc
    <3>3. ~(le < hi + 2) /\ from_utf8_ok(SubSeq(e, 3, hi))
      <4>1. Undecoded("Incomplete").res # "Ok" /\ Undecoded("Invalid").res # "Ok"
        BY DecodeResults
      <4> QED
        BY <3>1, <3>2, <4>1 DEF de
    <3>4. le = hi + 2
      <4>1. de = Decoded(e, "Hostname", SubSeq(e, 3, hi), hi)
        BY <3>1, <3>2, <3>3
      <4> QED
        BY <4>1, DecodeResults DEF de, le
    <3>5. ASSUME ~(lc < le) PROVE dc = de
      <4>1. hi + 2 <= Len(c) /\ hi + 2 <= Len(e) /\ hi <= Len(c) /\ hi <= Len(e)
        BY <1>1, <3>2, <3>4, <3>5 DEF lc, le
      <4>2. SubSeq(c, 3, hi) = SubSeq(e, 3, hi)
        <5>1. 3 \in Nat /\ 1 <= 3 /\ 3 <= hi + 1
          BY <1>2, <2>1, ByteIs DEF hi
        <5> QED
          BY <3>2, <4>1, <5>1, AgreeSub
      <4>3. Decoded(c, "Hostname", SubSeq(e, 3, hi), hi) = Decoded(e, "Hostname", SubSeq(e, 3, hi), hi)
        BY <3>2, <4>1, AgreeDecoded
      <4> QED
        BY <3>1, <3>2, <3>3, <3>4, <3>5, <4>2, <4>3
    <3>6. lc < le => dc = Undecoded("Incomplete")
      BY <3>1, <3>2, <3>4
    <3> QED
      BY <3>5, <3>6 DEF lc, le, dc, de
  <2>4. CASE e[1] = 4
    <3> DEFINE hi == 1 + 2 * V6Len
               Ip(b) == [i \in 1..V6Len |-> from_be_bytes(b[1 + i], b[2 + i])]
    <3>1. /\ de = IF le < 1 + 2 * V6Len + 2 THEN Undecoded("Incomplete") ELSE Decoded(e, "V6", Ip(e), hi)
          /\ dc = IF lc < 1 + 2 * V6Len + 2 THEN Undecoded("Incomplete") ELSE Decoded(c, "V6", Ip(c), hi)
      BY <1>4, <1>6, <2>1, <2>4, DecodeCases
    <3>2. hi \in Nat /\ 1 + 2 * V6Len + 2 = hi + 2 /\ V6Len + 2 <= hi + 1
      BY <1>2
    <3> HIDE DEF hi, lc, le, de, dc, Ip
    <3>3. ~(le < hi + 2)
      <4>1. Undecoded("Incomplete").res # "Ok"
        BY DecodeResults
      <4> QED
        BY <3>1, <3>2, <4>1 DEF de
    <3>4. le = hi + 2
      <4>1. de = Decoded(e, "V6", Ip(e), hi)
        BY <3>1, <3>2, <3>3
      <4> QED
        BY <4>1, DecodeResults DEF de, le
    <3>5. ASSUME ~(lc < le) PROVE dc = de
      <4>1. hi + 2 <= Len(c) /\ hi + 2 <= Len(e)
        BY <1>1, <3>2, <3>4, <3>5 DEF lc, le
      <4>2. Ip(c) = Ip(e)
        <5>1. ASSUME NEW i \in 1..V6Len PROVE c[1 + i] = e[1 + i] /\ c[2 + i] = e[2 + i]
          <6>1. 1 + i \in 1..Len(c) /\ 1 + i <= Len(e) /\ 2 + i \in 1..Len(c) /\ 2 + i <= Len(e)
            <7>1. Len(c) \in Nat /\ Len(e) \in Nat
              OBVIOUS
            <7> QED
              BY <1>2, <3>2, <4>1, <7>1
          <6> QED
            BY <6>1, Zenon DEF Agree
        <5> QED
          BY <5>1 DEF Ip
      <4>3. Decoded(c, "V6", Ip(e), hi) = Decoded(e, "V6", Ip(e), hi)
        BY <3>2, <4>1, AgreeDecoded
      <4> QED
        BY <3>1, <3>2, <3>3, <3>4, <3>5, <4>2, <4>3
    <3>6. lc < le => dc = Undecoded("Incomplete")
      BY <3>1, <3>2, <3>4
    <3> QED
      BY <3>5, <3>6 DEF lc, le, dc, de
  <2>5. CASE e[1] \notin {1, 3, 4}
    <3>1. de = Undecoded("Invalid")
      BY <1>4, <2>5, DecodeCases
    <3>2. Undecoded("Invalid").res # "Ok"
      BY DecodeResults
    <3> QED
      BY <3>1, <3>2
  <2> QED
    BY <2>2, <2>3, <2>4, <2>5
<1> QED
  BY <1>5, <1>6
-----------------------------------------------------------------------------
(***************************************************************************)
(* The sender frames every datagram once, and the bytes of the frames      *)
(* leave in order.                                                         *)
(***************************************************************************)
Extends(s, t) == Len(s) <= Len(t) /\ \A i \in 1..Len(s) : t[i] = s[i]

LEMMA ExtendsJoin ==
  ASSUME NEW S, NEW s \in Seq(S), NEW t \in Seq(S)
  PROVE  Extends(s, s \o t) /\ Extends(s, s)
<1> DEFINE st == s \o t
<1>1. Len(st) = Len(s) + Len(t) /\ Len(s) \in Nat /\ Len(t) \in Nat /\ \A i \in 1..Len(s) : st[i] = s[i]
  OBVIOUS
<1> HIDE DEF st
<1>2. Len(s) <= Len(st)
  BY <1>1
<1>3. Extends(s, st) /\ Extends(s, s)
  BY <1>1, <1>2 DEF Extends
<1> QED
  BY <1>3 DEF st

LEMMA ExtendsAppend ==
  ASSUME NEW S, NEW s \in Seq(S), NEW e \in S
  PROVE  /\ Extends(s, Append(s, e)) /\ Len(Append(s, e)) = Len(s) + 1
         /\ Append(s, e)[Len(s) + 1] = e
<1> DEFINE st == Append(s, e)
<1>1. Len(st) = Len(s) + 1 /\ Len(s) \in Nat /\ (\A i \in 1..Len(s) : st[i] = s[i]) /\ st[Len(s) + 1] = e
  OBVIOUS
<1> HIDE DEF st
<1>2. Len(s) <= Len(st)
  BY <1>1
<1>3. Extends(s, st)
  BY <1>1, <1>2 DEF Extends
<1> QED
  BY <1>1, <1>3 DEF st

LEMMA Types ==
  ASSUME TypeOK
  PROVE  /\ datagrams \in Seq(Packets) /\ Len(datagrams) \in Nat
         /\ delivered \in Seq(Packets) /\ Len(delivered) \in Nat
         /\ todo \in Seq(Packets)
         /\ bounds \in Seq(Nat) /\ Len(bounds) \in Nat
         /\ stream \in Seq(Byte) /\ Len(stream) \in Nat
         /\ wire \in Seq(Byte) /\ Len(wire) \in Nat
         /\ prefix \in Seq(Byte) /\ Len(prefix) \in Nat
         /\ count \in Nat
         /\ send \in SendBuffers /\ recv \in Receivers
         /\ chunk(send.buf) \in Seq(Byte) /\ Len(chunk(send.buf)) = remaining(send.buf) /\ remaining(send.buf) \in Nat
         /\ chunk(recv.buf) \in Seq(Byte) /\ Len(chunk(recv.buf)) = remaining(recv.buf) /\ remaining(recv.buf) \in Nat
<1>1. /\ datagrams \in Seq(Packets) /\ delivered \in Seq(Packets) /\ todo \in Seq(Packets)
      /\ bounds \in Seq(Nat) /\ stream \in Seq(Byte) /\ wire \in Seq(Byte) /\ prefix \in Seq(Byte)
      /\ count \in Nat /\ send \in SendBuffers /\ recv \in Receivers
  BY DEF TypeOK, SendBuffers
<1>2. send.buf \in UdpRelayBuffers /\ recv.buf \in UdpRelayBuffers
  BY <1>1, SendParts, ReceiverParts
<1>3. /\ Len(datagrams) \in Nat /\ Len(delivered) \in Nat /\ Len(bounds) \in Nat /\ Len(stream) \in Nat
      /\ Len(wire) \in Nat /\ Len(prefix) \in Nat
  BY <1>1
<1> QED
  BY <1>1, <1>2, <1>3, BufferParts

\* An empty send_buffer has nothing left to write.
LEMMA NothingLeft ==
  ASSUME NEW b \in UdpRelayBuffers, b.inner = <<>>
  PROVE  remaining(b) = 0
<1>1. Len(b.inner) = 0
  OBVIOUS
<1> QED
  BY <1>1, BufferParts DEF remaining

LEMMA WriteStream ==
  ASSUME TypeOK, StreamOk, NEW x \in 1..WireCap, PollWrite(x)
  PROVE  StreamOk'
<1> DEFINE s == Filled(Head(todo))
           cs == chunk(s.buf)
           n == remaining(s.buf)
           f == Frame(Head(todo))
           at == count + Len(prefix) + Len(wire)
           p == SubSeq(cs, 1, x)
           z == chunk(send'.buf)
<1>1. /\ Head(todo) \in Packets /\ s \in SendBuffers /\ n \in Nat
      /\ x <= n /\ x \in Nat
      /\ wire' = wire \o p /\ send' \in SendBuffers
      /\ remaining(send'.buf) = n - x
      /\ \A i \in 1..(n - x) : z[i] = cs[x + i]
  BY WriteFacts
<1>2. /\ send.buf.inner = <<>> => stream' = stream \o f
      /\ send.buf.inner # <<>> => stream' = stream
      /\ UNCHANGED <<prefix, recv, count>>
  BY DEF PollWrite
<1>3. /\ send.buf.inner = <<>> => cs = f /\ n = Len(f)
      /\ send.buf.inner # <<>> => s = send
  BY <1>1, Types, FilledFacts
<1>4. /\ stream \in Seq(Byte) /\ Len(stream) \in Nat /\ wire \in Seq(Byte) /\ Len(wire) \in Nat
      /\ prefix \in Seq(Byte) /\ Len(prefix) \in Nat /\ count \in Nat /\ at \in Nat
      /\ chunk(recv.buf) \in Seq(Byte) /\ Len(chunk(recv.buf)) = remaining(recv.buf) /\ remaining(recv.buf) \in Nat
      /\ send \in SendBuffers /\ remaining(send.buf) \in Nat
  BY Types
<1>5. /\ cs \in Seq(Byte) /\ Len(cs) = n /\ z \in Seq(Byte) /\ Len(z) = n - x /\ f \in Seq(Byte) /\ Len(f) \in Nat
  BY <1>1, SendParts, BufferParts, FrameType
<1>6. /\ remaining(recv.buf) <= count
      /\ Part(chunk(recv.buf), stream, count - remaining(recv.buf))
      /\ Part(prefix, stream, count)
      /\ Part(wire, stream, count + Len(prefix))
      /\ Part(chunk(send.buf), stream, at)
      /\ Len(stream) = at + remaining(send.buf)
  BY DEF StreamOk
<1>7. send.buf.inner = <<>> => Len(stream) = at
  BY <1>4, <1>6, SendParts, NothingLeft
<1>8. /\ stream' \in Seq(Byte)
      /\ Part(cs, stream', at) /\ Len(stream') = at + n
      /\ Part(chunk(recv.buf), stream', count - remaining(recv.buf))
      /\ Part(prefix, stream', count)
      /\ Part(wire, stream', count + Len(prefix))
  <2>0. count - remaining(recv.buf) \in Nat /\ count + Len(prefix) \in Nat
    BY <1>4, <1>6
  <2>1. CASE send.buf.inner = <<>>
    <3> HIDE DEF f, cs, at, s, n
    <3>1. stream' = stream \o f /\ cs = f /\ n = Len(f) /\ Len(stream) = at
      BY <1>2, <1>3, <1>7, <2>1
    <3>2. stream \o f \in Seq(Byte) /\ Len(stream \o f) = at + n
      <4>1. stream \o f \in Seq(Byte) /\ Len(stream \o f) = Len(stream) + Len(f)
        BY <1>4, <1>5, ConcatType
      <4> QED
        BY <3>1, <4>1, Zenon
    <3>3. Part(f, stream \o f, Len(stream))
      BY <1>4, <1>5, PartEnd
    <3>4. /\ Part(chunk(recv.buf), stream \o f, count - remaining(recv.buf))
          /\ Part(prefix, stream \o f, count)
          /\ Part(wire, stream \o f, count + Len(prefix))
      BY <1>4, <1>5, <1>6, <2>0, PartExtend
    <3> QED
      BY <3>1, <3>2, <3>3, <3>4
  <2>2. CASE send.buf.inner # <<>>
    BY <1>2, <1>3, <1>4, <1>6, <2>2
  <2> QED
    BY <2>1, <2>2
<1> HIDE DEF s, n, f, cs, z, at
<1>9. p \in Seq(Byte) /\ Len(p) = x /\ Part(p, stream', at)
  BY <1>1, <1>4, <1>5, <1>8, PartCut
<1> HIDE DEF p
<1>10. Part(z, stream', at + x)
  <2>1. x <= Len(cs) /\ Len(z) = Len(cs) - x /\ \A i \in 1..Len(z) : z[i] = cs[x + i]
    BY <1>1, <1>5
  <2> QED
    BY <1>1, <1>4, <1>5, <1>8, <2>1, PartRest
<1>11. Part(wire', stream', count + Len(prefix)) /\ Len(wire') = Len(wire) + x
  <2>1. count + Len(prefix) \in Nat /\ at = count + Len(prefix) + Len(wire)
    BY <1>4 DEF at
  <2>2. Part(wire \o p, stream', count + Len(prefix))
    BY <1>4, <1>8, <1>9, <2>1, PartJoin
  <2>3. Len(wire \o p) = Len(wire) + x
    BY <1>4, <1>9, ConcatType
  <2> QED
    BY <1>1, <2>2, <2>3
<1>12. count' = count /\ prefix' = prefix /\ recv' = recv
  BY <1>2
<1>13. /\ count' + Len(prefix') + Len(wire') = at + x
       /\ Len(stream') = count' + Len(prefix') + Len(wire') + remaining(send'.buf)
  BY <1>1, <1>4, <1>8, <1>11, <1>12 DEF at
<1>14. Part(z, stream', count' + Len(prefix') + Len(wire'))
  BY <1>10, <1>13
<1>15. /\ remaining(recv'.buf) <= count'
       /\ Part(chunk(recv'.buf), stream', count' - remaining(recv'.buf))
       /\ Part(prefix', stream', count')
       /\ Part(wire', stream', count' + Len(prefix'))
  BY <1>6, <1>8, <1>11, <1>12
<1> QED
  BY <1>13, <1>14, <1>15 DEF StreamOk, z

\* What a write or a skipped datagram makes of the history.
LEMMA WriteFrames ==
  ASSUME TypeOK, FramesOk, SenderOk, NEW x \in 1..WireCap, PollWrite(x)
  PROVE  /\ Extends(datagrams, datagrams') /\ Extends(bounds, bounds') /\ FramesOk'
         /\ Len(bounds') = Len(datagrams) + 1
<1> DEFINE h == Head(todo)
           f == Frame(h)
           l == Len(bounds)
<1>1. /\ todo # <<>> /\ h \in Packets /\ h.data # <<>>
      /\ datagrams' = datagrams \/ datagrams' = datagrams \o NextOf(Tail(todo))
  BY WriteFacts
<1>2. /\ send.buf.inner = <<>> => stream' = stream \o f /\ bounds' = Append(bounds, Len(stream'))
      /\ send.buf.inner # <<>> => stream' = stream /\ bounds' = bounds
  BY DEF PollWrite
<1>3. /\ datagrams \in Seq(Packets) /\ Len(datagrams) \in Nat /\ todo \in Seq(Packets)
      /\ bounds \in Seq(Nat) /\ l \in Nat /\ stream \in Seq(Byte) /\ Len(stream) \in Nat
  BY Types
<1>4. NextOf(todo) # <<>> /\ NextOf(Tail(todo)) \in Seq(Packets)
  <2>1. NextOf(todo) = <<h>> /\ Tail(todo) \in Seq(Packets)
    BY <1>1, <1>3, TodoFacts
  <2>2. NextOf(Tail(todo)) \in Seq(Packets)
    BY <2>1, TodoFacts
  <2> QED
    BY <2>1, <2>2
<1>5. /\ datagrams # <<>> /\ datagrams[Len(datagrams)] = h
      /\ send.buf.inner = <<>> => l = Len(datagrams)
      /\ send.buf.inner # <<>> => l = Len(datagrams) + 1
  BY <1>4 DEF SenderOk
<1>6. /\ bounds # <<>> /\ bounds[1] = 0 /\ bounds[l] = Len(stream)
      /\ \A i \in 1..(l - 1) :
           /\ bounds[i + 1] = bounds[i] + Len(Frame(datagrams[i]))
           /\ Part(Frame(datagrams[i]), stream, bounds[i])
  BY DEF FramesOk
<1>7. Extends(datagrams, datagrams') /\ Len(datagrams') \in Nat
  <2>1. Extends(datagrams, datagrams')
    BY <1>1, <1>3, <1>4, ExtendsJoin
  <2>2. datagrams \o NextOf(Tail(todo)) \in Seq(Packets)
    BY <1>3, <1>4
  <2>3. datagrams' \in Seq(Packets)
    BY <1>1, <1>3, <2>2
  <2> QED
    BY <2>1, <2>3
<1>8. f \in Seq(Byte) /\ Len(f) \in Nat
  BY <1>1, FrameType
<1>9. 1 <= l
  BY <1>3, <1>6
<1>10. \A i \in 1..(l - 1) : /\ datagrams'[i] = datagrams[i] /\ datagrams[i] \in Packets /\ bounds[i] \in Nat
                             /\ Frame(datagrams[i]) \in Seq(Byte)
  <2> TAKE i \in 1..(l - 1)
  <2>1. i \in 1..Len(datagrams) /\ i \in 1..l
    BY <1>3, <1>5
  <2>2. datagrams[i] \in Packets /\ bounds[i] \in Nat
    BY <1>3, <2>1
  <2> QED
    BY <1>7, <2>1, <2>2, FrameType DEF Extends
<1> HIDE DEF f, h, l
<1>11. CASE send.buf.inner = <<>>
  <2>1. stream' = stream \o f /\ bounds' = Append(bounds, Len(stream')) /\ l = Len(datagrams)
    BY <1>2, <1>5, <1>11
  <2>2. stream' \in Seq(Byte) /\ Len(stream') = Len(stream) + Len(f) /\ Len(stream') \in Nat
    BY <1>3, <1>8, <2>1, ConcatType
  <2>3. Extends(bounds, bounds') /\ Len(bounds') = l + 1 /\ bounds'[l + 1] = Len(stream')
    BY <1>3, <2>1, <2>2, ExtendsAppend DEF l
  <2>4. \A i \in 1..l : bounds'[i] = bounds[i]
    BY <2>3 DEF Extends, l
  <2>5. bounds' # <<>> /\ bounds'[1] = 0
    <3>1. Len(bounds') # 0 /\ 1 \in 1..l
      BY <1>3, <1>9, <2>3
    <3>2. bounds' # <<>>
      BY <3>1
    <3> QED
      BY <1>6, <2>4, <3>1, <3>2
  <2>6. Len(bounds') <= Len(datagrams') + 1 /\ Len(bounds') = Len(datagrams) + 1
    BY <1>3, <1>7, <2>1, <2>3 DEF Extends
  <2>7. ASSUME NEW i \in 1..l
        PROVE  /\ bounds'[i + 1] = bounds'[i] + Len(Frame(datagrams'[i]))
               /\ Part(Frame(datagrams'[i]), stream', bounds'[i])
    <3>1. CASE i = l
      <4>1. datagrams'[i] = h
        <5>1. l \in 1..Len(datagrams)
          BY <1>3, <1>9, <2>1
        <5> QED
          BY <1>5, <1>7, <2>1, <3>1, <5>1 DEF Extends
      <4>2. Part(f, stream', Len(stream))
        BY <1>3, <1>8, <2>1, PartEnd
      <4>3. bounds'[i] = Len(stream) /\ bounds'[i + 1] = Len(stream) + Len(f)
        BY <1>6, <2>2, <2>3, <2>4, <3>1
      <4> QED
        BY <4>1, <4>2, <4>3 DEF f
    <3>2. CASE i # l
      <4>1. i \in 1..(l - 1) /\ i + 1 \in 1..l
        BY <1>3, <3>2
      <4>2. bounds'[i] = bounds[i] /\ bounds'[i + 1] = bounds[i + 1] /\ datagrams'[i] = datagrams[i]
        BY <1>10, <2>4, <4>1
      <4>3. Part(Frame(datagrams[i]), stream \o f, bounds[i])
        BY <1>3, <1>6, <1>8, <1>10, <4>1, PartExtend
      <4> QED
        BY <1>6, <2>1, <4>1, <4>2, <4>3
    <3> QED
      BY <3>1, <3>2
  <2>8. bounds'[Len(bounds')] = Len(stream') /\ 1..(Len(bounds') - 1) = 1..l
    BY <1>3, <2>3
  <2>9. FramesOk'
    BY <2>5, <2>6, <2>7, <2>8 DEF FramesOk
  <2> QED
    BY <1>7, <2>3, <2>6, <2>9
<1>12. CASE send.buf.inner # <<>>
  <2>1. stream' = stream /\ bounds' = bounds /\ l = Len(datagrams) + 1
    BY <1>2, <1>5, <1>12
  <2>2. Len(bounds') <= Len(datagrams') + 1 /\ Len(bounds') = Len(datagrams) + 1
    BY <1>3, <1>7, <2>1 DEF Extends, l
  <2>3. FramesOk'
    <3>1. ASSUME NEW i \in 1..(l - 1)
          PROVE  /\ bounds'[i + 1] = bounds'[i] + Len(Frame(datagrams'[i]))
                 /\ Part(Frame(datagrams'[i]), stream', bounds'[i])
      BY <1>6, <1>10, <2>1
    <3> QED
      BY <1>6, <2>1, <2>2, <3>1 DEF FramesOk, l
  <2>4. Extends(bounds, bounds')
    BY <1>3, <2>1, ExtendsJoin
  <2> QED
    BY <1>7, <2>2, <2>3, <2>4
<1> QED
  BY <1>11, <1>12

\* The datagram at the head is done, and UdpCopyBuf reads the next one.
LEMMA NextSender ==
  ASSUME TypeOK, SenderOk, todo # <<>>, todo' = Tail(todo), datagrams' = datagrams \o NextOf(Tail(todo)),
         send'.buf.inner = <<>>, Len(bounds') = Len(datagrams) + 1
  PROVE  SenderOk'
<1> DEFINE q == Tail(todo)  g == datagrams \o NextOf(q)
<1>1. datagrams \in Seq(Packets) /\ Len(datagrams) \in Nat /\ todo \in Seq(Packets)
  BY Types
<1>2. /\ \A i \in 1..Len(todo) : Survives(todo[i])
      /\ \A i \in 1..Len(datagrams) : Survives(datagrams[i]) /\ datagrams[i].data # <<>>
  BY DEF SenderOk
<1>3. q \in Seq(Packets) /\ \A i \in 1..Len(q) : Survives(q[i])
  <2>1. Len(q) = Len(todo) - 1 /\ Len(todo) \in Nat /\ q \in Seq(Packets)
    BY <1>1
  <2>2. ASSUME NEW i \in 1..Len(q) PROVE Survives(q[i])
    <3>1. q[i] = todo[i + 1] /\ i + 1 \in 1..Len(todo)
      BY <1>1, <2>1
    <3> QED
      BY <1>2, <3>1
  <2> QED
    BY <2>1, <2>2
<1>4. NextOf(q) \in Seq(Packets) /\ NextOf(q) # <<>> => q # <<>> /\ Head(q).data # <<>> /\ NextOf(q) = <<Head(q)>>
  BY <1>3, TodoFacts
<1>5. CASE NextOf(q) = <<>>
  <2>1. g = datagrams
    BY <1>1, <1>5
  <2>2. todo' = q /\ datagrams' = datagrams
    BY <2>1
  <2> HIDE DEF q
  <2> QED
    BY <1>1, <1>2, <1>3, <1>5, <2>2 DEF SenderOk
<1>6. CASE NextOf(q) # <<>>
  <2> DEFINE h == Head(q)
  <2>1. h \in Packets /\ Survives(h) /\ h.data # <<>> /\ g = datagrams \o <<h>>
    <3>1. q # <<>> /\ h.data # <<>> /\ NextOf(q) = <<h>>
      BY <1>3, <1>6, TodoFacts
    <3>2. 1 \in 1..Len(q) /\ h = q[1]
      BY <1>3, <3>1
    <3>3. h \in Packets
      BY <1>3, <3>1, TodoFacts
    <3> QED
      BY <1>3, <3>1, <3>2, <3>3
  <2>2. todo' = q /\ datagrams' = g
    OBVIOUS
  <2> HIDE DEF q, h
  <2>3. /\ Len(g) = Len(datagrams) + 1 /\ g[Len(datagrams) + 1] = h
        /\ \A i \in 1..Len(datagrams) : g[i] = datagrams[i]
    BY <1>1, <2>1
  <2> HIDE DEF g
  <2>4. g # <<>>
    BY <1>1, <2>3
  <2>5. ASSUME NEW i \in 1..Len(g) PROVE Survives(g[i]) /\ g[i].data # <<>>
    <3>1. CASE i = Len(datagrams) + 1
      BY <2>1, <2>3, <3>1
    <3>2. CASE i # Len(datagrams) + 1
      <4>1. i \in 1..Len(datagrams)
        BY <1>1, <2>3, <3>2
      <4> QED
        BY <1>2, <2>3, <4>1
    <3> QED
      BY <3>1, <3>2
  <2>6. g[Len(g)] = Head(q) /\ Len(bounds') = Len(g)
    BY <2>3 DEF h
  <2> QED
    BY <1>3, <1>6, <2>2, <2>4, <2>5, <2>6 DEF SenderOk
<1> QED
  BY <1>5, <1>6

LEMMA WriteSender ==
  ASSUME TypeOK, FramesOk, SenderOk, NEW x \in 1..WireCap, PollWrite(x)
  PROVE  SenderOk'
<1> DEFINE h == Head(todo)  s == Filled(h)  n == remaining(s.buf)
<1>1. /\ todo # <<>> /\ h \in Packets /\ h.data # <<>> /\ s \in SendBuffers
      /\ send'.data_len = s.data_len
      /\ x < n => send'.buf.inner # <<>> /\ todo' = todo /\ datagrams' = datagrams
      /\ ~(x < n) =>
           /\ send'.buf.inner = <<>> /\ todo' = Advance(s.data_len)
           /\ datagrams' = datagrams \o NextOf(Tail(todo))
  BY WriteFacts
<1>2. Len(bounds') = Len(datagrams) + 1
  BY WriteFrames
<1>3. send \in SendBuffers /\ todo \in Seq(Packets)
  BY Types
<1>4. NextOf(todo) # <<>>
  <2>1. NextOf(todo) = <<h>>
    BY <1>1, <1>3, TodoFacts
  <2> QED
    BY <2>1
<1>5. s.data_len = Len(h.data)
  <2>1. send.buf.inner = <<>> => s.data_len = Len(h.data)
    BY <1>1, <1>3, FilledFacts
  <2>2. send.buf.inner # <<>> => s = send /\ send.data_len = Len(h.data)
    BY <1>1, <1>3, FilledFacts DEF SenderOk
  <2> QED
    BY <2>1, <2>2
<1>6. CASE x < n
  <2>1. send'.buf.inner # <<>> /\ todo' = todo /\ datagrams' = datagrams /\ send'.data_len = Len(Head(todo).data)
    BY <1>1, <1>5, <1>6
  <2> QED
    BY <1>2, <1>4, <2>1 DEF SenderOk
<1>7. CASE ~(x < n)
  <2>1. s.data_len \in Nat
    BY <1>1, SendParts
  <2>2. Advance(s.data_len) = Tail(todo)
    BY <1>1, <1>3, <1>5, <2>1, AdvanceTodo
  <2>3. /\ send'.buf.inner = <<>> /\ todo' = Tail(todo)
        /\ datagrams' = datagrams \o NextOf(Tail(todo))
    BY <1>1, <1>7, <2>2
  <2> QED
    BY <1>1, <1>2, <2>3, NextSender
<1> QED
  BY <1>6, <1>7

LEMMA SkipFrames ==
  ASSUME TypeOK, FramesOk, SenderOk, SkipEmpty
  PROVE  /\ Extends(datagrams, datagrams') /\ Extends(bounds, bounds') /\ FramesOk' /\ SenderOk'
<1>1. /\ todo # <<>> /\ Head(todo).data = <<>> /\ todo' = Tail(todo)
      /\ datagrams' = datagrams \o NextOf(Tail(todo))
      /\ UNCHANGED <<stream, bounds, send>>
  BY DEF SkipEmpty, Sending
<1>2. /\ datagrams \in Seq(Packets) /\ Len(datagrams) \in Nat /\ todo \in Seq(Packets)
      /\ bounds \in Seq(Nat) /\ Len(bounds) \in Nat
  BY Types
<1>3. NextOf(todo) = <<>>
  BY <1>1, Zenon DEF NextOf
<1>4. send.buf.inner = <<>> /\ Len(bounds) = Len(datagrams) + 1
  BY <1>3 DEF SenderOk
<1>5. send'.buf.inner = <<>> /\ Len(bounds') = Len(datagrams) + 1 /\ bounds' = bounds /\ stream' = stream
  BY <1>1, <1>4
<1>6. SenderOk'
  BY <1>1, <1>5, NextSender
<1>7. NextOf(Tail(todo)) \in Seq(Packets)
  BY <1>1, <1>2, TodoFacts
<1>8. Extends(datagrams, datagrams') /\ Extends(bounds, bounds')
  BY <1>1, <1>2, <1>5, <1>7, ExtendsJoin
<1>9. Len(datagrams') \in Nat
  <2>1. datagrams \o NextOf(Tail(todo)) \in Seq(Packets)
    BY <1>2, <1>7
  <2> QED
    BY <1>1, <2>1
<1>10. Len(bounds') <= Len(datagrams') + 1
  BY <1>2, <1>5, <1>8, <1>9 DEF Extends
<1>11. ASSUME NEW i \in 1..(Len(bounds) - 1)
       PROVE  /\ bounds'[i + 1] = bounds'[i] + Len(Frame(datagrams'[i]))
              /\ Part(Frame(datagrams'[i]), stream', bounds'[i])
  <2>1. i \in 1..Len(datagrams)
    BY <1>2, <1>4
  <2>2. datagrams'[i] = datagrams[i]
    BY <1>8, <2>1 DEF Extends
  <2>3. /\ bounds[i + 1] = bounds[i] + Len(Frame(datagrams[i]))
        /\ Part(Frame(datagrams[i]), stream, bounds[i])
    BY DEF FramesOk
  <2> QED
    BY <1>5, <2>2, <2>3
<1>12. FramesOk'
  BY <1>5, <1>10, <1>11 DEF FramesOk
<1> QED
  BY <1>6, <1>8, <1>12

\* What the sender adds does not move the receiver.
LEMMA SendReceiver ==
  ASSUME TypeOK, FramesOk, ReceiverOk, OnlyCutLengthPanics, TypeOK',
         Extends(datagrams, datagrams'), Extends(bounds, bounds'), UNCHANGED <<recv, count, delivered, state>>
  PROVE  ReceiverOk' /\ OnlyCutLengthPanics'
<1> DEFINE k == Len(delivered)  l == Len(bounds)  m == Len(bounds')
<1>1. /\ Len(datagrams) \in Nat /\ k \in Nat /\ l \in Nat /\ m \in Nat
  <2>1. bounds' \in Seq(Nat)
    BY DEF TypeOK
  <2>2. m \in Nat
    BY <2>1
  <2> QED
    BY <2>2, Types
<1>2. k < l /\ l <= Len(datagrams) + 1 /\ l <= m
  BY DEF ReceiverOk, FramesOk, Extends
<1>3. \A i \in 1..l : bounds'[i] = bounds[i]
  BY DEF Extends
<1>4. \A i \in 1..(l - 1) : datagrams'[i] = datagrams[i]
  <2>1. \A i \in 1..(l - 1) : i \in 1..Len(datagrams)
    BY <1>1, <1>2
  <2> QED
    BY <2>1 DEF Extends
<1>5. /\ \A i \in 1..k : delivered[i] = datagrams[i]
      /\ Standing(recv, k) /\ state # "failed"
  BY DEF ReceiverOk
<1>6. recv' = recv /\ count' = count /\ delivered' = delivered /\ state' = state
  OBVIOUS
<1>7. bounds'[k + 1] = bounds[k + 1] /\ (k + 1 < l => datagrams'[k + 1] = datagrams[k + 1] /\ k + 1 < m)
  <2>1. k + 1 \in 1..l /\ (k + 1 < l => k + 1 \in 1..(l - 1) /\ k + 1 < m)
    BY <1>1, <1>2
  <2> QED
    BY <1>3, <1>4, <2>1
<1>8. \A i \in 1..k : delivered'[i] = datagrams'[i]
  <2>1. \A i \in 1..k : i \in 1..(l - 1)
    BY <1>1, <1>2
  <2> QED
    BY <1>4, <1>5, <1>6, <2>1
<1>9. Standing(recv, k)'
  <2> HIDE DEF k, l, m
  <2>1. k' = k
    BY <1>6 DEF k
  <2> QED
    BY <1>5, <1>6, <1>7, <2>1 DEF Standing, At, l, m
<1>10. Len(delivered') < Len(bounds')
  BY <1>1, <1>2, <1>6
<1>11. ReceiverOk'
  BY <1>5, <1>6, <1>8, <1>9, <1>10 DEF ReceiverOk
<1>12. OnlyCutLengthPanics'
  <2>1. CASE state \in {"failed", "panicked"}
    <3>1. PICK i \in 1..(l - 1) : count - bounds[i] - Len(write_buf(datagrams[i].addr)) \in {2, 3}
      BY <2>1 DEF OnlyCutLengthPanics
    <3>2. i \in 1..(m - 1) /\ i \in 1..l
      BY <1>1, <1>2
    <3>3. count' - bounds'[i] - Len(write_buf(datagrams'[i].addr)) \in {2, 3}
      BY <1>3, <1>4, <1>6, <3>1, <3>2
    <3> QED
      BY <3>2, <3>3 DEF OnlyCutLengthPanics
  <2>2. CASE state \notin {"failed", "panicked"}
    BY <1>6, <2>2 DEF OnlyCutLengthPanics
  <2> QED
    BY <2>1, <2>2
<1> QED
  BY <1>11, <1>12

LEMMA WriteIInv ==
  ASSUME IInv, NEW x \in 1..WireCap, PollWrite(x)
  PROVE  IInv'
<1>1. TInv /\ FramesOk /\ SenderOk /\ StreamOk /\ ReceiverOk /\ OnlyCutLengthPanics /\ TypeOK
  BY DEF IInv, TInv
<1>2. TInv' /\ TypeOK'
  BY <1>1, SendTInv DEF TInv
<1>3. FramesOk' /\ Extends(datagrams, datagrams') /\ Extends(bounds, bounds') /\ SenderOk' /\ StreamOk'
  BY <1>1, WriteFrames, WriteSender, WriteStream
<1>4. UNCHANGED <<recv, count, delivered, state>>
  BY DEF PollWrite
<1>5. ReceiverOk' /\ OnlyCutLengthPanics'
  BY <1>1, <1>2, <1>3, <1>4, SendReceiver
<1> QED
  BY <1>2, <1>3, <1>5 DEF IInv

LEMMA SkipIInv ==
  ASSUME IInv, SkipEmpty
  PROVE  IInv'
<1>1. TInv /\ FramesOk /\ SenderOk /\ StreamOk /\ ReceiverOk /\ OnlyCutLengthPanics /\ TypeOK
  BY DEF IInv, TInv
<1>2. TInv' /\ TypeOK'
  BY <1>1, SkipTInv DEF TInv
<1>3. FramesOk' /\ Extends(datagrams, datagrams') /\ Extends(bounds, bounds') /\ SenderOk'
  BY <1>1, SkipFrames
<1>4. UNCHANGED <<stream, send, wire, prefix, recv, count, delivered, state>>
  BY DEF SkipEmpty
<1>5. ReceiverOk' /\ OnlyCutLengthPanics'
  BY <1>1, <1>2, <1>3, <1>4, SendReceiver
<1>6. StreamOk'
  BY <1>1, <1>4 DEF StreamOk
<1> QED
  BY <1>2, <1>3, <1>5, <1>6 DEF IInv

LEMMA EndIInv ==
  ASSUME IInv, Shutdown \/ Break
  PROVE  IInv'
<1>1. TInv /\ FramesOk /\ SenderOk /\ StreamOk /\ ReceiverOk /\ OnlyCutLengthPanics
  BY DEF IInv
<1>2. TInv'
  BY <1>1, EndTInv
<1>3. UNCHANGED <<datagrams, stream, bounds, todo, send, wire, prefix, recv, count, delivered, state>>
  BY DEF Shutdown, Break, historyVars
<1>4. FramesOk' /\ SenderOk'
  BY <1>1, <1>3 DEF FramesOk, SenderOk
<1>5. StreamOk'
  BY <1>1, <1>3 DEF StreamOk
<1>6. ReceiverOk' /\ OnlyCutLengthPanics'
  BY <1>1, <1>3 DEF ReceiverOk, Standing, At, OnlyCutLengthPanics
<1> QED
  BY <1>2, <1>4, <1>5, <1>6 DEF IInv
-----------------------------------------------------------------------------
(***************************************************************************)
(* What is read goes behind what is there.                                 *)
(***************************************************************************)
LEMMA FilledChunk ==
  ASSUME NEW b \in UdpRelayBuffers, NEW p \in Seq(Byte), Len(b.inner) + Len(p) <= b.cap
  PROVE  LET c == [b EXCEPT !.inner = @ \o p]
         IN chunk(c) = chunk(b) \o p /\ remaining(c) = remaining(b) + Len(p)
<1> DEFINE t == b.inner \o p
           c == [b EXCEPT !.inner = @ \o p]
           k == b.cursor
           l == Len(b.inner)
<1>1. b.inner \in Seq(Byte) /\ l \in Nat /\ k \in Nat /\ b.cap \in Nat /\ k <= l
  BY BufferParts
<1>2. c = [inner |-> t, cursor |-> k, cap |-> b.cap]
  <2>1. t \in Seq(Byte)
    BY <1>1
  <2> HIDE DEF t
  <2>2. [b EXCEPT !.inner = t] = [inner |-> t, cursor |-> k, cap |-> b.cap]
    BY <1>1, <2>1, BufferExcept
  <2> QED
    BY <2>2 DEF t
<1>3. /\ t \in Seq(Byte) /\ Len(t) = l + Len(p) /\ Len(p) \in Nat
      /\ \A i \in 1..l : t[i] = b.inner[i]
      /\ \A i \in 1..Len(p) : t[l + i] = p[i]
  BY <1>1
<1> HIDE DEF t, c
<1>4. c.inner = t /\ c.cursor = k
  BY <1>2
<1>5. chunk(c) = SubSeq(t, k + 1, Len(t)) /\ remaining(c) = Len(t) - k
  BY <1>4 DEF chunk, remaining
<1>6. remaining(b) = l - k /\ chunk(b) = SubSeq(b.inner, k + 1, l)
  BY DEF chunk, remaining
<1> DEFINE x == SubSeq(b.inner, k + 1, l)
           y == x \o p
           z == SubSeq(t, k + 1, Len(t))
<1> HIDE DEF l, k
<1>7. x \in Seq(Byte) /\ Len(x) = l - k /\ \A i \in 1..(l - k) : x[i] = b.inner[k + i]
  BY <1>1 DEF l
<1>8. z \in Seq(Byte) /\ Len(z) = Len(t) - k /\ \A i \in 1..(Len(t) - k) : z[i] = t[k + i]
  BY <1>1, <1>3
<1> HIDE DEF x
<1>9. /\ y \in Seq(Byte) /\ Len(y) = Len(x) + Len(p)
      /\ \A i \in 1..Len(x) : y[i] = x[i]
      /\ \A i \in 1..Len(p) : y[Len(x) + i] = p[i]
  BY <1>7, JoinFacts, Zenon
<1> HIDE DEF y, z
<1>10. Len(y) = Len(z) /\ Len(z) = l - k + Len(p)
  BY <1>1, <1>3, <1>7, <1>8, <1>9
<1>11. ASSUME NEW i \in 1..Len(z) PROVE y[i] = z[i]
  <2>1. CASE i <= l - k
    <3>1. i \in 1..(l - k) /\ k + i \in 1..l /\ i \in 1..(Len(t) - k) /\ i \in 1..Len(x)
      BY <1>1, <1>3, <1>7, <1>10, <2>1
    <3> QED
      BY <1>3, <1>7, <1>8, <1>9, <3>1
  <2>2. CASE ~(i <= l - k)
    <3> DEFINE j == i - (l - k)
    <3>1. j \in 1..Len(p) /\ i = Len(x) + j /\ k + i = l + j /\ i \in 1..(Len(t) - k)
      BY <1>1, <1>3, <1>7, <1>10, <2>2
    <3> HIDE DEF j
    <3>2. y[i] = p[j] /\ z[i] = t[l + j]
      BY <1>8, <1>9, <3>1
    <3> QED
      BY <1>3, <3>1, <3>2
  <2> QED
    BY <2>1, <2>2
<1>12. y = z
  BY <1>8, <1>9, <1>10, <1>11
<1>13. chunk(c) = chunk(b) \o p
  BY <1>5, <1>6, <1>12 DEF x, y, z
<1>14. remaining(c) = remaining(b) + Len(p)
  BY <1>1, <1>3, <1>5, <1>6
<1> QED
  BY <1>13, <1>14 DEF c

LEMMA TookChunk ==
  ASSUME recv \in Receivers, NEW w \in Seq(Byte), NEW n \in Nat, n <= Len(w),
         n + Len(recv.buf.inner) <= as_read_buf(recv.buf).cap
  PROVE  LET r == [recv EXCEPT !.buf = [as_read_buf(recv.buf) EXCEPT !.inner = @ \o SubSeq(w, 1, n)]]
         IN /\ r.addr = recv.addr /\ r.expecting = recv.expecting
            /\ chunk(r.buf) = chunk(recv.buf) \o SubSeq(w, 1, n)
            /\ remaining(r.buf) = remaining(recv.buf) + n
<1> DEFINE g == as_read_buf(recv.buf)
           p == SubSeq(w, 1, n)
           b == [g EXCEPT !.inner = @ \o p]
           r == [recv EXCEPT !.buf = [as_read_buf(recv.buf) EXCEPT !.inner = @ \o SubSeq(w, 1, n)]]
<1>1. r.buf = b /\ r.addr = recv.addr /\ r.expecting = recv.expecting
  BY TookType
<1>2. recv.buf \in UdpRelayBuffers
  BY ReceiverParts
<1>3. g \in UdpRelayBuffers /\ g.inner = recv.buf.inner /\ g.cursor = recv.buf.cursor /\ Len(g.inner) \in Nat
  BY <1>2, ReadBufType, BufferParts
<1>4. p \in Seq(Byte) /\ Len(p) = n
  OBVIOUS
<1>5. Len(g.inner) + Len(p) <= g.cap
  <2> HIDE DEF p, g
  <2> QED
    BY <1>3, <1>4 DEF g
<1> HIDE DEF g, p, r
<1>6. chunk(b) = chunk(g) \o p /\ remaining(b) = remaining(g) + Len(p)
  BY <1>3, <1>4, <1>5, FilledChunk
<1>7. chunk(g) = chunk(recv.buf) /\ remaining(g) = remaining(recv.buf)
  BY <1>3 DEF chunk, remaining
<1> HIDE DEF b
<1>8. chunk(r.buf) = chunk(recv.buf) \o p /\ remaining(r.buf) = remaining(recv.buf) + n
  BY <1>1, <1>4, <1>6, <1>7
<1> QED
  BY <1>1, <1>8 DEF r, p, b, g

\* The receiver stands where it stood: n bytes more are in its buffer.
LEMMA ReadReceiver ==
  ASSUME TypeOK, ReceiverOk, StreamOk, NEW n \in Nat,
         UNCHANGED <<datagrams, bounds, delivered>>, count' = count + n,
         recv'.addr = recv.addr, recv'.expecting = recv.expecting,
         remaining(recv'.buf) = remaining(recv.buf) + n, state' # "failed"
  PROVE  ReceiverOk'
<1>1. count \in Nat /\ remaining(recv.buf) \in Nat
  BY Types
<1>2. At(recv)' = At(recv)
  BY <1>1 DEF At
<1>3. Standing(recv, Len(delivered))'
  BY <1>2 DEF ReceiverOk, Standing
<1> QED
  BY <1>3 DEF ReceiverOk

LEMMA ReadIInv ==
  ASSUME IInv, NEW n \in 0..WireCap, PollRead(n)
  PROVE  IInv'
<1> DEFINE p == SubSeq(wire, 1, n)
           q == SubSeq(wire, n + 1, Len(wire))
           k == count - remaining(recv.buf)
<1>1. TInv /\ FramesOk /\ SenderOk /\ StreamOk /\ ReceiverOk /\ OnlyCutLengthPanics /\ TypeOK /\ EofIsEnd
  BY DEF IInv, TInv
<1>2. TInv' /\ EofIsEnd'
  BY <1>1, ReadTInv DEF TInv
<1>3. /\ state = "open" /\ prefix = <<>>
      /\ n <= Atmost(Room, Len(wire))
      /\ n = 0 => Room = 0 \/ (ended /\ wire = <<>>)
      /\ Took(n, wire)
      /\ wire' = q
      /\ UNCHANGED <<historyVars, todo, send, ended, broken, prefix, delivered>>
  BY DEF PollRead
<1>4. UNCHANGED <<datagrams, stream, bounds>>
  BY <1>3 DEF historyVars
<1>5. FramesOk' /\ SenderOk'
  BY <1>1, <1>3, <1>4 DEF FramesOk, SenderOk
<1>6. /\ stream \in Seq(Byte) /\ wire \in Seq(Byte) /\ Len(wire) \in Nat /\ n \in Nat
      /\ prefix \in Seq(Byte) /\ Len(prefix) = 0 /\ count \in Nat /\ recv \in Receivers
      /\ chunk(recv.buf) \in Seq(Byte) /\ Len(chunk(recv.buf)) = remaining(recv.buf) /\ remaining(recv.buf) \in Nat
      /\ remaining(send.buf) \in Nat
  BY <1>1, <1>3, Types, Sizes
<1>7. n <= Len(wire) /\ n + Len(recv.buf.inner) <= as_read_buf(recv.buf).cap
  <2> DEFINE c == as_read_buf(recv.buf).cap  l == Len(recv.buf.inner)
  <2>1. Room = c - l /\ c \in Nat /\ l \in Nat
    BY <1>6, ReceiverParts, ReadBufType, BufferParts DEF Room
  <2> HIDE DEF c, l
  <2>2. n <= Len(wire) /\ n + l <= c
    BY <1>3, <1>6, <2>1 DEF Atmost
  <2> QED
    BY <2>2 DEF c, l
<1>8. /\ remaining(recv.buf) <= count /\ k \in Nat
      /\ Part(chunk(recv.buf), stream, k)
      /\ Part(wire, stream, count)
      /\ Part(chunk(send.buf), stream, count + Len(wire))
      /\ Len(stream) = count + Len(wire) + remaining(send.buf)
  <2>1. /\ remaining(recv.buf) <= count
        /\ Part(chunk(recv.buf), stream, k)
        /\ Part(wire, stream, count + Len(prefix))
        /\ Part(chunk(send.buf), stream, count + Len(prefix) + Len(wire))
        /\ Len(stream) = count + Len(prefix) + Len(wire) + remaining(send.buf)
    BY <1>1 DEF StreamOk
  <2>2. count + Len(prefix) = count /\ k \in Nat
    BY <1>6, <2>1
  <2> HIDE DEF k
  <2> QED
    BY <2>1, <2>2
<1>9. /\ Part(p, stream, count) /\ Part(q, stream, count + n)
      /\ p \in Seq(Byte) /\ q \in Seq(Byte) /\ Len(p) = n /\ Len(q) = Len(wire) - n
  BY <1>6, <1>7, <1>8, PartCut
<1> HIDE DEF p, q
<1>10. /\ count' = count + n /\ recv'.addr = recv.addr /\ recv'.expecting = recv.expecting
       /\ chunk(recv'.buf) = chunk(recv.buf) \o p
       /\ remaining(recv'.buf) = remaining(recv.buf) + n
       /\ state' \in {"open", "eof"}
  <2>1. CASE n = 0
    <3>1. state' = "eof" /\ recv' = recv /\ count' = count
      BY <1>3, <2>1 DEF Took
    <3>2. p = <<>>
      BY <1>9, <2>1
    <3>3. chunk(recv.buf) \o p = chunk(recv.buf)
      BY <1>6, <3>2
    <3> QED
      BY <1>6, <2>1, <3>1, <3>3
  <2>2. CASE n # 0
    <3> DEFINE r == [recv EXCEPT !.buf = [as_read_buf(recv.buf) EXCEPT !.inner = @ \o SubSeq(wire, 1, n)]]
    <3>1. recv' = r /\ count' = count + n /\ state' = state
      BY <1>3, <2>2, Zenon DEF Took
    <3>2. /\ r.addr = recv.addr /\ r.expecting = recv.expecting
          /\ chunk(r.buf) = chunk(recv.buf) \o p
          /\ remaining(r.buf) = remaining(recv.buf) + n
      BY <1>6, <1>7, TookChunk DEF p
    <3> HIDE DEF r
    <3> QED
      BY <1>3, <3>1, <3>2
  <2> QED
    BY <2>1, <2>2
<1>11. ReceiverOk'
  BY <1>1, <1>3, <1>4, <1>6, <1>10, ReadReceiver
<1>12. OnlyCutLengthPanics'
  BY <1>10 DEF OnlyCutLengthPanics
<1>13. StreamOk'
  <2>1. Part(chunk(recv.buf) \o p, stream, k)
    <3>1. k + Len(chunk(recv.buf)) = count
      BY <1>6, <1>8
    <3> HIDE DEF k
    <3> QED
      BY <1>6, <1>8, <1>9, <3>1, PartJoin
  <2>2. count' - remaining(recv'.buf) = k /\ remaining(recv'.buf) <= count'
    BY <1>6, <1>8, <1>10
  <2>3. prefix' = prefix /\ Part(prefix, stream, count + n)
    <3>1. count + n \in Nat /\ count + n <= Len(stream)
      BY <1>6, <1>7, <1>8
    <3> QED
      BY <1>3, <1>6, <3>1, EmptyPart
  <2>4. /\ count' + Len(prefix') = count + n
        /\ count' + Len(prefix') + Len(wire') = count + Len(wire)
    BY <1>3, <1>6, <1>7, <1>9, <1>10, <2>3
  <2>5. send' = send /\ stream' = stream
    BY <1>3, <1>4
  <2> HIDE DEF k
  <2>6. /\ Part(chunk(recv'.buf), stream', count' - remaining(recv'.buf))
        /\ Part(prefix', stream', count')
        /\ Part(wire', stream', count' + Len(prefix'))
        /\ Part(chunk(send'.buf), stream', count' + Len(prefix') + Len(wire'))
        /\ Len(stream') = count' + Len(prefix') + Len(wire') + remaining(send'.buf)
    BY <1>3, <1>8, <1>9, <1>10, <2>1, <2>2, <2>3, <2>4, <2>5
  <2> QED
    BY <2>2, <2>6 DEF StreamOk
<1> QED
  BY <1>2, <1>5, <1>11, <1>12, <1>13 DEF IInv

LEMMA BufferedIInv ==
  ASSUME IInv, PollReadBuffered
  PROVE  IInv'
<1> DEFINE n == Len(prefix)
           p == SubSeq(prefix, 1, n)
           r == [recv EXCEPT !.buf = [as_read_buf(recv.buf) EXCEPT !.inner = @ \o p]]
           k == count - remaining(recv.buf)
<1>1. TInv /\ FramesOk /\ SenderOk /\ StreamOk /\ ReceiverOk /\ OnlyCutLengthPanics /\ TypeOK /\ FirstRead
  BY DEF IInv, TInv
<1>2. TInv'
  BY <1>1, BufferedTInv
<1>3. /\ state = "open" /\ prefix # <<>>
      /\ Took(n, prefix) /\ prefix' = <<>>
      /\ UNCHANGED <<historyVars, todo, send, wire, ended, broken, delivered>>
  BY DEF PollReadBuffered
<1>4. UNCHANGED <<datagrams, stream, bounds>>
  BY <1>3 DEF historyVars
<1>5. FramesOk' /\ SenderOk'
  BY <1>1, <1>3, <1>4 DEF FramesOk, SenderOk
<1>6. /\ stream \in Seq(Byte) /\ Len(wire) \in Nat /\ n \in Nat /\ n # 0 /\ n <= Len(prefix)
      /\ prefix \in Seq(Byte) /\ count \in Nat /\ recv \in Receivers
      /\ chunk(recv.buf) \in Seq(Byte) /\ Len(chunk(recv.buf)) = remaining(recv.buf) /\ remaining(recv.buf) \in Nat
      /\ remaining(send.buf) \in Nat /\ n <= UDP_BUFFER_SIZE /\ UDP_BUFFER_SIZE \in Nat
  <2>1. n # 0
    BY <1>1, <1>3, Types
  <2>2. n <= UDP_BUFFER_SIZE
    BY <1>1 DEF TypeOK
  <2> QED
    BY <1>1, <2>1, <2>2, Types, Sizes
<1>7. n + Len(recv.buf.inner) <= as_read_buf(recv.buf).cap
  <2>1. recv.buf = New
    BY <1>1, <1>3 DEF FirstRead
  <2>2. New.cap <= as_read_buf(New).cap /\ as_read_buf(New).cap \in Nat
    BY NewType, ReadBufType, BufferParts
  <2>3. Len(New.inner) = 0 /\ New.cap = UDP_BUFFER_SIZE
    BY NewType
  <2> HIDE DEF n
  <2> QED
    BY <1>6, <2>1, <2>2, <2>3
<1>8. p = prefix
  BY <1>6
<1>9. /\ r.addr = recv.addr /\ r.expecting = recv.expecting
      /\ chunk(r.buf) = chunk(recv.buf) \o p
      /\ remaining(r.buf) = remaining(recv.buf) + n
  BY <1>6, <1>7, TookChunk
<1>10. recv' = r /\ count' = count + n /\ state' = state
  BY <1>3, <1>6, Zenon DEF Took
<1> HIDE DEF r, p
<1>11. /\ recv'.addr = recv.addr /\ recv'.expecting = recv.expecting
       /\ chunk(recv'.buf) = chunk(recv.buf) \o prefix
       /\ remaining(recv'.buf) = remaining(recv.buf) + n
       /\ state' = "open"
  BY <1>3, <1>8, <1>9, <1>10
<1>12. ReceiverOk'
  BY <1>1, <1>3, <1>4, <1>6, <1>10, <1>11, ReadReceiver
<1>13. OnlyCutLengthPanics'
  BY <1>11 DEF OnlyCutLengthPanics
<1>14. StreamOk'
  <2>1. /\ remaining(recv.buf) <= count
        /\ Part(chunk(recv.buf), stream, k)
        /\ Part(prefix, stream, count)
        /\ Part(wire, stream, count + n)
        /\ Part(chunk(send.buf), stream, count + n + Len(wire))
        /\ Len(stream) = count + n + Len(wire) + remaining(send.buf)
    BY <1>1 DEF StreamOk
  <2>2. Part(chunk(recv.buf) \o prefix, stream, k)
    <3>1. k + Len(chunk(recv.buf)) = count /\ k \in Nat
      BY <1>6, <2>1
    <3> HIDE DEF k
    <3> QED
      BY <1>6, <2>1, <3>1, PartJoin
  <2>3. count' - remaining(recv'.buf) = k /\ remaining(recv'.buf) <= count'
    BY <1>6, <1>10, <1>11, <2>1
  <2>4. Len(prefix') = 0 /\ prefix' \in Seq(Byte)
    BY <1>3
  <2>5. Part(prefix', stream, count + n)
    <3>1. count + n \in Nat /\ count + n <= Len(stream)
      BY <1>6, <2>1
    <3> QED
      BY <1>6, <2>4, <3>1, EmptyPart
  <2>6. count' = count + n /\ count' + Len(prefix') = count + n /\ send' = send /\ stream' = stream /\ wire' = wire
    BY <1>3, <1>4, <1>6, <1>10, <2>4
  <2> HIDE DEF k, n
  <2>7. /\ Part(chunk(recv'.buf), stream', count' - remaining(recv'.buf))
        /\ Part(prefix', stream', count')
        /\ Part(wire', stream', count' + Len(prefix'))
        /\ Part(chunk(send'.buf), stream', count' + Len(prefix') + Len(wire'))
        /\ Len(stream') = count' + Len(prefix') + Len(wire') + remaining(send'.buf)
    BY <1>11, <2>1, <2>2, <2>3, <2>5, <2>6
  <2> QED
    BY <2>3, <2>7 DEF StreamOk
<1> QED
  BY <1>2, <1>5, <1>12, <1>13, <1>14 DEF IInv

LEMMA StartIInv ==
  ASSUME IInv, NEW n \in 0..WireCap, Start(n)
  PROVE  IInv'
<1> DEFINE p == SubSeq(wire, 1, n)
           q == SubSeq(wire, n + 1, Len(wire))
<1>1. TInv /\ FramesOk /\ SenderOk /\ StreamOk /\ ReceiverOk /\ OnlyCutLengthPanics /\ TypeOK /\ prefix = <<>>
  <2>1. TInv /\ FramesOk /\ SenderOk /\ StreamOk /\ ReceiverOk /\ OnlyCutLengthPanics /\ TypeOK /\ FirstRead
    BY DEF IInv, TInv
  <2> QED
    BY <2>1 DEF FirstRead, Start
<1>2. TInv'
  BY <1>1, StartTInv
<1>3. /\ n <= Atmost(UDP_BUFFER_SIZE, Len(wire))
      /\ prefix' = p /\ wire' = q /\ state' = "open"
      /\ UNCHANGED <<historyVars, todo, send, recv, count, delivered>>
  BY DEF Start
<1>4. UNCHANGED <<datagrams, stream, bounds>>
  BY <1>3 DEF historyVars
<1>5. FramesOk' /\ SenderOk'
  BY <1>1, <1>3, <1>4 DEF FramesOk, SenderOk
<1>6. ReceiverOk' /\ OnlyCutLengthPanics'
  BY <1>1, <1>3, <1>4 DEF ReceiverOk, Standing, At, OnlyCutLengthPanics
<1>7. /\ stream \in Seq(Byte) /\ wire \in Seq(Byte) /\ Len(wire) \in Nat /\ n \in Nat
      /\ count \in Nat /\ Len(prefix) = 0 /\ UDP_BUFFER_SIZE \in Nat
  BY <1>1, Types, Sizes
<1>8. n <= Len(wire)
  BY <1>3, <1>7 DEF Atmost
<1>9. /\ remaining(recv.buf) <= count
      /\ Part(chunk(recv.buf), stream, count - remaining(recv.buf))
      /\ Part(wire, stream, count)
      /\ Part(chunk(send.buf), stream, count + Len(wire))
      /\ Len(stream) = count + Len(wire) + remaining(send.buf)
  <2>1. /\ remaining(recv.buf) <= count
        /\ Part(chunk(recv.buf), stream, count - remaining(recv.buf))
        /\ Part(wire, stream, count + Len(prefix))
        /\ Part(chunk(send.buf), stream, count + Len(prefix) + Len(wire))
        /\ Len(stream) = count + Len(prefix) + Len(wire) + remaining(send.buf)
    BY <1>1 DEF StreamOk
  <2>2. count + Len(prefix) = count
    BY <1>7
  <2> QED
    BY <2>1, <2>2
<1>10. /\ Part(p, stream, count) /\ Part(q, stream, count + n)
       /\ Len(p) = n /\ Len(q) = Len(wire) - n
  BY <1>7, <1>8, <1>9, PartCut
<1> HIDE DEF p, q
<1>11. count' + Len(prefix') = count + n /\ count' + Len(prefix') + Len(wire') = count + Len(wire)
  BY <1>3, <1>7, <1>8, <1>10
<1>12. StreamOk'
  BY <1>3, <1>4, <1>9, <1>10, <1>11 DEF StreamOk
<1> QED
  BY <1>2, <1>5, <1>6, <1>12 DEF IInv
-----------------------------------------------------------------------------
(***************************************************************************)
(* try_extract_packet: the receiver keeps to the frame it is in.           *)
(***************************************************************************)
\* What the stream has of the j-th frame, and where.
LEMMA FrameAt ==
  ASSUME TypeOK, FramesOk, SenderOk, NEW j \in 1..(Len(bounds) - 1)
  PROVE  LET d == datagrams[j]
             w == write_buf(d.addr)
             g == bounds[j]
         IN /\ d \in Packets /\ d.data # <<>> /\ d.addr \in MixAddrs /\ d.data \in Seq(Byte) /\ Len(d.data) \in Nat
            /\ w \in Seq(Byte) /\ Len(w) \in Nat /\ g \in Nat
            /\ from_encoded_bytes(w) = [res |-> "Ok", len |-> Len(w), addr |-> d.addr]
            /\ bounds[j + 1] = g + Len(w) + 4 + Len(d.data)
            /\ \A i \in 1..Len(w) : stream[g + i] = w[i]
            /\ from_be_bytes(stream[g + Len(w) + 1], stream[g + Len(w) + 2]) = Len(d.data)
            /\ \A i \in 1..Len(d.data) : stream[g + Len(w) + 4 + i] = d.data[i]
<1> DEFINE d == datagrams[j]
           w == write_buf(d.addr)
           g == bounds[j]
           f == Frame(d)
           lw == Len(w)
           ld == Len(d.data)
<1>1. /\ datagrams \in Seq(Packets) /\ Len(datagrams) \in Nat /\ bounds \in Seq(Nat) /\ Len(bounds) \in Nat
  BY Types
<1>2. /\ Len(bounds) <= Len(datagrams) + 1 /\ bounds[j + 1] = g + Len(f) /\ Part(f, stream, g)
  BY DEF FramesOk
<1>3. j \in 1..Len(datagrams) /\ j \in 1..Len(bounds)
  BY <1>1, <1>2
<1>4. d \in Packets /\ g \in Nat
  BY <1>1, <1>3
<1>5. Survives(d) /\ d.data # <<>>
  BY <1>3 DEF SenderOk
<1>6. Fits(ld) /\ from_encoded_bytes(w) = [res |-> "Ok", len |-> lw, addr |-> d.addr]
  BY <1>5 DEF Survives
<1>7. d.addr \in MixAddrs /\ d.data \in Seq(Byte) /\ ld \in Nat
  BY <1>4, PacketParts
<1>8. w \in Seq(Byte)
  BY <1>7, WriteBufType
<1>9. /\ f \in Seq(Byte) /\ lw \in Nat
      /\ Len(f) = lw + 4 + ld
      /\ \A i \in 1..lw : f[i] = w[i]
      /\ from_be_bytes(f[lw + 1], f[lw + 2]) = ld
      /\ \A i \in 1..ld : f[lw + 4 + i] = d.data[i]
  BY <1>4, <1>6, FrameParts
<1>10. \A i \in 1..Len(f) : stream[g + i] = f[i]
  BY <1>2 DEF Part
<1> HIDE DEF d, w, g, f, lw, ld
<1>11. \A i \in 1..lw : stream[g + i] = w[i]
  <2>1. \A i \in 1..lw : i \in 1..Len(f)
    BY <1>7, <1>9
  <2> QED
    BY <1>9, <1>10, <2>1
<1>12. from_be_bytes(stream[g + lw + 1], stream[g + lw + 2]) = ld
  <2>1. lw + 1 \in 1..Len(f) /\ lw + 2 \in 1..Len(f) /\ g + (lw + 1) = g + lw + 1 /\ g + (lw + 2) = g + lw + 2
    BY <1>4, <1>7, <1>9
  <2>2. stream[g + lw + 1] = f[lw + 1] /\ stream[g + lw + 2] = f[lw + 2]
    BY <1>10, <2>1
  <2> QED
    BY <1>9, <2>2
<1>13. ASSUME NEW i \in 1..ld PROVE stream[g + lw + 4 + i] = d.data[i]
  <2>1. lw + 4 + i \in 1..Len(f) /\ g + (lw + 4 + i) = g + lw + 4 + i
    BY <1>4, <1>7, <1>9
  <2> QED
    BY <1>9, <1>10, <2>1
<1>14. bounds[j + 1] = g + lw + 4 + ld
  BY <1>2, <1>4, <1>7, <1>9
<1> QED
  BY <1>4, <1>5, <1>6, <1>7, <1>8, <1>9, <1>11, <1>12, <1>13, <1>14 DEF d, w, g, lw, ld

\* The unread bytes of a receiver are those of the stream before count.
Reads(r) == r \in Receivers /\ remaining(r.buf) <= count /\ Part(chunk(r.buf), stream, At(r))

\* s has used up n bytes more than r.
LEMMA UseUp ==
  ASSUME TypeOK, NEW r, Reads(r), NEW s \in Receivers, NEW n \in Nat, n <= remaining(r.buf),
         remaining(s.buf) = remaining(r.buf) - n,
         \A i \in 1..(remaining(r.buf) - n) : chunk(s.buf)[i] = chunk(r.buf)[n + i]
  PROVE  Reads(s) /\ At(s) = At(r) + n
<1> DEFINE c == chunk(r.buf)  z == chunk(s.buf)  m == remaining(r.buf)
<1>1. r \in Receivers /\ m <= count /\ Part(c, stream, At(r))
  BY DEF Reads
<1>2. /\ c \in Seq(Byte) /\ Len(c) = m /\ m \in Nat
      /\ z \in Seq(Byte) /\ Len(z) = remaining(s.buf)
  BY <1>1, ReceiverParts, BufferParts
<1>3. count \in Nat /\ stream \in Seq(Byte)
  BY Types
<1> HIDE DEF c, z, m
<1>4. remaining(s.buf) = m - n /\ n <= m /\ \A i \in 1..(m - n) : z[i] = c[n + i]
  BY DEF c, z, m
<1>5. At(r) = count - m /\ At(s) = count - (m - n)
  BY <1>4 DEF At, m
<1>6. At(s) = At(r) + n /\ At(r) \in Nat /\ remaining(s.buf) <= count
  BY <1>1, <1>2, <1>3, <1>4, <1>5
<1>7. Part(z, stream, At(r) + n)
  <2>1. n <= Len(c) /\ Len(z) = Len(c) - n /\ \A i \in 1..Len(z) : z[i] = c[n + i]
    BY <1>2, <1>4
  <2> QED
    BY <1>1, <1>2, <1>3, <1>6, <2>1, PartRest
<1> QED
  BY <1>6, <1>7 DEF Reads, z

\* Where r stands the address is read once it is all there, and it is the right one.
LEMMA AddrStep ==
  ASSUME TypeOK, FramesOk, SenderOk, StreamOk, ReceiverOk
  PROVE  LET a == try_update_addr_buf([recv EXCEPT !.res = "Ok"])
         IN /\ Reads(a) /\ Standing(a, Len(delivered))
            /\ a.res \in {"Ok", "Incomplete"} /\ (a.res = "Ok" => a.addr # NoAddr)
<1> DEFINE a == try_update_addr_buf([recv EXCEPT !.res = "Ok"])
           c == chunk(recv.buf)
           d == from_encoded_bytes(c)
           k == Len(delivered)
           l == Len(bounds)
<1>1. recv \in Receivers /\ count \in Nat /\ k \in Nat /\ l \in Nat /\ stream \in Seq(Byte) /\ Len(stream) \in Nat
  BY Types
<1>2. Reads(recv) /\ Standing(recv, k) /\ k < l
  BY <1>1 DEF StreamOk, ReceiverOk, Reads, At
<1>3. /\ a \in Receivers
      /\ recv.addr # NoAddr => a.res = "Ok" /\ a.addr = recv.addr /\ a.expecting = recv.expecting /\ a.buf = recv.buf
      /\ recv.addr = NoAddr =>
           /\ a.res = d.res /\ a.addr = d.addr /\ a.expecting = recv.expecting
           /\ a.buf = [recv.buf EXCEPT !.cursor = @ + d.len]
  BY <1>1, UpdatedFacts
<1> HIDE DEF a
<1>4. CASE recv.addr # NoAddr
  <2>1. a.res = "Ok" /\ a.addr = recv.addr /\ a.expecting = recv.expecting /\ a.buf = recv.buf
    BY <1>3, <1>4
  <2>2. Reads(a) /\ At(a) = At(recv)
    BY <1>2, <1>3, <2>1 DEF Reads, At
  <2>3. Standing(a, k)
    BY <1>2, <2>1, <2>2 DEF Standing
  <2> QED
    BY <1>4, <2>1, <2>2, <2>3 DEF a
<1>5. CASE recv.addr = NoAddr
  <2>1. a.res = d.res /\ a.addr = d.addr /\ a.expecting = recv.expecting /\ a.buf = [recv.buf EXCEPT !.cursor = @ + d.len]
    BY <1>3, <1>5
  <2>2. recv.expecting = None /\ At(recv) = bounds[k + 1]
    BY <1>2, <1>5 DEF Standing
  <2>3. /\ recv.buf \in UdpRelayBuffers /\ c \in Seq(Byte) /\ Len(c) = remaining(recv.buf) /\ remaining(recv.buf) \in Nat
    BY <1>1, ReceiverParts, BufferParts
  <2>4. Part(c, stream, bounds[k + 1])
    BY <1>2, <2>2 DEF Reads
  <2>5. d.len \in Nat /\ d.len <= remaining(recv.buf)
    BY <2>3, DecodeType DEF DecodeOk
  <2>6. Reads(a) /\ At(a) = At(recv) + d.len
    <3>1. /\ remaining(a.buf) = remaining(recv.buf) - d.len
          /\ \A i \in 1..(remaining(recv.buf) - d.len) : chunk(a.buf)[i] = c[d.len + i]
      BY <2>1, <2>3, <2>5, AdvanceType
    <3> QED
      BY <1>2, <1>3, <2>5, <3>1, UseUp
  <2> HIDE DEF d
  <2>7. ASSUME d = Undecoded("Incomplete")
        PROVE  Standing(a, k) /\ a.res = "Incomplete"
    <3>1. d.res = "Incomplete" /\ d.addr = NoAddr /\ d.len = 0
      BY <2>7 DEF Undecoded
    <3>2. At(recv) \in Int
      BY <1>1, <2>3 DEF At
    <3>3. At(a) = At(recv)
      BY <2>6, <3>1, <3>2
    <3> QED
      BY <2>1, <2>2, <3>1, <3>3 DEF Standing
  <2>8. CASE k + 1 = l
    <3>1. bounds[k + 1] = Len(stream)
      BY <2>8 DEF FramesOk
    <3>2. Len(c) = 0
      BY <1>1, <2>3, <2>4, <3>1 DEF Part
    <3>3. d = Undecoded("Incomplete")
      <4>1. Len(c) < 2
        BY <3>2
      <4>2. from_encoded_bytes(c) = Undecoded("Incomplete")
        BY <2>3, <4>1, DecodeCases
      <4> QED
        BY <4>2 DEF d
    <3> QED
      BY <2>6, <2>7, <3>3 DEF a
  <2>9. CASE k + 1 # l
    <3> DEFINE g == datagrams[k + 1]
               w == write_buf(g.addr)
    <3>1. k + 1 \in 1..(l - 1) /\ k + 1 < l
      BY <1>1, <1>2, <2>9
    <3>2. /\ g.addr \in MixAddrs /\ w \in Seq(Byte) /\ Len(w) \in Nat /\ bounds[k + 1] \in Nat
          /\ from_encoded_bytes(w) = [res |-> "Ok", len |-> Len(w), addr |-> g.addr]
          /\ \A i \in 1..Len(w) : stream[bounds[k + 1] + i] = w[i]
      BY <3>1, FrameAt
    <3> HIDE DEF g, w
    <3>3. Agree(c, w)
      <4>1. \A i \in 1..Len(c) : c[i] = stream[bounds[k + 1] + i]
        BY <2>4 DEF Part
      <4>2. \A i \in 1..Len(c) : i <= Len(w) => i \in 1..Len(w)
        BY <2>3, <3>2
      <4> QED
        BY <3>2, <4>1, <4>2 DEF Agree
    <3>4. /\ Len(c) < Len(w) => d = Undecoded("Incomplete")
          /\ ~(Len(c) < Len(w)) => d = from_encoded_bytes(w)
      <4>1. from_encoded_bytes(w).res = "Ok" /\ from_encoded_bytes(w).len = Len(w)
        BY <3>2
      <4> QED
        BY <2>3, <3>2, <3>3, <4>1, DecodePrefix DEF d
    <3>5. CASE Len(c) < Len(w)
      BY <2>6, <2>7, <3>4, <3>5 DEF a
    <3>6. CASE ~(Len(c) < Len(w))
      <4>1. d.res = "Ok" /\ d.len = Len(w) /\ d.addr = g.addr
        BY <3>2, <3>4, <3>6
      <4>2. a.addr = g.addr /\ a.addr # NoAddr /\ a.expecting = None /\ a.res = "Ok"
        BY <2>1, <2>2, <3>2, <4>1, NoAddrType
      <4>3. At(a) = bounds[k + 1] + Len(write_buf(a.addr))
        BY <2>2, <2>6, <4>1, <4>2 DEF w
      <4>4. Standing(a, k)
        BY <3>1, <4>2, <4>3 DEF Standing, g
      <4> QED
        BY <2>6, <4>2, <4>4 DEF a
    <3> QED
      BY <3>5, <3>6
  <2> QED
    BY <2>8, <2>9
<1> QED
  BY <1>4, <1>5

\* Behind the address stands the length of the payload, and it is the right one; the
\* receiver panics if it has that and not all of the CR LF.
LEMMA LengthStep ==
  ASSUME TypeOK, FramesOk, SenderOk, ReceiverOk,
         NEW a, Reads(a), Standing(a, Len(delivered)), a.res = "Ok", a.addr # NoAddr
  PROVE  LET e == try_update_expecting(a)
             j == Len(delivered) + 1
         IN /\ Reads(e) /\ Standing(e, Len(delivered)) /\ e.addr = a.addr
            /\ e.res \in {"Ok", "Incomplete", "Panic"} /\ (e.res = "Ok" => e.expecting # None)
            /\ e.res = "Panic" =>
                 /\ j \in 1..(Len(bounds) - 1)
                 /\ count - bounds[j] - Len(write_buf(datagrams[j].addr)) \in {2, 3}
<1> DEFINE e == try_update_expecting(a)
           k == Len(delivered)
           n == remaining(a.buf)
           g == datagrams[k + 1]
           w == write_buf(g.addr)
           b == bounds[k + 1]
<1>1. a \in Receivers /\ n <= count /\ Part(chunk(a.buf), stream, At(a))
  BY DEF Reads
<1>2. k + 1 < Len(bounds) /\ a.addr = g.addr
  BY DEF Standing
<1>3. k \in Nat /\ Len(bounds) \in Nat /\ count \in Nat
  BY Types
<1>4. k + 1 \in 1..(Len(bounds) - 1)
  BY <1>2, <1>3
<1>5. /\ Len(w) \in Nat /\ b \in Nat /\ Len(g.data) \in Nat
      /\ from_be_bytes(stream[b + Len(w) + 1], stream[b + Len(w) + 2]) = Len(g.data)
  BY <1>4, FrameAt
<1>6. n \in Nat /\ chunk(a.buf) \in Seq(Byte) /\ Len(chunk(a.buf)) = n
  BY <1>1, ReceiverParts, BufferParts
<1>7. e \in Receivers /\ e.addr = a.addr
  BY <1>1, ExpectingFacts
<1>8. CASE a.expecting # None
  <2>1. e = a
    BY <1>1, <1>8, ExpectingFacts
  <2> QED
    BY <1>8, <2>1
<1>9. CASE a.expecting = None
  <2>1. At(a) = b + Len(w)
    BY <1>2, <1>9 DEF Standing
  <2>2. CASE n < 4
    <3>1. e.buf = a.buf /\ e.expecting = None /\ e.res = IF n < 2 THEN "Incomplete" ELSE "Panic"
      BY <1>1, <1>9, <2>2, ExpectingFacts
    <3> HIDE DEF e
    <3>2. Reads(e) /\ At(e) = At(a)
      BY <1>1, <1>7, <3>1 DEF Reads, At
    <3>3. Standing(e, k)
      BY <1>7, <1>9, <3>1, <3>2 DEF Standing
    <3>4. CASE n < 2
      <4>1. e.res = "Incomplete"
        BY <3>1, <3>4
      <4> QED
        BY <1>7, <3>2, <3>3, <4>1 DEF e
    <3>5. CASE ~(n < 2)
      <4>1. e.res = "Panic"
        BY <3>1, <3>5
      <4>2. n \in {2, 3}
        BY <1>6, <2>2, <3>5
      <4>3. count - b - Len(w) = n
        <5>1. count - n = b + Len(w)
          BY <2>1 DEF At
        <5> HIDE DEF n, b, w
        <5> QED
          BY <1>3, <1>5, <1>6, <5>1
      <4> QED
        BY <1>4, <1>7, <3>2, <3>3, <4>1, <4>2, <4>3 DEF e
    <3> QED
      BY <3>4, <3>5
  <2>3. CASE ~(n < 4)
    <3>1. /\ e.res = "Ok" /\ e.expecting = from_be_bytes(chunk(a.buf)[1], chunk(a.buf)[2])
          /\ e.expecting \in Nat
          /\ remaining(e.buf) = n - 4
          /\ \A i \in 1..(n - 4) : chunk(e.buf)[i] = chunk(a.buf)[4 + i]
      BY <1>1, <1>9, <2>3, ExpectingFacts
    <3>2. 4 \in Nat /\ 4 <= n
      BY <1>6, <2>3
    <3>3. Reads(e) /\ At(e) = At(a) + 4
      BY <1>7, <3>1, <3>2, UseUp
    <3> HIDE DEF e
    <3>4. chunk(a.buf)[1] = stream[b + Len(w) + 1] /\ chunk(a.buf)[2] = stream[b + Len(w) + 2]
      <4>1. 1 \in 1..Len(chunk(a.buf)) /\ 2 \in 1..Len(chunk(a.buf))
        BY <1>6, <3>2
      <4> QED
        BY <1>1, <2>1, <4>1 DEF Part
    <3>5. e.expecting = Len(g.data) /\ e.expecting # None
      <4>1. e.expecting = Len(g.data)
        BY <1>5, <3>1, <3>4
      <4> QED
        BY <3>1, <4>1 DEF None
    <3>6. Standing(e, k)
      <4>1. At(e) = b + Len(w) + 4
        BY <2>1, <3>3
      <4> QED
        BY <1>2, <1>7, <3>5, <4>1 DEF Standing
    <3> QED
      BY <1>7, <3>1, <3>3, <3>5, <3>6 DEF e
  <2> QED
    BY <2>2, <2>3
<1> QED
  BY <1>8, <1>9

\* A packet that is there is the next datagram, and behind it the next frame begins.
LEMMA PacketStep ==
  ASSUME TypeOK, FramesOk, SenderOk, ReceiverOk,
         Updated(recv).res = "Ok", Reads(Updated(recv)), Standing(Updated(recv), Len(delivered))
  PROVE  LET u == Updated(recv)
             c == copy_into_outer(u)
             j == Len(delivered) + 1
         IN /\ Reads(c) /\ Standing(c, j)
            /\ j \in 1..(Len(bounds) - 1) /\ u.expecting # 0
            /\ [addr |-> u.addr, data |-> SubSeq(chunk(u.buf), 1, u.expecting)] = datagrams[j]
<1> DEFINE u == Updated(recv)
           c == copy_into_outer(u)
           k == Len(delivered)
           n == u.expecting
           g == datagrams[k + 1]
           w == write_buf(g.addr)
           b == bounds[k + 1]
           p == SubSeq(chunk(u.buf), 1, n)
<1>1. recv \in Receivers /\ k \in Nat /\ Len(bounds) \in Nat /\ count \in Nat
  BY Types
<1>2. /\ u \in Receivers /\ u.addr \in MixAddrs
      /\ n \in Nat /\ n <= remaining(u.buf)
      /\ c \in Receivers /\ c.addr = NoAddr /\ c.expecting = None
      /\ remaining(c.buf) = remaining(u.buf) - n
      /\ \A i \in 1..(remaining(u.buf) - n) : chunk(c.buf)[i] = chunk(u.buf)[n + i]
  BY <1>1, PacketFacts
<1>3. u.addr # NoAddr /\ n # None
  BY <1>2, NoAddrType DEF None
<1>4. k + 1 < Len(bounds) /\ u.addr = g.addr /\ n = Len(g.data) /\ At(u) = b + Len(w) + 4
  BY <1>3 DEF Standing
<1>5. k + 1 \in 1..(Len(bounds) - 1)
  BY <1>1, <1>4
<1>6. /\ g \in Packets /\ g.data # <<>> /\ g.data \in Seq(Byte) /\ Len(g.data) \in Nat
      /\ Len(w) \in Nat /\ b \in Nat
      /\ bounds[k + 1 + 1] = b + Len(w) + 4 + Len(g.data)
      /\ \A i \in 1..Len(g.data) : stream[b + Len(w) + 4 + i] = g.data[i]
  BY <1>5, FrameAt
<1>7. n # 0
  BY <1>4, <1>6
<1>8. Reads(c) /\ At(c) = At(u) + n
  BY <1>2, UseUp
<1>9. chunk(u.buf) \in Seq(Byte) /\ Len(chunk(u.buf)) = remaining(u.buf) /\ remaining(u.buf) \in Nat
  BY <1>2, ReceiverParts, BufferParts
<1>10. p = g.data
  <2> DEFINE s == chunk(u.buf)
  <2>1. s \in Seq(Byte) /\ n <= Len(s) /\ n \in Nat
    BY <1>2, <1>9
  <2>2. \A i \in 1..Len(s) : s[i] = stream[b + Len(w) + 4 + i]
    BY <1>4 DEF Reads, Part
  <2> HIDE DEF s, n
  <2>3. SubSeq(s, 1, n) \in Seq(Byte) /\ Len(SubSeq(s, 1, n)) = n /\ \A i \in 1..n : SubSeq(s, 1, n)[i] = s[i]
    BY <2>1
  <2> DEFINE q == SubSeq(s, 1, n)  y == g.data
  <2> HIDE DEF q, y
  <2>4. /\ q \in Seq(Byte) /\ y \in Seq(Byte) /\ Len(q) = Len(y) /\ Len(q) = n
        /\ \A i \in 1..n : q[i] = s[i]
        /\ \A i \in 1..n : stream[b + Len(w) + 4 + i] = y[i]
    BY <1>4, <1>6, <2>3 DEF q, y
  <2>5. \A i \in 1..n : q[i] = y[i]
    <3>1. \A i \in 1..n : i \in 1..Len(s)
      BY <2>1
    <3> QED
      BY <2>2, <2>4, <3>1
  <2>6. q = y
    <3>1. \A i \in 1..Len(q) : q[i] = y[i]
      BY <2>4, <2>5
    <3>2. q \in Seq(Byte) /\ y \in Seq(Byte) /\ Len(q) = Len(y)
      BY <2>4
    <3> QED
      BY <3>1, <3>2, SameSeq
  <2> QED
    BY <2>6 DEF q, y, s
<1>11. Standing(c, k + 1)
  <2>1. At(c) = bounds[k + 1 + 1]
    BY <1>4, <1>6, <1>8
  <2> QED
    BY <1>2, <2>1 DEF Standing
<1>12. [addr |-> u.addr, data |-> p] = g
  <2>1. g = [addr |-> g.addr, data |-> g.data]
    BY <1>6, PacketParts
  <2> HIDE DEF p, g, u
  <2> QED
    BY <1>4, <1>10, <2>1
<1> QED
  BY <1>5, <1>7, <1>8, <1>11, <1>12

LEMMA ExtractIInv ==
  ASSUME IInv, try_extract_packet
  PROVE  IInv'
<1> DEFINE u == Updated(recv)
           a == try_update_addr_buf([recv EXCEPT !.res = "Ok"])
           e == try_update_expecting(a)
           c == copy_into_outer(u)
           d == [addr |-> u.addr, data |-> SubSeq(chunk(u.buf), 1, u.expecting)]
           k == Len(delivered)
           Cut(j) == /\ j \in 1..(Len(bounds) - 1)
                     /\ count - bounds[j] - Len(write_buf(datagrams[j].addr)) \in {2, 3}
<1>1. TInv /\ FramesOk /\ SenderOk /\ StreamOk /\ ReceiverOk /\ TypeOK
  BY DEF IInv, TInv
<1>2. TInv'
  BY <1>1, ExtractTInv
<1>3. /\ recv' = IF u.res = "Ok" THEN c ELSE u
      /\ delivered' = IF u.res # "Ok" \/ u.expecting = 0 THEN delivered ELSE Append(delivered, d)
      /\ state' = CASE u.res = "Panic" -> "panicked" [] u.res = "Invalid" -> "failed" [] OTHER -> "open"
      /\ UNCHANGED <<historyVars, todo, send, wire, ended, broken, prefix, count>>
  BY DEF try_extract_packet
<1>4. UNCHANGED <<datagrams, stream, bounds, todo, send, wire, prefix, count>>
  BY <1>3 DEF historyVars
<1>5. FramesOk' /\ SenderOk'
  BY <1>1, <1>4 DEF FramesOk, SenderOk
<1>6. recv \in Receivers /\ k \in Nat /\ Len(bounds) \in Nat /\ delivered \in Seq(Packets)
  BY <1>1, Types
<1>7. /\ u \in Receivers
      /\ a.res # "Ok" => u = a
      /\ a.res = "Ok" =>
           /\ u.buf = e.buf /\ u.expecting = e.expecting /\ u.addr = e.addr
           /\ e.res # "Ok" => u.res = e.res
           /\ e.res = "Ok" => u.res = IF e.expecting > remaining(e.buf) THEN "Incomplete" ELSE "Ok"
  BY <1>6, UpdatedFacts
<1>8. /\ Reads(a) /\ Standing(a, k)
      /\ a.res \in {"Ok", "Incomplete"} /\ (a.res = "Ok" => a.addr # NoAddr)
  BY <1>1, AddrStep
<1>9. ASSUME a.res = "Ok"
      PROVE  /\ Reads(e) /\ Standing(e, k) /\ e.res \in {"Ok", "Incomplete", "Panic"}
             /\ e.res = "Panic" => Cut(k + 1)
  BY <1>1, <1>8, <1>9, LengthStep
<1> HIDE DEF a, e, Cut
<1>10. /\ Reads(u) /\ Standing(u, k) /\ u.res \in {"Ok", "Incomplete", "Panic"}
       /\ u.res = "Panic" => Cut(k + 1)
  <2> HIDE DEF u, k
  <2>1. CASE a.res # "Ok"
    BY <1>7, <1>8, <2>1
  <2>2. CASE a.res = "Ok"
    <3>1. u.res \in {"Ok", "Incomplete", "Panic"} /\ (u.res = "Panic" => e.res = "Panic")
      <4>1. CASE e.res = "Ok"
        BY <1>7, <2>2, <4>1
      <4>2. CASE e.res # "Ok"
        BY <1>7, <1>9, <2>2, <4>2
      <4> QED
        BY <4>1, <4>2
    <3>2. Reads(u) /\ At(u) = At(e)
      BY <1>7, <1>9, <2>2 DEF Reads, At
    <3>3. Standing(u, k)
      BY <1>7, <1>9, <2>2, <3>2 DEF Standing
    <3> QED
      BY <1>9, <2>2, <3>1, <3>2, <3>3
  <2> QED
    BY <2>1, <2>2
<1>11. ASSUME u.res = "Ok"
       PROVE  /\ Reads(c) /\ Standing(c, k + 1)
              /\ k + 1 \in 1..(Len(bounds) - 1) /\ u.expecting # 0 /\ d = datagrams[k + 1]
  BY <1>1, <1>10, <1>11, PacketStep
<1> HIDE DEF u, c, d
<1>12. /\ u.res = "Ok" => recv' = c /\ delivered' = Append(delivered, d)
       /\ u.res # "Ok" => recv' = u /\ delivered' = delivered
  BY <1>3, <1>11
<1>13. /\ state' # "failed" /\ (state' = "panicked" => u.res = "Panic")
  BY <1>3, <1>10, Zenon
<1>14. Reads(recv') /\ Standing(recv', Len(delivered'))
       /\ Len(delivered') < Len(bounds) /\ \A i \in 1..Len(delivered') : delivered'[i] = datagrams[i]
  <2>0. k < Len(bounds) /\ \A i \in 1..k : delivered[i] = datagrams[i]
    BY <1>1 DEF ReceiverOk
  <2>1. CASE u.res = "Ok"
    <3>1. recv' = c /\ delivered' = Append(delivered, d) /\ d = datagrams[k + 1]
      BY <1>11, <1>12, <2>1
    <3>2. Len(delivered') = k + 1 /\ (\A i \in 1..k : delivered'[i] = delivered[i]) /\ delivered'[k + 1] = d
      BY <1>6, <3>1
    <3>3. Len(delivered') < Len(bounds)
      BY <1>6, <1>11, <2>1, <3>2
    <3>4. \A i \in 1..(k + 1) : delivered'[i] = datagrams[i]
      <4>1. \A i \in 1..(k + 1) : i = k + 1 \/ i \in 1..k
        BY <1>6
      <4> QED
        BY <2>0, <3>1, <3>2, <4>1
    <3> QED
      BY <1>11, <2>1, <3>1, <3>2, <3>3, <3>4
  <2>2. CASE u.res # "Ok"
    BY <1>10, <1>12, <2>0, <2>2
  <2> QED
    BY <2>1, <2>2
<1>15. StreamOk'
  <2>1. remaining(recv'.buf) <= count /\ Part(chunk(recv'.buf), stream, count - remaining(recv'.buf))
    BY <1>14 DEF Reads, At
  <2> QED
    BY <1>1, <1>4, <2>1 DEF StreamOk
<1>16. ReceiverOk'
  <2>1. Standing(recv, Len(delivered))'
    BY <1>4, <1>14 DEF Standing, At
  <2> QED
    BY <1>4, <1>13, <1>14, <2>1 DEF ReceiverOk
<1>17. OnlyCutLengthPanics'
  <2>1. CASE u.res = "Panic"
    <3>1. Cut(k + 1)
      BY <1>10, <2>1
    <3> QED
      BY <1>4, <3>1 DEF OnlyCutLengthPanics, Cut
  <2>2. CASE u.res # "Panic"
    BY <1>13, <2>2 DEF OnlyCutLengthPanics
  <2> QED
    BY <2>1, <2>2
<1> QED
  BY <1>2, <1>5, <1>15, <1>16, <1>17 DEF IInv
-----------------------------------------------------------------------------
(***************************************************************************)
(* IPv4 addresses and host names are read back.                            *)
(***************************************************************************)
\* w is x, s and the two bytes of y, one behind the other.
Laid(w, x, s, y) ==
  /\ Len(w) = Len(x) + Len(s) + 2
  /\ \A i \in 1..Len(x) : w[i] = x[i]
  /\ SubSeq(w, Len(x) + 1, Len(x) + Len(s)) = s
  /\ w[Len(x) + Len(s) + 1] = y[1] /\ w[Len(x) + Len(s) + 2] = y[2]

LEMMA Triple ==
  ASSUME NEW x \in Seq(Byte), NEW s \in Seq(Byte), NEW y \in Seq(Byte), Len(y) = 2
  PROVE  Laid(x \o s \o y, x, s, y)
<1> DEFINE xs == x \o s
           t == xs \o y
           h == Len(x) + Len(s)
           z == SubSeq(t, Len(x) + 1, h)
<1>1. /\ xs \in Seq(Byte) /\ Len(xs) = h /\ h \in Nat /\ Len(x) \in Nat /\ Len(s) \in Nat
      /\ \A i \in 1..Len(x) : xs[i] = x[i]
      /\ \A i \in 1..Len(s) : xs[Len(x) + i] = s[i]
  BY JoinFacts
<1> HIDE DEF xs
<1>2. /\ t \in Seq(Byte) /\ Len(t) = Len(xs) + Len(y)
      /\ \A i \in 1..Len(xs) : t[i] = xs[i]
      /\ \A i \in 1..Len(y) : t[Len(xs) + i] = y[i]
  BY <1>1, JoinFacts, Zenon
<1> HIDE DEF t
<1>3. Len(t) = h + 2 /\ t[h + 1] = y[1] /\ t[h + 2] = y[2]
  <2>1. 1 \in 1..Len(y) /\ 2 \in 1..Len(y)
    OBVIOUS
  <2> QED
    BY <1>1, <1>2, <2>1
<1>4. \A i \in 1..Len(x) : t[i] = x[i]
  <2>1. \A i \in 1..Len(x) : i \in 1..h
    BY <1>1
  <2> QED
    BY <1>1, <1>2, <2>1
<1>5. z = s
  <2>1. z \in Seq(Byte) /\ Len(z) = Len(s) /\ \A i \in 1..Len(s) : z[i] = t[Len(x) + i]
    BY <1>1, <1>2, <1>3
  <2> HIDE DEF z
  <2>2. ASSUME NEW i \in 1..Len(s) PROVE z[i] = s[i]
    <3>1. Len(x) + i \in 1..Len(xs)
      BY <1>1
    <3>2. z[i] = t[Len(x) + i]
      BY <2>1
    <3>3. t[Len(x) + i] = xs[Len(x) + i]
      BY <1>2, <3>1
    <3>4. xs[Len(x) + i] = s[i]
      BY <1>1
    <3> QED
      BY <3>2, <3>3, <3>4
  <2> QED
    BY <2>1, <2>2, SameSeq
<1>6. Laid(t, x, s, y)
  BY <1>3, <1>4, <1>5 DEF Laid
<1> QED
  BY <1>6 DEF t, xs

LEMMA PortBytes ==
  ASSUME NEW n \in U16
  PROVE  from_be_bytes(to_be_bytes(n)[1], to_be_bytes(n)[2]) = n
<1>0. n \in Nat /\ n <= 65535
  BY DEF U16
<1>1. n \in Nat /\ Fits(n) /\ n % 65536 = n
  BY <1>0, SMT DEF Fits
<1>2. from_be_bytes(FrameLength(n)[1], FrameLength(n)[2]) = n
  BY <1>1, BeRoundTrip
<1>3. FrameLength(n) = to_be_bytes(n)
  BY <1>1 DEF FrameLength
<1> QED
  BY <1>2, <1>3

LEMMA AddrIs ==
  ASSUME NEW a \in MixAddrs
  PROVE  a = [type |-> a.type, ip |-> a.ip, port |-> a.port]
  BY DEF MixAddrs

LEMMA ExpressibleSurvives ==
  ASSUME NEW d \in Packets, Expressible(d)
  PROVE  Survives(d)
<1> DEFINE a == d.addr
           w == write_buf(a)
           y == to_be_bytes(a.port)
<1>1. a \in MixAddrs
  BY PacketParts
<1>2. a.port \in U16 /\ Len(a.ip) \in Nat /\ (a.type # "V6" => a.ip \in Seq(Byte))
  BY <1>1, AddrParts
<1>3. y \in Seq(Byte) /\ Len(y) = 2 /\ from_be_bytes(y[1], y[2]) = a.port
  BY <1>2, BeBytes, PortBytes
<1>4. a = [type |-> a.type, ip |-> a.ip, port |-> a.port]
  BY <1>1, AddrIs
<1>5. /\ Fits(Len(d.data))
      /\ \/ a.type = "V4" /\ Len(a.ip) = V4Len
         \/ a.type = "Hostname" /\ Len(a.ip) <= 255 /\ from_utf8_ok(a.ip)
  BY DEF Expressible
<1>6. V4Len \in Nat
  BY Sizes
<1>7. w \in Seq(Byte)
  BY <1>1, WriteBufType
<1> HIDE DEF a, y
<1>8. CASE a.type = "V4" /\ Len(a.ip) = V4Len
  <2> DEFINE x == <<1>>
  <2>1. w = x \o a.ip \o y
    <3>1. "V4" # "Hostname"
      OBVIOUS
    <3> QED
      BY <1>8, <3>1, Zenon DEF write_buf, y
  <2>2. x \in Seq(Byte) /\ Len(x) = 1 /\ x[1] = 1
    <3>1. 1 \in Byte
      BY IsByte
    <3> QED
      BY <3>1
  <2>3. a.ip \in Seq(Byte)
    BY <1>2, <1>8
  <2> HIDE DEF x, w
  <2>4. /\ Len(w) = Len(x) + Len(a.ip) + 2
        /\ \A i \in 1..Len(x) : w[i] = x[i]
        /\ SubSeq(w, Len(x) + 1, Len(x) + Len(a.ip)) = a.ip
        /\ w[Len(x) + Len(a.ip) + 1] = y[1] /\ w[Len(x) + Len(a.ip) + 2] = y[2]
    <3>1. Laid(x \o a.ip \o y, x, a.ip, y)
      BY <1>3, <2>2, <2>3, Triple
    <3>2. Laid(w, x, a.ip, y)
      BY <2>1, <3>1, Zenon
    <3> QED
      BY <3>2 DEF Laid
  <2> DEFINE hi == 1 + V4Len
  <2>5. /\ Len(w) = hi + 2 /\ hi \in Nat /\ w[1] = 1 /\ ~(Len(w) < 2) /\ ~(Len(w) < 1 + V4Len + 2)
        /\ SubSeq(w, 2, hi) = a.ip /\ w[hi + 1] = y[1] /\ w[hi + 2] = y[2]
    BY <1>6, <1>8, <2>2, <2>4
  <2>6. from_encoded_bytes(w) = Decoded(w, "V4", SubSeq(w, 2, hi), hi)
    BY <1>7, <2>5, DecodeCases
  <2> HIDE DEF hi
  <2>7. Decoded(w, "V4", a.ip, hi) = [res |-> "Ok", len |-> Len(w), addr |-> a]
    BY <1>3, <1>4, <1>8, <2>5 DEF Decoded
  <2> QED
    BY <1>5, <2>5, <2>6, <2>7 DEF Survives, w, a
<1>9. CASE a.type = "Hostname" /\ Len(a.ip) <= 255 /\ from_utf8_ok(a.ip)
  <2> DEFINE n == Len(a.ip)
             x == NameLength(n)
  <2>1. w = x \o a.ip \o y
    BY <1>9 DEF write_buf, y, NameLength
  <2>2. x \in Seq(Byte) /\ Len(x) = 2 /\ x[1] = 3 /\ x[2] = n
    <3>0. n \in Nat /\ n <= 255
      BY <1>2, <1>9
    <3>1. n % 256 = n
      <4> HIDE DEF n
      <4> QED
        BY <3>0, SMT
    <3>2. x \in Seq(Byte)
      BY <1>2, LengthBytes
    <3> HIDE DEF n
    <3> QED
      BY <3>1, <3>2 DEF NameLength
  <2>3. a.ip \in Seq(Byte)
    BY <1>2, <1>9
  <2> HIDE DEF x, w
  <2>4. /\ Len(w) = Len(x) + n + 2
        /\ \A i \in 1..Len(x) : w[i] = x[i]
        /\ SubSeq(w, Len(x) + 1, Len(x) + n) = a.ip
        /\ w[Len(x) + n + 1] = y[1] /\ w[Len(x) + n + 2] = y[2]
    <3>1. Laid(x \o a.ip \o y, x, a.ip, y)
      BY <1>3, <2>2, <2>3, Triple
    <3>2. Laid(w, x, a.ip, y)
      BY <2>1, <3>1, Zenon
    <3> QED
      BY <3>2 DEF Laid
  <2> HIDE DEF n
  <2> DEFINE hi == 2 + n
  <2>5. n \in Nat
    BY <1>2 DEF n
  <2>6. /\ Len(w) = hi + 2 /\ hi \in Nat /\ w[1] = 3 /\ w[2] = n /\ ~(Len(w) < 2) /\ ~(Len(w) < 2 + w[2] + 2)
        /\ SubSeq(w, 3, hi) = a.ip /\ w[hi + 1] = y[1] /\ w[hi + 2] = y[2]
    BY <2>2, <2>4, <2>5
  <2>7. from_encoded_bytes(w) = Decoded(w, "Hostname", SubSeq(w, 3, hi), hi)
    <3>1. from_encoded_bytes(w) =
            IF Len(w) < 2 + w[2] + 2 THEN Undecoded("Incomplete")
            ELSE IF ~from_utf8_ok(SubSeq(w, 3, 2 + w[2])) THEN Undecoded("Invalid")
            ELSE Decoded(w, "Hostname", SubSeq(w, 3, 2 + w[2]), 2 + w[2])
      BY <1>7, <2>6, DecodeCases
    <3>2. 2 + w[2] = hi /\ from_utf8_ok(SubSeq(w, 3, hi))
      BY <1>9, <2>6
    <3> QED
      BY <2>6, <3>1, <3>2
  <2> HIDE DEF hi
  <2>8. Decoded(w, "Hostname", a.ip, hi) = [res |-> "Ok", len |-> Len(w), addr |-> a]
    BY <1>3, <1>4, <1>9, <2>6 DEF Decoded
  <2> QED
    BY <1>5, <2>6, <2>7, <2>8 DEF Survives, w, a
<1> QED
  BY <1>5, <1>8, <1>9

LEMMA SoundIs ==
  ASSUME AllExpressible
  PROVE  Sound
<1>1. ASSUME NEW t \in Traffic, NEW i \in 1..Len(t) PROVE Survives(t[i])
  <2>1. t \in Seq(Packets)
    BY TrafficAssumption
  <2>2. t[i] \in Packets /\ Expressible(t[i])
    BY <2>1 DEF AllExpressible
  <2> QED
    BY <2>2, ExpressibleSurvives
<1> QED
  BY <1>1 DEF Sound
-----------------------------------------------------------------------------
(***************************************************************************)
(* The inductive invariant, for datagrams that their frames can express.   *)
(***************************************************************************)
LEMMA IInvInit ==
  ASSUME Sound, Init
  PROVE  IInv
<1>1. TInv /\ TypeOK
  BY TInvInit DEF TInv
<1>2. /\ traffic \in Traffic /\ datagrams = NextOf(traffic) /\ stream = <<>> /\ bounds = <<0>>
      /\ todo = traffic /\ send = [buf |-> New, data_len |-> 0]
      /\ wire = <<>> /\ prefix = <<>> /\ count = 0 /\ delivered = <<>> /\ state = "accepting"
      /\ recv = [buf |-> New, expecting |-> None, addr |-> NoAddr, res |-> "Ok"]
  BY DEF Init
<1>3. traffic \in Seq(Packets) /\ \A i \in 1..Len(traffic) : Survives(traffic[i])
  BY <1>2, TrafficAssumption DEF Sound
<1>4. Len(bounds) = 1 /\ bounds[1] = 0 /\ bounds # <<>> /\ Len(stream) = 0
  BY <1>2
<1>5. /\ Len(datagrams) \in 0..1 /\ datagrams = NextOf(todo)
      /\ NextOf(todo) # <<>> => /\ todo # <<>> /\ Head(todo).data # <<>> /\ datagrams = <<Head(todo)>>
                                /\ Survives(Head(todo))
  <2>1. /\ Len(NextOf(traffic)) \in 0..1
        /\ NextOf(traffic) # <<>> => traffic # <<>> /\ Head(traffic).data # <<>> /\ NextOf(traffic) = <<Head(traffic)>>
    BY <1>3, TodoFacts
  <2>2. traffic # <<>> => Survives(Head(traffic))
    <3>1. traffic # <<>> => 1 \in 1..Len(traffic) /\ Head(traffic) = traffic[1]
      BY <1>3
    <3> QED
      BY <1>3, <3>1
  <2> QED
    BY <1>2, <2>1, <2>2
<1>6. FramesOk
  <2>1. 1..(Len(bounds) - 1) = {}
    BY <1>4
  <2>2. Len(bounds) <= Len(datagrams) + 1
    BY <1>4, <1>5
  <2> QED
    BY <1>4, <2>1, <2>2 DEF FramesOk
<1>7. New \in UdpRelayBuffers /\ New.inner = <<>> /\ remaining(New) = 0 /\ send.buf = New /\ recv.buf = New
  <2>1. New \in UdpRelayBuffers /\ New.inner = <<>>
    BY NewType
  <2> QED
    BY <1>2, <2>1, NothingLeft
<1>8. SenderOk
  <2>1. CASE NextOf(todo) = <<>>
    <3>1. Len(datagrams) = 0
      BY <1>5, <2>1
    <3> QED
      BY <1>2, <1>3, <1>4, <1>7, <2>1, <3>1 DEF SenderOk
  <2>2. CASE NextOf(todo) # <<>>
    <3> DEFINE h == Head(todo)
    <3>1. datagrams = <<h>> /\ h.data # <<>> /\ Survives(h)
      BY <1>5, <2>2
    <3> HIDE DEF h
    <3>2. Len(datagrams) = 1 /\ datagrams[1] = h /\ datagrams # <<>>
      BY <3>1
    <3>3. \A i \in 1..Len(datagrams) : Survives(datagrams[i]) /\ datagrams[i].data # <<>>
      BY <3>1, <3>2
    <3> QED
      BY <1>2, <1>3, <1>4, <1>7, <2>2, <3>2, <3>3 DEF SenderOk, h
  <2> QED
    BY <2>1, <2>2
<1>9. /\ Len(wire) = 0 /\ Len(prefix) = 0 /\ count = 0 /\ Len(delivered) = 0
      /\ chunk(New) \in Seq(Byte) /\ Len(chunk(New)) = 0
      /\ stream \in Seq(Byte) /\ wire \in Seq(Byte) /\ prefix \in Seq(Byte)
  BY <1>2, <1>7, BufferParts
<1>10. StreamOk
  <2>1. 0 \in Nat /\ 0 <= Len(stream)
    BY <1>4
  <2>2. Part(chunk(New), stream, 0) /\ Part(prefix, stream, 0) /\ Part(wire, stream, 0)
    BY <1>9, <2>1, EmptyPart
  <2>3. count - remaining(New) = 0 /\ count + Len(prefix) = 0 /\ count + Len(prefix) + Len(wire) = 0
    BY <1>7, <1>9
  <2> QED
    BY <1>4, <1>7, <1>9, <2>2, <2>3 DEF StreamOk
<1>11. ReceiverOk
  <2>1. Standing(recv, 0)
    BY <1>2, <1>4, <1>7, <1>9 DEF Standing, At
  <2> QED
    BY <1>2, <1>4, <1>9, <2>1 DEF ReceiverOk
<1>12. OnlyCutLengthPanics
  BY <1>2 DEF OnlyCutLengthPanics
<1> QED
  BY <1>1, <1>6, <1>8, <1>10, <1>11, <1>12 DEF IInv

LEMMA StutterIInv ==
  ASSUME IInv, UNCHANGED vars
  PROVE  IInv'
<1>1. TInv /\ FramesOk /\ SenderOk /\ StreamOk /\ ReceiverOk /\ OnlyCutLengthPanics
  BY DEF IInv
<1>2. TInv'
  BY <1>1, StutterTInv
<1>3. UNCHANGED <<datagrams, stream, bounds, todo, send, wire, prefix, recv, count, delivered, state>>
  BY DEF vars, historyVars
<1>4. FramesOk' /\ SenderOk'
  BY <1>1, <1>3 DEF FramesOk, SenderOk
<1>5. StreamOk'
  BY <1>1, <1>3 DEF StreamOk
<1>6. ReceiverOk' /\ OnlyCutLengthPanics'
  BY <1>1, <1>3 DEF ReceiverOk, Standing, At, OnlyCutLengthPanics
<1> QED
  BY <1>2, <1>4, <1>5, <1>6 DEF IInv

LEMMA IInvNext ==
  ASSUME IInv, [Next]_vars
  PROVE  IInv'
<1>1. CASE SkipEmpty
  BY <1>1, SkipIInv
<1>2. CASE Shutdown \/ Break
  BY <1>2, EndIInv
<1>3. ASSUME NEW x \in 1..WireCap, PollWrite(x)
      PROVE  IInv'
  BY <1>3, WriteIInv
<1>4. CASE try_extract_packet
  BY <1>4, ExtractIInv
<1>5. CASE PollReadBuffered
  BY <1>5, BufferedIInv
<1>6. ASSUME NEW n \in 0..WireCap, Start(n) \/ PollRead(n)
      PROVE  IInv'
  BY <1>6, StartIInv, ReadIInv
<1>7. CASE UNCHANGED vars
  BY <1>7, StutterIInv
<1> QED
  BY <1>1, <1>2, <1>3, <1>4, <1>5, <1>6, <1>7 DEF Next, Send, Receive
-----------------------------------------------------------------------------
(***************************************************************************)
(* Frames implement ProxyPipe: a step of the sender is a Write, and a      *)
(* packet that is extracted a Deliver.                                     *)
(***************************************************************************)
LEMMA FirstFacts ==
  ASSUME NEW g \in Seq(Packets), NEW n \in Nat, n <= Len(g)
  PROVE  /\ SubSeq(g, 1, n) \in Seq(Packets) /\ Len(SubSeq(g, 1, n)) = n
         /\ \A i \in 1..n : SubSeq(g, 1, n)[i] = g[i]
  OBVIOUS

LEMMA PrefixIs ==
  ASSUME NEW s \in Seq(Packets), NEW t \in Seq(Packets), Extends(s, t)
  PROVE  Pipe!Prefix(s, t)
<1> DEFINE u == SubSeq(t, 1, Len(s))
<1>1. Len(s) \in Nat /\ Len(s) <= Len(t) /\ \A i \in 1..Len(s) : t[i] = s[i]
  BY DEF Extends
<1>2. u \in Seq(Packets) /\ Len(u) = Len(s) /\ \A i \in 1..Len(s) : u[i] = t[i]
  BY <1>1, FirstFacts
<1> HIDE DEF u
<1>3. \A i \in 1..Len(s) : s[i] = u[i]
  BY <1>1, <1>2
<1>4. s = u
  BY <1>2, <1>3
<1> QED
  BY <1>1, <1>4 DEF Pipe!Prefix, u

LEMMA WritePipe ==
  ASSUME IInv, IInv', Extends(datagrams, datagrams'), Extends(bounds, bounds'), delivered' = delivered
  PROVE  Pipe!Next
<1> DEFINE n == Len(bounds) - 1  m == Len(bounds') - 1
<1>1. /\ datagrams \in Seq(Packets) /\ Len(datagrams) \in Nat /\ Len(bounds) \in Nat
      /\ datagrams' \in Seq(Packets) /\ Len(datagrams') \in Nat /\ Len(bounds') \in Nat
  <2>1. TypeOK /\ TypeOK'
    BY DEF IInv, TInv
  <2>2. datagrams \in Seq(Packets) /\ bounds \in Seq(Nat) /\ datagrams' \in Seq(Packets) /\ bounds' \in Seq(Nat)
    BY <2>1 DEF TypeOK
  <2> QED
    BY <2>2
<1>2. FramesOk /\ FramesOk' /\ ReceiverOk
  BY DEF IInv
<1>3. /\ n \in Nat /\ n <= Len(datagrams) /\ m \in Nat /\ m <= Len(datagrams') /\ n <= m
  <2>1. Len(bounds) <= Len(datagrams) + 1 /\ Len(bounds') <= Len(datagrams') + 1
    BY <1>2 DEF FramesOk
  <2>2. Len(bounds) <= Len(bounds') /\ Len(delivered) < Len(bounds) /\ Len(delivered) \in Nat
    <3>1. delivered \in Seq(Packets)
      BY DEF IInv, TInv, TypeOK
    <3> QED
      BY <1>2, <3>1 DEF Extends, ReceiverOk
  <2> QED
    BY <1>1, <2>1, <2>2
<1>4. Framed = SubSeq(datagrams, 1, n) /\ Framed' = SubSeq(datagrams', 1, m)
  BY DEF Framed
<1> HIDE DEF n, m
<1>5. /\ Framed \in Seq(Packets) /\ Len(Framed) = n /\ \A i \in 1..n : Framed[i] = datagrams[i]
  BY <1>1, <1>3, <1>4, FirstFacts
<1>6. /\ Framed' \in Seq(Packets) /\ Len(Framed') = m /\ \A i \in 1..m : Framed'[i] = datagrams'[i]
  BY <1>1, <1>3, <1>4, FirstFacts
<1>7. Extends(Framed, Framed')
  <2>1. \A i \in 1..n : i \in 1..m /\ i \in 1..Len(datagrams)
    BY <1>1, <1>3
  <2>2. \A i \in 1..Len(Framed) : Framed'[i] = Framed[i]
    BY <1>5, <1>6, <2>1 DEF Extends
  <2> QED
    BY <1>3, <1>5, <1>6, <2>2 DEF Extends
<1>8. Pipe!Prefix(Framed, Framed')
  BY <1>5, <1>6, <1>7, PrefixIs
<1>9. Pipe!Write("udp")
  BY <1>8 DEF Pipe!Write
<1> QED
  BY <1>9 DEF Pipe!Next

LEMMA ExtractPipe ==
  ASSUME IInv, IInv', try_extract_packet
  PROVE  Pipe!Next
<1> DEFINE n == Len(bounds) - 1
<1>1. /\ datagrams \in Seq(Packets) /\ Len(datagrams) \in Nat /\ Len(bounds) \in Nat
      /\ delivered \in Seq(Packets) /\ Len(delivered) \in Nat
      /\ delivered' \in Seq(Packets) /\ Len(delivered') \in Nat
  <2>1. TypeOK /\ TypeOK'
    BY DEF IInv, TInv
  <2>2. delivered' \in Seq(Packets)
    BY <2>1 DEF TypeOK
  <2> QED
    BY <2>1, <2>2, Types
<1>2. datagrams' = datagrams /\ bounds' = bounds
  BY DEF try_extract_packet, historyVars
<1>3. Framed' = Framed
  BY <1>2 DEF Framed
<1>4. /\ Len(bounds) <= Len(datagrams) + 1
      /\ Len(delivered) < Len(bounds) /\ \A i \in 1..Len(delivered) : delivered[i] = datagrams[i]
      /\ Len(delivered') < Len(bounds) /\ \A i \in 1..Len(delivered') : delivered'[i] = datagrams[i]
  BY <1>2 DEF IInv, ReceiverOk, FramesOk
<1>5. Len(delivered) <= Len(delivered')
  <2>1. delivered' = delivered \/ \E d : delivered' = Append(delivered, d)
    BY DEF try_extract_packet
  <2> QED
    BY <1>1, <2>1
<1>6. n \in Nat /\ n <= Len(datagrams) /\ Len(delivered') <= n
  BY <1>1, <1>4
<1> HIDE DEF n
<1>7. Framed \in Seq(Packets) /\ Len(Framed) = n /\ \A i \in 1..n : Framed[i] = datagrams[i]
  BY <1>1, <1>6, FirstFacts DEF Framed, n
<1>8. Extends(delivered, delivered') /\ Extends(delivered', Framed)
  <2>1. \A i \in 1..Len(delivered) : i \in 1..Len(delivered')
    BY <1>1, <1>5
  <2>2. \A i \in 1..Len(delivered') : i \in 1..n
    BY <1>1, <1>6
  <2> QED
    BY <1>4, <1>5, <1>6, <1>7, <2>1, <2>2 DEF Extends
<1>9. Pipe!Prefix(delivered, delivered') /\ Pipe!Prefix(delivered', Framed)
  BY <1>1, <1>7, <1>8, PrefixIs
<1>10. Pipe!Deliver("udp")
  BY <1>3, <1>9 DEF Pipe!Deliver
<1> QED
  BY <1>10 DEF Pipe!Next

LEMMA StepPipe ==
  ASSUME IInv, IInv', [Next]_vars
  PROVE  Pipe!Next
<1>1. FramesOk /\ SenderOk /\ TypeOK
  BY DEF IInv, TInv
<1>2. ASSUME NEW x \in 1..WireCap, PollWrite(x) PROVE Pipe!Next
  <2>1. delivered' = delivered
    BY <1>2 DEF PollWrite
  <2> QED
    BY <1>1, <1>2, <2>1, WriteFrames, WritePipe
<1>3. CASE SkipEmpty
  <2>1. delivered' = delivered
    BY <1>3 DEF SkipEmpty
  <2> QED
    BY <1>1, <1>3, <2>1, SkipFrames, WritePipe
<1>4. CASE try_extract_packet
  BY <1>4, ExtractPipe
<1>5. ASSUME UNCHANGED <<datagrams, bounds, delivered>> PROVE Pipe!Next
  <2>1. datagrams \in Seq(Packets) /\ bounds \in Seq(Nat)
    BY <1>1, Types
  <2>2. Extends(datagrams, datagrams') /\ Extends(bounds, bounds')
    BY <1>5, <2>1, ExtendsJoin
  <2> QED
    BY <1>5, <2>2, WritePipe
<1>6. ASSUME NEW n \in 0..WireCap, Start(n) \/ PollRead(n) PROVE Pipe!Next
  <2>1. UNCHANGED <<datagrams, bounds, delivered>>
    BY <1>6 DEF Start, PollRead, historyVars
  <2> QED
    BY <1>5, <2>1
<1>7. CASE Shutdown \/ Break \/ PollReadBuffered \/ UNCHANGED vars
  <2>1. UNCHANGED <<datagrams, bounds, delivered>>
    BY <1>7 DEF Shutdown, Break, PollReadBuffered, vars, historyVars
  <2> QED
    BY <1>5, <2>1
<1> QED
  BY <1>2, <1>3, <1>4, <1>6, <1>7 DEF Next, Send, Receive

LEMMA InitPipe ==
  ASSUME Init
  PROVE  Pipe!Init
<1>1. bounds = <<0>> /\ delivered = <<>>
  BY DEF Init
<1>2. Len(bounds) - 1 = 0
  BY <1>1
<1>3. datagrams \in Seq(Packets)
  BY TInvInit DEF TInv, TypeOK
<1>4. SubSeq(datagrams, 1, 0) = <<>>
  BY <1>3
<1>5. Framed = <<>>
  BY <1>2, <1>4 DEF Framed
<1> QED
  BY <1>1, <1>5 DEF Pipe!Init

LEMMA IInvHolds ==
  ASSUME AllExpressible
  PROVE  Spec => []IInv
<1>1. Init => IInv
  BY SoundIs, IInvInit
<1>2. IInv /\ [Next]_vars => IInv'
  BY IInvNext
<1> QED
  BY <1>1, <1>2, PTL DEF Spec

\* Of datagrams that their frames can express no address and no payload, and no way
\* of cutting the stream, makes the receiver fail but one: a read that ends right
\* behind the length of a frame or inside the CR LF after it
\* (UdpRelayBuffer::try_update_expecting, MixAddrType::from_encoded_bytes).
THEOREM OnlyCutLengthPanicsHolds ==
  ASSUME AllExpressible
  PROVE  Spec => []OnlyCutLengthPanics
<1>1. IInv => OnlyCutLengthPanics
  BY DEF IInv
<1> QED
  BY <1>1, IInvHolds, PTL

\* Such datagrams arrive whole, in order, once each and with their addresses, however
\* writes, reads and the acceptor cut the frames, for buffers of any size, any growth
\* of a Vec and any number of datagrams (TrojanUdpStream::poll_proxy_stream_write and
\* poll_proxy_stream_read, UdpRelayBuffer).
THEOREM UdpFramesImplementPipe ==
  ASSUME AllExpressible
  PROVE  Spec => ImplementsPipe
<1>1. Init => Pipe!Init
  BY InitPipe
<1>2. IInv /\ IInv' /\ [Next]_vars =>
        [Pipe!Next]_<<[d \in {"udp"} |-> Framed], [d \in {"udp"} |-> delivered]>>
  BY StepPipe
<1> QED
  BY <1>1, <1>2, IInvHolds, PTL DEF Spec, ImplementsPipe, Pipe!Spec
=============================================================================

------------------------------ MODULE LiteTls ------------------------------
(***************************************************************************)
(* The Lite-TLS handshake: how the proxy client and the proxy server leave *)
(* their TLS tunnel together once the user's own TLS session has reached   *)
(* application data.                                                       *)
(*                                                                         *)
(*   user --> client ==> server --> target        direction "Inbound"      *)
(*   user <-- client <== server <-- target        direction "Outbound"     *)
(*                                                                         *)
(* Each direction crosses three hops.  Hop 1 brings first-hand bytes from  *)
(* the user or the target to an endpoint, hop 2 is the tunnel between the  *)
(* endpoints, hop 3 leads to the receiver and is never consumed: it is the *)
(* history of what was delivered.                                          *)
(*                                                                         *)
(* Data.  A TLS record, and the 0xff command, is RecLen units: its type    *)
(* byte, the rest of its HeaderLen units of header, then the body.  A unit *)
(* knows its place in the sender's stream (idx, 0 for the command) and     *)
(* whether the tunnel carries it inside TLS (enc).  All records have the   *)
(* same length, so that extract_len is the constant RecLen.                *)
(*                                                                         *)
(* Atomicity.  A step of an endpoint runs from one read that returned to   *)
(* the next read it waits for, with the writes in between: the handshake   *)
(* is one task that owns both sockets.                                     *)
(***************************************************************************)
EXTENDS Integers, Sequences

CONSTANTS
  HeaderLen,      \* units of a record header (5 bytes in the code)
  RecLen,         \* units of a whole record
  UserScripts,    \* the sequences of record types a user may send
  TargetScripts,  \* the sequences of record types a target may send
  PeersWait,      \* user and target take turns at the start, as TLS does
  Splits,         \* the kinds of read that may return a part of a record
  ShortWrites,    \* a write to a plain socket may accept a part only
  OverRead,       \* the TLS session may pull in bytes behind the last record
  MayClose        \* peers may close, endpoints may time out or fail

Types == {"0x16", "0x17", "other"}
Vals == Types \cup {"0xff", "data", "cipher"}

ASSUME LengthAssumption ==
  HeaderLen \in Nat /\ RecLen \in Nat /\ 1 <= HeaderLen /\ HeaderLen <= RecLen
ASSUME ScriptAssumption ==
  UserScripts \subseteq Seq(Types) /\ TargetScripts \subseteq Seq(Types)
ASSUME SplitAssumption == Splits \subseteq {"hello", "first", "second"}
ASSUME SwitchAssumption ==
  {PeersWait, ShortWrites, OverRead, MayClose} \subseteq BOOLEAN

VARIABLES
  pc,       \* where each endpoint's task waits
  buf,      \* buf[e][d]: TlsRelayBuffer, d = "Inbound" is inbound_buf
  seen,     \* recieved_0x17: the directions a 0x17 was seen in
  version,  \* LiteTlsStream::version
  link,     \* link[d][hop]: units in flight, hop 3 holds all delivered
  eof,      \* eof[d][hop]: the writer of that hop has closed it
  script,   \* script[d]: the record types the sender of d will send
  sent      \* sent[d]: how many of them it has sent

vars == <<pc, buf, seen, version, link, eof, script, sent>>
-----------------------------------------------------------------------------
Endpoints == {"client", "server"}
Directions == {"Inbound", "Outbound"}
Hops == 1..3

Peer(e) == IF e = "client" THEN "server" ELSE "client"
FirstHand(e) == IF e = "client" THEN "Inbound" ELSE "Outbound"
SecondHand(e) == IF e = "client" THEN "Outbound" ELSE "Inbound"
Opposite(d) == IF d = "Inbound" THEN "Outbound" ELSE "Inbound"

\* First-hand bytes come from hop 1 and leave on the tunnel; second-hand
\* bytes come from the tunnel and leave on hop 3.
SrcHop(e, d) == IF d = FirstHand(e) THEN 1 ELSE 2
DstHop(e, d) == SrcHop(e, d) + 1

\* The places where a task awaits a read: client_hello, the loop of handshake,
\* tls12_relay_until_0xff, the passive branch of flush_tls, and the relays
\* that follow a handshake.
InTls == {"hello", "loop", "until0xff", "tcp"}
OutOfTls == {"pending", "lite"}
PCs == InTls \cup OutOfTls \cup {"closed"}

Unit == [val : Vals, idx : Nat, enc : BOOLEAN]
Buffer == [inner : Seq(Unit), cursor : Nat]
EmptyBuffer == [inner |-> <<>>, cursor |-> 0]

Record(type, k) ==
  [i \in 1..RecLen |-> [val |-> IF i = 1 THEN type ELSE "data",
                        idx |-> (k - 1) * RecLen + i, enc |-> FALSE]]
LEAVE_TLS_COMMAND ==
  [i \in 1..RecLen |-> [val |-> IF i = 1 THEN "0xff" ELSE "data",
                        idx |-> 0, enc |-> FALSE]]
-----------------------------------------------------------------------------
(***************************************************************************)
(* Sockets and the TLS session.                                            *)
(***************************************************************************)
Encrypted(s) == [i \in 1..Len(s) |-> [val |-> s[i].val, idx |-> s[i].idx, enc |-> TRUE]]
Decrypted(s) == [i \in 1..Len(s) |-> [val |-> s[i].val, idx |-> s[i].idx, enc |-> FALSE]]

\* What a plain socket shows of bytes that were written through TLS.
AsCipher(s) ==
  [i \in 1..Len(s) |-> IF s[i].enc THEN [val |-> "cipher", idx |-> 0, enc |-> FALSE]
                                   ELSE s[i]]

Source(e, d) == link[d][SrcHop(e, d)]

\* A read for the client hello, of first-hand or of second-hand bytes.
ReadKind(e, d) ==
  IF pc[e] = "hello" THEN "hello" ELSE IF SrcHop(e, d) = 1 THEN "first" ELSE "second"

\* The sizes a read of e on direction d may return.  Inside the tunnel the
\* session yields what was written through TLS.
ReadSizes(e, d) ==
  {n \in 1..Len(Source(e, d)) :
     /\ ReadKind(e, d) \in Splits \/ n % RecLen = 0
     /\ (SrcHop(e, d) = 2 /\ pc[e] \in InTls) => \A i \in 1..n : Source(e, d)[i].enc}

Taken(e, d, n) ==
  LET s == SubSeq(Source(e, d), 1, n)
  IN IF SrcHop(e, d) = 2 /\ pc[e] \in InTls THEN Decrypted(s) ELSE AsCipher(s)

\* A session that reads past its last record keeps the start of a plain record
\* to itself; leave() drops the session with it.
Swallowed(e, d, n) ==
  {k \in 0..(RecLen - 1) :
     /\ n + k <= Len(Source(e, d))
     /\ k > 0 => OverRead /\ SrcHop(e, d) = 2 /\ pc[e] \in InTls
     /\ \A i \in (n + 1)..(n + k) : ~Source(e, d)[i].enc}

\* The links after m units have left the source.
Drained(e, d, m) ==
  LET q == Source(e, d)
  IN [link EXCEPT ![d] = [link[d] EXCEPT ![SrcHop(e, d)] = SubSeq(q, m + 1, Len(q))]]

\* read_buf appends to the buffer of its direction.
Filled(e, d, n) ==
  [inner |-> buf[e][d].inner \o Taken(e, d, n), cursor |-> buf[e][d].cursor]

Put(l, d, hop, s) == [l EXCEPT ![d] = [l[d] EXCEPT ![hop] = l[d][hop] \o s]]

\* The parts of s that one call of write on a plain socket may accept.
Accepted(s) ==
  IF ShortWrites /\ s # <<>> THEN {SubSeq(s, 1, k) : k \in 1..Len(s)} ELSE {s}

\* The outcomes of writing s to hop, on links l, while in TLS.
WriteTls(l, d, hop, s) ==
  IF hop = 2 THEN {Put(l, d, hop, Encrypted(s))} ELSE {Put(l, d, hop, t) : t \in Accepted(s)}

\* The outcomes of writing s to a plain socket.
WriteRaw(l, d, hop, s) == {Put(l, d, hop, t) : t \in Accepted(s)}
-----------------------------------------------------------------------------
(***************************************************************************)
(* TlsRelayBuffer.                                                         *)
(***************************************************************************)
checked_packets(b) == IF b.cursor < Len(b.inner) THEN SubSeq(b.inner, 1, b.cursor) ELSE b.inner

\* Mutant: the new cursor without the min of cursor and length.
PopUnderflows(b) ==
  [inner |-> SubSeq(b.inner, b.cursor + 1, Len(b.inner)), cursor |-> b.cursor - Len(b.inner)]

pop_checked_packets(b) ==
  IF b.cursor < Len(b.inner)
    THEN [inner |-> SubSeq(b.inner, b.cursor + 1, Len(b.inner)), cursor |-> 0]
    ELSE [inner |-> <<>>, cursor |-> b.cursor - Len(b.inner)]

check_client_hello(b) ==
  IF Len(b.inner) < HeaderLen THEN "Incomplete"
  ELSE IF b.inner[1].val = "0x16" /\ Len(b.inner) = RecLen THEN "Ok"
  ELSE "Invalid"

\* Where the parser may stand: at the cursor, or a number of records behind.
Walk(b) == {b.cursor + k * RecLen : k \in 0..Len(b.inner)}
Present(b, p) == p < Len(b.inner)
HeaderPresent(b, p) == p + HeaderLen <= Len(b.inner)
TypeAt(b, p) == b.inner[p + 1].val

\* find_key_packets leaves its loop at p: no byte or no whole header is there,
\* or the type is a 0x17 that completes the pair, a 0xff, or unknown.
KeyAt(b, s, d, p) ==
  \/ ~HeaderPresent(b, p)
  \/ TypeAt(b, p) = "0x17" /\ s \cup {d} = Directions
  \/ TypeAt(b, p) \notin {"0x16", "0x17"}

KeyMode(b, s, d, p) ==
  IF ~Present(b, p) THEN "Incomplete"
  ELSE IF TypeAt(b, p) = "0x17" THEN IF s \cup {d} = Directions THEN "Active" ELSE "Incomplete"
  ELSE IF TypeAt(b, p) = "0xff" THEN "Passive"
  ELSE IF TypeAt(b, p) = "0x16" THEN "Incomplete"
  ELSE "Invalid"

\* Mutant: any record counts, not only one of type 0x17.
WitnessAny(b, s, d, p) == IF Present(b, b.cursor) THEN s \cup {d} ELSE s

\* Seen0x17::witness, once for all the 0x17 met on the way to p.
witness(b, s, d, p) ==
  IF \E q \in Walk(b) : q <= p /\ Present(b, q) /\ TypeAt(b, q) = "0x17" THEN s \cup {d} ELSE s

\* The single result of the search, as a set: the first key position decides.
find_key_packets(b, s, d) ==
  {[mode |-> KeyMode(b, s, d, p), seen |-> witness(b, s, d, p),
    buf |-> [inner |-> b.inner, cursor |-> p]] :
     p \in {p \in Walk(b) : KeyAt(b, s, d, p) /\ \A q \in Walk(b) : q < p => ~KeyAt(b, s, d, q)}}

\* Mutant: the command stays in the buffer.
DropKeepsCommand(b) == b

\* drop_0xff wants the command to be the complete rest of the buffer.
drop_0xff_ok(b) == b.cursor < Len(b.inner) /\ b.cursor + RecLen = Len(b.inner)
drop_0xff(b) == [inner |-> SubSeq(b.inner, 1, b.cursor), cursor |-> b.cursor]

\* Where tls12_relay_until_0xff stops: no whole header, or the command.
StopAt(b, p) == ~HeaderPresent(b, p) \/ TypeAt(b, p) = "0xff"
Stops(b) == {p \in Walk(b) : StopAt(b, p) /\ \A q \in Walk(b) : q < p => ~StopAt(b, q)}
-----------------------------------------------------------------------------
Init ==
  /\ pc = [e \in Endpoints |-> "hello"]
  /\ buf = [e \in Endpoints |-> [d \in Directions |-> EmptyBuffer]]
  /\ seen = [e \in Endpoints |-> {}]
  /\ version = [e \in Endpoints |-> "None"]
  /\ link = [d \in Directions |-> [h \in Hops |-> <<>>]]
  /\ eof = [d \in Directions |-> [h \in Hops |-> FALSE]]
  /\ \E u \in UserScripts, t \in TargetScripts :
       script = [d \in Directions |-> IF d = "Inbound" THEN u ELSE t]
  /\ sent = [d \in Directions |-> 0]

(***************************************************************************)
(* The user and the target.  With PeersWait the user sends its first       *)
(* record and waits for an answer, and the target only answers.            *)
(***************************************************************************)
MaySpeak(d) ==
  \/ ~PeersWait
  \/ d = "Inbound" /\ sent[d] = 0
  \/ link[Opposite(d)][3] # <<>>

Send(d) ==
  /\ ~eof[d][1] /\ sent[d] < Len(script[d]) /\ MaySpeak(d)
  /\ sent' = [sent EXCEPT ![d] = @ + 1]
  /\ link' = Put(link, d, 1, Record(script[d][sent[d] + 1], sent[d] + 1))
  /\ UNCHANGED <<pc, buf, seen, version, eof, script>>

CloseSender(d) ==
  /\ MayClose /\ ~eof[d][1]
  /\ eof' = [eof EXCEPT ![d] = [eof[d] EXCEPT ![1] = TRUE]]
  /\ UNCHANGED <<pc, buf, seen, version, link, script, sent>>
-----------------------------------------------------------------------------
(***************************************************************************)
(* LiteTlsStream.  The operators below are the ends of a step of endpoint  *)
(* e that has bufs and links l at hand.                                    *)
(***************************************************************************)
MoveTo(e, where, bufs, l) ==
  /\ pc' = [pc EXCEPT ![e] = where]
  /\ buf' = [buf EXCEPT ![e] = bufs]
  /\ link' = l

\* An endpoint that returns drops both of its sockets.
Drop(e) ==
  /\ pc' = [pc EXCEPT ![e] = "closed"]
  /\ eof' = [d \in Directions |-> [eof[d] EXCEPT ![DstHop(e, d)] = TRUE]]

\* Mutant: the relayed packets are not popped.
RelayWithoutPop(e, d, bufs, l) ==
  \E l2 \in WriteTls(l, d, DstHop(e, d), checked_packets(bufs[d])) :
    /\ MoveTo(e, "loop", bufs, l2)
    /\ UNCHANGED version

relay_pending(e, d, bufs, l) ==
  \E l2 \in WriteTls(l, d, DstHop(e, d), checked_packets(bufs[d])) :
    /\ MoveTo(e, "loop", [bufs EXCEPT ![d] = pop_checked_packets(bufs[d])], l2)
    /\ UNCHANGED version

flush_non_tls(e, bufs, l) ==
  \E l2 \in WriteTls(l, "Inbound", DstHop(e, "Inbound"), bufs["Inbound"].inner) :
    \E l3 \in WriteTls(l2, "Outbound", DstHop(e, "Outbound"), bufs["Outbound"].inner) :
      /\ MoveTo(e, "tcp", [d \in Directions |-> EmptyBuffer], l3)
      /\ UNCHANGED version

\* Mutant: the cached 0x17 is reset and not written.
FlushTlsDropsCache(e, bufs, l) ==
  /\ MoveTo(e, "lite", [bufs EXCEPT ![FirstHand(e)] = EmptyBuffer], l)
  /\ version' = [version EXCEPT ![e] = "Active"]

\* The active side leaves: the cached 0x17 goes out on the plain socket.
flush_tls_active(e, bufs, l) ==
  \E l2 \in WriteRaw(l, FirstHand(e), 2, bufs[FirstHand(e)].inner) :
    /\ MoveTo(e, "lite", [bufs EXCEPT ![FirstHand(e)] = EmptyBuffer], l2)
    /\ version' = [version EXCEPT ![e] = "Active"]

\* Everything in front of the 0xff is relayed, the command itself is dropped
\* once it is complete.
tls12_relay_until_0xff(e, bufs, l) ==
  LET s == SecondHand(e) IN
  \E p \in Stops(bufs[s]) :
    LET at == [inner |-> bufs[s].inner, cursor |-> p]
        rest == pop_checked_packets(at)
    IN \E l2 \in WriteRaw(l, s, 3, checked_packets(at)) :
         IF HeaderPresent(at, p) /\ Len(rest.inner) >= RecLen
           THEN flush_tls_active(e, [bufs EXCEPT ![s] = EmptyBuffer], l2)
           ELSE /\ MoveTo(e, "until0xff", [bufs EXCEPT ![s] = rest], l2)
                /\ UNCHANGED version

\* Mutant: the active side leaves without waiting for the 0xff.
ActiveLeavesAtOnce(e, bufs, l) ==
  LET f == FirstHand(e)
      tmp == checked_packets(bufs[f]) \o LEAVE_TLS_COMMAND
  IN flush_tls_active(e, [bufs EXCEPT ![f] = pop_checked_packets(bufs[f])],
                      Put(l, f, 2, Encrypted(tmp)))

handshake_tls12_active(e, bufs, l) ==
  LET f == FirstHand(e)
      tmp == checked_packets(bufs[f]) \o LEAVE_TLS_COMMAND
  IN tls12_relay_until_0xff(e, [bufs EXCEPT ![f] = pop_checked_packets(bufs[f])],
                            Put(l, f, 2, Encrypted(tmp)))

\* Mutant: the passive side leaves without an answer.
PassiveWithoutAnswer(e, bufs, l) ==
  LET s == SecondHand(e)
      b == drop_0xff(bufs[s])
  IN IF drop_0xff_ok(bufs[s])
       THEN /\ MoveTo(e, IF b.inner # <<>> THEN "pending" ELSE "lite", [bufs EXCEPT ![s] = b], l)
            /\ version' = [version EXCEPT ![e] = "Passive"]
       ELSE flush_non_tls(e, bufs, l)

\* The passive side answers with a 0xff, leaves, and if it caches packets
\* waits for the 0x17 that follows them on the plain socket.
handshake_tls12_passive(e, bufs, l) ==
  LET s == SecondHand(e)
      b == drop_0xff(bufs[s])
  IN IF drop_0xff_ok(bufs[s])
       THEN /\ MoveTo(e, IF b.inner # <<>> THEN "pending" ELSE "lite", [bufs EXCEPT ![s] = b],
                      Put(l, FirstHand(e), 2, Encrypted(LEAVE_TLS_COMMAND)))
            /\ version' = [version EXCEPT ![e] = "Passive"]
       ELSE flush_non_tls(e, bufs, l)
-----------------------------------------------------------------------------
(***************************************************************************)
(* Steps of an endpoint: a read returned n units, or the end of a stream.  *)
(***************************************************************************)
ClientHello(e, n, l) ==
  LET b == Filled(e, "Inbound", n)
      bufs == [buf[e] EXCEPT !["Inbound"] = b]
  IN /\ pc[e] = "hello"
     /\ \/ /\ check_client_hello(b) = "Incomplete"
           /\ MoveTo(e, "hello", bufs, l)
           /\ UNCHANGED version
        \/ /\ check_client_hello(b) = "Ok"
           /\ \E l2 \in WriteTls(l, "Inbound", DstHop(e, "Inbound"), b.inner) :
                MoveTo(e, "loop", [bufs EXCEPT !["Inbound"] = EmptyBuffer], l2)
           /\ UNCHANGED version
        \/ /\ check_client_hello(b) = "Invalid"
           /\ flush_non_tls(e, bufs, l)
     /\ UNCHANGED <<seen, eof, script, sent>>

Handshake(e, d, n, l) ==
  /\ pc[e] = "loop"
  /\ \E r \in find_key_packets(Filled(e, d, n), seen[e], d) :
       LET bufs == [buf[e] EXCEPT ![d] = r.buf]
       IN /\ seen' = [seen EXCEPT ![e] = r.seen]
          /\ \/ r.mode = "Active" /\ handshake_tls12_active(e, bufs, l)
             \/ r.mode = "Passive" /\ handshake_tls12_passive(e, bufs, l)
             \/ r.mode = "Incomplete" /\ relay_pending(e, d, bufs, l)
             \/ r.mode = "Invalid" /\ flush_non_tls(e, bufs, l)
  /\ UNCHANGED <<eof, script, sent>>

RelayUntil0xff(e, n, l) ==
  LET s == SecondHand(e)
  IN /\ pc[e] = "until0xff"
     /\ tls12_relay_until_0xff(e, [buf[e] EXCEPT ![s] = Filled(e, s, n)], l)
     /\ UNCHANGED <<seen, eof, script, sent>>

\* flush_tls of the passive side.
FlushPending(e, n, l) ==
  LET s == SecondHand(e)
  IN /\ pc[e] = "pending"
     /\ \E l2 \in WriteRaw(l, s, 3, Filled(e, s, n).inner) :
          MoveTo(e, "lite", [buf[e] EXCEPT ![s] = EmptyBuffer], l2)
     /\ UNCHANGED <<seen, version, eof, script, sent>>

\* Adapter::relay_tcp, whose copy loop writes all it has read.
Relay(e, d, n, l) ==
  /\ pc[e] \in {"tcp", "lite"}
  /\ link' = Put(l, d, DstHop(e, d),
                 IF DstHop(e, d) = 2 /\ pc[e] = "tcp" THEN Encrypted(Taken(e, d, n))
                                                      ELSE Taken(e, d, n))
  /\ UNCHANGED <<pc, buf, seen, version, eof, script, sent>>

\* One read of endpoint e on direction d that returned data.
Read(e, d) ==
  \E n \in ReadSizes(e, d) : \E k \in Swallowed(e, d, n) :
    LET l == Drained(e, d, n + k)
    IN \/ d = "Inbound" /\ ClientHello(e, n, l)
       \/ Handshake(e, d, n, l)
       \/ d = SecondHand(e) /\ RelayUntil0xff(e, n, l)
       \/ d = SecondHand(e) /\ FlushPending(e, n, l)
       \/ Relay(e, d, n, l)

\* The end of a stream ends a handshake, whichever direction it is in.
HandshakeEof(e, d) ==
  /\ Source(e, d) = <<>> /\ eof[d][SrcHop(e, d)]
  /\ \/ pc[e] = "hello" /\ d = "Inbound"
     \/ pc[e] = "loop"
     \/ pc[e] \in {"until0xff", "pending"} /\ d = SecondHand(e)
  /\ Drop(e)
  /\ UNCHANGED <<buf, seen, version, link, script, sent>>

\* A relay passes the end of a stream on and keeps the other direction.
RelayEof(e, d) ==
  /\ pc[e] \in {"tcp", "lite"}
  /\ Source(e, d) = <<>> /\ eof[d][SrcHop(e, d)] /\ ~eof[d][DstHop(e, d)]
  /\ eof' = [eof EXCEPT ![d] = [eof[d] EXCEPT ![DstHop(e, d)] = TRUE]]
  /\ UNCHANGED <<pc, buf, seen, version, link, script, sent>>

\* A timeout of the handshake, a shutdown, or an error of a socket.
Abort(e) ==
  /\ MayClose /\ pc[e] # "closed"
  /\ Drop(e)
  /\ UNCHANGED <<buf, seen, version, link, script, sent>>

\* The session meets a record that is not its own: at once when it is next, or
\* because it was read together with the last bytes that are (OverRead).
TlsFailure(e) ==
  /\ pc[e] \in InTls
  /\ LET q == link[SecondHand(e)][2]
     IN \E i \in 1..Len(q) : ~q[i].enc /\ i + RecLen <= Len(q) + 1 /\ (i = 1 \/ OverRead)
  /\ Drop(e)
  /\ UNCHANGED <<buf, seen, version, link, script, sent>>
-----------------------------------------------------------------------------
Next ==
  \/ \E d \in Directions : Send(d) \/ CloseSender(d)
  \/ \E e \in Endpoints, d \in Directions : Read(e, d) \/ HandshakeEof(e, d) \/ RelayEof(e, d)
  \/ \E e \in Endpoints : Abort(e) \/ TlsFailure(e)

Spec == Init /\ [][Next]_vars

\* Every task runs as long as it has input: the runtime polls a ready read, and
\* select! picks its ready branches at random.  User and target send what they
\* have to.  Failures are never forced.
Fairness ==
  /\ \A d \in Directions : WF_vars(Send(d))
  /\ \A e \in Endpoints, d \in Directions :
       WF_vars(Read(e, d) \/ HandshakeEof(e, d) \/ RelayEof(e, d))

FairSpec == Spec /\ Fairness
-----------------------------------------------------------------------------
(***************************************************************************)
(* Properties.                                                             *)
(***************************************************************************)

\* Every variable has its type; in particular the cursor of a TlsRelayBuffer,
\* a usize that pop_checked_packets subtracts from, stays a natural number.
TypeOK ==
  /\ pc \in [Endpoints -> PCs]
  /\ buf \in [Endpoints -> [Directions -> Buffer]]
  /\ seen \in [Endpoints -> SUBSET Directions]
  /\ version \in [Endpoints -> {"None", "Active", "Passive"}]
  /\ link \in [Directions -> [Hops -> Seq(Unit)]]
  /\ eof \in [Directions -> [Hops -> BOOLEAN]]
  /\ script \in [Directions -> Seq(Types)]
  /\ sent \in [Directions -> Nat]

\* Neither unreachable!() is reached and no slice is taken out of bounds: while
\* an endpoint can still call witness it has not seen 0x17 both ways, flush_tls
\* and the relay behind it run only with a version, and between two reads a
\* buffer holds either unparsed bytes from its start or no bytes at all.
NoPanic ==
  \A e \in Endpoints :
    /\ pc[e] \in {"hello", "loop"} => seen[e] # Directions /\ version[e] = "None"
    /\ pc[e] = "pending" => version[e] = "Passive"
    /\ pc[e] = "lite" => version[e] # "None"
    /\ pc[e] \in {"hello", "loop", "until0xff"} =>
         \A d \in Directions : buf[e][d].cursor = 0 \/ buf[e][d].inner = <<>>

\* The units the sender of d has written so far.
Written(d) ==
  [i \in 1..(sent[d] * RecLen) |->
     Record(script[d][((i - 1) \div RecLen) + 1], ((i - 1) \div RecLen) + 1)[((i - 1) % RecLen) + 1]]

\* handshake, flush_tls and flush_non_tls move bytes between two buffers, two
\* sockets and two framings, and none is lost, doubled, reordered or made up on
\* the way, the 0xff commands included: the connection is a two-way pipe.
Pipe == INSTANCE ProxyPipe WITH
          written <- [d \in Directions |-> Written(d)],
          delivered <- [d \in Directions |-> link[d][3]]
ImplementsPipe == Pipe!Spec

\* The endpoints decide on their own, and agree, whatever is cut in two: one that has
\* left TLS faces one that has left, is waiting for the 0xff that lets it leave, or
\* is gone, and of two that leave at least one is active.
ModesAgree ==
  \A e \in Endpoints :
    /\ pc[e] \in OutOfTls => pc[Peer(e)] \in OutOfTls \cup {"until0xff", "closed"}
    /\ version[e] = "Passive" => version[Peer(e)] # "Passive"

\* No byte is read in the wrong mode: what waits on the tunnel for an endpoint that
\* has left TLS is plain, and for one that still has to parse or relay in TLS it is
\* encrypted.
TunnelClean ==
  \A e \in Endpoints :
    LET q == link[SecondHand(e)][2]
    IN /\ pc[e] \in OutOfTls => \A i \in 1..Len(q) : ~q[i].enc
       /\ pc[e] \in {"hello", "loop", "tcp"} => \A i \in 1..Len(q) : q[i].enc

\* Place i of the stream of d is in or behind its first 0x17 record.
Past(d, i) == \E k \in 1..Len(script[d]) : script[d][k] = "0x17" /\ (k - 1) * RecLen < i

\* Nothing of the user's TLS handshake crosses the network outside the tunnel,
\* whatever the reads and writes of the buffers cut in two: in each direction
\* every plain unit on the tunnel is at or behind the first 0x17 record.
NoHandshakeInClear ==
  \A d \in Directions : \A i \in 1..Len(link[d][2]) :
    ~link[d][2][i].enc => Past(d, link[d][2][i].idx)

\* flush_tls reads without a timeout on the passive side when it caches packets:
\* it waits only if more is on its way, held back by an active peer that has yet
\* to read the 0xff, or in the tunnel, or else if the peer is gone.
PassiveFed ==
  \A e \in Endpoints : pc[e] = "pending" =>
    \/ link[SecondHand(e)][2] # <<>>
    \/ pc[Peer(e)] = "closed"
    \/ pc[Peer(e)] = "until0xff" /\ buf[Peer(e)][SecondHand(e)].inner # <<>>

\* A 0xff command is for the other endpoint: none reaches the user or the target.
CommandsDropped ==
  \A d \in Directions : \A i \in 1..Len(link[d][3]) : link[d][3][i].idx # 0

\* Nothing the user or the target sends stays behind in a buffer or a socket: in
\* the end all of it is delivered, also behind the end of the other direction,
\* unless an endpoint has given the connection up.
AllDelivered ==
  <>[](\/ \E e \in Endpoints : pc[e] = "closed"
       \/ /\ \A d \in Directions : Len(link[d][3]) = sent[d] * RecLen
          /\ \/ \A d \in Directions : sent[d] = Len(script[d])
             \/ \E d \in Directions : eof[d][1])
=============================================================================

------------------------- MODULE LiteTlsInvariants -------------------------
(***************************************************************************)
(* What the proofs about LiteTls speak of: the inductive invariants of the *)
(* specification, and what holds at each point within a step, from a read  *)
(* to the next one.                                                        *)
(***************************************************************************)
EXTENDS LiteTls

\* The links and the buffers of an endpoint, and the units of a sequence.
Links == [Directions -> [Hops -> Seq(Unit)]]
Bufs == [Directions -> Buffer]
Units(s) == {s[i] : i \in 1..Len(s)}

(***************************************************************************)
(* The invariant.  Front(e) counts the first-hand units endpoint e has     *)
(* passed on: the buffer, while it is still parsed, and hop 1 hold exactly *)
(* the units behind it.  A direction is cleared once a 0x17 record has     *)
(* begun at or before the front, so that all that follows may be plain.    *)
(***************************************************************************)
Parsing == {"hello", "loop", "until0xff"}

Total(e) == sent[FirstHand(e)] * RecLen
Held(e) == IF pc[e] \in Parsing THEN buf[e][FirstHand(e)].inner ELSE <<>>
Front(e) == Total(e) - Len(link[FirstHand(e)][1]) - Len(Held(e))
Cleared(e) == Past(FirstHand(e), Front(e) + 1)

\* The units of s are those behind place base of the first-hand stream of e.
Run(e, base, s) ==
  \A i \in 1..Len(s) : /\ s[i].idx = base + i
                       /\ s[i].val # "0xff"
                       /\ s[i].val = "0x17" => Past(FirstHand(e), s[i].idx)
                       /\ s[i].enc = FALSE

\* A unit that endpoint e has sent, or may send at a front of base.
Sendable(e, base, u) ==
  /\ u.idx <= base
  /\ u.val = "0x17" => Past(FirstHand(e), u.idx)
  /\ u.val = "0xff" => Past(FirstHand(e), base + 1) /\ Cleared(Peer(e))

Queued ==
  \A e \in Endpoints :
    /\ Front(e) \in Nat
    /\ Run(e, Front(e), Held(e))
    /\ Run(e, Front(e) + Len(Held(e)), link[FirstHand(e)][1])

Passed ==
  \A e \in Endpoints :
    /\ \A u \in Units(link[FirstHand(e)][2]) : Sendable(e, Front(e), u)
    /\ \A u \in Units(buf[Peer(e)][FirstHand(e)].inner) : Sendable(e, Front(e), u)

\* Who has seen a 0x17 in a direction, or has begun to leave, knows it cleared.
Known ==
  \A e \in Endpoints :
    /\ \A c \in Endpoints : FirstHand(c) \in seen[e] => Cleared(c)
    /\ pc[e] \in {"until0xff"} \cup OutOfTls => \A c \in Endpoints : Cleared(c)

IInv == TypeOK /\ Queued /\ Passed /\ Known /\ NoHandshakeInClear

(***************************************************************************)
(* A step of endpoint e, from a read to the next, works on buffers bufs    *)
(* and links l.  Ctx says that they fit the invariant at a front of base;  *)
(* reading sets it up, sending moves it on, and a step that ends in it     *)
(* ends in the invariant.                                                  *)
(***************************************************************************)
Ctx(e, bufs, l, base) ==
  /\ bufs \in Bufs /\ l \in Links /\ base \in Nat /\ base >= Front(e)
  /\ l[SecondHand(e)][1] = link[SecondHand(e)][1]
  /\ base + Len(bufs[FirstHand(e)].inner) + Len(l[FirstHand(e)][1]) = Total(e)
  /\ Run(e, base, bufs[FirstHand(e)].inner)
  /\ Run(e, base + Len(bufs[FirstHand(e)].inner), l[FirstHand(e)][1])
  /\ Units(l[SecondHand(e)][2]) \subseteq Units(link[SecondHand(e)][2])
  /\ \A u \in Units(l[FirstHand(e)][2]) :
       Sendable(e, base, u) /\ (~u.enc => Past(FirstHand(e), u.idx))
  /\ \A u \in Units(bufs[SecondHand(e)].inner) : Sendable(Peer(e), Front(Peer(e)), u)

\* The step ends: e waits at where with buffers nb, of which the first-hand one
\* counts only while it is going to be parsed.
Ends(e, where, nb, bufs, l) ==
  /\ where \in PCs /\ nb \in Bufs
  /\ where \in Parsing => nb[FirstHand(e)].inner = bufs[FirstHand(e)].inner
  /\ Units(nb[SecondHand(e)].inner) \subseteq Units(bufs[SecondHand(e)].inner)
  /\ pc' = [pc EXCEPT ![e] = where] /\ buf' = [buf EXCEPT ![e] = nb] /\ link' = l
  /\ UNCHANGED <<script, sent>>
  /\ version' \in [Endpoints -> {"None", "Active", "Passive"}]
  /\ eof' \in [Directions -> [Hops -> BOOLEAN]]

\* What e has learned by then, at a front of base.
Learns(e, where, base) ==
  /\ seen' \in [Endpoints -> SUBSET Directions] /\ seen'[Peer(e)] = seen[Peer(e)]
  /\ FirstHand(e) \in seen'[e] => Past(FirstHand(e), base + 1)
  /\ SecondHand(e) \in seen'[e] => Cleared(Peer(e))
  /\ where \in {"until0xff"} \cup OutOfTls =>
       Past(FirstHand(e), base + 1) /\ Cleared(Peer(e))

\* The units of x may be on the tunnel at a front of base.
MaySend(e, base, x) ==
  \A u \in Units(x) : Sendable(e, base, u) /\ (~u.enc => Past(FirstHand(e), u.idx))

\* How much of a buffer is checked.
Cut(b) == IF b.cursor < Len(b.inner) THEN b.cursor ELSE Len(b.inner)

\* At a front of at, or behind it, e has seen 0x17 records in the directions sn.
Knows(e, at, sn) ==
  /\ at \in Nat /\ sn \subseteq Directions /\ seen' = [seen EXCEPT ![e] = sn]
  /\ FirstHand(e) \in sn => Past(FirstHand(e), at + 1)
  /\ SecondHand(e) \in sn => Cleared(Peer(e))

\* The buffers after a read of n units on direction d.
Filling(e, d, n, bufs) ==
  /\ bufs \in Bufs
  /\ bufs[FirstHand(e)].inner = IF d = FirstHand(e) THEN Held(e) \o Taken(e, d, n) ELSE Held(e)
  /\ bufs[SecondHand(e)].inner = IF d = FirstHand(e) THEN buf[e][SecondHand(e)].inner
                                 ELSE buf[e][SecondHand(e)].inner \o Taken(e, d, n)

(***************************************************************************)
(* No panic.  The invariant adds that client_hello parses from the start   *)
(* of its buffer; the endpoints do not depend on each other.               *)
(***************************************************************************)
Calm(where, sn, v, bufs) ==
  /\ where \in {"hello", "loop"} => sn # Directions /\ v = "None"
  /\ where = "pending" => v = "Passive"
  /\ where = "lite" => v # "None"
  /\ where \in Parsing => \A d \in Directions : bufs[d].cursor = 0 \/ bufs[d].inner = <<>>
  /\ where = "hello" => \A d \in Directions : bufs[d].cursor = 0

AllCalm == \A e \in Endpoints : Calm(pc[e], seen[e], version[e], buf[e])

(***************************************************************************)
(* Leaving TLS.  One direction of the tunnel, from a sender that waits at  *)
(* w with version v to a receiver with version vp that holds b of it.  A   *)
(* 0xff that has been sent is followed by plain units only, and its sender *)
(* is gone from TLS or on its way out; so when the receiver has all of the *)
(* command, it is the end of what it has read and the tunnel is plain.     *)
(***************************************************************************)
Gone == {"until0xff"} \cup OutOfTls \cup {"closed"}
Has0xff(s) == \E i \in 1..Len(s) : s[i].val = "0xff"

Shut(q) ==
  /\ \A j \in 1..Len(q) : q[j].val = "0xff" =>
       q[j].enc = TRUE /\ \A i \in 1..Len(q) : i >= j + RecLen => q[i].enc = FALSE
  /\ \A i, j \in 1..Len(q) : i < j /\ q[i].enc = FALSE => q[j].enc = FALSE
Closing(b, q) ==
  /\ \A j \in 1..Len(b) : b[j].val = "0xff" =>
       /\ Len(b) < j + RecLen
       /\ \A i \in 1..Len(q) : Len(b) + i >= j + RecLen => q[i].enc = FALSE
  /\ Shut(q)

Way(w, v, q, vp, b) ==
  /\ Closing(b, q)
  /\ Has0xff(b) \/ Has0xff(q) \/ vp # "None" => w \in Gone
  /\ vp # "None" => \A i \in 1..Len(q) : q[i].enc = FALSE
  /\ v = "None" => \A i \in 1..Len(q) : q[i].enc = TRUE

\* What goes with the place where an endpoint waits.
Own(e, where, v, ns) ==
  /\ v # "None" => where \in OutOfTls \cup {"closed"}
  /\ where \in OutOfTls => v # "None"
  /\ where \in {"tcp", "lite"} => ns = <<>>

Ways ==
  \A e \in Endpoints :
    /\ Way(pc[e], version[e], link[FirstHand(e)][2], version[Peer(e)], buf[Peer(e)][FirstHand(e)].inner)
    /\ Own(e, pc[e], version[e], buf[e][SecondHand(e)].inner)
    /\ version[e] = "Passive" => version[Peer(e)] # "Passive"

(***************************************************************************)
(* A step of an endpoint by the values it starts from and leaves behind.   *)
(***************************************************************************)
\* The parts and the concatenation under names that the provers match as they stand.
Upto(s, n) == SubSeq(s, 1, n)
Rest(s, n) == SubSeq(s, n + 1, Len(s))
Join(s, t) == s \o t
Prefix(z, x) == \E j \in 0..Len(x) : z = Upto(x, j)

\* Cutting a sequence at its ends.
WholeFact(t) ==
  /\ Join(<<>>, t) = t /\ Join(t, <<>>) = t
  /\ Upto(t, Len(t)) = t /\ Rest(t, Len(t)) = <<>> /\ Upto(t, 0) = <<>> /\ Rest(t, 0) = t

\* The hops of links l that endpoint e reads and writes, the others as they were.
At(e, l, in, qf, qs, out) ==
  /\ l \in Links /\ l[FirstHand(e)][1] = in /\ l[FirstHand(e)][2] = qf
  /\ l[FirstHand(e)][3] = link[FirstHand(e)][3] /\ l[SecondHand(e)][1] = link[SecondHand(e)][1]
  /\ l[SecondHand(e)][2] = qs /\ l[SecondHand(e)][3] = out

\* The two buffers of an endpoint.
Bf(e, bufs, bf, bs) == bufs \in Bufs /\ bufs[FirstHand(e)] = bf /\ bufs[SecondHand(e)] = bs

\* The step ends: e waits at where with version v and buffers nf and ns, and has written
\* y to the tunnel and z to its receiver.
Lands(e, in, qf, qs, out, where, v, nf, ns, y, z) ==
  /\ y \in Seq(Unit) /\ z \in Seq(Unit)
  /\ \E nb, l : /\ At(e, l, in, Join(qf, y), qs, Join(out, z)) /\ Bf(e, nb, nf, ns)
                /\ MoveTo(e, where, nb, l) /\ version' = [version EXCEPT ![e] = v]

\* e stays in TLS: parts of what it has in its buffers, xf and xs, are passed on.
Passes(e, in, qf, qs, out, xf, xs) ==
  \E where, nf, ns, z, m, k :
    /\ Lands(e, in, qf, qs, out, where, version[e], nf, ns, Encrypted(Upto(xf, m)), z)
    /\ where \in {"hello", "loop", "tcp"} /\ m \in 0..Len(xf) /\ k \in 0..Len(xs)
    /\ nf.inner = Rest(xf, m) /\ ns.inner = Rest(xs, k) /\ Prefix(z, Upto(xs, k))
    /\ where = "tcp" => nf.inner = <<>> /\ ns.inner = <<>>

\* The parser of second-hand bytes xs stands at p, at a command that is complete.
CommandAt(xs, p) == p \in Nat /\ p + RecLen <= Len(xs) /\ xs[p + 1].val = "0xff"

\* e goes on to wait for the 0xff,
Waits(e, in, qf, qs, out, xf, xs) ==
  \E nf, ns, z, p :
    /\ Lands(e, in, qf, qs, out, "until0xff", version[e], nf, ns, <<>>, z)
    /\ p \in 0..Len(xs) /\ nf.inner = xf /\ ns.inner = Rest(xs, p) /\ Prefix(z, Upto(xs, p))

\* has it and leaves as the active side,
GoesActive(e, in, qf, qs, out, xf, xs) ==
  \E nf, ns, y, z, p :
    /\ Lands(e, in, qf, qs, out, "lite", "Active", nf, ns, y, z)
    /\ CommandAt(xs, p) /\ nf.inner = <<>> /\ ns.inner = <<>>
    /\ Prefix(y, xf) /\ Prefix(z, Upto(xs, p))

\* or leaves as the passive one.
GoesPassive(e, in, qf, qs, out, xf, xs) ==
  \E where, nf, ns, p :
    /\ Lands(e, in, qf, qs, out, where, "Passive", nf, ns, Encrypted(LEAVE_TLS_COMMAND), <<>>)
    /\ where \in OutOfTls /\ CommandAt(xs, p) /\ nf.inner = xf /\ ns.inner = Upto(xs, p)
    /\ where = "lite" => ns.inner = <<>>

\* The first step of an active side sends its 0xff behind the packets it has checked.
Commands(e, in, qf, qs, out, xf, xs) ==
  \E m : LET q == Join(qf, Encrypted(Join(Upto(xf, m), LEAVE_TLS_COMMAND)))
         IN /\ m \in 0..Len(xf)
            /\ \/ Waits(e, in, q, qs, out, Rest(xf, m), xs)
               \/ GoesActive(e, in, q, qs, out, Rest(xf, m), xs)

\* What a parsing endpoint has after a read: bf and bs as buffers, in and qs still to come.
Ready(e, l, in, qs, bf, bs) ==
  /\ At(e, l, in, link[FirstHand(e)][2], qs, link[SecondHand(e)][3])
  /\ bf \in Buffer /\ bs \in Buffer /\ qs \in Seq(Unit)
  /\ \A i \in 1..Len(bf.inner) : bf.inner[i].enc = FALSE /\ bf.inner[i].val # "0xff"
  /\ Way(pc[Peer(e)], version[Peer(e)], qs, version[e], bs.inner)

\* Where that comes from: a read of first-hand, or of second-hand bytes.
From(e, in, qs, xf, xs) ==
  \/ \E n : /\ n \in 0..Len(link[FirstHand(e)][1])
            /\ in = Rest(link[FirstHand(e)][1], n) /\ qs = link[SecondHand(e)][2]
            /\ xf = Join(buf[e][FirstHand(e)].inner, AsCipher(Upto(link[FirstHand(e)][1], n)))
            /\ xs = buf[e][SecondHand(e)].inner
  \/ \E n, m : /\ n \in 0..m /\ m \in 0..Len(link[SecondHand(e)][2])
               /\ in = link[FirstHand(e)][1] /\ qs = Rest(link[SecondHand(e)][2], m)
               /\ xf = buf[e][FirstHand(e)].inner
               /\ xs = Join(buf[e][SecondHand(e)].inner, Decrypted(Upto(link[SecondHand(e)][2], n)))

\* A read of an endpoint in the handshake,
Handshakes(e, in, qs, xf, xs) ==
  LET qf == link[FirstHand(e)][2]
      out == link[SecondHand(e)][3]
  IN \/ /\ pc[e] \in {"hello", "loop"}
        /\ \/ Passes(e, in, qf, qs, out, xf, xs)
           \/ GoesPassive(e, in, qf, qs, out, xf, xs)
           \/ Commands(e, in, qf, qs, out, xf, xs)
     \/ /\ pc[e] = "until0xff"
        /\ Waits(e, in, qf, qs, out, xf, xs) \/ GoesActive(e, in, qf, qs, out, xf, xs)

\* of the passive side that delivers what it has cached,
Delivers(e) ==
  LET q == link[SecondHand(e)][2]
  IN \E n, m, ns, z :
       /\ pc[e] = "pending" /\ n \in 0..m /\ m \in 0..Len(q) /\ ns.inner = <<>>
       /\ Lands(e, link[FirstHand(e)][1], link[FirstHand(e)][2], Rest(q, m), link[SecondHand(e)][3],
                "lite", version[e], buf[e][FirstHand(e)], ns, <<>>, z)
       /\ Prefix(z, Join(buf[e][SecondHand(e)].inner, AsCipher(Upto(q, n))))

\* and of a relay, of first-hand or of second-hand bytes.
Relays(e) ==
  LET i == link[FirstHand(e)][1]
      qf == link[FirstHand(e)][2]
      q == link[SecondHand(e)][2]
      out == link[SecondHand(e)][3]
      bf == buf[e][FirstHand(e)]
      bs == buf[e][SecondHand(e)]
  IN /\ pc[e] \in {"tcp", "lite"}
     /\ \/ \E n, y : /\ n \in 0..Len(i)
                     /\ y = IF pc[e] = "tcp" THEN Encrypted(AsCipher(Upto(i, n))) ELSE AsCipher(Upto(i, n))
                     /\ Lands(e, Rest(i, n), qf, q, out, pc[e], version[e], bf, bs, y, <<>>)
        \/ \E n, m, z : /\ n \in 0..m /\ m \in 0..Len(q)
                        /\ z = IF pc[e] = "tcp" THEN Decrypted(Upto(q, n)) ELSE AsCipher(Upto(q, n))
                        /\ Lands(e, i, qf, Rest(q, m), out, pc[e], version[e], bf, bs, <<>>, z)

(***************************************************************************)
(* The order of what is delivered.  The marks of a sequence are the places *)
(* and values of its units, the commands left out; what is delivered, then *)
(* what the receiving endpoint holds, is on the tunnel, is held by the     *)
(* sending endpoint and is still to be read bear marks of the sender's     *)
(* script in rising order.                                                 *)
(***************************************************************************)
Marks(s) == {<<s[i].idx, s[i].val>> : i \in {j \in 1..Len(s) : s[j].idx # 0}}
Rising(s) == \A i, j \in 1..Len(s) : i < j /\ s[i].idx # 0 /\ s[j].idx # 0 => s[i].idx < s[j].idx
Before(A, B) == \A a \in A, b \in B : a[1] < b[1]

\* The marks of the records the sender of d has written.
Mark(d, k, i) == <<(k - 1) * RecLen + i, IF i = 1 THEN script[d][k] ELSE "data">>
Sent(d) == {Mark(d, k, i) : k \in 1..sent[d], i \in 1..RecLen}

Chain(W, o, b, q, h, in) ==
  /\ Rising(o) /\ Rising(b) /\ Rising(q) /\ Rising(h) /\ Rising(in)
  /\ Marks(o) \cup Marks(b) \cup Marks(q) \cup Marks(h) \cup Marks(in) \subseteq W
  /\ Before(Marks(o), Marks(b) \cup Marks(q) \cup Marks(h) \cup Marks(in))
  /\ Before(Marks(b), Marks(q) \cup Marks(h) \cup Marks(in))
  /\ Before(Marks(q), Marks(h) \cup Marks(in))
  /\ Before(Marks(h), Marks(in))

Chained(e) ==
  LET f == FirstHand(e)
  IN Chain(Sent(f), link[f][3], buf[Peer(e)][f].inner, link[f][2], Held(e), link[f][1])
Orders == \A e \in Endpoints : Chained(e)

\* z and then r are left of x.
Parts(x, z, r) ==
  /\ z \in Seq(Unit) /\ r \in Seq(Unit) /\ Rising(z) /\ Rising(r)
  /\ Marks(z) \subseteq Marks(x) /\ Marks(r) \subseteq Marks(x) /\ Before(Marks(z), Marks(r))

\* What has been delivered in a direction is, commands apart, in the order of the
\* sender's stream, nothing doubled, altered or made up.
InOrder ==
  \A d \in Directions : Rising(link[d][3]) /\ Marks(link[d][3]) \subseteq Sent(d)
=============================================================================

--------------------------- MODULE LiteTlsProofs ---------------------------
(***************************************************************************)
(* Safety of LiteTls for all scripts, record lengths, fragmentations of    *)
(* reads and writes, and failures.                                         *)
(***************************************************************************)
EXTENDS LiteTlsInvariants, TLAPS

(* Names. *)

\* The directions and hops of an endpoint, and of its peer.
LEMMA NameFacts ==
  ASSUME NEW e \in Endpoints
  PROVE  /\ FirstHand(e) \in Directions /\ SecondHand(e) \in Directions
         /\ FirstHand(e) # SecondHand(e)
         /\ Directions = {FirstHand(e), SecondHand(e)}
         /\ Peer(e) \in Endpoints /\ Peer(e) # e
         /\ FirstHand(Peer(e)) = SecondHand(e) /\ SecondHand(Peer(e)) = FirstHand(e)
         /\ \A d \in Directions : SrcHop(e, d) \in {1, 2} /\ DstHop(e, d) \in {2, 3}
  BY DEF Endpoints, Directions, FirstHand, SecondHand, Peer, SrcHop, DstHop

\* The hops of a direction.
LEMMA HopFacts == Hops = {1, 2, 3}
  BY DEF Hops

(* Sequences. *)

\* The length and the elements of a part of a sequence.
LEMMA SubSeqFacts ==
  ASSUME NEW S, NEW s \in Seq(S), NEW m \in Nat, NEW n \in Nat, m >= 1, n <= Len(s)
  PROVE  /\ SubSeq(s, m, n) \in Seq(S)
         /\ Len(SubSeq(s, m, n)) = IF m <= n THEN n - m + 1 ELSE 0
         /\ \A i \in 1..Len(SubSeq(s, m, n)) : SubSeq(s, m, n)[i] = s[m + i - 1]
  OBVIOUS

\* Sequences of the same elements are the same.
LEMMA SeqExtensional ==
  ASSUME NEW S, NEW s \in Seq(S), NEW t \in Seq(S), Len(s) = Len(t),
         \A i \in 1..Len(s) : s[i] = t[i]
  PROVE  s = t
<1>1. s \in [1..Len(s) -> S] /\ t \in [1..Len(s) -> S] OBVIOUS
<1> QED BY <1>1

\* The length and the elements of a concatenation.
LEMMA ConcatFacts ==
  ASSUME NEW S, NEW s \in Seq(S), NEW t \in Seq(S)
  PROVE  /\ s \o t \in Seq(S)
         /\ Len(s \o t) = Len(s) + Len(t)
         /\ \A i \in 1..Len(s) : (s \o t)[i] = s[i]
         /\ \A i \in 1..Len(t) : (s \o t)[Len(s) + i] = t[i]
         /\ \A i \in 1..Len(s \o t) :
              \/ i \in 1..Len(s) /\ (s \o t)[i] = s[i]
              \/ i - Len(s) \in 1..Len(t) /\ (s \o t)[i] = t[i - Len(s)]
  OBVIOUS

\* Encrypting and decrypting keep length, values and places.
LEMMA CryptFacts ==
  ASSUME NEW s \in Seq(Unit)
  PROVE  /\ Encrypted(s) \in Seq(Unit) /\ Len(Encrypted(s)) = Len(s)
         /\ Decrypted(s) \in Seq(Unit) /\ Len(Decrypted(s)) = Len(s)
         /\ AsCipher(s) \in Seq(Unit) /\ Len(AsCipher(s)) = Len(s)
         /\ \A i \in 1..Len(s) :
              /\ Encrypted(s)[i] = [val |-> s[i].val, idx |-> s[i].idx, enc |-> TRUE]
              /\ Decrypted(s)[i] = [val |-> s[i].val, idx |-> s[i].idx, enc |-> FALSE]
              /\ AsCipher(s)[i] = IF s[i].enc THEN [val |-> "cipher", idx |-> 0, enc |-> FALSE]
                                              ELSE s[i]
<1>1. \A i \in 1..Len(s) : s[i] \in Unit /\ s[i].val \in Vals /\ s[i].idx \in Nat
  <2>1. \A i \in 1..Len(s) : s[i] \in Unit OBVIOUS
  <2> QED BY <2>1 DEF Unit
<1>2. [val |-> "cipher", idx |-> 0, enc |-> FALSE] \in Unit BY DEF Unit, Vals
<1>3. \A v \in Vals, n \in Nat : /\ [val |-> v, idx |-> n, enc |-> TRUE] \in Unit
                                /\ [val |-> v, idx |-> n, enc |-> FALSE] \in Unit
  BY DEF Unit
<1>4. Encrypted(s) \in [1..Len(s) -> Unit] BY <1>1, <1>3 DEF Encrypted
<1>5. Decrypted(s) \in [1..Len(s) -> Unit] BY <1>1, <1>3 DEF Decrypted
<1>6. AsCipher(s) \in [1..Len(s) -> Unit] BY <1>1, <1>2 DEF AsCipher
<1>7. \A f \in [1..Len(s) -> Unit] : f \in Seq(Unit) /\ Len(f) = Len(s) OBVIOUS
<1>8. \A i \in 1..Len(s) :
        /\ Encrypted(s)[i] = [val |-> s[i].val, idx |-> s[i].idx, enc |-> TRUE]
        /\ Decrypted(s)[i] = [val |-> s[i].val, idx |-> s[i].idx, enc |-> FALSE]
        /\ AsCipher(s)[i] = IF s[i].enc THEN [val |-> "cipher", idx |-> 0, enc |-> FALSE]
                                        ELSE s[i]
  BY DEF Encrypted, Decrypted, AsCipher
<1> QED BY <1>4, <1>5, <1>6, <1>7, <1>8

\* A record has RecLen units, numbered in the order of the stream.
LEMMA RecordFacts ==
  ASSUME NEW type \in Types, NEW k \in Nat, k >= 1
  PROVE  /\ Record(type, k) \in Seq(Unit) /\ Len(Record(type, k)) = RecLen
         /\ \A i \in 1..RecLen : /\ Record(type, k)[i].idx = (k - 1) * RecLen + i
                                 /\ Record(type, k)[i].enc = FALSE
                                 /\ Record(type, k)[i].val # "0xff"
                                 /\ Record(type, k)[i].val = "0x17" => type = "0x17"
<1> USE LengthAssumption
<1>1. (k - 1) * RecLen \in Nat OBVIOUS
<1>2. \A i \in 1..RecLen : (k - 1) * RecLen + i \in Nat BY <1>1
<1> QED BY <1>2 DEF Record, Unit, Vals, Types

\* The 0xff command has RecLen units, none of them of the stream.
LEMMA LeaveFacts ==
  /\ LEAVE_TLS_COMMAND \in Seq(Unit) /\ Len(LEAVE_TLS_COMMAND) = RecLen
  /\ \A i \in 1..RecLen : /\ LEAVE_TLS_COMMAND[i].idx = 0
                          /\ LEAVE_TLS_COMMAND[i].val # "0x17"
  BY LengthAssumption DEF LEAVE_TLS_COMMAND, Unit, Vals

\* A write appends to one hop of one direction and leaves the others alone.
LEMMA PutFacts ==
  ASSUME NEW l \in Links, NEW d \in Directions, NEW h \in Hops, NEW s \in Seq(Unit)
  PROVE  /\ Put(l, d, h, s) \in Links
         /\ Put(l, d, h, s)[d][h] = l[d][h] \o s
         /\ \A c \in Directions, k \in Hops : c # d \/ k # h => Put(l, d, h, s)[c][k] = l[c][k]
<1> DEFINE row == [l[d] EXCEPT ![h] = l[d][h] \o s]
<1>1. l[d] \in [Hops -> Seq(Unit)] BY DEF Links
<1>2. l[d][h] \o s \in Seq(Unit) BY <1>1
<1>3. /\ row \in [Hops -> Seq(Unit)]
      /\ row[h] = l[d][h] \o s
      /\ \A k \in Hops \ {h} : row[k] = l[d][k]
  BY <1>1, <1>2
<1>4. Put(l, d, h, s) = [l EXCEPT ![d] = row] BY DEF Put
<1> HIDE DEF row
<1> QED BY <1>3, <1>4 DEF Links

\* A plain socket accepts a prefix of what it is given.
LEMMA AcceptedFacts ==
  ASSUME NEW s \in Seq(Unit), NEW t \in Accepted(s)
  PROVE  t \in Seq(Unit) /\ Len(t) <= Len(s) /\ \A i \in 1..Len(t) : t[i] = s[i]
<1>1. CASE t = s BY <1>1
<1>2. ASSUME NEW k \in 1..Len(s), t = SubSeq(s, 1, k)
      PROVE  t \in Seq(Unit) /\ Len(t) <= Len(s) /\ \A i \in 1..Len(t) : t[i] = s[i]
  BY <1>2
<1>3. t = s \/ \E k \in 1..Len(s) : t = SubSeq(s, 1, k) BY DEF Accepted
<1> QED BY <1>1, <1>2, <1>3

\* The elements of a sequence of units are units.
LEMMA UnitsType ==
  ASSUME NEW s \in Seq(Unit)
  PROVE  Units(s) \subseteq Unit
  BY DEF Units

\* Where the units of a concatenation come from.
LEMMA UnitsFacts ==
  ASSUME NEW s \in Seq(Unit), NEW t \in Seq(Unit)
  PROVE  /\ Units(s) \subseteq Unit
         /\ Units(s \o t) = Units(s) \cup Units(t)
         /\ \A u \in Units(Encrypted(s)) :
              \E v \in Units(s) : u.val = v.val /\ u.idx = v.idx /\ u.enc = TRUE
         /\ \A u \in Units(Decrypted(s)) :
              \E v \in Units(s) : u.val = v.val /\ u.idx = v.idx
         /\ \A u \in Units(AsCipher(s)) :
              u \in Units(s) \/ (u.val = "cipher" /\ u.idx = 0)
<1>1. Units(s) \subseteq Unit BY DEF Units
<1>2. Units(s \o t) \subseteq Units(s) \cup Units(t) BY ConcatFacts DEF Units
<1>3. Units(s) \subseteq Units(s \o t)
  <2> SUFFICES ASSUME NEW i \in 1..Len(s) PROVE s[i] \in Units(s \o t)
    BY DEF Units
  <2>1. i \in 1..Len(s \o t) /\ (s \o t)[i] = s[i] BY ConcatFacts
  <2> QED BY <2>1 DEF Units
<1>4. Units(t) \subseteq Units(s \o t)
  <2> SUFFICES ASSUME NEW i \in 1..Len(t) PROVE t[i] \in Units(s \o t)
    BY DEF Units
  <2>1. Len(s) + i \in 1..Len(s \o t) /\ (s \o t)[Len(s) + i] = t[i] BY ConcatFacts
  <2> QED BY <2>1 DEF Units
<1>5. ASSUME NEW u \in Units(Encrypted(s))
      PROVE  \E v \in Units(s) : u.val = v.val /\ u.idx = v.idx /\ u.enc = TRUE
  <2>1. PICK i \in 1..Len(Encrypted(s)) : u = Encrypted(s)[i] BY <1>5 DEF Units
  <2>2. i \in 1..Len(s) BY CryptFacts
  <2>3. u = [val |-> s[i].val, idx |-> s[i].idx, enc |-> TRUE] BY <2>1, <2>2, CryptFacts
  <2>4. s[i] \in Units(s) BY <2>2 DEF Units
  <2> QED BY <2>3, <2>4
<1>6. ASSUME NEW u \in Units(Decrypted(s))
      PROVE  \E v \in Units(s) : u.val = v.val /\ u.idx = v.idx
  <2>1. PICK i \in 1..Len(Decrypted(s)) : u = Decrypted(s)[i] BY <1>6 DEF Units
  <2>2. i \in 1..Len(s) BY CryptFacts
  <2>3. u = [val |-> s[i].val, idx |-> s[i].idx, enc |-> FALSE] BY <2>1, <2>2, CryptFacts
  <2>4. s[i] \in Units(s) BY <2>2 DEF Units
  <2> QED BY <2>3, <2>4
<1>7. ASSUME NEW u \in Units(AsCipher(s))
      PROVE  u \in Units(s) \/ (u.val = "cipher" /\ u.idx = 0)
  <2>1. PICK i \in 1..Len(AsCipher(s)) : u = AsCipher(s)[i] BY <1>7 DEF Units
  <2>2. i \in 1..Len(s) BY CryptFacts
  <2>3. u = IF s[i].enc THEN [val |-> "cipher", idx |-> 0, enc |-> FALSE] ELSE s[i]
    BY <2>1, <2>2, CryptFacts
  <2>4. s[i] \in Units(s) BY <2>2 DEF Units
  <2> QED BY <2>3, <2>4
<1> QED BY <1>1, <1>2, <1>3, <1>4, <1>5, <1>6, <1>7

\* The units of a part are units of the whole.
LEMMA UnitsSubSeq ==
  ASSUME NEW s \in Seq(Unit), NEW m \in Nat, NEW n \in Nat, m >= 1, n <= Len(s)
  PROVE  Units(SubSeq(s, m, n)) \subseteq Units(s)
<1> SUFFICES ASSUME NEW i \in 1..Len(SubSeq(s, m, n)) PROVE SubSeq(s, m, n)[i] \in Units(s)
  BY DEF Units
<1>1. m + i - 1 \in 1..Len(s) /\ SubSeq(s, m, n)[i] = s[m + i - 1] BY SubSeqFacts
<1> QED BY <1>1 DEF Units

\* What is past stays past further on.
LEMMA PastMonotone ==
  ASSUME NEW d \in Directions, NEW i \in Int, NEW j \in Int, i <= j,
         script[d] \in Seq(Types), Past(d, i)
  PROVE  Past(d, j)
<1>1. PICK k \in 1..Len(script[d]) : script[d][k] = "0x17" /\ (k - 1) * RecLen < i
  BY DEF Past
<1>2. (k - 1) * RecLen \in Int BY LengthAssumption
<1>3. (k - 1) * RecLen < j BY <1>1, <1>2
<1> QED BY <1>1, <1>3 DEF Past

\* The typing facts every step starts from.
LEMMA TypeFacts ==
  ASSUME IInv, NEW e \in Endpoints
  PROVE  /\ Total(e) \in Nat /\ Front(e) \in Nat
         /\ Held(e) \in Seq(Unit) /\ Len(Held(e)) \in Nat
         /\ link \in Links /\ buf[e] \in Bufs
         /\ \A d \in Directions : /\ buf[e][d] \in Buffer
                                   /\ buf[e][d].inner \in Seq(Unit)
                                   /\ buf[e][d].cursor \in Nat
                                   /\ script[d] \in Seq(Types)
         /\ \A d \in Directions, h \in Hops : link[d][h] \in Seq(Unit)
         /\ seen[e] \subseteq Directions
         /\ Front(e) + Len(Held(e)) + Len(link[FirstHand(e)][1]) = Total(e)
<1>1. FirstHand(e) \in Directions BY NameFacts
<1>2. link \in Links /\ buf[e] \in Bufs BY DEF IInv, TypeOK, Links, Bufs
<1>3. \A d \in Directions, h \in Hops : link[d][h] \in Seq(Unit) BY <1>2 DEF Links
<1>4. \A d \in Directions : /\ buf[e][d] \in Buffer
                            /\ buf[e][d].inner \in Seq(Unit)
                            /\ buf[e][d].cursor \in Nat
  <2>1. \A d \in Directions : buf[e][d] \in Buffer BY <1>2 DEF Bufs
  <2> QED BY <2>1 DEF Buffer
<1>5. \A d \in Directions : script[d] \in Seq(Types) /\ sent[d] \in Nat BY DEF IInv, TypeOK
<1>6. seen[e] \subseteq Directions BY DEF IInv, TypeOK
<1>7. Total(e) \in Nat
  <2>1. sent[FirstHand(e)] \in Nat BY <1>1, <1>5
  <2> QED BY <2>1, LengthAssumption DEF Total
<1>8. Held(e) \in Seq(Unit) /\ Len(Held(e)) \in Nat BY <1>1, <1>4 DEF Held
<1>9. Front(e) \in Nat BY DEF IInv, Queued
<1>10. Len(link[FirstHand(e)][1]) \in Nat BY <1>1, <1>3, HopFacts
<1>11. Front(e) + Len(Held(e)) + Len(link[FirstHand(e)][1]) = Total(e)
  BY <1>7, <1>8, <1>9, <1>10, SMTT(30) DEF Front
<1> QED BY <1>2, <1>3, <1>4, <1>5, <1>6, <1>7, <1>8, <1>9, <1>11

\* A step that ends in Ctx ends in the invariant.
LEMMA Finish ==
  ASSUME IInv, NEW e \in Endpoints, NEW bufs, NEW l, NEW base, Ctx(e, bufs, l, base),
         NEW where, NEW nb, Ends(e, where, nb, bufs, l), Learns(e, where, base)
  PROVE  IInv'
<1> DEFINE f == FirstHand(e)
           s == SecondHand(e)
           p == Peer(e)
<1>1. /\ f \in Directions /\ s \in Directions /\ f # s /\ Directions = {f, s}
      /\ p \in Endpoints /\ p # e /\ Endpoints = {e, p}
      /\ FirstHand(p) = s /\ SecondHand(p) = f /\ Peer(p) = e
  BY NameFacts DEF Endpoints, Peer
<1> HIDE DEF f, s, p
<1>2. TypeOK'
  <2>1. pc' \in [Endpoints -> PCs] BY DEF IInv, TypeOK, Ends
  <2>2. buf' \in [Endpoints -> [Directions -> Buffer]] BY DEF IInv, TypeOK, Bufs, Ends
  <2>3. link' \in [Directions -> [Hops -> Seq(Unit)]] BY DEF Ctx, Links, Ends
  <2>4. script' \in [Directions -> Seq(Types)] /\ sent' \in [Directions -> Nat]
    BY DEF IInv, TypeOK, Ends
  <2> QED BY <2>1, <2>2, <2>3, <2>4 DEF TypeOK, Ends, Learns
<1>3. /\ pc'[e] = where /\ pc'[p] = pc[p] /\ buf'[e] = nb /\ buf'[p] = buf[p]
      /\ link' = l
  BY <1>1 DEF IInv, TypeOK, Ends
<1>4. \A d, i : Past(d, i)' <=> Past(d, i) BY DEF Past, Ends
<1>5. Total(e)' = Total(e) /\ Total(p)' = Total(p) BY DEF Total, Ends
<1>6. Held(p)' = Held(p) /\ Front(p)' = Front(p)
  <2>1. Held(p)' = Held(p) BY <1>3 DEF Held
  <2>2. link'[s][1] = link[s][1] BY <1>3 DEF Ctx, s
  <2> QED BY <1>1, <1>5, <2>1, <2>2 DEF Front
<1>7. Cleared(p)' <=> Cleared(p) BY <1>4, <1>6 DEF Cleared
<1>8. /\ base \in Nat /\ base >= Front(e) /\ Total(e) \in Nat /\ Front(e) \in Nat
      /\ Len(bufs[f].inner) \in Nat /\ Len(l[f][1]) \in Nat
      /\ base + Len(bufs[f].inner) + Len(l[f][1]) = Total(e)
      /\ bufs[f].inner \in Seq(Unit) /\ l[f][1] \in Seq(Unit)
  <2>1. bufs[f] \in Buffer /\ l[f] \in [Hops -> Seq(Unit)] BY <1>1 DEF Ctx, Bufs, Links
  <2>2. bufs[f].inner \in Seq(Unit) /\ l[f][1] \in Seq(Unit)
    BY <2>1, HopFacts DEF Buffer
  <2>3. base \in Nat /\ base >= Front(e) /\ base + Len(bufs[f].inner) + Len(l[f][1]) = Total(e)
    BY DEF Ctx, f
  <2>4. Total(e) \in Nat /\ Front(e) \in Nat BY TypeFacts
  <2>5. Len(bufs[f].inner) \in Nat /\ Len(l[f][1]) \in Nat BY <2>2
  <2> QED BY <2>2, <2>3, <2>4, <2>5
<1>9. Held(e)' = IF where \in Parsing THEN bufs[f].inner ELSE <<>>
  BY <1>3 DEF Held, f, Ends
<1>10. /\ Front(e)' = IF where \in Parsing THEN base ELSE base + Len(bufs[f].inner)
       /\ Front(e)' + Len(Held(e)') = base + Len(bufs[f].inner)
       /\ Front(e)' \in Nat /\ Front(e)' >= base
  <2> DEFINE n == Len(bufs[f].inner)
             m == Len(l[f][1])
  <2>1. Front(e)' = Total(e) - Len(l[f][1]) - Len(Held(e)') BY <1>3, <1>5 DEF Front, f
  <2>2. n \in Nat /\ m \in Nat /\ base \in Nat /\ Total(e) = base + n + m BY <1>8
  <2>3. (base + n + m) - m - n = base /\ (base + n + m) - m - 0 = base + n
    <3> HIDE DEF n, m
    <3> QED BY <2>2
  <2>4. CASE where \in Parsing
    <3>1. Len(Held(e)') = Len(bufs[f].inner) BY <1>9, <2>4
    <3>2. Front(e)' = base BY <2>1, <2>2, <2>3, <3>1
    <3> QED BY <1>8, <2>4, <3>1, <3>2
  <2>5. CASE where \notin Parsing
    <3>1. Len(Held(e)') = 0 BY <1>9, <2>5
    <3>2. Front(e)' = base + Len(bufs[f].inner) BY <2>1, <2>2, <2>3, <3>1
    <3> QED BY <1>8, <2>5, <3>1, <3>2
  <2> QED BY <2>4, <2>5
<1>11. \A i \in Int : i <= base /\ Past(f, i) => Past(f, Front(e)')
  <2> SUFFICES ASSUME NEW i \in Int, i <= base, Past(f, i) PROVE Past(f, Front(e)')
    OBVIOUS
  <2>1. script[f] \in Seq(Types) BY <1>1, TypeFacts
  <2> QED BY <1>1, <1>8, <1>10, <2>1, PastMonotone
<1>12. Past(f, base + 1) => Cleared(e)'
  <2> SUFFICES ASSUME Past(f, base + 1) PROVE Cleared(e)'
    OBVIOUS
  <2>1. script[f] \in Seq(Types) BY <1>1, TypeFacts
  <2>2. Past(f, Front(e)' + 1)
    BY <1>1, <1>8, <1>10, <2>1, PastMonotone
  <2> QED BY <1>4, <2>2 DEF Cleared, f
<1>13. Cleared(e) => Past(f, base + 1)
  <2> SUFFICES ASSUME Cleared(e) PROVE Past(f, base + 1)
    OBVIOUS
  <2>1. script[f] \in Seq(Types) BY <1>1, TypeFacts
  <2>2. Past(f, Front(e) + 1) BY DEF Cleared, f
  <2> QED BY <1>1, <1>8, <2>1, <2>2, PastMonotone
<1>14. Queued'
  <2>1. Run(p, Front(p), Held(p))' /\ Run(p, Front(p) + Len(Held(p)), link[FirstHand(p)][1])'
    <3>1. link'[s][1] = link[s][1] BY <1>3 DEF Ctx, s
    <3> QED BY <1>1, <1>4, <1>6, <3>1 DEF IInv, Queued, Run
  <2>2. Run(e, Front(e), Held(e))'
    <3>1. CASE where \in Parsing
      BY <1>4, <1>9, <1>10, <3>1 DEF Ctx, Run, f
    <3>2. CASE where \notin Parsing
      <4>1. Held(e)' = <<>> /\ 1..Len(Held(e)') = {} BY <1>9, <3>2
      <4> QED BY <4>1 DEF Run
    <3> QED BY <3>1, <3>2
  <2>3. Run(e, Front(e) + Len(Held(e)), link[FirstHand(e)][1])'
    BY <1>3, <1>4, <1>10 DEF Ctx, Run, f
  <2>4. Front(p)' \in Nat BY <1>1, <1>6 DEF IInv, Queued
  <2> QED BY <1>1, <1>10, <2>1, <2>2, <2>3, <2>4 DEF Queued
<1>15. \A u \in Unit : Sendable(e, base, u) => Sendable(e, Front(e), u)'
  <2> SUFFICES ASSUME NEW u \in Unit, Sendable(e, base, u)
               PROVE  Sendable(e, Front(e), u)'
    OBVIOUS
  <2>1. u.idx \in Nat BY DEF Unit
  <2>2. u.idx <= Front(e)' BY <1>8, <1>10, <2>1 DEF Sendable
  <2>3. u.val = "0xff" => Past(f, Front(e)' + 1)
    BY <1>4, <1>12 DEF Sendable, f, Cleared
  <2> QED BY <1>4, <1>7, <2>2, <2>3 DEF Sendable, f, p
<1>16. \A u : Sendable(p, Front(p), u) => Sendable(p, Front(p), u)'
  <2> SUFFICES ASSUME NEW u, Sendable(p, Front(p), u) PROVE Sendable(p, Front(p), u)'
    OBVIOUS
  <2>1. u.val = "0xff" => Cleared(e)' BY <1>1, <1>12, <1>13 DEF Sendable
  <2> QED BY <1>1, <1>4, <1>6, <2>1 DEF Sendable
<1>17. /\ Units(l[f][2]) \subseteq Unit
       /\ \A u \in Units(buf[p][f].inner) : u \in Unit /\ Sendable(e, Front(e), u)
  <2>1. l[f][2] \in Seq(Unit) BY <1>1, HopFacts DEF Ctx, Links
  <2>2. buf[p][f].inner \in Seq(Unit) BY <1>1, TypeFacts
  <2> QED BY <1>1, <2>1, <2>2, UnitsFacts DEF IInv, Passed, f, p
<1>18. \A u \in Unit : Sendable(e, Front(e), u) => Sendable(e, base, u)
  <2> SUFFICES ASSUME NEW u \in Unit, Sendable(e, Front(e), u) PROVE Sendable(e, base, u)
    OBVIOUS
  <2>1. u.idx \in Nat BY DEF Unit
  <2> QED BY <1>8, <1>13, <2>1 DEF Sendable, Cleared, f
<1>19. Passed'
  <2>1. \A u \in Units(link'[f][2]) : Sendable(e, Front(e), u)'
    BY <1>3, <1>15, <1>17 DEF Ctx, f
  <2>2. \A u \in Units(buf'[p][f].inner) : Sendable(e, Front(e), u)'
    BY <1>3, <1>15, <1>17, <1>18
  <2>3. \A u \in Units(link'[s][2]) : Sendable(p, Front(p), u)'
    <3>1. \A u \in Units(link[s][2]) : Sendable(p, Front(p), u)
      BY <1>1 DEF IInv, Passed
    <3> QED BY <1>3, <1>16, <3>1 DEF Ctx, s
  <2>4. \A u \in Units(buf'[e][s].inner) : Sendable(p, Front(p), u)'
    BY <1>3, <1>16 DEF Ctx, Ends, s, p
  <2>5. \A u \in Units(link'[FirstHand(e)][2]) : Sendable(e, Front(e), u)'
    BY <2>1 DEF f
  <2>6. \A u \in Units(buf'[Peer(e)][FirstHand(e)].inner) : Sendable(e, Front(e), u)'
    BY <2>2 DEF f, p
  <2>7. \A u \in Units(link'[FirstHand(p)][2]) : Sendable(p, Front(p), u)'
    BY <1>1, <2>3
  <2>8. \A u \in Units(buf'[Peer(p)][FirstHand(p)].inner) : Sendable(p, Front(p), u)'
    BY <1>1, <2>4
  <2> QED BY <1>1, <2>5, <2>6, <2>7, <2>8 DEF Passed
<1>20. Known'
  <2>1. FirstHand(e) \in seen'[e] => Cleared(e)' BY <1>12 DEF Learns, f
  <2>2. FirstHand(p) \in seen'[e] => Cleared(p)' BY <1>1, <1>7 DEF Learns, s, p
  <2>3. FirstHand(e) \in seen'[p] => Cleared(e)'
    BY <1>1, <1>12, <1>13 DEF IInv, Known, Learns, p
  <2>4. FirstHand(p) \in seen'[p] => Cleared(p)' BY <1>1, <1>7 DEF IInv, Known, Learns, p
  <2>5. pc'[e] \in {"until0xff"} \cup OutOfTls => Cleared(e)' /\ Cleared(p)'
    BY <1>3, <1>7, <1>12 DEF Learns, f, p
  <2>6. pc'[p] \in {"until0xff"} \cup OutOfTls => Cleared(e)' /\ Cleared(p)'
    BY <1>1, <1>3, <1>7, <1>12, <1>13 DEF IInv, Known
  <2> QED BY <1>1, <2>1, <2>2, <2>3, <2>4, <2>5, <2>6 DEF Known
<1>21. NoHandshakeInClear'
  <2>1. \A i \in 1..Len(link'[f][2]) : ~link'[f][2][i].enc => Past(f, link'[f][2][i].idx)
    BY <1>3 DEF Ctx, f, Units
  <2>2. \A i \in 1..Len(link'[s][2]) : ~link'[s][2][i].enc => Past(s, link'[s][2][i].idx)
    <3> SUFFICES ASSUME NEW i \in 1..Len(l[s][2]), ~l[s][2][i].enc
                 PROVE  Past(s, l[s][2][i].idx)
      BY <1>3
    <3>1. PICK j \in 1..Len(link[s][2]) : link[s][2][j] = l[s][2][i] BY DEF Ctx, s, Units
    <3> QED BY <1>1, <3>1 DEF IInv, NoHandshakeInClear
  <2> QED BY <1>1, <1>4, <2>1, <2>2 DEF NoHandshakeInClear
<1> QED BY <1>2, <1>14, <1>19, <1>20, <1>21 DEF IInv

(* Moves inside a step. *)

\* The types that the invariant holds in the middle of a step.
LEMMA CtxFacts ==
  ASSUME NEW e \in Endpoints, NEW bufs, NEW l, NEW base, Ctx(e, bufs, l, base)
  PROVE  /\ bufs \in Bufs /\ l \in Links /\ base \in Nat
         /\ \A d \in Directions : bufs[d] \in Buffer /\ bufs[d].inner \in Seq(Unit)
                                  /\ bufs[d].cursor \in Nat
         /\ \A d \in Directions, h \in Hops : l[d][h] \in Seq(Unit)
<1>1. bufs \in Bufs /\ l \in Links /\ base \in Nat BY DEF Ctx
<1>2. \A d \in Directions : bufs[d] \in Buffer BY <1>1 DEF Bufs
<1>3. \A d \in Directions : bufs[d].inner \in Seq(Unit) /\ bufs[d].cursor \in Nat
  BY <1>2 DEF Buffer
<1>4. \A d \in Directions, h \in Hops : l[d][h] \in Seq(Unit) BY <1>1 DEF Links
<1> QED BY <1>1, <1>2, <1>3, <1>4

\* Units of the run up to k may be sent at a front of base + k.
LEMMA RunSendable ==
  ASSUME NEW e \in Endpoints, NEW base \in Nat, NEW s \in Seq(Unit), Run(e, base, s),
         NEW k \in 0..Len(s), NEW i \in 1..k
  PROVE  Sendable(e, base + k, s[i]) /\ s[i].idx = base + i
<1>1. i \in 1..Len(s) OBVIOUS
<1>2. s[i].idx = base + i /\ s[i].val # "0xff" /\ (s[i].val = "0x17" => Past(FirstHand(e), s[i].idx))
  BY <1>1 DEF Run
<1>3. s[i].idx <= base + k BY <1>2
<1> QED BY <1>2, <1>3 DEF Sendable

\* What may be sent at a front may be sent at a later one.
LEMMA SendableMonotone ==
  ASSUME NEW e \in Endpoints, NEW b \in Nat, NEW k \in Nat, NEW u \in Unit,
         script[FirstHand(e)] \in Seq(Types), Sendable(e, b, u)
  PROVE  Sendable(e, b + k, u)
<1>1. u.idx \in Nat BY DEF Unit
<1>2. u.idx <= b + k BY <1>1 DEF Sendable
<1>3. Past(FirstHand(e), b + 1) => Past(FirstHand(e), b + k + 1)
  BY NameFacts, PastMonotone
<1> QED BY <1>2, <1>3 DEF Sendable

\* A run without its first k units is a run that starts k places later.
LEMMA RunTail ==
  ASSUME NEW e \in Endpoints, NEW base \in Nat, NEW s \in Seq(Unit), Run(e, base, s),
         NEW k \in 0..Len(s)
  PROVE  Run(e, base + k, SubSeq(s, k + 1, Len(s)))
<1> DEFINE t == SubSeq(s, k + 1, Len(s))
<1> SUFFICES ASSUME NEW i \in 1..Len(t)
             PROVE  /\ t[i].idx = base + k + i /\ t[i].val # "0xff"
                    /\ t[i].val = "0x17" => Past(FirstHand(e), t[i].idx)
                    /\ t[i].enc = FALSE
  BY DEF Run
<1>1. k + i \in 1..Len(s) /\ t[i] = s[k + i] OBVIOUS
<1> HIDE DEF t
<1>2. s[k + i].idx = base + (k + i) BY <1>1 DEF Run
<1>3. base + (k + i) = base + k + i OBVIOUS
<1> QED BY <1>1, <1>2, <1>3 DEF Run

\* What a write of endpoint e to the tunnel changes.
LEMMA TunnelFacts ==
  ASSUME NEW e \in Endpoints, NEW l \in Links, NEW x \in Seq(Unit)
  PROVE  /\ Put(l, FirstHand(e), 2, x) \in Links
         /\ Put(l, FirstHand(e), 2, x)[FirstHand(e)][1] = l[FirstHand(e)][1]
         /\ Units(Put(l, FirstHand(e), 2, x)[FirstHand(e)][2]) =
              Units(l[FirstHand(e)][2]) \cup Units(x)
         /\ \A h \in Hops : Put(l, FirstHand(e), 2, x)[SecondHand(e)][h] = l[SecondHand(e)][h]
<1> DEFINE f == FirstHand(e)
           s == SecondHand(e)
           l2 == Put(l, f, 2, x)
<1>1. f \in Directions /\ s \in Directions /\ f # s BY NameFacts
<1> HIDE DEF f, s
<1>2. 1 \in Hops /\ 2 \in Hops /\ 1 # 2 BY HopFacts
<1>3. /\ l2 \in Links /\ l2[f][2] = l[f][2] \o x
      /\ \A c \in Directions, h \in Hops : c # f \/ h # 2 => l2[c][h] = l[c][h]
  BY <1>1, <1>2, PutFacts
<1>4. l[f][2] \in Seq(Unit) BY <1>1, <1>2 DEF Links
<1>5. Units(l[f][2] \o x) = Units(l[f][2]) \cup Units(x) BY <1>4, UnitsFacts
<1> HIDE DEF l2
<1>6. /\ l2 \in Links /\ l2[f][1] = l[f][1] /\ Units(l2[f][2]) = Units(l[f][2]) \cup Units(x)
      /\ \A h \in Hops : l2[s][h] = l[s][h]
  BY <1>1, <1>2, <1>3, <1>5
<1> QED BY <1>6 DEF l2, f, s

\* Sending x on the tunnel moves the front past the k units that leave the buffer.
LEMMA SendTunnel ==
  ASSUME IInv, NEW e \in Endpoints, NEW bufs, NEW l, NEW base, Ctx(e, bufs, l, base),
         NEW k \in 0..Len(bufs[FirstHand(e)].inner), NEW b \in Buffer,
         b.inner = SubSeq(bufs[FirstHand(e)].inner, k + 1, Len(bufs[FirstHand(e)].inner)),
         NEW x \in Seq(Unit), MaySend(e, base + k, x)
  PROVE  Ctx(e, [bufs EXCEPT ![FirstHand(e)] = b], Put(l, FirstHand(e), 2, x), base + k)
<1> DEFINE f == FirstHand(e)
           s == SecondHand(e)
           bufs2 == [bufs EXCEPT ![f] = b]
           l2 == Put(l, f, 2, x)
           t == bufs[f].inner
<1>1. f \in Directions /\ s \in Directions /\ f # s BY NameFacts
<1>2. 1 \in Hops /\ 2 \in Hops /\ 1 # 2 BY HopFacts
<1>3. /\ bufs \in Bufs /\ l \in Links /\ base \in Nat /\ t \in Seq(Unit)
      /\ l[f][2] \in Seq(Unit) /\ l[f][1] \in Seq(Unit)
  BY <1>1, <1>2, CtxFacts
<1>4. /\ bufs2 \in Bufs /\ bufs2[f] = b /\ bufs2[s] = bufs[s] BY <1>1, <1>3 DEF Bufs
<1>5. /\ l2 \in Links /\ l2[f][1] = l[f][1] /\ l2[s][1] = l[s][1] /\ l2[s][2] = l[s][2]
      /\ Units(l2[f][2]) = Units(l[f][2]) \cup Units(x)
  BY <1>2, <1>3, TunnelFacts, ZenonT(60)
<1>6. base + k \in Nat /\ base + k >= Front(e)
  <2>1. base >= Front(e) BY DEF Ctx
  <2>2. Front(e) \in Nat BY TypeFacts
  <2> QED BY <1>3, <2>1, <2>2
<1>7. base + k + Len(b.inner) = base + Len(t)
  <2>1. t \in Seq(Unit) /\ k \in 0..Len(t) /\ b.inner = SubSeq(t, k + 1, Len(t)) BY <1>3
  <2> HIDE DEF t
  <2>2. Len(b.inner) = Len(t) - k /\ Len(t) \in Nat BY <2>1
  <2> QED BY <1>3, <2>2
<1>8. Run(e, base + k, b.inner)
  <2>1. Run(e, base, t) BY DEF Ctx
  <2> QED BY <1>3, <2>1, RunTail
<1>9. \A u \in Units(l2[f][2]) : Sendable(e, base + k, u) /\ (~u.enc => Past(f, u.idx))
  <2>1. ASSUME NEW u \in Units(l[f][2])
        PROVE  Sendable(e, base + k, u) /\ (~u.enc => Past(f, u.idx))
    <3>1. Sendable(e, base, u) /\ (~u.enc => Past(f, u.idx)) BY <2>1 DEF Ctx
    <3>2. u \in Unit BY <1>3, UnitsType
    <3>3. script[f] \in Seq(Types) BY <1>1, TypeFacts
    <3>4. k \in Nat BY <1>3
    <3> QED BY <1>3, <3>1, <3>2, <3>3, <3>4, SendableMonotone
  <2> HIDE DEF l2
  <2> QED BY <1>5, <2>1 DEF MaySend
<1>10. base + Len(t) + Len(l[f][1]) = Total(e) /\ Run(e, base + Len(t), l[f][1])
       /\ l[s][1] = link[s][1] /\ Units(l[s][2]) \subseteq Units(link[s][2])
       /\ \A u \in Units(bufs[s].inner) : Sendable(Peer(e), Front(Peer(e)), u)
  BY DEF Ctx
<1> HIDE DEF f, s, bufs2, l2, t
<1>11. Ctx(e, bufs2, l2, base + k)
  BY <1>4, <1>5, <1>6, <1>7, <1>8, <1>9, <1>10 DEF Ctx, f, s
<1> QED BY <1>11 DEF bufs2, l2, f

\* What leaves on hop 3 is out of the invariant's sight.
LEMMA SendOut ==
  ASSUME NEW e \in Endpoints, NEW bufs, NEW l, NEW base, Ctx(e, bufs, l, base),
         NEW x \in Seq(Unit)
  PROVE  Ctx(e, bufs, Put(l, SecondHand(e), 3, x), base)
<1>1. FirstHand(e) \in Directions /\ SecondHand(e) \in Directions BY NameFacts
<1>2. 1 \in Hops /\ 2 \in Hops /\ 3 \in Hops /\ 1 # 3 /\ 2 # 3 BY HopFacts
<1>3. l \in Links BY CtxFacts
<1>4. /\ Put(l, SecondHand(e), 3, x) \in Links
      /\ \A d \in Directions : /\ Put(l, SecondHand(e), 3, x)[d][1] = l[d][1]
                               /\ Put(l, SecondHand(e), 3, x)[d][2] = l[d][2]
  <2> DEFINE l2 == Put(l, SecondHand(e), 3, x)
  <2>1. /\ l2 \in Links
        /\ \A c \in Directions, h \in Hops :
             c # SecondHand(e) \/ h # 3 => l2[c][h] = l[c][h]
    BY <1>1, <1>2, <1>3, PutFacts
  <2> HIDE DEF l2
  <2>2. l2 \in Links /\ \A d \in Directions : l2[d][1] = l[d][1] /\ l2[d][2] = l[d][2]
    BY <1>2, <2>1
  <2> QED BY <2>2 DEF l2
<1> QED BY <1>1, <1>4 DEF Ctx

\* Taking units out of the second-hand buffer disturbs nothing.
LEMMA ShrinkSecond ==
  ASSUME NEW e \in Endpoints, NEW bufs, NEW l, NEW base, Ctx(e, bufs, l, base),
         NEW b \in Buffer, Units(b.inner) \subseteq Units(bufs[SecondHand(e)].inner)
  PROVE  Ctx(e, [bufs EXCEPT ![SecondHand(e)] = b], l, base)
<1> DEFINE bufs2 == [bufs EXCEPT ![SecondHand(e)] = b]
<1>1. FirstHand(e) \in Directions /\ SecondHand(e) \in Directions /\ FirstHand(e) # SecondHand(e)
  BY NameFacts
<1>2. bufs \in Bufs BY CtxFacts
<1>3. bufs2 \in Bufs /\ bufs2[FirstHand(e)] = bufs[FirstHand(e)] /\ bufs2[SecondHand(e)] = b
  BY <1>1, <1>2 DEF Bufs
<1> HIDE DEF bufs2
<1>4. Ctx(e, bufs2, l, base) BY <1>3 DEF Ctx
<1> QED BY <1>4 DEF bufs2

\* pop_checked_packets drops the first units and keeps the rest in order.
LEMMA PopFacts ==
  ASSUME NEW b \in Buffer
  PROVE  /\ Cut(b) \in 0..Len(b.inner)
         /\ checked_packets(b) = SubSeq(b.inner, 1, Cut(b))
         /\ checked_packets(b) \in Seq(Unit)
         /\ pop_checked_packets(b).inner = SubSeq(b.inner, Cut(b) + 1, Len(b.inner))
         /\ pop_checked_packets(b) \in Buffer
         /\ pop_checked_packets(b).cursor = 0 \/ pop_checked_packets(b).inner = <<>>
<1>1. b.inner \in Seq(Unit) /\ b.cursor \in Nat BY DEF Buffer
<1>2. Len(b.inner) \in Nat BY <1>1
<1>3. CASE b.cursor < Len(b.inner)
  <2>1. SubSeq(b.inner, b.cursor + 1, Len(b.inner)) \in Seq(Unit) BY <1>1, <1>2
  <2>2. SubSeq(b.inner, 1, b.cursor) \in Seq(Unit) BY <1>1, <1>2, <1>3
  <2> QED BY <1>1, <1>2, <1>3, <2>1, <2>2
    DEF Cut, checked_packets, pop_checked_packets, Buffer
<1>4. CASE ~(b.cursor < Len(b.inner))
  <2>1. SubSeq(b.inner, 1, Len(b.inner)) = b.inner BY <1>1
  <2>2. SubSeq(b.inner, Len(b.inner) + 1, Len(b.inner)) = <<>> BY <1>1
  <2>3. b.cursor - Len(b.inner) \in Nat BY <1>1, <1>2, <1>4
  <2>4. <<>> \in Seq(Unit) OBVIOUS
  <2> QED BY <1>1, <1>2, <1>4, <2>1, <2>2, <2>3, <2>4
    DEF Cut, checked_packets, pop_checked_packets, Buffer
<1> QED BY <1>3, <1>4

\* Facts about empty buffers and empty sequences.
LEMMA EmptyFacts ==
  /\ EmptyBuffer \in Buffer /\ EmptyBuffer.inner = <<>> /\ EmptyBuffer.cursor = 0
  /\ Units(<<>>) = {}
  /\ \A t \in Seq(Unit) : SubSeq(t, Len(t) + 1, Len(t)) = <<>>
<1>1. EmptyBuffer.inner = <<>> /\ EmptyBuffer.cursor = 0 BY DEF EmptyBuffer
<1>2. EmptyBuffer \in Buffer
  <2>1. <<>> \in Seq(Unit) OBVIOUS
  <2> QED BY <2>1 DEF EmptyBuffer, Buffer
<1>3. Units(<<>>) = {} BY DEF Units
<1> QED BY <1>1, <1>2, <1>3

\* The first k units of the run may be sent through TLS,
LEMMA SendEncrypted ==
  ASSUME NEW e \in Endpoints, NEW base \in Nat, NEW t \in Seq(Unit), Run(e, base, t),
         NEW k \in 0..Len(t)
  PROVE  /\ Encrypted(SubSeq(t, 1, k)) \in Seq(Unit)
         /\ MaySend(e, base + k, Encrypted(SubSeq(t, 1, k)))
<1>1. SubSeq(t, 1, k) \in Seq(Unit) OBVIOUS
<1>2. SUFFICES ASSUME NEW u \in Units(Encrypted(SubSeq(t, 1, k)))
               PROVE  Sendable(e, base + k, u) /\ (~u.enc => Past(FirstHand(e), u.idx))
  BY <1>1, CryptFacts DEF MaySend
<1>3. PICK v \in Units(SubSeq(t, 1, k)) : u.val = v.val /\ u.idx = v.idx /\ u.enc = TRUE
  BY <1>1, UnitsFacts
<1>4. PICK i \in 1..k : v = t[i] BY DEF Units
<1>5. Sendable(e, base + k, v) BY <1>4, RunSendable
<1> QED BY <1>3, <1>5 DEF Sendable

\* and, once the direction is cleared, any part of them in the clear.
LEMMA SendPlain ==
  ASSUME NEW e \in Endpoints, NEW base \in Nat, NEW t \in Seq(Unit), Run(e, base, t),
         script[FirstHand(e)] \in Seq(Types), Past(FirstHand(e), base + 1),
         NEW y \in Seq(Unit), Len(y) <= Len(t), \A i \in 1..Len(y) : y[i] = t[i]
  PROVE  MaySend(e, base + Len(t), y)
<1> SUFFICES ASSUME NEW u \in Units(y)
             PROVE  Sendable(e, base + Len(t), u) /\ Past(FirstHand(e), u.idx)
  BY DEF MaySend
<1>1. PICK i \in 1..Len(y) : u = y[i] BY DEF Units
<1>2. i \in 1..Len(t) /\ u = t[i] BY <1>1
<1>3. Len(t) \in 0..Len(t) OBVIOUS
<1>4. Sendable(e, base + Len(t), t[i]) /\ t[i].idx = base + i BY <1>2, <1>3, RunSendable
<1>5. Past(FirstHand(e), base + i) BY <1>2, NameFacts, PastMonotone
<1> QED BY <1>2, <1>4, <1>5

(* The ends of a step. *)

\* What an endpoint has learnt from 0x17 records and from a 0xff.
LEMMA LearnsFrom ==
  ASSUME IInv, NEW e \in Endpoints, NEW at, NEW sn, Knows(e, at, sn),
         NEW base \in Nat, at <= base, NEW where,
         where \in {"until0xff"} \cup OutOfTls => Past(FirstHand(e), at + 1) /\ Cleared(Peer(e))
  PROVE  Learns(e, where, base)
<1>1. FirstHand(e) \in Directions /\ Peer(e) \in Endpoints /\ Peer(e) # e BY NameFacts
<1>2. seen \in [Endpoints -> SUBSET Directions] BY DEF IInv, TypeOK
<1>3. /\ seen' \in [Endpoints -> SUBSET Directions] /\ seen'[e] = sn
      /\ seen'[Peer(e)] = seen[Peer(e)]
  BY <1>1, <1>2 DEF Knows
<1>4. Past(FirstHand(e), at + 1) => Past(FirstHand(e), base + 1)
  <2>1. script[FirstHand(e)] \in Seq(Types) BY <1>1, TypeFacts
  <2>2. at \in Nat BY DEF Knows
  <2>3. at + 1 \in Int /\ base + 1 \in Int /\ at + 1 <= base + 1 BY <2>2
  <2> QED BY <1>1, <2>1, <2>3, PastMonotone
<1> QED BY <1>3, <1>4 DEF Learns, Knows

\* How the last move of a step fits the buffers it had at hand.
LEMMA EndsFrom ==
  ASSUME IInv, NEW e \in Endpoints, NEW where \in PCs, NEW nb \in Bufs, NEW l, NEW bufs,
         MoveTo(e, where, nb, l), UNCHANGED <<eof, script, sent>>,
         \/ UNCHANGED version
         \/ version' = [version EXCEPT ![e] = "Active"]
         \/ version' = [version EXCEPT ![e] = "Passive"],
         where \in Parsing => nb[FirstHand(e)].inner = bufs[FirstHand(e)].inner,
         Units(nb[SecondHand(e)].inner) \subseteq Units(bufs[SecondHand(e)].inner)
  PROVE  Ends(e, where, nb, bufs, l)
<1>1. version \in [Endpoints -> {"None", "Active", "Passive"}] BY DEF IInv, TypeOK
<1>2. version' \in [Endpoints -> {"None", "Active", "Passive"}] BY <1>1
<1>3. eof' \in [Directions -> [Hops -> BOOLEAN]] BY DEF IInv, TypeOK
<1> QED BY <1>2, <1>3 DEF Ends, MoveTo

\* The first-hand buffer, written to the tunnel and emptied.
LEMMA FlushFirst ==
  ASSUME IInv, NEW e \in Endpoints, NEW bufs, NEW l, NEW base, Ctx(e, bufs, l, base),
         NEW l2 \in WriteTls(l, FirstHand(e), 2, bufs[FirstHand(e)].inner)
  PROVE  Ctx(e, [bufs EXCEPT ![FirstHand(e)] = EmptyBuffer], l2,
             base + Len(bufs[FirstHand(e)].inner))
<1> DEFINE t == bufs[FirstHand(e)].inner
<1>1. t \in Seq(Unit) /\ base \in Nat /\ Run(e, base, t) BY NameFacts, CtxFacts DEF Ctx
<1>2. l2 = Put(l, FirstHand(e), 2, Encrypted(t)) BY DEF WriteTls
<1>3. Len(t) \in 0..Len(t) /\ SubSeq(t, 1, Len(t)) = t BY <1>1
<1> HIDE DEF t
<1>4. Encrypted(t) \in Seq(Unit) /\ MaySend(e, base + Len(t), Encrypted(t))
  BY <1>1, <1>3, SendEncrypted
<1>5. EmptyBuffer.inner = SubSeq(t, Len(t) + 1, Len(t)) BY <1>1, EmptyFacts
<1> QED BY <1>2, <1>3, <1>4, <1>5, EmptyFacts, SendTunnel DEF t

\* A write of second-hand bytes, to the user or the target.
LEMMA WriteOut ==
  ASSUME NEW e \in Endpoints, NEW bufs, NEW l, NEW base, Ctx(e, bufs, l, base),
         NEW x \in Seq(Unit),
         NEW l2 \in WriteTls(l, SecondHand(e), 3, x) \cup WriteRaw(l, SecondHand(e), 3, x)
  PROVE  Ctx(e, bufs, l2, base)
<1>1. PICK y \in Accepted(x) : l2 = Put(l, SecondHand(e), 3, y) BY DEF WriteTls, WriteRaw
<1>2. y \in Seq(Unit) BY AcceptedFacts
<1> QED BY <1>1, <1>2, SendOut

\* flush_non_tls, one direction at a time.
LEMMA FlushEither ==
  ASSUME IInv, NEW e \in Endpoints, NEW bufs, NEW l, NEW base, Ctx(e, bufs, l, base),
         NEW d \in Directions, NEW l2 \in WriteTls(l, d, DstHop(e, d), bufs[d].inner)
  PROVE  Ctx(e, [bufs EXCEPT ![d] = EmptyBuffer], l2,
             IF d = FirstHand(e) THEN base + Len(bufs[d].inner) ELSE base)
<1>1. CASE d = FirstHand(e)
  <2>1. DstHop(e, d) = 2 BY <1>1 DEF DstHop, SrcHop
  <2> QED BY <1>1, <2>1, FlushFirst
<1>2. CASE d # FirstHand(e)
  <2>1. d = SecondHand(e) /\ DstHop(e, d) = 3 BY <1>2, NameFacts DEF DstHop, SrcHop
  <2>2. bufs[d].inner \in Seq(Unit) BY CtxFacts
  <2>3. Ctx(e, bufs, l2, base) BY <2>1, <2>2, WriteOut
  <2>4. Units(EmptyBuffer.inner) \subseteq Units(bufs[d].inner) BY EmptyFacts
  <2> QED BY <1>2, <2>1, <2>3, <2>4, EmptyFacts, ShrinkSecond
<1> QED BY <1>1, <1>2

\* flush_non_tls writes both buffers through TLS.
LEMMA FlushNonTlsInv ==
  ASSUME IInv, NEW e \in Endpoints, NEW bufs, NEW l, NEW base, Ctx(e, bufs, l, base),
         NEW at, NEW sn, Knows(e, at, sn), at <= base + Len(bufs[FirstHand(e)].inner),
         UNCHANGED <<eof, script, sent>>, flush_non_tls(e, bufs, l)
  PROVE  IInv'
<1>1. PICK l2 \in WriteTls(l, "Inbound", DstHop(e, "Inbound"), bufs["Inbound"].inner) :
      \E l3 \in WriteTls(l2, "Outbound", DstHop(e, "Outbound"), bufs["Outbound"].inner) :
        MoveTo(e, "tcp", [d \in Directions |-> EmptyBuffer], l3) /\ UNCHANGED version
  BY DEF flush_non_tls
<1>2. PICK l3 \in WriteTls(l2, "Outbound", DstHop(e, "Outbound"), bufs["Outbound"].inner) :
        MoveTo(e, "tcp", [d \in Directions |-> EmptyBuffer], l3) /\ UNCHANGED version
  BY <1>1
<1> DEFINE b2 == [bufs EXCEPT !["Inbound"] = EmptyBuffer]
           b3 == [b2 EXCEPT !["Outbound"] = EmptyBuffer]
           base2 == IF "Inbound" = FirstHand(e) THEN base + Len(bufs["Inbound"].inner) ELSE base
           base3 == IF "Outbound" = FirstHand(e) THEN base2 + Len(b2["Outbound"].inner) ELSE base2
<1>3. Ctx(e, b2, l2, base2) BY FlushEither DEF Directions
<1>4. b2["Outbound"] = bufs["Outbound"]
  <2>1. bufs \in [Directions -> Buffer] BY CtxFacts DEF Bufs
  <2> QED BY <2>1 DEF Directions
<1>5. Ctx(e, b3, l3, base3)
  <2>1. l3 \in WriteTls(l2, "Outbound", DstHop(e, "Outbound"), b2["Outbound"].inner) BY <1>4
  <2> HIDE DEF b2, base2
  <2> QED BY <1>3, <2>1, FlushEither DEF Directions
<1>6. base3 = base + Len(bufs[FirstHand(e)].inner)
  BY <1>4 DEF FirstHand, Endpoints
<1> HIDE DEF b2, b3, base2, base3
<1>7. base3 \in Nat BY <1>5, CtxFacts
<1> DEFINE nb == [d \in Directions |-> EmptyBuffer]
<1>8. nb \in Bufs /\ nb[SecondHand(e)] = EmptyBuffer BY EmptyFacts, NameFacts DEF Bufs
<1> HIDE DEF nb
<1>9. Ends(e, "tcp", nb, b3, l3)
  <2>1. "tcp" \in PCs /\ "tcp" \notin Parsing BY DEF PCs, InTls, Parsing
  <2>2. MoveTo(e, "tcp", nb, l3) /\ UNCHANGED version BY <1>2 DEF nb
  <2>3. Units(nb[SecondHand(e)].inner) \subseteq Units(b3[SecondHand(e)].inner)
    BY <1>8, EmptyFacts
  <2> QED BY <1>8, <2>1, <2>2, <2>3, EndsFrom
<1>10. Learns(e, "tcp", base3)
  <2>1. "tcp" \notin {"until0xff"} \cup OutOfTls BY DEF OutOfTls
  <2> QED BY <1>6, <1>7, <2>1, LearnsFrom
<1> QED BY <1>5, <1>9, <1>10, Finish

\* relay_pending writes the checked packets through TLS.
LEMMA RelayPendingInv ==
  ASSUME IInv, NEW e \in Endpoints, NEW bufs, NEW l, NEW base, Ctx(e, bufs, l, base),
         NEW d \in Directions, NEW at, NEW sn, Knows(e, at, sn),
         at <= IF d = FirstHand(e) THEN base + Cut(bufs[d]) ELSE base,
         UNCHANGED <<eof, script, sent>>, relay_pending(e, d, bufs, l)
  PROVE  IInv'
<1> DEFINE nb == [bufs EXCEPT ![d] = pop_checked_packets(bufs[d])]
           base2 == IF d = FirstHand(e) THEN base + Cut(bufs[d]) ELSE base
           t == bufs[d].inner
           k == Cut(bufs[d])
<1>1. PICK l2 \in WriteTls(l, d, DstHop(e, d), checked_packets(bufs[d])) :
        MoveTo(e, "loop", nb, l2) /\ UNCHANGED version
  BY DEF relay_pending
<1>2. bufs[d] \in Buffer /\ t \in Seq(Unit) /\ base \in Nat BY CtxFacts
<1>3. /\ k \in 0..Len(t) /\ checked_packets(bufs[d]) = SubSeq(t, 1, k)
      /\ checked_packets(bufs[d]) \in Seq(Unit)
      /\ pop_checked_packets(bufs[d]).inner = SubSeq(t, k + 1, Len(t))
      /\ pop_checked_packets(bufs[d]) \in Buffer
  BY <1>2, PopFacts
<1> HIDE DEF t, k
<1>4. Ctx(e, nb, l2, base2)
  <2>1. CASE d = FirstHand(e)
    <3>1. DstHop(e, d) = 2 BY <2>1 DEF DstHop, SrcHop
    <3>2. l2 = Put(l, d, 2, Encrypted(SubSeq(t, 1, k))) BY <1>3, <3>1 DEF WriteTls
    <3>3. Run(e, base, t) BY <2>1 DEF Ctx, t
    <3>4. /\ Encrypted(SubSeq(t, 1, k)) \in Seq(Unit)
          /\ MaySend(e, base + k, Encrypted(SubSeq(t, 1, k)))
      BY <1>2, <1>3, <3>3, SendEncrypted
    <3>5. Ctx(e, nb, l2, base + k) BY <1>3, <2>1, <3>2, <3>4, SendTunnel DEF t
    <3> QED BY <2>1, <3>5 DEF k
  <2>2. CASE d # FirstHand(e)
    <3>1. d = SecondHand(e) /\ DstHop(e, d) = 3 BY <2>2, NameFacts DEF DstHop, SrcHop
    <3>2. Ctx(e, bufs, l2, base) BY <1>3, <3>1, WriteOut
    <3>3. Units(SubSeq(t, k + 1, Len(t))) \subseteq Units(t)
      <4>1. k + 1 \in Nat /\ k + 1 >= 1 /\ Len(t) \in Nat BY <1>2, <1>3
      <4> QED BY <1>2, <4>1, UnitsSubSeq
    <3>4. Units(pop_checked_packets(bufs[d]).inner) \subseteq Units(bufs[d].inner)
      BY <1>3, <3>3 DEF t
    <3>5. Ctx(e, nb, l2, base) BY <1>3, <3>1, <3>2, <3>4, ShrinkSecond
    <3> QED BY <2>2, <3>5
  <2> QED BY <2>1, <2>2
<1>5. base2 \in Nat /\ nb \in Bufs BY <1>4, CtxFacts
<1>6. Ends(e, "loop", nb, nb, l2)
  <2>1. "loop" \in PCs BY DEF PCs, InTls
  <2> HIDE DEF nb
  <2> QED BY <1>1, <1>5, <2>1, EndsFrom
<1>7. Learns(e, "loop", base2)
  <2>1. "loop" \notin {"until0xff"} \cup OutOfTls BY DEF OutOfTls
  <2> QED BY <1>5, <2>1, LearnsFrom
<1> HIDE DEF nb, base2
<1> QED BY <1>4, <1>6, <1>7, Finish

\* flush_tls of the active side writes its cached 0x17 in the clear.
LEMMA FlushTlsActiveInv ==
  ASSUME IInv, NEW e \in Endpoints, NEW bufs, NEW l, NEW base, Ctx(e, bufs, l, base),
         NEW at, NEW sn, Knows(e, at, sn), at <= base,
         Past(FirstHand(e), at + 1), Cleared(Peer(e)),
         UNCHANGED <<eof, script, sent>>, flush_tls_active(e, bufs, l)
  PROVE  IInv'
<1> DEFINE f == FirstHand(e)
           t == bufs[f].inner
           nb == [bufs EXCEPT ![f] = EmptyBuffer]
<1>1. PICK l2 \in WriteRaw(l, f, 2, t) :
        MoveTo(e, "lite", nb, l2) /\ version' = [version EXCEPT ![e] = "Active"]
  BY DEF flush_tls_active
<1>2. PICK y \in Accepted(t) : l2 = Put(l, f, 2, y) BY DEF WriteRaw
<1>3. t \in Seq(Unit) /\ base \in Nat /\ Run(e, base, t) BY NameFacts, CtxFacts DEF Ctx
<1>4. y \in Seq(Unit) /\ Len(y) <= Len(t) /\ \A i \in 1..Len(y) : y[i] = t[i]
  BY <1>3, AcceptedFacts
<1>5. script[f] \in Seq(Types) /\ Past(f, base + 1)
  <2>1. script[f] \in Seq(Types) /\ f \in Directions BY NameFacts, TypeFacts
  <2>2. at \in Nat BY DEF Knows
  <2>3. at + 1 \in Int /\ base + 1 \in Int /\ at + 1 <= base + 1 BY <1>3, <2>2
  <2> QED BY <2>1, <2>3, PastMonotone
<1>6. MaySend(e, base + Len(t), y)
  <2> HIDE DEF t
  <2> QED BY <1>3, <1>4, <1>5, SendPlain
<1>7. Len(t) \in 0..Len(t) /\ EmptyBuffer.inner = SubSeq(t, Len(t) + 1, Len(t))
  <2> HIDE DEF t
  <2> QED BY <1>3, EmptyFacts
<1>8. Ctx(e, nb, l2, base + Len(t))
  BY <1>2, <1>4, <1>6, <1>7, EmptyFacts, SendTunnel
<1>9. base + Len(t) \in Nat /\ nb \in Bufs /\ at <= base + Len(t)
  <2>1. nb \in Bufs BY <1>8, CtxFacts
  <2>2. at \in Nat /\ Len(t) \in Nat BY <1>3 DEF Knows
  <2> HIDE DEF t, nb
  <2> QED BY <1>3, <2>1, <2>2
<1>10. Ends(e, "lite", nb, nb, l2)
  <2>1. "lite" \in PCs BY DEF PCs, OutOfTls
  <2> HIDE DEF nb
  <2> QED BY <1>1, <1>9, <2>1, EndsFrom
<1>11. Learns(e, "lite", base + Len(t)) BY <1>9, LearnsFrom
<1> HIDE DEF nb, t
<1> QED BY <1>8, <1>10, <1>11, Finish

\* Positions of the parser are natural numbers.
LEMMA WalkFacts ==
  ASSUME NEW b \in Buffer, NEW p \in Walk(b)
  PROVE  p \in Nat /\ p >= b.cursor /\ [inner |-> b.inner, cursor |-> p] \in Buffer
<1>1. b.inner \in Seq(Unit) /\ b.cursor \in Nat BY DEF Buffer
<1>2. PICK k \in 0..Len(b.inner) : p = b.cursor + k * RecLen BY DEF Walk
<1>3. k \in Nat BY <1>1
<1>4. k * RecLen \in Nat BY <1>3, LengthAssumption
<1>5. p \in Nat /\ p >= b.cursor BY <1>1, <1>2, <1>4
<1> QED BY <1>1, <1>5 DEF Buffer

\* tls12_relay_until_0xff writes second-hand bytes, then flush_tls first-hand ones.
LEMMA RelayUntilInv ==
  ASSUME IInv, NEW e \in Endpoints, NEW bufs, NEW l, NEW base, Ctx(e, bufs, l, base),
         NEW at, NEW sn, Knows(e, at, sn), at <= base,
         Past(FirstHand(e), at + 1), Cleared(Peer(e)),
         UNCHANGED <<eof, script, sent>>, tls12_relay_until_0xff(e, bufs, l)
  PROVE  IInv'
<1> DEFINE s == SecondHand(e)
           here(p) == [inner |-> bufs[s].inner, cursor |-> p]
           rest(p) == pop_checked_packets(here(p))
           emptied == [bufs EXCEPT ![s] = EmptyBuffer]
           popped(p) == [bufs EXCEPT ![s] = rest(p)]
<1>1. PICK p \in Stops(bufs[s]) : \E l2 \in WriteRaw(l, s, 3, checked_packets(here(p))) :
        \/ flush_tls_active(e, emptied, l2)
        \/ MoveTo(e, "until0xff", popped(p), l2) /\ UNCHANGED version
  BY DEF tls12_relay_until_0xff
<1>2. PICK l2 \in WriteRaw(l, s, 3, checked_packets(here(p))) :
        \/ flush_tls_active(e, emptied, l2)
        \/ MoveTo(e, "until0xff", popped(p), l2) /\ UNCHANGED version
  BY <1>1
<1>3. s \in Directions /\ bufs[s] \in Buffer /\ bufs[s].inner \in Seq(Unit) /\ base \in Nat
  BY NameFacts, CtxFacts
<1>4. p \in Walk(bufs[s]) BY DEF Stops
<1>5. here(p) \in Buffer BY <1>3, <1>4, WalkFacts
<1>6. checked_packets(here(p)) \in Seq(Unit) /\ rest(p) \in Buffer
      /\ Units(rest(p).inner) \subseteq Units(bufs[s].inner)
  <2> DEFINE b == here(p)
  <2>1. b.inner = bufs[s].inner OBVIOUS
  <2> HIDE DEF b
  <2>2. /\ Cut(b) \in 0..Len(b.inner) /\ checked_packets(b) \in Seq(Unit)
        /\ pop_checked_packets(b).inner = SubSeq(b.inner, Cut(b) + 1, Len(b.inner))
        /\ pop_checked_packets(b) \in Buffer
    BY <1>5, PopFacts DEF b
  <2>3. Cut(b) + 1 \in Nat /\ Cut(b) + 1 >= 1 /\ Len(b.inner) \in Nat BY <1>3, <2>1, <2>2
  <2>4. Units(SubSeq(b.inner, Cut(b) + 1, Len(b.inner))) \subseteq Units(b.inner)
    BY <1>3, <2>1, <2>3, UnitsSubSeq
  <2>5. Units(pop_checked_packets(b).inner) \subseteq Units(bufs[s].inner)
    BY <2>1, <2>2, <2>4
  <2> QED BY <2>2, <2>5 DEF b
<1> HIDE DEF here
<1>7. Ctx(e, bufs, l2, base) BY <1>6, WriteOut
<1>8. CASE flush_tls_active(e, emptied, l2)
  <2>1. Units(EmptyBuffer.inner) \subseteq Units(bufs[s].inner) BY EmptyFacts
  <2>2. Ctx(e, emptied, l2, base) BY <1>7, <2>1, EmptyFacts, ShrinkSecond
  <2> HIDE DEF emptied
  <2> QED BY <1>8, <2>2, FlushTlsActiveInv
<1>9. CASE MoveTo(e, "until0xff", popped(p), l2) /\ UNCHANGED version
  <2>1. Ctx(e, popped(p), l2, base) BY <1>6, <1>7, ShrinkSecond
  <2>2. popped(p) \in Bufs BY <2>1, CtxFacts
  <2>3. "until0xff" \in PCs BY DEF PCs, InTls
  <2> HIDE DEF popped
  <2>4. Ends(e, "until0xff", popped(p), popped(p), l2) BY <1>9, <2>2, <2>3, EndsFrom
  <2>5. Learns(e, "until0xff", base) BY <1>3, LearnsFrom
  <2> QED BY <2>1, <2>4, <2>5, Finish
<1> QED BY <1>2, <1>8, <1>9

\* Both directions are cleared at the point where the active side sends its 0xff.
LEMMA ActiveInv ==
  ASSUME IInv, NEW e \in Endpoints, NEW bufs, NEW l, NEW base, Ctx(e, bufs, l, base),
         NEW at, NEW sn, Knows(e, at, sn), at <= base + Cut(bufs[FirstHand(e)]),
         Past(FirstHand(e), at + 1), Cleared(Peer(e)),
         UNCHANGED <<eof, script, sent>>, handshake_tls12_active(e, bufs, l)
  PROVE  IInv'
<1> DEFINE f == FirstHand(e)
           t == bufs[f].inner
           k == Cut(bufs[f])
           nb == [bufs EXCEPT ![f] = pop_checked_packets(bufs[f])]
           tmp == SubSeq(t, 1, k) \o LEAVE_TLS_COMMAND
           l2 == Put(l, f, 2, Encrypted(tmp))
<1>1. f \in Directions /\ bufs[f] \in Buffer /\ t \in Seq(Unit) /\ base \in Nat /\ Run(e, base, t)
  BY NameFacts, CtxFacts DEF Ctx
<1>2. /\ k \in 0..Len(t) /\ checked_packets(bufs[f]) = SubSeq(t, 1, k)
      /\ pop_checked_packets(bufs[f]).inner = SubSeq(t, k + 1, Len(t))
      /\ pop_checked_packets(bufs[f]) \in Buffer
  BY <1>1, PopFacts
<1>3. tls12_relay_until_0xff(e, nb, l2) BY <1>2 DEF handshake_tls12_active
<1> HIDE DEF k
<1>4. base + k \in Nat /\ Past(f, base + k + 1)
  <2>1. script[f] \in Seq(Types) BY <1>1, TypeFacts
  <2>2. at \in Nat /\ at <= base + k BY DEF Knows, k
  <2>3. k \in Nat BY <1>1, <1>2
  <2>4. at + 1 \in Int /\ base + k + 1 \in Int /\ at + 1 <= base + k + 1 BY <1>1, <2>2, <2>3
  <2> QED BY <1>1, <2>1, <2>3, <2>4, PastMonotone
<1>5. SubSeq(t, 1, k) \in Seq(Unit) /\ tmp \in Seq(Unit)
  <2>1. SubSeq(t, 1, k) \in Seq(Unit) BY <1>1, <1>2
  <2> QED BY <2>1, LeaveFacts, ConcatFacts
<1>6. Encrypted(tmp) \in Seq(Unit) BY <1>5, CryptFacts
<1>7. MaySend(e, base + k, Encrypted(tmp))
  <2> SUFFICES ASSUME NEW u \in Units(Encrypted(tmp))
               PROVE  Sendable(e, base + k, u) /\ u.enc = TRUE
    BY DEF MaySend
  <2>1. PICK v \in Units(tmp) : u.val = v.val /\ u.idx = v.idx /\ u.enc = TRUE
    BY <1>5, UnitsFacts
  <2>2. v \in Units(SubSeq(t, 1, k)) \cup Units(LEAVE_TLS_COMMAND)
    <3>1. LEAVE_TLS_COMMAND \in Seq(Unit) BY LeaveFacts
    <3>2. Units(tmp) = Units(SubSeq(t, 1, k)) \cup Units(LEAVE_TLS_COMMAND) BY <1>5, <3>1, UnitsFacts
    <3> QED BY <3>2
  <2>3. Sendable(e, base + k, v)
    <3>1. CASE v \in Units(SubSeq(t, 1, k))
      <4>1. PICK i \in 1..k : v = t[i] BY <1>1, <1>2, <3>1 DEF Units
      <4> QED BY <1>1, <1>2, <4>1, RunSendable
    <3>2. CASE v \in Units(LEAVE_TLS_COMMAND)
      <4>1. v.idx = 0 /\ v.val # "0x17" BY <3>2, LeaveFacts DEF Units
      <4> QED BY <1>4, <4>1 DEF Sendable
    <3> QED BY <2>2, <3>1, <3>2
  <2> QED BY <2>1, <2>3 DEF Sendable
<1>8. Ctx(e, nb, l2, base + k) BY <1>2, <1>6, <1>7, SendTunnel
<1> HIDE DEF nb, l2
<1> QED BY <1>3, <1>4, <1>8, RelayUntilInv DEF k

\* The passive side answers the 0xff of a peer that knew both directions cleared.
LEMMA PassiveInv ==
  ASSUME IInv, NEW e \in Endpoints, NEW bufs, NEW l, NEW base, Ctx(e, bufs, l, base),
         NEW at, NEW sn, Knows(e, at, sn), at <= base,
         Past(FirstHand(e), at + 1), Cleared(Peer(e)),
         UNCHANGED <<eof, script, sent>>, handshake_tls12_passive(e, bufs, l)
  PROVE  IInv'
<1> DEFINE f == FirstHand(e)
           s == SecondHand(e)
           t == bufs[f].inner
           b == drop_0xff(bufs[s])
           nb == [bufs EXCEPT ![s] = b]
           l2 == Put(l, f, 2, Encrypted(LEAVE_TLS_COMMAND))
           where == IF b.inner # <<>> THEN "pending" ELSE "lite"
<1>1. /\ f \in Directions /\ s \in Directions /\ base \in Nat /\ t \in Seq(Unit)
      /\ bufs[s].inner \in Seq(Unit) /\ bufs[s].cursor \in Nat
      /\ bufs \in Bufs /\ bufs[f] \in Buffer /\ at \in Nat
  BY NameFacts, CtxFacts DEF Knows
<1>2. CASE ~drop_0xff_ok(bufs[s])
  <2>1. flush_non_tls(e, bufs, l) BY <1>2 DEF handshake_tls12_passive
  <2>2. at <= base + Len(t)
    <3>1. Len(t) \in Nat BY <1>1
    <3> HIDE DEF t
    <3> QED BY <1>1, <3>1
  <2> QED BY <2>1, <2>2, FlushNonTlsInv
<1>3. CASE drop_0xff_ok(bufs[s])
  <2>1. MoveTo(e, where, nb, l2) /\ version' = [version EXCEPT ![e] = "Passive"]
    BY <1>3 DEF handshake_tls12_passive
  <2>2. b \in Buffer /\ Units(b.inner) \subseteq Units(bufs[s].inner)
    <3>1. bufs[s].cursor <= Len(bufs[s].inner) /\ 1 \in Nat /\ 1 >= 1
      BY <1>1, <1>3 DEF drop_0xff_ok
    <3>2. b.inner = SubSeq(bufs[s].inner, 1, bufs[s].cursor) /\ b.cursor = bufs[s].cursor
      BY DEF drop_0xff
    <3>3. Units(SubSeq(bufs[s].inner, 1, bufs[s].cursor)) \subseteq Units(bufs[s].inner)
      BY <1>1, <3>1, UnitsSubSeq
    <3>4. SubSeq(bufs[s].inner, 1, bufs[s].cursor) \in Seq(Unit)
      BY <1>1, <3>1, SubSeqFacts
    <3>5. b \in Buffer BY <1>1, <3>4 DEF drop_0xff, Buffer
    <3> HIDE DEF b
    <3> QED BY <3>2, <3>3, <3>5
  <2> HIDE DEF b
  <2>3. script[f] \in Seq(Types) /\ Past(f, base + 1)
    <3>1. script[f] \in Seq(Types) BY <1>1, TypeFacts
    <3>2. at + 1 \in Int /\ base + 1 \in Int /\ at + 1 <= base + 1 BY <1>1
    <3> QED BY <1>1, <3>1, <3>2, PastMonotone
  <2>4. Encrypted(LEAVE_TLS_COMMAND) \in Seq(Unit) BY LeaveFacts, CryptFacts
  <2>5. MaySend(e, base, Encrypted(LEAVE_TLS_COMMAND))
    <3> SUFFICES ASSUME NEW u \in Units(Encrypted(LEAVE_TLS_COMMAND))
                 PROVE  Sendable(e, base, u) /\ u.enc = TRUE
      BY DEF MaySend
    <3>1. PICK v \in Units(LEAVE_TLS_COMMAND) : u.val = v.val /\ u.idx = v.idx /\ u.enc = TRUE
      BY LeaveFacts, UnitsFacts
    <3>2. v.idx = 0 /\ v.val # "0x17" BY LeaveFacts DEF Units
    <3>3. u.idx <= base BY <1>1, <3>1, <3>2
    <3> QED BY <2>3, <3>1, <3>2, <3>3 DEF Sendable
  <2>6. Ctx(e, bufs, l2, base)
    <3>1. 0 \in 0..Len(t) /\ t = SubSeq(t, 0 + 1, Len(t))
      <4> HIDE DEF t
      <4> QED BY <1>1
    <3>2. base + 0 = base BY <1>1
    <3>3. [bufs EXCEPT ![f] = bufs[f]] = bufs BY <1>1 DEF Bufs
    <3>4. Ctx(e, [bufs EXCEPT ![f] = bufs[f]], l2, base + 0)
      BY <1>1, <2>4, <2>5, <3>1, <3>2, SendTunnel
    <3> QED BY <3>2, <3>3, <3>4
  <2> HIDE DEF l2
  <2>7. Ctx(e, nb, l2, base) BY <2>2, <2>6, ShrinkSecond
  <2>8. nb \in Bufs BY <2>7, CtxFacts
  <2>9. where \in PCs /\ where \notin Parsing BY DEF PCs, OutOfTls, Parsing
  <2> HIDE DEF nb, where
  <2>10. Ends(e, where, nb, nb, l2) BY <2>1, <2>8, <2>9, EndsFrom
  <2>11. Learns(e, where, base) BY <1>1, LearnsFrom
  <2> QED BY <2>7, <2>10, <2>11, Finish
<1> QED BY <1>2, <1>3

(* The start of a step: a read. *)

\* A read takes units from the front of its source and from nowhere else.
LEMMA DrainedFacts ==
  ASSUME NEW e \in Endpoints, NEW d \in Directions, link \in Links, NEW m \in 0..Len(Source(e, d))
  PROVE  /\ Drained(e, d, m) \in Links
         /\ Drained(e, d, m)[d][SrcHop(e, d)] = SubSeq(Source(e, d), m + 1, Len(Source(e, d)))
         /\ \A c \in Directions, h \in Hops :
              c # d \/ h # SrcHop(e, d) => Drained(e, d, m)[c][h] = link[c][h]
<1> DEFINE hop == SrcHop(e, d)
           q == Source(e, d)
           x == SubSeq(q, m + 1, Len(q))
           row == [link[d] EXCEPT ![hop] = x]
<1>1. hop \in Hops BY HopFacts, NameFacts
<1>2. link[d] \in [Hops -> Seq(Unit)] BY DEF Links
<1>3. q \in Seq(Unit) BY <1>1, <1>2 DEF Source
<1>4. x \in Seq(Unit)
  <2> HIDE DEF q
  <2> QED BY <1>3
<1>5. Drained(e, d, m) = [link EXCEPT ![d] = row] BY DEF Drained
<1> HIDE DEF hop, q, x
<1>6. row \in [Hops -> Seq(Unit)] /\ row[hop] = x /\ \A h \in Hops \ {hop} : row[h] = link[d][h]
  BY <1>1, <1>2, <1>4
<1> HIDE DEF row
<1>7. /\ Drained(e, d, m) \in Links /\ Drained(e, d, m)[d][hop] = x
      /\ \A c \in Directions, h \in Hops : c # d \/ h # hop => Drained(e, d, m)[c][h] = link[c][h]
  BY <1>5, <1>6 DEF Links
<1> QED BY <1>7 DEF hop, q, x

\* Two runs that meet are one run.
LEMMA RunConcat ==
  ASSUME NEW e \in Endpoints, NEW base \in Nat, NEW s \in Seq(Unit), NEW t \in Seq(Unit),
         Run(e, base, s), Run(e, base + Len(s), t)
  PROVE  Run(e, base, s \o t)
<1> DEFINE w == s \o t
<1> SUFFICES ASSUME NEW i \in 1..Len(w)
             PROVE  /\ w[i].idx = base + i /\ w[i].val # "0xff"
                    /\ w[i].val = "0x17" => Past(FirstHand(e), w[i].idx)
                    /\ w[i].enc = FALSE
  BY DEF Run
<1>1. \/ i \in 1..Len(s) /\ w[i] = s[i]
      \/ i - Len(s) \in 1..Len(t) /\ w[i] = t[i - Len(s)]
  BY ConcatFacts
<1>2. i \in Nat /\ Len(s) \in Nat BY ConcatFacts
<1> HIDE DEF w
<1>3. CASE i \in 1..Len(s) /\ w[i] = s[i] BY <1>3 DEF Run
<1>4. CASE i - Len(s) \in 1..Len(t) /\ w[i] = t[i - Len(s)]
  <2>1. t[i - Len(s)].idx = base + Len(s) + (i - Len(s)) BY <1>4 DEF Run
  <2>2. base + Len(s) + (i - Len(s)) = base + i BY <1>2
  <2> QED BY <1>4, <2>1, <2>2 DEF Run
<1> QED BY <1>1, <1>3, <1>4

\* The parts of Ctx that the invariant gives before anything is read.
LEMMA IInvFacts ==
  ASSUME IInv, NEW e \in Endpoints
  PROVE  /\ \A u \in Units(link[FirstHand(e)][2]) :
              Sendable(e, Front(e), u) /\ (~u.enc => Past(FirstHand(e), u.idx))
         /\ \A u \in Units(buf[e][SecondHand(e)].inner) : Sendable(Peer(e), Front(Peer(e)), u)
         /\ \A u \in Units(link[SecondHand(e)][2]) : Sendable(Peer(e), Front(Peer(e)), u)
         /\ Run(e, Front(e), Held(e))
         /\ Run(e, Front(e) + Len(Held(e)), link[FirstHand(e)][1])
<1>1. /\ Peer(e) \in Endpoints /\ Peer(Peer(e)) = e /\ FirstHand(Peer(e)) = SecondHand(e)
      /\ FirstHand(e) \in Directions
  BY NameFacts DEF Peer, Endpoints
<1>2. \A u \in Units(link[FirstHand(e)][2]) : ~u.enc => Past(FirstHand(e), u.idx)
  BY <1>1 DEF IInv, NoHandshakeInClear, Units
<1> QED BY <1>1, <1>2 DEF IInv, Passed, Queued

\* A read of first-hand bytes moves them from hop 1 into the buffer.
LEMMA ReadFirst ==
  ASSUME IInv, NEW e \in Endpoints, NEW d \in Directions, d = FirstHand(e),
         NEW n \in ReadSizes(e, d), NEW k \in Swallowed(e, d, n),
         NEW bufs, Filling(e, d, n, bufs)
  PROVE  Ctx(e, bufs, Drained(e, d, n + k), Front(e))
<1> DEFINE s == SecondHand(e)
           q == link[d][1]
           h == Held(e)
           t == Taken(e, d, n)
           l == Drained(e, d, n)
<1>1. SrcHop(e, d) = 1 /\ s \in Directions /\ s # d BY NameFacts DEF SrcHop
<1>2. Source(e, d) = q BY <1>1 DEF Source
<1>3. /\ q \in Seq(Unit) /\ h \in Seq(Unit) /\ Front(e) \in Nat /\ Total(e) \in Nat
      /\ link \in Links /\ buf[e][s].inner \in Seq(Unit)
      /\ Front(e) + Len(h) + Len(q) = Total(e)
  BY <1>1, HopFacts, TypeFacts
<1>4. n \in 1..Len(q) BY <1>2 DEF ReadSizes
<1>5. k = 0
  <2>1. k \in 0..(RecLen - 1) /\ ~(k > 0) BY <1>1 DEF Swallowed
  <2> QED BY <2>1, LengthAssumption
<1>6. n + k = n BY <1>3, <1>4, <1>5
<1>7. Run(e, Front(e), h) /\ Run(e, Front(e) + Len(h), q) BY IInvFacts
<1> HIDE DEF q, h
<1>8. SubSeq(q, 1, n) \in Seq(Unit) /\ Len(SubSeq(q, 1, n)) = n
      /\ \A i \in 1..n : SubSeq(q, 1, n)[i] = q[i] /\ q[i].enc = FALSE
  <2>1. \A i \in 1..n : q[i].enc = FALSE BY <1>3, <1>4, <1>7 DEF Run
  <2> QED BY <1>3, <1>4, <2>1
<1>9. t = AsCipher(SubSeq(q, 1, n)) BY <1>1, <1>2 DEF Taken
<1>10. t \in Seq(Unit) /\ Len(t) = n /\ \A i \in 1..n : t[i] = q[i]
  <2>1. t \in Seq(Unit) /\ Len(t) = n BY <1>8, <1>9, CryptFacts
  <2>2. ASSUME NEW i \in 1..n PROVE t[i] = q[i]
    <3>1. i \in 1..Len(SubSeq(q, 1, n)) BY <1>8
    <3>2. AsCipher(SubSeq(q, 1, n))[i] = IF SubSeq(q, 1, n)[i].enc
            THEN [val |-> "cipher", idx |-> 0, enc |-> FALSE] ELSE SubSeq(q, 1, n)[i]
      BY <1>8, <3>1, CryptFacts
    <3> QED BY <1>8, <1>9, <3>2
  <2> QED BY <2>1, <2>2
<1> HIDE DEF t
<1>11. Run(e, Front(e) + Len(h), t)
  <2>1. \A i \in 1..n : i \in 1..Len(q) BY <1>3, <1>4
  <2> QED BY <1>7, <1>10, <2>1 DEF Run
<1>12. Run(e, Front(e), h \o t) BY <1>3, <1>7, <1>10, <1>11, RunConcat
<1>13. bufs[d].inner = h \o t /\ Len(bufs[d].inner) = Len(h) + n
  <2>1. bufs[d].inner = h \o t BY DEF Filling, h, t
  <2>2. Len(h \o t) = Len(h) + Len(t) BY <1>3, <1>10, ConcatFacts
  <2> QED BY <1>10, <2>1, <2>2
<1>14. /\ l \in Links /\ l[d][1] = SubSeq(q, n + 1, Len(q))
       /\ \A c \in Directions, i \in Hops : c # d \/ i # 1 => l[c][i] = link[c][i]
  <2>1. n \in 0..Len(Source(e, d)) BY <1>2, <1>4
  <2> QED BY <1>1, <1>2, <1>3, <2>1, DrainedFacts, SMTT(30)
<1> HIDE DEF l
<1>15. l[d][2] = link[d][2] /\ l[s][1] = link[s][1] /\ l[s][2] = link[s][2]
  BY <1>1, <1>14, HopFacts
<1>16. Len(l[d][1]) = Len(q) - n /\ Len(q) \in Nat /\ Len(h) \in Nat /\ n \in Nat
  BY <1>3, <1>4, <1>14
<1>17. /\ Front(e) + Len(bufs[d].inner) + Len(l[d][1]) = Total(e)
       /\ Front(e) + Len(h) + n = Front(e) + Len(bufs[d].inner)
  BY <1>3, <1>13, <1>16
<1>18. Run(e, Front(e) + Len(bufs[d].inner), l[d][1])
  <2>1. Front(e) + Len(h) \in Nat /\ n \in 0..Len(q) BY <1>3, <1>4, <1>16
  <2>2. Run(e, Front(e) + Len(h) + n, SubSeq(q, n + 1, Len(q))) BY <1>3, <1>7, <2>1, RunTail
  <2> QED BY <1>14, <1>17, <2>2
<1>19. bufs \in Bufs /\ bufs[s].inner = buf[e][s].inner BY DEF Filling
<1>20. /\ \A u \in Units(link[d][2]) : Sendable(e, Front(e), u) /\ (~u.enc => Past(d, u.idx))
       /\ \A u \in Units(buf[e][s].inner) : Sendable(Peer(e), Front(Peer(e)), u)
  BY IInvFacts
<1>21. Front(e) >= Front(e) BY <1>3
<1>22. Ctx(e, bufs, l, Front(e))
  <2> HIDE DEF s
  <2> QED BY <1>3, <1>12, <1>13, <1>14, <1>15, <1>17, <1>18, <1>19, <1>20, <1>21 DEF Ctx, s
<1> QED BY <1>6, <1>22 DEF l

\* A read of second-hand bytes moves them from the tunnel into the buffer.
LEMMA ReadSecond ==
  ASSUME IInv, NEW e \in Endpoints, NEW d \in Directions, d # FirstHand(e),
         NEW n \in ReadSizes(e, d), NEW k \in Swallowed(e, d, n),
         NEW bufs, Filling(e, d, n, bufs)
  PROVE  Ctx(e, bufs, Drained(e, d, n + k), Front(e))
<1> DEFINE f == FirstHand(e)
           p == Peer(e)
           q == link[d][2]
           h == Held(e)
           t == Taken(e, d, n)
           l == Drained(e, d, n + k)
<1>1. /\ SrcHop(e, d) = 2 /\ f \in Directions /\ d = SecondHand(e) /\ p \in Endpoints
      /\ 1 \in Hops /\ 2 \in Hops /\ 1 # 2
  BY NameFacts, HopFacts DEF SrcHop
<1>2. Source(e, d) = q BY <1>1 DEF Source
<1>3. /\ q \in Seq(Unit) /\ h \in Seq(Unit) /\ Front(e) \in Nat /\ link \in Links
      /\ buf[e][d].inner \in Seq(Unit) /\ Front(e) + Len(h) + Len(link[f][1]) = Total(e)
      /\ Front(p) \in Nat
  BY <1>1, TypeFacts
<1>4. n \in 1..Len(q) /\ n + k \in 0..Len(q)
  <2>1. n \in 1..Len(q) BY <1>2 DEF ReadSizes
  <2>2. k \in 0..(RecLen - 1) /\ n + k <= Len(q) BY <1>2 DEF Swallowed
  <2> QED BY <2>1, <2>2, LengthAssumption
<1> HIDE DEF q
<1>5. /\ l \in Links /\ l[d][2] = SubSeq(q, n + k + 1, Len(q))
      /\ \A c \in Directions, i \in Hops : c # d \/ i # 2 => l[c][i] = link[c][i]
  <2> DEFINE m == n + k
  <2>1. m \in 0..Len(Source(e, d)) BY <1>2, <1>4
  <2> HIDE DEF m
  <2>2. /\ Drained(e, d, m) \in Links
        /\ Drained(e, d, m)[d][2] = SubSeq(q, m + 1, Len(q))
        /\ \A c \in Directions, i \in Hops : c # d \/ i # 2 => Drained(e, d, m)[c][i] = link[c][i]
    BY <1>1, <1>2, <1>3, <2>1, DrainedFacts, SMTT(30)
  <2> QED BY <2>2 DEF m
<1> HIDE DEF l
<1>6. Units(l[d][2]) \subseteq Units(q)
  <2>1. n + k + 1 \in Nat /\ n + k + 1 >= 1 /\ Len(q) \in Nat /\ Len(q) <= Len(q) BY <1>3, <1>4
  <2>2. Units(SubSeq(q, n + k + 1, Len(q))) \subseteq Units(q) BY <1>3, <2>1, UnitsSubSeq
  <2> QED BY <1>5, <2>2
<1>7. SubSeq(q, 1, n) \in Seq(Unit) /\ Units(SubSeq(q, 1, n)) \subseteq Units(q)
  <2>1. 1 \in Nat /\ 1 >= 1 /\ n \in Nat /\ n <= Len(q) BY <1>3, <1>4
  <2> QED BY <1>3, <2>1, SubSeqFacts, UnitsSubSeq
<1>8. \A u \in Units(q) : Sendable(p, Front(p), u) BY <1>1, IInvFacts DEF q
<1>9. t \in Seq(Unit) /\ \A u \in Units(t) : Sendable(p, Front(p), u)
  <2>1. CASE t = Decrypted(SubSeq(q, 1, n))
    <3>1. t \in Seq(Unit) BY <1>7, <2>1, CryptFacts
    <3>2. ASSUME NEW u \in Units(t) PROVE Sendable(p, Front(p), u)
      <4>1. PICK v \in Units(SubSeq(q, 1, n)) : u.val = v.val /\ u.idx = v.idx
        BY <1>7, <2>1, <3>2, UnitsFacts
      <4>2. Sendable(p, Front(p), v) BY <1>7, <1>8
      <4> QED BY <4>1, <4>2 DEF Sendable
    <3> QED BY <3>1, <3>2
  <2>2. CASE t = AsCipher(SubSeq(q, 1, n))
    <3>1. t \in Seq(Unit) BY <1>7, <2>2, CryptFacts
    <3>2. ASSUME NEW u \in Units(t) PROVE Sendable(p, Front(p), u)
      <4>1. u \in Units(SubSeq(q, 1, n)) \/ (u.val = "cipher" /\ u.idx = 0)
        BY <1>7, <2>2, <3>2, UnitsFacts
      <4>2. CASE u \in Units(SubSeq(q, 1, n)) BY <1>7, <1>8, <4>2
      <4>3. CASE u.val = "cipher" /\ u.idx = 0 BY <1>3, <4>3 DEF Sendable
      <4> QED BY <4>1, <4>2, <4>3
    <3> QED BY <3>1, <3>2
  <2>3. t = Decrypted(SubSeq(q, 1, n)) \/ t = AsCipher(SubSeq(q, 1, n))
    BY <1>2 DEF Taken
  <2> QED BY <2>1, <2>2, <2>3
<1> HIDE DEF t, h
<1>10. /\ bufs \in Bufs /\ bufs[f].inner = h /\ bufs[d].inner = buf[e][d].inner \o t
  BY <1>1 DEF Filling, h, t
<1>11. \A u \in Units(bufs[d].inner) : Sendable(p, Front(p), u)
  <2>1. Units(bufs[d].inner) = Units(buf[e][d].inner) \cup Units(t)
    BY <1>3, <1>9, <1>10, UnitsFacts, ZenonT(60)
  <2>2. \A u \in Units(buf[e][d].inner) : Sendable(p, Front(p), u) BY <1>1, IInvFacts
  <2> QED BY <1>9, <2>1, <2>2
<1>12. /\ \A u \in Units(link[f][2]) : Sendable(e, Front(e), u) /\ (~u.enc => Past(f, u.idx))
       /\ Run(e, Front(e), h) /\ Run(e, Front(e) + Len(h), link[f][1])
  BY IInvFacts DEF h
<1>13. l[f][1] = link[f][1] /\ l[f][2] = link[f][2] /\ l[d][1] = link[d][1]
  BY <1>1, <1>5
<1>14. Front(e) >= Front(e) BY <1>3
<1>15. Ctx(e, bufs, l, Front(e))
  <2> HIDE DEF f, p
  <2>1. SecondHand(e) = d /\ FirstHand(e) = f /\ Peer(e) = p BY <1>1 DEF f, p
  <2>2. Units(l[d][2]) \subseteq Units(link[d][2]) BY <1>6 DEF q
  <2> QED BY <1>3, <1>5, <1>10, <1>11, <1>12, <1>13, <1>14, <2>1, <2>2 DEF Ctx
<1> QED BY <1>15 DEF l

\* Any read ends in a state from which the rest of the step starts.
LEMMA ReadCtx ==
  ASSUME IInv, NEW e \in Endpoints, NEW d \in Directions, NEW n \in ReadSizes(e, d),
         NEW k \in Swallowed(e, d, n), NEW bufs, Filling(e, d, n, bufs)
  PROVE  Ctx(e, bufs, Drained(e, d, n + k), Front(e))
  BY ReadFirst, ReadSecond

\* What a read returns is a sequence of units.
LEMMA TakenType ==
  ASSUME IInv, NEW e \in Endpoints, NEW d \in Directions, NEW n \in ReadSizes(e, d)
  PROVE  Taken(e, d, n) \in Seq(Unit) /\ Filled(e, d, n) \in Buffer
         /\ Filled(e, d, n).inner = buf[e][d].inner \o Taken(e, d, n)
<1>1. SrcHop(e, d) \in Hops BY NameFacts, HopFacts
<1>2. Source(e, d) \in Seq(Unit) BY <1>1, TypeFacts DEF Source
<1>3. n \in 1..Len(Source(e, d)) BY DEF ReadSizes
<1>4. SubSeq(Source(e, d), 1, n) \in Seq(Unit) BY <1>2, <1>3
<1>5. Taken(e, d, n) \in Seq(Unit) BY <1>4, CryptFacts DEF Taken
<1>6. buf[e][d].inner \in Seq(Unit) /\ buf[e][d].cursor \in Nat BY TypeFacts
<1>7. buf[e][d].inner \o Taken(e, d, n) \in Seq(Unit) BY <1>5, <1>6, ConcatFacts
<1> QED BY <1>5, <1>6, <1>7 DEF Filled, Buffer

\* While e parses, the buffer of d with the bytes of the read is what it holds.
LEMMA FillingFacts ==
  ASSUME IInv, NEW e \in Endpoints, NEW d \in Directions, NEW n \in ReadSizes(e, d),
         pc[e] \in Parsing, NEW b \in Buffer, b.inner = Filled(e, d, n).inner
  PROVE  /\ Filling(e, d, n, [buf[e] EXCEPT ![d] = b])
         /\ [buf[e] EXCEPT ![d] = b] \in Bufs
         /\ [buf[e] EXCEPT ![d] = b][d] = b
         /\ \A c \in Directions : c # d => [buf[e] EXCEPT ![d] = b][c] = buf[e][c]
<1> DEFINE bufs == [buf[e] EXCEPT ![d] = b]
<1>1. buf[e] \in Bufs BY TypeFacts
<1>2. bufs \in Bufs /\ bufs[d] = b /\ \A c \in Directions : c # d => bufs[c] = buf[e][c]
  BY <1>1 DEF Bufs
<1>3. b.inner = buf[e][d].inner \o Taken(e, d, n) BY TakenType
<1>4. Held(e) = buf[e][FirstHand(e)].inner BY DEF Held
<1>5. /\ FirstHand(e) \in Directions /\ SecondHand(e) \in Directions
      /\ FirstHand(e) # SecondHand(e) /\ d \in {FirstHand(e), SecondHand(e)}
  BY NameFacts
<1> HIDE DEF bufs
<1>6. Filling(e, d, n, bufs)
  <2>1. CASE d = FirstHand(e)
    <3>1. bufs[d].inner = Held(e) \o Taken(e, d, n) BY <1>2, <1>3, <1>4, <2>1
    <3>2. bufs[SecondHand(e)] = buf[e][SecondHand(e)] BY <1>2, <1>5, <2>1
    <3> QED BY <1>2, <2>1, <3>1, <3>2 DEF Filling
  <2>2. CASE d # FirstHand(e)
    <3>1. bufs[d].inner = buf[e][d].inner \o Taken(e, d, n) /\ d = SecondHand(e)
      BY <1>2, <1>3, <1>5, <2>2
    <3>2. bufs[FirstHand(e)].inner = Held(e) BY <1>2, <1>4, <1>5, <2>2
    <3> QED BY <1>2, <2>2, <3>1, <3>2 DEF Filling
  <2> QED BY <2>1, <2>2
<1> QED BY <1>2, <1>6 DEF bufs

\* What find_key_packets has witnessed by position p.
LEMMA WitnessKnows ==
  ASSUME IInv, NEW e \in Endpoints, NEW d \in Directions, NEW bufs, NEW l,
         Ctx(e, bufs, l, Front(e)), NEW b \in Buffer, NEW p \in Walk(b),
         bufs[d] = [inner |-> b.inner, cursor |-> p],
         seen' = [seen EXCEPT ![e] = witness(b, seen[e], d, p)]
  PROVE  Knows(e, IF d = FirstHand(e) THEN Front(e) + Cut(bufs[d]) ELSE Front(e),
               witness(b, seen[e], d, p))
<1> DEFINE f == FirstHand(e)
           s == SecondHand(e)
           sn == witness(b, seen[e], d, p)
           at == IF d = f THEN Front(e) + Cut(bufs[d]) ELSE Front(e)
<1>1. f \in Directions /\ s \in Directions /\ f # s /\ Peer(e) \in Endpoints /\ FirstHand(Peer(e)) = s
  BY NameFacts
<1>2. b.inner \in Seq(Unit) /\ Len(b.inner) \in Nat /\ p \in Nat
  BY WalkFacts DEF Buffer
<1>3. bufs[d] \in Buffer /\ bufs[d].inner = b.inner /\ bufs[d].cursor = p BY CtxFacts
<1>4. Cut(bufs[d]) = (IF p < Len(b.inner) THEN p ELSE Len(b.inner)) /\ Cut(bufs[d]) \in Nat
  BY <1>2, <1>3 DEF Cut
<1>5. /\ Front(e) \in Nat /\ Front(Peer(e)) \in Nat /\ seen[e] \subseteq Directions
      /\ script[f] \in Seq(Types) /\ script[s] \in Seq(Types)
  BY <1>1, TypeFacts
<1>6. at \in Nat /\ at >= Front(e) BY <1>4, <1>5
<1>7. sn \subseteq Directions BY <1>5 DEF witness
<1>8. \A c \in Endpoints : FirstHand(c) \in seen[e] => Cleared(c) BY DEF IInv, Known
<1>9. Cleared(e) => Past(f, at + 1)
  <2> SUFFICES ASSUME Past(f, Front(e) + 1) PROVE Past(f, at + 1) BY DEF Cleared
  <2> HIDE DEF at
  <2>1. Front(e) + 1 \in Int /\ at + 1 \in Int /\ Front(e) + 1 <= at + 1 BY <1>5, <1>6
  <2> QED BY <1>1, <1>5, <2>1, PastMonotone
<1>10. ASSUME NEW q \in Walk(b), q <= p, Present(b, q), TypeAt(b, q) = "0x17"
       PROVE  IF d = f THEN Past(f, at + 1) ELSE Cleared(Peer(e))
  <2>1. q \in Nat /\ q < Len(b.inner) BY <1>2, <1>10, WalkFacts DEF Present
  <2>2. q + 1 \in 1..Len(b.inner) /\ b.inner[q + 1].val = "0x17" BY <1>2, <1>10, <2>1 DEF TypeAt
  <2>3. CASE d = f
    <3>1. Run(e, Front(e), b.inner) BY <1>3, <2>3 DEF Ctx
    <3>2. Past(f, Front(e) + (q + 1)) BY <2>2, <3>1 DEF Run
    <3>3. at = Front(e) + Cut(bufs[d]) BY <2>3
    <3>4. q <= Cut(bufs[d]) BY <1>2, <1>4, <1>10, <2>1
    <3> HIDE DEF at
    <3>5. Front(e) + (q + 1) \in Int /\ at + 1 \in Int /\ Front(e) + (q + 1) <= at + 1
      BY <1>4, <1>5, <2>1, <3>3, <3>4
    <3> QED BY <1>1, <1>5, <2>3, <3>2, <3>5, PastMonotone
  <2>4. CASE d # f
    <3>1. d = s BY <2>4, NameFacts
    <3>2. b.inner[q + 1] \in Units(bufs[s].inner) BY <1>3, <2>2, <3>1 DEF Units
    <3>3. Sendable(Peer(e), Front(Peer(e)), b.inner[q + 1]) BY <3>2 DEF Ctx
    <3>4. b.inner[q + 1].idx \in Nat
      <4>1. b.inner[q + 1] \in Unit BY <1>2, <2>2
      <4> QED BY <4>1 DEF Unit
    <3>5. Past(s, b.inner[q + 1].idx) /\ b.inner[q + 1].idx <= Front(Peer(e))
      BY <1>1, <2>2, <3>3 DEF Sendable
    <3>6. b.inner[q + 1].idx \in Int /\ Front(Peer(e)) + 1 \in Int
          /\ b.inner[q + 1].idx <= Front(Peer(e)) + 1
      BY <1>5, <3>4, <3>5
    <3>7. Past(s, Front(Peer(e)) + 1) BY <1>1, <1>5, <3>5, <3>6, PastMonotone
    <3> QED BY <1>1, <2>4, <3>7 DEF Cleared
  <2> QED BY <2>3, <2>4
<1>11. f \in sn => Past(f, at + 1)
  <2>1. CASE f \in seen[e] BY <1>8, <1>9, <2>1
  <2>2. CASE f \notin seen[e] /\ f \in sn
    <3>1. d = f /\ \E q \in Walk(b) : q <= p /\ Present(b, q) /\ TypeAt(b, q) = "0x17"
      BY <2>2 DEF witness
    <3> HIDE DEF at, f, sn
    <3> QED BY <1>10, <3>1
  <2> QED BY <2>1, <2>2
<1>12. s \in sn => Cleared(Peer(e))
  <2>1. CASE s \in seen[e] BY <1>1, <1>8, <2>1
  <2>2. CASE s \notin seen[e] /\ s \in sn
    <3>1. d = s /\ \E q \in Walk(b) : q <= p /\ Present(b, q) /\ TypeAt(b, q) = "0x17"
      BY <2>2 DEF witness
    <3> HIDE DEF at, f, s, sn
    <3> QED BY <1>1, <1>10, <3>1
  <2> QED BY <2>1, <2>2
<1> HIDE DEF at, sn
<1>13. Knows(e, at, sn) BY <1>6, <1>7, <1>11, <1>12 DEF Knows, sn
<1> QED BY <1>13 DEF at, sn

(* The actions. *)

\* A turn of the loop of handshake, with each of its four results.
LEMMA HandshakeInv ==
  ASSUME IInv, NEW e \in Endpoints, NEW d \in Directions, NEW n \in ReadSizes(e, d),
         NEW k \in Swallowed(e, d, n), Handshake(e, d, n, Drained(e, d, n + k))
  PROVE  IInv'
<1> DEFINE f == FirstHand(e)
           s == SecondHand(e)
           b == Filled(e, d, n)
           l == Drained(e, d, n + k)
           bufs(c) == [buf[e] EXCEPT ![d] = c]
<1>1. PICK r \in find_key_packets(b, seen[e], d) :
        /\ seen' = [seen EXCEPT ![e] = r.seen]
        /\ \/ r.mode = "Active" /\ handshake_tls12_active(e, bufs(r.buf), l)
           \/ r.mode = "Passive" /\ handshake_tls12_passive(e, bufs(r.buf), l)
           \/ r.mode = "Incomplete" /\ relay_pending(e, d, bufs(r.buf), l)
           \/ r.mode = "Invalid" /\ flush_non_tls(e, bufs(r.buf), l)
  BY DEF Handshake
<1>2. pc[e] = "loop" /\ UNCHANGED <<eof, script, sent>> BY DEF Handshake
<1>3. PICK p \in Walk(b) :
        r = [mode |-> KeyMode(b, seen[e], d, p), seen |-> witness(b, seen[e], d, p),
             buf |-> [inner |-> b.inner, cursor |-> p]]
  BY DEF find_key_packets
<1> DEFINE x == [inner |-> b.inner, cursor |-> p]
           bx == bufs(x)
           sn == witness(b, seen[e], d, p)
           at == IF d = f THEN Front(e) + Cut(bx[d]) ELSE Front(e)
<1>4. b \in Buffer /\ b.inner \in Seq(Unit) BY TakenType DEF Buffer
<1>5. x \in Buffer /\ p \in Nat
  <2> HIDE DEF b
  <2> QED BY <1>4, WalkFacts
<1>6. Filling(e, d, n, bx) /\ bx[d] = x /\ \A c \in Directions : c # d => bx[c] = buf[e][c]
  BY <1>2, <1>5, FillingFacts DEF Parsing
<1>7. Ctx(e, bx, l, Front(e)) BY <1>6, ReadCtx
<1>8. /\ seen' = [seen EXCEPT ![e] = sn]
      /\ \/ KeyMode(b, seen[e], d, p) = "Active" /\ handshake_tls12_active(e, bx, l)
         \/ KeyMode(b, seen[e], d, p) = "Passive" /\ handshake_tls12_passive(e, bx, l)
         \/ KeyMode(b, seen[e], d, p) = "Incomplete" /\ relay_pending(e, d, bx, l)
         \/ KeyMode(b, seen[e], d, p) = "Invalid" /\ flush_non_tls(e, bx, l)
  BY <1>1, <1>3
<1> HIDE DEF b, l, bufs, bx
<1>9. Knows(e, at, sn) BY <1>4, <1>6, <1>7, <1>8, WitnessKnows
<1>10. f \in Directions /\ s \in Directions /\ f # s /\ d \in {f, s} /\ Directions = {f, s}
  BY NameFacts
<1>11. Front(e) \in Nat /\ Cut(bx[f]) \in Nat /\ Cut(bx[f]) <= Len(bx[f].inner)
       /\ Len(bx[f].inner) \in Nat
  <2>1. bx[f] \in Buffer /\ bx[f].inner \in Seq(Unit) /\ Front(e) \in Nat
    BY <1>7, <1>10, CtxFacts
  <2>2. Cut(bx[f]) \in 0..Len(bx[f].inner) BY <2>1, PopFacts
  <2> QED BY <2>1, <2>2
<1>12. /\ at <= Front(e) + Cut(bx[f])
       /\ at <= Front(e) + Len(bx[f].inner)
       /\ at <= IF d = f THEN Front(e) + Cut(bx[d]) ELSE Front(e)
       /\ d # f => at <= Front(e)
  BY <1>11
<1> HIDE DEF at, sn
<1>13. CASE KeyMode(b, seen[e], d, p) = "Active" /\ handshake_tls12_active(e, bx, l)
  <2>1. /\ Present(b, p) /\ TypeAt(b, p) = "0x17" /\ seen[e] \cup {d} = Directions
    BY <1>13 DEF KeyMode
  <2>2. sn = Directions
    <3>1. p <= p BY <1>5
    <3> QED BY <2>1, <3>1 DEF witness, sn
  <2>3. Past(f, at + 1) /\ Cleared(Peer(e)) BY <1>9, <1>10, <2>2 DEF Knows
  <2> QED BY <1>2, <1>7, <1>9, <1>12, <1>13, <2>3, ActiveInv
<1>14. CASE KeyMode(b, seen[e], d, p) = "Passive" /\ handshake_tls12_passive(e, bx, l)
  <2>1. Present(b, p) /\ TypeAt(b, p) = "0xff" BY <1>14 DEF KeyMode
  <2>2. p + 1 \in 1..Len(b.inner) /\ b.inner[p + 1].val = "0xff"
    BY <1>4, <1>5, <2>1 DEF Present, TypeAt
  <2>3. bx[d].inner = b.inner BY <1>6
  <2>4. d = s
    <3> SUFFICES ASSUME d = f PROVE FALSE BY <1>10
    <3>1. Run(e, Front(e), b.inner) BY <1>7, <2>3 DEF Ctx
    <3> QED BY <2>2, <3>1 DEF Run
  <2>5. b.inner[p + 1] \in Units(bx[s].inner) BY <2>2, <2>3, <2>4 DEF Units
  <2>6. Sendable(Peer(e), Front(Peer(e)), b.inner[p + 1]) BY <1>7, <2>5 DEF Ctx
  <2>7. Peer(e) \in Endpoints /\ Peer(Peer(e)) = e BY DEF Peer, Endpoints
  <2>8. Cleared(e) /\ Cleared(Peer(e)) BY <2>2, <2>6, <2>7 DEF Sendable, Cleared
  <2>9. at = Front(e) /\ at <= Front(e) BY <1>10, <1>11, <2>4 DEF at
  <2>10. Past(f, at + 1) BY <2>8, <2>9 DEF Cleared
  <2> QED BY <1>2, <1>7, <1>9, <1>14, <2>8, <2>9, <2>10, PassiveInv
<1>15. CASE relay_pending(e, d, bx, l)
  BY <1>2, <1>7, <1>9, <1>12, <1>15, RelayPendingInv
<1>16. CASE flush_non_tls(e, bx, l)
  BY <1>2, <1>7, <1>9, <1>12, <1>16, FlushNonTlsInv
<1> QED BY <1>8, <1>13, <1>14, <1>15, <1>16

\* An endpoint that has seen nothing new knows what it knew.
LEMMA KnowsAlready ==
  ASSUME IInv, NEW e \in Endpoints, UNCHANGED seen
  PROVE  Knows(e, Front(e), seen[e])
<1>1. seen \in [Endpoints -> SUBSET Directions] /\ Front(e) \in Nat BY DEF IInv, TypeOK, Queued
<1>2. seen' = [seen EXCEPT ![e] = seen[e]] /\ seen[e] \subseteq Directions BY <1>1
<1>3. Peer(e) \in Endpoints /\ FirstHand(Peer(e)) = SecondHand(e) BY NameFacts
<1>4. /\ FirstHand(e) \in seen[e] => Cleared(e)
      /\ SecondHand(e) \in seen[e] => Cleared(Peer(e))
  BY <1>3 DEF IInv, Known
<1> QED BY <1>1, <1>2, <1>4 DEF Knows, Cleared

\* client_hello and the write of the hello that follows it.
LEMMA ClientHelloInv ==
  ASSUME IInv, NEW e \in Endpoints, NEW n \in ReadSizes(e, "Inbound"),
         NEW k \in Swallowed(e, "Inbound", n), ClientHello(e, n, Drained(e, "Inbound", n + k))
  PROVE  IInv'
<1> DEFINE d == "Inbound"
           b == Filled(e, d, n)
           bufs == [buf[e] EXCEPT ![d] = b]
           l == Drained(e, d, n + k)
           emptied == [bufs EXCEPT ![d] = EmptyBuffer]
<1>1. d \in Directions /\ pc[e] \in Parsing /\ UNCHANGED <<seen, eof, script, sent>>
  BY DEF ClientHello, Directions, Parsing
<1>2. \/ MoveTo(e, "hello", bufs, l) /\ UNCHANGED version
      \/ /\ \E l2 \in WriteTls(l, d, DstHop(e, d), b.inner) : MoveTo(e, "loop", emptied, l2)
         /\ UNCHANGED version
      \/ flush_non_tls(e, bufs, l)
  BY DEF ClientHello
<1> HIDE DEF d
<1>3. b \in Buffer BY <1>1, TakenType DEF d
<1>4. Filling(e, d, n, bufs) /\ bufs \in Bufs /\ bufs[d] = b
  BY <1>1, <1>3, FillingFacts DEF d
<1>5. Ctx(e, bufs, l, Front(e)) BY <1>1, <1>4, ReadCtx DEF d
<1> HIDE DEF b, l, bufs
<1>6. Knows(e, Front(e), seen[e]) BY <1>1, KnowsAlready
<1>7. Front(e) \in Nat /\ Front(e) <= Front(e) BY TypeFacts
<1>8. "hello" \in PCs /\ "loop" \in PCs /\ "hello" \notin {"until0xff"} \cup OutOfTls
      /\ "loop" \notin {"until0xff"} \cup OutOfTls
  BY DEF PCs, InTls, OutOfTls
<1>9. CASE MoveTo(e, "hello", bufs, l) /\ UNCHANGED version
  <2>1. Ends(e, "hello", bufs, bufs, l) BY <1>1, <1>4, <1>8, <1>9, EndsFrom
  <2>2. Learns(e, "hello", Front(e)) BY <1>6, <1>7, <1>8, LearnsFrom
  <2> QED BY <1>5, <2>1, <2>2, Finish
<1>10. ASSUME NEW l2 \in WriteTls(l, d, DstHop(e, d), b.inner), MoveTo(e, "loop", emptied, l2),
              UNCHANGED version
       PROVE  IInv'
  <2> DEFINE base == IF d = FirstHand(e) THEN Front(e) + Len(bufs[d].inner) ELSE Front(e)
  <2>1. Ctx(e, emptied, l2, base) BY <1>1, <1>4, <1>5, <1>10, FlushEither
  <2>2. emptied \in Bufs BY <2>1, CtxFacts
  <2>3. Front(e) <= base /\ base \in Nat
    <3>1. base \in Nat BY <2>1, CtxFacts
    <3>2. Len(bufs[d].inner) \in Nat BY <1>1, <1>5, CtxFacts
    <3> QED BY <1>7, <3>1, <3>2
  <2> HIDE DEF emptied, base
  <2>4. Ends(e, "loop", emptied, emptied, l2) BY <1>1, <1>8, <1>10, <2>2, EndsFrom
  <2>5. Learns(e, "loop", base) BY <1>6, <1>8, <2>3, LearnsFrom
  <2> QED BY <2>1, <2>4, <2>5, Finish
<1>11. CASE flush_non_tls(e, bufs, l)
  <2>1. FirstHand(e) \in Directions BY NameFacts
  <2>2. Len(bufs[FirstHand(e)].inner) \in Nat BY <1>5, <2>1, CtxFacts
  <2>3. Front(e) <= Front(e) + Len(bufs[FirstHand(e)].inner) BY <1>7, <2>2
  <2> QED BY <1>1, <1>5, <1>6, <1>11, <2>3, FlushNonTlsInv
<1> QED BY <1>2, <1>9, <1>10, <1>11

\* A read of the active side while it waits for the 0xff.
LEMMA RelayUntil0xffInv ==
  ASSUME IInv, NEW e \in Endpoints, NEW d \in Directions, d = SecondHand(e),
         NEW n \in ReadSizes(e, d), NEW k \in Swallowed(e, d, n),
         RelayUntil0xff(e, n, Drained(e, d, n + k))
  PROVE  IInv'
<1> DEFINE bufs == [buf[e] EXCEPT ![d] = Filled(e, d, n)]
           l == Drained(e, d, n + k)
<1>1. /\ pc[e] = "until0xff" /\ UNCHANGED <<seen, eof, script, sent>>
      /\ tls12_relay_until_0xff(e, bufs, l)
  BY DEF RelayUntil0xff
<1>2. Filling(e, d, n, bufs) BY <1>1, TakenType, FillingFacts DEF Parsing
<1>3. Ctx(e, bufs, l, Front(e)) BY <1>2, ReadCtx
<1>4. Knows(e, Front(e), seen[e]) BY <1>1, KnowsAlready
<1>5. Front(e) <= Front(e) BY TypeFacts
<1>6. Past(FirstHand(e), Front(e) + 1) /\ Cleared(Peer(e))
  BY <1>1, NameFacts DEF IInv, Known, Cleared
<1> HIDE DEF bufs, l
<1> QED BY <1>1, <1>3, <1>4, <1>5, <1>6, RelayUntilInv

\* An endpoint that no longer parses holds nothing first-hand: what it reads is
\* all there is.
LEMMA FillingRelay ==
  ASSUME IInv, NEW e \in Endpoints, NEW d \in Directions, NEW n \in ReadSizes(e, d),
         pc[e] \notin Parsing, NEW b \in Buffer, NEW c \in Buffer,
         d = FirstHand(e) => b.inner = Taken(e, d, n) /\ c = buf[e][SecondHand(e)],
         d # FirstHand(e) => b = EmptyBuffer /\ c = Filled(e, d, n)
  PROVE  /\ Filling(e, d, n, [x \in Directions |-> IF x = FirstHand(e) THEN b ELSE c])
         /\ [x \in Directions |-> IF x = FirstHand(e) THEN b ELSE c][FirstHand(e)] = b
         /\ [x \in Directions |-> IF x = FirstHand(e) THEN b ELSE c][SecondHand(e)] = c
<1> DEFINE v == [x \in Directions |-> IF x = FirstHand(e) THEN b ELSE c]
<1>1. /\ FirstHand(e) \in Directions /\ SecondHand(e) \in Directions
      /\ FirstHand(e) # SecondHand(e) /\ d \in {FirstHand(e), SecondHand(e)}
  BY NameFacts
<1>2. v \in Bufs /\ v[FirstHand(e)] = b /\ v[SecondHand(e)] = c BY <1>1 DEF Bufs
<1>3. Held(e) = <<>> BY DEF Held
<1>4. Taken(e, d, n) \in Seq(Unit) /\ Filled(e, d, n).inner = buf[e][d].inner \o Taken(e, d, n)
  BY TakenType
<1>5. <<>> \o Taken(e, d, n) = Taken(e, d, n) BY <1>4
<1> HIDE DEF v
<1>6. Filling(e, d, n, v)
  <2>1. CASE d = FirstHand(e) BY <1>2, <1>3, <1>5, <2>1 DEF Filling
  <2>2. CASE d # FirstHand(e)
    <3>1. d = SecondHand(e) /\ b.inner = <<>> BY <1>1, <2>2, EmptyFacts
    <3> QED BY <1>2, <1>3, <1>4, <2>2, <3>1 DEF Filling
  <2> QED BY <2>1, <2>2
<1> QED BY <1>2, <1>6 DEF v

\* flush_tls of the passive side.
LEMMA FlushPendingInv ==
  ASSUME IInv, NEW e \in Endpoints, NEW d \in Directions, d = SecondHand(e),
         NEW n \in ReadSizes(e, d), NEW k \in Swallowed(e, d, n),
         FlushPending(e, n, Drained(e, d, n + k))
  PROVE  IInv'
<1> DEFINE b == Filled(e, d, n)
           l == Drained(e, d, n + k)
           v == [x \in Directions |-> IF x = FirstHand(e) THEN EmptyBuffer ELSE b]
           nb == [buf[e] EXCEPT ![d] = EmptyBuffer]
<1>1. pc[e] = "pending" /\ UNCHANGED <<seen, version, eof, script, sent>> BY DEF FlushPending
<1>2. PICK l2 \in WriteRaw(l, d, 3, b.inner) : MoveTo(e, "lite", nb, l2) BY DEF FlushPending
<1>3. d # FirstHand(e) /\ FirstHand(e) \in Directions BY NameFacts
<1>4. b \in Buffer /\ b.inner \in Seq(Unit) BY TakenType DEF Buffer
<1>5. Filling(e, d, n, v)
  <2>1. pc[e] \notin Parsing BY <1>1 DEF Parsing
  <2> QED BY <1>3, <1>4, <2>1, EmptyFacts, FillingRelay
<1>6. Ctx(e, v, l, Front(e)) BY <1>5, ReadCtx
<1> HIDE DEF b, l, v
<1>7. Ctx(e, v, l2, Front(e)) BY <1>4, <1>6, WriteOut
<1>8. nb \in Bufs /\ nb[d] = EmptyBuffer
  <2>1. buf[e] \in Bufs BY TypeFacts
  <2> QED BY <2>1, EmptyFacts DEF Bufs
<1> HIDE DEF nb
<1>9. Ends(e, "lite", nb, v, l2)
  <2>1. "lite" \in PCs /\ "lite" \notin Parsing BY DEF PCs, OutOfTls, Parsing
  <2>2. Units(nb[d].inner) \subseteq Units(v[d].inner) BY <1>8, EmptyFacts
  <2> QED BY <1>1, <1>2, <1>8, <2>1, <2>2, EndsFrom
<1>10. Learns(e, "lite", Front(e))
  <2>1. Knows(e, Front(e), seen[e]) BY <1>1, KnowsAlready
  <2>2. Front(e) \in Nat /\ Front(e) <= Front(e) BY TypeFacts
  <2>3. Past(FirstHand(e), Front(e) + 1) /\ Cleared(Peer(e))
    BY <1>1, NameFacts DEF IInv, Known, Cleared, OutOfTls
  <2> QED BY <2>1, <2>2, <2>3, LearnsFrom
<1> QED BY <1>7, <1>9, <1>10, Finish

\* A relay step leaves the endpoint where it is.
LEMMA RelayEnds ==
  ASSUME IInv, NEW e \in Endpoints, pc[e] \in {"tcp", "lite"}, NEW v, NEW base,
         Ctx(e, v, link', base), Units(buf[e][SecondHand(e)].inner) \subseteq Units(v[SecondHand(e)].inner),
         UNCHANGED <<pc, buf, seen, version, eof, script, sent>>
  PROVE  IInv'
<1>1. pc[e] \in PCs /\ pc[e] \notin Parsing BY DEF PCs, InTls, OutOfTls, Parsing
<1>2. pc \in [Endpoints -> PCs] /\ buf \in [Endpoints -> [Directions -> Buffer]] /\ buf[e] \in Bufs
  BY TypeFacts DEF IInv, TypeOK
<1>3. MoveTo(e, pc[e], buf[e], link') BY <1>2 DEF MoveTo
<1>4. Ends(e, pc[e], buf[e], v, link') BY <1>1, <1>2, <1>3, EndsFrom
<1>5. Knows(e, Front(e), seen[e]) BY KnowsAlready
<1>6. base \in Nat /\ Front(e) <= base
  <2>1. base \in Nat /\ base >= Front(e) BY DEF Ctx
  <2>2. Front(e) \in Nat BY TypeFacts
  <2> QED BY <2>1, <2>2
<1>7. pc[e] = "lite" => Past(FirstHand(e), Front(e) + 1) /\ Cleared(Peer(e))
  BY NameFacts DEF IInv, Known, Cleared, OutOfTls
<1>8. pc[e] \in {"until0xff"} \cup OutOfTls => pc[e] = "lite" BY DEF OutOfTls
<1>9. Learns(e, pc[e], base) BY <1>5, <1>6, <1>7, <1>8, LearnsFrom
<1> QED BY <1>4, <1>9, Finish

\* A read and write of the relay behind a handshake.
LEMMA RelayInv ==
  ASSUME IInv, NEW e \in Endpoints, NEW d \in Directions, NEW n \in ReadSizes(e, d),
         NEW k \in Swallowed(e, d, n), Relay(e, d, n, Drained(e, d, n + k))
  PROVE  IInv'
<1> DEFINE f == FirstHand(e)
           s == SecondHand(e)
           t == Taken(e, d, n)
           l == Drained(e, d, n + k)
           held == [inner |-> t, cursor |-> 0]
           vf == [x \in Directions |-> IF x = f THEN held ELSE buf[e][s]]
           vs == [x \in Directions |-> IF x = f THEN EmptyBuffer ELSE Filled(e, d, n)]
<1>1. pc[e] \in {"tcp", "lite"} /\ UNCHANGED <<pc, buf, seen, version, eof, script, sent>>
  BY DEF Relay
<1>2. link' = Put(l, d, DstHop(e, d), IF DstHop(e, d) = 2 /\ pc[e] = "tcp" THEN Encrypted(t) ELSE t)
  BY DEF Relay
<1>3. pc[e] \notin Parsing BY <1>1 DEF Parsing
<1>4. f \in Directions /\ s \in Directions /\ f # s /\ d \in {f, s} BY NameFacts
<1>5. t \in Seq(Unit) /\ Filled(e, d, n) \in Buffer /\ held \in Buffer /\ held.inner = t
      /\ Filled(e, d, n).inner = buf[e][d].inner \o t
  BY TakenType DEF Buffer
<1>6. buf[e][s] \in Buffer /\ buf[e][s].inner \in Seq(Unit) /\ Front(e) \in Nat
  BY <1>4, TypeFacts
<1>7. CASE d = f
  <2>1. Filling(e, d, n, vf) /\ vf[f] = held /\ vf[s] = buf[e][s]
    BY <1>3, <1>5, <1>6, <1>7, FillingRelay, SMTT(30)
  <2>2. Ctx(e, vf, l, Front(e)) BY <2>1, ReadCtx
  <2> HIDE DEF vf, l, t, held
  <2>3. DstHop(e, d) = 2 BY <1>7 DEF DstHop, SrcHop
  <2> DEFINE v == [vf EXCEPT ![f] = EmptyBuffer]
             base == Front(e) + Len(vf[f].inner)
  <2>4. Ctx(e, v, link', base)
    <3>1. CASE pc[e] = "tcp"
      <4>1. link' \in WriteTls(l, f, 2, vf[f].inner)
        BY <1>2, <1>5, <1>7, <2>1, <2>3, <3>1 DEF WriteTls
      <4> QED BY <2>2, <4>1, FlushFirst
    <3>2. CASE pc[e] = "lite"
      <4>1. link' = Put(l, f, 2, t) BY <1>2, <1>7, <2>3, <3>2
      <4>2. Past(f, Front(e) + 1) /\ script[f] \in Seq(Types)
        BY <1>4, <3>2, TypeFacts DEF IInv, Known, Cleared, OutOfTls
      <4>3. Run(e, Front(e), t) BY <1>5, <2>1, <2>2 DEF Ctx
      <4>4. Len(t) <= Len(t) /\ Len(t) \in 0..Len(t) BY <1>5
      <4>5. MaySend(e, Front(e) + Len(t), t) BY <1>5, <1>6, <4>2, <4>3, <4>4, SendPlain
      <4>6. EmptyBuffer.inner = SubSeq(vf[f].inner, Len(t) + 1, Len(vf[f].inner))
        BY <1>5, <2>1, EmptyFacts
      <4>7. Len(t) \in 0..Len(vf[f].inner) BY <1>5, <2>1, <4>4
      <4>8. Ctx(e, v, link', Front(e) + Len(t))
        BY <1>5, <2>2, <4>1, <4>5, <4>6, <4>7, EmptyFacts, SendTunnel
      <4> QED BY <1>5, <2>1, <4>8
    <3> QED BY <1>1, <3>1, <3>2
  <2>5. v[s] = buf[e][s]
    <3>1. vf \in [Directions -> Buffer] BY <2>2, CtxFacts DEF Bufs
    <3> QED BY <1>4, <2>1, <3>1
  <2> HIDE DEF v, base
  <2> QED BY <1>1, <2>4, <2>5, RelayEnds
<1>8. CASE d = s
  <2>1. Filling(e, d, n, vs) /\ vs[s] = Filled(e, d, n)
    BY <1>3, <1>4, <1>5, <1>8, EmptyFacts, FillingRelay
  <2>2. Ctx(e, vs, l, Front(e)) BY <2>1, ReadCtx
  <2> HIDE DEF vs, l, t
  <2>3. DstHop(e, d) = 3 BY <1>4, <1>8 DEF DstHop, SrcHop
  <2>4. link' = Put(l, s, 3, t) BY <1>2, <1>8, <2>3
  <2>5. Ctx(e, vs, link', Front(e)) BY <1>5, <2>2, <2>4, SendOut
  <2>6. Units(buf[e][s].inner) \subseteq Units(vs[s].inner)
    BY <1>5, <1>6, <1>8, <2>1, UnitsFacts, ZenonT(60)
  <2> QED BY <1>1, <2>5, <2>6, RelayEnds
<1> QED BY <1>4, <1>7, <1>8

\* An endpoint that returns drops its sockets and leaves all units where they are.
LEMMA DropInv ==
  ASSUME IInv, NEW e \in Endpoints, Drop(e), UNCHANGED <<buf, seen, version, link, script, sent>>
  PROVE  IInv'
<1> DEFINE held == [inner |-> Held(e), cursor |-> 0]
           v == [x \in Directions |-> IF x = FirstHand(e) THEN held ELSE buf[e][SecondHand(e)]]
<1>1. /\ FirstHand(e) \in Directions /\ SecondHand(e) \in Directions /\ FirstHand(e) # SecondHand(e)
  BY NameFacts
<1>2. /\ Held(e) \in Seq(Unit) /\ Front(e) \in Nat /\ buf[e][SecondHand(e)] \in Buffer
      /\ buf[e] \in Bufs /\ link \in Links
      /\ Front(e) + Len(Held(e)) + Len(link[FirstHand(e)][1]) = Total(e)
  BY <1>1, TypeFacts
<1>3. held \in Buffer /\ held.inner = Held(e) BY <1>2 DEF Buffer
<1>4. v \in Bufs /\ v[FirstHand(e)] = held /\ v[SecondHand(e)] = buf[e][SecondHand(e)]
  BY <1>1, <1>2, <1>3 DEF Bufs
<1> HIDE DEF v, held
<1>5. Front(e) >= Front(e) /\ Front(e) <= Front(e) BY <1>2
<1>6. /\ \A u \in Units(link[FirstHand(e)][2]) :
           Sendable(e, Front(e), u) /\ (~u.enc => Past(FirstHand(e), u.idx))
      /\ \A u \in Units(buf[e][SecondHand(e)].inner) : Sendable(Peer(e), Front(Peer(e)), u)
      /\ Run(e, Front(e), Held(e))
      /\ Run(e, Front(e) + Len(Held(e)), link[FirstHand(e)][1])
  BY IInvFacts
<1>7. Ctx(e, v, link, Front(e)) BY <1>2, <1>3, <1>4, <1>5, <1>6 DEF Ctx
<1>8. eof' \in [Directions -> [Hops -> BOOLEAN]]
  <2>1. eof \in [Directions -> [Hops -> BOOLEAN]] BY DEF IInv, TypeOK
  <2>2. \A c \in Directions : [eof[c] EXCEPT ![DstHop(e, c)] = TRUE] \in [Hops -> BOOLEAN]
    BY <2>1
  <2> QED BY <2>2 DEF Drop
<1>9. "closed" \in PCs /\ "closed" \notin Parsing /\ "closed" \notin {"until0xff"} \cup OutOfTls
  BY DEF PCs, Parsing, OutOfTls
<1>10. Ends(e, "closed", buf[e], v, link)
  <2>1. buf' = [buf EXCEPT ![e] = buf[e]] BY DEF IInv, TypeOK
  <2>2. version' \in [Endpoints -> {"None", "Active", "Passive"}] BY DEF IInv, TypeOK
  <2> QED BY <1>2, <1>4, <1>8, <1>9, <2>1, <2>2 DEF Ends, Drop
<1>11. Learns(e, "closed", Front(e))
  <2>1. Knows(e, Front(e), seen[e]) BY KnowsAlready
  <2> QED BY <1>2, <1>5, <1>9, <2>1, LearnsFrom
<1> QED BY <1>7, <1>10, <1>11, Finish

\* Steps that change nothing the invariant speaks of but the ends of streams.
LEMMA EofInv ==
  ASSUME IInv, UNCHANGED <<pc, buf, seen, version, link, script, sent>>,
         eof' \in [Directions -> [Hops -> BOOLEAN]]
  PROVE  IInv'
<1>1. TypeOK' BY DEF IInv, TypeOK
<1>2. \A d, i : Past(d, i)' <=> Past(d, i) BY DEF Past
<1>3. \A e : Held(e)' = Held(e) /\ Front(e)' = Front(e) BY DEF Held, Front, Total
<1>4. \A e : Cleared(e)' <=> Cleared(e) BY <1>2, <1>3 DEF Cleared
<1>5. \A e, b, u : Sendable(e, b, u)' <=> Sendable(e, b, u) BY <1>2, <1>4 DEF Sendable
<1>6. Queued' BY <1>2, <1>3 DEF IInv, Queued, Run
<1>7. Passed' BY <1>3, <1>5 DEF IInv, Passed
<1>8. Known' BY <1>4 DEF IInv, Known
<1>9. NoHandshakeInClear' BY <1>2 DEF IInv, NoHandshakeInClear
<1> QED BY <1>1, <1>6, <1>7, <1>8, <1>9 DEF IInv

\* A record that the user or the target sends extends the run behind the front.
LEMMA SendInv ==
  ASSUME IInv, NEW d \in Directions, Send(d)
  PROVE  IInv'
<1> DEFINE k == sent[d] + 1
           x == Record(script[d][k], k)
           q == link[d][1]
<1>1. PICK e \in Endpoints : FirstHand(e) = d BY DEF Endpoints, Directions, FirstHand
<1> DEFINE p == Peer(e)
<1>2. /\ p \in Endpoints /\ Endpoints = {e, p} /\ FirstHand(p) # d /\ FirstHand(p) \in Directions
  BY <1>1, NameFacts DEF Peer, Endpoints
<1>3. /\ sent' = [sent EXCEPT ![d] = sent[d] + 1] /\ link' = Put(link, d, 1, x)
      /\ UNCHANGED <<pc, buf, seen, version, eof, script>> /\ sent[d] < Len(script[d])
  BY DEF Send
<1>4. sent \in [Directions -> Nat] /\ script[d] \in Seq(Types) /\ link \in Links
  BY DEF IInv, TypeOK, Links
<1>5. k \in 1..Len(script[d]) /\ k \in Nat /\ k >= 1 /\ k - 1 = sent[d] BY <1>3, <1>4
<1>6. script[d][k] \in Types BY <1>4, <1>5
<1> HIDE DEF k
<1>7. /\ x \in Seq(Unit) /\ Len(x) = RecLen
      /\ \A i \in 1..RecLen : /\ x[i].idx = sent[d] * RecLen + i /\ x[i].enc = FALSE
                              /\ x[i].val # "0xff"
                              /\ x[i].val = "0x17" => script[d][k] = "0x17"
  BY <1>5, <1>6, RecordFacts
<1> HIDE DEF x
<1>8. /\ link' \in Links /\ link'[d][1] = q \o x
      /\ \A c \in Directions, h \in Hops : c # d \/ h # 1 => link'[c][h] = link[c][h]
  <2>1. 1 \in Hops BY HopFacts
  <2>2. /\ Put(link, d, 1, x) \in Links /\ Put(link, d, 1, x)[d][1] = q \o x
        /\ \A c \in Directions, h \in Hops : c # d \/ h # 1 => Put(link, d, 1, x)[c][h] = link[c][h]
    BY <1>4, <1>7, <2>1, PutFacts, ZenonT(60)
  <2> QED BY <1>3, <2>2
<1>9. link'[d][2] = link[d][2] /\ \A h \in Hops : link'[FirstHand(p)][h] = link[FirstHand(p)][h]
  BY <1>2, <1>8, HopFacts
<1>10. /\ Total(e) \in Nat /\ Front(e) \in Nat /\ Len(Held(e)) \in Nat /\ q \in Seq(Unit)
       /\ Len(q) \in Nat /\ Front(e) + Len(Held(e)) + Len(q) = Total(e)
       /\ Total(e) = sent[d] * RecLen
  <2>1. 1 \in Hops BY HopFacts
  <2>2. q \in Seq(Unit) BY <1>4, <2>1 DEF Links
  <2>3. Len(q) \in Nat BY <2>2
  <2> QED BY <1>1, <2>2, <2>3, TypeFacts DEF Total
<1>11. TypeOK'
  <2>1. sent' \in [Directions -> Nat] BY <1>3, <1>4
  <2> QED BY <1>3, <1>8, <2>1 DEF IInv, TypeOK, Links
<1>12. \A c, i : Past(c, i)' <=> Past(c, i) BY <1>3 DEF Past
<1>13. Held(e)' = Held(e) /\ Held(p)' = Held(p) BY <1>3 DEF Held
<1>14. Front(p)' = Front(p)
  <2>1. sent'[FirstHand(p)] = sent[FirstHand(p)] BY <1>2, <1>3, <1>4
  <2>2. link'[FirstHand(p)][1] = link[FirstHand(p)][1] BY <1>9, HopFacts
  <2> QED BY <1>13, <2>1, <2>2 DEF Front, Total
<1>15. Front(e)' = Front(e)
  <2>1. Total(e)' = Total(e) + RecLen
    <3>1. Total(e)' = (sent[d] + 1) * RecLen BY <1>1, <1>3, <1>4 DEF Total
    <3>2. sent[d] \in Nat /\ (sent[d] + 1) * RecLen = sent[d] * RecLen + RecLen
      BY <1>4, LengthAssumption
    <3> QED BY <1>10, <3>1, <3>2
  <2>2. Len(link'[d][1]) = Len(q) + RecLen
    <3>1. Len(q \o x) = Len(q) + Len(x) BY <1>7, <1>10, ConcatFacts, ZenonT(60)
    <3> QED BY <1>7, <1>8, <3>1
  <2>3. Front(e)' = Total(e)' - Len(link'[d][1]) - Len(Held(e)') BY <1>1 DEF Front
  <2>4. Front(e) = Total(e) - Len(q) - Len(Held(e)) BY <1>1 DEF Front
  <2> HIDE DEF q
  <2>5. RecLen \in Nat BY LengthAssumption
  <2>6. (Total(e) + RecLen) - (Len(q) + RecLen) - Len(Held(e)) = Total(e) - Len(q) - Len(Held(e))
    BY <1>10, <2>5
  <2> QED BY <1>13, <2>1, <2>2, <2>3, <2>4, <2>6
<1>16. \A c \in Endpoints : Cleared(c)' <=> Cleared(c)
  BY <1>2, <1>12, <1>14, <1>15 DEF Cleared
<1>17. \A c \in Endpoints : \A u : Sendable(c, Front(c), u)' <=> Sendable(c, Front(c), u)
  <2>1. Peer(e) \in Endpoints /\ Peer(p) \in Endpoints BY <1>2, NameFacts
  <2> QED BY <1>2, <1>12, <1>14, <1>15, <1>16, <2>1 DEF Sendable
<1>18. Run(e, Front(e) + Len(Held(e)), q \o x)
  <2>1. Run(e, Front(e) + Len(Held(e)), q) BY <1>1, IInvFacts
  <2>2. Run(e, Front(e) + Len(Held(e)) + Len(q), x)
    <3> SUFFICES ASSUME NEW i \in 1..Len(x), x[i].val = "0x17" PROVE Past(d, x[i].idx)
      BY <1>1, <1>7, <1>10 DEF Run
    <3>1. script[d][k] = "0x17" /\ x[i].idx = sent[d] * RecLen + i /\ i \in Nat /\ i >= 1
      BY <1>7, LengthAssumption
    <3>2. (k - 1) * RecLen < x[i].idx BY <1>5, <1>10, <3>1
    <3> QED BY <1>5, <3>1, <3>2 DEF Past
  <2>3. Front(e) + Len(Held(e)) \in Nat BY <1>10
  <2> QED BY <1>7, <1>10, <2>1, <2>2, <2>3, RunConcat
<1>19. Queued'
  <2>1. Run(e, Front(e), Held(e))' /\ Run(p, Front(p), Held(p))'
    BY <1>2, <1>12, <1>13, <1>14, <1>15 DEF IInv, Queued, Run
  <2>2. Run(e, Front(e) + Len(Held(e)), link[FirstHand(e)][1])'
    BY <1>1, <1>8, <1>12, <1>13, <1>15, <1>18 DEF Run
  <2>3. Run(p, Front(p) + Len(Held(p)), link[FirstHand(p)][1])'
    <3>1. link'[FirstHand(p)][1] = link[FirstHand(p)][1] BY <1>9, HopFacts
    <3> QED BY <1>2, <1>12, <1>13, <1>14, <3>1 DEF IInv, Queued, Run
  <2> QED BY <1>2, <1>10, <1>14, <1>15, <2>1, <2>2, <2>3 DEF IInv, Queued
<1>20. \A c \in Endpoints : link'[FirstHand(c)][2] = link[FirstHand(c)][2]
  BY <1>1, <1>2, <1>9, HopFacts
<1>21. Passed' BY <1>3, <1>17, <1>20 DEF IInv, Passed
<1>22. Known' BY <1>3, <1>16 DEF IInv, Known
<1>23. NoHandshakeInClear'
  <2>1. \A c \in Directions : link'[c][2] = link[c][2] BY <1>8, HopFacts
  <2> QED BY <1>12, <2>1 DEF IInv, NoHandshakeInClear
<1> QED BY <1>11, <1>19, <1>21, <1>22, <1>23 DEF IInv

\* Every read of an endpoint, by the place it waits at.
LEMMA ReadInv ==
  ASSUME IInv, NEW e \in Endpoints, NEW d \in Directions, Read(e, d)
  PROVE  IInv'
<1> DEFINE Step(n, k) ==
             \/ d = "Inbound" /\ ClientHello(e, n, Drained(e, d, n + k))
             \/ Handshake(e, d, n, Drained(e, d, n + k))
             \/ d = SecondHand(e) /\ RelayUntil0xff(e, n, Drained(e, d, n + k))
             \/ d = SecondHand(e) /\ FlushPending(e, n, Drained(e, d, n + k))
             \/ Relay(e, d, n, Drained(e, d, n + k))
<1>1. PICK n \in ReadSizes(e, d) : \E k \in Swallowed(e, d, n) : Step(n, k) BY DEF Read
<1>2. PICK k \in Swallowed(e, d, n) : Step(n, k) BY <1>1
<1>3. CASE d = "Inbound" /\ ClientHello(e, n, Drained(e, d, n + k)) BY <1>3, ClientHelloInv
<1>4. CASE Handshake(e, d, n, Drained(e, d, n + k)) BY <1>4, HandshakeInv
<1>5. CASE d = SecondHand(e) /\ RelayUntil0xff(e, n, Drained(e, d, n + k))
  BY <1>5, RelayUntil0xffInv
<1>6. CASE d = SecondHand(e) /\ FlushPending(e, n, Drained(e, d, n + k))
  BY <1>6, FlushPendingInv
<1>7. CASE Relay(e, d, n, Drained(e, d, n + k)) BY <1>7, RelayInv
<1> QED BY <1>2, <1>3, <1>4, <1>5, <1>6, <1>7

\* The initial states satisfy the invariant.
LEMMA InitIInv == Init => IInv
<1> SUFFICES ASSUME Init PROVE IInv OBVIOUS
<1>1. TypeOK
  <2>1. script \in [Directions -> Seq(Types)]
    <3>1. PICK u \in UserScripts, t \in TargetScripts :
            script = [d \in Directions |-> IF d = "Inbound" THEN u ELSE t]
      BY DEF Init
    <3>2. u \in Seq(Types) /\ t \in Seq(Types) BY ScriptAssumption
    <3> QED BY <3>1, <3>2
  <2>2. pc \in [Endpoints -> PCs] BY DEF Init, PCs, InTls
  <2>3. buf \in [Endpoints -> [Directions -> Buffer]] BY EmptyFacts DEF Init
  <2>4. <<>> \in Seq(Unit) OBVIOUS
  <2>5. link \in [Directions -> [Hops -> Seq(Unit)]] BY <2>4 DEF Init
  <2>6. eof \in [Directions -> [Hops -> BOOLEAN]] /\ sent \in [Directions -> Nat]
    BY DEF Init
  <2>7. /\ seen \in [Endpoints -> SUBSET Directions]
        /\ version \in [Endpoints -> {"None", "Active", "Passive"}]
    BY DEF Init
  <2> QED BY <2>1, <2>2, <2>3, <2>5, <2>6, <2>7 DEF TypeOK
<1>2. ASSUME NEW e \in Endpoints
      PROVE  /\ link[FirstHand(e)][1] = <<>> /\ link[FirstHand(e)][2] = <<>> /\ Held(e) = <<>>
             /\ \A d \in Directions : buf[e][d].inner = <<>>
             /\ Front(e) = 0 /\ seen[e] = {} /\ pc[e] = "hello"
  <2>1. FirstHand(e) \in Directions BY NameFacts
  <2>2. /\ link[FirstHand(e)][1] = <<>> /\ link[FirstHand(e)][2] = <<>>
        /\ sent[FirstHand(e)] = 0 /\ seen[e] = {} /\ pc[e] = "hello"
    BY <2>1, HopFacts DEF Init
  <2>3. \A d \in Directions : buf[e][d].inner = <<>> BY EmptyFacts DEF Init
  <2>4. Held(e) = <<>> BY <2>1, <2>3 DEF Held
  <2>5. Front(e) = 0 BY <2>2, <2>4, LengthAssumption DEF Front, Total
  <2> QED BY <2>2, <2>3, <2>4, <2>5
<1>3. \A e, b : Run(e, b, <<>>) BY DEF Run
<1>4. Queued BY <1>2, <1>3 DEF Queued
<1>5. Passed BY <1>2, NameFacts, EmptyFacts DEF Passed
<1>6. Known BY <1>2 DEF Known, OutOfTls
<1>7. NoHandshakeInClear
  <2>1. \A d \in Directions : link[d][2] = <<>> BY HopFacts DEF Init
  <2> QED BY <2>1 DEF NoHandshakeInClear
<1> QED BY <1>1, <1>4, <1>5, <1>6, <1>7 DEF IInv

\* One case per action of the next-state relation.
LEMMA NextIInv == IInv /\ [Next]_vars => IInv'
<1> SUFFICES ASSUME IInv, [Next]_vars PROVE IInv' OBVIOUS
<1>1. ASSUME NEW d \in Directions, Send(d) PROVE IInv' BY <1>1, SendInv
<1>2. ASSUME NEW d \in Directions, CloseSender(d) PROVE IInv'
  <2>1. eof \in [Directions -> [Hops -> BOOLEAN]] BY DEF IInv, TypeOK
  <2>2. [eof[d] EXCEPT ![1] = TRUE] \in [Hops -> BOOLEAN] BY <1>2, <2>1
  <2>3. eof' \in [Directions -> [Hops -> BOOLEAN]] BY <1>2, <2>1, <2>2 DEF CloseSender
  <2> QED BY <1>2, <2>3, EofInv DEF CloseSender
<1>3. ASSUME NEW e \in Endpoints, NEW d \in Directions, Read(e, d) PROVE IInv'
  BY <1>3, ReadInv
<1>4. ASSUME NEW e \in Endpoints, NEW d \in Directions, HandshakeEof(e, d) PROVE IInv'
  BY <1>4, DropInv DEF HandshakeEof
<1>5. ASSUME NEW e \in Endpoints, NEW d \in Directions, RelayEof(e, d) PROVE IInv'
  <2>1. eof \in [Directions -> [Hops -> BOOLEAN]] BY DEF IInv, TypeOK
  <2>2. [eof[d] EXCEPT ![DstHop(e, d)] = TRUE] \in [Hops -> BOOLEAN] BY <1>5, <2>1
  <2>3. eof' \in [Directions -> [Hops -> BOOLEAN]] BY <1>5, <2>1, <2>2 DEF RelayEof
  <2> QED BY <1>5, <2>3, EofInv DEF RelayEof
<1>6. ASSUME NEW e \in Endpoints, Abort(e) PROVE IInv' BY <1>6, DropInv DEF Abort
<1>7. ASSUME NEW e \in Endpoints, TlsFailure(e) PROVE IInv' BY <1>7, DropInv DEF TlsFailure
<1>8. CASE UNCHANGED vars
  <2>1. eof' \in [Directions -> [Hops -> BOOLEAN]] BY <1>8 DEF vars, IInv, TypeOK
  <2> QED BY <1>8, <2>1, EofInv DEF vars
<1> QED BY <1>1, <1>2, <1>3, <1>4, <1>5, <1>6, <1>7, <1>8 DEF Next

\* Every reachable state satisfies the invariant.
LEMMA SpecIInv == Spec => []IInv
  BY InitIInv, NextIInv, PTL DEF Spec

\* The state keeps its type, whatever the reads and writes cut in two; the cursor
\* arithmetic of pop_checked_packets never underflows.
THEOREM LiteTlsTypeOK == Spec => []TypeOK
<1>1. IInv => TypeOK BY DEF IInv
<1> QED BY SpecIInv, <1>1, PTL

\* Nothing of a handshake in front of the first 0x17 record of its direction ever
\* crosses the network outside the tunnel.
THEOREM NoHandshakeInClearHolds == Spec => []NoHandshakeInClear
<1>1. IInv => NoHandshakeInClear BY DEF IInv
<1> QED BY SpecIInv, <1>1, PTL

\* A step of one endpoint is calm if it leaves that endpoint calm.
LEMMA CalmStep ==
  ASSUME IInv, AllCalm, NEW e \in Endpoints, NEW where, NEW sn, NEW v, NEW nb,
         pc' = [pc EXCEPT ![e] = where], seen' = [seen EXCEPT ![e] = sn],
         version' = [version EXCEPT ![e] = v], buf' = [buf EXCEPT ![e] = nb],
         Calm(where, sn, v, nb)
  PROVE  AllCalm'
<1>1. /\ pc \in [Endpoints -> PCs] /\ seen \in [Endpoints -> SUBSET Directions]
      /\ version \in [Endpoints -> {"None", "Active", "Passive"}]
      /\ buf \in [Endpoints -> [Directions -> Buffer]]
  BY DEF IInv, TypeOK
<1>2. /\ pc'[e] = where /\ seen'[e] = sn /\ version'[e] = v /\ buf'[e] = nb
      /\ \A c \in Endpoints : c # e => /\ pc'[c] = pc[c] /\ seen'[c] = seen[c]
                                       /\ version'[c] = version[c] /\ buf'[c] = buf[c]
  BY <1>1
<1>3. ASSUME NEW c \in Endpoints PROVE Calm(pc'[c], seen'[c], version'[c], buf'[c])
  <2>1. CASE c = e BY <1>2, <2>1
  <2>2. CASE c # e BY <1>2, <1>3, <2>2 DEF AllCalm
  <2> QED BY <2>1, <2>2
<1> QED BY <1>3 DEF AllCalm

\* The variables that a step may leave alone, in the form of CalmStep.
LEMMA SameFacts ==
  ASSUME IInv, NEW e \in Endpoints
  PROVE  /\ UNCHANGED pc => pc' = [pc EXCEPT ![e] = pc[e]]
         /\ UNCHANGED seen => seen' = [seen EXCEPT ![e] = seen[e]]
         /\ UNCHANGED version => version' = [version EXCEPT ![e] = version[e]]
         /\ UNCHANGED buf => buf' = [buf EXCEPT ![e] = buf[e]]
<1>1. /\ pc \in [Endpoints -> PCs] /\ seen \in [Endpoints -> SUBSET Directions]
      /\ version \in [Endpoints -> {"None", "Active", "Passive"}]
      /\ buf \in [Endpoints -> [Directions -> Buffer]]
  BY DEF IInv, TypeOK
<1> QED BY <1>1

\* flush_non_tls ends in the relay inside TLS.
LEMMA FlushNonTlsCalm ==
  ASSUME IInv, AllCalm, NEW e \in Endpoints, NEW bufs, NEW l, NEW sn,
         seen' = [seen EXCEPT ![e] = sn], flush_non_tls(e, bufs, l)
  PROVE  AllCalm'
<1>1. PICK l3 : MoveTo(e, "tcp", [d \in Directions |-> EmptyBuffer], l3) /\ UNCHANGED version
  BY DEF flush_non_tls
<1>2. \A nb : Calm("tcp", sn, version[e], nb) BY DEF Calm, Parsing
<1> QED BY <1>1, <1>2, SameFacts, CalmStep DEF MoveTo

\* flush_tls of the active side ends in the plain relay, with a version.
LEMMA FlushTlsActiveCalm ==
  ASSUME IInv, AllCalm, NEW e \in Endpoints, NEW bufs, NEW l, NEW sn,
         seen' = [seen EXCEPT ![e] = sn], flush_tls_active(e, bufs, l)
  PROVE  AllCalm'
<1>1. PICK l2 : /\ MoveTo(e, "lite", [bufs EXCEPT ![FirstHand(e)] = EmptyBuffer], l2)
                /\ version' = [version EXCEPT ![e] = "Active"]
  BY DEF flush_tls_active
<1>2. \A nb : Calm("lite", sn, "Active", nb) BY DEF Calm, Parsing
<1> QED BY <1>1, <1>2, CalmStep DEF MoveTo

\* tls12_relay_until_0xff waits with a buffer that is parsed from its start.
LEMMA RelayUntilCalm ==
  ASSUME IInv, AllCalm, NEW e \in Endpoints, NEW bufs \in Bufs, NEW l, NEW sn,
         bufs[FirstHand(e)].cursor = 0 \/ bufs[FirstHand(e)].inner = <<>>,
         seen' = [seen EXCEPT ![e] = sn], tls12_relay_until_0xff(e, bufs, l)
  PROVE  AllCalm'
<1> DEFINE s == SecondHand(e)
           here(p) == [inner |-> bufs[s].inner, cursor |-> p]
           rest(p) == pop_checked_packets(here(p))
           popped(p) == [bufs EXCEPT ![s] = rest(p)]
<1>1. PICK p \in Stops(bufs[s]) : \E l2 :
        \/ flush_tls_active(e, [bufs EXCEPT ![s] = EmptyBuffer], l2)
        \/ MoveTo(e, "until0xff", popped(p), l2) /\ UNCHANGED version
  BY DEF tls12_relay_until_0xff
<1>2. PICK l2 : \/ flush_tls_active(e, [bufs EXCEPT ![s] = EmptyBuffer], l2)
                \/ MoveTo(e, "until0xff", popped(p), l2) /\ UNCHANGED version
  BY <1>1
<1>3. CASE flush_tls_active(e, [bufs EXCEPT ![s] = EmptyBuffer], l2)
  BY <1>3, FlushTlsActiveCalm
<1>4. CASE MoveTo(e, "until0xff", popped(p), l2) /\ UNCHANGED version
  <2>1. s \in Directions /\ bufs[s] \in Buffer /\ p \in Walk(bufs[s]) BY NameFacts DEF Bufs, Stops
  <2>2. here(p) \in Buffer BY <2>1, WalkFacts
  <2> HIDE DEF here
  <2>3. rest(p).cursor = 0 \/ rest(p).inner = <<>> BY <2>2, PopFacts
  <2> HIDE DEF rest
  <2>4. popped(p)[s] = rest(p) /\ popped(p)[FirstHand(e)] = bufs[FirstHand(e)]
    BY NameFacts DEF Bufs
  <2> HIDE DEF popped
  <2>5. \A d \in Directions : popped(p)[d].cursor = 0 \/ popped(p)[d].inner = <<>>
    BY <2>3, <2>4, NameFacts
  <2>6. Calm("until0xff", sn, version[e], popped(p)) BY <2>5 DEF Calm
  <2> QED BY <1>4, <2>6, SameFacts, CalmStep DEF MoveTo
<1> QED BY <1>2, <1>3, <1>4

\* The passive side leaves with a version, or gives up on Lite-TLS.
LEMMA PassiveCalm ==
  ASSUME IInv, AllCalm, NEW e \in Endpoints, NEW bufs, NEW l, NEW sn,
         seen' = [seen EXCEPT ![e] = sn], handshake_tls12_passive(e, bufs, l)
  PROVE  AllCalm'
<1> DEFINE nb == [bufs EXCEPT ![SecondHand(e)] = drop_0xff(bufs[SecondHand(e)])]
           where == IF drop_0xff(bufs[SecondHand(e)]).inner # <<>> THEN "pending" ELSE "lite"
<1>1. CASE drop_0xff_ok(bufs[SecondHand(e)])
  <2>1. PICK l2 : MoveTo(e, where, nb, l2) /\ version' = [version EXCEPT ![e] = "Passive"]
    BY <1>1 DEF handshake_tls12_passive
  <2>2. Calm(where, sn, "Passive", nb) BY DEF Calm, Parsing
  <2> HIDE DEF where, nb
  <2> QED BY <2>1, <2>2, CalmStep DEF MoveTo
<1>2. CASE ~drop_0xff_ok(bufs[SecondHand(e)])
  BY <1>2, FlushNonTlsCalm DEF handshake_tls12_passive
<1> QED BY <1>1, <1>2

\* find_key_packets stops at the 0x17 that completes the pair: an incomplete
\* search has not seen both.
LEMMA IncompleteFacts ==
  ASSUME NEW b \in Buffer, NEW sn, NEW d, sn # Directions, NEW p \in Walk(b),
         \A q \in Walk(b) : q < p => ~KeyAt(b, sn, d, q),
         KeyMode(b, sn, d, p) = "Incomplete"
  PROVE  witness(b, sn, d, p) # Directions
<1> SUFFICES ASSUME witness(b, sn, d, p) = Directions PROVE FALSE OBVIOUS
<1>1. PICK q \in Walk(b) : q <= p /\ Present(b, q) /\ TypeAt(b, q) = "0x17" BY DEF witness
<1>2. sn \cup {d} = Directions BY <1>1 DEF witness
<1>3. KeyAt(b, sn, d, q) BY <1>1, <1>2 DEF KeyAt
<1>4. q = p
  <2>1. q \in Nat /\ p \in Nat BY WalkFacts
  <2> QED BY <1>1, <1>3, <2>1
<1> QED BY <1>1, <1>2, <1>4 DEF KeyMode

\* A turn of the loop leaves no 0x17 pair and no popped cursor behind.
LEMMA HandshakeCalm ==
  ASSUME IInv, AllCalm, NEW e \in Endpoints, NEW d \in Directions, NEW n \in ReadSizes(e, d),
         NEW l, Handshake(e, d, n, l)
  PROVE  AllCalm'
<1> DEFINE b == Filled(e, d, n)
           x(p) == [inner |-> b.inner, cursor |-> p]
           bx(p) == [buf[e] EXCEPT ![d] = x(p)]
           sn(p) == witness(b, seen[e], d, p)
           mode(p) == KeyMode(b, seen[e], d, p)
           End(m, bufs) == \/ m = "Active" /\ handshake_tls12_active(e, bufs, l)
                           \/ m = "Passive" /\ handshake_tls12_passive(e, bufs, l)
                           \/ m = "Incomplete" /\ relay_pending(e, d, bufs, l)
                           \/ m = "Invalid" /\ flush_non_tls(e, bufs, l)
<1>1. pc[e] = "loop" BY DEF Handshake
<1>2. PICK r \in find_key_packets(b, seen[e], d) :
        seen' = [seen EXCEPT ![e] = r.seen] /\ End(r.mode, [buf[e] EXCEPT ![d] = r.buf])
  BY DEF Handshake
<1>3. PICK p \in Walk(b) : /\ \A q \in Walk(b) : q < p => ~KeyAt(b, seen[e], d, q)
                           /\ r = [mode |-> mode(p), seen |-> sn(p), buf |-> x(p)]
  BY DEF find_key_packets
<1>4. seen' = [seen EXCEPT ![e] = sn(p)] /\ End(mode(p), bx(p))
  <2>1. r.seen = sn(p) /\ r.mode = mode(p) /\ r.buf = x(p) BY <1>3
  <2> QED BY <1>2, <2>1
<1>5. b \in Buffer /\ x(p) \in Buffer
  <2>1. b \in Buffer BY TakenType
  <2> HIDE DEF b
  <2> QED BY <2>1, WalkFacts
<1>6. buf[e] \in Bufs BY TypeFacts
<1>7. /\ seen[e] # Directions /\ version[e] = "None"
      /\ \A c \in Directions : buf[e][c].cursor = 0 \/ buf[e][c].inner = <<>>
  BY <1>1 DEF AllCalm, Calm, Parsing
<1> HIDE DEF b, x, sn, mode
<1>8. bx(p) \in Bufs /\ bx(p)[d] = x(p) /\ \A c \in Directions : c # d => bx(p)[c] = buf[e][c]
  BY <1>5, <1>6 DEF Bufs
<1> HIDE DEF bx
<1>9. CASE mode(p) = "Active" /\ handshake_tls12_active(e, bx(p), l)
  <2> DEFINE f == FirstHand(e)
             pop == pop_checked_packets(bx(p)[f])
             nb == [bx(p) EXCEPT ![f] = pop]
  <2>1. PICK l2 : tls12_relay_until_0xff(e, nb, l2) BY <1>9 DEF handshake_tls12_active
  <2>2. f \in Directions /\ bx(p)[f] \in Buffer BY <1>8, NameFacts DEF Bufs
  <2>3. pop \in Buffer /\ (pop.cursor = 0 \/ pop.inner = <<>>) BY <2>2, PopFacts
  <2> HIDE DEF pop
  <2>4. nb \in Bufs /\ nb[f] = pop BY <1>8, <2>2, <2>3 DEF Bufs
  <2> HIDE DEF nb
  <2> QED BY <1>4, <2>1, <2>3, <2>4, RelayUntilCalm
<1>10. CASE handshake_tls12_passive(e, bx(p), l) BY <1>4, <1>10, PassiveCalm
<1>11. CASE mode(p) = "Incomplete" /\ relay_pending(e, d, bx(p), l)
  <2> DEFINE pop == pop_checked_packets(x(p))
             nb == [bx(p) EXCEPT ![d] = pop]
  <2>1. PICK l2 : MoveTo(e, "loop", nb, l2) /\ UNCHANGED version
    BY <1>8, <1>11 DEF relay_pending
  <2>2. pop.cursor = 0 \/ pop.inner = <<>> BY <1>5, PopFacts
  <2> HIDE DEF pop
  <2>3. nb[d] = pop /\ \A c \in Directions : c # d => nb[c] = buf[e][c] BY <1>8 DEF Bufs
  <2> HIDE DEF nb
  <2>4. \A c \in Directions : nb[c].cursor = 0 \/ nb[c].inner = <<>> BY <1>7, <2>2, <2>3
  <2>5. sn(p) # Directions BY <1>3, <1>5, <1>7, <1>11, IncompleteFacts DEF sn, mode
  <2>6. Calm("loop", sn(p), version[e], nb) BY <1>7, <2>4, <2>5 DEF Calm
  <2> QED BY <1>4, <2>1, <2>6, SameFacts, CalmStep DEF MoveTo
<1>12. CASE flush_non_tls(e, bx(p), l) BY <1>4, <1>12, FlushNonTlsCalm
<1> QED BY <1>4, <1>9, <1>10, <1>11, <1>12

\* The client hello resets the buffer it has parsed.
LEMMA ClientHelloCalm ==
  ASSUME IInv, AllCalm, NEW e \in Endpoints, NEW n \in ReadSizes(e, "Inbound"), NEW l,
         ClientHello(e, n, l)
  PROVE  AllCalm'
<1> DEFINE d == "Inbound"
           b == Filled(e, d, n)
           bufs == [buf[e] EXCEPT ![d] = b]
           emptied == [bufs EXCEPT ![d] = EmptyBuffer]
<1>1. d \in Directions /\ pc[e] = "hello" /\ UNCHANGED seen BY DEF ClientHello, Directions
<1>2. \/ MoveTo(e, "hello", bufs, l) /\ UNCHANGED version
      \/ (\E l2 : MoveTo(e, "loop", emptied, l2)) /\ UNCHANGED version
      \/ flush_non_tls(e, bufs, l)
  BY DEF ClientHello
<1>3. /\ seen[e] # Directions /\ version[e] = "None" /\ \A c \in Directions : buf[e][c].cursor = 0
  BY <1>1 DEF AllCalm, Calm
<1>4. b.cursor = 0 BY <1>1, <1>3 DEF Filled
<1> HIDE DEF b, d
<1>5. buf[e] \in [Directions -> Buffer] BY TypeFacts DEF Bufs
<1>6. \A c \in Directions : bufs[c].cursor = 0
  <2>1. bufs[d] = b /\ \A c \in Directions : c # d => bufs[c] = buf[e][c] BY <1>1, <1>5
  <2> HIDE DEF bufs
  <2> QED BY <1>3, <1>4, <2>1
<1>7. \A c \in Directions : emptied[c].cursor = 0
  <2>1. emptied[d] = EmptyBuffer /\ \A c \in Directions : c # d => emptied[c] = buf[e][c]
    BY <1>1, <1>5
  <2> HIDE DEF emptied
  <2> QED BY <1>3, <2>1, EmptyFacts
<1> HIDE DEF bufs, emptied
<1>8. Calm("hello", seen[e], version[e], bufs) /\ Calm("loop", seen[e], version[e], emptied)
  BY <1>3, <1>6, <1>7 DEF Calm
<1>9. seen' = [seen EXCEPT ![e] = seen[e]] BY <1>1, SameFacts
<1>10. CASE MoveTo(e, "hello", bufs, l) /\ UNCHANGED version
  BY <1>8, <1>9, <1>10, SameFacts, CalmStep DEF MoveTo
<1>11. ASSUME NEW l2, MoveTo(e, "loop", emptied, l2), UNCHANGED version PROVE AllCalm'
  BY <1>8, <1>9, <1>11, SameFacts, CalmStep DEF MoveTo
<1>12. CASE flush_non_tls(e, bufs, l) BY <1>9, <1>12, FlushNonTlsCalm
<1> QED BY <1>2, <1>10, <1>11, <1>12

\* Every read of an endpoint leaves it calm.
LEMMA ReadCalm ==
  ASSUME IInv, AllCalm, NEW e \in Endpoints, NEW d \in Directions, Read(e, d)
  PROVE  AllCalm'
<1> DEFINE Step(n, l) ==
             \/ d = "Inbound" /\ ClientHello(e, n, l)
             \/ Handshake(e, d, n, l)
             \/ d = SecondHand(e) /\ RelayUntil0xff(e, n, l)
             \/ d = SecondHand(e) /\ FlushPending(e, n, l)
             \/ Relay(e, d, n, l)
<1>1. PICK n \in ReadSizes(e, d) : \E l : Step(n, l) BY DEF Read
<1>2. PICK l : Step(n, l) BY <1>1
<1>3. CASE d = "Inbound" /\ ClientHello(e, n, l) BY <1>3, ClientHelloCalm
<1>4. CASE Handshake(e, d, n, l) BY <1>4, HandshakeCalm
<1>5. CASE d = SecondHand(e) /\ RelayUntil0xff(e, n, l)
  <2> DEFINE f == FirstHand(e)
             bufs == [buf[e] EXCEPT ![d] = Filled(e, d, n)]
  <2>1. tls12_relay_until_0xff(e, bufs, l) /\ pc[e] = "until0xff" /\ UNCHANGED seen
    BY <1>5 DEF RelayUntil0xff
  <2>2. bufs \in Bufs /\ bufs[f] = buf[e][f]
    <3>1. buf[e] \in Bufs /\ Filled(e, d, n) \in Buffer BY TypeFacts, TakenType
    <3> QED BY <1>5, <3>1, NameFacts DEF Bufs
  <2>3. buf[e][f].cursor = 0 \/ buf[e][f].inner = <<>>
    BY <2>1, NameFacts DEF AllCalm, Calm, Parsing
  <2> HIDE DEF bufs
  <2> QED BY <2>1, <2>2, <2>3, SameFacts, RelayUntilCalm
<1>6. CASE d = SecondHand(e) /\ FlushPending(e, n, l)
  <2>1. PICK l2 : MoveTo(e, "lite", [buf[e] EXCEPT ![d] = EmptyBuffer], l2)
    BY <1>6 DEF FlushPending
  <2>2. pc[e] = "pending" /\ UNCHANGED <<seen, version>> BY <1>6 DEF FlushPending
  <2>3. \A nb : Calm("lite", seen[e], version[e], nb)
    BY <2>2 DEF AllCalm, Calm, Parsing
  <2> QED BY <2>1, <2>2, <2>3, SameFacts, CalmStep DEF MoveTo
<1>7. CASE Relay(e, d, n, l) BY <1>7 DEF Relay, AllCalm
<1> QED BY <1>2, <1>3, <1>4, <1>5, <1>6, <1>7

\* An endpoint that returns calls nothing any more.
LEMMA DropCalm ==
  ASSUME IInv, AllCalm, NEW e \in Endpoints, Drop(e), UNCHANGED <<buf, seen, version>>
  PROVE  AllCalm'
<1>1. Calm("closed", seen[e], version[e], buf[e]) BY DEF Calm, Parsing
<1>2. pc'[e] = "closed" /\ \A c \in Endpoints : c # e => pc'[c] = pc[c]
  BY DEF Drop, IInv, TypeOK
<1>3. ASSUME NEW c \in Endpoints PROVE Calm(pc'[c], seen[c], version[c], buf[c])
  <2>1. CASE c = e BY <1>1, <1>2, <2>1
  <2>2. CASE c # e BY <1>2, <1>3, <2>2 DEF AllCalm
  <2> QED BY <2>1, <2>2
<1> QED BY <1>3 DEF AllCalm

\* Initially nothing has been seen or parsed.
LEMMA InitCalm == Init => AllCalm
<1> SUFFICES ASSUME Init, NEW e \in Endpoints PROVE Calm(pc[e], seen[e], version[e], buf[e])
  BY DEF AllCalm
<1>1. pc[e] = "hello" /\ seen[e] = {} /\ version[e] = "None" BY DEF Init
<1>2. \A d \in Directions : buf[e][d].cursor = 0 BY EmptyFacts DEF Init
<1>3. Directions # {} BY DEF Directions
<1> QED BY <1>1, <1>2, <1>3 DEF Calm

\* Every step keeps AllCalm.
LEMMA NextCalm == IInv /\ AllCalm /\ [Next]_vars => AllCalm'
<1> SUFFICES ASSUME IInv, AllCalm, [Next]_vars PROVE AllCalm' OBVIOUS
<1>1. ASSUME NEW d \in Directions, Send(d) \/ CloseSender(d) PROVE AllCalm'
  BY <1>1 DEF Send, CloseSender, AllCalm
<1>2. ASSUME NEW e \in Endpoints, NEW d \in Directions, Read(e, d) PROVE AllCalm'
  BY <1>2, ReadCalm
<1>3. ASSUME NEW e \in Endpoints, NEW d \in Directions, HandshakeEof(e, d) PROVE AllCalm'
  BY <1>3, DropCalm DEF HandshakeEof
<1>4. ASSUME NEW e \in Endpoints, NEW d \in Directions, RelayEof(e, d) PROVE AllCalm'
  BY <1>4 DEF RelayEof, AllCalm
<1>5. ASSUME NEW e \in Endpoints, Abort(e) PROVE AllCalm' BY <1>5, DropCalm DEF Abort
<1>6. ASSUME NEW e \in Endpoints, TlsFailure(e) PROVE AllCalm' BY <1>6, DropCalm DEF TlsFailure
<1>7. CASE UNCHANGED vars BY <1>7 DEF vars, AllCalm
<1> QED BY <1>1, <1>2, <1>3, <1>4, <1>5, <1>6, <1>7 DEF Next

\* No unreachable!() is reached and no slice leaves its buffer, whatever the
\* reads return: witness is called only while one direction is still to be seen,
\* flush_tls only with a version, and every buffer is parsed from its start.
THEOREM NoPanicHolds == Spec => []NoPanic
<1>1. AllCalm => NoPanic BY DEF AllCalm, Calm, NoPanic, Parsing
<1>2. Spec => []AllCalm BY SpecIInv, InitCalm, NextCalm, PTL DEF Spec
<1> QED BY <1>1, <1>2, PTL

(* The parts of sequences. *)

\* The places of a concatenation of units.
LEMMA JoinFacts ==
  ASSUME NEW s \in Seq(Unit), NEW t \in Seq(Unit)
  PROVE  /\ s \o t \in Seq(Unit) /\ Len(s \o t) = Len(s) + Len(t)
         /\ \A i \in 1..Len(s) : (s \o t)[i] = s[i]
         /\ \A i \in 1..Len(t) : (s \o t)[Len(s) + i] = t[i]
  OBVIOUS

\* The two parts of a sequence of units.
LEMMA CutFacts ==
  ASSUME NEW s \in Seq(Unit), NEW n \in 0..Len(s)
  PROVE  /\ SubSeq(s, 1, n) \in Seq(Unit) /\ Len(SubSeq(s, 1, n)) = n
         /\ \A i \in 1..n : SubSeq(s, 1, n)[i] = s[i]
         /\ SubSeq(s, n + 1, Len(s)) \in Seq(Unit) /\ Len(SubSeq(s, n + 1, Len(s))) = Len(s) - n
         /\ \A i \in 1..(Len(s) - n) : SubSeq(s, n + 1, Len(s))[i] = s[n + i]
  OBVIOUS

\* Nothing, all of a sequence, and none of it.
LEMMA EmptySeq ==
  /\ <<>> \in Seq(Unit) /\ Len(<<>>) = 0 /\ Encrypted(<<>>) = <<>>
  /\ \A t \in Seq(Unit) : Len(t) = 0 => t = <<>>
<1>1. <<>> \in Seq(Unit) /\ Len(<<>>) = 0 OBVIOUS
<1>2. \A t \in Seq(Unit) : Len(t) = 0 => t = <<>> OBVIOUS
<1>3. Encrypted(<<>>) \in Seq(Unit) /\ Len(Encrypted(<<>>)) = 0 BY <1>1, CryptFacts
<1> QED BY <1>1, <1>2, <1>3

\* Cutting a sequence at its ends.
LEMMA Whole ==
  ASSUME NEW t, t \in Seq(Unit)
  PROVE  WholeFact(t)
<1>1. Join(<<>>, t) = t BY DEF Join
<1>2. Join(t, <<>>) = t BY DEF Join
<1>3. Upto(t, Len(t)) = t
  <2>1. Upto(t, Len(t)) \in Seq(Unit) /\ Len(Upto(t, Len(t))) = Len(t)
        /\ \A i \in 1..Len(t) : Upto(t, Len(t))[i] = t[i]
    BY CutFacts DEF Upto
  <2> QED BY <2>1
<1>4. Rest(t, Len(t)) = <<>>
  <2>1. Rest(t, Len(t)) \in Seq(Unit) /\ Len(Rest(t, Len(t))) = 0 BY CutFacts DEF Rest
  <2> QED BY <2>1, EmptySeq
<1>5. Upto(t, 0) = <<>>
  <2>1. Upto(t, 0) \in Seq(Unit) /\ Len(Upto(t, 0)) = 0 BY CutFacts DEF Upto
  <2> QED BY <2>1, EmptySeq
<1>6. Rest(t, 0) = t
  <2>1. Rest(t, 0) \in Seq(Unit) /\ Len(Rest(t, 0)) = Len(t)
        /\ \A i \in 1..Len(t) : Rest(t, 0)[i] = t[0 + i]
    BY CutFacts DEF Rest
  <2> QED BY <2>1
<1> QED BY <1>1, <1>2, <1>3, <1>4, <1>5, <1>6 DEF WholeFact

(* The hops and buffers within a step. *)

\* The links after a read.
LEMMA AtDrained ==
  ASSUME IInv, NEW e \in Endpoints, NEW n, n \in Nat
  PROVE  /\ n <= Len(link[FirstHand(e)][1]) =>
              At(e, Drained(e, FirstHand(e), n), Rest(link[FirstHand(e)][1], n), link[FirstHand(e)][2],
                 link[SecondHand(e)][2], link[SecondHand(e)][3])
         /\ n <= Len(link[SecondHand(e)][2]) =>
              At(e, Drained(e, SecondHand(e), n), link[FirstHand(e)][1], link[FirstHand(e)][2],
                 Rest(link[SecondHand(e)][2], n), link[SecondHand(e)][3])
<1> DEFINE f == FirstHand(e)
           s == SecondHand(e)
<1>1. f \in Directions /\ s \in Directions /\ f # s /\ 1 \in Hops /\ 2 \in Hops /\ 3 \in Hops
  BY NameFacts, HopFacts
<1>2. SrcHop(e, f) = 1 /\ SrcHop(e, s) = 2 BY <1>1 DEF SrcHop
<1>3. Source(e, f) = link[f][1] /\ Source(e, s) = link[s][2] BY <1>2 DEF Source
<1>4. link \in Links /\ link[f][1] \in Seq(Unit) /\ link[s][2] \in Seq(Unit) BY <1>1, TypeFacts
<1> HIDE DEF f, s
<1>5. ASSUME n <= Len(link[f][1])
      PROVE  At(e, Drained(e, f, n), Rest(link[f][1], n), link[f][2], link[s][2], link[s][3])
  <2>1. n \in 0..Len(Source(e, f)) BY <1>3, <1>4, <1>5
  <2>2. /\ Drained(e, f, n) \in Links
        /\ Drained(e, f, n)[f][1] = Rest(link[f][1], n)
        /\ \A c \in Directions, h \in Hops : c # f \/ h # 1 => Drained(e, f, n)[c][h] = link[c][h]
    BY <1>1, <1>2, <1>3, <1>4, <2>1, DrainedFacts, SMTT(30) DEF Rest
  <2> QED BY <1>1, <2>2 DEF At, f, s
<1>6. ASSUME n <= Len(link[s][2])
      PROVE  At(e, Drained(e, s, n), link[f][1], link[f][2], Rest(link[s][2], n), link[s][3])
  <2>1. n \in 0..Len(Source(e, s)) BY <1>3, <1>4, <1>6
  <2>2. /\ Drained(e, s, n) \in Links
        /\ Drained(e, s, n)[s][2] = Rest(link[s][2], n)
        /\ \A c \in Directions, h \in Hops : c # s \/ h # 2 => Drained(e, s, n)[c][h] = link[c][h]
    BY <1>1, <1>2, <1>3, <1>4, <2>1, DrainedFacts, SMTT(30) DEF Rest
  <2> QED BY <1>1, <2>2 DEF At, f, s
<1> QED BY <1>5, <1>6 DEF f, s

\* The hops after a write of e to the tunnel or to its receiver.
LEMMA AtPut ==
  ASSUME NEW e, NEW l, NEW in, NEW qf, NEW qs, NEW out, NEW x,
         e \in Endpoints, At(e, l, in, qf, qs, out), x \in Seq(Unit)
  PROVE  /\ At(e, Put(l, FirstHand(e), 2, x), in, Join(qf, x), qs, out)
         /\ At(e, Put(l, SecondHand(e), 3, x), in, qf, qs, Join(out, x))
<1> DEFINE f == FirstHand(e)
           s == SecondHand(e)
<1>1. f \in Directions /\ s \in Directions /\ f # s /\ 1 \in Hops /\ 2 \in Hops /\ 3 \in Hops
  BY NameFacts, HopFacts
<1>2. l \in Links BY DEF At
<1> HIDE DEF f, s
<1>3. /\ Put(l, f, 2, x) \in Links /\ Put(l, f, 2, x)[f][2] = Join(l[f][2], x)
      /\ \A c \in Directions, k \in Hops : c # f \/ k # 2 => Put(l, f, 2, x)[c][k] = l[c][k]
  <2>1. /\ Put(l, f, 2, x) \in Links
        /\ \A c \in Directions, k \in Hops : c # f \/ k # 2 => Put(l, f, 2, x)[c][k] = l[c][k]
    BY <1>1, <1>2, PutFacts
  <2>2. Put(l, f, 2, x)[f][2] = l[f][2] \o x BY <1>1, <1>2, PutFacts
  <2> QED BY <2>1, <2>2 DEF Join
<1>4. /\ Put(l, s, 3, x) \in Links /\ Put(l, s, 3, x)[s][3] = Join(l[s][3], x)
      /\ \A c \in Directions, k \in Hops : c # s \/ k # 3 => Put(l, s, 3, x)[c][k] = l[c][k]
  <2>1. /\ Put(l, s, 3, x) \in Links
        /\ \A c \in Directions, k \in Hops : c # s \/ k # 3 => Put(l, s, 3, x)[c][k] = l[c][k]
    BY <1>1, <1>2, PutFacts
  <2>2. Put(l, s, 3, x)[s][3] = l[s][3] \o x BY <1>1, <1>2, PutFacts
  <2> QED BY <2>1, <2>2 DEF Join
<1>5. At(e, Put(l, f, 2, x), in, Join(qf, x), qs, out) BY <1>1, <1>3 DEF At, f, s
<1>6. At(e, Put(l, s, 3, x), in, qf, qs, Join(out, x)) BY <1>1, <1>4 DEF At, f, s
<1> QED BY <1>5, <1>6 DEF f, s

\* Setting one of the two buffers.
LEMMA BfSet ==
  ASSUME NEW e, NEW bufs, NEW bf, NEW bs, NEW b,
         e \in Endpoints, Bf(e, bufs, bf, bs), b \in Buffer
  PROVE  /\ Bf(e, [bufs EXCEPT ![FirstHand(e)] = b], b, bs)
         /\ Bf(e, [bufs EXCEPT ![SecondHand(e)] = b], bf, b)
<1>1. FirstHand(e) \in Directions /\ SecondHand(e) \in Directions /\ FirstHand(e) # SecondHand(e)
  BY NameFacts
<1> QED BY <1>1 DEF Bf, Bufs

\* What is in the buffers of e after a read.
LEMMA FillWhole ==
  ASSUME IInv, NEW e \in Endpoints, NEW n
  PROVE  /\ SrcHop(e, FirstHand(e)) = 1 /\ DstHop(e, FirstHand(e)) = 2
         /\ SrcHop(e, SecondHand(e)) = 2 /\ DstHop(e, SecondHand(e)) = 3
         /\ Source(e, FirstHand(e)) = link[FirstHand(e)][1]
         /\ Source(e, SecondHand(e)) = link[SecondHand(e)][2]
         /\ Taken(e, FirstHand(e), n) = AsCipher(Upto(link[FirstHand(e)][1], n))
         /\ pc[e] \in InTls => Taken(e, SecondHand(e), n) = Decrypted(Upto(link[SecondHand(e)][2], n))
         /\ pc[e] \notin InTls => Taken(e, SecondHand(e), n) = AsCipher(Upto(link[SecondHand(e)][2], n))
         /\ \A d \in Directions :
              Filled(e, d, n) = [inner |-> Join(buf[e][d].inner, Taken(e, d, n)), cursor |-> buf[e][d].cursor]
<1>1. FirstHand(e) \in Directions /\ SecondHand(e) \in Directions /\ FirstHand(e) # SecondHand(e)
  BY NameFacts
<1>2. /\ SrcHop(e, FirstHand(e)) = 1 /\ DstHop(e, FirstHand(e)) = 2
      /\ SrcHop(e, SecondHand(e)) = 2 /\ DstHop(e, SecondHand(e)) = 3
  BY <1>1 DEF SrcHop, DstHop
<1>3. Source(e, FirstHand(e)) = link[FirstHand(e)][1] /\ Source(e, SecondHand(e)) = link[SecondHand(e)][2]
  BY <1>2 DEF Source
<1>4. Taken(e, FirstHand(e), n) = AsCipher(Upto(link[FirstHand(e)][1], n)) BY <1>2, <1>3 DEF Taken, Upto
<1>5. /\ pc[e] \in InTls => Taken(e, SecondHand(e), n) = Decrypted(Upto(link[SecondHand(e)][2], n))
      /\ pc[e] \notin InTls => Taken(e, SecondHand(e), n) = AsCipher(Upto(link[SecondHand(e)][2], n))
  BY <1>2, <1>3 DEF Taken, Upto
<1>6. \A d \in Directions :
        Filled(e, d, n) = [inner |-> Join(buf[e][d].inner, Taken(e, d, n)), cursor |-> buf[e][d].cursor]
  BY DEF Filled, Join
<1> QED BY <1>2, <1>3, <1>4, <1>5, <1>6

\* Names of the two endpoints.
LEMMA PairFacts ==
  ASSUME NEW e, e \in Endpoints
  PROVE  /\ FirstHand(e) \in Directions /\ SecondHand(e) \in Directions /\ FirstHand(e) # SecondHand(e)
         /\ Directions = {FirstHand(e), SecondHand(e)}
         /\ Peer(e) \in Endpoints /\ Peer(e) # e /\ Endpoints = {e, Peer(e)} /\ Peer(Peer(e)) = e
         /\ FirstHand(Peer(e)) = SecondHand(e) /\ SecondHand(Peer(e)) = FirstHand(e)
  BY NameFacts DEF Endpoints, Peer

(* One direction of the tunnel. *)

\* The parts and the concatenation by their units.
LEMMA PartFacts ==
  ASSUME NEW s \in Seq(Unit), NEW n \in 0..Len(s)
  PROVE  /\ Upto(s, n) \in Seq(Unit) /\ Len(Upto(s, n)) = n /\ \A i \in 1..n : Upto(s, n)[i] = s[i]
         /\ Rest(s, n) \in Seq(Unit) /\ Len(Rest(s, n)) = Len(s) - n
         /\ \A i \in 1..(Len(s) - n) : Rest(s, n)[i] = s[n + i]
  BY CutFacts DEF Upto, Rest

LEMMA JoinParts ==
  ASSUME NEW s \in Seq(Unit), NEW t \in Seq(Unit)
  PROVE  /\ Join(s, t) \in Seq(Unit) /\ Len(Join(s, t)) = Len(s) + Len(t)
         /\ \A i \in 1..Len(s) : Join(s, t)[i] = s[i]
         /\ \A i \in 1..Len(t) : Join(s, t)[Len(s) + i] = t[i]
         /\ \A i \in 1..(Len(s) + Len(t)) :
              \/ i \in 1..Len(s) /\ Join(s, t)[i] = s[i]
              \/ i - Len(s) \in 1..Len(t) /\ Join(s, t)[i] = t[i - Len(s)]
  BY ConcatFacts DEF Join

\* What goes through the session by its units.
LEMMA CryptParts ==
  ASSUME NEW s \in Seq(Unit)
  PROVE  /\ Encrypted(s) \in Seq(Unit) /\ Len(Encrypted(s)) = Len(s)
         /\ Decrypted(s) \in Seq(Unit) /\ Len(Decrypted(s)) = Len(s)
         /\ \A i \in 1..Len(s) :
              /\ Encrypted(s)[i].val = s[i].val /\ Encrypted(s)[i].idx = s[i].idx /\ Encrypted(s)[i].enc = TRUE
              /\ Decrypted(s)[i].val = s[i].val /\ Decrypted(s)[i].idx = s[i].idx /\ Decrypted(s)[i].enc = FALSE
<1>1. /\ Encrypted(s) \in Seq(Unit) /\ Len(Encrypted(s)) = Len(s)
      /\ Decrypted(s) \in Seq(Unit) /\ Len(Decrypted(s)) = Len(s)
  BY CryptFacts
<1>2. ASSUME NEW i \in 1..Len(s)
      PROVE  /\ Encrypted(s)[i].val = s[i].val /\ Encrypted(s)[i].idx = s[i].idx /\ Encrypted(s)[i].enc = TRUE
             /\ Decrypted(s)[i].val = s[i].val /\ Decrypted(s)[i].idx = s[i].idx /\ Decrypted(s)[i].enc = FALSE
  <2> DEFINE x == Encrypted(s)[i]
             y == Decrypted(s)[i]
             u == s[i].val
             j == s[i].idx
  <2>1. x = [val |-> u, idx |-> j, enc |-> TRUE] /\ y = [val |-> u, idx |-> j, enc |-> FALSE] BY CryptFacts
  <2> HIDE DEF x, y, u, j
  <2>2. x.val = u /\ x.idx = j /\ x.enc = TRUE /\ y.val = u /\ y.idx = j /\ y.enc = FALSE BY <2>1
  <2> QED BY <2>2 DEF x, y, u, j
<1> QED BY <1>1, <1>2

\* A prefix by its units.
LEMMA PrefixFacts ==
  ASSUME NEW x \in Seq(Unit), NEW z, Prefix(z, x)
  PROVE  z \in Seq(Unit) /\ Len(z) <= Len(x) /\ \A i \in 1..Len(z) : i \in 1..Len(x) /\ z[i] = x[i]
<1>1. PICK j \in 0..Len(x) : z = Upto(x, j) BY DEF Prefix
<1>2. z \in Seq(Unit) /\ Len(z) = j /\ \A i \in 1..j : z[i] = x[i] BY <1>1, PartFacts
<1>3. \A i \in 1..j : i \in 1..Len(x) OBVIOUS
<1> QED BY <1>2, <1>3

\* The rest of a tunnel is shut if the tunnel is.
LEMMA ShutRest ==
  ASSUME NEW q, Shut(q), q \in Seq(Unit), NEW m, m \in Nat, NEW r, r \in Seq(Unit),
         \A i \in 1..Len(r) : m + i \in 1..Len(q) /\ r[i] = q[m + i]
  PROVE  Shut(r)
<1> USE LengthAssumption
<1>1. ASSUME NEW j \in 1..Len(r), r[j].val = "0xff", NEW i \in 1..Len(r), i >= j + RecLen
      PROVE  r[i].enc = FALSE
  <2>1. m + j \in 1..Len(q) /\ q[m + j].val = "0xff" /\ m + i \in 1..Len(q) /\ r[i] = q[m + i] BY <1>1
  <2>2. m + i >= (m + j) + RecLen BY <1>1
  <2> QED BY <2>1, <2>2 DEF Shut
<1>2. ASSUME NEW j \in 1..Len(r), r[j].val = "0xff" PROVE r[j].enc = TRUE
  <2>1. m + j \in 1..Len(q) /\ q[m + j].val = "0xff" BY <1>2
  <2> QED BY <2>1 DEF Shut
<1>3. ASSUME NEW i \in 1..Len(r), NEW j \in 1..Len(r), i < j, r[i].enc = FALSE PROVE r[j].enc = FALSE
  <2>1. m + i \in 1..Len(q) /\ m + j \in 1..Len(q) /\ q[m + i].enc = FALSE BY <1>3
  <2>2. m + i < m + j BY <1>3
  <2> QED BY <2>1, <2>2 DEF Shut
<1> QED BY <1>1, <1>2, <1>3 DEF Shut

\* A sender that is still in TLS has sent no command, and nobody has got one.
LEMMA WayOpen ==
  ASSUME NEW w, NEW v, NEW q, NEW vp, NEW b, Way(w, v, q, vp, b), w \notin Gone
  PROVE  ~Has0xff(b) /\ ~Has0xff(q) /\ vp = "None"
  BY DEF Way

\* It sends bytes inside TLS,
LEMMA WaySendTls ==
  ASSUME NEW w, NEW v, NEW q, NEW vp, NEW b, Way(w, v, q, vp, b), w \notin Gone, v = "None",
         q \in Seq(Unit), NEW x, x \in Seq(Unit), ~Has0xff(x), NEW w2
  PROVE  Way(w2, v, Join(q, Encrypted(x)), vp, b)
<1> DEFINE y == Encrypted(x)
           r == Join(q, y)
<1>1. ~Has0xff(b) /\ ~Has0xff(q) /\ vp = "None" BY WayOpen
<1>2. y \in Seq(Unit) /\ Len(y) = Len(x)
      /\ \A i \in 1..Len(x) : y[i].val = x[i].val /\ y[i].enc = TRUE
  BY CryptParts
<1> HIDE DEF y
<1>3. r \in Seq(Unit) /\ Len(r) = Len(q) + Len(y)
      /\ \A i \in 1..(Len(q) + Len(y)) :
           \/ i \in 1..Len(q) /\ r[i] = q[i]
           \/ i - Len(q) \in 1..Len(y) /\ r[i] = y[i - Len(q)]
  BY <1>2, JoinParts
<1> HIDE DEF r
<1>4. \A i \in 1..Len(q) : q[i].enc = TRUE /\ q[i].val # "0xff" BY <1>1 DEF Way, Has0xff
<1>5. \A i \in 1..Len(y) : y[i].enc = TRUE /\ y[i].val # "0xff" BY <1>2 DEF Has0xff
<1>6. \A i \in 1..Len(r) : r[i].enc = TRUE /\ r[i].val # "0xff" BY <1>3, <1>4, <1>5
<1>7. ~Has0xff(r) /\ Closing(b, r) BY <1>1, <1>6 DEF Has0xff, Closing, Shut
<1>8. Way(w2, v, r, vp, b) BY <1>1, <1>6, <1>7 DEF Way
<1> QED BY <1>8 DEF r, y

\* sends bytes and a command behind them, and is on its way out,
LEMMA WaySendCommand ==
  ASSUME NEW w, NEW v, NEW q, NEW vp, NEW b, Way(w, v, q, vp, b), w \notin Gone, v = "None",
         q \in Seq(Unit), NEW x, x \in Seq(Unit), ~Has0xff(x), NEW w2, w2 \in Gone
  PROVE  Way(w2, v, Join(q, Encrypted(Join(x, LEAVE_TLS_COMMAND))), vp, b)
<1> USE LengthAssumption
<1> DEFINE c == LEAVE_TLS_COMMAND
           t == Join(x, c)
           y == Encrypted(t)
           r == Join(q, y)
<1>1. ~Has0xff(b) /\ ~Has0xff(q) /\ vp = "None" BY WayOpen
<1>2. c \in Seq(Unit) /\ Len(c) = RecLen /\ \A i \in 1..RecLen : c[i].val = "0xff" => i = 1
  BY LeaveFacts DEF LEAVE_TLS_COMMAND
<1> HIDE DEF c
<1>3. t \in Seq(Unit) /\ Len(t) = Len(x) + RecLen
      /\ \A i \in 1..Len(t) : t[i].val = "0xff" => i = Len(x) + 1
  <2>1. t \in Seq(Unit) /\ Len(t) = Len(x) + RecLen
        /\ \A i \in 1..(Len(x) + Len(c)) :
             \/ i \in 1..Len(x) /\ t[i] = x[i]
             \/ i - Len(x) \in 1..Len(c) /\ t[i] = c[i - Len(x)]
    BY <1>2, JoinParts
  <2>2. ASSUME NEW i \in 1..Len(t), t[i].val = "0xff" PROVE i = Len(x) + 1
    <3>1. i \in 1..(Len(x) + Len(c)) BY <1>2, <2>1
    <3>2. ~(i \in 1..Len(x) /\ t[i] = x[i]) BY <2>2 DEF Has0xff
    <3>3. i - Len(x) \in 1..Len(c) /\ c[i - Len(x)].val = "0xff" BY <2>1, <2>2, <3>1, <3>2
    <3>4. i - Len(x) = 1 BY <1>2, <3>3
    <3> QED BY <3>1, <3>4
  <2> QED BY <2>1, <2>2
<1> HIDE DEF t
<1>4. y \in Seq(Unit) /\ Len(y) = Len(t)
      /\ \A i \in 1..Len(t) : y[i].val = t[i].val /\ y[i].enc = TRUE
  BY <1>3, CryptParts
<1> HIDE DEF y
<1>5. r \in Seq(Unit) /\ Len(r) = Len(q) + Len(y)
      /\ \A i \in 1..(Len(q) + Len(y)) :
           \/ i \in 1..Len(q) /\ r[i] = q[i]
           \/ i - Len(q) \in 1..Len(y) /\ r[i] = y[i - Len(q)]
  BY <1>4, JoinParts
<1> HIDE DEF r
<1>6. \A i \in 1..Len(q) : q[i].enc = TRUE /\ q[i].val # "0xff" BY <1>1 DEF Way, Has0xff
<1>7. ASSUME NEW i \in 1..Len(r) PROVE r[i].enc = TRUE /\ (r[i].val = "0xff" => i = Len(q) + Len(x) + 1)
  <2>1. CASE i \in 1..Len(q) /\ r[i] = q[i] BY <1>6, <2>1
  <2>2. CASE i - Len(q) \in 1..Len(y) /\ r[i] = y[i - Len(q)]
    <3>1. i - Len(q) \in 1..Len(t) BY <1>4, <2>2
    <3>2. r[i].enc = TRUE /\ r[i].val = t[i - Len(q)].val BY <1>4, <2>2, <3>1
    <3>3. r[i].val = "0xff" => i - Len(q) = Len(x) + 1 BY <1>3, <3>1, <3>2
    <3> QED BY <3>2, <3>3
  <2> QED BY <1>5, <2>1, <2>2
<1>8. Len(r) = Len(q) + Len(x) + RecLen BY <1>3, <1>4, <1>5
<1>9. \A j \in 1..Len(r) : r[j].val = "0xff" => ~\E i \in 1..Len(r) : i >= j + RecLen 
  <2> SUFFICES ASSUME NEW j \in 1..Len(r), r[j].val = "0xff", NEW i \in 1..Len(r), i >= j + RecLen PROVE FALSE
    OBVIOUS
  <2>1. j = Len(q) + Len(x) + 1 BY <1>7
  <2> QED BY <1>8, <2>1
<1>10. Closing(b, r) BY <1>1, <1>7, <1>9 DEF Closing, Shut, Has0xff
<1>11. Way(w2, v, r, vp, b) BY <1>1, <1>7, <1>10 DEF Way
<1> QED BY <1>11 DEF r, y, t, c

\* sends plain bytes behind its command,
LEMMA WaySendPlain ==
  ASSUME NEW w, NEW v, NEW q, NEW vp, NEW b, Way(w, v, q, vp, b), w \in Gone, b \in Seq(Unit),
         q \in Seq(Unit), NEW x, x \in Seq(Unit), \A i \in 1..Len(x) : x[i].enc = FALSE /\ x[i].val # "0xff",
         NEW w2, w2 \in Gone, NEW v2, v2 # "None"
  PROVE  Way(w2, v2, Join(q, x), vp, b)
<1> USE LengthAssumption
<1> DEFINE r == Join(q, x)
<1>1. r \in Seq(Unit) /\ Len(r) = Len(q) + Len(x)
      /\ \A i \in 1..(Len(q) + Len(x)) :
           \/ i \in 1..Len(q) /\ r[i] = q[i]
           \/ i - Len(q) \in 1..Len(x) /\ r[i] = x[i - Len(q)]
  BY JoinParts
<1> HIDE DEF r
<1>2. Closing(b, q) BY DEF Way
<1>3. \A i \in 1..Len(r) : i \notin 1..Len(q) => r[i].enc = FALSE /\ r[i].val # "0xff" BY <1>1
<1>4. \A i \in 1..Len(r) : i \in 1..Len(q) => r[i] = q[i] BY <1>1
<1>5. \A i, j \in 1..Len(r) : i < j /\ i \notin 1..Len(q) => j \notin 1..Len(q) BY <1>1
<1>6. Closing(b, r)
  <2>1. \A j \in 1..Len(b) : b[j].val = "0xff" =>
          /\ Len(b) < j + RecLen
          /\ \A i \in 1..Len(r) : Len(b) + i >= j + RecLen => r[i].enc = FALSE
    BY <1>2, <1>3, <1>4 DEF Closing
  <2>2. \A j \in 1..Len(r) : r[j].val = "0xff" =>
          r[j].enc = TRUE /\ \A i \in 1..Len(r) : i >= j + RecLen => r[i].enc = FALSE
    BY <1>2, <1>3, <1>4 DEF Closing, Shut
  <2>3. \A i, j \in 1..Len(r) : i < j /\ r[i].enc = FALSE => r[j].enc = FALSE
    BY <1>2, <1>3, <1>4, <1>5 DEF Closing, Shut
  <2> QED BY <2>1, <2>2, <2>3 DEF Closing, Shut
<1>7. vp # "None" => \A i \in 1..Len(r) : r[i].enc = FALSE BY <1>3, <1>4 DEF Way
<1>8. Way(w2, v2, r, vp, b) BY <1>6, <1>7 DEF Way
<1> QED BY <1>8 DEF r

\* or only moves on.
LEMMA WayMove ==
  ASSUME NEW w, NEW v, NEW q, NEW vp, NEW b, Way(w, v, q, vp, b),
         NEW w2, w \in Gone => w2 \in Gone, NEW v2, v2 = "None" => v = "None"
  PROVE  Way(w2, v2, q, vp, b)
  BY DEF Way

\* The receiver reads n units inside TLS, and its session keeps some of what follows,
LEMMA WayReadTls ==
  ASSUME NEW w, NEW v, NEW q, NEW vp, NEW b, Way(w, v, q, vp, b), q \in Seq(Unit), b \in Seq(Unit),
         NEW n, NEW m, n \in Nat, m \in Nat, n <= m, m <= Len(q), \A i \in 1..n : q[i].enc = TRUE
  PROVE  Way(w, v, Rest(q, m), vp, Join(b, Decrypted(Upto(q, n))))
<1> USE LengthAssumption
<1> DEFINE u == Upto(q, n)
           t == Decrypted(u)
           x == Join(b, t)
           r == Rest(q, m)
<1>1. n \in 0..Len(q) /\ m \in 0..Len(q) OBVIOUS
<1>2. u \in Seq(Unit) /\ Len(u) = n /\ \A i \in 1..n : u[i] = q[i] BY <1>1, PartFacts
<1>3. r \in Seq(Unit) /\ Len(r) = Len(q) - m /\ \A i \in 1..(Len(q) - m) : r[i] = q[m + i]
  BY <1>1, PartFacts
<1> HIDE DEF u, r
<1>4. t \in Seq(Unit) /\ Len(t) = n /\ \A i \in 1..n : t[i].val = q[i].val
  <2>1. t \in Seq(Unit) /\ Len(t) = Len(u) /\ \A i \in 1..Len(u) : t[i].val = u[i].val BY <1>2, CryptParts
  <2> QED BY <1>2, <2>1
<1> HIDE DEF t
<1>5. x \in Seq(Unit) /\ Len(x) = Len(b) + n
      /\ \A i \in 1..(Len(b) + n) :
           \/ i \in 1..Len(b) /\ x[i] = b[i]
           \/ i - Len(b) \in 1..n /\ x[i] = t[i - Len(b)]
  <2>1. t \in Seq(Unit) /\ Len(t) = n BY <1>4
  <2>2. x \in Seq(Unit) /\ Len(x) = Len(b) + Len(t) BY <2>1, JoinParts
  <2>3. \A i \in 1..(Len(b) + Len(t)) :
          \/ i \in 1..Len(b) /\ x[i] = b[i]
          \/ i - Len(b) \in 1..Len(t) /\ x[i] = t[i - Len(b)]
    BY <2>1, JoinParts
  <2> HIDE DEF x
  <2> QED BY <2>1, <2>2, <2>3
<1> HIDE DEF x
<1>6. Closing(b, q) BY DEF Way
<1>7. \A i \in 1..Len(r) : m + i \in 1..Len(q) /\ r[i] = q[m + i] BY <1>1, <1>3
<1>8. ASSUME NEW j \in 1..Len(x), x[j].val = "0xff"
      PROVE  /\ Len(x) < j + RecLen
             /\ \A i \in 1..Len(r) : Len(x) + i >= j + RecLen => r[i].enc = FALSE
             /\ Has0xff(b) \/ Has0xff(q)
  <2>1. CASE j \in 1..Len(b) /\ x[j] = b[j]
    <3>1. /\ Len(b) < j + RecLen
          /\ \A i \in 1..Len(q) : Len(b) + i >= j + RecLen => q[i].enc = FALSE
      BY <1>6, <1>8, <2>1 DEF Closing
    <3>2. Len(b) + n < j + RecLen
      <4>1. CASE n = 0 BY <3>1, <4>1
      <4>2. CASE n > 0
        <5>1. n \in 1..Len(q) /\ n \in 1..n BY <4>2
        <5>2. q[n].enc # FALSE BY <5>1
        <5> QED BY <2>1, <3>1, <5>1, <5>2
      <4> QED BY <4>1, <4>2
    <3>3. ASSUME NEW i \in 1..Len(r), Len(x) + i >= j + RecLen PROVE r[i].enc = FALSE
      <4>1. m + i \in 1..Len(q) /\ r[i] = q[m + i] BY <1>7
      <4>2. Len(b) + (m + i) >= j + RecLen BY <1>5, <2>1, <3>3
      <4> QED BY <3>1, <4>1, <4>2
    <3> QED BY <1>5, <1>8, <2>1, <3>2, <3>3 DEF Has0xff
  <2>2. CASE j - Len(b) \in 1..n /\ x[j] = t[j - Len(b)]
    <3> DEFINE g == j - Len(b)
    <3>1. g \in 1..Len(q) /\ g \in 1..n /\ q[g].val = "0xff" BY <1>4, <1>8, <2>2
    <3>2. j = Len(b) + g /\ Len(b) \in Nat BY <2>2
    <3> HIDE DEF g
    <3>3. \A i \in 1..Len(q) : i >= g + RecLen => q[i].enc = FALSE BY <1>6, <3>1 DEF Closing, Shut
    <3>4. n < g + RecLen
      <4>1. n \in 1..Len(q) /\ n \in 1..n BY <3>1
      <4>2. q[n].enc # FALSE BY <4>1
      <4> QED BY <3>1, <3>3, <4>1, <4>2
    <3>5. Len(x) < j + RecLen BY <1>5, <3>1, <3>2, <3>4
    <3>6. ASSUME NEW i \in 1..Len(r), Len(x) + i >= j + RecLen PROVE r[i].enc = FALSE
      <4>1. m + i \in 1..Len(q) /\ r[i] = q[m + i] BY <1>7
      <4>2. m + i >= g + RecLen BY <1>5, <3>1, <3>2, <3>6
      <4> QED BY <3>3, <4>1, <4>2
    <3> QED BY <3>1, <3>5, <3>6 DEF Has0xff
  <2> QED BY <1>5, <2>1, <2>2
<1>9. Shut(r) BY <1>3, <1>6, <1>7, ShutRest DEF Closing
<1>11. Closing(x, r) BY <1>8, <1>9 DEF Closing
<1>12. Has0xff(x) => Has0xff(b) \/ Has0xff(q) BY <1>8 DEF Has0xff
<1>13. Has0xff(r) => Has0xff(q) BY <1>7 DEF Has0xff
<1>14. Way(w, v, r, vp, x) BY <1>7, <1>11, <1>12, <1>13 DEF Way
<1> QED BY <1>14 DEF r, x, t, u

\* passes on or drops the first m units of its buffer,
LEMMA WayPop ==
  ASSUME NEW w, NEW v, NEW q, NEW vp, NEW b, Way(w, v, q, vp, b), q \in Seq(Unit), b \in Seq(Unit),
         NEW m, m \in 0..Len(b)
  PROVE  Way(w, v, q, vp, Rest(b, m))
<1> USE LengthAssumption
<1> DEFINE x == Rest(b, m)
<1>1. x \in Seq(Unit) /\ Len(x) = Len(b) - m /\ \A i \in 1..(Len(b) - m) : x[i] = b[m + i] BY PartFacts
<1> HIDE DEF x
<1>2. \A j \in 1..Len(x) : m + j \in 1..Len(b) /\ x[j] = b[m + j] BY <1>1
<1>3. Closing(b, q) BY DEF Way
<1>4. Closing(x, q)
  <2>1. ASSUME NEW j \in 1..Len(x), x[j].val = "0xff"
        PROVE  /\ Len(x) < j + RecLen
               /\ \A i \in 1..Len(q) : Len(x) + i >= j + RecLen => q[i].enc = FALSE
    <3>1. m + j \in 1..Len(b) /\ b[m + j].val = "0xff" BY <1>2, <2>1
    <3>2. /\ Len(b) < (m + j) + RecLen
          /\ \A i \in 1..Len(q) : Len(b) + i >= (m + j) + RecLen => q[i].enc = FALSE
      BY <1>3, <3>1 DEF Closing
    <3> QED BY <1>1, <3>2
  <2> QED BY <1>3, <2>1 DEF Closing
<1>5. Has0xff(x) => Has0xff(b) BY <1>2 DEF Has0xff
<1>6. Way(w, v, q, vp, x) BY <1>4, <1>5 DEF Way
<1> QED BY <1>6 DEF x

\* holds nothing any more,
LEMMA WayEmpty ==
  ASSUME NEW w, NEW v, NEW q, NEW vp, NEW b, Way(w, v, q, vp, b), q \in Seq(Unit),
         NEW m, m \in 0..Len(q)
  PROVE  Way(w, v, Rest(q, m), vp, <<>>) /\ Way(w, v, q, vp, <<>>)
<1> USE LengthAssumption
<1> DEFINE r == Rest(q, m)
<1>1. r \in Seq(Unit) /\ Len(r) = Len(q) - m /\ \A i \in 1..(Len(q) - m) : r[i] = q[m + i] BY PartFacts
<1> HIDE DEF r
<1>2. \A j \in 1..Len(r) : m + j \in 1..Len(q) /\ r[j] = q[m + j] BY <1>1
<1>3. Closing(b, q) BY DEF Way
<1>4. ~\E j : j \in 1..Len(<<>>) BY EmptySeq
<1>5. Closing(<<>>, r)
  <2>1. Shut(r)
    <3>1. m \in Nat OBVIOUS
    <3> QED BY <1>1, <1>2, <1>3, <3>1, ShutRest DEF Closing
  <2> QED BY <1>4, <2>1 DEF Closing
<1>6. Closing(<<>>, q) BY <1>3, <1>4 DEF Closing
<1>7. (Has0xff(r) => Has0xff(q)) /\ ~Has0xff(<<>>) BY <1>2, <1>4 DEF Has0xff
<1>8. Way(w, v, r, vp, <<>>) BY <1>2, <1>5, <1>7 DEF Way
<1>9. Way(w, v, q, vp, <<>>) BY <1>6, <1>7 DEF Way
<1> QED BY <1>8, <1>9 DEF r

\* or has the command and leaves.
LEMMA WayLeave ==
  ASSUME NEW w, NEW v, NEW q, NEW vp, NEW b, Way(w, v, q, vp, b), q \in Seq(Unit), b \in Seq(Unit),
         NEW p, CommandAt(b, p), NEW vp2
  PROVE  /\ w \in Gone /\ Way(w, v, q, vp2, <<>>) /\ Way(w, v, q, vp2, Upto(b, p))
<1> USE LengthAssumption
<1>1. p \in Nat /\ p + RecLen <= Len(b) /\ b[p + 1].val = "0xff" /\ p + 1 \in 1..Len(b) /\ p \in 0..Len(b)
  BY DEF CommandAt
<1>2. Closing(b, q) BY DEF Way
<1>3. w \in Gone BY <1>1 DEF Way, Has0xff
<1>4. \A i \in 1..Len(q) : q[i].enc = FALSE
  <2>1. \A i \in 1..Len(q) : Len(b) + i >= p + 1 + RecLen => q[i].enc = FALSE BY <1>1, <1>2 DEF Closing
  <2> QED BY <1>1, <2>1
<1> DEFINE x == Upto(b, p)
<1>5. x \in Seq(Unit) /\ Len(x) = p /\ \A i \in 1..p : x[i] = b[i] BY <1>1, PartFacts
<1> HIDE DEF x
<1>6. \A j \in 1..Len(x) : x[j].val # "0xff"
  <2> SUFFICES ASSUME NEW j \in 1..Len(x), x[j].val = "0xff" PROVE FALSE OBVIOUS
  <2>1. j \in 1..Len(b) /\ b[j].val = "0xff" /\ j <= p BY <1>1, <1>5
  <2>2. Len(b) < j + RecLen BY <1>2, <2>1 DEF Closing
  <2> QED BY <1>1, <2>1, <2>2
<1>7. ~\E j : j \in 1..Len(<<>>) BY EmptySeq
<1>8. Closing(x, q) /\ Closing(<<>>, q) BY <1>2, <1>4, <1>6, <1>7 DEF Closing
<1>9. Way(w, v, q, vp2, <<>>) BY <1>3, <1>4, <1>8 DEF Way
<1>10. Way(w, v, q, vp2, x) BY <1>3, <1>4, <1>8 DEF Way
<1> QED BY <1>3, <1>9, <1>10 DEF x

(* The ends of a step. *)

\* What a buffer gives away and keeps.
LEMMA PopCut ==
  ASSUME NEW b, b \in Buffer
  PROVE  /\ Cut(b) \in 0..Len(b.inner) /\ b.inner \in Seq(Unit)
         /\ checked_packets(b) = Upto(b.inner, Cut(b))
         /\ pop_checked_packets(b) \in Buffer /\ pop_checked_packets(b).inner = Rest(b.inner, Cut(b))
         /\ b.cursor < Len(b.inner) => Cut(b) = b.cursor
<1>1. b.inner \in Seq(Unit) /\ b.cursor \in Nat /\ Len(b.inner) \in Nat BY DEF Buffer
<1>2. Cut(b) \in 0..Len(b.inner) /\ (b.cursor < Len(b.inner) => Cut(b) = b.cursor) BY <1>1 DEF Cut
<1>3. WholeFact(b.inner) BY <1>1, Whole
<1>4. checked_packets(b) = Upto(b.inner, Cut(b))
  BY <1>1, <1>3 DEF checked_packets, Cut, Upto, WholeFact
<1>5. pop_checked_packets(b) \in Buffer BY PopFacts
<1>6. pop_checked_packets(b).inner = Rest(b.inner, Cut(b))
  BY <1>1, <1>3 DEF pop_checked_packets, Cut, Rest, WholeFact
<1> QED BY <1>1, <1>2, <1>4, <1>5, <1>6

\* Writes accept all inside TLS, and a prefix elsewhere.
LEMMA WriteFacts ==
  ASSUME NEW l, NEW d, NEW x, x \in Seq(Unit), NEW m
  PROVE  /\ m \in WriteTls(l, d, 2, x) => m = Put(l, d, 2, Encrypted(x))
         /\ m \in WriteTls(l, d, 3, x) => \E z : Prefix(z, x) /\ m = Put(l, d, 3, z)
         /\ m \in WriteRaw(l, d, 2, x) => \E z : Prefix(z, x) /\ m = Put(l, d, 2, z)
         /\ m \in WriteRaw(l, d, 3, x) => \E z : Prefix(z, x) /\ m = Put(l, d, 3, z)
<1>1. ASSUME NEW t \in Accepted(x) PROVE Prefix(t, x)
  <2>1. Len(x) \in Nat /\ Len(x) \in 0..Len(x) OBVIOUS
  <2>2. x = Upto(x, Len(x)) BY Whole DEF WholeFact
  <2>3. t = x => Prefix(t, x) BY <2>1, <2>2 DEF Prefix
  <2>4. ASSUME NEW k \in 1..Len(x), t = SubSeq(x, 1, k) PROVE Prefix(t, x)
    <3>1. k \in 0..Len(x) BY <2>1
    <3> QED BY <2>4, <3>1 DEF Prefix, Upto
  <2> QED BY <1>1, <2>3, <2>4 DEF Accepted
<1>2. m \in WriteTls(l, d, 2, x) => m = Put(l, d, 2, Encrypted(x)) BY DEF WriteTls
<1>3. m \in WriteTls(l, d, 3, x) => \E z : Prefix(z, x) /\ m = Put(l, d, 3, z) BY <1>1 DEF WriteTls
<1>4. m \in WriteRaw(l, d, 2, x) => \E z : Prefix(z, x) /\ m = Put(l, d, 2, z) BY <1>1 DEF WriteRaw
<1>5. m \in WriteRaw(l, d, 3, x) => \E z : Prefix(z, x) /\ m = Put(l, d, 3, z) BY <1>1 DEF WriteRaw
<1> QED BY <1>2, <1>3, <1>4, <1>5

\* The empty prefix, and the prefix of nothing.
LEMMA PrefixEmpty ==
  ASSUME NEW x, x \in Seq(Unit)
  PROVE  Prefix(<<>>, x) /\ Prefix(<<>>, Upto(x, 0))
<1>1. 0 \in 0..Len(x) /\ Upto(x, 0) = <<>> BY Whole DEF WholeFact
<1>2. <<>> \in Seq(Unit) /\ 0 \in 0..Len(<<>>) BY EmptySeq
<1>3. Upto(<<>>, 0) = <<>> BY <1>2, Whole DEF WholeFact
<1> QED BY <1>1, <1>2, <1>3 DEF Prefix

\* A write of nothing.
LEMMA AtSame ==
  ASSUME NEW e, NEW l, NEW in, NEW qf, NEW qs, NEW out, e \in Endpoints, At(e, l, in, qf, qs, out)
  PROVE  At(e, l, in, Join(qf, <<>>), qs, out) /\ At(e, l, in, qf, qs, Join(out, <<>>))
<1>1. FirstHand(e) \in Directions /\ SecondHand(e) \in Directions /\ 2 \in Hops /\ 3 \in Hops
  BY PairFacts, HopFacts
<1>2. qf \in Seq(Unit) /\ out \in Seq(Unit) BY <1>1 DEF At, Links
<1>3. Join(qf, <<>>) = qf /\ Join(out, <<>>) = out BY <1>2, Whole DEF WholeFact
<1> QED BY <1>3

\* The version, if a step leaves it alone.
LEMMA SameVersion ==
  ASSUME IInv, NEW e, e \in Endpoints, UNCHANGED version
  PROVE  version' = [version EXCEPT ![e] = version[e]]
  BY SameFacts

\* flush_non_tls passes both buffers on.
LEMMA FlushNonTlsShape ==
  ASSUME IInv, NEW e, NEW bufs, NEW l, NEW in, NEW qf, NEW qs, NEW out, NEW bf, NEW bs,
         e \in Endpoints, At(e, l, in, qf, qs, out), Bf(e, bufs, bf, bs), flush_non_tls(e, bufs, l)
  PROVE  Passes(e, in, qf, qs, out, bf.inner, bs.inner)
<1> DEFINE f == FirstHand(e)
           s == SecondHand(e)
           xf == bf.inner
           xs == bs.inner
           y == Encrypted(xf)
           nb == [d \in Directions |-> EmptyBuffer]
<1>1. /\ f \in Directions /\ s \in Directions /\ DstHop(e, f) = 2 /\ DstHop(e, s) = 3
  <2>1. f # s /\ f \in Directions /\ s \in Directions BY PairFacts
  <2> QED BY <2>1 DEF DstHop, SrcHop
<1>2. Bf(e, nb, EmptyBuffer, EmptyBuffer) BY <1>1, EmptyFacts DEF Bf, Bufs
<1>3. bf \in Buffer /\ bs \in Buffer /\ bf = bufs[f] /\ bs = bufs[s] BY <1>1 DEF Bf, Bufs
<1>4. xf \in Seq(Unit) /\ xs \in Seq(Unit) BY <1>3 DEF Buffer
<1>5. y \in Seq(Unit) BY <1>4, CryptFacts
<1>6. \E l3, z : /\ Prefix(z, xs) /\ At(e, l3, in, Join(qf, y), qs, Join(out, z))
                 /\ MoveTo(e, "tcp", nb, l3) /\ UNCHANGED version
  <2>1. CASE e = "client"
    <3>1. f = "Inbound" /\ s = "Outbound" BY <2>1 DEF FirstHand, SecondHand
    <3>2. PICK l2 \in WriteTls(l, f, 2, xf) : \E l3 \in WriteTls(l2, s, 3, xs) :
             MoveTo(e, "tcp", nb, l3) /\ UNCHANGED version
      BY <1>1, <1>3, <3>1 DEF flush_non_tls
    <3>3. PICK l3 \in WriteTls(l2, s, 3, xs) : MoveTo(e, "tcp", nb, l3) /\ UNCHANGED version BY <3>2
    <3>4. l2 = Put(l, f, 2, y) BY <1>4, <3>2, WriteFacts
    <3>5. PICK z : Prefix(z, xs) /\ l3 = Put(l2, s, 3, z) BY <1>4, <3>3, WriteFacts
    <3>6. z \in Seq(Unit) BY <1>4, <3>5, PrefixFacts
    <3> HIDE DEF xf, xs, y, nb
    <3>7. At(e, l2, in, Join(qf, y), qs, out) BY <1>5, <3>4, AtPut
    <3>8. At(e, l3, in, Join(qf, y), qs, Join(out, z)) BY <3>5, <3>6, <3>7, AtPut
    <3> QED BY <3>3, <3>5, <3>8
  <2>2. CASE e = "server"
    <3>1. s = "Inbound" /\ f = "Outbound" BY <2>2 DEF FirstHand, SecondHand
    <3>2. PICK l2 \in WriteTls(l, s, 3, xs) : \E l3 \in WriteTls(l2, f, 2, xf) :
             MoveTo(e, "tcp", nb, l3) /\ UNCHANGED version
      BY <1>1, <1>3, <3>1 DEF flush_non_tls
    <3>3. PICK l3 \in WriteTls(l2, f, 2, xf) : MoveTo(e, "tcp", nb, l3) /\ UNCHANGED version BY <3>2
    <3>4. l3 = Put(l2, f, 2, y) BY <1>4, <3>3, WriteFacts
    <3>5. PICK z : Prefix(z, xs) /\ l2 = Put(l, s, 3, z) BY <1>4, <3>2, WriteFacts
    <3>6. z \in Seq(Unit) BY <1>4, <3>5, PrefixFacts
    <3> HIDE DEF xf, xs, y, nb
    <3>7. At(e, l2, in, qf, qs, Join(out, z)) BY <3>5, <3>6, AtPut
    <3>8. At(e, l3, in, Join(qf, y), qs, Join(out, z)) BY <1>5, <3>4, <3>7, AtPut
    <3> QED BY <3>3, <3>5, <3>8
  <2> QED BY <2>1, <2>2 DEF Endpoints
<1>7. PICK l3, z : /\ Prefix(z, xs) /\ At(e, l3, in, Join(qf, y), qs, Join(out, z))
                   /\ MoveTo(e, "tcp", nb, l3) /\ UNCHANGED version
  BY <1>6
<1>8. z \in Seq(Unit) BY <1>4, <1>7, PrefixFacts
<1>9. version' = [version EXCEPT ![e] = version[e]] BY <1>7, SameVersion
<1> HIDE DEF nb
<1>10. WholeFact(xf) /\ WholeFact(xs) /\ Len(xf) \in 0..Len(xf) /\ Len(xs) \in 0..Len(xs)
  BY <1>4, Whole
<1>11. EmptyBuffer.inner = <<>> BY DEF EmptyBuffer
<1>12. y = Encrypted(Upto(xf, Len(xf))) BY <1>10 DEF WholeFact
<1> HIDE DEF y, xf, xs
<1>13. Lands(e, in, qf, qs, out, "tcp", version[e], EmptyBuffer, EmptyBuffer, y, z)
  BY <1>2, <1>5, <1>7, <1>8, <1>9 DEF Lands
<1>14. /\ EmptyBuffer.inner = Rest(xf, Len(xf)) /\ EmptyBuffer.inner = Rest(xs, Len(xs))
       /\ Prefix(z, Upto(xs, Len(xs)))
  BY <1>7, <1>10, <1>11 DEF WholeFact
<1>15. Passes(e, in, qf, qs, out, xf, xs) BY <1>10, <1>11, <1>12, <1>13, <1>14 DEF Passes
<1> QED BY <1>15 DEF xf, xs

\* relay_pending passes the checked packets of one buffer on.
LEMMA RelayPendingShape ==
  ASSUME IInv, NEW e, NEW d, NEW bufs, NEW l, NEW in, NEW qf, NEW qs, NEW out, NEW bf, NEW bs,
         e \in Endpoints, d \in Directions, At(e, l, in, qf, qs, out), Bf(e, bufs, bf, bs),
         relay_pending(e, d, bufs, l)
  PROVE  Passes(e, in, qf, qs, out, bf.inner, bs.inner)
<1> DEFINE f == FirstHand(e)
           s == SecondHand(e)
           xf == bf.inner
           xs == bs.inner
           m == Cut(bf)
           k == Cut(bs)
           nf == pop_checked_packets(bf)
           ns == pop_checked_packets(bs)
<1>1. /\ f \in Directions /\ s \in Directions /\ DstHop(e, f) = 2 /\ DstHop(e, s) = 3 /\ d \in {f, s}
  <2>1. f # s /\ f \in Directions /\ s \in Directions /\ d \in {f, s} BY PairFacts
  <2> QED BY <2>1 DEF DstHop, SrcHop
<1>2. bf \in Buffer /\ bs \in Buffer /\ bf = bufs[f] /\ bs = bufs[s] BY <1>1 DEF Bf, Bufs
<1>3. /\ m \in 0..Len(xf) /\ xf \in Seq(Unit) /\ checked_packets(bf) = Upto(xf, m)
      /\ nf \in Buffer /\ nf.inner = Rest(xf, m)
  BY <1>2, PopCut
<1>4. /\ k \in 0..Len(xs) /\ xs \in Seq(Unit) /\ checked_packets(bs) = Upto(xs, k)
      /\ ns \in Buffer /\ ns.inner = Rest(xs, k)
  BY <1>2, PopCut
<1>5. Bf(e, [bufs EXCEPT ![f] = nf], nf, bs) /\ Bf(e, [bufs EXCEPT ![s] = ns], bf, ns) BY <1>3, <1>4, BfSet
<1>6. WholeFact(xf) /\ WholeFact(xs) /\ 0 \in 0..Len(xf) /\ 0 \in 0..Len(xs) BY <1>3, <1>4, Whole
<1>7. UNCHANGED version BY DEF relay_pending
<1>8. version' = [version EXCEPT ![e] = version[e]] BY <1>7, SameVersion
<1> HIDE DEF xf, xs, m, k, nf, ns
<1>9. CASE d = f
  <2> DEFINE nb == [bufs EXCEPT ![f] = nf]
             y == Encrypted(Upto(xf, m))
  <2>1. PICK l2 \in WriteTls(l, f, 2, Upto(xf, m)) : MoveTo(e, "loop", nb, l2)
    BY <1>1, <1>2, <1>3, <1>9 DEF relay_pending, nf
  <2>2. Upto(xf, m) \in Seq(Unit) BY <1>3, PartFacts
  <2>3. y \in Seq(Unit) /\ <<>> \in Seq(Unit) BY <2>2, CryptFacts, EmptySeq
  <2>4. l2 = Put(l, f, 2, y) BY <2>1, <2>2, WriteFacts
  <2>5. Bf(e, nb, nf, bs) BY <1>5
  <2> HIDE DEF nb, y
  <2>6. At(e, l2, in, Join(qf, y), qs, out) BY <2>3, <2>4, AtPut
  <2>7. At(e, l2, in, Join(qf, y), qs, Join(out, <<>>)) BY <2>6, AtSame
  <2>8. Lands(e, in, qf, qs, out, "loop", version[e], nf, bs, y, <<>>)
    BY <1>8, <2>1, <2>3, <2>5, <2>7 DEF Lands
  <2>9. bs.inner = Rest(xs, 0) /\ Prefix(<<>>, Upto(xs, 0))
    BY <1>4, <1>6, PrefixEmpty DEF WholeFact, xs
  <2>10. Passes(e, in, qf, qs, out, xf, xs) BY <1>3, <1>6, <2>8, <2>9 DEF Passes, y
  <2> QED BY <2>10 DEF xf, xs
<1>10. CASE d = s
  <2> DEFINE nb == [bufs EXCEPT ![s] = ns]
  <2>1. PICK l2 \in WriteTls(l, s, 3, Upto(xs, k)) : MoveTo(e, "loop", nb, l2)
    BY <1>1, <1>2, <1>4, <1>10 DEF relay_pending, ns
  <2>2. Upto(xs, k) \in Seq(Unit) BY <1>4, PartFacts
  <2>3. PICK z : Prefix(z, Upto(xs, k)) /\ l2 = Put(l, s, 3, z) BY <2>1, <2>2, WriteFacts
  <2>4. z \in Seq(Unit) /\ <<>> \in Seq(Unit) BY <2>2, <2>3, PrefixFacts, EmptySeq
  <2>5. Bf(e, nb, bf, ns) BY <1>5
  <2> HIDE DEF nb
  <2>6. At(e, l2, in, qf, qs, Join(out, z)) BY <2>3, <2>4, AtPut
  <2>7. At(e, l2, in, Join(qf, <<>>), qs, Join(out, z)) BY <2>6, AtSame
  <2>8. Lands(e, in, qf, qs, out, "loop", version[e], bf, ns, <<>>, z)
    BY <1>8, <2>1, <2>4, <2>5, <2>7 DEF Lands
  <2>9. bf.inner = Rest(xf, 0) /\ <<>> = Encrypted(Upto(xf, 0))
    BY <1>6, EmptySeq DEF WholeFact, xf
  <2>10. Passes(e, in, qf, qs, out, xf, xs) BY <1>4, <1>6, <2>3, <2>8, <2>9 DEF Passes
  <2> QED BY <2>10 DEF xf, xs
<1> QED BY <1>1, <1>9, <1>10

\* flush_tls of the active side writes its cache on the plain socket.
LEMMA FlushTlsActiveShape ==
  ASSUME NEW e, NEW bufs, NEW l, NEW in, NEW qf, NEW qs, NEW out, NEW bf, NEW bs,
         e \in Endpoints, At(e, l, in, qf, qs, out), Bf(e, bufs, bf, bs), flush_tls_active(e, bufs, l)
  PROVE  \E nb, l2, y : /\ At(e, l2, in, Join(qf, y), qs, out) /\ Bf(e, nb, EmptyBuffer, bs)
                        /\ Prefix(y, bf.inner) /\ y \in Seq(Unit)
                        /\ MoveTo(e, "lite", nb, l2) /\ version' = [version EXCEPT ![e] = "Active"]
<1> DEFINE f == FirstHand(e)
           nb == [bufs EXCEPT ![f] = EmptyBuffer]
<1>1. bufs[f] = bf /\ bf \in Buffer /\ bf.inner \in Seq(Unit)
  <2>1. bufs[f] = bf /\ bf \in Buffer BY PairFacts DEF Bf, Bufs
  <2> QED BY <2>1 DEF Buffer
<1>2. PICK l2 \in WriteRaw(l, f, 2, bf.inner) :
        MoveTo(e, "lite", nb, l2) /\ version' = [version EXCEPT ![e] = "Active"]
  BY <1>1 DEF flush_tls_active
<1>3. PICK y : Prefix(y, bf.inner) /\ l2 = Put(l, f, 2, y) BY <1>1, <1>2, WriteFacts
<1>4. y \in Seq(Unit) BY <1>1, <1>3, PrefixFacts
<1>5. Bf(e, nb, EmptyBuffer, bs) BY EmptyFacts, BfSet
<1> HIDE DEF nb
<1>6. At(e, l2, in, Join(qf, y), qs, out) BY <1>3, <1>4, AtPut
<1> QED BY <1>2, <1>3, <1>4, <1>5, <1>6

\* tls12_relay_until_0xff waits for the command, or has it and leaves.
LEMMA RelayUntilShape ==
  ASSUME IInv, NEW e, NEW bufs, NEW l, NEW in, NEW qf, NEW qs, NEW out, NEW bf, NEW bs,
         e \in Endpoints, At(e, l, in, qf, qs, out), Bf(e, bufs, bf, bs), tls12_relay_until_0xff(e, bufs, l)
  PROVE  \/ Waits(e, in, qf, qs, out, bf.inner, bs.inner)
         \/ GoesActive(e, in, qf, qs, out, bf.inner, bs.inner)
<1> USE LengthAssumption
<1> DEFINE s == SecondHand(e)
           xs == bs.inner
           here(p) == [inner |-> xs, cursor |-> p]
           rest(p) == pop_checked_packets(here(p))
<1>1. bufs[s] = bs /\ bs \in Buffer /\ xs \in Seq(Unit) /\ Len(xs) \in Nat
  <2>1. bufs[s] = bs /\ bs \in Buffer BY PairFacts DEF Bf, Bufs
  <2> QED BY <2>1 DEF Buffer
<1>2. PICK p \in Stops(bs) : \E l2 \in WriteRaw(l, s, 3, checked_packets(here(p))) :
        IF HeaderPresent(here(p), p) /\ Len(rest(p).inner) >= RecLen
          THEN flush_tls_active(e, [bufs EXCEPT ![s] = EmptyBuffer], l2)
          ELSE MoveTo(e, "until0xff", [bufs EXCEPT ![s] = rest(p)], l2) /\ UNCHANGED version
  BY <1>1 DEF tls12_relay_until_0xff
<1>3. PICK l2 \in WriteRaw(l, s, 3, checked_packets(here(p))) :
        IF HeaderPresent(here(p), p) /\ Len(rest(p).inner) >= RecLen
          THEN flush_tls_active(e, [bufs EXCEPT ![s] = EmptyBuffer], l2)
          ELSE MoveTo(e, "until0xff", [bufs EXCEPT ![s] = rest(p)], l2) /\ UNCHANGED version
  BY <1>2
<1>4. p \in Nat /\ StopAt(bs, p)
  <2>1. p \in Walk(bs) /\ StopAt(bs, p) BY <1>2 DEF Stops
  <2> QED BY <1>1, <2>1, WalkFacts
<1>5. here(p) \in Buffer /\ here(p).inner = xs /\ here(p).cursor = p BY <1>1, <1>4 DEF Buffer
<1> DEFINE c == Cut(here(p))
<1>6. /\ c \in 0..Len(xs) /\ checked_packets(here(p)) = Upto(xs, c)
      /\ rest(p) \in Buffer /\ rest(p).inner = Rest(xs, c) /\ (p < Len(xs) => c = p)
  <2> HIDE DEF here
  <2> QED BY <1>5, PopCut
<1> HIDE DEF c
<1>7. Upto(xs, c) \in Seq(Unit) /\ Len(Rest(xs, c)) = Len(xs) - c BY <1>1, <1>6, PartFacts
<1>8. PICK z : Prefix(z, Upto(xs, c)) /\ l2 = Put(l, s, 3, z) BY <1>3, <1>6, <1>7, WriteFacts
<1>9. z \in Seq(Unit) BY <1>7, <1>8, PrefixFacts
<1>10. At(e, l2, in, qf, qs, Join(out, z)) BY <1>8, <1>9, AtPut
<1>11. <<>> \in Seq(Unit) /\ EmptyBuffer.inner = <<>> BY EmptySeq DEF EmptyBuffer
<1>12. CASE HeaderPresent(here(p), p) /\ Len(rest(p).inner) >= RecLen
  <2> DEFINE b2 == [bufs EXCEPT ![s] = EmptyBuffer]
  <2>1. flush_tls_active(e, b2, l2) BY <1>3, <1>12
  <2>2. p + HeaderLen <= Len(xs) BY <1>5, <1>12 DEF HeaderPresent
  <2>3. c = p BY <1>4, <1>6, <2>2
  <2>4. p + RecLen <= Len(xs) BY <1>1, <1>4, <1>6, <1>7, <1>12, <2>3
  <2>5. xs[p + 1].val = "0xff"
    <3>1. HeaderPresent(bs, p) BY <2>2 DEF HeaderPresent
    <3> QED BY <1>4, <3>1 DEF StopAt, TypeAt
  <2>6. CommandAt(xs, p) BY <1>4, <2>4, <2>5 DEF CommandAt
  <2>7. Bf(e, b2, bf, EmptyBuffer) BY EmptyFacts, BfSet
  <2> HIDE DEF b2, here, rest, xs
  <2>8. PICK nb, l3, y : /\ At(e, l3, in, Join(qf, y), qs, Join(out, z)) /\ Bf(e, nb, EmptyBuffer, EmptyBuffer)
                         /\ Prefix(y, bf.inner) /\ y \in Seq(Unit)
                         /\ MoveTo(e, "lite", nb, l3) /\ version' = [version EXCEPT ![e] = "Active"]
    BY <1>10, <2>1, <2>7, FlushTlsActiveShape
  <2>9. Lands(e, in, qf, qs, out, "lite", "Active", EmptyBuffer, EmptyBuffer, y, z)
    BY <1>9, <2>8 DEF Lands
  <2>10. GoesActive(e, in, qf, qs, out, bf.inner, xs) BY <1>8, <1>11, <2>3, <2>6, <2>8, <2>9 DEF GoesActive
  <2> QED BY <2>10 DEF xs
<1>13. CASE ~(HeaderPresent(here(p), p) /\ Len(rest(p).inner) >= RecLen)
  <2> DEFINE nb == [bufs EXCEPT ![s] = rest(p)]
  <2>1. MoveTo(e, "until0xff", nb, l2) /\ UNCHANGED version BY <1>3, <1>13
  <2>2. version' = [version EXCEPT ![e] = version[e]] BY <2>1, SameVersion
  <2>3. Bf(e, nb, bf, rest(p)) BY <1>6, BfSet
  <2> HIDE DEF nb, here, rest, xs
  <2>4. At(e, l2, in, Join(qf, <<>>), qs, Join(out, z)) BY <1>10, AtSame
  <2>5. Lands(e, in, qf, qs, out, "until0xff", version[e], bf, rest(p), <<>>, z)
    BY <1>9, <1>11, <2>1, <2>2, <2>3, <2>4 DEF Lands
  <2>6. Waits(e, in, qf, qs, out, bf.inner, xs) BY <1>6, <1>8, <2>5 DEF Waits
  <2> QED BY <2>6 DEF xs
<1> QED BY <1>12, <1>13

\* The active side sends its command first.
LEMMA ActiveShape ==
  ASSUME IInv, NEW e, NEW bufs, NEW l, NEW in, NEW qf, NEW qs, NEW out, NEW bf, NEW bs,
         e \in Endpoints, At(e, l, in, qf, qs, out), Bf(e, bufs, bf, bs), handshake_tls12_active(e, bufs, l)
  PROVE  Commands(e, in, qf, qs, out, bf.inner, bs.inner)
<1> DEFINE f == FirstHand(e)
           xf == bf.inner
           m == Cut(bf)
           nf == pop_checked_packets(bf)
           x == Encrypted(Join(Upto(xf, m), LEAVE_TLS_COMMAND))
           nb == [bufs EXCEPT ![f] = nf]
           l2 == Put(l, f, 2, x)
<1>1. bufs[f] = bf /\ bf \in Buffer BY PairFacts DEF Bf, Bufs
<1>2. /\ m \in 0..Len(xf) /\ xf \in Seq(Unit) /\ checked_packets(bf) = Upto(xf, m)
      /\ nf \in Buffer /\ nf.inner = Rest(xf, m)
  BY <1>1, PopCut
<1>3. tls12_relay_until_0xff(e, nb, l2) BY <1>1, <1>2 DEF handshake_tls12_active, Join
<1>4. x \in Seq(Unit)
  <2>1. Upto(xf, m) \in Seq(Unit) BY <1>2, PartFacts
  <2>2. Join(Upto(xf, m), LEAVE_TLS_COMMAND) \in Seq(Unit) BY <2>1, LeaveFacts, JoinParts
  <2> QED BY <2>2, CryptFacts
<1> HIDE DEF x, nf, m, xf
<1>5. At(e, l2, in, Join(qf, x), qs, out) BY <1>4, AtPut
<1>6. Bf(e, nb, nf, bs) BY <1>2, BfSet
<1> HIDE DEF nb, l2
<1>7. \/ Waits(e, in, Join(qf, x), qs, out, nf.inner, bs.inner)
      \/ GoesActive(e, in, Join(qf, x), qs, out, nf.inner, bs.inner)
  BY <1>3, <1>5, <1>6, RelayUntilShape
<1>8. Commands(e, in, qf, qs, out, xf, bs.inner) BY <1>2, <1>7 DEF Commands, x
<1> QED BY <1>8 DEF xf

\* The passive side answers and leaves, or gives up on Lite-TLS.
LEMMA PassiveShape ==
  ASSUME IInv, NEW e, NEW bufs, NEW l, NEW in, NEW qf, NEW qs, NEW out, NEW bf, NEW bs,
         e \in Endpoints, At(e, l, in, qf, qs, out), Bf(e, bufs, bf, bs), handshake_tls12_passive(e, bufs, l),
         TypeAt(bs, bs.cursor) = "0xff"
  PROVE  \/ GoesPassive(e, in, qf, qs, out, bf.inner, bs.inner)
         \/ Passes(e, in, qf, qs, out, bf.inner, bs.inner)
<1> USE LengthAssumption
<1> DEFINE s == SecondHand(e)
           f == FirstHand(e)
           xs == bs.inner
           p == bs.cursor
           b == [inner |-> Upto(xs, p), cursor |-> p]
           x == Encrypted(LEAVE_TLS_COMMAND)
<1>1. bufs[s] = bs /\ bs \in Buffer /\ xs \in Seq(Unit) /\ Len(xs) \in Nat /\ p \in Nat
  <2>1. bufs[s] = bs /\ bs \in Buffer BY PairFacts DEF Bf, Bufs
  <2> QED BY <2>1 DEF Buffer
<1>2. CASE drop_0xff_ok(bs)
  <2> DEFINE where == IF b.inner # <<>> THEN "pending" ELSE "lite"
             nb == [bufs EXCEPT ![s] = b]
             l2 == Put(l, f, 2, x)
  <2>1. drop_0xff(bs) = b BY DEF drop_0xff, Upto
  <2>2. MoveTo(e, where, nb, l2) /\ version' = [version EXCEPT ![e] = "Passive"]
    BY <1>1, <1>2, <2>1 DEF handshake_tls12_passive
  <2>3. p + RecLen = Len(xs) /\ p \in 0..Len(xs) BY <1>1, <1>2 DEF drop_0xff_ok
  <2>4. CommandAt(xs, p) BY <1>1, <2>3 DEF CommandAt, TypeAt
  <2>5. Upto(xs, p) \in Seq(Unit) BY <1>1, <2>3, PartFacts
  <2>6. b \in Buffer /\ b.inner = Upto(xs, p) BY <1>1, <2>5 DEF Buffer
  <2>7. x \in Seq(Unit) /\ <<>> \in Seq(Unit) BY LeaveFacts, CryptFacts, EmptySeq
  <2>8. where \in OutOfTls /\ (where = "lite" => b.inner = <<>>) BY DEF OutOfTls
  <2> HIDE DEF x, b, where
  <2>9. At(e, l2, in, Join(qf, x), qs, out) BY <2>7, AtPut
  <2>10. Bf(e, nb, bf, b) BY <2>6, BfSet
  <2> HIDE DEF nb, l2, xs, p
  <2>11. At(e, l2, in, Join(qf, x), qs, Join(out, <<>>)) BY <2>9, AtSame
  <2>12. Lands(e, in, qf, qs, out, where, "Passive", bf, b, x, <<>>)
    BY <2>2, <2>7, <2>10, <2>11 DEF Lands
  <2>13. GoesPassive(e, in, qf, qs, out, bf.inner, xs) BY <2>4, <2>6, <2>8, <2>12 DEF GoesPassive, x
  <2> QED BY <2>13 DEF xs
<1>3. CASE ~drop_0xff_ok(bs)
  <2>1. flush_non_tls(e, bufs, l) BY <1>1, <1>3 DEF handshake_tls12_passive
  <2> QED BY <2>1, FlushNonTlsShape
<1> QED BY <1>2, <1>3

(* A read, by what it leaves in the buffers and on the links. *)

\* The types of what an endpoint has.
LEMMA HasFacts ==
  ASSUME IInv, NEW e, e \in Endpoints
  PROVE  /\ buf[e] \in Bufs /\ buf[e][FirstHand(e)] \in Buffer /\ buf[e][SecondHand(e)] \in Buffer
         /\ buf[e][FirstHand(e)].inner \in Seq(Unit) /\ buf[e][SecondHand(e)].inner \in Seq(Unit)
         /\ buf[Peer(e)][FirstHand(e)].inner \in Seq(Unit)
         /\ link[FirstHand(e)][1] \in Seq(Unit) /\ link[FirstHand(e)][2] \in Seq(Unit)
         /\ link[SecondHand(e)][2] \in Seq(Unit) /\ link[SecondHand(e)][3] \in Seq(Unit)
<1>1. FirstHand(e) \in Directions /\ SecondHand(e) \in Directions /\ Peer(e) \in Endpoints BY PairFacts
<1>2. 1 \in Hops /\ 2 \in Hops /\ 3 \in Hops BY HopFacts
<1> QED BY <1>1, <1>2, TypeFacts

\* The sizes of a read and of what the session keeps.
LEMMA SizeFacts ==
  ASSUME IInv, NEW e, NEW d, NEW n, NEW k, e \in Endpoints, d \in Directions,
         n \in ReadSizes(e, d), k \in Swallowed(e, d, n)
  PROVE  /\ n \in Nat /\ k \in Nat /\ n + k \in Nat /\ n <= n + k /\ n + k <= Len(Source(e, d))
         /\ d = FirstHand(e) => k = 0
         /\ d = SecondHand(e) /\ pc[e] \in InTls => \A i \in 1..n : Source(e, d)[i].enc
<1> USE LengthAssumption
<1>1. n \in Nat /\ (SrcHop(e, d) = 2 /\ pc[e] \in InTls => \A i \in 1..n : Source(e, d)[i].enc)
  BY DEF ReadSizes
<1>2. k \in Nat /\ n + k <= Len(Source(e, d)) /\ (k > 0 => SrcHop(e, d) = 2) BY <1>1 DEF Swallowed
<1>3. SrcHop(e, FirstHand(e)) = 1 /\ SrcHop(e, SecondHand(e)) = 2 BY PairFacts DEF SrcHop
<1> QED BY <1>1, <1>2, <1>3

\* First-hand units are plain, and none is a command.
LEMMA FirstTaken ==
  ASSUME IInv, NEW e, NEW n, e \in Endpoints, n \in Nat, n <= Len(link[FirstHand(e)][1])
  PROVE  /\ Taken(e, FirstHand(e), n) \in Seq(Unit)
         /\ \A i \in 1..Len(Taken(e, FirstHand(e), n)) :
              Taken(e, FirstHand(e), n)[i].enc = FALSE /\ Taken(e, FirstHand(e), n)[i].val # "0xff"
<1> DEFINE q == link[FirstHand(e)][1]
           t == Upto(q, n)
<1>1. q \in Seq(Unit) /\ n \in 0..Len(q) BY HasFacts
<1>2. t \in Seq(Unit) /\ Len(t) = n /\ \A i \in 1..n : t[i] = q[i] BY <1>1, PartFacts
<1>3. \A i \in 1..Len(q) : q[i].enc = FALSE /\ q[i].val # "0xff"
  <2>1. Run(e, Front(e) + Len(Held(e)), q) BY IInvFacts
  <2> QED BY <2>1 DEF Run
<1>4. Taken(e, FirstHand(e), n) = AsCipher(t) BY FillWhole
<1> HIDE DEF q, t
<1>5. \A i \in 1..Len(t) : t[i].enc = FALSE /\ t[i].val # "0xff" BY <1>1, <1>2, <1>3
<1>6. /\ AsCipher(t) \in Seq(Unit) /\ Len(AsCipher(t)) = Len(t)
      /\ \A i \in 1..Len(t) : AsCipher(t)[i] = IF t[i].enc THEN [val |-> "cipher", idx |-> 0, enc |-> FALSE]
                                                          ELSE t[i]
  BY <1>2, CryptFacts
<1> QED BY <1>4, <1>5, <1>6

\* An endpoint that parses after a read of first-hand bytes,
LEMMA ReadyFirst ==
  ASSUME IInv, Ways, NEW e, NEW n, NEW k, e \in Endpoints, pc[e] \in Parsing,
         n \in ReadSizes(e, FirstHand(e)), k \in Swallowed(e, FirstHand(e), n)
  PROVE  /\ Ready(e, Drained(e, FirstHand(e), n + k), Rest(link[FirstHand(e)][1], n), link[SecondHand(e)][2],
                  Filled(e, FirstHand(e), n), buf[e][SecondHand(e)])
         /\ Filled(e, FirstHand(e), n) \in Buffer
<1> DEFINE f == FirstHand(e)
           s == SecondHand(e)
           t == Taken(e, f, n)
           b == Filled(e, f, n)
<1>1. f \in Directions /\ s \in Directions /\ Peer(e) \in Endpoints /\ Source(e, f) = link[f][1]
      /\ FirstHand(Peer(e)) = s /\ Peer(Peer(e)) = e
  BY PairFacts, FillWhole
<1>2. n \in Nat /\ k = 0 /\ n + k = n /\ n <= Len(link[f][1]) BY <1>1, SizeFacts
<1>3. At(e, Drained(e, f, n + k), Rest(link[f][1], n), link[f][2], link[s][2], link[s][3])
  BY <1>2, AtDrained
<1>4. b.inner = Join(buf[e][f].inner, t) /\ b \in Buffer
  BY <1>1, TakenType DEF Join
<1>5. t \in Seq(Unit) /\ \A i \in 1..Len(t) : t[i].enc = FALSE /\ t[i].val # "0xff" BY <1>2, FirstTaken
<1>6. \A i \in 1..Len(buf[e][f].inner) : buf[e][f].inner[i].enc = FALSE /\ buf[e][f].inner[i].val # "0xff"
  <2>1. Run(e, Front(e), buf[e][f].inner) BY IInvFacts DEF Held
  <2> QED BY <2>1 DEF Run
<1>7. buf[e][f].inner \in Seq(Unit) /\ buf[e][s] \in Buffer /\ link[s][2] \in Seq(Unit) BY HasFacts
<1>8. Way(pc[Peer(e)], version[Peer(e)], link[s][2], version[e], buf[e][s].inner) BY <1>1 DEF Ways
<1> DEFINE h == buf[e][f].inner
<1> HIDE DEF t, h
<1>9. \A i \in 1..(Len(h) + Len(t)) :
        \/ i \in 1..Len(h) /\ Join(h, t)[i] = h[i]
        \/ i - Len(h) \in 1..Len(t) /\ Join(h, t)[i] = t[i - Len(h)]
  BY <1>5, <1>7, JoinParts DEF h
<1>10. Len(Join(h, t)) = Len(h) + Len(t) BY <1>5, <1>7, JoinParts DEF h
<1>11. \A i \in 1..Len(Join(h, t)) : Join(h, t)[i].enc = FALSE /\ Join(h, t)[i].val # "0xff"
  BY <1>5, <1>6, <1>9, <1>10 DEF h
<1> HIDE DEF b, f, s
<1>12. Ready(e, Drained(e, f, n + k), Rest(link[f][1], n), link[s][2], b, buf[e][s])
  BY <1>3, <1>4, <1>7, <1>8, <1>11 DEF Ready, h, f, s
<1> QED BY <1>4, <1>12 DEF b, f, s

\* or of second-hand ones.
LEMMA ReadySecond ==
  ASSUME IInv, Ways, NEW e, NEW n, NEW k, e \in Endpoints, pc[e] \in Parsing,
         n \in ReadSizes(e, SecondHand(e)), k \in Swallowed(e, SecondHand(e), n)
  PROVE  /\ Ready(e, Drained(e, SecondHand(e), n + k), link[FirstHand(e)][1],
                  Rest(link[SecondHand(e)][2], n + k), buf[e][FirstHand(e)], Filled(e, SecondHand(e), n))
         /\ Filled(e, SecondHand(e), n) \in Buffer
<1> DEFINE f == FirstHand(e)
           s == SecondHand(e)
           q == link[s][2]
           b == Filled(e, s, n)
<1>1. f \in Directions /\ s \in Directions /\ Peer(e) \in Endpoints /\ Source(e, s) = q
      /\ FirstHand(Peer(e)) = s /\ Peer(Peer(e)) = e
  BY PairFacts, FillWhole
<1>2. pc[e] \in InTls BY DEF Parsing, InTls
<1>3. n \in Nat /\ n + k \in Nat /\ n <= n + k /\ n + k <= Len(q) /\ \A i \in 1..n : q[i].enc
  BY <1>1, <1>2, SizeFacts
<1>4. At(e, Drained(e, s, n + k), link[f][1], link[f][2], Rest(q, n + k), link[s][3])
  BY <1>3, AtDrained
<1>5. b.inner = Join(buf[e][s].inner, Decrypted(Upto(q, n))) /\ b \in Buffer
  <2>1. b.inner = Join(buf[e][s].inner, Taken(e, s, n)) /\ b \in Buffer BY <1>1, TakenType DEF Join
  <2> QED BY <1>2, <2>1, FillWhole
<1>6. \A i \in 1..Len(buf[e][f].inner) : buf[e][f].inner[i].enc = FALSE /\ buf[e][f].inner[i].val # "0xff"
  <2>1. Run(e, Front(e), buf[e][f].inner) BY IInvFacts DEF Held
  <2> QED BY <2>1 DEF Run
<1>7. buf[e][s].inner \in Seq(Unit) /\ buf[e][f] \in Buffer /\ q \in Seq(Unit) BY HasFacts
<1>8. Way(pc[Peer(e)], version[Peer(e)], q, version[e], buf[e][s].inner) BY <1>1 DEF Ways
<1>9. \A i \in 1..n : q[i].enc = TRUE
  <2>1. \A i \in 1..n : i \in 1..Len(q) BY <1>3, <1>7
  <2>2. \A i \in 1..Len(q) : q[i] \in Unit BY <1>7
  <2>3. \A i \in 1..n : q[i].enc \in BOOLEAN BY <2>1, <2>2 DEF Unit
  <2> QED BY <1>3, <2>3
<1> HIDE DEF q, b, f, s
<1>10. Way(pc[Peer(e)], version[Peer(e)], Rest(q, n + k), version[e], b.inner)
  <2> DEFINE m == n + k
  <2>1. m \in Nat /\ n <= m /\ m <= Len(q) BY <1>3
  <2> HIDE DEF m
  <2>2. Way(pc[Peer(e)], version[Peer(e)], Rest(q, m), version[e], Join(buf[e][s].inner, Decrypted(Upto(q, n))))
    BY <1>3, <1>7, <1>8, <1>9, <2>1, WayReadTls
  <2> QED BY <1>5, <2>2 DEF m
<1>11. Rest(q, n + k) \in Seq(Unit)
  <2>1. n + k \in 0..Len(q) BY <1>3, <1>7
  <2> QED BY <1>7, <2>1, PartFacts
<1>12. Ready(e, Drained(e, s, n + k), link[f][1], Rest(q, n + k), buf[e][f], b)
  BY <1>4, <1>5, <1>6, <1>7, <1>10, <1>11 DEF Ready, f, s, q
<1> QED BY <1>5, <1>12 DEF b, f, s, q

(* The steps. *)

\* handshake takes what it has read for a command of its peer, for a pair of 0x17, or passes it on.
LEMMA HandshakeBranch ==
  ASSUME IInv, Ways, NEW e, NEW d, NEW n, NEW l, NEW in, NEW qs, NEW bf, NEW bs,
         e \in Endpoints, d \in Directions, Ready(e, l, in, qs, bf, bs), Filled(e, d, n) \in Buffer,
         d = FirstHand(e) => bf = Filled(e, d, n) /\ bs = buf[e][SecondHand(e)],
         d = SecondHand(e) => bs = Filled(e, d, n) /\ bf = buf[e][FirstHand(e)],
         Handshake(e, d, n, l)
  PROVE  Handshakes(e, in, qs, bf.inner, bs.inner)
<1> DEFINE f == FirstHand(e)
           s == SecondHand(e)
           b == Filled(e, d, n)
           qf == link[f][2]
           out == link[s][3]
<1>1. PICK r \in find_key_packets(b, seen[e], d) :
         LET bufs == [buf[e] EXCEPT ![d] = r.buf]
         IN \/ r.mode = "Active" /\ handshake_tls12_active(e, bufs, l)
            \/ r.mode = "Passive" /\ handshake_tls12_passive(e, bufs, l)
            \/ r.mode = "Incomplete" /\ relay_pending(e, d, bufs, l)
            \/ r.mode = "Invalid" /\ flush_non_tls(e, bufs, l)
  BY DEF Handshake
<1>2. PICK j \in Walk(b) : r.mode = KeyMode(b, seen[e], d, j) /\ r.buf = [inner |-> b.inner, cursor |-> j]
  BY <1>1 DEF find_key_packets
<1>3. j \in Nat /\ r.buf \in Buffer /\ r.buf.inner = b.inner /\ r.buf.cursor = j BY <1>2, WalkFacts
<1> DEFINE bufs == [buf[e] EXCEPT ![d] = r.buf]
           nf == IF d = f THEN r.buf ELSE bf
           ns == IF d = f THEN bs ELSE r.buf
<1>4. d \in {f, s} /\ f # s BY PairFacts
<1>5. nf.inner = bf.inner /\ ns.inner = bs.inner BY <1>3, <1>4
<1>6. Bf(e, buf[e], buf[e][f], buf[e][s]) BY HasFacts DEF Bf
<1>7. Bf(e, bufs, nf, ns)
  <2>1. CASE d = f
    <3>1. Bf(e, [buf[e] EXCEPT ![f] = r.buf], r.buf, buf[e][s]) BY <1>3, <1>6, BfSet
    <3> QED BY <2>1, <3>1
  <2>2. CASE d = s
    <3>1. Bf(e, [buf[e] EXCEPT ![s] = r.buf], buf[e][f], r.buf) BY <1>3, <1>6, BfSet
    <3> QED BY <1>4, <2>2, <3>1
  <2> QED BY <1>4, <2>1, <2>2
<1>8. At(e, l, in, qf, qs, out) BY DEF Ready
<1>9. pc[e] \in {"hello", "loop"} BY DEF Handshake
<1> HIDE DEF bufs, nf, ns, qf, out
<1>10. CASE handshake_tls12_active(e, bufs, l)
  <2>1. Commands(e, in, qf, qs, out, nf.inner, ns.inner) BY <1>7, <1>8, <1>10, ActiveShape
  <2>2. Commands(e, in, qf, qs, out, bf.inner, bs.inner) BY <1>5, <2>1
  <2> QED BY <1>9, <2>2 DEF Handshakes, qf, out
<1>11. CASE r.mode = "Passive" /\ handshake_tls12_passive(e, bufs, l)
  <2>1. Present(b, j) /\ TypeAt(b, j) = "0xff" BY <1>2, <1>11 DEF KeyMode
  <2>2. d = s
    <3>1. SUFFICES ASSUME d = f PROVE FALSE BY <1>4
    <3>2. bf.inner = b.inner BY <3>1
    <3>3. j + 1 \in 1..Len(bf.inner) /\ bf.inner[j + 1].val = "0xff"
      <4>1. j < Len(b.inner) /\ b.inner[j + 1].val = "0xff" BY <2>1 DEF Present, TypeAt
      <4>2. Len(b.inner) \in Nat BY DEF Buffer
      <4> QED BY <1>3, <3>2, <4>1, <4>2
    <3> QED BY <3>3 DEF Ready
  <2>3. ns = r.buf BY <1>4, <2>2 DEF ns
  <2>4. TypeAt(ns, ns.cursor) = "0xff" BY <1>3, <2>1, <2>3 DEF TypeAt
  <2>5. \/ GoesPassive(e, in, qf, qs, out, nf.inner, ns.inner)
        \/ Passes(e, in, qf, qs, out, nf.inner, ns.inner)
    BY <1>7, <1>8, <1>11, <2>4, PassiveShape
  <2>6. \/ GoesPassive(e, in, qf, qs, out, bf.inner, bs.inner)
        \/ Passes(e, in, qf, qs, out, bf.inner, bs.inner)
    BY <1>5, <2>5
  <2> QED BY <1>9, <2>6 DEF Handshakes, qf, out
<1>12. CASE relay_pending(e, d, bufs, l)
  <2>1. Passes(e, in, qf, qs, out, nf.inner, ns.inner) BY <1>7, <1>8, <1>12, RelayPendingShape
  <2>2. Passes(e, in, qf, qs, out, bf.inner, bs.inner) BY <1>5, <2>1
  <2> QED BY <1>9, <2>2 DEF Handshakes, qf, out
<1>13. CASE flush_non_tls(e, bufs, l)
  <2>1. Passes(e, in, qf, qs, out, nf.inner, ns.inner) BY <1>7, <1>8, <1>13, FlushNonTlsShape
  <2>2. Passes(e, in, qf, qs, out, bf.inner, bs.inner) BY <1>5, <2>1
  <2> QED BY <1>9, <2>2 DEF Handshakes, qf, out
<1> QED BY <1>1, <1>10, <1>11, <1>12, <1>13 DEF bufs

\* client_hello waits for more, passes the hello on, or gives up on Lite-TLS.
LEMMA ClientHelloBranch ==
  ASSUME IInv, Ways, NEW e, NEW n, NEW l, NEW in, NEW qs, NEW bf, NEW bs,
         e \in Endpoints, Ready(e, l, in, qs, bf, bs), Filled(e, "Inbound", n) \in Buffer,
         "Inbound" = FirstHand(e) => bf = Filled(e, "Inbound", n) /\ bs = buf[e][SecondHand(e)],
         "Inbound" = SecondHand(e) => bs = Filled(e, "Inbound", n) /\ bf = buf[e][FirstHand(e)],
         ClientHello(e, n, l)
  PROVE  Handshakes(e, in, qs, bf.inner, bs.inner)
<1> DEFINE d == "Inbound"
           f == FirstHand(e)
           s == SecondHand(e)
           b == Filled(e, d, n)
           qf == link[f][2]
           out == link[s][3]
           bufs == [buf[e] EXCEPT ![d] = b]
<1>1. d \in {f, s} /\ f # s /\ d \in Directions BY PairFacts DEF Directions
<1>2. Bf(e, buf[e], buf[e][f], buf[e][s]) BY HasFacts DEF Bf
<1>3. Bf(e, bufs, bf, bs)
  <2>1. CASE d = f
    <3>1. Bf(e, [buf[e] EXCEPT ![f] = b], b, buf[e][s]) BY <1>2, BfSet
    <3> QED BY <2>1, <3>1
  <2>2. CASE d = s
    <3>1. Bf(e, [buf[e] EXCEPT ![s] = b], buf[e][f], b) BY <1>2, BfSet
    <3> QED BY <2>2, <3>1
  <2> QED BY <1>1, <2>1, <2>2
<1>4. At(e, l, in, qf, qs, out) BY DEF Ready
<1>5. pc[e] \in {"hello", "loop"} BY DEF ClientHello
<1>6. bf \in Buffer /\ bs \in Buffer BY DEF Ready
<1>7. bf.inner \in Seq(Unit) /\ bs.inner \in Seq(Unit) BY <1>6 DEF Buffer
<1>8. /\ WholeFact(bf.inner) /\ WholeFact(bs.inner) /\ Len(bf.inner) \in Nat /\ Len(bs.inner) \in Nat
      /\ 0 \in 0..Len(bf.inner) /\ 0 \in 0..Len(bs.inner)
      /\ Len(bf.inner) \in 0..Len(bf.inner) /\ Len(bs.inner) \in 0..Len(bs.inner)
  BY <1>7, Whole
<1>9. <<>> \in Seq(Unit) /\ <<>> = Encrypted(Upto(bf.inner, 0)) /\ Prefix(<<>>, Upto(bs.inner, 0))
      /\ bf.inner = Rest(bf.inner, 0) /\ bs.inner = Rest(bs.inner, 0)
  BY <1>7, <1>8, EmptySeq, PrefixEmpty DEF WholeFact
<1>10. DstHop(e, f) = 2 /\ DstHop(e, s) = 3 BY FillWhole
<1>11. /\ (d = f => b = bf) /\ (d = s => b = bs)
  BY <1>1
<1>12. CASE MoveTo(e, "hello", bufs, l) /\ UNCHANGED version
  <2>1. version' = [version EXCEPT ![e] = version[e]] BY <1>12, SameVersion
  <2> HIDE DEF bufs, qf, out
  <2>2. At(e, l, in, Join(qf, <<>>), qs, Join(out, <<>>)) BY <1>4, AtSame
  <2>3. Lands(e, in, qf, qs, out, "hello", version[e], bf, bs, <<>>, <<>>)
    BY <1>3, <1>9, <1>12, <2>1, <2>2 DEF Lands
  <2>4. Passes(e, in, qf, qs, out, bf.inner, bs.inner) BY <1>8, <1>9, <2>3 DEF Passes
  <2> QED BY <1>5, <2>4 DEF Handshakes, qf, out
<1>13. CASE /\ \E l2 \in WriteTls(l, d, DstHop(e, d), b.inner) :
                 MoveTo(e, "loop", [bufs EXCEPT ![d] = EmptyBuffer], l2)
            /\ UNCHANGED version
  <2> DEFINE nb == [bufs EXCEPT ![d] = EmptyBuffer]
  <2>1. PICK l2 \in WriteTls(l, d, DstHop(e, d), b.inner) : MoveTo(e, "loop", nb, l2) BY <1>13
  <2>2. version' = [version EXCEPT ![e] = version[e]] BY <1>13, SameVersion
  <2>3. EmptyBuffer \in Buffer /\ EmptyBuffer.inner = <<>> BY EmptyFacts
  <2>4. CASE d = f
    <3> DEFINE y == Encrypted(bf.inner)
    <3>1. l2 = Put(l, f, 2, y) BY <1>7, <1>10, <1>11, <2>1, <2>4, WriteFacts
    <3>2. y \in Seq(Unit) /\ y = Encrypted(Upto(bf.inner, Len(bf.inner)))
      BY <1>7, <1>8, CryptFacts DEF WholeFact
    <3>3. Bf(e, nb, EmptyBuffer, bs) BY <1>3, <2>3, <2>4, BfSet
    <3> HIDE DEF bufs, nb, qf, out, y
    <3>4. At(e, l2, in, Join(qf, y), qs, out) BY <1>4, <3>1, <3>2, AtPut
    <3>5. At(e, l2, in, Join(qf, y), qs, Join(out, <<>>)) BY <3>4, AtSame
    <3>6. Lands(e, in, qf, qs, out, "loop", version[e], EmptyBuffer, bs, y, <<>>)
      BY <1>9, <2>1, <2>2, <3>2, <3>3, <3>5 DEF Lands
    <3>7. EmptyBuffer.inner = Rest(bf.inner, Len(bf.inner)) BY <1>8, <2>3 DEF WholeFact
    <3>8. Passes(e, in, qf, qs, out, bf.inner, bs.inner) BY <1>8, <1>9, <3>2, <3>6, <3>7 DEF Passes
    <3> QED BY <1>5, <3>8 DEF Handshakes, qf, out
  <2>5. CASE d = s
    <3>1. PICK z : Prefix(z, bs.inner) /\ l2 = Put(l, s, 3, z)
      BY <1>7, <1>10, <1>11, <2>1, <2>5, WriteFacts
    <3>2. z \in Seq(Unit) BY <1>7, <3>1, PrefixFacts
    <3>3. Bf(e, nb, bf, EmptyBuffer) BY <1>3, <2>3, <2>5, BfSet
    <3> HIDE DEF bufs, nb, qf, out
    <3>4. At(e, l2, in, qf, qs, Join(out, z)) BY <1>4, <3>1, <3>2, AtPut
    <3>5. At(e, l2, in, Join(qf, <<>>), qs, Join(out, z)) BY <3>4, AtSame
    <3>6. Lands(e, in, qf, qs, out, "loop", version[e], bf, EmptyBuffer, <<>>, z)
      BY <1>9, <2>1, <2>2, <3>2, <3>3, <3>5 DEF Lands
    <3>7. EmptyBuffer.inner = Rest(bs.inner, Len(bs.inner)) /\ Prefix(z, Upto(bs.inner, Len(bs.inner)))
      BY <1>8, <2>3, <3>1 DEF WholeFact
    <3>8. Passes(e, in, qf, qs, out, bf.inner, bs.inner) BY <1>8, <1>9, <3>6, <3>7 DEF Passes
    <3> QED BY <1>5, <3>8 DEF Handshakes, qf, out
  <2> QED BY <1>1, <2>4, <2>5
<1>14. CASE flush_non_tls(e, bufs, l)
  <2> HIDE DEF bufs, qf, out
  <2>1. Passes(e, in, qf, qs, out, bf.inner, bs.inner) BY <1>3, <1>4, <1>14, FlushNonTlsShape
  <2> QED BY <1>5, <2>1 DEF Handshakes, qf, out
<1> QED BY <1>12, <1>13, <1>14 DEF ClientHello

\* tls12_relay_until_0xff reads on.
LEMMA RelayUntilBranch ==
  ASSUME IInv, Ways, NEW e, NEW n, NEW l, NEW in, NEW qs, NEW bf, NEW bs,
         e \in Endpoints, Ready(e, l, in, qs, bf, bs), Filled(e, SecondHand(e), n) \in Buffer,
         bs = Filled(e, SecondHand(e), n), bf = buf[e][FirstHand(e)], RelayUntil0xff(e, n, l)
  PROVE  Handshakes(e, in, qs, bf.inner, bs.inner)
<1> DEFINE f == FirstHand(e)
           s == SecondHand(e)
           qf == link[f][2]
           out == link[s][3]
           bufs == [buf[e] EXCEPT ![s] = bs]
<1>1. tls12_relay_until_0xff(e, bufs, l) /\ pc[e] = "until0xff" BY DEF RelayUntil0xff
<1>2. Bf(e, buf[e], buf[e][f], buf[e][s]) BY HasFacts DEF Bf
<1>3. Bf(e, bufs, bf, bs) BY <1>2, BfSet
<1>4. At(e, l, in, qf, qs, out) BY DEF Ready
<1> HIDE DEF bufs, qf, out
<1>5. \/ Waits(e, in, qf, qs, out, bf.inner, bs.inner)
       \/ GoesActive(e, in, qf, qs, out, bf.inner, bs.inner)
  BY <1>1, <1>3, <1>4, RelayUntilShape
<1> QED BY <1>1, <1>5 DEF Handshakes, qf, out

\* flush_tls of the passive side delivers.
LEMMA FlushPendingShape ==
  ASSUME IInv, NEW e, NEW n, NEW k, e \in Endpoints, n \in ReadSizes(e, SecondHand(e)),
         k \in Swallowed(e, SecondHand(e), n), FlushPending(e, n, Drained(e, SecondHand(e), n + k))
  PROVE  Delivers(e)
<1> DEFINE f == FirstHand(e)
           s == SecondHand(e)
           q == link[s][2]
           qf == link[f][2]
           in == link[f][1]
           out == link[s][3]
           m == n + k
           l == Drained(e, s, m)
           x == Filled(e, s, n).inner
           nb == [buf[e] EXCEPT ![s] = EmptyBuffer]
<1>1. s \in Directions /\ Source(e, s) = q BY PairFacts, FillWhole
<1>2. m \in Nat /\ n \in Nat /\ n <= m /\ m <= Len(q) BY <1>1, SizeFacts
<1>3. At(e, l, in, qf, Rest(q, m), out) BY <1>2, AtDrained
<1>4. x \in Seq(Unit)
  <2>1. Filled(e, s, n) \in Buffer BY <1>1, TakenType
  <2> QED BY <2>1 DEF Buffer
<1>5. PICK l2 \in WriteRaw(l, s, 3, x) : MoveTo(e, "lite", nb, l2) BY DEF FlushPending
<1>6. PICK z : Prefix(z, x) /\ l2 = Put(l, s, 3, z) BY <1>4, <1>5, WriteFacts
<1>7. z \in Seq(Unit) BY <1>4, <1>6, PrefixFacts
<1>8. pc[e] = "pending" /\ UNCHANGED version BY DEF FlushPending
<1>9. version' = [version EXCEPT ![e] = version[e]] BY <1>8, SameVersion
<1>10. Bf(e, buf[e], buf[e][f], buf[e][s]) BY HasFacts DEF Bf
<1>11. Bf(e, nb, buf[e][f], EmptyBuffer) BY <1>10, EmptyFacts, BfSet
<1>12. q \in Seq(Unit) /\ EmptyBuffer.inner = <<>> /\ <<>> \in Seq(Unit)
  BY HasFacts, EmptyFacts, EmptySeq
<1>13. x = Join(buf[e][s].inner, AsCipher(Upto(q, n)))
  <2>1. pc[e] \notin InTls BY <1>8 DEF InTls
  <2>2. x = Join(buf[e][s].inner, Taken(e, s, n)) BY <1>1, TakenType DEF Join
  <2> QED BY <2>1, <2>2, FillWhole
<1>14. m \in 0..Len(q) /\ n \in 0..m BY <1>2, <1>12
<1> HIDE DEF l, nb, q, qf, out, x, m, in
<1>15. At(e, l2, in, qf, Rest(q, m), Join(out, z)) BY <1>3, <1>6, <1>7, AtPut
<1>16. At(e, l2, in, Join(qf, <<>>), Rest(q, m), Join(out, z)) BY <1>15, AtSame
<1>17. Lands(e, in, qf, Rest(q, m), out, "lite", version[e], buf[e][f], EmptyBuffer, <<>>, z)
  BY <1>5, <1>7, <1>9, <1>11, <1>12, <1>16 DEF Lands
<1> QED BY <1>6, <1>8, <1>12, <1>13, <1>14, <1>17 DEF Delivers, q, qf, out, in

\* A relay stays where it is, with y and z written and in and qs left to read.
LEMMA RelayLands ==
  ASSUME IInv, NEW e, NEW in, NEW qs, NEW y, NEW z, e \in Endpoints,
         y \in Seq(Unit), z \in Seq(Unit), UNCHANGED <<pc, buf, version>>,
         At(e, link', in, Join(link[FirstHand(e)][2], y), qs, Join(link[SecondHand(e)][3], z))
  PROVE  Lands(e, in, link[FirstHand(e)][2], qs, link[SecondHand(e)][3], pc[e], version[e],
               buf[e][FirstHand(e)], buf[e][SecondHand(e)], y, z)
<1>1. /\ pc' = [pc EXCEPT ![e] = pc[e]] /\ version' = [version EXCEPT ![e] = version[e]]
      /\ buf' = [buf EXCEPT ![e] = buf[e]]
  BY SameFacts
<1>2. MoveTo(e, pc[e], buf[e], link') BY <1>1 DEF MoveTo
<1>3. Bf(e, buf[e], buf[e][FirstHand(e)], buf[e][SecondHand(e)]) BY HasFacts DEF Bf
<1> QED BY <1>1, <1>2, <1>3 DEF Lands

\* The relay of first-hand bytes,
LEMMA RelayFirstShape ==
  ASSUME IInv, NEW e, NEW n, NEW k, e \in Endpoints, n \in ReadSizes(e, FirstHand(e)),
         k \in Swallowed(e, FirstHand(e), n),
         Relay(e, FirstHand(e), n, Drained(e, FirstHand(e), n + k))
  PROVE  Relays(e)
<1> DEFINE f == FirstHand(e)
           s == SecondHand(e)
           i == link[f][1]
           t == AsCipher(Upto(i, n))
           y == IF pc[e] = "tcp" THEN Encrypted(t) ELSE t
           qf == link[f][2]
           q == link[s][2]
           out == link[s][3]
           l == Drained(e, f, n)
<1>1. f \in Directions /\ Source(e, f) = i /\ DstHop(e, f) = 2 /\ Taken(e, f, n) = t
  BY PairFacts, FillWhole
<1>2. n \in Nat /\ k = 0 /\ n + k = n /\ n <= Len(i) BY <1>1, SizeFacts
<1>3. At(e, l, Rest(i, n), qf, q, out) BY <1>2, AtDrained
<1>4. t \in Seq(Unit) BY <1>1, <1>2, FirstTaken
<1>5. y \in Seq(Unit) BY <1>4, CryptFacts
<1>6. link' = Put(l, f, 2, y) /\ pc[e] \in {"tcp", "lite"} /\ UNCHANGED <<pc, buf, version>>
  BY <1>1, <1>2 DEF Relay
<1>7. n \in 0..Len(i) /\ <<>> \in Seq(Unit) BY <1>2, HasFacts, EmptySeq
<1> HIDE DEF y, qf, q, out, l
<1>8. At(e, link', Rest(i, n), Join(qf, y), q, out) BY <1>3, <1>5, <1>6, AtPut
<1>9. At(e, link', Rest(i, n), Join(qf, y), q, Join(out, <<>>)) BY <1>8, AtSame
<1>10. Lands(e, Rest(i, n), qf, q, out, pc[e], version[e], buf[e][f], buf[e][s], y, <<>>)
  BY <1>5, <1>6, <1>7, <1>9, RelayLands DEF qf, out
<1> QED BY <1>6, <1>7, <1>10 DEF Relays, y, qf, q, out

\* and of second-hand ones.
LEMMA RelaySecondShape ==
  ASSUME IInv, NEW e, NEW n, NEW k, e \in Endpoints, n \in ReadSizes(e, SecondHand(e)),
         k \in Swallowed(e, SecondHand(e), n),
         Relay(e, SecondHand(e), n, Drained(e, SecondHand(e), n + k))
  PROVE  Relays(e)
<1> DEFINE f == FirstHand(e)
           s == SecondHand(e)
           i == link[f][1]
           q == link[s][2]
           z == IF pc[e] = "tcp" THEN Decrypted(Upto(q, n)) ELSE AsCipher(Upto(q, n))
           qf == link[f][2]
           out == link[s][3]
           m == n + k
           l == Drained(e, s, m)
<1>1. s \in Directions /\ Source(e, s) = q /\ DstHop(e, s) = 3 BY PairFacts, FillWhole
<1>2. m \in Nat /\ n \in Nat /\ n <= m /\ m <= Len(q) BY <1>1, SizeFacts
<1>3. At(e, l, i, qf, Rest(q, m), out) BY <1>2, AtDrained
<1>4. pc[e] \in {"tcp", "lite"} /\ UNCHANGED <<pc, buf, version>> BY DEF Relay
<1>5. z = Taken(e, s, n)
  <2>1. pc[e] = "tcp" => pc[e] \in InTls BY DEF InTls
  <2>2. pc[e] = "lite" => pc[e] \notin InTls BY DEF InTls
  <2> QED BY <1>4, <2>1, <2>2, FillWhole
<1>6. z \in Seq(Unit) BY <1>1, <1>5, TakenType
<1>7. link' = Put(l, s, 3, z) BY <1>1, <1>5 DEF Relay
<1>8. m \in 0..Len(q) /\ n \in 0..m /\ <<>> \in Seq(Unit) BY <1>2, HasFacts, EmptySeq
<1> HIDE DEF z, q, qf, out, l, m
<1>9. At(e, link', i, qf, Rest(q, m), Join(out, z)) BY <1>3, <1>6, <1>7, AtPut
<1>10. At(e, link', i, Join(qf, <<>>), Rest(q, m), Join(out, z)) BY <1>9, AtSame
<1>11. Lands(e, i, qf, Rest(q, m), out, pc[e], version[e], buf[e][f], buf[e][s], <<>>, z)
  BY <1>4, <1>6, <1>8, <1>10, RelayLands DEF qf, out
<1> QED BY <1>4, <1>8, <1>11 DEF Relays, z, q, qf, out

\* One read, whatever it meets.
LEMMA ReadShape ==
  ASSUME IInv, Ways, NEW e, NEW d, e \in Endpoints, d \in Directions, Read(e, d)
  PROVE  \/ \E l, in, qs, bf, bs : /\ Ready(e, l, in, qs, bf, bs) /\ pc[e] \in Parsing
                                   /\ From(e, in, qs, bf.inner, bs.inner)
                                   /\ Handshakes(e, in, qs, bf.inner, bs.inner)
         \/ Delivers(e)
         \/ Relays(e)
<1> DEFINE f == FirstHand(e)
           s == SecondHand(e)
<1>1. PICK n \in ReadSizes(e, d) : \E k \in Swallowed(e, d, n) :
        \/ d = "Inbound" /\ ClientHello(e, n, Drained(e, d, n + k))
        \/ Handshake(e, d, n, Drained(e, d, n + k))
        \/ d = s /\ RelayUntil0xff(e, n, Drained(e, d, n + k))
        \/ d = s /\ FlushPending(e, n, Drained(e, d, n + k))
        \/ Relay(e, d, n, Drained(e, d, n + k))
  BY DEF Read
<1>2. PICK k \in Swallowed(e, d, n) :
        \/ d = "Inbound" /\ ClientHello(e, n, Drained(e, d, n + k))
        \/ Handshake(e, d, n, Drained(e, d, n + k))
        \/ d = s /\ RelayUntil0xff(e, n, Drained(e, d, n + k))
        \/ d = s /\ FlushPending(e, n, Drained(e, d, n + k))
        \/ Relay(e, d, n, Drained(e, d, n + k))
  BY <1>1
<1>3. d \in {f, s} /\ f # s BY PairFacts
<1> DEFINE l == Drained(e, d, n + k)
           b == Filled(e, d, n)
           In(in, qs, bf, bs) == /\ Ready(e, l, in, qs, bf, bs) /\ From(e, in, qs, bf.inner, bs.inner)
                                 /\ b \in Buffer
                                 /\ d = f => bf = b /\ bs = buf[e][s]
                                 /\ d = s => bs = b /\ bf = buf[e][f]
<1>4. ASSUME pc[e] \in Parsing
      PROVE  \E in, qs, bf, bs : In(in, qs, bf, bs)
  <2>1. CASE d = f
    <3> DEFINE i == link[f][1]
    <3>1. Ready(e, l, Rest(i, n), link[s][2], b, buf[e][s]) /\ b \in Buffer
      BY <1>2, <1>4, <2>1, ReadyFirst
    <3>2. n \in 0..Len(i)
      <4>1. Source(e, f) = i /\ i \in Seq(Unit) BY FillWhole, HasFacts
      <4>2. n \in Nat /\ k = 0 /\ n + k <= Len(i) BY <1>2, <2>1, <4>1, SizeFacts
      <4> QED BY <4>1, <4>2
    <3>3. b.inner = Join(buf[e][f].inner, AsCipher(Upto(i, n))) BY <2>1, FillWhole
    <3> HIDE DEF i
    <3>4. From(e, Rest(i, n), link[s][2], b.inner, buf[e][s].inner) BY <3>2, <3>3 DEF From, i
    <3>5. In(Rest(i, n), link[s][2], b, buf[e][s]) BY <1>3, <2>1, <3>1, <3>4 DEF i
    <3> QED BY <3>5
  <2>2. CASE d = s
    <3> DEFINE q == link[s][2]
               m == n + k
    <3>1. Ready(e, l, link[f][1], Rest(q, m), buf[e][f], b) /\ b \in Buffer
      BY <1>2, <1>4, <2>2, ReadySecond
    <3>2. m \in 0..Len(q) /\ n \in 0..m
      <4>1. Source(e, s) = q /\ q \in Seq(Unit) BY FillWhole, HasFacts
      <4>2. n \in Nat /\ n <= m /\ m \in Nat /\ m <= Len(q) BY <1>2, <2>2, <4>1, SizeFacts
      <4> QED BY <4>1, <4>2
    <3>3. b.inner = Join(buf[e][s].inner, Decrypted(Upto(q, n)))
      <4>1. pc[e] \in InTls BY <1>4 DEF Parsing, InTls
      <4> QED BY <2>2, <4>1, FillWhole
    <3> HIDE DEF q, m
    <3>4. From(e, link[f][1], Rest(q, m), buf[e][f].inner, b.inner) BY <3>2, <3>3 DEF From, q
    <3>5. In(link[f][1], Rest(q, m), buf[e][f], b) BY <1>3, <2>2, <3>1, <3>4 DEF q, m
    <3> QED BY <3>5
  <2> QED BY <1>3, <2>1, <2>2
<1> HIDE DEF l
<1>5. CASE d = "Inbound" /\ ClientHello(e, n, l)
  <2>1. pc[e] \in Parsing BY <1>5 DEF ClientHello, Parsing
  <2>2. PICK in, qs, bf, bs : In(in, qs, bf, bs) BY <1>4, <2>1
  <2>3. Handshakes(e, in, qs, bf.inner, bs.inner) BY <1>5, <2>2, ClientHelloBranch
  <2> QED BY <2>1, <2>2, <2>3
<1>6. CASE Handshake(e, d, n, l)
  <2>1. pc[e] \in Parsing BY <1>6 DEF Handshake, Parsing
  <2>2. PICK in, qs, bf, bs : In(in, qs, bf, bs) BY <1>4, <2>1
  <2>3. Handshakes(e, in, qs, bf.inner, bs.inner) BY <1>6, <2>2, HandshakeBranch
  <2> QED BY <2>1, <2>2, <2>3
<1>7. CASE d = s /\ RelayUntil0xff(e, n, l)
  <2>1. pc[e] \in Parsing BY <1>7 DEF RelayUntil0xff, Parsing
  <2>2. PICK in, qs, bf, bs : In(in, qs, bf, bs) BY <1>4, <2>1
  <2>3. Handshakes(e, in, qs, bf.inner, bs.inner) BY <1>7, <2>2, RelayUntilBranch
  <2> QED BY <2>1, <2>2, <2>3
<1>8. CASE d = s /\ FlushPending(e, n, l) BY <1>2, <1>8, FlushPendingShape DEF l
<1>9. CASE Relay(e, d, n, l) BY <1>2, <1>3, <1>9, RelayFirstShape, RelaySecondShape DEF l
<1> QED BY <1>2, <1>5, <1>6, <1>7, <1>8, <1>9 DEF l

(* The invariant at the end of a step. *)

\* A step of e ends: both ways of the tunnel, and e's own place, are as they must be.
LEMMA WaysFinish ==
  ASSUME IInv, Ways, NEW e, NEW in, NEW qf, NEW qs, NEW out, NEW where, NEW v, NEW nf, NEW ns, NEW y, NEW z,
         e \in Endpoints, Lands(e, in, qf, qs, out, where, v, nf, ns, y, z),
         Way(where, v, Join(qf, y), version[Peer(e)], buf[Peer(e)][FirstHand(e)].inner),
         Way(pc[Peer(e)], version[Peer(e)], qs, v, ns.inner),
         Own(e, where, v, ns.inner), v = "Passive" => version[Peer(e)] # "Passive"
  PROVE  Ways'
<1> DEFINE f == FirstHand(e)
           s == SecondHand(e)
           p == Peer(e)
<1>1. /\ f \in Directions /\ s \in Directions /\ f # s /\ p \in Endpoints /\ p # e /\ Endpoints = {e, p}
      /\ Peer(p) = e /\ FirstHand(p) = s /\ SecondHand(p) = f
  BY PairFacts
<1>2. PICK nb, l : /\ At(e, l, in, Join(qf, y), qs, Join(out, z)) /\ Bf(e, nb, nf, ns)
                   /\ MoveTo(e, where, nb, l) /\ version' = [version EXCEPT ![e] = v]
  BY DEF Lands
<1>3. pc \in [Endpoints -> PCs] /\ buf \in [Endpoints -> [Directions -> Buffer]]
      /\ version \in [Endpoints -> {"None", "Active", "Passive"}]
  BY DEF IInv, TypeOK
<1>4. pc'[e] = where /\ buf'[e] = nb /\ version'[e] = v /\ link' = l
  BY <1>2, <1>3 DEF MoveTo
<1>5. pc'[p] = pc[p] /\ buf'[p] = buf[p] /\ version'[p] = version[p]
  BY <1>1, <1>2, <1>3 DEF MoveTo
<1>6. link'[f][2] = Join(qf, y) /\ link'[s][2] = qs BY <1>2, <1>4 DEF At
<1>7. buf'[e][s] = ns BY <1>2, <1>4 DEF Bf
<1> HIDE DEF f, s, p
<1>8. /\ Way(pc'[e], version'[e], link'[f][2], version'[p], buf'[p][f].inner)
      /\ Own(e, pc'[e], version'[e], buf'[e][s].inner) /\ (version'[e] = "Passive" => version'[p] # "Passive")
  BY <1>4, <1>5, <1>6, <1>7 DEF f, p
<1>9. /\ Way(pc'[p], version'[p], link'[s][2], version'[e], buf'[e][s].inner)
      /\ Own(p, pc'[p], version'[p], buf'[p][f].inner) /\ (version'[p] = "Passive" => version'[e] # "Passive")
  <2>1. Own(p, pc[p], version[p], buf[p][f].inner) BY <1>1 DEF Ways
  <2> QED BY <1>4, <1>5, <1>6, <1>7, <2>1 DEF p
<1>10. \A c \in Endpoints :
         /\ Way(pc'[c], version'[c], link'[FirstHand(c)][2], version'[Peer(c)], buf'[Peer(c)][FirstHand(c)].inner)
         /\ Own(c, pc'[c], version'[c], buf'[c][SecondHand(c)].inner)
         /\ version'[c] = "Passive" => version'[Peer(c)] # "Passive"
  <2>1. ASSUME NEW c \in Endpoints, c = e
        PROVE  /\ Way(pc'[c], version'[c], link'[FirstHand(c)][2], version'[Peer(c)], buf'[Peer(c)][FirstHand(c)].inner)
               /\ Own(c, pc'[c], version'[c], buf'[c][SecondHand(c)].inner)
               /\ version'[c] = "Passive" => version'[Peer(c)] # "Passive"
    BY <1>8, <2>1 DEF f, s, p
  <2>2. ASSUME NEW c \in Endpoints, c = p
        PROVE  /\ Way(pc'[c], version'[c], link'[FirstHand(c)][2], version'[Peer(c)], buf'[Peer(c)][FirstHand(c)].inner)
               /\ Own(c, pc'[c], version'[c], buf'[c][SecondHand(c)].inner)
               /\ version'[c] = "Passive" => version'[Peer(c)] # "Passive"
    BY <1>1, <1>9, <2>2
  <2> QED BY <1>1, <2>1, <2>2
<1> QED BY <1>10 DEF Ways, Own, Way, Closing, Shut, Has0xff

\* An endpoint that still parses for the handshake has not left, and neither has its peer.
LEMMA StillInside ==
  ASSUME IInv, Ways, NEW e, e \in Endpoints, pc[e] \in {"hello", "loop", "tcp"}
  PROVE  /\ version[e] = "None" /\ version[Peer(e)] = "None" /\ pc[e] \notin Gone
         /\ Way(pc[e], version[e], link[FirstHand(e)][2], version[Peer(e)], buf[Peer(e)][FirstHand(e)].inner)
<1>1. pc[e] \notin Gone /\ pc[e] \notin OutOfTls \cup {"closed"} BY DEF Gone, OutOfTls
<1>2. Way(pc[e], version[e], link[FirstHand(e)][2], version[Peer(e)], buf[Peer(e)][FirstHand(e)].inner)
      /\ Own(e, pc[e], version[e], buf[e][SecondHand(e)].inner)
  BY DEF Ways
<1>3. version[e] = "None" BY <1>1, <1>2 DEF Own
<1>4. version[Peer(e)] = "None" BY <1>1, <1>2, WayOpen
<1> QED BY <1>1, <1>2, <1>3, <1>4

\* e stays in TLS.
LEMMA PassesWays ==
  ASSUME IInv, Ways, NEW e, NEW l, NEW in, NEW qs, NEW bf, NEW bs, e \in Endpoints,
         pc[e] \in {"hello", "loop"}, Ready(e, l, in, qs, bf, bs),
         Passes(e, in, link[FirstHand(e)][2], qs, link[SecondHand(e)][3], bf.inner, bs.inner)
  PROVE  Ways'
<1> DEFINE xf == bf.inner
           xs == bs.inner
           qf == link[FirstHand(e)][2]
           out == link[SecondHand(e)][3]
           p == Peer(e)
           bp == buf[p][FirstHand(e)].inner
<1>1. PICK where, nf, ns, z, m, k :
    /\ Lands(e, in, qf, qs, out, where, version[e], nf, ns, Encrypted(Upto(xf, m)), z)
    /\ where \in {"hello", "loop", "tcp"} /\ m \in 0..Len(xf) /\ k \in 0..Len(xs)
    /\ nf.inner = Rest(xf, m) /\ ns.inner = Rest(xs, k) /\ Prefix(z, Upto(xs, k))
    /\ where = "tcp" => nf.inner = <<>> /\ ns.inner = <<>>
  BY DEF Passes
<1>2. /\ version[e] = "None" /\ version[p] = "None" /\ pc[e] \notin Gone
      /\ Way(pc[e], version[e], qf, version[p], bp)
  BY StillInside
<1>3. /\ xf \in Seq(Unit) /\ xs \in Seq(Unit) /\ qs \in Seq(Unit)
      /\ \A i \in 1..Len(xf) : xf[i].val # "0xff"
      /\ Way(pc[p], version[p], qs, version[e], xs)
  BY DEF Ready, Buffer
<1>4. qf \in Seq(Unit) BY HasFacts
<1> HIDE DEF xf, xs, qf, out, p, bp
<1>5. Upto(xf, m) \in Seq(Unit) /\ Len(Upto(xf, m)) = m /\ \A i \in 1..m : Upto(xf, m)[i] = xf[i]
  BY <1>1, <1>3, PartFacts
<1>6. ~Has0xff(Upto(xf, m)) BY <1>1, <1>3, <1>5 DEF Has0xff
<1>7. Way(where, version[e], Join(qf, Encrypted(Upto(xf, m))), version[p], bp)
  BY <1>2, <1>4, <1>5, <1>6, WaySendTls
<1>8. Way(pc[p], version[p], qs, version[e], ns.inner) BY <1>1, <1>3, WayPop
<1>9. Own(e, where, version[e], ns.inner) BY <1>1, <1>2 DEF Own, OutOfTls
<1> QED BY <1>1, <1>2, <1>7, <1>8, <1>9, WaysFinish DEF p, bp, qf

\* It leaves as the passive side.
LEMMA PassiveWays ==
  ASSUME IInv, Ways, NEW e, NEW l, NEW in, NEW qs, NEW bf, NEW bs, e \in Endpoints,
         pc[e] \in {"hello", "loop"}, Ready(e, l, in, qs, bf, bs),
         GoesPassive(e, in, link[FirstHand(e)][2], qs, link[SecondHand(e)][3], bf.inner, bs.inner)
  PROVE  Ways'
<1> DEFINE xf == bf.inner
           xs == bs.inner
           qf == link[FirstHand(e)][2]
           out == link[SecondHand(e)][3]
           p == Peer(e)
           bp == buf[p][FirstHand(e)].inner
<1>1. PICK where, nf, ns, j :
    /\ Lands(e, in, qf, qs, out, where, "Passive", nf, ns, Encrypted(LEAVE_TLS_COMMAND), <<>>)
    /\ where \in OutOfTls /\ CommandAt(xs, j) /\ nf.inner = xf /\ ns.inner = Upto(xs, j)
    /\ where = "lite" => ns.inner = <<>>
  BY DEF GoesPassive
<1>2. /\ version[e] = "None" /\ version[p] = "None" /\ pc[e] \notin Gone
      /\ Way(pc[e], version[e], qf, version[p], bp)
  BY StillInside
<1>3. xs \in Seq(Unit) /\ qs \in Seq(Unit) /\ Way(pc[p], version[p], qs, version[e], xs)
  BY DEF Ready, Buffer
<1>4. qf \in Seq(Unit) BY HasFacts
<1> HIDE DEF xf, xs, qf, out, p, bp
<1>5. where \in Gone BY <1>1 DEF Gone
<1>6. Way(where, version[e], Join(qf, Encrypted(LEAVE_TLS_COMMAND)), version[p], bp)
  <2>1. <<>> \in Seq(Unit) /\ ~Has0xff(<<>>) BY EmptySeq DEF Has0xff
  <2>2. Join(<<>>, LEAVE_TLS_COMMAND) = LEAVE_TLS_COMMAND BY LeaveFacts, Whole DEF WholeFact
  <2>3. Way(where, version[e], Join(qf, Encrypted(Join(<<>>, LEAVE_TLS_COMMAND))), version[p], bp)
    BY <1>2, <1>4, <1>5, <2>1, WaySendCommand
  <2> QED BY <2>2, <2>3
<1>7. Way(where, "Passive", Join(qf, Encrypted(LEAVE_TLS_COMMAND)), version[p], bp)
  BY <1>6, WayMove
<1>8. Way(pc[p], version[p], qs, "Passive", ns.inner) BY <1>1, <1>3, WayLeave
<1>9. Own(e, where, "Passive", ns.inner) BY <1>1 DEF Own, OutOfTls
<1> QED BY <1>1, <1>2, <1>7, <1>8, <1>9, WaysFinish DEF p, bp, qf

\* It waits for the 0xff, with q on the tunnel,
LEMMA WaitsWays ==
  ASSUME IInv, Ways, NEW e, NEW in, NEW q, NEW qs, NEW xf, NEW xs, e \in Endpoints,
         version[e] = "None", q \in Seq(Unit), qs \in Seq(Unit), xs \in Seq(Unit),
         Way("until0xff", version[e], q, version[Peer(e)], buf[Peer(e)][FirstHand(e)].inner),
         Way(pc[Peer(e)], version[Peer(e)], qs, version[e], xs),
         Waits(e, in, q, qs, link[SecondHand(e)][3], xf, xs)
  PROVE  Ways'
<1> DEFINE out == link[SecondHand(e)][3]
           p == Peer(e)
<1>1. PICK nf, ns, z, j :
    /\ Lands(e, in, q, qs, out, "until0xff", version[e], nf, ns, <<>>, z)
    /\ j \in 0..Len(xs) /\ nf.inner = xf /\ ns.inner = Rest(xs, j) /\ Prefix(z, Upto(xs, j))
  BY DEF Waits
<1> HIDE DEF out, p
<1>2. Join(q, <<>>) = q BY Whole DEF WholeFact
<1>3. Way(pc[p], version[p], qs, version[e], ns.inner) BY <1>1, WayPop DEF p
<1>4. Own(e, "until0xff", version[e], ns.inner) BY DEF Own, OutOfTls
<1> QED BY <1>1, <1>2, <1>3, <1>4, WaysFinish DEF p, out

\* or has it and leaves as the active side.
LEMMA ActiveWays ==
  ASSUME IInv, Ways, NEW e, NEW in, NEW q, NEW qs, NEW xf, NEW xs, e \in Endpoints,
         q \in Seq(Unit), qs \in Seq(Unit), xs \in Seq(Unit), xf \in Seq(Unit),
         \A i \in 1..Len(xf) : xf[i].enc = FALSE /\ xf[i].val # "0xff",
         Way("until0xff", version[e], q, version[Peer(e)], buf[Peer(e)][FirstHand(e)].inner),
         Way(pc[Peer(e)], version[Peer(e)], qs, version[e], xs),
         GoesActive(e, in, q, qs, link[SecondHand(e)][3], xf, xs)
  PROVE  Ways'
<1> DEFINE out == link[SecondHand(e)][3]
           p == Peer(e)
           bp == buf[p][FirstHand(e)].inner
<1>1. PICK nf, ns, y, z, j :
    /\ Lands(e, in, q, qs, out, "lite", "Active", nf, ns, y, z)
    /\ CommandAt(xs, j) /\ nf.inner = <<>> /\ ns.inner = <<>>
    /\ Prefix(y, xf) /\ Prefix(z, Upto(xs, j))
  BY DEF GoesActive
<1>2. bp \in Seq(Unit) BY HasFacts
<1> HIDE DEF out, p, bp
<1>3. y \in Seq(Unit) /\ \A i \in 1..Len(y) : y[i].enc = FALSE /\ y[i].val # "0xff"
  <2>1. Prefix(y, xf) BY <1>1
  <2>2. y \in Seq(Unit) /\ \A i \in 1..Len(y) : i \in 1..Len(xf) /\ y[i] = xf[i] BY <2>1, PrefixFacts
  <2> QED BY <2>2
<1>4. "until0xff" \in Gone /\ "lite" \in Gone BY DEF Gone, OutOfTls
<1>5. Way("lite", "Active", Join(q, y), version[p], bp)
  BY <1>2, <1>3, <1>4, WaySendPlain DEF p, bp
<1>6. Way(pc[p], version[p], qs, "Active", ns.inner)
  <2>1. Way(pc[p], version[p], qs, "Active", <<>>) BY <1>1, WayLeave DEF p
  <2> QED BY <1>1, <2>1
<1>7. Own(e, "lite", "Active", ns.inner) BY <1>1 DEF Own, OutOfTls
<1> QED BY <1>1, <1>5, <1>6, <1>7, WaysFinish DEF p, bp, out

\* The first step of the active side.
LEMMA CommandsWays ==
  ASSUME IInv, Ways, NEW e, NEW l, NEW in, NEW qs, NEW bf, NEW bs, e \in Endpoints,
         pc[e] \in {"hello", "loop"}, Ready(e, l, in, qs, bf, bs),
         Commands(e, in, link[FirstHand(e)][2], qs, link[SecondHand(e)][3], bf.inner, bs.inner)
  PROVE  Ways'
<1> DEFINE xf == bf.inner
           xs == bs.inner
           qf == link[FirstHand(e)][2]
           out == link[SecondHand(e)][3]
           p == Peer(e)
           bp == buf[p][FirstHand(e)].inner
           q(m) == Join(qf, Encrypted(Join(Upto(xf, m), LEAVE_TLS_COMMAND)))
<1>1. PICK m : /\ m \in 0..Len(xf)
               /\ \/ Waits(e, in, q(m), qs, out, Rest(xf, m), xs)
                  \/ GoesActive(e, in, q(m), qs, out, Rest(xf, m), xs)
  BY DEF Commands
<1>2. /\ version[e] = "None" /\ version[p] = "None" /\ pc[e] \notin Gone
      /\ Way(pc[e], version[e], qf, version[p], bp)
  BY StillInside
<1>3. /\ xf \in Seq(Unit) /\ xs \in Seq(Unit) /\ qs \in Seq(Unit)
      /\ \A i \in 1..Len(xf) : xf[i].enc = FALSE /\ xf[i].val # "0xff"
      /\ Way(pc[p], version[p], qs, version[e], xs)
  BY DEF Ready, Buffer
<1>4. qf \in Seq(Unit) BY HasFacts
<1> HIDE DEF xf, xs, qf, out, p, bp
<1>5. /\ Upto(xf, m) \in Seq(Unit) /\ Len(Upto(xf, m)) = m /\ \A i \in 1..m : Upto(xf, m)[i] = xf[i]
      /\ Rest(xf, m) \in Seq(Unit) /\ Len(Rest(xf, m)) = Len(xf) - m
      /\ \A i \in 1..(Len(xf) - m) : Rest(xf, m)[i] = xf[m + i]
  BY <1>1, <1>3, PartFacts
<1>6. ~Has0xff(Upto(xf, m)) BY <1>1, <1>3, <1>5 DEF Has0xff
<1>7. \A i \in 1..Len(Rest(xf, m)) : Rest(xf, m)[i].enc = FALSE /\ Rest(xf, m)[i].val # "0xff"
  <2>1. \A i \in 1..(Len(xf) - m) : m + i \in 1..Len(xf) BY <1>1, <1>3
  <2> QED BY <1>3, <1>5, <2>1
<1>8. "until0xff" \in Gone BY DEF Gone
<1>9. Way("until0xff", version[e], q(m), version[p], bp)
  BY <1>2, <1>4, <1>5, <1>6, <1>8, WaySendCommand
<1>10. q(m) \in Seq(Unit)
  <2>1. Join(Upto(xf, m), LEAVE_TLS_COMMAND) \in Seq(Unit) BY <1>5, LeaveFacts, JoinParts
  <2>2. Encrypted(Join(Upto(xf, m), LEAVE_TLS_COMMAND)) \in Seq(Unit) BY <2>1, CryptFacts
  <2> QED BY <1>4, <2>2, JoinParts
<1> HIDE DEF q
<1>11. CASE Waits(e, in, q(m), qs, out, Rest(xf, m), xs)
  BY <1>2, <1>3, <1>9, <1>10, <1>11, WaitsWays DEF p, bp, out
<1>12. CASE GoesActive(e, in, q(m), qs, out, Rest(xf, m), xs)
  BY <1>3, <1>5, <1>7, <1>9, <1>10, <1>12, ActiveWays DEF p, bp, out
<1> QED BY <1>1, <1>11, <1>12

\* A read of an endpoint that parses,
LEMMA HandshakesWays ==
  ASSUME IInv, Ways, NEW e, NEW l, NEW in, NEW qs, NEW bf, NEW bs, e \in Endpoints,
         Ready(e, l, in, qs, bf, bs), Handshakes(e, in, qs, bf.inner, bs.inner)
  PROVE  Ways'
<1> DEFINE f == FirstHand(e)
           s == SecondHand(e)
           qf == link[f][2]
           out == link[s][3]
           p == Peer(e)
<1>1. CASE /\ pc[e] \in {"hello", "loop"}
           /\ \/ Passes(e, in, qf, qs, out, bf.inner, bs.inner)
              \/ GoesPassive(e, in, qf, qs, out, bf.inner, bs.inner)
              \/ Commands(e, in, qf, qs, out, bf.inner, bs.inner)
  BY <1>1, PassesWays, PassiveWays, CommandsWays
<1>2. CASE /\ pc[e] = "until0xff"
           /\ \/ Waits(e, in, qf, qs, out, bf.inner, bs.inner)
              \/ GoesActive(e, in, qf, qs, out, bf.inner, bs.inner)
  <2>1. /\ Way(pc[e], version[e], qf, version[p], buf[p][f].inner)
        /\ Own(e, pc[e], version[e], buf[e][s].inner)
    BY DEF Ways
  <2>2. version[e] = "None" BY <1>2, <2>1 DEF Own, OutOfTls
  <2>3. qf \in Seq(Unit) BY HasFacts
  <2>4. /\ bf.inner \in Seq(Unit) /\ bs.inner \in Seq(Unit) /\ qs \in Seq(Unit)
        /\ \A i \in 1..Len(bf.inner) : bf.inner[i].enc = FALSE /\ bf.inner[i].val # "0xff"
        /\ Way(pc[p], version[p], qs, version[e], bs.inner)
    BY DEF Ready, Buffer
  <2>5. Way("until0xff", version[e], qf, version[p], buf[p][f].inner) BY <1>2, <2>1
  <2> HIDE DEF qf, out
  <2>6. CASE Waits(e, in, qf, qs, out, bf.inner, bs.inner)
    BY <2>2, <2>3, <2>4, <2>5, <2>6, WaitsWays DEF out
  <2>7. CASE GoesActive(e, in, qf, qs, out, bf.inner, bs.inner)
    BY <2>3, <2>4, <2>5, <2>7, ActiveWays DEF out
  <2> QED BY <1>2, <2>6, <2>7
<1> QED BY <1>1, <1>2 DEF Handshakes

\* of the passive side that delivers,
LEMMA DeliversWays ==
  ASSUME IInv, Ways, NEW e, e \in Endpoints, Delivers(e)
  PROVE  Ways'
<1> DEFINE f == FirstHand(e)
           s == SecondHand(e)
           p == Peer(e)
           q == link[s][2]
           qf == link[f][2]
           in == link[f][1]
           out == link[s][3]
           bp == buf[p][f].inner
<1>1. PICK n, m, ns, z :
        /\ pc[e] = "pending" /\ n \in 0..m /\ m \in 0..Len(q) /\ ns.inner = <<>>
        /\ Lands(e, in, qf, Rest(q, m), out, "lite", version[e], buf[e][f], ns, <<>>, z)
  BY DEF Delivers
<1>2. p \in Endpoints /\ Peer(p) = e /\ FirstHand(p) = s BY PairFacts
<1>3. q \in Seq(Unit) /\ qf \in Seq(Unit) BY HasFacts
<1>4. /\ Way(pc[p], version[p], q, version[e], buf[e][s].inner)
      /\ Way(pc[e], version[e], qf, version[p], bp)
      /\ Own(e, pc[e], version[e], buf[e][s].inner)
      /\ version[e] = "Passive" => version[p] # "Passive"
  BY <1>2 DEF Ways
<1> HIDE DEF q, qf, out, bp, in
<1>5. "lite" \in Gone BY DEF Gone, OutOfTls
<1>6. Way("lite", version[e], Join(qf, <<>>), version[p], bp)
  <2>1. Join(qf, <<>>) = qf BY <1>3, Whole DEF WholeFact
  <2>2. Way("lite", version[e], qf, version[p], bp) BY <1>4, <1>5, WayMove
  <2> QED BY <2>1, <2>2
<1>7. Way(pc[p], version[p], Rest(q, m), version[e], ns.inner)
  <2>1. Way(pc[p], version[p], Rest(q, m), version[e], <<>>) BY <1>1, <1>3, <1>4, WayEmpty
  <2> QED BY <1>1, <2>1
<1>8. Own(e, "lite", version[e], ns.inner) BY <1>1, <1>4 DEF Own, OutOfTls
<1> QED BY <1>1, <1>4, <1>6, <1>7, <1>8, WaysFinish DEF bp

\* and of a relay.
LEMMA RelaysWays ==
  ASSUME IInv, Ways, NEW e, e \in Endpoints, Relays(e)
  PROVE  Ways'
<1> DEFINE f == FirstHand(e)
           s == SecondHand(e)
           p == Peer(e)
           i == link[f][1]
           q == link[s][2]
           qf == link[f][2]
           out == link[s][3]
           bf == buf[e][f]
           bs == buf[e][s]
           bp == buf[p][f].inner
<1>1. pc[e] \in {"tcp", "lite"} BY DEF Relays
<1>2. p \in Endpoints /\ Peer(p) = e /\ FirstHand(p) = s BY PairFacts
<1>3. q \in Seq(Unit) /\ qf \in Seq(Unit) /\ bp \in Seq(Unit) BY HasFacts
<1>4. /\ Way(pc[p], version[p], q, version[e], bs.inner)
      /\ Way(pc[e], version[e], qf, version[p], bp)
      /\ Own(e, pc[e], version[e], bs.inner)
      /\ version[e] = "Passive" => version[p] # "Passive"
  BY <1>2 DEF Ways
<1>5. ASSUME NEW n, NEW y, n \in 0..Len(i),
             y = IF pc[e] = "tcp" THEN Encrypted(AsCipher(Upto(i, n))) ELSE AsCipher(Upto(i, n)),
             Lands(e, Rest(i, n), qf, q, out, pc[e], version[e], bf, bs, y, <<>>)
      PROVE  Ways'
  <2> DEFINE t == AsCipher(Upto(i, n))
  <2>1. t \in Seq(Unit) /\ \A j \in 1..Len(t) : t[j].enc = FALSE /\ t[j].val # "0xff"
    <3>1. Taken(e, f, n) = t BY FillWhole
    <3>2. i \in Seq(Unit) /\ n \in Nat /\ n <= Len(i) BY <1>5, HasFacts
    <3> HIDE DEF t
    <3> QED BY <3>1, <3>2, FirstTaken
  <2> HIDE DEF t, qf, out, bp, q, bf, bs
  <2>2. Way(pc[e], version[e], Join(qf, y), version[p], bp)
    <3>1. CASE pc[e] = "tcp"
      <4>1. ~Has0xff(t) BY <2>1 DEF Has0xff
      <4>2. version[e] = "None" /\ pc[e] \notin Gone BY <3>1, StillInside
      <4>3. Way(pc[e], version[e], Join(qf, Encrypted(t)), version[p], bp)
        BY <1>3, <1>4, <2>1, <4>1, <4>2, WaySendTls
      <4> QED BY <1>5, <3>1, <4>3 DEF t
    <3>2. CASE pc[e] = "lite"
      <4>1. pc[e] \in Gone /\ version[e] # "None" BY <1>4, <3>2 DEF Own, Gone, OutOfTls
      <4>2. Way(pc[e], version[e], Join(qf, t), version[p], bp) BY <1>3, <1>4, <2>1, <4>1, WaySendPlain
      <4> QED BY <1>5, <3>2, <4>2 DEF t
    <3> QED BY <1>1, <3>1, <3>2
  <2> QED BY <1>4, <1>5, <2>2, WaysFinish DEF bp
<1>6. ASSUME NEW n, NEW m, NEW z, m \in 0..Len(q),
             Lands(e, i, qf, Rest(q, m), out, pc[e], version[e], bf, bs, <<>>, z)
      PROVE  Ways'
  <2>1. bs.inner = <<>> BY <1>1, <1>4 DEF Own
  <2> HIDE DEF qf, out, bp, q, bf, bs
  <2>2. Way(pc[p], version[p], Rest(q, m), version[e], bs.inner) BY <1>3, <1>4, <1>6, <2>1, WayEmpty
  <2>3. Way(pc[e], version[e], Join(qf, <<>>), version[p], bp)
    <3>1. Join(qf, <<>>) = qf BY <1>3, Whole DEF WholeFact
    <3> QED BY <1>4, <3>1
  <2> QED BY <1>4, <1>6, <2>2, <2>3, WaysFinish DEF bp
<1> QED BY <1>5, <1>6 DEF Relays

\* One read.
LEMMA ReadWays ==
  ASSUME IInv, Ways, NEW e, NEW d, e \in Endpoints, d \in Directions, Read(e, d)
  PROVE  Ways'
  BY ReadShape, HandshakesWays, DeliversWays, RelaysWays

\* An endpoint that returns is gone.
LEMMA DropWays ==
  ASSUME IInv, Ways, NEW e \in Endpoints, Drop(e), UNCHANGED <<buf, version, link>>
  PROVE  Ways'
<1>1. pc \in [Endpoints -> PCs] BY DEF IInv, TypeOK
<1>2. \A c \in Endpoints : pc'[c] = pc[c] \/ pc'[c] = "closed" BY <1>1 DEF Drop
<1>3. "closed" \in Gone BY DEF Gone
<1>4. ASSUME NEW c \in Endpoints
      PROVE  /\ Way(pc'[c], version[c], link[FirstHand(c)][2], version[Peer(c)], buf[Peer(c)][FirstHand(c)].inner)
             /\ Own(c, pc'[c], version[c], buf[c][SecondHand(c)].inner)
             /\ version[c] = "Passive" => version[Peer(c)] # "Passive"
  <2>1. /\ Way(pc[c], version[c], link[FirstHand(c)][2], version[Peer(c)], buf[Peer(c)][FirstHand(c)].inner)
        /\ Own(c, pc[c], version[c], buf[c][SecondHand(c)].inner)
        /\ version[c] = "Passive" => version[Peer(c)] # "Passive"
    BY DEF Ways
  <2>2. pc[c] \in Gone => pc'[c] \in Gone BY <1>2, <1>3
  <2>3. Way(pc'[c], version[c], link[FirstHand(c)][2], version[Peer(c)], buf[Peer(c)][FirstHand(c)].inner)
    BY <2>1, <2>2, WayMove
  <2>4. Own(c, pc'[c], version[c], buf[c][SecondHand(c)].inner) BY <1>2, <2>1 DEF Own, OutOfTls
  <2> QED BY <2>1, <2>3, <2>4
<1>5. \A c \in Endpoints :
        /\ Way(pc'[c], version'[c], link'[FirstHand(c)][2], version'[Peer(c)], buf'[Peer(c)][FirstHand(c)].inner)
        /\ Own(c, pc'[c], version'[c], buf'[c][SecondHand(c)].inner)
        /\ version'[c] = "Passive" => version'[Peer(c)] # "Passive"
  BY <1>4
<1> QED BY <1>5 DEF Ways, Own, Way, Closing, Shut, Has0xff

\* What is not on the tunnel does not matter.
LEMMA SameWays ==
  ASSUME Ways, UNCHANGED <<pc, buf, version>>, \A d \in Directions : link'[d][2] = link[d][2]
  PROVE  Ways'
<1>1. \A c \in Endpoints : FirstHand(c) \in Directions BY PairFacts
<1>2. \A c \in Endpoints :
        /\ Way(pc'[c], version'[c], link'[FirstHand(c)][2], version'[Peer(c)], buf'[Peer(c)][FirstHand(c)].inner)
        /\ Own(c, pc'[c], version'[c], buf'[c][SecondHand(c)].inner)
        /\ version'[c] = "Passive" => version'[Peer(c)] # "Passive"
  BY <1>1 DEF Ways
<1> QED BY <1>2 DEF Ways, Own, Way, Closing, Shut, Has0xff

LEMMA InitWays == Init => Ways
<1> SUFFICES ASSUME Init PROVE Ways OBVIOUS
<1>1. ASSUME NEW c \in Endpoints
      PROVE  /\ Way(pc[c], version[c], link[FirstHand(c)][2], version[Peer(c)], buf[Peer(c)][FirstHand(c)].inner)
             /\ Own(c, pc[c], version[c], buf[c][SecondHand(c)].inner)
             /\ version[c] = "Passive" => version[Peer(c)] # "Passive"
  <2>1. FirstHand(c) \in Directions /\ SecondHand(c) \in Directions /\ Peer(c) \in Endpoints /\ 2 \in Hops
    BY PairFacts, HopFacts
  <2>2. /\ pc[c] = "hello" /\ version[c] = "None" /\ version[Peer(c)] = "None"
        /\ link[FirstHand(c)][2] = <<>> /\ buf[Peer(c)][FirstHand(c)].inner = <<>>
    BY <2>1 DEF Init, EmptyBuffer
  <2>3. Shut(<<>>) /\ ~Has0xff(<<>>) BY DEF Shut, Has0xff
  <2>4. Closing(<<>>, <<>>) BY <2>3 DEF Closing
  <2> QED BY <2>2, <2>3, <2>4 DEF Way, Own, OutOfTls
<1> QED BY <1>1 DEF Ways

LEMMA NextWays == IInv /\ Ways /\ [Next]_vars => Ways'
<1> SUFFICES ASSUME IInv, Ways, [Next]_vars PROVE Ways' OBVIOUS
<1>1. CASE UNCHANGED vars BY <1>1, SameWays DEF vars
<1>2. ASSUME NEW d \in Directions, Send(d) PROVE Ways'
  <2>1. UNCHANGED <<pc, buf, version>> BY <1>2 DEF Send
  <2>2. \A c \in Directions : link'[c][2] = link[c][2]
    <3>1. link \in [Directions -> [Hops -> Seq(Unit)]] /\ 1 \in Hops /\ 2 \in Hops
      BY HopFacts DEF IInv, TypeOK
    <3> QED BY <1>2, <3>1 DEF Send, Put
  <2> QED BY <2>1, <2>2, SameWays
<1>3. ASSUME NEW d \in Directions, CloseSender(d) PROVE Ways' BY <1>3, SameWays DEF CloseSender
<1>4. ASSUME NEW e \in Endpoints, NEW d \in Directions, Read(e, d) PROVE Ways' BY <1>4, ReadWays
<1>5. ASSUME NEW e \in Endpoints, NEW d \in Directions, HandshakeEof(e, d) PROVE Ways'
  BY <1>5, DropWays DEF HandshakeEof
<1>6. ASSUME NEW e \in Endpoints, NEW d \in Directions, RelayEof(e, d) PROVE Ways'
  BY <1>6, SameWays DEF RelayEof
<1>7. ASSUME NEW e \in Endpoints, Abort(e) PROVE Ways' BY <1>7, DropWays DEF Abort
<1>8. ASSUME NEW e \in Endpoints, TlsFailure(e) PROVE Ways' BY <1>8, DropWays DEF TlsFailure
<1> QED BY <1>1, <1>2, <1>3, <1>4, <1>5, <1>6, <1>7, <1>8 DEF Next

LEMMA SpecWays == Spec => [](IInv /\ Ways)
<1>1. IInv /\ Ways /\ [Next]_vars => (IInv /\ Ways)' BY NextIInv, NextWays
<1> QED BY <1>1, InitIInv, InitWays, PTL DEF Spec

\* The endpoints agree on leaving TLS, for every script and record length, every cut of
\* reads and writes, sessions that read ahead, and failures anywhere.
THEOREM ModesAgreeHolds == Spec => []ModesAgree
<1>1. IInv /\ Ways => ModesAgree
  <2> SUFFICES ASSUME IInv, Ways, NEW e \in Endpoints
               PROVE  /\ pc[e] \in OutOfTls => pc[Peer(e)] \in OutOfTls \cup {"until0xff", "closed"}
                      /\ version[e] = "Passive" => version[Peer(e)] # "Passive"
    BY DEF ModesAgree
  <2>1. Peer(e) \in Endpoints /\ Peer(Peer(e)) = e BY PairFacts
  <2>2. /\ Own(e, pc[e], version[e], buf[e][SecondHand(e)].inner)
        /\ version[e] = "Passive" => version[Peer(e)] # "Passive"
        /\ Way(pc[Peer(e)], version[Peer(e)], link[FirstHand(Peer(e))][2], version[e],
               buf[e][FirstHand(Peer(e))].inner)
    BY <2>1 DEF Ways
  <2> QED BY <2>2 DEF Own, Way, Gone
<1> QED BY <1>1, SpecWays, PTL

\* No byte is read in the wrong mode, under the same conditions.
THEOREM TunnelCleanHolds == Spec => []TunnelClean
<1>1. IInv /\ Ways => TunnelClean
  <2> SUFFICES ASSUME IInv, Ways, NEW e \in Endpoints, NEW i \in 1..Len(link[SecondHand(e)][2])
               PROVE  /\ pc[e] \in OutOfTls => ~link[SecondHand(e)][2][i].enc
                      /\ pc[e] \in {"hello", "loop", "tcp"} => link[SecondHand(e)][2][i].enc
    BY DEF TunnelClean
  <2>1. Peer(e) \in Endpoints /\ Peer(Peer(e)) = e /\ FirstHand(Peer(e)) = SecondHand(e) BY PairFacts
  <2>2. /\ Own(e, pc[e], version[e], buf[e][SecondHand(e)].inner)
        /\ Way(pc[Peer(e)], version[Peer(e)], link[SecondHand(e)][2], version[e], buf[e][SecondHand(e)].inner)
    BY <2>1 DEF Ways
  <2>3. pc[e] \in OutOfTls => ~link[SecondHand(e)][2][i].enc BY <2>2 DEF Own, Way
  <2>4. ASSUME pc[e] \in {"hello", "loop", "tcp"} PROVE link[SecondHand(e)][2][i].enc
    <3>1. version[Peer(e)] = "None" BY <2>4, StillInside
    <3> QED BY <2>2, <3>1 DEF Way
  <2> QED BY <2>3, <2>4
<1> QED BY <1>1, SpecWays, PTL

(* The order of what is delivered. *)

\* The marks of a concatenation, of parts, and of what goes through a session.
LEMMA MarkFacts ==
  ASSUME NEW s \in Seq(Unit), NEW a
  PROVE  a \in Marks(s) <=> \E i \in 1..Len(s) : s[i].idx # 0 /\ a = <<s[i].idx, s[i].val>>
  BY DEF Marks

LEMMA MarksJoin ==
  ASSUME NEW s, NEW t, s \in Seq(Unit), t \in Seq(Unit)
  PROVE  Marks(Join(s, t)) = Marks(s) \cup Marks(t)
<1> DEFINE x == Join(s, t)
<1>1. x \in Seq(Unit) /\ Len(x) = Len(s) + Len(t) /\ Len(s) \in Nat /\ Len(t) \in Nat
  <2>1. x \in Seq(Unit) /\ Len(x) = Len(s) + Len(t) BY JoinParts
  <2> QED BY <2>1
<1>2. \A i \in 1..Len(s) : x[i] = s[i] BY JoinParts
<1>3. \A i \in 1..Len(t) : x[Len(s) + i] = t[i] BY JoinParts
<1>4. \A i \in 1..(Len(s) + Len(t)) : \/ i \in 1..Len(s) /\ x[i] = s[i]
                                      \/ i - Len(s) \in 1..Len(t) /\ x[i] = t[i - Len(s)]
  BY JoinParts
<1> HIDE DEF x
<1>5. ASSUME NEW a \in Marks(x) PROVE a \in Marks(s) \cup Marks(t)
  <2>1. PICK i \in 1..Len(x) : x[i].idx # 0 /\ a = <<x[i].idx, x[i].val>> BY <1>1, <1>5, MarkFacts
  <2>2. CASE i \in 1..Len(s) /\ x[i] = s[i] BY <2>1, <2>2, MarkFacts
  <2>3. CASE i - Len(s) \in 1..Len(t) /\ x[i] = t[i - Len(s)] BY <2>1, <2>3, MarkFacts
  <2> QED BY <1>1, <1>4, <2>1, <2>2, <2>3
<1>6. ASSUME NEW a \in Marks(s) PROVE a \in Marks(x)
  <2>1. PICK i \in 1..Len(s) : s[i].idx # 0 /\ a = <<s[i].idx, s[i].val>> BY <1>6, MarkFacts
  <2>2. i \in 1..Len(x) /\ x[i] = s[i] BY <1>1, <1>2
  <2> QED BY <1>1, <2>1, <2>2, MarkFacts
<1>7. ASSUME NEW a \in Marks(t) PROVE a \in Marks(x)
  <2>1. PICK i \in 1..Len(t) : t[i].idx # 0 /\ a = <<t[i].idx, t[i].val>> BY <1>7, MarkFacts
  <2>2. Len(s) + i \in 1..Len(x) /\ x[Len(s) + i] = t[i] BY <1>1, <1>3
  <2> QED BY <1>1, <2>1, <2>2, MarkFacts
<1>8. Marks(x) = Marks(s) \cup Marks(t) BY <1>5, <1>6, <1>7
<1> QED BY <1>8 DEF x

LEMMA RisingJoin ==
  ASSUME NEW s, NEW t, s \in Seq(Unit), t \in Seq(Unit), Rising(s), Rising(t), Before(Marks(s), Marks(t))
  PROVE  Rising(Join(s, t))
<1> DEFINE x == Join(s, t)
<1>1. Len(x) = Len(s) + Len(t) /\ Len(s) \in Nat /\ Len(t) \in Nat
  <2>1. Len(x) = Len(s) + Len(t) BY JoinParts
  <2> QED BY <2>1
<1>2. \A i \in 1..(Len(s) + Len(t)) : \/ i \in 1..Len(s) /\ x[i] = s[i]
                                      \/ i - Len(s) \in 1..Len(t) /\ x[i] = t[i - Len(s)]
  BY JoinParts
<1> HIDE DEF x
<1>3. ASSUME NEW i \in 1..Len(x), NEW j \in 1..Len(x), i < j, x[i].idx # 0, x[j].idx # 0
      PROVE  x[i].idx < x[j].idx
  <2>1. ASSUME i \in 1..Len(s), x[i] = s[i], j - Len(s) \in 1..Len(t), x[j] = t[j - Len(s)]
        PROVE  x[i].idx < x[j].idx
    <3>1. <<s[i].idx, s[i].val>> \in Marks(s) BY <1>3, <2>1, MarkFacts
    <3>2. <<t[j - Len(s)].idx, t[j - Len(s)].val>> \in Marks(t) BY <1>3, <2>1, MarkFacts
    <3> QED BY <2>1, <3>1, <3>2 DEF Before
  <2>2. CASE i \in 1..Len(s) /\ x[i] = s[i] /\ j \in 1..Len(s) /\ x[j] = s[j] BY <1>3, <2>2 DEF Rising
  <2>3. CASE i - Len(s) \in 1..Len(t) /\ x[i] = t[i - Len(s)] /\ j - Len(s) \in 1..Len(t) /\ x[j] = t[j - Len(s)]
    <3>1. i - Len(s) < j - Len(s) BY <1>1, <1>3
    <3> QED BY <1>3, <2>3, <3>1 DEF Rising
  <2>4. \/ i \in 1..Len(s) /\ x[i] = s[i]
        \/ i - Len(s) \in 1..Len(t) /\ x[i] = t[i - Len(s)]
    BY <1>1, <1>2
  <2>5. \/ j \in 1..Len(s) /\ x[j] = s[j]
        \/ j - Len(s) \in 1..Len(t) /\ x[j] = t[j - Len(s)]
    BY <1>1, <1>2
  <2>6. ~(i - Len(s) \in 1..Len(t) /\ j \in 1..Len(s)) BY <1>1, <1>3
  <2> QED BY <2>1, <2>2, <2>3, <2>4, <2>5, <2>6
<1>4. Rising(x) BY <1>3 DEF Rising
<1> QED BY <1>4 DEF x

\* What has the units of another sequence, at the same places or cleared, has no other marks.
LEMMA SameMarks ==
  ASSUME NEW s, NEW t, NEW c, s \in Seq(Unit), t \in Seq(Unit), c \in Nat,
         \A i \in 1..Len(t) : /\ c + i \in 1..Len(s)
                              /\ t[i].idx = 0 \/ (t[i].idx = s[c + i].idx /\ t[i].val = s[c + i].val)
  PROVE  Marks(t) \subseteq Marks(s) /\ (Rising(s) => Rising(t))
<1>1. ASSUME NEW a \in Marks(t) PROVE a \in Marks(s)
  <2>1. PICK i \in 1..Len(t) : t[i].idx # 0 /\ a = <<t[i].idx, t[i].val>> BY <1>1, MarkFacts
  <2>2. c + i \in 1..Len(s) /\ s[c + i].idx # 0 /\ a = <<s[c + i].idx, s[c + i].val>> BY <2>1
  <2> QED BY <2>2, MarkFacts
<1>2. ASSUME Rising(s), NEW i \in 1..Len(t), NEW j \in 1..Len(t), i < j, t[i].idx # 0, t[j].idx # 0
      PROVE  t[i].idx < t[j].idx
  <2>1. c + i \in 1..Len(s) /\ c + j \in 1..Len(s) /\ c + i < c + j BY <1>2
  <2>2. t[i].idx = s[c + i].idx /\ t[j].idx = s[c + j].idx BY <1>2
  <2> QED BY <1>2, <2>1, <2>2 DEF Rising
<1> QED BY <1>1, <1>2 DEF Rising

LEMMA CryptMarks ==
  ASSUME NEW s, s \in Seq(Unit)
  PROVE  /\ Encrypted(s) \in Seq(Unit) /\ Decrypted(s) \in Seq(Unit) /\ AsCipher(s) \in Seq(Unit)
         /\ Marks(Encrypted(s)) \subseteq Marks(s) /\ (Rising(s) => Rising(Encrypted(s)))
         /\ Marks(Decrypted(s)) \subseteq Marks(s) /\ (Rising(s) => Rising(Decrypted(s)))
         /\ Marks(AsCipher(s)) \subseteq Marks(s) /\ (Rising(s) => Rising(AsCipher(s)))
<1>1. \A i \in 1..Len(s) : 0 + i \in 1..Len(s) /\ 0 + i = i OBVIOUS
<1>2. 0 \in Nat OBVIOUS
<1>3. Encrypted(s) \in Seq(Unit) /\ Decrypted(s) \in Seq(Unit) /\ AsCipher(s) \in Seq(Unit) BY CryptFacts
<1>4. Len(Encrypted(s)) = Len(s) /\ Len(Decrypted(s)) = Len(s) /\ Len(AsCipher(s)) = Len(s) BY CryptFacts
<1>5. \A i \in 1..Len(s) : Encrypted(s)[i].idx = s[i].idx /\ Encrypted(s)[i].val = s[i].val BY DEF Encrypted
<1>6. \A i \in 1..Len(s) : Decrypted(s)[i].idx = s[i].idx /\ Decrypted(s)[i].val = s[i].val BY DEF Decrypted
<1>7. \A i \in 1..Len(s) :
        AsCipher(s)[i].idx = 0 \/ (AsCipher(s)[i].idx = s[i].idx /\ AsCipher(s)[i].val = s[i].val)
  BY DEF AsCipher
<1>8. Marks(Encrypted(s)) \subseteq Marks(s) /\ (Rising(s) => Rising(Encrypted(s)))
  <2> DEFINE e == Encrypted(s)
  <2>1. \A i \in 1..Len(e) : 0 + i \in 1..Len(s) /\ e[i].idx = s[0 + i].idx /\ e[i].val = s[0 + i].val
    BY <1>1, <1>4, <1>5
  <2> HIDE DEF e
  <2> QED BY <1>2, <1>3, <2>1, SameMarks DEF e
<1>9. Marks(Decrypted(s)) \subseteq Marks(s) /\ (Rising(s) => Rising(Decrypted(s)))
  <2> DEFINE e == Decrypted(s)
  <2>1. \A i \in 1..Len(e) : 0 + i \in 1..Len(s) /\ e[i].idx = s[0 + i].idx /\ e[i].val = s[0 + i].val
    BY <1>1, <1>4, <1>6
  <2> HIDE DEF e
  <2> QED BY <1>2, <1>3, <2>1, SameMarks DEF e
<1>10. Marks(AsCipher(s)) \subseteq Marks(s) /\ (Rising(s) => Rising(AsCipher(s)))
  <2> DEFINE e == AsCipher(s)
  <2>1. \A i \in 1..Len(e) : /\ 0 + i \in 1..Len(s)
                             /\ e[i].idx = 0 \/ (e[i].idx = s[0 + i].idx /\ e[i].val = s[0 + i].val)
    BY <1>1, <1>4, <1>7
  <2> HIDE DEF e
  <2> QED BY <1>2, <1>3, <2>1, SameMarks DEF e
<1> QED BY <1>3, <1>8, <1>9, <1>10

\* Nothing, and the command, bear no mark.
LEMMA NoMarks ==
  /\ Marks(<<>>) = {} /\ Rising(<<>>) /\ <<>> \in Seq(Unit)
  /\ Marks(LEAVE_TLS_COMMAND) = {} /\ Rising(LEAVE_TLS_COMMAND) /\ LEAVE_TLS_COMMAND \in Seq(Unit)
<1>1. Marks(<<>>) = {} /\ Rising(<<>>) /\ <<>> \in Seq(Unit) BY EmptySeq DEF Marks, Rising
<1>2. /\ LEAVE_TLS_COMMAND \in Seq(Unit) /\ Len(LEAVE_TLS_COMMAND) = RecLen
      /\ \A i \in 1..RecLen : LEAVE_TLS_COMMAND[i].idx = 0
  BY LeaveFacts
<1> QED BY <1>1, <1>2 DEF Marks, Rising

\* A cut, of which the second part may begin later.
LEMMA PartsCut ==
  ASSUME NEW x, NEW n, NEW m, x \in Seq(Unit), Rising(x), m \in 0..Len(x), n \in 0..m
  PROVE  Parts(x, Upto(x, n), Rest(x, m)) /\ n \in 0..Len(x)
<1>1. Len(x) \in Nat /\ n \in 0..Len(x) OBVIOUS
<1> DEFINE z == Upto(x, n)
           r == Rest(x, m)
<1>2. z \in Seq(Unit) /\ Len(z) = n /\ \A i \in 1..n : z[i] = x[i] BY <1>1, PartFacts
<1>3. r \in Seq(Unit) /\ Len(r) = Len(x) - m /\ \A i \in 1..(Len(x) - m) : r[i] = x[m + i]
  BY <1>1, PartFacts
<1> HIDE DEF z, r
<1>4. Marks(z) \subseteq Marks(x) /\ Rising(z)
  <2>1. \A i \in 1..Len(z) : 0 + i \in 1..Len(x) /\ z[i] = x[0 + i] BY <1>1, <1>2
  <2> QED BY <1>2, <2>1, SameMarks
<1>5. Marks(r) \subseteq Marks(x) /\ Rising(r)
  <2>1. \A i \in 1..Len(r) : m + i \in 1..Len(x) /\ r[i] = x[m + i] BY <1>1, <1>3
  <2>2. m \in Nat OBVIOUS
  <2> QED BY <1>3, <2>1, <2>2, SameMarks
<1>6. ASSUME NEW a \in Marks(z), NEW b \in Marks(r) PROVE a[1] < b[1]
  <2>1. PICK i \in 1..Len(z) : z[i].idx # 0 /\ a = <<z[i].idx, z[i].val>> BY <1>2, <1>6, MarkFacts
  <2>2. PICK j \in 1..Len(r) : r[j].idx # 0 /\ b = <<r[j].idx, r[j].val>> BY <1>3, <1>6, MarkFacts
  <2>3. i \in 1..Len(x) /\ m + j \in 1..Len(x) /\ i < m + j BY <1>1, <1>2, <1>3
  <2>4. z[i] = x[i] /\ r[j] = x[m + j] BY <1>2, <1>3
  <2> QED BY <2>1, <2>2, <2>3, <2>4 DEF Rising
<1> QED BY <1>1, <1>2, <1>3, <1>4, <1>5, <1>6 DEF Parts, Before, z, r

\* What is left of the parts.
LEMMA PartsLess ==
  ASSUME NEW x, NEW z, NEW r, Parts(x, z, r), NEW z2, NEW r2, z2 \in Seq(Unit), r2 \in Seq(Unit),
         Rising(z2), Rising(r2), Marks(z2) \subseteq Marks(z), Marks(r2) \subseteq Marks(r)
  PROVE  Parts(x, z2, r2)
  BY DEF Parts, Before

\* A prefix of a sequence.
LEMMA PrefixMarks ==
  ASSUME NEW x, NEW z, x \in Seq(Unit), Rising(x), Prefix(z, x)
  PROVE  z \in Seq(Unit) /\ Rising(z) /\ Marks(z) \subseteq Marks(x)
<1>1. PICK j \in 0..Len(x) : z = Upto(x, j) BY DEF Prefix
<1>2. Len(x) \in Nat /\ j \in 0..j OBVIOUS
<1>3. Parts(x, Upto(x, j), Rest(x, j)) BY <1>2, PartsCut
<1> QED BY <1>1, <1>3 DEF Parts

(* The chain, of which a part moves one place on. *)

LEMMA ChainMoves ==
  ASSUME NEW W, NEW o, NEW b, NEW q, NEW h, NEW in, Chain(W, o, b, q, h, in),
         o \in Seq(Unit), b \in Seq(Unit), q \in Seq(Unit), h \in Seq(Unit), in \in Seq(Unit), NEW z, NEW r
  PROVE  /\ Parts(b, z, r) => Chain(W, Join(o, z), r, q, h, in)
         /\ Parts(q, z, r) => Chain(W, o, Join(b, z), r, h, in)
         /\ Parts(h, z, r) => Chain(W, o, b, Join(q, z), r, in)
         /\ Parts(in, z, r) => Chain(W, o, b, q, Join(h, z), r)
<1>1. ASSUME Parts(b, z, r) PROVE Chain(W, Join(o, z), r, q, h, in)
  <2>1. Marks(Join(o, z)) = Marks(o) \cup Marks(z) BY <1>1, MarksJoin DEF Parts
  <2>2. Before(Marks(o), Marks(z)) BY <1>1 DEF Parts, Chain, Before
  <2>3. Rising(Join(o, z)) BY <1>1, <2>2, RisingJoin DEF Parts, Chain
  <2> QED BY <1>1, <2>1, <2>3 DEF Parts, Chain, Before
<1>2. ASSUME Parts(q, z, r) PROVE Chain(W, o, Join(b, z), r, h, in)
  <2>1. Marks(Join(b, z)) = Marks(b) \cup Marks(z) BY <1>2, MarksJoin DEF Parts
  <2>2. Before(Marks(b), Marks(z)) BY <1>2 DEF Parts, Chain, Before
  <2>3. Rising(Join(b, z)) BY <1>2, <2>2, RisingJoin DEF Parts, Chain
  <2> QED BY <1>2, <2>1, <2>3 DEF Parts, Chain, Before
<1>3. ASSUME Parts(h, z, r) PROVE Chain(W, o, b, Join(q, z), r, in)
  <2>1. Marks(Join(q, z)) = Marks(q) \cup Marks(z) BY <1>3, MarksJoin DEF Parts
  <2>2. Before(Marks(q), Marks(z)) BY <1>3 DEF Parts, Chain, Before
  <2>3. Rising(Join(q, z)) BY <1>3, <2>2, RisingJoin DEF Parts, Chain
  <2> QED BY <1>3, <2>1, <2>3 DEF Parts, Chain, Before
<1>4. ASSUME Parts(in, z, r) PROVE Chain(W, o, b, q, Join(h, z), r)
  <2>1. Marks(Join(h, z)) = Marks(h) \cup Marks(z) BY <1>4, MarksJoin DEF Parts
  <2>2. Before(Marks(h), Marks(z)) BY <1>4 DEF Parts, Chain, Before
  <2>3. Rising(Join(h, z)) BY <1>4, <2>2, RisingJoin DEF Parts, Chain
  <2> QED BY <1>4, <2>1, <2>3 DEF Parts, Chain, Before
<1> QED BY <1>1, <1>2, <1>3, <1>4

(* The steps. *)

\* A step of e ends: the chain of its own bytes, and of those it receives.
LEMMA OrdersFinish ==
  ASSUME IInv, NEW e, NEW in, NEW qf, NEW qs, NEW out, NEW where, NEW v, NEW nf, NEW ns, NEW y, NEW z, NEW h,
         e \in Endpoints, UNCHANGED <<script, sent>>,
         Lands(e, in, qf, qs, out, where, v, nf, ns, y, z),
         h = IF where \in Parsing THEN nf.inner ELSE <<>>,
         Chain(Sent(FirstHand(e)), link[FirstHand(e)][3], buf[Peer(e)][FirstHand(e)].inner, Join(qf, y), h, in),
         Chain(Sent(SecondHand(e)), Join(out, z), ns.inner, qs, Held(Peer(e)), link[SecondHand(e)][1])
  PROVE  Orders'
<1> DEFINE f == FirstHand(e)
           s == SecondHand(e)
           p == Peer(e)
<1>1. /\ f \in Directions /\ s \in Directions /\ f # s /\ p \in Endpoints /\ p # e /\ Endpoints = {e, p}
      /\ Peer(p) = e /\ FirstHand(p) = s /\ SecondHand(p) = f
  BY PairFacts
<1>2. PICK nb, l : /\ At(e, l, in, Join(qf, y), qs, Join(out, z)) /\ Bf(e, nb, nf, ns)
                   /\ MoveTo(e, where, nb, l) /\ version' = [version EXCEPT ![e] = v]
  BY DEF Lands
<1>3. pc \in [Endpoints -> PCs] /\ buf \in [Endpoints -> [Directions -> Buffer]] BY DEF IInv, TypeOK
<1>4. pc'[e] = where /\ buf'[e] = nb /\ link' = l BY <1>2, <1>3 DEF MoveTo
<1>5. pc'[p] = pc[p] /\ buf'[p] = buf[p] BY <1>1, <1>2, <1>3 DEF MoveTo
<1>6. /\ link'[f][1] = in /\ link'[f][2] = Join(qf, y) /\ link'[f][3] = link[f][3]
      /\ link'[s][1] = link[s][1] /\ link'[s][2] = qs /\ link'[s][3] = Join(out, z)
  BY <1>2, <1>4 DEF At
<1>7. buf'[e][s] = ns /\ buf'[e][f] = nf BY <1>2, <1>4 DEF Bf
<1>8. Held(e)' = h /\ Held(p)' = Held(p) BY <1>1, <1>4, <1>5, <1>7 DEF Held
<1>9. Sent(f)' = Sent(f) /\ Sent(s)' = Sent(s) BY DEF Sent, Mark
<1> HIDE DEF f, s, p
<1>10. Chain(Sent(f)', link'[f][3], buf'[p][f].inner, link'[f][2], Held(e)', link'[f][1])
  BY <1>5, <1>6, <1>8, <1>9 DEF f, p
<1>11. Chain(Sent(s)', link'[s][3], buf'[e][s].inner, link'[s][2], Held(p)', link'[s][1])
  BY <1>6, <1>7, <1>8, <1>9 DEF s, p
<1>12. Chained(e)' BY <1>10 DEF Chained, f, p, Chain, Rising, Before, Marks
<1>13. Chained(p)'
  <2>1. Sent(FirstHand(p))' = Sent(s)' BY <1>1 DEF Sent, Mark
  <2>2. Chain(Sent(FirstHand(p))', link'[FirstHand(p)][3], buf'[Peer(p)][FirstHand(p)].inner,
              link'[FirstHand(p)][2], Held(p)', link'[FirstHand(p)][1])
    BY <1>1, <1>11, <2>1
  <2> QED BY <2>2 DEF Chained, Chain, Rising, Before, Marks
<1> QED BY <1>1, <1>12, <1>13 DEF Orders

\* The chains of an endpoint as it is, and their types.
LEMMA ChainsAre ==
  ASSUME IInv, Orders, NEW e, e \in Endpoints
  PROVE  /\ Chain(Sent(FirstHand(e)), link[FirstHand(e)][3], buf[Peer(e)][FirstHand(e)].inner,
                  link[FirstHand(e)][2], Held(e), link[FirstHand(e)][1])
         /\ Chain(Sent(SecondHand(e)), link[SecondHand(e)][3], buf[e][SecondHand(e)].inner,
                  link[SecondHand(e)][2], Held(Peer(e)), link[SecondHand(e)][1])
         /\ link[FirstHand(e)][3] \in Seq(Unit) /\ Held(e) \in Seq(Unit)
         /\ Held(Peer(e)) \in Seq(Unit) /\ link[SecondHand(e)][1] \in Seq(Unit)
<1>1. Peer(e) \in Endpoints /\ Peer(Peer(e)) = e /\ FirstHand(Peer(e)) = SecondHand(e) BY PairFacts
<1>2. Chained(e) /\ Chained(Peer(e)) BY <1>1 DEF Orders
<1>3. FirstHand(e) \in Directions /\ SecondHand(e) \in Directions /\ 1 \in Hops /\ 3 \in Hops
  BY PairFacts, HopFacts
<1>4. Held(e) \in Seq(Unit) /\ Held(Peer(e)) \in Seq(Unit) BY <1>1, TypeFacts
<1>5. link[FirstHand(e)][3] \in Seq(Unit) /\ link[SecondHand(e)][1] \in Seq(Unit) BY <1>3, TypeFacts
<1> QED BY <1>1, <1>2, <1>4, <1>5 DEF Chained

\* The chains after a read in the handshake.
LEMMA FromChains ==
  ASSUME IInv, Orders, NEW e, NEW in, NEW qs, NEW xf, NEW xs, e \in Endpoints, pc[e] \in Parsing,
         From(e, in, qs, xf, xs)
  PROVE  /\ Chain(Sent(FirstHand(e)), link[FirstHand(e)][3], buf[Peer(e)][FirstHand(e)].inner,
                  link[FirstHand(e)][2], xf, in)
         /\ Chain(Sent(SecondHand(e)), link[SecondHand(e)][3], xs, qs, Held(Peer(e)), link[SecondHand(e)][1])
         /\ xf \in Seq(Unit) /\ xs \in Seq(Unit) /\ in \in Seq(Unit) /\ qs \in Seq(Unit)
<1> DEFINE f == FirstHand(e)
           s == SecondHand(e)
           W == Sent(f)
           V == Sent(s)
           o == link[f][3]
           b == buf[Peer(e)][f].inner
           q == link[f][2]
           h == buf[e][f].inner
           i == link[f][1]
           oo == link[s][3]
           bb == buf[e][s].inner
           qq == link[s][2]
           hh == Held(Peer(e))
           ii == link[s][1]
<1>1. Chain(W, o, b, q, h, i) /\ Chain(V, oo, bb, qq, hh, ii) BY ChainsAre DEF Held
<1>2. /\ o \in Seq(Unit) /\ b \in Seq(Unit) /\ q \in Seq(Unit) /\ h \in Seq(Unit) /\ i \in Seq(Unit)
      /\ oo \in Seq(Unit) /\ bb \in Seq(Unit) /\ qq \in Seq(Unit) /\ hh \in Seq(Unit) /\ ii \in Seq(Unit)
  BY HasFacts, ChainsAre
<1>3. Rising(i) /\ Rising(qq) BY <1>1 DEF Chain
<1> HIDE DEF W, V, o, b, q, h, i, oo, bb, qq, hh, ii
<1>4. ASSUME NEW n, n \in 0..Len(i), in = Rest(i, n), qs = qq, xf = Join(h, AsCipher(Upto(i, n))), xs = bb
      PROVE  /\ Chain(W, o, b, q, xf, in) /\ Chain(V, oo, xs, qs, hh, ii)
             /\ xf \in Seq(Unit) /\ xs \in Seq(Unit) /\ in \in Seq(Unit) /\ qs \in Seq(Unit)
  <2>1. n \in 0..n /\ Upto(i, n) \in Seq(Unit) /\ Rest(i, n) \in Seq(Unit) BY <1>2, <1>4, PartFacts
  <2>2. Parts(i, Upto(i, n), Rest(i, n)) BY <1>2, <1>3, <1>4, <2>1, PartsCut
  <2> DEFINE u == Upto(i, n)
             t == AsCipher(u)
             r == Rest(i, n)
  <2>3. Rising(u) /\ Rising(r) BY <2>2 DEF Parts
  <2>4. u \in Seq(Unit) /\ r \in Seq(Unit) BY <2>1
  <2> HIDE DEF u, r
  <2>5. t \in Seq(Unit) /\ Marks(t) \subseteq Marks(u) /\ Rising(t) BY <2>3, <2>4, CryptMarks
  <2> HIDE DEF t
  <2>6. Parts(i, t, r) BY <2>2, <2>3, <2>4, <2>5, PartsLess DEF u, r
  <2>7. Chain(W, o, b, q, Join(h, t), r) BY <1>1, <1>2, <2>6, ChainMoves
  <2>8. Join(h, t) \in Seq(Unit) BY <1>2, <2>5, JoinParts
  <2> QED BY <1>1, <1>2, <1>4, <2>4, <2>7, <2>8 DEF t, u, r
<1>5. ASSUME NEW n, NEW m, n \in 0..m, m \in 0..Len(qq), in = i, qs = Rest(qq, m), xf = h,
             xs = Join(bb, Decrypted(Upto(qq, n)))
      PROVE  /\ Chain(W, o, b, q, xf, in) /\ Chain(V, oo, xs, qs, hh, ii)
             /\ xf \in Seq(Unit) /\ xs \in Seq(Unit) /\ in \in Seq(Unit) /\ qs \in Seq(Unit)
  <2>1. Parts(qq, Upto(qq, n), Rest(qq, m)) BY <1>2, <1>3, <1>5, PartsCut
  <2> DEFINE u == Upto(qq, n)
             t == Decrypted(u)
             r == Rest(qq, m)
  <2>2. u \in Seq(Unit) /\ r \in Seq(Unit) /\ Rising(u) /\ Rising(r) BY <2>1 DEF Parts
  <2> HIDE DEF u, r
  <2>3. t \in Seq(Unit) /\ Marks(t) \subseteq Marks(u) /\ Rising(t) BY <2>2, CryptMarks
  <2> HIDE DEF t
  <2>4. Parts(qq, t, r) BY <2>1, <2>2, <2>3, PartsLess DEF u, r
  <2>5. Chain(V, oo, Join(bb, t), r, hh, ii) BY <1>1, <1>2, <2>4, ChainMoves
  <2>6. Join(bb, t) \in Seq(Unit) BY <1>2, <2>3, JoinParts
  <2> QED BY <1>1, <1>2, <1>5, <2>2, <2>5, <2>6 DEF t, u, r
<1>6. /\ Chain(W, o, b, q, xf, in) /\ Chain(V, oo, xs, qs, hh, ii)
      /\ xf \in Seq(Unit) /\ xs \in Seq(Unit) /\ in \in Seq(Unit) /\ qs \in Seq(Unit)
  <2>1. \/ \E n : /\ n \in 0..Len(i) /\ in = Rest(i, n) /\ qs = qq
                  /\ xf = Join(h, AsCipher(Upto(i, n))) /\ xs = bb
        \/ \E n, m : /\ n \in 0..m /\ m \in 0..Len(qq) /\ in = i /\ qs = Rest(qq, m) /\ xf = h
                     /\ xs = Join(bb, Decrypted(Upto(qq, n)))
    BY DEF From, i, qq, h, bb
  <2> QED BY <1>4, <1>5, <2>1
<1> QED BY <1>6 DEF W, V, o, b, q, oo, hh, ii

\* Of second-hand bytes xs, some of the first k are delivered and r is kept.
LEMMA PartsOut ==
  ASSUME NEW xs, NEW k, NEW z, NEW r, xs \in Seq(Unit), Rising(xs), k \in 0..Len(xs), Prefix(z, Upto(xs, k)),
         r = Rest(xs, k) \/ r = <<>>
  PROVE  Parts(xs, z, r)
<1>1. k \in 0..k BY PartFacts
<1>2. Parts(xs, Upto(xs, k), Rest(xs, k)) BY <1>1, PartsCut
<1>3. Upto(xs, k) \in Seq(Unit) /\ Rising(Upto(xs, k)) /\ Rest(xs, k) \in Seq(Unit) /\ Rising(Rest(xs, k))
  BY <1>2 DEF Parts
<1>4. z \in Seq(Unit) /\ Rising(z) /\ Marks(z) \subseteq Marks(Upto(xs, k)) BY <1>3, PrefixMarks
<1>5. r \in Seq(Unit) /\ Rising(r) /\ Marks(r) \subseteq Marks(Rest(xs, k)) BY <1>3, NoMarks
<1> QED BY <1>2, <1>4, <1>5, PartsLess

\* e stays in TLS.
LEMMA PassesOrders ==
  ASSUME IInv, Orders, NEW e, NEW in, NEW qs, NEW xf, NEW xs, e \in Endpoints, pc[e] \in Parsing,
         UNCHANGED <<script, sent>>, From(e, in, qs, xf, xs),
         Passes(e, in, link[FirstHand(e)][2], qs, link[SecondHand(e)][3], xf, xs)
  PROVE  Orders'
<1> DEFINE f == FirstHand(e)
           s == SecondHand(e)
           W == Sent(f)
           V == Sent(s)
           o == link[f][3]
           b == buf[Peer(e)][f].inner
           qf == link[f][2]
           out == link[s][3]
           hh == Held(Peer(e))
           ii == link[s][1]
<1>1. /\ Chain(W, o, b, qf, xf, in) /\ Chain(V, out, xs, qs, hh, ii)
      /\ xf \in Seq(Unit) /\ xs \in Seq(Unit) /\ in \in Seq(Unit) /\ qs \in Seq(Unit)
  BY FromChains
<1>2. /\ o \in Seq(Unit) /\ b \in Seq(Unit) /\ qf \in Seq(Unit) /\ out \in Seq(Unit)
      /\ hh \in Seq(Unit) /\ ii \in Seq(Unit)
  BY HasFacts, ChainsAre
<1>3. PICK where, nf, ns, z, m, k :
    /\ Lands(e, in, qf, qs, out, where, version[e], nf, ns, Encrypted(Upto(xf, m)), z)
    /\ where \in {"hello", "loop", "tcp"} /\ m \in 0..Len(xf) /\ k \in 0..Len(xs)
    /\ nf.inner = Rest(xf, m) /\ ns.inner = Rest(xs, k) /\ Prefix(z, Upto(xs, k))
    /\ where = "tcp" => nf.inner = <<>> /\ ns.inner = <<>>
  BY DEF Passes
<1>4. Rising(xf) /\ Rising(xs) BY <1>1 DEF Chain
<1> HIDE DEF f, s, W, V, o, b, qf, out, hh, ii
<1> DEFINE u == Upto(xf, m)
           y == Encrypted(u)
           h == nf.inner
<1>5. m \in 0..m BY <1>3
<1>6. Parts(xf, u, h) BY <1>1, <1>3, <1>4, <1>5, PartsCut
<1>7. u \in Seq(Unit) /\ Rising(u) /\ h \in Seq(Unit) /\ Rising(h) BY <1>6 DEF Parts
<1>8. y \in Seq(Unit) /\ Marks(y) \subseteq Marks(u) /\ Rising(y)
  <2> HIDE DEF u
  <2> QED BY <1>7, CryptMarks
<1> HIDE DEF u, y, h
<1>9. Parts(xf, y, h) BY <1>6, <1>7, <1>8, PartsLess
<1>10. Chain(W, o, b, Join(qf, y), h, in) BY <1>1, <1>2, <1>9, ChainMoves
<1>11. Parts(xs, z, ns.inner) BY <1>1, <1>3, <1>4, PartsOut
<1>12. Chain(V, Join(out, z), ns.inner, qs, hh, ii) BY <1>1, <1>2, <1>11, ChainMoves
<1>13. h = IF where \in Parsing THEN nf.inner ELSE <<>> BY <1>3 DEF Parsing, h
<1>14. Lands(e, in, qf, qs, out, where, version[e], nf, ns, y, z) BY <1>3 DEF y, u
<1> QED BY <1>10, <1>12, <1>13, <1>14, OrdersFinish DEF f, s, W, V, o, b, hh, ii

\* It leaves as the passive side.
LEMMA PassiveOrders ==
  ASSUME IInv, Orders, NEW e, NEW in, NEW qs, NEW xf, NEW xs, e \in Endpoints, pc[e] \in Parsing,
         UNCHANGED <<script, sent>>, From(e, in, qs, xf, xs),
         GoesPassive(e, in, link[FirstHand(e)][2], qs, link[SecondHand(e)][3], xf, xs)
  PROVE  Orders'
<1> DEFINE f == FirstHand(e)
           s == SecondHand(e)
           W == Sent(f)
           V == Sent(s)
           o == link[f][3]
           b == buf[Peer(e)][f].inner
           qf == link[f][2]
           out == link[s][3]
           hh == Held(Peer(e))
           ii == link[s][1]
           y == Encrypted(LEAVE_TLS_COMMAND)
<1>1. /\ Chain(W, o, b, qf, xf, in) /\ Chain(V, out, xs, qs, hh, ii)
      /\ xf \in Seq(Unit) /\ xs \in Seq(Unit) /\ in \in Seq(Unit) /\ qs \in Seq(Unit)
  BY FromChains
<1>2. /\ o \in Seq(Unit) /\ b \in Seq(Unit) /\ qf \in Seq(Unit) /\ out \in Seq(Unit)
      /\ hh \in Seq(Unit) /\ ii \in Seq(Unit)
  BY HasFacts, ChainsAre
<1>3. PICK where, nf, ns, j :
    /\ Lands(e, in, qf, qs, out, where, "Passive", nf, ns, y, <<>>)
    /\ where \in OutOfTls /\ CommandAt(xs, j) /\ nf.inner = xf /\ ns.inner = Upto(xs, j)
  BY DEF GoesPassive
<1>4. Rising(xs) BY <1>1 DEF Chain
<1>5. y \in Seq(Unit) /\ Marks(y) = {} /\ Rising(y)
  <2>1. Marks(y) \subseteq Marks(LEAVE_TLS_COMMAND) /\ Rising(y) /\ y \in Seq(Unit) BY NoMarks, CryptMarks
  <2> QED BY <2>1, NoMarks
<1> HIDE DEF f, s, W, V, o, b, qf, out, hh, ii, y
<1>6. Parts(xf, y, <<>>) BY <1>5, NoMarks DEF Parts, Before
<1>7. Chain(W, o, b, Join(qf, y), <<>>, in) BY <1>1, <1>2, <1>6, ChainMoves
<1>8. j \in 0..Len(xs)
  <2>1. Len(xs) \in Nat /\ j \in Nat /\ j + RecLen <= Len(xs) BY <1>1, <1>3 DEF CommandAt
  <2> QED BY <2>1, LengthAssumption
<1>9. Parts(xs, <<>>, ns.inner)
  <2>1. j \in 0..j BY <1>8
  <2>2. Parts(xs, Upto(xs, j), Rest(xs, j)) BY <1>1, <1>4, <1>8, <2>1, PartsCut
  <2> QED BY <1>3, <2>2, NoMarks DEF Parts, Before
<1>10. Chain(V, Join(out, <<>>), ns.inner, qs, hh, ii) BY <1>1, <1>2, <1>9, ChainMoves
<1>11. <<>> = IF where \in Parsing THEN nf.inner ELSE <<>> BY <1>3 DEF Parsing, OutOfTls
<1> QED BY <1>3, <1>7, <1>10, <1>11, OrdersFinish DEF f, s, W, V, o, b, hh, ii

\* It waits for the 0xff, with q on the tunnel and h held back,
LEMMA WaitsOrders ==
  ASSUME IInv, Orders, NEW e, NEW in, NEW q, NEW qs, NEW h, NEW xs, e \in Endpoints, UNCHANGED <<script, sent>>,
         Chain(Sent(FirstHand(e)), link[FirstHand(e)][3], buf[Peer(e)][FirstHand(e)].inner, q, h, in),
         Chain(Sent(SecondHand(e)), link[SecondHand(e)][3], xs, qs, Held(Peer(e)), link[SecondHand(e)][1]),
         q \in Seq(Unit), h \in Seq(Unit), xs \in Seq(Unit), in \in Seq(Unit), qs \in Seq(Unit),
         Waits(e, in, q, qs, link[SecondHand(e)][3], h, xs)
  PROVE  Orders'
<1> DEFINE s == SecondHand(e)
           V == Sent(s)
           out == link[s][3]
           hh == Held(Peer(e))
           ii == link[s][1]
<1>1. out \in Seq(Unit) /\ hh \in Seq(Unit) /\ ii \in Seq(Unit) BY HasFacts, ChainsAre
<1>2. PICK nf, ns, z, j :
    /\ Lands(e, in, q, qs, out, "until0xff", version[e], nf, ns, <<>>, z)
    /\ j \in 0..Len(xs) /\ nf.inner = h /\ ns.inner = Rest(xs, j) /\ Prefix(z, Upto(xs, j))
  BY DEF Waits
<1>3. Chain(V, out, xs, qs, hh, ii) /\ Rising(xs) BY DEF Chain
<1> HIDE DEF s, V, out, hh, ii
<1>4. Parts(xs, z, ns.inner) BY <1>2, <1>3, PartsOut
<1>5. Chain(V, Join(out, z), ns.inner, qs, hh, ii) BY <1>1, <1>3, <1>4, ChainMoves
<1>6. Join(q, <<>>) = q BY Whole DEF WholeFact
<1>7. h = IF "until0xff" \in Parsing THEN nf.inner ELSE <<>> BY <1>2 DEF Parsing
<1> QED BY <1>2, <1>5, <1>6, <1>7, OrdersFinish DEF s, V, hh, ii

\* or has it and leaves as the active side.
LEMMA ActiveOrders ==
  ASSUME IInv, Orders, NEW e, NEW in, NEW q, NEW qs, NEW h, NEW xs, e \in Endpoints, UNCHANGED <<script, sent>>,
         Chain(Sent(FirstHand(e)), link[FirstHand(e)][3], buf[Peer(e)][FirstHand(e)].inner, q, h, in),
         Chain(Sent(SecondHand(e)), link[SecondHand(e)][3], xs, qs, Held(Peer(e)), link[SecondHand(e)][1]),
         q \in Seq(Unit), h \in Seq(Unit), xs \in Seq(Unit), in \in Seq(Unit), qs \in Seq(Unit),
         GoesActive(e, in, q, qs, link[SecondHand(e)][3], h, xs)
  PROVE  Orders'
<1> DEFINE f == FirstHand(e)
           s == SecondHand(e)
           W == Sent(f)
           V == Sent(s)
           o == link[f][3]
           b == buf[Peer(e)][f].inner
           out == link[s][3]
           hh == Held(Peer(e))
           ii == link[s][1]
<1>1. /\ o \in Seq(Unit) /\ b \in Seq(Unit) /\ out \in Seq(Unit) /\ hh \in Seq(Unit) /\ ii \in Seq(Unit)
  BY HasFacts, ChainsAre
<1>2. PICK nf, ns, y, z, j :
    /\ Lands(e, in, q, qs, out, "lite", "Active", nf, ns, y, z)
    /\ CommandAt(xs, j) /\ nf.inner = <<>> /\ ns.inner = <<>>
    /\ Prefix(y, h) /\ Prefix(z, Upto(xs, j))
  BY DEF GoesActive
<1>3. Chain(W, o, b, q, h, in) /\ Chain(V, out, xs, qs, hh, ii) /\ Rising(xs) /\ Rising(h) BY DEF Chain
<1> HIDE DEF f, s, W, V, o, b, out, hh, ii
<1>4. j \in 0..Len(xs)
  <2>1. Len(xs) \in Nat /\ j \in Nat /\ j + RecLen <= Len(xs) BY <1>2 DEF CommandAt
  <2> QED BY <2>1, LengthAssumption
<1>5. Parts(xs, z, ns.inner) BY <1>2, <1>3, <1>4, PartsOut
<1>6. Chain(V, Join(out, z), ns.inner, qs, hh, ii) BY <1>1, <1>3, <1>5, ChainMoves
<1>7. Parts(h, y, <<>>)
  <2>1. y \in Seq(Unit) /\ Rising(y) /\ Marks(y) \subseteq Marks(h) BY <1>2, <1>3, PrefixMarks
  <2> QED BY <2>1, NoMarks DEF Parts, Before
<1>8. Chain(W, o, b, Join(q, y), <<>>, in) BY <1>1, <1>3, <1>7, ChainMoves
<1>9. <<>> = IF "lite" \in Parsing THEN nf.inner ELSE <<>> BY DEF Parsing
<1> QED BY <1>2, <1>6, <1>8, <1>9, OrdersFinish DEF f, s, W, V, o, b, hh, ii

\* The first step of the active side.
LEMMA CommandsOrders ==
  ASSUME IInv, Orders, NEW e, NEW in, NEW qs, NEW xf, NEW xs, e \in Endpoints, pc[e] \in Parsing,
         UNCHANGED <<script, sent>>, From(e, in, qs, xf, xs),
         Commands(e, in, link[FirstHand(e)][2], qs, link[SecondHand(e)][3], xf, xs)
  PROVE  Orders'
<1> DEFINE f == FirstHand(e)
           s == SecondHand(e)
           W == Sent(f)
           V == Sent(s)
           o == link[f][3]
           b == buf[Peer(e)][f].inner
           qf == link[f][2]
           out == link[s][3]
           hh == Held(Peer(e))
           ii == link[s][1]
           x(m) == Join(Upto(xf, m), LEAVE_TLS_COMMAND)
           q(m) == Join(qf, Encrypted(x(m)))
<1>1. /\ Chain(W, o, b, qf, xf, in) /\ Chain(V, out, xs, qs, hh, ii)
      /\ xf \in Seq(Unit) /\ xs \in Seq(Unit) /\ in \in Seq(Unit) /\ qs \in Seq(Unit)
  BY FromChains
<1>2. o \in Seq(Unit) /\ b \in Seq(Unit) /\ qf \in Seq(Unit) BY HasFacts, ChainsAre
<1>3. PICK m : /\ m \in 0..Len(xf)
               /\ \/ Waits(e, in, q(m), qs, out, Rest(xf, m), xs)
                  \/ GoesActive(e, in, q(m), qs, out, Rest(xf, m), xs)
  BY DEF Commands
<1>4. Rising(xf) BY <1>1 DEF Chain
<1> HIDE DEF f, s, W, V, o, b, qf, out, hh, ii
<1> DEFINE u == Upto(xf, m)
           h == Rest(xf, m)
           c == x(m)
           y == Encrypted(c)
<1>5. m \in 0..m BY <1>3
<1>6. Parts(xf, u, h) BY <1>1, <1>3, <1>4, <1>5, PartsCut
<1>7. u \in Seq(Unit) /\ Rising(u) /\ h \in Seq(Unit) /\ Rising(h) BY <1>6 DEF Parts
<1>8. c \in Seq(Unit) /\ Marks(c) = Marks(u) /\ Rising(c)
  <2> HIDE DEF u
  <2>1. c \in Seq(Unit) BY <1>7, LeaveFacts, JoinParts DEF u
  <2>2. Marks(c) = Marks(u) \cup {} BY <1>7, NoMarks, MarksJoin DEF u
  <2>3. Before(Marks(u), Marks(LEAVE_TLS_COMMAND)) BY NoMarks DEF Before
  <2>4. Rising(Join(u, LEAVE_TLS_COMMAND)) BY <1>7, <2>3, NoMarks, RisingJoin
  <2> QED BY <2>1, <2>2, <2>4 DEF u
<1> HIDE DEF u, h, x
<1>9. y \in Seq(Unit) /\ Marks(y) \subseteq Marks(u) /\ Rising(y) BY <1>8, CryptMarks
<1>10. Parts(xf, y, h) BY <1>6, <1>7, <1>9, PartsLess
<1> HIDE DEF y
<1>11. Chain(W, o, b, Join(qf, y), h, in) BY <1>1, <1>2, <1>10, ChainMoves
<1>12. Join(qf, y) \in Seq(Unit) BY <1>2, <1>9, JoinParts
<1>13. q(m) = Join(qf, y) BY DEF y
<1> HIDE DEF q
<1>14. CASE Waits(e, in, q(m), qs, out, h, xs)
  <2>1. Waits(e, in, Join(qf, y), qs, out, h, xs) BY <1>13, <1>14
  <2> QED BY <1>1, <1>7, <1>11, <1>12, <2>1, WaitsOrders DEF f, s, W, V, o, b, out, hh, ii
<1>15. CASE GoesActive(e, in, q(m), qs, out, h, xs)
  <2>1. GoesActive(e, in, Join(qf, y), qs, out, h, xs) BY <1>13, <1>15
  <2> QED BY <1>1, <1>7, <1>11, <1>12, <2>1, ActiveOrders DEF f, s, W, V, o, b, out, hh, ii
<1> QED BY <1>3, <1>14, <1>15 DEF h, q

\* The passive side delivers what it has cached.
LEMMA DeliversOrders ==
  ASSUME IInv, Orders, NEW e, e \in Endpoints, UNCHANGED <<script, sent>>, Delivers(e)
  PROVE  Orders'
<1> DEFINE f == FirstHand(e)
           s == SecondHand(e)
           W == Sent(f)
           V == Sent(s)
           o == link[f][3]
           b == buf[Peer(e)][f].inner
           qf == link[f][2]
           in == link[f][1]
           q == link[s][2]
           bs == buf[e][s].inner
           out == link[s][3]
           hh == Held(Peer(e))
           ii == link[s][1]
<1>1. PICK n, m, ns, z :
        /\ pc[e] = "pending" /\ n \in 0..m /\ m \in 0..Len(q) /\ ns.inner = <<>>
        /\ Lands(e, in, qf, Rest(q, m), out, "lite", version[e], buf[e][f], ns, <<>>, z)
        /\ Prefix(z, Join(bs, AsCipher(Upto(q, n))))
  BY DEF Delivers
<1>2. Held(e) = <<>> BY <1>1 DEF Held, Parsing
<1>3. Chain(W, o, b, qf, <<>>, in) /\ Chain(V, out, bs, q, hh, ii) BY <1>2, ChainsAre
<1>4. /\ qf \in Seq(Unit) /\ q \in Seq(Unit) /\ bs \in Seq(Unit) /\ out \in Seq(Unit)
      /\ hh \in Seq(Unit) /\ ii \in Seq(Unit)
  BY HasFacts, ChainsAre
<1> HIDE DEF f, s, W, V, o, b, qf, in, q, bs, out, hh, ii
<1>5. Rising(q) BY <1>3 DEF Chain
<1> DEFINE u == Upto(q, n)
           t == AsCipher(u)
           r == Rest(q, m)
           x == Join(bs, t)
<1>6. Parts(q, u, r) BY <1>1, <1>4, <1>5, PartsCut
<1>7. u \in Seq(Unit) /\ r \in Seq(Unit) /\ Rising(u) /\ Rising(r) BY <1>6 DEF Parts
<1> HIDE DEF u, r
<1>8. t \in Seq(Unit) /\ Marks(t) \subseteq Marks(u) /\ Rising(t) BY <1>7, CryptMarks
<1> HIDE DEF t
<1>9. Parts(q, t, r) BY <1>6, <1>7, <1>8, PartsLess
<1>10. Chain(V, out, x, r, hh, ii) BY <1>3, <1>4, <1>9, ChainMoves
<1>11. x \in Seq(Unit) BY <1>4, <1>8, JoinParts
<1>12. Rising(x) BY <1>10 DEF Chain
<1>13. Prefix(z, x) BY <1>1 DEF t, u
<1> HIDE DEF x
<1>14. Parts(x, z, <<>>)
  <2>1. z \in Seq(Unit) /\ Rising(z) /\ Marks(z) \subseteq Marks(x) BY <1>11, <1>12, <1>13, PrefixMarks
  <2> QED BY <2>1, NoMarks DEF Parts, Before
<1>15. Chain(V, Join(out, z), <<>>, r, hh, ii) BY <1>4, <1>7, <1>10, <1>11, <1>14, ChainMoves
<1>16. Chain(V, Join(out, z), ns.inner, Rest(q, m), hh, ii) BY <1>1, <1>15 DEF r
<1>17. Chain(W, o, b, Join(qf, <<>>), <<>>, in)
  <2>1. Join(qf, <<>>) = qf BY <1>4, Whole DEF WholeFact
  <2> QED BY <1>3, <2>1
<1>18. <<>> = IF "lite" \in Parsing THEN buf[e][f].inner ELSE <<>> BY DEF Parsing
<1> QED BY <1>1, <1>16, <1>17, <1>18, OrdersFinish DEF f, s, W, V, o, b, hh, ii

\* A relay.
LEMMA RelaysOrders ==
  ASSUME IInv, Ways, Orders, NEW e, e \in Endpoints, UNCHANGED <<script, sent>>, Relays(e)
  PROVE  Orders'
<1> DEFINE f == FirstHand(e)
           s == SecondHand(e)
           W == Sent(f)
           V == Sent(s)
           o == link[f][3]
           b == buf[Peer(e)][f].inner
           qf == link[f][2]
           i == link[f][1]
           q == link[s][2]
           out == link[s][3]
           hh == Held(Peer(e))
           ii == link[s][1]
           bf == buf[e][f]
           bs == buf[e][s]
<1>1. pc[e] \in {"tcp", "lite"} BY DEF Relays
<1>2. Held(e) = <<>> BY <1>1 DEF Held, Parsing
<1>3. Chain(W, o, b, qf, <<>>, i) /\ Chain(V, out, bs.inner, q, hh, ii) BY <1>2, ChainsAre
<1>4. /\ o \in Seq(Unit) /\ b \in Seq(Unit) /\ qf \in Seq(Unit) /\ i \in Seq(Unit) /\ q \in Seq(Unit)
      /\ out \in Seq(Unit) /\ hh \in Seq(Unit) /\ ii \in Seq(Unit) /\ <<>> \in Seq(Unit)
  BY HasFacts, ChainsAre, EmptySeq
<1>5. bs.inner = <<>>
  <2>1. Own(e, pc[e], version[e], bs.inner) BY DEF Ways
  <2> QED BY <1>1, <2>1 DEF Own
<1>6. \/ \E n, y : /\ n \in 0..Len(i)
                   /\ y = IF pc[e] = "tcp" THEN Encrypted(AsCipher(Upto(i, n))) ELSE AsCipher(Upto(i, n))
                   /\ Lands(e, Rest(i, n), qf, q, out, pc[e], version[e], bf, bs, y, <<>>)
      \/ \E n, m, z : /\ n \in 0..m /\ m \in 0..Len(q)
                      /\ z = IF pc[e] = "tcp" THEN Decrypted(Upto(q, n)) ELSE AsCipher(Upto(q, n))
                      /\ Lands(e, i, qf, Rest(q, m), out, pc[e], version[e], bf, bs, <<>>, z)
  BY DEF Relays
<1>7. <<>> = IF pc[e] \in Parsing THEN bf.inner ELSE <<>> BY <1>1 DEF Parsing
<1> HIDE DEF f, s, W, V, o, b, qf, i, q, out, hh, ii, bf, bs
<1>8. Join(qf, <<>>) = qf /\ Join(out, <<>>) = out BY <1>4, Whole DEF WholeFact
<1>9. ASSUME NEW n, NEW y, n \in 0..Len(i),
             y = IF pc[e] = "tcp" THEN Encrypted(AsCipher(Upto(i, n))) ELSE AsCipher(Upto(i, n)),
             Lands(e, Rest(i, n), qf, q, out, pc[e], version[e], bf, bs, y, <<>>)
      PROVE  Orders'
  <2> DEFINE u == Upto(i, n)
             t == AsCipher(u)
             r == Rest(i, n)
  <2>1. Rising(i) /\ n \in 0..n BY <1>3, <1>9 DEF Chain
  <2>2. Parts(i, u, r) BY <1>4, <1>9, <2>1, PartsCut
  <2>3. u \in Seq(Unit) /\ r \in Seq(Unit) /\ Rising(u) /\ Rising(r) BY <2>2 DEF Parts
  <2> HIDE DEF u, r
  <2>4. t \in Seq(Unit) /\ Marks(t) \subseteq Marks(u) /\ Rising(t) BY <2>3, CryptMarks
  <2>5. y = IF pc[e] = "tcp" THEN Encrypted(t) ELSE t BY <1>9 DEF u
  <2> HIDE DEF t
  <2>6. y \in Seq(Unit) /\ Marks(y) \subseteq Marks(t) /\ Rising(y) BY <2>4, <2>5, CryptMarks
  <2>7. Parts(i, t, r) BY <2>2, <2>3, <2>4, PartsLess
  <2>8. Join(<<>>, t) = t BY <2>4, Whole DEF WholeFact
  <2>9. Chain(W, o, b, qf, t, r) BY <1>3, <1>4, <2>7, <2>8, ChainMoves
  <2>10. Parts(t, y, <<>>) BY <2>6, NoMarks DEF Parts, Before
  <2>11. Chain(W, o, b, Join(qf, y), <<>>, r) BY <1>4, <2>3, <2>4, <2>9, <2>10, ChainMoves
  <2>12. Chain(W, o, b, Join(qf, y), <<>>, Rest(i, n)) BY <2>11 DEF r
  <2>13. Chain(V, Join(out, <<>>), bs.inner, q, hh, ii) BY <1>3, <1>8
  <2> QED BY <1>7, <1>9, <2>12, <2>13, OrdersFinish DEF f, s, W, V, o, b, hh, ii
<1>10. ASSUME NEW n, NEW m, NEW z, n \in 0..m, m \in 0..Len(q),
              z = IF pc[e] = "tcp" THEN Decrypted(Upto(q, n)) ELSE AsCipher(Upto(q, n)),
              Lands(e, i, qf, Rest(q, m), out, pc[e], version[e], bf, bs, <<>>, z)
       PROVE  Orders'
  <2> DEFINE u == Upto(q, n)
             r == Rest(q, m)
  <2>1. Rising(q) BY <1>3 DEF Chain
  <2>2. Parts(q, u, r) BY <1>4, <1>10, <2>1, PartsCut
  <2>3. u \in Seq(Unit) /\ r \in Seq(Unit) /\ Rising(u) /\ Rising(r) BY <2>2 DEF Parts
  <2>4. z = IF pc[e] = "tcp" THEN Decrypted(u) ELSE AsCipher(u) BY <1>10
  <2> HIDE DEF u, r
  <2>5. z \in Seq(Unit) /\ Marks(z) \subseteq Marks(u) /\ Rising(z) BY <2>3, <2>4, CryptMarks
  <2>6. Parts(q, z, r) BY <2>2, <2>3, <2>5, PartsLess
  <2>7. Join(<<>>, z) = z BY <2>5, Whole DEF WholeFact
  <2>8. Chain(V, out, <<>>, q, hh, ii) BY <1>3, <1>5
  <2>9. Chain(V, out, z, r, hh, ii) BY <1>4, <2>6, <2>7, <2>8, ChainMoves
  <2>10. Parts(z, z, <<>>) BY <2>5, NoMarks DEF Parts, Before
  <2>11. Chain(V, Join(out, z), <<>>, r, hh, ii) BY <1>4, <2>3, <2>5, <2>9, <2>10, ChainMoves
  <2>12. Chain(V, Join(out, z), bs.inner, Rest(q, m), hh, ii) BY <1>5, <2>11 DEF r
  <2>13. Chain(W, o, b, Join(qf, <<>>), <<>>, i) BY <1>3, <1>8
  <2> QED BY <1>7, <1>10, <2>12, <2>13, OrdersFinish DEF f, s, W, V, o, b, hh, ii
<1> QED BY <1>6, <1>9, <1>10

\* One read.
LEMMA ReadOrders ==
  ASSUME IInv, Ways, Orders, NEW e, NEW d, e \in Endpoints, d \in Directions, Read(e, d)
  PROVE  Orders'
<1>1. UNCHANGED <<script, sent>>
  BY DEF Read, ClientHello, Handshake, RelayUntil0xff, FlushPending, Relay
<1>2. ASSUME NEW l, NEW in, NEW qs, NEW bf, NEW bs, pc[e] \in Parsing, From(e, in, qs, bf.inner, bs.inner),
             Handshakes(e, in, qs, bf.inner, bs.inner)
      PROVE  Orders'
  <2> DEFINE xf == bf.inner
             xs == bs.inner
             qf == link[FirstHand(e)][2]
             out == link[SecondHand(e)][3]
  <2>1. /\ From(e, in, qs, xf, xs)
        /\ \/ Passes(e, in, qf, qs, out, xf, xs)
           \/ GoesPassive(e, in, qf, qs, out, xf, xs)
           \/ Commands(e, in, qf, qs, out, xf, xs)
           \/ Waits(e, in, qf, qs, out, xf, xs)
           \/ GoesActive(e, in, qf, qs, out, xf, xs)
    BY <1>2 DEF Handshakes
  <2>2. /\ Chain(Sent(FirstHand(e)), link[FirstHand(e)][3], buf[Peer(e)][FirstHand(e)].inner, qf, xf, in)
        /\ Chain(Sent(SecondHand(e)), out, xs, qs, Held(Peer(e)), link[SecondHand(e)][1])
        /\ xf \in Seq(Unit) /\ xs \in Seq(Unit) /\ in \in Seq(Unit) /\ qs \in Seq(Unit)
    BY <1>2, <2>1, FromChains
  <2>3. qf \in Seq(Unit) BY HasFacts
  <2> HIDE DEF xf, xs
  <2>4. CASE Passes(e, in, qf, qs, out, xf, xs) BY <1>1, <1>2, <2>1, <2>4, PassesOrders
  <2>5. CASE GoesPassive(e, in, qf, qs, out, xf, xs) BY <1>1, <1>2, <2>1, <2>5, PassiveOrders
  <2>6. CASE Commands(e, in, qf, qs, out, xf, xs) BY <1>1, <1>2, <2>1, <2>6, CommandsOrders
  <2>7. CASE Waits(e, in, qf, qs, out, xf, xs) BY <1>1, <2>2, <2>3, <2>7, WaitsOrders
  <2>8. CASE GoesActive(e, in, qf, qs, out, xf, xs) BY <1>1, <2>2, <2>3, <2>8, ActiveOrders
  <2> QED BY <2>1, <2>4, <2>5, <2>6, <2>7, <2>8
<1> QED BY <1>1, <1>2, ReadShape, DeliversOrders, RelaysOrders

\* Fewer bytes held back.
LEMMA ChainDrops ==
  ASSUME NEW W, NEW o, NEW b, NEW q, NEW h, NEW in, Chain(W, o, b, q, h, in)
  PROVE  Chain(W, o, b, q, <<>>, in)
  BY NoMarks DEF Chain, Before

\* An endpoint that returns takes what it holds with it.
LEMMA DropOrders ==
  ASSUME IInv, Orders, NEW e \in Endpoints, Drop(e), UNCHANGED <<buf, link, script, sent>>
  PROVE  Orders'
<1>1. pc \in [Endpoints -> PCs] BY DEF IInv, TypeOK
<1>2. \A c \in Endpoints : pc'[c] = pc[c] \/ pc'[c] = "closed" BY <1>1 DEF Drop
<1>3. ASSUME NEW c \in Endpoints PROVE Chained(c)'
  <2> DEFINE f == FirstHand(c)
             b == buf[Peer(c)][f].inner
  <2>1. Chain(Sent(f), link[f][3], b, link[f][2], Held(c), link[f][1]) BY DEF Orders, Chained
  <2>2. Chain(Sent(f), link[f][3], b, link[f][2], <<>>, link[f][1]) BY <2>1, ChainDrops
  <2>3. Held(c)' = Held(c) \/ Held(c)' = <<>> BY <1>2 DEF Held, Parsing
  <2>4. Sent(f)' = Sent(f) BY DEF Sent, Mark
  <2>5. Chain(Sent(f)', link[f][3], b, link[f][2], Held(c)', link[f][1]) BY <2>1, <2>2, <2>3, <2>4
  <2>6. link' = link /\ buf' = buf OBVIOUS
  <2>7. Chain(Sent(f)', link'[f][3], buf'[Peer(c)][f].inner, link'[f][2], Held(c)', link'[f][1])
    BY <2>5, <2>6
  <2> QED BY <2>7 DEF Chained, Chain, Rising, Before, Marks
<1> QED BY <1>3 DEF Orders

\* Neither flags nor versions matter.
LEMMA SameOrders ==
  ASSUME Orders, UNCHANGED <<pc, buf, link, script, sent>>
  PROVE  Orders'
<1>1. ASSUME NEW c \in Endpoints PROVE Chained(c)'
  <2> DEFINE f == FirstHand(c)
             b == buf[Peer(c)][f].inner
  <2>1. Chain(Sent(f), link[f][3], b, link[f][2], Held(c), link[f][1]) BY DEF Orders, Chained
  <2>2. Held(c)' = Held(c) BY DEF Held
  <2>3. Sent(f)' = Sent(f) BY DEF Sent, Mark
  <2>4. link' = link /\ buf' = buf OBVIOUS
  <2>5. Chain(Sent(f)', link'[f][3], buf'[Peer(c)][f].inner, link'[f][2], Held(c)', link'[f][1])
    BY <2>1, <2>2, <2>3, <2>4
  <2> QED BY <2>5 DEF Chained, Chain, Rising, Before, Marks
<1> QED BY <1>1 DEF Orders

\* A mark that was sent is that of a byte of a record.
LEMMA SentFacts ==
  ASSUME NEW d, NEW a, a \in Sent(d)
  PROVE  \E k \in 1..sent[d], i \in 1..RecLen : a = Mark(d, k, i)
  BY DEF Sent

\* The marks sent so far end before the next record.
LEMMA SentBound ==
  ASSUME IInv, NEW d \in Directions, NEW a \in Sent(d)
  PROVE  a[1] \in Nat /\ a[1] <= sent[d] * RecLen
<1> USE LengthAssumption
<1>1. sent[d] \in Nat BY DEF IInv, TypeOK
<1>2. PICK k \in 1..sent[d], i \in 1..RecLen : a = Mark(d, k, i) BY SentFacts
<1>3. k \in Nat /\ i \in Nat /\ i <= RecLen BY <1>1
<1>4. a[1] = (k - 1) * RecLen + i BY <1>2 DEF Mark
<1>5. (k - 1) * RecLen \in Nat /\ k * RecLen = (k - 1) * RecLen + RecLen BY <1>1, <1>2
<1>6. k * RecLen <= sent[d] * RecLen BY <1>1, <1>2
<1> DEFINE x == (k - 1) * RecLen
           y == sent[d] * RecLen
<1>7. x \in Nat /\ y \in Nat /\ x + RecLen <= y BY <1>1, <1>5, <1>6
<1> HIDE DEF x, y
<1>8. x + i \in Nat /\ x + i <= y BY <1>3, <1>7
<1>9. a[1] = x + i BY <1>4 DEF x
<1> QED BY <1>8, <1>9 DEF y

\* The sender writes a record.
LEMMA SendOrders ==
  ASSUME IInv, Orders, NEW d \in Directions, Send(d)
  PROVE  Orders'
<1> USE LengthAssumption
<1> DEFINE k == sent[d] + 1
           R == Record(script[d][k], k)
<1>1. /\ sent[d] \in Nat /\ sent[d] < Len(script[d]) /\ script[d] \in Seq(Types) /\ k \in Nat /\ k >= 1
      /\ k \in 1..Len(script[d])
  BY DEF Send, IInv, TypeOK
<1>2. script[d][k] \in Types BY <1>1
<1>3. R \in Seq(Unit) /\ Len(R) = RecLen BY <1>1, <1>2, RecordFacts
<1>4. \A i \in 1..RecLen : R[i].idx = (k - 1) * RecLen + i /\ R[i].val = IF i = 1 THEN script[d][k] ELSE "data"
  BY DEF Record
<1>5. k - 1 = sent[d] /\ sent[d] * RecLen \in Nat BY <1>1
<1>6. \A i \in 1..RecLen : R[i].idx = sent[d] * RecLen + i BY <1>4, <1>5
<1>7. sent' = [sent EXCEPT ![d] = k] /\ UNCHANGED <<pc, buf, script>> /\ link' = Put(link, d, 1, R)
  BY DEF Send
<1>8. sent \in [Directions -> Nat] /\ link \in Links BY DEF IInv, TypeOK, Links
<1>9. sent'[d] = k /\ \A c \in Directions : c # d => sent'[c] = sent[c] BY <1>7, <1>8
<1>10. /\ link'[d][1] = Join(link[d][1], R)
       /\ \A c \in Directions, g \in Hops : c # d \/ g # 1 => link'[c][g] = link[c][g]
  <2>1. 1 \in Hops BY HopFacts
  <2> HIDE DEF R
  <2> DEFINE l == Put(link, d, 1, R)
  <2>2. R \in Seq(Unit) BY <1>3
  <2> HIDE DEF k
  <2>3. /\ l[d][1] = link[d][1] \o R
        /\ \A c \in Directions, g \in Hops : c # d \/ g # 1 => l[c][g] = link[c][g]
    <3>1. ASSUME NEW s, s \in Seq(Unit)
          PROVE  /\ Put(link, d, 1, s)[d][1] = link[d][1] \o s
                 /\ \A c \in Directions, g \in Hops : c # d \/ g # 1 => Put(link, d, 1, s)[c][g] = link[c][g]
      BY <1>8, <2>1, <3>1, PutFacts
    <3> QED BY <2>2, <3>1
  <2>4. link' = l BY <1>7
  <2> HIDE DEF l
  <2> QED BY <2>3, <2>4 DEF Join
<1> HIDE DEF R
<1>11. Rising(R)
  <2>1. ASSUME NEW i \in 1..Len(R), NEW j \in 1..Len(R), i < j PROVE R[i].idx < R[j].idx
    BY <1>3, <1>5, <1>6, <2>1
  <2> QED BY <2>1 DEF Rising
<1>12. Marks(R) \subseteq Sent(d)'
  <2>1. ASSUME NEW a \in Marks(R) PROVE a \in Sent(d)'
    <3>1. PICK i \in 1..Len(R) : a = <<R[i].idx, R[i].val>> BY <1>3, <2>1, MarkFacts
    <3>2. i \in 1..RecLen /\ R[i].idx = (k - 1) * RecLen + i
          /\ R[i].val = IF i = 1 THEN script[d][k] ELSE "data"
      BY <1>3, <1>4
    <3>3. a = <<(k - 1) * RecLen + i, IF i = 1 THEN script[d][k] ELSE "data">> BY <3>1, <3>2, Zenon
    <3>4. script' = script /\ k \in 1..sent'[d] BY <1>1, <1>7, <1>9
    <3>5. PICK c \in 1..sent'[d] : c = k BY <3>4
    <3>6. a = Mark(d, c, i)' BY <3>3, <3>4, <3>5, Zenon DEF Mark
    <3> QED BY <3>2, <3>6 DEF Sent
  <2> QED BY <2>1
<1>13. Sent(d) \subseteq Sent(d)'
  <2>1. ASSUME NEW a \in Sent(d) PROVE a \in Sent(d)'
    <3>1. PICK c \in 1..sent[d], i \in 1..RecLen : a = Mark(d, c, i) BY <2>1, SentFacts
    <3>2. c \in 1..sent'[d] /\ Mark(d, c, i)' = Mark(d, c, i) BY <1>1, <1>7, <1>9 DEF Mark
    <3> QED BY <3>1, <3>2 DEF Sent
  <2> QED BY <2>1
<1>14. Before(Sent(d), Marks(R))
  <2>1. ASSUME NEW a \in Sent(d), NEW c \in Marks(R) PROVE a[1] < c[1]
    <3>1. a[1] \in Nat /\ a[1] <= sent[d] * RecLen BY SentBound
    <3>2. PICK i \in 1..Len(R) : c = <<R[i].idx, R[i].val>> BY <1>3, <2>1, MarkFacts
    <3>3. i \in 1..RecLen /\ c[1] = sent[d] * RecLen + i BY <1>3, <1>6, <3>2
    <3> QED BY <1>5, <3>1, <3>3
  <2> QED BY <2>1 DEF Before
<1>15. ASSUME NEW c \in Endpoints PROVE Chained(c)'
  <2> DEFINE f == FirstHand(c)
             o == link[f][3]
             b == buf[Peer(c)][f].inner
             q == link[f][2]
             h == Held(c)
             i == link[f][1]
  <2>1. f \in Directions /\ 1 \in Hops /\ 2 \in Hops /\ 3 \in Hops BY PairFacts, HopFacts
  <2>2. Chain(Sent(f), o, b, q, h, i) BY DEF Orders, Chained
  <2>3. Held(c)' = h BY <1>7 DEF Held
  <2>4. link'[f][2] = q /\ link'[f][3] = o /\ buf'[Peer(c)][f].inner = b BY <1>7, <1>10, <2>1
  <2>5. Chain(Sent(f)', o, b, q, h, link'[f][1])
    <3>1. CASE f # d
      <4>1. link'[f][1] = i BY <1>10, <2>1, <3>1
      <4>2. Sent(f)' = Sent(f) BY <1>7, <1>9, <2>1, <3>1 DEF Sent, Mark
      <4> QED BY <2>2, <4>1, <4>2
    <3>2. CASE f = d
      <4>1. i \in Seq(Unit) BY HasFacts
      <4>2. link'[f][1] = Join(i, R) BY <1>10, <3>2
      <4>3. Marks(Join(i, R)) = Marks(i) \cup Marks(R) BY <1>3, <4>1, MarksJoin
      <4>4. Chain(Sent(d), o, b, q, h, i) BY <2>2, <3>2
      <4> HIDE DEF f, o, b, q, h, i
      <4>5. Marks(o) \cup Marks(b) \cup Marks(q) \cup Marks(h) \cup Marks(i) \subseteq Sent(d)
            /\ Rising(i)
        BY <4>4 DEF Chain
      <4>6. Before(Marks(i), Marks(R)) BY <1>14, <4>5 DEF Before
      <4>7. Rising(Join(i, R)) BY <1>3, <1>11, <4>1, <4>5, <4>6, RisingJoin
      <4>8. Before(Marks(o) \cup Marks(b) \cup Marks(q) \cup Marks(h), Marks(R)) BY <1>14, <4>5 DEF Before
      <4> DEFINE X == Sent(d)'
                 Y == Sent(d)
      <4>9. Marks(R) \subseteq X /\ Y \subseteq X BY <1>12, <1>13
      <4>10. Chain(Y, o, b, q, h, i) BY <4>4
      <4> HIDE DEF X, Y
      <4>11. Chain(X, o, b, q, h, Join(i, R)) BY <4>3, <4>7, <4>8, <4>9, <4>10 DEF Chain, Before
      <4>12. Sent(f)' = X BY <3>2 DEF X, Sent, Mark
      <4> QED BY <4>2, <4>11, <4>12
    <3> QED BY <3>1, <3>2
  <2>6. Chain(Sent(f)', link'[f][3], buf'[Peer(c)][f].inner, link'[f][2], Held(c)', link'[f][1])
    BY <2>3, <2>4, <2>5
  <2> QED BY <2>6 DEF Chained, Chain, Rising, Before, Marks
<1> QED BY <1>15 DEF Orders

LEMMA InitOrders == Init => Orders
<1> SUFFICES ASSUME Init, NEW c \in Endpoints PROVE Chained(c) BY DEF Orders
<1>1. FirstHand(c) \in Directions /\ Peer(c) \in Endpoints /\ 1 \in Hops /\ 2 \in Hops /\ 3 \in Hops
  BY PairFacts, HopFacts
<1> DEFINE f == FirstHand(c)
<1>2. /\ link[f][1] = <<>> /\ link[f][2] = <<>> /\ link[f][3] = <<>> /\ buf[Peer(c)][f].inner = <<>>
      /\ buf[c][f].inner = <<>>
  BY <1>1 DEF Init, EmptyBuffer
<1>3. Held(c) = <<>> BY <1>2 DEF Held
<1>4. Chain(Sent(f), <<>>, <<>>, <<>>, <<>>, <<>>) BY NoMarks DEF Chain, Before
<1> QED BY <1>2, <1>3, <1>4 DEF Chained

LEMMA NextOrders == IInv /\ Ways /\ Orders /\ [Next]_vars => Orders'
<1> SUFFICES ASSUME IInv, Ways, Orders, [Next]_vars PROVE Orders' OBVIOUS
<1>1. CASE UNCHANGED vars BY <1>1, SameOrders DEF vars
<1>2. ASSUME NEW d \in Directions, Send(d) PROVE Orders' BY <1>2, SendOrders
<1>3. ASSUME NEW d \in Directions, CloseSender(d) PROVE Orders' BY <1>3, SameOrders DEF CloseSender
<1>4. ASSUME NEW e \in Endpoints, NEW d \in Directions, Read(e, d) PROVE Orders' BY <1>4, ReadOrders
<1>5. ASSUME NEW e \in Endpoints, NEW d \in Directions, HandshakeEof(e, d) PROVE Orders'
  BY <1>5, DropOrders DEF HandshakeEof
<1>6. ASSUME NEW e \in Endpoints, NEW d \in Directions, RelayEof(e, d) PROVE Orders'
  BY <1>6, SameOrders DEF RelayEof
<1>7. ASSUME NEW e \in Endpoints, Abort(e) PROVE Orders' BY <1>7, DropOrders DEF Abort
<1>8. ASSUME NEW e \in Endpoints, TlsFailure(e) PROVE Orders' BY <1>8, DropOrders DEF TlsFailure
<1> QED BY <1>1, <1>2, <1>3, <1>4, <1>5, <1>6, <1>7, <1>8 DEF Next

\* What is delivered is, commands apart, in order, undoubled and unaltered, for every script
\* and record length, every cut of reads and writes, sessions that read ahead, and failures.
THEOREM InOrderHolds == Spec => []InOrder
<1>1. IInv /\ Ways /\ Orders /\ [Next]_vars => (IInv /\ Ways /\ Orders)'
  BY NextIInv, NextWays, NextOrders
<1>2. Init => IInv /\ Ways /\ Orders BY InitIInv, InitWays, InitOrders
<1>3. Orders => InOrder
  <2> SUFFICES ASSUME Orders, NEW d \in Directions
               PROVE  Rising(link[d][3]) /\ Marks(link[d][3]) \subseteq Sent(d)
    BY DEF InOrder
  <2>1. PICK e \in Endpoints : FirstHand(e) = d BY DEF Endpoints, Directions, FirstHand
  <2>2. Chained(e) BY DEF Orders
  <2> QED BY <2>1, <2>2 DEF Chained, Chain
<1> QED BY <1>1, <1>2, <1>3, PTL DEF Spec
=============================================================================

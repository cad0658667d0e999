-------------------------- MODULE RelayTaskProofs --------------------------
(***************************************************************************)
(* Theorems about RelayTask, for buffers, sessions and wires of any size,  *)
(* any number of bytes and both runtimes: the type invariant, that a       *)
(* parked relay has missed nothing, that a half-close overtakes no byte,   *)
(* and that the relay implements ProxyPipe.                                *)
(***************************************************************************)
EXTENDS RelayTask, Integers, TLAPS

\* s is what the sender wrote after its first k bytes.
Numbered(s, k) == \A i \in 1..Len(s) : s[i] = k + i

\* What a direction has behind it: in the hands of the receiver, on the wire and
\* in the session of the writer.
Passed(d) == Len(got[d]) + Len(wire[d]) + Len(held[d])

\* The bytes of a direction lie in order over the places they pass through, none
\* is missing and none is there twice.  The written part of a buffer is still in it.
StreamOk(d) ==
  /\ Numbered(got[d], 0)
  /\ Numbered(wire[d], Len(got[d]))
  /\ Numbered(held[d], Len(got[d]) + Len(wire[d]))
  /\ Numbered(copy[d].buf, Passed(d) - copy[d].pos)
  /\ Numbered(source[d], Passed(d) + copy[d].cap - copy[d].pos)
  /\ sent[d] = Passed(d) + copy[d].cap - copy[d].pos + Len(source[d])

\* The end of the stream comes after everything else, and only then is the
\* writer shut down, empty.  A session that holds something will be flushed.
EndOk(d) ==
  /\ copy[d].read_done => ended[d] /\ source[d] = <<>> /\ Empty(d)
  /\ copy[d].state # "Running" => copy[d].read_done /\ held[d] = <<>>
  /\ held[d] # <<>> => copy[d].need_flush

\* The two copies are polled inside the duplex branch of a relay that runs.
Control ==
  /\ at # "none" => "duplex" \in todo
  /\ reason # "none" => todo = {}
  /\ \A d \in Directions : closed[d] /\ reason = "none" => copy[d].state = "Done"

\* What direction d waits for when its copy is pending, with the waker it has left.
AwaitsFlush(d) == <<"write", d>> \in wakers /\ held[d] # <<>> /\ Room(d) = 0
AwaitsWrite(d) == <<"write", d>> \in wakers /\ ~Empty(d) /\ WriteRoom(d) = 0
AwaitsRead(d) ==
  /\ <<"read", d>> \in wakers
  /\ source[d] = <<>> /\ ~ended[d]
  /\ held[d] # <<>> => AwaitsFlush(d)
Waits(d) ==
  \/ copy[d].state = "Done"
  \/ copy[d].state = "Running" /\ ~Empty(d) /\ AwaitsWrite(d)
  \/ copy[d].state = "Running" /\ Empty(d) /\ ~copy[d].read_done /\ AwaitsRead(d)
  \/ copy[d].read_done /\ AwaitsFlush(d)

\* A direction that this poll of the task is done with, and that the next has not
\* come to yet, waits, or a next poll is due.
Settled(d) == "duplex" \notin todo \/ (at = "Download" /\ d = "Upload")
Awake(d) == reason = "none" /\ Settled(d) => woken \/ Waits(d)

IInv ==
  /\ TypeOK
  /\ \A d \in Directions : StreamOk(d) /\ EndOk(d) /\ Awake(d)
  /\ Control
-----------------------------------------------------------------------------
(***************************************************************************)
(* Pieces of a stream.                                                     *)
(***************************************************************************)

\* A byte sent, or received, extends what is numbered.
LEMMA NumberedAppend ==
  ASSUME NEW s \in Seq(Nat), NEW k \in Int, Numbered(s, k), NEW x \in Nat, x = k + Len(s) + 1
  PROVE  /\ Append(s, x) \in Seq(Nat) /\ Len(Append(s, x)) = Len(s) + 1
         /\ Numbered(Append(s, x), k)
  BY DEF Numbered

\* What is left when the first byte is taken.
LEMMA NumberedTail ==
  ASSUME NEW s \in Seq(Nat), NEW k \in Int, Numbered(s, k), s # <<>>
  PROVE  /\ Head(s) = k + 1 /\ Head(s) \in Nat /\ Len(s) \in Nat \ {0}
         /\ Tail(s) \in Seq(Nat) /\ Len(Tail(s)) = Len(s) - 1
         /\ Numbered(Tail(s), k + 1)
  BY DEF Numbered

\* A slice of what is numbered.
LEMMA NumberedSlice ==
  ASSUME NEW s \in Seq(Nat), NEW k \in Int, Numbered(s, k),
         NEW m \in Nat, NEW n \in Nat, m <= n, n <= Len(s)
  PROVE  /\ SubSeq(s, m + 1, n) \in Seq(Nat) /\ Len(SubSeq(s, m + 1, n)) = n - m
         /\ Numbered(SubSeq(s, m + 1, n), k + m)
  BY DEF Numbered

\* It is cut in two after n bytes.
LEMMA NumberedCut ==
  ASSUME NEW s \in Seq(Nat), NEW k \in Int, Numbered(s, k), NEW n \in Nat, n <= Len(s)
  PROVE  /\ SubSeq(s, 1, n) \in Seq(Nat) /\ Len(SubSeq(s, 1, n)) = n
         /\ Numbered(SubSeq(s, 1, n), k)
         /\ SubSeq(s, n + 1, Len(s)) \in Seq(Nat) /\ Len(SubSeq(s, n + 1, Len(s))) = Len(s) - n
         /\ Numbered(SubSeq(s, n + 1, Len(s)), k + n)
  BY DEF Numbered

\* Two pieces that follow each other.
LEMMA NumberedConcat ==
  ASSUME NEW s \in Seq(Nat), NEW t \in Seq(Nat), NEW k \in Int,
         Numbered(s, k), Numbered(t, k + Len(s))
  PROVE  /\ s \o t \in Seq(Nat) /\ Len(s \o t) = Len(s) + Len(t)
         /\ Numbered(s \o t, k)
  BY DEF Numbered

\* A piece of the second is moved to the end of the first.
LEMMA NumberedMove ==
  ASSUME NEW s \in Seq(Nat), NEW t \in Seq(Nat), NEW k \in Nat, NEW n \in Nat, n <= Len(t),
         Numbered(s, k), Numbered(t, k + Len(s))
  PROVE  /\ s \o SubSeq(t, 1, n) \in Seq(Nat) /\ SubSeq(t, n + 1, Len(t)) \in Seq(Nat)
         /\ Len(s \o SubSeq(t, 1, n)) = Len(s) + n
         /\ Len(SubSeq(t, n + 1, Len(t))) = Len(t) - n
         /\ Numbered(s \o SubSeq(t, 1, n), k)
         /\ Numbered(SubSeq(t, n + 1, Len(t)), k + Len(s \o SubSeq(t, 1, n)))
<1> DEFINE a == s \o SubSeq(t, 1, n)  b == SubSeq(t, n + 1, Len(t))
<1>1. /\ a \in Seq(Nat) /\ b \in Seq(Nat) /\ Len(s) \in Nat
      /\ Len(a) = Len(s) + n /\ Len(b) = Len(t) - n /\ Len(t) \in Nat
  <2> DEFINE c == SubSeq(t, 1, n)
  <2>1. c \in Seq(Nat) /\ Len(c) = n
    OBVIOUS
  <2>2. b \in Seq(Nat) /\ Len(b) = Len(t) - n /\ Len(t) \in Nat /\ Len(s) \in Nat
    OBVIOUS
  <2> HIDE DEF b, c
  <2>3. s \o c \in Seq(Nat) /\ Len(s \o c) = Len(s) + Len(c)
    BY <2>1
  <2> QED
    BY <2>1, <2>2, <2>3 DEF c
<1>2. Numbered(a, k)
  BY DEF Numbered
<1>3. \A i \in 1..Len(b) : b[i] = k + Len(s) + n + i
  BY DEF Numbered
<1> HIDE DEF a, b
<1>4. Numbered(b, k + Len(a))
  BY <1>1, <1>3 DEF Numbered
<1> QED
  BY <1>1, <1>2, <1>4 DEF a, b

\* A sequence is empty if its length is 0.
LEMMA EmptySeq ==
  ASSUME NEW s \in Seq(Nat)
  PROVE  Len(s) \in Nat /\ (s = <<>> <=> Len(s) = 0)
  OBVIOUS
-----------------------------------------------------------------------------
(***************************************************************************)
(* What the helpers of the actions do.                                     *)
(***************************************************************************)

\* The types of what belongs to one direction.
LEMMA DirTypes ==
  ASSUME TypeOK, NEW d \in Directions
  PROVE  /\ sent[d] \in Nat /\ source[d] \in Seq(Nat) /\ ended[d] \in BOOLEAN
         /\ held[d] \in Seq(Nat) /\ wire[d] \in Seq(Nat) /\ got[d] \in Seq(Nat)
         /\ copy[d].buf \in Seq(Nat) /\ copy[d].pos \in Nat /\ copy[d].cap \in Nat
         /\ copy[d].read_done \in BOOLEAN /\ copy[d].need_flush \in BOOLEAN
         /\ copy[d].state \in {"Running", "ShuttingDown", "Done"}
         /\ copy[d].pos <= copy[d].cap /\ copy[d].cap = Len(copy[d].buf) /\ copy[d].cap <= BufCap
         /\ Len(held[d]) <= Hold /\ Len(wire[d]) <= WireCap
         /\ Len(source[d]) \in Nat /\ Len(held[d]) \in Nat /\ Len(wire[d]) \in Nat
         /\ Len(got[d]) \in Nat /\ Passed(d) \in Nat
<1>1. copy[d] \in TransferStates
  BY DEF TypeOK
<1>2. held[d] \in Seq(Nat) /\ wire[d] \in Seq(Nat) /\ got[d] \in Seq(Nat) /\ source[d] \in Seq(Nat)
  BY DEF TypeOK
<1>3. Len(source[d]) \in Nat /\ Len(held[d]) \in Nat /\ Len(wire[d]) \in Nat /\ Len(got[d]) \in Nat
  BY <1>2
<1> QED
  BY <1>1, <1>2, <1>3 DEF TypeOK, TransferStates, Passed

\* The room of a writer, and what a flush takes out of it.
LEMMA WriterFacts ==
  ASSUME TypeOK, NEW d \in Directions
  PROVE  /\ Room(d) \in Nat /\ Room(d) = WireCap - Len(wire[d])
         /\ Hold \in Nat /\ WriteRoom(d) \in Nat
         /\ FlushNow(d) \in Nat /\ FlushNow(d) <= Len(held[d]) /\ FlushNow(d) <= Room(d)
         /\ FlushNow(d) = IF Flushes(d) THEN Len(held[d]) ELSE Room(d)
<1>1. /\ Len(held[d]) \in Nat /\ Len(wire[d]) \in Nat
      /\ Len(held[d]) <= Hold /\ Len(wire[d]) <= WireCap
  BY DirTypes
<1>2. Room(d) \in Nat /\ Hold \in Nat /\ Room(d) = WireCap - Len(wire[d])
  BY <1>1, CapAssumption DEF Room, Hold
<1> DEFINE n == IF Flushes(d) THEN Len(held[d]) ELSE Room(d)
<1>3. n \in Nat /\ Pushable(d) = 0..n
  BY <1>1, <1>2 DEF Pushable, Flushes
<1> HIDE DEF n
<1>4. n \in Pushable(d) /\ \A m \in Pushable(d) : m <= n
  BY <1>3
<1>5. FlushNow(d) \in Pushable(d) /\ \A m \in Pushable(d) : m <= FlushNow(d)
  BY <1>4 DEF FlushNow
<1>6. FlushNow(d) = n
  BY <1>3, <1>4, <1>5
<1> QED
  BY <1>1, <1>2, <1>6 DEF n, Flushes, WriteRoom

\* Push moves n bytes of the session to the wire and changes their order nowhere.
LEMMA PushFacts ==
  ASSUME TypeOK, NEW d \in Directions, NEW h \in Seq(Nat), NEW n \in Nat, n <= Len(h),
         Push(d, h, n), Numbered(wire[d], Len(got[d])), Numbered(h, Len(got[d]) + Len(wire[d]))
  PROVE  /\ wire' \in [Directions -> Seq(Nat)] /\ held' \in [Directions -> Seq(Nat)]
         /\ Len(wire'[d]) = Len(wire[d]) + n /\ Len(held'[d]) = Len(h) - n
         /\ Numbered(wire'[d], Len(got[d]))
         /\ Numbered(held'[d], Len(got[d]) + Len(wire'[d]))
         /\ \A e \in Directions \ {d} : wire'[e] = wire[e] /\ held'[e] = held[e]
<1> DEFINE g == Len(got[d])  w == wire[d]  a == w \o SubSeq(h, 1, n)  b == SubSeq(h, n + 1, Len(h))
<1>1. /\ g \in Nat /\ w \in Seq(Nat) /\ Len(w) \in Nat
      /\ wire \in [Directions -> Seq(Nat)] /\ held \in [Directions -> Seq(Nat)]
  BY DirTypes DEF TypeOK
<1>2. Numbered(w, g) /\ Numbered(h, g + Len(w))
  OBVIOUS
<1>3. wire' = [wire EXCEPT ![d] = a] /\ held' = [held EXCEPT ![d] = b]
  BY DEF Push
<1> HIDE DEF g, w
<1>4. /\ a \in Seq(Nat) /\ b \in Seq(Nat) /\ Len(a) = Len(w) + n /\ Len(b) = Len(h) - n
      /\ Numbered(a, g) /\ Numbered(b, g + Len(a))
  BY <1>1, <1>2, NumberedMove
<1> HIDE DEF a, b
<1>5. wire'[d] = a /\ held'[d] = b
  BY <1>1, <1>3
<1>6. /\ wire' \in [Directions -> Seq(Nat)] /\ held' \in [Directions -> Seq(Nat)]
      /\ \A e \in Directions \ {d} : wire'[e] = wire[e] /\ held'[e] = held[e]
  BY <1>1, <1>3, <1>4
<1> QED
  BY <1>4, <1>5, <1>6 DEF g, w

\* A copy that returns leaves the relay in the duplex branch, parked or ended, and
\* no other direction than its own is settled by it.
LEMMA ReturnFacts ==
  ASSUME TypeOK, Control, NEW d \in Directions, at = d, Return(d, Done)
  PROVE  /\ at' \in Directions \cup {"none"} /\ todo' \subseteq Branches
         /\ stop_reason' \in Directions /\ closed' \in [Directions -> BOOLEAN]
         /\ reason' \in Directions \cup {"none"}
         /\ at' # "none" => "duplex" \in todo'
         /\ reason' # "none" => todo' = {}
         /\ reason = "none" /\ (reason' = "none" => closed' = closed)
         /\ \A e \in Directions : reason' = "none" /\ Settled(e)' => e = d \/ Settled(e)
<1>1. "duplex" \in todo /\ reason = "none"
  BY DEF Control, Directions
<1>2. CASE d = "Upload"
  BY <1>1, <1>2 DEF Return, TypeOK, Settled, Directions
<1>3. CASE d # "Upload" /\ Done = Directions
  BY <1>1, <1>3 DEF Return, Finish, TypeOK, Settled, Directions
<1>4. CASE d # "Upload" /\ Done # Directions
  <2>1. Done \subseteq Directions
    BY DEF Done
  <2>2. (IF Done = {} THEN stop_reason ELSE CHOOSE c \in Done : TRUE) \in Directions
    BY <2>1 DEF TypeOK
  <2>3. /\ at' = "none" /\ todo' = todo \ {"duplex"} /\ stop_reason' \in Directions
        /\ reason' = reason /\ closed' = closed
    BY <1>4, <2>2 DEF Return
  <2>4. \A e \in Directions : e = d \/ Settled(e)
    BY <1>4 DEF Settled, Directions
  <2> QED
    BY <1>1, <2>3, <2>4 DEF TypeOK
<1> QED
  BY <1>2, <1>3, <1>4
-----------------------------------------------------------------------------
(***************************************************************************)
(* The steps.  A step of one direction leaves the other as it was.         *)
(***************************************************************************)
SameStream(e) ==
  /\ sent'[e] = sent[e] /\ source'[e] = source[e] /\ ended'[e] = ended[e]
  /\ copy'[e] = copy[e] /\ held'[e] = held[e] /\ wire'[e] = wire[e] /\ got'[e] = got[e]

Kept(e) == StreamOk(e)' /\ EndOk(e)' /\ Awake(e)'

LEMMA Frame ==
  ASSUME NEW e \in Directions, SameStream(e), engine' = engine, StreamOk(e), EndOk(e)
  PROVE  /\ StreamOk(e)' /\ EndOk(e)'
         /\ (\A k \in {"read", "write"} : <<k, e>> \in wakers => <<k, e>> \in wakers') /\ Waits(e)
              => Waits(e)'
<1>1. StreamOk(e)'
  BY DEF SameStream, StreamOk, Passed
<1>2. EndOk(e)'
  BY DEF SameStream, EndOk, Empty
<1>3. ASSUME \A k \in {"read", "write"} : <<k, e>> \in wakers => <<k, e>> \in wakers', Waits(e)
      PROVE  Waits(e)'
  <2>1. Room(e)' = Room(e) /\ WriteRoom(e)' = WriteRoom(e) /\ Empty(e)' = Empty(e)
    BY DEF SameStream, Room, WriteRoom, Hold, Empty
  <2>2. /\ AwaitsFlush(e) => AwaitsFlush(e)'
        /\ AwaitsWrite(e) => AwaitsWrite(e)'
    BY <1>3, <2>1 DEF SameStream, AwaitsFlush, AwaitsWrite
  <2>3. AwaitsRead(e) => AwaitsRead(e)'
    BY <1>3, <2>2 DEF SameStream, AwaitsRead
  <2> QED
    BY <1>3, <2>1, <2>2, <2>3 DEF SameStream, Waits
<1> QED
  BY <1>1, <1>2, <1>3

\* A step of the environment in direction d touches nothing the other waits for.
LEMMA FrameEnv ==
  ASSUME IInv, NEW d \in Directions, NEW e \in Directions \ {d}, NEW k \in {"read", "write"},
         SameStream(e), engine' = engine, Ready(<<k, d>>), UNCHANGED taskVars
  PROVE  Kept(e)
<1>1. StreamOk(e) /\ EndOk(e) /\ Awake(e)
  BY DEF IInv
<1>2. \A j \in {"read", "write"} : <<j, e>> \in wakers => <<j, e>> \in wakers'
  BY DEF Ready
<1>3. woken => woken'
  BY DEF Ready
<1>4. reason' = reason /\ Settled(e)' = Settled(e)
  BY DEF taskVars, Settled
<1> QED
  BY <1>1, <1>2, <1>3, <1>4, Frame DEF Kept, Awake

LEMMA SendInv ==
  ASSUME IInv, NEW d \in Directions, Send(d)
  PROVE  IInv'
<1> DEFINE k == Passed(d) + copy[d].cap - copy[d].pos
<1>t. TypeOK /\ StreamOk(d) /\ EndOk(d) /\ Awake(d) /\ Control
  BY DEF IInv
<1>0. /\ sent[d] \in Nat /\ source[d] \in Seq(Nat) /\ Passed(d) \in Nat
      /\ copy[d].cap \in Nat /\ copy[d].pos \in Nat /\ Len(source[d]) \in Nat
      /\ copy[d].read_done \in BOOLEAN /\ copy[d].state \in {"Running", "ShuttingDown", "Done"}
  BY <1>t, DirTypes
<1>1. k \in Int /\ Numbered(source[d], k) /\ sent[d] = k + Len(source[d])
  BY <1>t, <1>0 DEF StreamOk
<1> HIDE DEF k
<1> DEFINE x == sent[d] + 1  s == Append(source[d], x)
<1>2. s \in Seq(Nat) /\ Len(s) = Len(source[d]) + 1 /\ Numbered(s, k)
  <2>1. x \in Nat /\ x = k + Len(source[d]) + 1
    BY <1>0, <1>1
  <2> HIDE DEF x
  <2> QED
    BY <1>0, <1>1, <2>1, NumberedAppend
<1> HIDE DEF s
<1>3. /\ sent' = [sent EXCEPT ![d] = @ + 1] /\ source' = [source EXCEPT ![d] = s]
      /\ UNCHANGED <<engine, ended, stalled, got, copy, held, wire, closed, taskVars>>
      /\ Ready(<<"read", d>>) /\ ~ended[d]
  BY DEF Send, s
<1>4. /\ sent' \in [Directions -> Nat] /\ source' \in [Directions -> Seq(Nat)]
      /\ sent'[d] = sent[d] + 1 /\ source'[d] = s
      /\ \A e \in Directions \ {d} : SameStream(e)
  <2>1. sent \in [Directions -> Nat] /\ source \in [Directions -> Seq(Nat)]
    BY <1>t DEF TypeOK
  <2> QED
    BY <1>0, <1>2, <1>3, <2>1 DEF SameStream
<1>5. TypeOK'
  BY <1>t, <1>3, <1>4 DEF TypeOK, Hold, Ready, taskVars
<1>6. StreamOk(d)'
  <2>1. Passed(d)' = Passed(d) /\ (Passed(d)' + copy'[d].cap - copy'[d].pos) = k
    BY <1>3 DEF Passed, k
  <2>2. sent'[d] = k + Len(s)
    BY <1>0, <1>1, <1>2, <1>4
  <2> QED
    BY <1>t, <1>2, <1>3, <1>4, <2>1, <2>2 DEF StreamOk, k
<1>7. EndOk(d)'
  BY <1>t, <1>3 DEF EndOk, Empty
<1>8. Awake(d)'
  BY <1>t, <1>3 DEF Awake, Waits, AwaitsRead, AwaitsWrite, AwaitsFlush, Room, WriteRoom, Hold,
       Empty, Settled, Ready, taskVars
<1>9. \A e \in Directions \ {d} : Kept(e)
  BY <1>3, <1>4, FrameEnv
<1>10. Control'
  BY <1>t, <1>3 DEF Control, taskVars
<1> QED
  BY <1>5, <1>6, <1>7, <1>8, <1>9, <1>10 DEF IInv, Kept

\* The sender has closed its side.
LEMMA EndInv ==
  ASSUME IInv, NEW d \in Directions, End(d)
  PROVE  IInv'
<1>t. TypeOK /\ StreamOk(d) /\ EndOk(d) /\ Awake(d) /\ Control
  BY DEF IInv
<1>1. /\ ended' = [ended EXCEPT ![d] = TRUE]
      /\ UNCHANGED <<engine, sent, stalled, got, source, copy, held, wire, closed, taskVars>>
      /\ Ready(<<"read", d>>) /\ ~ended[d]
  BY DEF End
<1>2. /\ ended' \in [Directions -> BOOLEAN] /\ ended'[d]
      /\ \A e \in Directions \ {d} : SameStream(e)
  <2>1. ended \in [Directions -> BOOLEAN]
    BY <1>t DEF TypeOK
  <2> QED
    BY <1>1, <2>1 DEF SameStream
<1>3. TypeOK'
  BY <1>t, <1>1, <1>2 DEF TypeOK, Hold, Ready, taskVars
<1>4. StreamOk(d)'
  BY <1>t, <1>1 DEF StreamOk, Passed
<1>5. EndOk(d)'
  BY <1>t, <1>1, <1>2 DEF EndOk, Empty
<1>6. Awake(d)'
  BY <1>t, <1>1 DEF Awake, Waits, AwaitsRead, AwaitsWrite, AwaitsFlush, Room, WriteRoom, Hold,
       Empty, Settled, Ready, taskVars
<1>7. \A e \in Directions \ {d} : Kept(e)
  BY <1>1, <1>2, FrameEnv
<1>8. Control'
  BY <1>t, <1>1 DEF Control, taskVars
<1> QED
  BY <1>3, <1>4, <1>5, <1>6, <1>7, <1>8 DEF IInv, Kept

\* The receiver takes the next byte from the wire.
LEMMA ReceiveInv ==
  ASSUME IInv, NEW d \in Directions, Receive(d)
  PROVE  IInv'
<1> DEFINE g == Append(got[d], Head(wire[d]))  w == Tail(wire[d])  n == Len(got[d])
<1>t. TypeOK /\ StreamOk(d) /\ EndOk(d) /\ Awake(d) /\ Control
  BY DEF IInv
<1>0. /\ wire[d] \in Seq(Nat) /\ got[d] \in Seq(Nat) /\ n \in Nat
      /\ Len(wire[d]) \in Nat /\ Len(held[d]) \in Nat /\ Len(wire[d]) <= WireCap
  BY <1>t, DirTypes
<1>1. wire[d] # <<>> /\ Numbered(got[d], 0) /\ Numbered(wire[d], n)
  BY <1>t DEF Receive, StreamOk
<1>2. /\ got' = [got EXCEPT ![d] = g] /\ wire' = [wire EXCEPT ![d] = w]
      /\ UNCHANGED <<engine, sent, ended, stalled, source, copy, held, closed, taskVars>>
      /\ Ready(<<"write", d>>)
  BY DEF Receive
<1> HIDE DEF n
<1>3. /\ w \in Seq(Nat) /\ Len(w) = Len(wire[d]) - 1 /\ Numbered(w, n + 1)
      /\ Head(wire[d]) \in Nat /\ Head(wire[d]) = n + 1
  BY <1>0, <1>1, NumberedTail
<1>4. g \in Seq(Nat) /\ Len(g) = n + 1 /\ Numbered(g, 0)
  <2> DEFINE x == Head(wire[d])
  <2>1. x \in Nat /\ x = 0 + Len(got[d]) + 1
    BY <1>0, <1>3 DEF n
  <2> HIDE DEF x
  <2>2. /\ Append(got[d], x) \in Seq(Nat) /\ Len(Append(got[d], x)) = Len(got[d]) + 1
        /\ Numbered(Append(got[d], x), 0)
    BY <1>0, <1>1, <2>1, NumberedAppend
  <2> QED
    BY <2>2 DEF x, n
<1> HIDE DEF g, w
<1>5. /\ got' \in [Directions -> Seq(Nat)] /\ wire' \in [Directions -> Seq(Nat)]
      /\ got'[d] = g /\ wire'[d] = w
      /\ \A e \in Directions \ {d} : SameStream(e)
  <2>1. got \in [Directions -> Seq(Nat)] /\ wire \in [Directions -> Seq(Nat)]
    BY <1>t DEF TypeOK
  <2> QED
    BY <1>2, <1>3, <1>4, <2>1 DEF SameStream
<1>6. TypeOK'
  <2>1. \A e \in Directions : Len(wire'[e]) <= WireCap
    <3>1. Len(w) <= WireCap
      BY <1>0, <1>3, CapAssumption
    <3>2. \A e \in Directions \ {d} : Len(wire'[e]) <= WireCap
      BY <1>t, <1>5 DEF TypeOK, SameStream
    <3> QED
      BY <1>5, <3>1, <3>2
  <2> QED
    BY <1>t, <1>2, <1>5, <2>1 DEF TypeOK, Hold, Ready, taskVars
<1>7. StreamOk(d)'
  <2>1. Len(g) + Len(w) = n + Len(wire[d])
    <3> DEFINE a == Len(g)  b == Len(w)  c == Len(wire[d])
    <3>1. n \in Nat /\ c \in Nat /\ b = c - 1 /\ a = n + 1
      BY <1>0, <1>3, <1>4
    <3> HIDE DEF a, b, c
    <3>2. a + b = n + c
      BY <3>1
    <3> QED
      BY <3>2 DEF a, b, c
  <2>2. Len(got'[d]) + Len(wire'[d]) = Len(got[d]) + Len(wire[d]) /\ Passed(d)' = Passed(d)
    BY <1>2, <1>5, <2>1 DEF Passed, n
  <2>3. Numbered(g, 0) /\ Numbered(w, Len(g))
    BY <1>0, <1>3, <1>4 DEF Numbered
  <2>4. Numbered(held[d], Len(g) + Len(w))
    BY <1>t, <1>5, <2>2 DEF StreamOk
  <2> QED
    BY <1>t, <1>2, <1>5, <2>2, <2>3, <2>4 DEF StreamOk
<1>8. EndOk(d)'
  BY <1>t, <1>2 DEF EndOk, Empty
<1>9. Awake(d)'
  BY <1>t, <1>2 DEF Awake, Waits, AwaitsRead, AwaitsWrite, AwaitsFlush, Empty, Settled, Ready, taskVars
<1>10. \A e \in Directions \ {d} : Kept(e)
  BY <1>2, <1>5, FrameEnv
<1>11. Control'
  BY <1>t, <1>2 DEF Control, taskVars
<1> QED
  BY <1>6, <1>7, <1>8, <1>9, <1>10, <1>11 DEF IInv, Kept
-----------------------------------------------------------------------------
\* Where a poll begins no direction is settled, and a relay that has ended waits
\* for nothing; the streams are untouched.
LEMMA TaskInv ==
  ASSUME IInv,
         Poll \/ PollTimeout \/ PollShutdown \/ PollDuplex \/ Alarm \/ UNCHANGED vars
  PROVE  IInv'
<1>t. TypeOK /\ Control
  BY DEF IInv
<1>1. /\ UNCHANGED <<envVars, source, copy, held, wire, stop_reason, wakers>>
      /\ engine' = engine /\ \A e \in Directions : SameStream(e)
  BY DEF Poll, PollTimeout, PollShutdown, PollDuplex, Alarm, vars, envVars, taskVars, SameStream
<1>2. TypeOK' /\ Control' /\ \A e \in Directions : Awake(e) => Awake(e)'
  <2>1. /\ \A e \in Directions : Waits(e) => Waits(e)'
    BY <1>1, Frame DEF IInv
  <2>2. ASSUME UNCHANGED <<closed, todo, at, reason>>, woken' \in BOOLEAN, woken => woken'
        PROVE  TypeOK' /\ Control' /\ \A e \in Directions : Awake(e) => Awake(e)'
    BY <1>t, <1>1, <2>1, <2>2 DEF TypeOK, Hold, envVars, Control, Awake, Settled
  <2>3. ASSUME NEW why \in {"Timeout", "Shutdown"}, Finish(why), woken' = woken
        PROVE  TypeOK' /\ Control' /\ \A e \in Directions : Awake(e) => Awake(e)'
    BY <1>t, <1>1, <2>3 DEF TypeOK, Hold, envVars, Control, Awake, Finish
  <2>4. ASSUME NEW b \in {"timeout", "shutdown"}, todo' = todo \ {b}, at = "none",
               UNCHANGED <<at, reason, closed, woken>>
        PROVE  TypeOK' /\ Control' /\ \A e \in Directions : Awake(e) => Awake(e)'
    BY <1>t, <1>1, <2>1, <2>4 DEF TypeOK, Hold, envVars, Control, Awake, Settled
  <2>5. CASE Poll
    <3>1. at = "none" /\ "duplex" \in todo' /\ todo' \subseteq Branches
      BY <1>t, <2>5 DEF Poll, Control, Branches
    <3>2. \A e \in Directions : ~Settled(e)'
      BY <2>5, <3>1 DEF Poll, Settled
    <3> QED
      BY <1>t, <1>1, <2>5, <3>1, <3>2 DEF Poll, TypeOK, Hold, envVars, Control, Awake
  <2>6. CASE PollTimeout
    BY <2>3, <2>4, <2>6 DEF PollTimeout
  <2>7. CASE PollShutdown
    BY <2>3, <2>4, <2>7 DEF PollShutdown
  <2>8. CASE PollDuplex
    <3>1. \A e \in Directions : ~Settled(e)'
      BY <2>8 DEF PollDuplex, Settled
    <3> QED
      BY <1>t, <1>1, <2>8, <3>1 DEF PollDuplex, TypeOK, Hold, envVars, Control, Awake, Directions
  <2>9. CASE Alarm
    BY <2>2, <2>9 DEF Alarm, taskVars
  <2>10. CASE UNCHANGED vars
    <3>1. woken \in BOOLEAN
      BY <1>t DEF TypeOK
    <3> QED
      BY <2>2, <2>10, <3>1 DEF vars, taskVars
  <2> QED
    BY <2>5, <2>6, <2>7, <2>8, <2>9, <2>10
<1>3. \A e \in Directions : StreamOk(e)' /\ EndOk(e)'
  BY <1>1, Frame DEF IInv
<1> QED
  BY <1>2, <1>3 DEF IInv
-----------------------------------------------------------------------------
(***************************************************************************)
(* The steps of a copy.  They change the data of one direction; each stays *)
(* in the copy or returns from it, with a waker left behind.               *)
(***************************************************************************)
DataTypes ==
  /\ source \in [Directions -> Seq(Nat)]
  /\ copy \in [Directions -> TransferStates]
  /\ held \in [Directions -> Seq(Nat)]
  /\ wire \in [Directions -> Seq(Nat)]

Bounds(d) ==
  /\ copy[d].pos <= copy[d].cap
  /\ copy[d].cap = Len(copy[d].buf) /\ copy[d].cap <= BufCap
  /\ Len(held[d]) <= Hold /\ Len(wire[d]) <= WireCap

LEMMA CopyTypeOK ==
  ASSUME TypeOK, NEW d \in Directions, UNCHANGED envVars, DataTypes', Bounds(d)',
         \A e \in Directions \ {d} : SameStream(e),
         closed' \in [Directions -> BOOLEAN], todo' \subseteq Branches,
         at' \in Directions \cup {"none"}, wakers' \subseteq Sockets, woken' = woken,
         stop_reason' \in Directions,
         reason' \in Directions \cup {"none", "Timeout", "Shutdown", "Error"}
  PROVE  TypeOK'
<1>1. engine' = engine /\ Hold' = Hold
  BY DEF envVars, Hold
<1>2. \A e \in Directions \ {d} : Bounds(e)'
  <2> TAKE e \in Directions \ {d}
  <2>1. Bounds(e) /\ SameStream(e)
    BY DEF TypeOK, Bounds
  <2> QED
    BY <1>1, <2>1 DEF Bounds, SameStream
<1>3. \A e \in Directions : Bounds(e)'
  BY <1>2
<1> QED
  BY <1>3 DEF TypeOK, DataTypes, Bounds, envVars

\* A step of the copy of d keeps what is known of the other direction.
LEMMA FrameCopy ==
  ASSUME IInv, NEW d \in Directions, NEW e \in Directions \ {d},
         SameStream(e), UNCHANGED envVars, wakers \subseteq wakers', woken' = woken,
         reason' = "none" /\ Settled(e)' => reason = "none" /\ Settled(e)
  PROVE  Kept(e)
<1>1. StreamOk(e) /\ EndOk(e) /\ Awake(e) /\ engine' = engine
  BY DEF IInv, envVars
<1> QED
  BY <1>1, Frame DEF Kept, Awake

\* The copy of d goes on: d is not settled yet.
LEMMA InnerStep ==
  ASSUME IInv, NEW d \in Directions, at = d, UNCHANGED <<envVars, taskVars, wakers, woken>>,
         DataTypes', Bounds(d)', StreamOk(d)', EndOk(d)',
         \A e \in Directions \ {d} : SameStream(e) /\ closed'[e] = closed[e],
         closed' \in [Directions -> BOOLEAN], closed'[d] => copy'[d].state = "Done"
  PROVE  IInv'
<1>t. TypeOK /\ Control
  BY DEF IInv
<1>1. TypeOK'
  <2>1. /\ todo' \subseteq Branches /\ at' \in Directions \cup {"none"} /\ wakers' \subseteq Sockets
        /\ stop_reason' \in Directions
        /\ reason' \in Directions \cup {"none", "Timeout", "Shutdown", "Error"}
    BY <1>t DEF TypeOK, taskVars
  <2> QED
    BY <1>t, <2>1, CopyTypeOK
<1>2. "duplex" \in todo /\ reason = "none"
  BY <1>t DEF Control, Directions
<1>3. Awake(d)'
  BY <1>2 DEF Awake, Settled, Directions, taskVars
<1>4. \A e \in Directions \ {d} : Kept(e)
  <2> TAKE e \in Directions \ {d}
  <2>1. reason' = reason /\ Settled(e)' = Settled(e)
    BY DEF taskVars, Settled
  <2> QED
    BY <2>1, FrameCopy
<1>5. Control'
  <2>1. \A e \in Directions : closed'[e] => copy'[e].state = "Done"
    BY <1>t, <1>2 DEF Control, SameStream
  <2> QED
    BY <1>t, <2>1 DEF Control, taskVars
<1> QED
  BY <1>1, <1>3, <1>4, <1>5 DEF IInv, Kept

\* The copy of d returns, pending with a waker or done.
LEMMA ReturnStep ==
  ASSUME IInv, NEW d \in Directions, at = d, Return(d, Done), UNCHANGED <<envVars, woken>>,
         DataTypes', Bounds(d)', StreamOk(d)', EndOk(d)', Waits(d)',
         copy'[d].state = copy[d].state,
         \A e \in Directions \ {d} : SameStream(e),
         wakers \subseteq wakers', wakers' \subseteq Sockets
  PROVE  IInv'
<1>t. TypeOK /\ Control
  BY DEF IInv
<1>1. /\ at' \in Directions \cup {"none"} /\ todo' \subseteq Branches
      /\ stop_reason' \in Directions /\ closed' \in [Directions -> BOOLEAN]
      /\ reason' \in Directions \cup {"none"}
      /\ at' # "none" => "duplex" \in todo'
      /\ reason' # "none" => todo' = {}
      /\ reason = "none" /\ (reason' = "none" => closed' = closed)
      /\ \A e \in Directions : reason' = "none" /\ Settled(e)' => e = d \/ Settled(e)
  BY <1>t, ReturnFacts
<1>2. TypeOK'
  <2>1. reason' \in Directions \cup {"none", "Timeout", "Shutdown", "Error"}
    BY <1>1
  <2> QED
    BY <1>t, <1>1, <2>1, CopyTypeOK
<1>3. Awake(d)'
  BY DEF Awake
<1>4. \A e \in Directions \ {d} : Kept(e)
  <2> TAKE e \in Directions \ {d}
  <2>1. reason' = "none" /\ Settled(e)' => reason = "none" /\ Settled(e)
    BY <1>1
  <2> QED
    BY <2>1, FrameCopy
<1>5. Control'
  <2>1. \A e \in Directions : copy'[e].state = copy[e].state
    BY DEF SameStream
  <2> QED
    BY <1>t, <1>1, <2>1 DEF Control
<1> QED
  BY <1>2, <1>3, <1>4, <1>5 DEF IInv, Kept

\* The buffer takes n bytes that could be read.
LEMMA ReadDataInv ==
  ASSUME IInv, NEW d \in Directions, ReadData(d)
  PROVE  IInv'
<1>t. TypeOK /\ StreamOk(d) /\ EndOk(d) /\ Control
  BY DEF IInv
<1>0. /\ source[d] \in Seq(Nat) /\ Len(source[d]) \in Nat /\ Passed(d) \in Nat
      /\ copy[d].cap \in Nat /\ copy[d].pos \in Nat /\ sent[d] \in Nat
  BY <1>t, DirTypes
<1>1. PICK n \in 1..BufCap :
        /\ n <= Len(source[d])
        /\ copy' = [copy EXCEPT ![d] = [@ EXCEPT !.buf = SubSeq(source[d], 1, n), !.pos = 0, !.cap = n]]
        /\ source' = [source EXCEPT ![d] = SubSeq(@, n + 1, Len(@))]
  BY DEF ReadData
<1>2. /\ at = d /\ copy[d].state = "Running" /\ copy[d].pos = copy[d].cap /\ ~copy[d].read_done
      /\ UNCHANGED <<envVars, held, wire, closed, taskVars, wakers, woken>>
  BY DEF ReadData, Empty
<1>3. n \in Nat /\ n <= BufCap
  BY CapAssumption
<1> DEFINE k == Passed(d)
           b == SubSeq(source[d], 1, n)
           s == SubSeq(source[d], n + 1, Len(source[d]))
<1>4. Numbered(source[d], k) /\ sent[d] = k + Len(source[d])
  <2>1. Passed(d) + copy[d].cap - copy[d].pos = k
    BY <1>0, <1>2
  <2> QED
    BY <1>t, <2>1 DEF StreamOk
<1>5. k \in Int
  BY <1>0
<1> HIDE DEF k
<1>6. /\ b \in Seq(Nat) /\ Len(b) = n /\ Numbered(b, k)
      /\ s \in Seq(Nat) /\ Len(s) = Len(source[d]) - n /\ Numbered(s, k + n)
  BY <1>0, <1>1, <1>3, <1>4, <1>5, NumberedCut
<1>7. source' = [source EXCEPT ![d] = s]
  BY <1>1
<1> DEFINE r == [copy[d] EXCEPT !.buf = b, !.pos = 0, !.cap = n]
<1>8. copy' = [copy EXCEPT ![d] = r]
  BY <1>1
<1> HIDE DEF b, s
<1>9. copy \in [Directions -> TransferStates] /\ source \in [Directions -> Seq(Nat)]
  BY <1>t DEF TypeOK
<1>10. /\ r \in TransferStates /\ r.buf = b /\ r.pos = 0 /\ r.cap = n
       /\ r.state = copy[d].state /\ r.read_done = copy[d].read_done
       /\ r.need_flush = copy[d].need_flush
  <2>1. copy[d] \in TransferStates
    BY <1>9
  <2> QED
    BY <1>3, <1>6, <2>1 DEF TransferStates
<1> HIDE DEF r
<1>11. /\ copy'[d] = r /\ source'[d] = s
       /\ copy' \in [Directions -> TransferStates] /\ source' \in [Directions -> Seq(Nat)]
       /\ \A e \in Directions \ {d} : SameStream(e)
  BY <1>2, <1>6, <1>7, <1>8, <1>9, <1>10 DEF SameStream, envVars
<1>12. DataTypes'
  BY <1>t, <1>2, <1>11 DEF DataTypes, TypeOK
<1>13. Bounds(d)'
  <2>1. Bounds(d) /\ Hold' = Hold
    BY <1>t, <1>2 DEF TypeOK, Bounds, Hold, envVars
  <2> QED
    BY <1>2, <1>3, <1>6, <1>10, <1>11, <2>1 DEF Bounds
<1>14. StreamOk(d)'
  <2>1. Passed(d)' = k
    BY <1>2 DEF Passed, envVars, k
  <2>2. Numbered(b, k - 0) /\ Numbered(s, k + n - 0)
    BY <1>3, <1>5, <1>6
  <2>3. sent[d] = k + n - 0 + Len(s)
    <3> DEFINE a == Len(s)  c == Len(source[d])
    <3>1. c \in Nat /\ a = c - n /\ sent[d] = k + c
      BY <1>0, <1>4, <1>6
    <3> HIDE DEF a, c
    <3>2. sent[d] = k + n - 0 + a
      BY <1>3, <1>5, <3>1
    <3> QED
      BY <3>2 DEF a
  <2> QED
    BY <1>t, <1>2, <1>10, <1>11, <2>1, <2>2, <2>3 DEF StreamOk, envVars
<1>15. EndOk(d)'
  BY <1>t, <1>2, <1>10, <1>11 DEF EndOk
<1>16. reason = "none"
  BY <1>t, <1>2 DEF Control, Directions
<1> QED
  BY <1>t, <1>2, <1>11, <1>12, <1>13, <1>14, <1>15, <1>16, InnerStep DEF Control, TypeOK

\* The end of the stream has been read.
LEMMA ReadEofInv ==
  ASSUME IInv, NEW d \in Directions, ReadEof(d)
  PROVE  IInv'
<1>t. TypeOK /\ StreamOk(d) /\ EndOk(d) /\ Control
  BY DEF IInv
<1>1. /\ at = d /\ copy[d].state = "Running" /\ Empty(d) /\ source[d] = <<>> /\ ended[d]
      /\ UNCHANGED <<envVars, source, held, wire, closed, taskVars, wakers, woken>>
  BY DEF ReadEof
<1> DEFINE r == [copy[d] EXCEPT !.read_done = TRUE]
<1>2. copy' = [copy EXCEPT ![d] = r]
  BY DEF ReadEof
<1>3. copy \in [Directions -> TransferStates]
  BY <1>t DEF TypeOK
<1>4. /\ r \in TransferStates /\ r.buf = copy[d].buf /\ r.pos = copy[d].pos /\ r.cap = copy[d].cap
      /\ r.state = copy[d].state /\ r.read_done /\ r.need_flush = copy[d].need_flush
  <2>1. copy[d] \in TransferStates
    BY <1>3
  <2> QED
    BY <2>1 DEF TransferStates
<1> HIDE DEF r
<1>5. /\ copy'[d] = r /\ copy' \in [Directions -> TransferStates]
      /\ \A e \in Directions \ {d} : SameStream(e)
  BY <1>1, <1>2, <1>3, <1>4 DEF SameStream, envVars
<1>6. DataTypes'
  BY <1>t, <1>1, <1>5 DEF DataTypes, TypeOK
<1>7. Bounds(d)'
  BY <1>t, <1>1, <1>4, <1>5 DEF TypeOK, Bounds, Hold, envVars
<1>8. StreamOk(d)'
  <2>1. Passed(d)' = Passed(d)
    BY <1>1 DEF Passed, envVars
  <2> QED
    BY <1>t, <1>1, <1>4, <1>5, <2>1 DEF StreamOk, envVars
<1>9. EndOk(d)'
  BY <1>t, <1>1, <1>4, <1>5 DEF EndOk, Empty, envVars
<1>10. reason = "none"
  BY <1>t, <1>1 DEF Control, Directions
<1> QED
  BY <1>t, <1>1, <1>4, <1>5, <1>6, <1>7, <1>8, <1>9, <1>10, InnerStep DEF Control, TypeOK

\* What a write does to session and wire: i bytes more have been passed.
LEMMA AcceptsFacts ==
  ASSUME IInv, NEW d \in Directions, NEW i \in Nat, Accepts(d, i)
  PROVE  /\ wire' \in [Directions -> Seq(Nat)] /\ held' \in [Directions -> Seq(Nat)]
         /\ Numbered(wire'[d], Len(got[d])) /\ Numbered(held'[d], Len(got[d]) + Len(wire'[d]))
         /\ Len(wire'[d]) <= WireCap /\ Len(held'[d]) <= Hold
         /\ Len(got[d]) + Len(wire'[d]) + Len(held'[d]) = Passed(d) + i
         /\ \A e \in Directions \ {d} : wire'[e] = wire[e] /\ held'[e] = held[e]
<1> DEFINE g == Len(got[d])  w == Len(wire[d])  l == Len(held[d])  p == copy[d].pos
           c == SubSeq(copy[d].buf, p + 1, p + i)  h == held[d] \o c
<1>t. TypeOK /\ StreamOk(d)
  BY DEF IInv
<1>0. /\ g \in Nat /\ w \in Nat /\ l \in Nat /\ p \in Nat /\ Passed(d) = g + w + l
      /\ held[d] \in Seq(Nat) /\ copy[d].buf \in Seq(Nat)
      /\ Room(d) \in Nat /\ Room(d) = WireCap - w /\ Hold \in Nat
  BY <1>t, DirTypes, WriterFacts DEF Passed
<1>1. p + i <= Len(copy[d].buf) /\ p <= p + i /\ p + i \in Nat
  <2>1. i <= copy[d].cap - p /\ copy[d].cap = Len(copy[d].buf) /\ copy[d].cap \in Nat
    BY <1>t, DirTypes DEF Accepts
  <2> QED
    BY <1>0, <2>1
<1>2. /\ Numbered(wire[d], g) /\ Numbered(held[d], g + w)
      /\ Numbered(copy[d].buf, Passed(d) - p)
  BY <1>t DEF StreamOk
<1>3. \E n \in 0..Room(d) : n <= Len(h) /\ Len(h) - n <= Hold /\ Push(d, h, n)
  BY DEF Accepts
<1> HIDE DEF g, w, l, p
<1>4. c \in Seq(Nat) /\ Len(c) = i /\ Numbered(c, Passed(d))
  <2> DEFINE q == Passed(d) - p  m == p + i
  <2>1. q \in Int /\ Numbered(copy[d].buf, q) /\ m \in Nat
    BY <1>0, <1>1, <1>2
  <2>2. q + p = Passed(d) /\ m - p = i
    BY <1>0
  <2> HIDE DEF q, m
  <2>3. /\ SubSeq(copy[d].buf, p + 1, m) \in Seq(Nat) /\ Len(SubSeq(copy[d].buf, p + 1, m)) = m - p
        /\ Numbered(SubSeq(copy[d].buf, p + 1, m), q + p)
    BY <1>0, <1>1, <2>1, NumberedSlice DEF m
  <2> QED
    BY <2>2, <2>3 DEF m
<1> HIDE DEF c
<1>5. h \in Seq(Nat) /\ Len(h) = l + i /\ Numbered(h, g + w)
  <2> DEFINE k == g + w
  <2>1. k \in Int /\ Numbered(held[d], k) /\ Numbered(c, k + Len(held[d]))
    <3>1. k \in Int /\ Passed(d) = k + Len(held[d]) /\ Len(c) \in Nat
      BY <1>0, <1>4 DEF l
    <3>2. Numbered(held[d], k)
      BY <1>2
    <3> HIDE DEF k
    <3> QED
      BY <1>4, <3>1, <3>2
  <2> HIDE DEF k
  <2>2. h \in Seq(Nat) /\ Len(h) = Len(held[d]) + Len(c) /\ Numbered(h, k)
    BY <1>0, <1>4, <2>1, NumberedConcat
  <2> QED
    BY <1>4, <2>2 DEF k, l
<1> HIDE DEF h
<1>6. PICK n \in 0..Room(d) : n <= Len(h) /\ Len(h) - n <= Hold /\ Push(d, h, n)
  BY <1>3
<1>7. n \in Nat /\ n <= Room(d)
  BY <1>0
<1>8. /\ wire' \in [Directions -> Seq(Nat)] /\ held' \in [Directions -> Seq(Nat)]
      /\ Len(wire'[d]) = w + n /\ Len(held'[d]) = Len(h) - n
      /\ Numbered(wire'[d], g) /\ Numbered(held'[d], g + Len(wire'[d]))
      /\ \A e \in Directions \ {d} : wire'[e] = wire[e] /\ held'[e] = held[e]
  BY <1>t, <1>2, <1>5, <1>6, <1>7, PushFacts DEF g, w
<1>9. Len(wire'[d]) <= WireCap /\ Len(held'[d]) <= Hold
  BY <1>0, <1>6, <1>7, <1>8, CapAssumption
<1>10. g + Len(wire'[d]) + Len(held'[d]) = Passed(d) + i
  <2> DEFINE a == Len(wire'[d])  b == Len(held'[d])
  <2>1. a = w + n /\ b = Len(h) - n /\ Len(h) = l + i
    BY <1>5, <1>8
  <2> HIDE DEF a, b
  <2>2. g + a + b = g + w + l + i
    BY <1>0, <1>7, <2>1
  <2> QED
    BY <1>0, <2>2 DEF a, b
<1> QED
  BY <1>8, <1>9, <1>10 DEF g

\* The writer accepts i bytes; r is the buffer after it.
LEMMA WriteStep ==
  ASSUME IInv, NEW d \in Directions, NEW i \in 1..BufCap, Accepts(d, i), NEW r \in TransferStates,
         copy' = [copy EXCEPT ![d] = r],
         r.pos = copy[d].pos + i, r.buf = copy[d].buf, r.cap = copy[d].cap,
         r.state = copy[d].state, r.read_done = copy[d].read_done,
         held'[d] # <<>> => r.need_flush
  PROVE  IInv'
<1>t. TypeOK /\ StreamOk(d) /\ EndOk(d) /\ Control
  BY DEF IInv
<1>0. i \in Nat /\ i > 0
  BY CapAssumption
<1>1. /\ at = d /\ copy[d].state = "Running" /\ ~Empty(d) /\ i <= copy[d].cap - copy[d].pos
      /\ UNCHANGED <<envVars, source, closed, taskVars, wakers, woken>>
  BY DEF Accepts
<1>2. /\ wire' \in [Directions -> Seq(Nat)] /\ held' \in [Directions -> Seq(Nat)]
      /\ Numbered(wire'[d], Len(got[d])) /\ Numbered(held'[d], Len(got[d]) + Len(wire'[d]))
      /\ Len(wire'[d]) <= WireCap /\ Len(held'[d]) <= Hold
      /\ Len(got[d]) + Len(wire'[d]) + Len(held'[d]) = Passed(d) + i
      /\ \A e \in Directions \ {d} : wire'[e] = wire[e] /\ held'[e] = held[e]
  BY <1>0, AcceptsFacts
<1>3. copy \in [Directions -> TransferStates]
  BY <1>t DEF TypeOK
<1>4. /\ copy'[d] = r /\ copy' \in [Directions -> TransferStates]
      /\ \A e \in Directions \ {d} : SameStream(e)
  BY <1>1, <1>2, <1>3 DEF SameStream, envVars
<1>5. DataTypes'
  BY <1>t, <1>1, <1>2, <1>4 DEF DataTypes, TypeOK
<1>6. /\ copy[d].pos \in Nat /\ copy[d].cap \in Nat /\ copy[d].cap = Len(copy[d].buf)
      /\ copy[d].cap <= BufCap /\ Passed(d) \in Nat
  BY <1>t, DirTypes
<1>7. Bounds(d)'
  <2>1. r.pos <= r.cap /\ r.cap = Len(r.buf) /\ r.cap <= BufCap
    BY <1>0, <1>1, <1>6
  <2>2. Hold' = Hold
    BY <1>1 DEF Hold, envVars
  <2> QED
    BY <1>2, <1>4, <2>1, <2>2 DEF Bounds
<1>8. StreamOk(d)'
  <2>1. Passed(d)' = Passed(d) + i
    BY <1>1, <1>2 DEF Passed, envVars
  <2>2. /\ (Passed(d) + i) - r.pos = Passed(d) - copy[d].pos
        /\ (Passed(d) + i) + r.cap - r.pos = Passed(d) + copy[d].cap - copy[d].pos
    BY <1>0, <1>6
  <2>3. /\ Numbered(r.buf, (Passed(d) + i) - r.pos)
        /\ Numbered(source[d], (Passed(d) + i) + r.cap - r.pos)
        /\ sent[d] = (Passed(d) + i) + r.cap - r.pos + Len(source[d])
        /\ Numbered(got[d], 0)
    BY <1>t, <2>2 DEF StreamOk
  <2> QED
    BY <1>1, <1>2, <1>4, <2>1, <2>3 DEF StreamOk, envVars
<1>9. EndOk(d)'
  BY <1>t, <1>1, <1>4 DEF EndOk
<1>10. reason = "none"
  BY <1>t, <1>1 DEF Control, Directions
<1> QED
  BY <1>t, <1>1, <1>4, <1>5, <1>7, <1>8, <1>9, <1>10, InnerStep DEF Control, TypeOK

LEMMA WriteInv ==
  ASSUME IInv, NEW d \in Directions, Write(d)
  PROVE  IInv'
<1>1. PICK i \in 1..BufCap :
        /\ Accepts(d, i)
        /\ copy' = [copy EXCEPT ![d].pos = @ + i, ![d].need_flush = TRUE]
  BY DEF Write
<1> DEFINE p == copy[d].pos + i
           r == [copy[d] EXCEPT !.pos = p, !.need_flush = TRUE]
<1>2. copy[d] \in TransferStates
  BY DEF IInv, TypeOK
<1>3. copy[d].pos \in Nat /\ i \in Nat /\ p \in Nat
  BY <1>2, CapAssumption DEF TransferStates
<1>4. copy' = [copy EXCEPT ![d] = r]
  BY <1>1, <1>2, <1>3
<1> HIDE DEF p
<1>5. r.need_flush
  BY <1>2 DEF TransferStates
<1>6. /\ r \in TransferStates /\ r.pos = p /\ r.buf = copy[d].buf
      /\ r.cap = copy[d].cap /\ r.state = copy[d].state /\ r.read_done = copy[d].read_done
  BY <1>2, <1>3 DEF TransferStates
<1> HIDE DEF r
<1> QED
  BY <1>1, <1>4, <1>5, <1>6, WriteStep DEF p

\* A glommio writer keeps nothing back.
LEMMA GlommioWriteInv ==
  ASSUME IInv, NEW d \in Directions, GlommioWrite(d)
  PROVE  IInv'
<1>1. PICK i \in 1..BufCap : Accepts(d, i) /\ copy' = [copy EXCEPT ![d].pos = @ + i]
  BY DEF GlommioWrite
<1> DEFINE p == copy[d].pos + i
           r == [copy[d] EXCEPT !.pos = p]
<1>2. copy[d] \in TransferStates
  BY DEF IInv, TypeOK
<1>3. copy[d].pos \in Nat /\ i \in Nat /\ p \in Nat
  BY <1>2, CapAssumption DEF TransferStates
<1>4. copy' = [copy EXCEPT ![d] = r]
  BY <1>1
<1> HIDE DEF p
<1>5. /\ r \in TransferStates /\ r.pos = p /\ r.buf = copy[d].buf
      /\ r.cap = copy[d].cap /\ r.state = copy[d].state /\ r.read_done = copy[d].read_done
  BY <1>2, <1>3 DEF TransferStates
<1> HIDE DEF r
<1>6. held'[d] = <<>>
  <2>1. held'[d] \in Seq(Nat) /\ Len(held'[d]) <= Hold
    BY <1>1, <1>3, AcceptsFacts
  <2>2. Hold = 0
    BY DEF GlommioWrite, Hold
  <2> QED
    BY <2>1, <2>2, EmptySeq
<1> QED
  BY <1>1, <1>4, <1>5, <1>6, WriteStep DEF p

\* The writer is full: the waker is left with it.
LEMMA WritePendingInv ==
  ASSUME IInv, NEW d \in Directions, WritePending(d)
  PROVE  IInv'
<1>t. TypeOK /\ StreamOk(d) /\ EndOk(d) /\ Control
  BY DEF IInv
<1>1. /\ at = d /\ copy[d].state = "Running" /\ ~Empty(d) /\ WriteRoom(d) = 0
      /\ wakers' = wakers \cup {<<"write", d>>} /\ Return(d, Done)
      /\ UNCHANGED <<envVars, source, copy, held, wire, woken>>
  BY DEF WritePending
<1>2. DataTypes' /\ Bounds(d)' /\ \A e \in Directions : SameStream(e)
  BY <1>t, <1>1 DEF DataTypes, TypeOK, Bounds, Hold, SameStream, envVars
<1>3. StreamOk(d)' /\ EndOk(d)'
  BY <1>t, <1>1, <1>2, Frame DEF envVars
<1>4. Waits(d)'
  BY <1>1 DEF Waits, AwaitsWrite, Empty, WriteRoom, Room, Hold, envVars
<1>5. wakers' \subseteq Sockets
  BY <1>t, <1>1 DEF TypeOK, Sockets
<1> QED
  BY <1>1, <1>2, <1>3, <1>4, <1>5, ReturnStep

\* A flush gets everything out of the session, or the wire is full.
LEMMA FlushFacts ==
  ASSUME IInv, NEW d \in Directions, Push(d, held[d], FlushNow(d)), UNCHANGED envVars
  PROVE  /\ wire' \in [Directions -> Seq(Nat)] /\ held' \in [Directions -> Seq(Nat)]
         /\ Numbered(wire'[d], Len(got[d])) /\ Numbered(held'[d], Len(got[d]) + Len(wire'[d]))
         /\ Len(wire'[d]) <= WireCap /\ Len(held'[d]) <= Hold
         /\ Passed(d)' = Passed(d)
         /\ \A e \in Directions \ {d} : wire'[e] = wire[e] /\ held'[e] = held[e]
         /\ Flushes(d) => held'[d] = <<>>
         /\ ~Flushes(d) => held'[d] # <<>> /\ Room(d)' = 0
         /\ held[d] = <<>> => held'[d] = <<>>
<1> DEFINE g == Len(got[d])  w == Len(wire[d])  l == Len(held[d])  n == FlushNow(d)
           v == Len(wire'[d])  m == Len(held'[d])
<1>t. TypeOK /\ StreamOk(d)
  BY DEF IInv
<1>0. /\ g \in Nat /\ w \in Nat /\ l \in Nat /\ held[d] \in Seq(Nat)
      /\ w <= WireCap /\ l <= Hold
  BY <1>t, DirTypes
<1>1. /\ Room(d) \in Nat /\ Room(d) = WireCap - w /\ Hold \in Nat
      /\ n \in Nat /\ n <= l /\ n <= Room(d) /\ n = IF Flushes(d) THEN l ELSE Room(d)
  BY <1>t, WriterFacts
<1>2. Flushes(d) <=> l <= Room(d)
  BY DEF Flushes
<1>3. Numbered(wire[d], g) /\ Numbered(held[d], g + w)
  BY <1>t DEF StreamOk
<1>4. Push(d, held[d], n)
  OBVIOUS
<1> HIDE DEF n
<1>5. /\ wire' \in [Directions -> Seq(Nat)] /\ held' \in [Directions -> Seq(Nat)]
      /\ v = w + n /\ m = l - n
      /\ Numbered(wire'[d], g) /\ Numbered(held'[d], g + v)
      /\ \A e \in Directions \ {d} : wire'[e] = wire[e] /\ held'[e] = held[e]
  BY <1>t, <1>0, <1>1, <1>3, <1>4, PushFacts
<1>6. Passed(d) = g + w + l /\ Passed(d)' = g + v + m /\ Room(d)' = WireCap - v
  BY DEF Passed, Room, envVars
<1>7. (held[d] = <<>> <=> l = 0) /\ (held'[d] = <<>> <=> m = 0)
  BY <1>0, <1>5, EmptySeq
<1> HIDE DEF g, w, l, v, m
<1>8. v = w + n /\ m = l - n
  BY <1>5
<1>9. /\ v <= WireCap /\ m <= Hold
      /\ g + v + m = g + w + l
      /\ Flushes(d) => m = 0
      /\ ~Flushes(d) => m # 0 /\ WireCap - v = 0
      /\ l = 0 => m = 0
  BY <1>0, <1>1, <1>2, <1>8, CapAssumption
<1>10. /\ Passed(d)' = Passed(d)
       /\ Flushes(d) => held'[d] = <<>>
       /\ ~Flushes(d) => held'[d] # <<>> /\ Room(d)' = 0
       /\ held[d] = <<>> => held'[d] = <<>>
  BY <1>6, <1>7, <1>9
<1> QED
  BY <1>5, <1>9, <1>10 DEF g, v, m

\* What is known of the data of a direction after a flush, if the buffer r differs
\* from the one before at most in its state and its need_flush.
LEMMA FlushedStream ==
  ASSUME IInv, NEW d \in Directions, Push(d, held[d], FlushNow(d)), UNCHANGED <<envVars, source>>,
         NEW r \in TransferStates, copy' = [copy EXCEPT ![d] = r],
         r.pos = copy[d].pos, r.buf = copy[d].buf, r.cap = copy[d].cap
  PROVE  /\ DataTypes' /\ Bounds(d)' /\ StreamOk(d)' /\ copy'[d] = r
         /\ \A e \in Directions \ {d} : SameStream(e)
<1>t. TypeOK /\ StreamOk(d)
  BY DEF IInv
<1>1. UNCHANGED envVars
  OBVIOUS
<1>2. /\ wire' \in [Directions -> Seq(Nat)] /\ held' \in [Directions -> Seq(Nat)]
      /\ Numbered(wire'[d], Len(got[d])) /\ Numbered(held'[d], Len(got[d]) + Len(wire'[d]))
      /\ Len(wire'[d]) <= WireCap /\ Len(held'[d]) <= Hold
      /\ Passed(d)' = Passed(d)
      /\ \A e \in Directions \ {d} : wire'[e] = wire[e] /\ held'[e] = held[e]
  BY <1>1, FlushFacts
<1>3. copy \in [Directions -> TransferStates]
  BY <1>t DEF TypeOK
<1>4. /\ copy'[d] = r /\ copy' \in [Directions -> TransferStates]
      /\ \A e \in Directions \ {d} : SameStream(e)
  BY <1>1, <1>2, <1>3 DEF SameStream, envVars
<1>5. DataTypes'
  BY <1>t, <1>2, <1>4 DEF DataTypes, TypeOK
<1>6. Bounds(d)'
  BY <1>t, <1>1, <1>2, <1>4 DEF Bounds, TypeOK, Hold, envVars
<1>7. StreamOk(d)'
  BY <1>t, <1>1, <1>2, <1>4 DEF StreamOk, envVars
<1> QED
  BY <1>4, <1>5, <1>6, <1>7

\* A poll that is pending adds a waker and drops none.
LEMMA WakerAdded ==
  ASSUME TypeOK, NEW d \in Directions,
         \/ wakers' = wakers \cup {<<"read", d>>}
         \/ wakers' = wakers \cup {<<"write", d>>}
  PROVE  wakers' \subseteq Sockets /\ wakers \subseteq wakers'
<1>1. wakers \subseteq Sockets
  BY DEF TypeOK
<1>2. <<"read", d>> \in Sockets /\ <<"write", d>> \in Sockets
  BY DEF Sockets
<1> QED
  BY <1>1, <1>2

\* Nothing can be read: the task waits for the reader, and for the writer too if
\* a flush that was due did not get everything out.
LEMMA ReadPendingInv ==
  ASSUME IInv, NEW d \in Directions, ReadPending(d)
  PROVE  IInv'
<1>t. TypeOK /\ StreamOk(d) /\ EndOk(d) /\ Control
  BY DEF IInv
<1>1. /\ at = d /\ copy[d].state = "Running" /\ Empty(d) /\ ~copy[d].read_done
      /\ source[d] = <<>> /\ ~ended[d] /\ Return(d, Done)
      /\ UNCHANGED <<envVars, source, woken>>
  BY DEF ReadPending
<1>2. CASE copy[d].need_flush
  <2> DEFINE r == [copy[d] EXCEPT !.need_flush = ~Flushes(d)]
  <2>1. /\ Push(d, held[d], FlushNow(d)) /\ copy' = [copy EXCEPT ![d] = r]
        /\ wakers' = wakers \cup {<<"read", d>>} \cup (IF Flushes(d) THEN {} ELSE {<<"write", d>>})
    BY <1>2 DEF ReadPending
  <2>2. copy[d] \in TransferStates
    BY <1>t DEF TypeOK
  <2>3. /\ r \in TransferStates /\ r.pos = copy[d].pos /\ r.buf = copy[d].buf /\ r.cap = copy[d].cap
        /\ r.state = copy[d].state /\ r.read_done = copy[d].read_done
        /\ r.need_flush = ~Flushes(d)
    BY <2>2 DEF TransferStates
  <2> HIDE DEF r
  <2>4. /\ DataTypes' /\ Bounds(d)' /\ StreamOk(d)' /\ copy'[d] = r
        /\ \A e \in Directions \ {d} : SameStream(e)
    BY <1>1, <2>1, <2>3, FlushedStream
  <2>5. (Flushes(d) => held'[d] = <<>>) /\ (~Flushes(d) => held'[d] # <<>> /\ Room(d)' = 0)
    BY <1>1, <2>1, FlushFacts
  <2>6. EndOk(d)'
    BY <1>1, <2>3, <2>4, <2>5 DEF EndOk
  <2>7. Waits(d)'
    BY <1>1, <2>1, <2>3, <2>4, <2>5 DEF Waits, AwaitsRead, AwaitsFlush, Empty, envVars
  <2>8. wakers' \subseteq Sockets /\ wakers \subseteq wakers'
    <3>1. wakers \subseteq Sockets
      BY <1>t DEF TypeOK
    <3>2. <<"read", d>> \in Sockets /\ <<"write", d>> \in Sockets
      BY DEF Sockets
    <3> QED
      BY <2>1, <3>1, <3>2
  <2> QED
    BY <1>1, <2>3, <2>4, <2>6, <2>7, <2>8, ReturnStep
<1>3. CASE ~copy[d].need_flush
  <2>1. UNCHANGED <<copy, wire, held>> /\ wakers' = wakers \cup {<<"read", d>>}
    BY <1>3 DEF ReadPending
  <2>2. DataTypes' /\ Bounds(d)' /\ \A e \in Directions : SameStream(e)
    BY <1>t, <1>1, <2>1 DEF DataTypes, TypeOK, Bounds, Hold, SameStream, envVars
  <2>3. StreamOk(d)' /\ EndOk(d)'
    BY <1>t, <1>1, <2>2, Frame DEF envVars
  <2>4. Waits(d)'
    BY <1>t, <1>1, <1>3, <2>1 DEF Waits, AwaitsRead, Empty, EndOk, envVars
  <2>5. wakers' \subseteq Sockets /\ wakers \subseteq wakers'
    BY <1>t, <2>1, WakerAdded
  <2> QED
    BY <1>1, <2>1, <2>2, <2>3, <2>4, <2>5, ReturnStep
<1> QED
  BY <1>2, <1>3

LEMMA GlommioReadPendingInv ==
  ASSUME IInv, NEW d \in Directions, GlommioReadPending(d)
  PROVE  IInv'
<1>t. TypeOK /\ StreamOk(d) /\ EndOk(d) /\ Control
  BY DEF IInv
<1>1. /\ at = d /\ copy[d].state = "Running" /\ Empty(d) /\ ~copy[d].read_done
      /\ source[d] = <<>> /\ ~ended[d] /\ Return(d, Done)
      /\ wakers' = wakers \cup {<<"read", d>>}
      /\ UNCHANGED <<envVars, source, copy, wire, held, woken>>
  BY DEF GlommioReadPending
<1>2. DataTypes' /\ Bounds(d)' /\ \A e \in Directions : SameStream(e)
  BY <1>t, <1>1 DEF DataTypes, TypeOK, Bounds, Hold, SameStream, envVars
<1>3. StreamOk(d)' /\ EndOk(d)'
  BY <1>t, <1>1, <1>2, Frame DEF envVars
<1>4. held[d] = <<>>
  <2>1. Hold = 0
    BY DEF GlommioReadPending, Hold
  <2>2. held[d] \in Seq(Nat) /\ Len(held[d]) <= Hold
    BY <1>t, DirTypes
  <2> QED
    BY <2>1, <2>2, EmptySeq
<1>5. Waits(d)'
  BY <1>1, <1>4 DEF Waits, AwaitsRead, Empty, envVars
<1>6. wakers' \subseteq Sockets /\ wakers \subseteq wakers'
  BY <1>t, <1>1 DEF TypeOK, Sockets
<1> QED
  BY <1>1, <1>2, <1>3, <1>5, <1>6, ReturnStep

\* The writer is flushed and shut down at the end of the stream.
LEMMA ShutDownInv ==
  ASSUME IInv, NEW d \in Directions, ShutDown(d)
  PROVE  IInv'
<1>t. TypeOK /\ StreamOk(d) /\ EndOk(d) /\ Control
  BY DEF IInv
<1>1. /\ at = d /\ copy[d].state # "Done" /\ Empty(d) /\ copy[d].read_done
      /\ Push(d, held[d], FlushNow(d))
      /\ UNCHANGED <<envVars, source, woken>>
  BY DEF ShutDown
<1>2. ended[d] /\ source[d] = <<>> /\ reason = "none"
  BY <1>t, <1>1 DEF EndOk, Control, Directions
<1>3. copy \in [Directions -> TransferStates] /\ copy[d] \in TransferStates
  BY <1>t DEF TypeOK
<1>4. /\ Flushes(d) => held'[d] = <<>>
      /\ ~Flushes(d) => held'[d] # <<>> /\ Room(d)' = 0
      /\ held[d] = <<>> => held'[d] = <<>>
  BY <1>1, FlushFacts
<1>5. CASE Flushes(d)
  <2> DEFINE s == IF copy[d].state = "Running" THEN "ShuttingDown" ELSE "Done"
             r == [copy[d] EXCEPT !.state = s]
  <2>1. /\ copy' = [copy EXCEPT ![d] = r]
        /\ closed' = [closed EXCEPT ![d] = (copy[d].state = "ShuttingDown")]
        /\ UNCHANGED <<taskVars, wakers>>
    BY <1>1, <1>5 DEF ShutDown
  <2>2. s \in {"ShuttingDown", "Done"} /\ (copy[d].state = "ShuttingDown" => s = "Done")
    OBVIOUS
  <2> HIDE DEF s
  <2>3. /\ r \in TransferStates /\ r.pos = copy[d].pos /\ r.buf = copy[d].buf /\ r.cap = copy[d].cap
        /\ r.state = s /\ r.read_done = copy[d].read_done /\ r.need_flush = copy[d].need_flush
    BY <1>3, <2>2 DEF TransferStates
  <2> HIDE DEF r
  <2>4. /\ DataTypes' /\ Bounds(d)' /\ StreamOk(d)' /\ copy'[d] = r
        /\ \A e \in Directions \ {d} : SameStream(e)
    BY <1>1, <2>1, <2>3, FlushedStream
  <2>5. EndOk(d)'
    BY <1>1, <1>2, <1>4, <1>5, <2>3, <2>4 DEF EndOk, Empty, envVars
  <2>6. /\ closed' \in [Directions -> BOOLEAN]
        /\ closed'[d] => copy'[d].state = "Done"
        /\ \A e \in Directions \ {d} : closed'[e] = closed[e]
    <3>1. closed \in [Directions -> BOOLEAN]
      BY <1>t DEF TypeOK
    <3>2. closed'[d] = (copy[d].state = "ShuttingDown")
      BY <2>1, <3>1
    <3>3. copy'[d].state = s
      BY <2>3, <2>4
    <3> QED
      BY <2>1, <2>2, <3>1, <3>2, <3>3
  <2> QED
    BY <1>1, <2>1, <2>4, <2>5, <2>6, InnerStep
<1>6. CASE ~Flushes(d)
  <2> DEFINE r == copy[d]
  <2>1. /\ wakers' = wakers \cup {<<"write", d>>} /\ Return(d, Done)
        /\ copy' = [copy EXCEPT ![d] = r]
    BY <1>3, <1>6 DEF ShutDown
  <2>2. /\ r \in TransferStates /\ r.pos = copy[d].pos /\ r.buf = copy[d].buf /\ r.cap = copy[d].cap
        /\ r.state = copy[d].state /\ r.read_done = copy[d].read_done /\ r.need_flush = copy[d].need_flush
    BY <1>3
  <2> HIDE DEF r
  <2>3. /\ DataTypes' /\ Bounds(d)' /\ StreamOk(d)' /\ copy'[d] = r
        /\ \A e \in Directions \ {d} : SameStream(e)
    BY <1>1, <2>1, <2>2, FlushedStream
  <2>4. EndOk(d)'
    BY <1>t, <1>1, <1>2, <1>4, <1>6, <2>2, <2>3 DEF EndOk, Empty, envVars
  <2>5. Waits(d)'
    BY <1>1, <1>4, <1>6, <2>1, <2>2, <2>3 DEF Waits, AwaitsFlush
  <2>6. wakers' \subseteq Sockets /\ wakers \subseteq wakers'
    BY <1>t, <2>1, WakerAdded
  <2> QED
    BY <1>1, <2>1, <2>2, <2>3, <2>4, <2>5, <2>6, ReturnStep
<1> QED
  BY <1>5, <1>6

LEMMA ReturnDoneInv ==
  ASSUME IInv, NEW d \in Directions, ReturnDone(d)
  PROVE  IInv'
<1>t. TypeOK /\ StreamOk(d) /\ EndOk(d)
  BY DEF IInv
<1>1. /\ at = d /\ copy[d].state = "Done" /\ Return(d, Done)
      /\ UNCHANGED <<envVars, source, copy, held, wire, wakers, woken>>
  BY DEF ReturnDone
<1>2. DataTypes' /\ Bounds(d)' /\ \A e \in Directions : SameStream(e)
  BY <1>t, <1>1 DEF DataTypes, TypeOK, Bounds, Hold, SameStream, envVars
<1>3. StreamOk(d)' /\ EndOk(d)'
  BY <1>t, <1>1, <1>2, Frame DEF envVars
<1>4. Waits(d)' /\ wakers' \subseteq Sockets
  BY <1>t, <1>1 DEF Waits, TypeOK
<1> QED
  BY <1>1, <1>2, <1>3, <1>4, ReturnStep

\* A relay that fails is over.
LEMMA FailInv ==
  ASSUME IInv, NEW d \in Directions, Fail(d)
  PROVE  IInv'
<1>t. TypeOK /\ Control
  BY DEF IInv
<1> DEFINE why == IF engine = "tokio" THEN d ELSE "Error"
<1>1. /\ Finish(why)
      /\ UNCHANGED <<envVars, source, copy, held, wire, stop_reason, wakers, woken>>
  BY DEF Fail
<1>2. why \in Directions \cup {"Error"}
  OBVIOUS
<1> HIDE DEF why
<1>3. /\ reason' = why /\ reason' # "none" /\ todo' = {} /\ at' = "none"
      /\ closed' = [e \in Directions |-> TRUE]
  BY <1>1, <1>2 DEF Finish, Directions
<1>4. TypeOK'
  BY <1>t, <1>1, <1>2, <1>3 DEF TypeOK, Hold, envVars
<1>5. \A e \in Directions : StreamOk(e)' /\ EndOk(e)'
  <2>1. engine' = engine /\ \A e \in Directions : SameStream(e)
    BY <1>1 DEF SameStream, envVars
  <2> QED
    BY <2>1, Frame DEF IInv
<1>6. Control' /\ \A e \in Directions : Awake(e)'
  BY <1>3 DEF Control, Awake
<1> QED
  BY <1>4, <1>5, <1>6 DEF IInv
-----------------------------------------------------------------------------
\* A fresh relay has nothing on its way and is scheduled.
LEMMA InitInv == Init => IInv
<1> SUFFICES ASSUME Init PROVE IInv
  OBVIOUS
<1>1. <<>> \in Seq(Nat) /\ Len(<<>>) = 0
  OBVIOUS
<1>2. Running \in TransferStates
  BY <1>1 DEF Running, TransferStates
<1>3. Hold \in Nat
  BY CapAssumption DEF Hold
<1>4. TypeOK
  <2>1. /\ copy \in [Directions -> TransferStates]
        /\ held \in [Directions -> Seq(Nat)] /\ wire \in [Directions -> Seq(Nat)]
        /\ source \in [Directions -> Seq(Nat)] /\ got \in [Directions -> Seq(Nat)]
        /\ sent \in [Directions -> Nat] /\ ended \in [Directions -> BOOLEAN]
        /\ closed \in [Directions -> BOOLEAN]
    BY <1>1, <1>2 DEF Init
  <2>2. ASSUME NEW d \in Directions
        PROVE  /\ copy[d].pos <= copy[d].cap
               /\ copy[d].cap = Len(copy[d].buf) /\ copy[d].cap <= BufCap
               /\ Len(held[d]) <= Hold /\ Len(wire[d]) <= WireCap
    BY <1>1, <1>3, CapAssumption DEF Init, Running
  <2> QED
    BY <2>1, <2>2 DEF Init, TypeOK, Directions
<1>5. ASSUME NEW d \in Directions PROVE StreamOk(d) /\ EndOk(d)
  BY <1>1 DEF Init, StreamOk, EndOk, Running, Numbered, Passed, Empty
<1>6. Control /\ \A d \in Directions : Awake(d)
  BY DEF Init, Control, Awake
<1> QED
  BY <1>4, <1>5, <1>6 DEF IInv

\* Every step keeps the invariant.
LEMMA StepInv == IInv /\ [Next]_vars => IInv'
<1> SUFFICES ASSUME IInv, [Next]_vars PROVE IInv'
  OBVIOUS
<1>1. ASSUME NEW d \in Directions, Copy(d) PROVE IInv'
  BY <1>1, ReadDataInv, ReadEofInv, ReadPendingInv, GlommioReadPendingInv, WriteInv, GlommioWriteInv,
     WritePendingInv, ShutDownInv, ReturnDoneInv, FailInv DEF Copy
<1>2. ASSUME NEW d \in Directions, Send(d) \/ End(d) \/ Receive(d) PROVE IInv'
  BY <1>2, SendInv, EndInv, ReceiveInv
<1> QED
  BY <1>1, <1>2, TaskInv DEF Next, Task

LEMMA Invariance == Spec => []IInv
<1>1. Init => IInv
  BY InitInv
<1>2. IInv /\ [Next]_vars => IInv'
  BY StepInv
<1> QED
  BY <1>1, <1>2, PTL DEF Spec

\* Every variable keeps its type: the slice of a CopyBuffer that is written lies in
\* it, and session and wire keep to their bounds (copy_buf.rs: pos and cap).
THEOREM RelayTypeOK == Spec => []TypeOK
<1>1. IInv => TypeOK
  BY DEF IInv
<1> QED
  BY <1>1, Invariance, PTL

\* Whatever the sizes of buffers, sessions and wires, a relay that is parked has
\* nothing to read, write or flush (poll_copy: each pending return leaves a waker).
THEOREM NoLostWakeupHolds == Spec => []NoLostWakeup
<1>1. IInv => NoLostWakeup
  <2> SUFFICES ASSUME IInv, todo = {}, reason = "none", ~woken, NEW d \in Directions
               PROVE  ~CouldCopy(d)
    BY DEF NoLostWakeup
  <2>1. Waits(d) /\ EndOk(d) /\ TypeOK
    BY DEF IInv, Awake, Settled
  <2>2. /\ held[d] \in Seq(Nat) /\ Len(held[d]) \in Nat /\ copy[d].read_done \in BOOLEAN
        /\ (held[d] = <<>> <=> Len(held[d]) = 0)
    BY <2>1, DirTypes, EmptySeq
  <2>3. Room(d) \in Nat /\ WriteRoom(d) \in Nat
    BY <2>1, WriterFacts
  <2>4. CASE copy[d].state = "Done"
    BY <2>1, <2>4 DEF CouldCopy, EndOk
  <2>5. CASE copy[d].state = "Running" /\ ~Empty(d) /\ AwaitsWrite(d)
    BY <2>1, <2>3, <2>5 DEF CouldCopy, EndOk, AwaitsWrite
  <2>6. CASE copy[d].state = "Running" /\ Empty(d) /\ ~copy[d].read_done /\ AwaitsRead(d)
    BY <2>3, <2>6 DEF CouldCopy, AwaitsRead, AwaitsFlush
  <2>7. CASE copy[d].read_done /\ AwaitsFlush(d)
    BY <2>1, <2>2, <2>3, <2>7 DEF CouldCopy, EndOk, AwaitsFlush, Flushes
  <2> QED
    BY <2>1, <2>4, <2>5, <2>6, <2>7 DEF Waits
<1> QED
  BY <1>1, Invariance, PTL

\* A half-close overtakes nothing: when the writer has been shut down, the receiver
\* has or is about to get all that was sent (transfer_one_direction: poll_copy is
\* done before poll_shutdown).
THEOREM EofAfterDataHolds == Spec => []EofAfterData
<1>1. IInv => EofAfterData
  <2> SUFFICES ASSUME IInv, NEW d \in Directions, closed[d], reason = "none"
               PROVE  ended[d] /\ Len(got[d]) + Len(wire[d]) = sent[d]
    BY DEF EofAfterData
  <2>1. TypeOK /\ StreamOk(d) /\ EndOk(d) /\ copy[d].state = "Done"
    BY DEF IInv, Control
  <2>2. ended[d] /\ source[d] = <<>> /\ held[d] = <<>> /\ copy[d].pos = copy[d].cap
    BY <2>1 DEF EndOk, Empty
  <2>3. /\ sent[d] = Passed(d) + copy[d].cap - copy[d].pos + Len(source[d])
        /\ Passed(d) = Len(got[d]) + Len(wire[d]) + Len(held[d])
    BY <2>1 DEF StreamOk, Passed
  <2> DEFINE g == Len(got[d])  w == Len(wire[d])
  <2>4. copy[d].cap \in Nat /\ g \in Nat /\ w \in Nat /\ Len(source[d]) = 0 /\ Len(held[d]) = 0
    BY <2>1, <2>2, DirTypes
  <2>5. sent[d] = Passed(d) + copy[d].cap - copy[d].cap + 0 /\ Passed(d) = g + w + 0
    BY <2>2, <2>3, <2>4
  <2> HIDE DEF g, w
  <2>6. sent[d] = g + w
    BY <2>4, <2>5
  <2> QED
    BY <2>2, <2>6 DEF g, w
<1> QED
  BY <1>1, Invariance, PTL
-----------------------------------------------------------------------------
(***************************************************************************)
(* The relay implements ProxyPipe: a sender's step is a Write, a receiver's *)
(* a Deliver, and all that the relay does between them is invisible.       *)
(***************************************************************************)

\* What the sender of a direction has written when it has written n bytes.
Counted(n) == [i \in 1..n |-> i]

LEMMA CountedFacts ==
  ASSUME NEW n \in Nat
  PROVE  Counted(n) \in Seq(Nat) /\ Len(Counted(n)) = n /\ Numbered(Counted(n), 0)
<1>1. Counted(n) \in Seq(Nat) /\ Len(Counted(n)) = n
  BY DEF Counted
<1> QED
  BY <1>1 DEF Counted, Numbered

\* What is numbered from the start is a prefix of what was written.
LEMMA NumberedPrefix ==
  ASSUME NEW s \in Seq(Nat), Numbered(s, 0), NEW n \in Nat, Len(s) <= n
  PROVE  Pipe!Prefix(s, Counted(n))
<1> DEFINE t == SubSeq(Counted(n), 1, Len(s))
<1>1. Counted(n) \in Seq(Nat) /\ Len(Counted(n)) = n /\ Len(s) \in Nat
  BY CountedFacts
<1>2. t \in Seq(Nat) /\ Len(t) = Len(s)
  BY <1>1
<1>3. \A i \in 1..Len(s) : t[i] = i /\ s[i] = i
  BY <1>1 DEF Counted, Numbered
<1> HIDE DEF t
<1>4. \A i \in 1..Len(s) : s[i] = t[i]
  BY <1>3
<1>5. s = t
  BY <1>2, <1>4
<1> QED
  BY <1>1, <1>5 DEF Pipe!Prefix, t

LEMMA AppendPrefix ==
  ASSUME NEW s \in Seq(Nat), NEW x \in Nat
  PROVE  Pipe!Prefix(s, Append(s, x))
  BY DEF Pipe!Prefix

LEMMA InitPipe == Init => Pipe!Init
<1> SUFFICES ASSUME Init PROVE Pipe!Init
  OBVIOUS
<1>1. [i \in 1..0 |-> i] = <<>>
  <2>1. Counted(0) \in Seq(Nat) /\ Len(Counted(0)) = 0
    BY CountedFacts
  <2> QED
    BY <2>1 DEF Counted
<1>2. \A d \in Directions : sent[d] = 0
  BY DEF Init
<1> QED
  BY <1>1, <1>2 DEF Init, Pipe!Init

LEMMA SendPipe ==
  ASSUME TypeOK, NEW d \in Directions, Send(d)
  PROVE  Pipe!Write(d)
<1>1. /\ sent \in [Directions -> Nat] /\ sent[d] \in Nat
      /\ sent' = [sent EXCEPT ![d] = sent[d] + 1] /\ got' = got
  BY DEF TypeOK, Send
<1>2. sent'[d] = sent[d] + 1 /\ \A c \in Directions \ {d} : sent'[c] = sent[c]
  BY <1>1
<1>3. Pipe!Prefix(Counted(sent[d]), Counted(sent[d] + 1))
  <2> DEFINE s == Counted(sent[d])  n == sent[d] + 1
  <2>1. s \in Seq(Nat) /\ Numbered(s, 0) /\ n \in Nat /\ Len(s) <= n
    BY <1>1, CountedFacts
  <2> HIDE DEF s, n
  <2>2. Pipe!Prefix(s, Counted(n))
    BY <2>1, NumberedPrefix
  <2> QED
    BY <2>2 DEF s, n
<1>4. Pipe!Prefix(Counted(sent[d]), Counted(sent'[d]))
  BY <1>2, <1>3
<1> QED
  BY <1>1, <1>2, <1>4 DEF Pipe!Write, Counted

LEMMA ReceivePipe ==
  ASSUME IInv, IInv', NEW d \in Directions, Receive(d)
  PROVE  Pipe!Deliver(d)
<1>1. /\ got \in [Directions -> Seq(Nat)] /\ got' \in [Directions -> Seq(Nat)]
      /\ wire[d] \in Seq(Nat) /\ wire[d] # <<>> /\ sent' = sent /\ sent[d] \in Nat
      /\ got' = [got EXCEPT ![d] = Append(got[d], Head(wire[d]))]
  BY DEF IInv, TypeOK, Receive
<1>2. Head(wire[d]) \in Nat
  BY <1>1
<1>3. /\ got'[d] = Append(got[d], Head(wire[d]))
      /\ \A c \in Directions \ {d} : got'[c] = got[c]
  BY <1>1
<1>4. Pipe!Prefix(got[d], got'[d])
  BY <1>1, <1>2, <1>3, AppendPrefix
<1>5. got'[d] \in Seq(Nat) /\ Numbered(got'[d], 0) /\ Len(got'[d]) <= sent[d]
  <2>1. TypeOK' /\ StreamOk(d)'
    BY DEF IInv
  <2> DEFINE g == Len(got'[d])  w == Len(wire'[d])  h == Len(held'[d])  p == copy'[d].pos
             c == copy'[d].cap  s == Len(source'[d])
  <2>2. g \in Nat /\ w \in Nat /\ h \in Nat /\ p \in Nat /\ c \in Nat /\ s \in Nat /\ p <= c
    <3>1. /\ held'[d] \in Seq(Nat) /\ wire'[d] \in Seq(Nat) /\ source'[d] \in Seq(Nat)
          /\ copy'[d] \in TransferStates /\ copy'[d].pos <= copy'[d].cap
      BY <2>1 DEF TypeOK
    <3>2. copy'[d].pos \in Nat /\ copy'[d].cap \in Nat
      BY <3>1 DEF TransferStates
    <3>3. Len(got'[d]) \in Nat
      BY <2>1 DEF TypeOK
    <3>4. Len(held'[d]) \in Nat /\ Len(wire'[d]) \in Nat /\ Len(source'[d]) \in Nat
      BY <3>1
    <3> QED
      BY <3>1, <3>2, <3>3, <3>4
  <2>3. sent'[d] = g + w + h + c - p + s
    BY <2>1 DEF StreamOk, Passed
  <2>4. Numbered(got'[d], 0)
    BY <2>1 DEF StreamOk
  <2> HIDE DEF g, w, h, p, c, s
  <2>5. g <= sent'[d]
    BY <2>2, <2>3
  <2> QED
    BY <1>1, <2>4, <2>5 DEF g
<1>6. Pipe!Prefix(got'[d], Counted(sent[d]))
  BY <1>1, <1>5, NumberedPrefix
<1> QED
  BY <1>1, <1>3, <1>4, <1>6 DEF Pipe!Deliver, Counted

LEMMA StepPipe ==
  ASSUME IInv, IInv', [Next]_vars
  PROVE  \/ Pipe!Next
         \/ UNCHANGED <<[d \in Directions |-> [i \in 1..sent[d] |-> i]], got>>
<1>1. ASSUME NEW d \in Directions, Send(d) PROVE Pipe!Next
  BY <1>1, SendPipe DEF IInv, Pipe!Next
<1>2. ASSUME NEW d \in Directions, Receive(d) PROVE Pipe!Next
  BY <1>2, ReceivePipe DEF Pipe!Next
<1>3. ASSUME NEW d \in Directions, End(d) \/ Copy(d) PROVE sent' = sent /\ got' = got
  BY <1>3 DEF End, Copy, ReadData, ReadEof, ReadPending, GlommioReadPending, Write, GlommioWrite,
       Accepts, WritePending, ShutDown, ReturnDone, Fail, envVars
<1>4. ASSUME Poll \/ PollTimeout \/ PollShutdown \/ PollDuplex \/ Alarm \/ UNCHANGED vars
      PROVE  sent' = sent /\ got' = got
  BY <1>4 DEF Poll, PollTimeout, PollShutdown, PollDuplex, Alarm, vars, envVars
<1>5. sent' = sent /\ got' = got =>
        UNCHANGED <<[d \in Directions |-> [i \in 1..sent[d] |-> i]], got>>
  OBVIOUS
<1> QED
  BY <1>1, <1>2, <1>3, <1>4, <1>5 DEF Next, Task

\* In each direction the receiver gets what the sender wrote, in order, once each
\* and with nothing added, for buffers, sessions and wires of any size
\* (CopyBuffer::poll_copy, transfer_one_direction, relay_tcp, tcp_relay_task).
THEOREM RelayImplementsPipe == Spec => ImplementsPipe
<1>1. Init => Pipe!Init
  BY InitPipe
<1>2. IInv /\ IInv' /\ [Next]_vars =>
        [Pipe!Next]_<<[d \in Directions |-> [i \in 1..sent[d] |-> i]], got>>
  BY StepPipe
<1> QED
  BY <1>1, <1>2, Invariance, PTL DEF Spec, ImplementsPipe, Pipe!Spec
=============================================================================

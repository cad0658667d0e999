--------------------------- MODULE RequestStream ---------------------------
(***************************************************************************)
(* A request that arrives in pieces, at the server (a trojan request) or   *)
(* at the client (SOCKS5 or HTTP): the loop of reads and calls of parse,   *)
(* the replies, and the hand-over of the stream to the relay or to the     *)
(* fallback service.                                                       *)
(*                                                                         *)
(* A script is what a peer sends: parts, each but the first only after a   *)
(* reply, the request in it (NoRequest for a stream that is none) and the  *)
(* payload that follows the request.                                       *)
(***************************************************************************)
EXTENDS TrojanRequest, UserRequest

CONSTANT Scripts   \* records [kind, request, parts, payload]

Kinds == {"trojan", "socks5", "http"}
NoRequest == [cmd |-> 0, addr |-> NoAddr]

ASSUME ScriptAssumption ==
  \A s \in Scripts : /\ s.kind \in Kinds /\ s.payload \in Seq(Byte)
                     /\ s.parts # <<>> /\ \A i \in 1..Len(s.parts) : s.parts[i] \in Seq(Byte)

VARIABLES
  script,
  unsent,    \* parts the peer has not sent
  replied,   \* a reply the peer has not acted on
  wire,      \* bytes that have not been read
  read,      \* bytes the acceptor has read since the last reply
  acceptor,
  state,     \* "accept", then "relay", "fallback" or "closed"
  buffered,  \* BufferedRecv: none, or what the first read returns
  handed,    \* bytes that relay or fallback service have got
  eof        \* the relay has seen a read of no bytes

vars == <<script, unsent, replied, wire, read, acceptor, state, buffered, handed, eof>>

None == [some |-> FALSE, bytes |-> <<>>]
Some(bytes) == [some |-> TRUE, bytes |-> bytes]

New(kind) ==
  CASE kind = "trojan" -> NewAcceptor [] kind = "socks5" -> NewSocks5 [] kind = "http" -> NewHttp
Parse(kind, a) ==
  CASE kind = "trojan" -> parse(a) [] kind = "socks5" -> socks5_parse(a) [] kind = "http" -> http_parse(a)

Init ==
  /\ script \in Scripts
  /\ wire = Head(script.parts) /\ unsent = Tail(script.parts)
  /\ read = <<>> /\ replied = FALSE
  /\ acceptor = New(script.kind)
  /\ state = "accept"
  /\ buffered = None /\ handed = <<>> /\ eof = FALSE

\* A peer that has got a reply goes on.
Continue ==
  /\ replied /\ unsent # <<>> /\ state # "closed"
  /\ wire' = wire \o Head(unsent) /\ unsent' = Tail(unsent)
  /\ replied' = FALSE
  /\ UNCHANGED <<script, read, acceptor, state, buffered, handed, eof>>

Rest(n) == SubSeq(wire, n + 1, Len(wire))

\* Mutants: what follows the request is dropped; it is kept even if it is empty.
BufferedNever(a) == None
BufferedAlways(a) == Some(SubSeq(a.buf, a.cursor + 1, Len(a.buf)))

\* The end of accept: the bytes behind the request, if there are any.
buffered_request(a) ==
  IF Len(a.buf) = a.cursor THEN None ELSE Some(SubSeq(a.buf, a.cursor + 1, Len(a.buf)))

\* What a round of a loop of accept does with the acceptor a that parse returns.
AcceptMore(a) ==
  /\ a.res = "Incomplete"
  /\ acceptor' = a
  /\ UNCHANGED <<replied, state, buffered, handed>>

AcceptTrojan(a) ==
  /\ script.kind = "trojan"
  /\ acceptor' = a
  /\ \/ /\ a.res = "Ok"
        /\ state' = "relay" /\ buffered' = buffered_request(a) /\ UNCHANGED handed
     \/ /\ a.res = "Invalid"
        /\ state' = "fallback" /\ handed' = a.buf /\ UNCHANGED buffered
  /\ UNCHANGED replied

\* impl_accept of Socks5Request: the buffer is reset after the first phase, and
\* what is in it after the second is dropped.
AcceptSocks5(a) ==
  /\ script.kind = "socks5" /\ a.res = "Ok"
  /\ replied' = TRUE
  /\ \/ /\ a.phase = "P1ClientHello"
        /\ acceptor' = [a EXCEPT !.phase = "P2ClientRequest", !.buf = <<>>]
        /\ UNCHANGED state
     \/ /\ a.phase = "P2ClientRequest"
        /\ acceptor' = a /\ state' = "relay"
  /\ UNCHANGED <<buffered, handed>>

\* impl_accept of HttpRequest.  as_host panics for what is not a host name.
AcceptHttp(a) ==
  /\ script.kind = "http" /\ a.res = "Ok"
  /\ acceptor' = a
  /\ \/ /\ a.is_https
        /\ state' = "relay" /\ replied' = TRUE /\ UNCHANGED buffered
     \/ /\ ~a.is_https /\ a.addr.type = "Hostname"
        /\ state' = "relay" /\ buffered' = Some(http_p0(a.addr)) /\ UNCHANGED replied
     \/ /\ ~a.is_https /\ a.addr.type # "Hostname"
        /\ state' = "closed" /\ UNCHANGED <<buffered, replied>>
  /\ UNCHANGED handed

\* The client has no fallback service.
Refuse(a) ==
  /\ script.kind # "trojan" /\ a.res = "Invalid"
  /\ acceptor' = a /\ state' = "closed"
  /\ UNCHANGED <<replied, buffered, handed>>

\* One round: a read of n bytes, then parse.
Accept(n) ==
  /\ state = "accept" /\ n <= Len(wire)
  /\ wire' = Rest(n)
  /\ \E a \in {Parse(script.kind, [acceptor EXCEPT !.buf = @ \o SubSeq(wire, 1, n)])} :
       AcceptMore(a) \/ AcceptTrojan(a) \/ AcceptSocks5(a) \/ AcceptHttp(a) \/ Refuse(a)
  /\ read' = IF acceptor'.buf = <<>> THEN <<>> ELSE read \o SubSeq(wire, 1, n)
  /\ UNCHANGED <<script, unsent, eof>>

\* The stream ends or fails in the middle of a request, or, at the server,
\* SERVER_OUTBOUND_CONNECT_TIMEOUT passes.
GiveUp ==
  /\ state = "accept"
  /\ state' = "closed"
  /\ UNCHANGED <<script, unsent, replied, wire, read, acceptor, buffered, handed, eof>>

\* The relay reads from BufferedRecv: first what was buffered, at once.
ReadBuffered ==
  /\ state = "relay" /\ buffered.some
  /\ handed' = handed \o buffered.bytes
  /\ eof' = (buffered.bytes = <<>>)
  /\ buffered' = None
  /\ UNCHANGED <<script, unsent, replied, wire, read, acceptor, state>>

ReadOn(n) ==
  /\ state \in {"relay", "fallback"} /\ ~buffered.some /\ ~eof /\ n <= Len(wire)
  /\ handed' = handed \o SubSeq(wire, 1, n)
  /\ wire' = Rest(n)
  /\ UNCHANGED <<script, unsent, replied, read, acceptor, state, buffered, eof>>

Next ==
  \/ GiveUp \/ ReadBuffered \/ Continue
  \/ \E n \in 1..Len(wire) : Accept(n) \/ ReadOn(n)

Spec == Init /\ [][Next]_vars

\* Acceptor and relay read whatever has arrived, and a peer that has got its
\* reply goes on: every step uses up a part of the script, so this is fairness of
\* each of them.
FairSpec == Spec /\ WF_vars(Next)
-----------------------------------------------------------------------------
kind == script.kind
request == script.request

\* Every variable has its type, and the cursor that slices the buffer of a trojan
\* request once a command is known lies inside it.
TypeOK ==
  /\ {wire, read, acceptor.buf, buffered.bytes, handed} \subseteq Seq(Byte)
  /\ kind = "trojan" /\ acceptor.cmd # 0 => acceptor.cursor <= Len(acceptor.buf)
  /\ state \in {"accept", "relay", "fallback", "closed"}
  /\ {buffered.some, eof, replied} \subseteq BOOLEAN

\* One call of parse for all that has been read in this phase.
OneShot ==
  Parse(kind, IF kind = "socks5"
                THEN [NewSocks5 EXCEPT !.phase = acceptor.phase, !.buf = read]
                ELSE [New(kind) EXCEPT !.buf = read])

\* The places in a GET behind one scheme, or several.
BehindSchemes ==
  LET c == Find(read, Len(GET), Byte \ {Blank})
      Skipped(k) == /\ c + 7 * k <= Len(read)
                    /\ to_ascii_lowercase(SubSeq(read, c + 7 * k - 6, c + 7 * k)) = SCHEME
  IN {c + 7 * n : n \in {m \in 1..(Len(read) \div 7) : \A k \in 1..m : Skipped(k)}}

\* The acceptor has decided as a call that returns one.
DecidesAs(one) ==
  IF kind = "http"
    THEN /\ acceptor.res = "Ok" <=> one.res = "Ok"
         /\ acceptor.res = "Ok" => acceptor.addr = one.addr
         /\ acceptor.res = "Invalid" => one.res = "Invalid"
    ELSE acceptor = one

\* parse goes on from a cursor and an address that an earlier call has left, on a
\* buffer that was cut anywhere or, for HTTP, thrown away, also for streams that are
\* no request: it decides as a single call for all that has been read would.  With
\* one exception: set_host keeps the cursor behind the scheme of a GET it has to
\* wait for, and looks for a scheme there again.  Such a GET is decided as by a call
\* that starts behind the scheme: it waits for more than the 7 bytes of a scheme
\* (GET http://b/ CR LF CR LF is never answered), and skips a second one.
SameAsOneShot ==
  read # <<>> =>
    \/ DecidesAs(OneShot)
    \/ /\ kind = "http" /\ Len(read) > Len(GET) /\ SubSeq(read, 1, Len(GET)) = GET
       /\ \E c \in BehindSchemes :
            DecidesAs(http_parse([NewHttp EXCEPT !.cursor = c, !.buf = read]))

\* All of the request has been read; of an echo, all that the server looks at.
Complete ==
  \/ kind = "trojan" /\ Len(read) >= (IF request.cmd = ECHO_REQUEST_CMD THEN HASH_LEN + 5
                                                                       ELSE Len(Encode(request)))
  \/ kind = "socks5" /\ acceptor.phase = "P2ClientRequest" /\ read = script.parts[2]
  \/ kind = "http" /\ read = script.parts[1]

\* An address that from_encoded reads as it was written.  The segments of IPv6 are
\* read from bytes i and i + 1 where they are at 2 i - 1 and 2 i: only addresses whose
\* bytes are all the same from the second one on survive, as :: does and ::1 does not.
Survives(addr) ==
  addr.type = "V6" => \A i \in 2..V6Len : addr.ip[i] = from_be_bytes(1, 1) * (addr.ip[1] % 256)


\* All the peer sends that the relay has not got yet.
Coming == wire \o (IF unsent = <<>> THEN <<>> ELSE unsent[Len(unsent)])

\* Nothing behind a request is lost or repeated between the acceptor's buffer,
\* BufferedRecv and the socket, and nothing of a stream that goes to the fallback
\* service.  The relay of a GET starts with the header made for it.
NothingLost ==
  /\ state = "relay" /\ request # NoRequest =>
       handed \o buffered.bytes \o Coming =
         (IF kind = "http" /\ request.cmd = 0 THEN http_p0(request.addr) ELSE <<>>) \o script.payload
  /\ state = "fallback" => handed \o Coming = script.parts[1]

\* A request without payload, or one whose payload comes later, is not mistaken
\* for the end of the stream: all of the stream is handed on.
AllHanded ==
  <>(\/ state = "closed"
     \/ state = "accept" /\ wire = <<>> /\ unsent = <<>> /\ request = NoRequest
     \/ state # "accept" /\ wire = <<>> /\ unsent = <<>> /\ ~buffered.some /\ ~eof)
=============================================================================

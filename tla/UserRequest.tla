---------------------------- MODULE UserRequest ----------------------------
(***************************************************************************)
(* What users ask the client for: Socks5Request and HttpRequest, which     *)
(* find a request in a buffer that may hold a part of it, and are called   *)
(* again when there is more.                                               *)
(*                                                                         *)
(*   SOCKS5   5 n methods      (answered)     5 CMD 0 ATYP ADDR PORT       *)
(*   HTTP     CONNECT host:port ... CR LF CR LF                            *)
(*            GET http://host:port/... CR LF CR LF                         *)
(*                                                                         *)
(* A request under way is its fields, its buffer and the result of parse.  *)
(***************************************************************************)
EXTENDS MixAddr

Blank == 32
Slash == 47
GET == <<71, 69, 84, Blank>>
CONNECT == <<67, 79, 78, 78, 69, 67, 84, Blank>>
SCHEME == <<104, 116, 116, 112, Colon, Slash, Slash>>
BlankLine == CRLF \o CRLF

Says(q, why) == [q EXCEPT !.res = why]
-----------------------------------------------------------------------------
NewSocks5 == [buf |-> <<>>, phase |-> "P1ClientHello", is_udp |-> FALSE, addr |-> NoAddr,
              res |-> "Ok"]

\* The version, and one of the offered methods must be "no authentication".
socks5_hello(q) ==
  IF Len(q.buf) < 2 THEN Says(q, "Incomplete")
  ELSE IF q.buf[1] # 5 THEN Says(q, "Invalid")
  ELSE IF Len(q.buf) < 2 + q.buf[2] THEN Says(q, "Incomplete")
  ELSE IF \E i \in 3..(2 + q.buf[2]) : q.buf[i] = 0 THEN Says(q, "Ok")
  ELSE Says(q, "Invalid")

socks5_request(q) ==
  LET d == from_encoded_bytes(SubSeq(q.buf, 4, Len(q.buf)))
  IN IF Len(q.buf) < 5 THEN Says(q, "Incomplete")
     ELSE IF q.buf[1] # 5 \/ q.buf[2] \notin {1, 3} THEN Says(q, "Invalid")
     ELSE [q EXCEPT !.is_udp = (q.buf[2] = 3), !.addr = d.addr, !.res = d.res]

socks5_parse(q) ==
  IF q.phase = "P1ClientHello" THEN socks5_hello(q) ELSE socks5_request(q)
-----------------------------------------------------------------------------
NewHttp == [buf |-> <<>>, cursor |-> 0, is_https |-> FALSE, addr |-> NoAddr, res |-> "Ok"]

set_stream_type(q) ==
  IF Len(q.buf) < 4 THEN Says(q, "Incomplete")
  ELSE IF SubSeq(q.buf, 1, 4) = GET THEN [q EXCEPT !.is_https = FALSE, !.cursor = 4]
  ELSE IF Len(q.buf) < 8 THEN Says(q, "Incomplete")
  ELSE IF SubSeq(q.buf, 1, 8) = CONNECT THEN [q EXCEPT !.is_https = TRUE, !.cursor = 8]
  ELSE Says(q, "Invalid")

to_ascii_lowercase(s) == [i \in 1..Len(s) |-> IF s[i] \in 65..90 THEN s[i] + 32 ELSE s[i]]

\* The first place at or behind c where b has a byte of S, or its end.
Find(b, c, S) == Min({i \in c..Len(b) : i = Len(b) \/ b[i + 1] \in S})

\* Mutant: a search that has to wait for more goes on where it has ended.
SetHostGoesOn(q) ==
  LET n == Len(q.buf)
      c == Find(q.buf, q.cursor, Byte \ {Blank})
      short == ~q.is_https /\ c + 7 >= n
      start == IF ~q.is_https /\ to_ascii_lowercase(SubSeq(q.buf, c + 1, c + 7)) = SCHEME
                 THEN c + 7 ELSE c
      end == Find(q.buf, start, {Blank, Slash})
      d == from_http_header(q.is_https, SubSeq(q.buf, start + 1, end))
  IN IF short THEN [q EXCEPT !.cursor = c, !.res = "Incomplete"]
     ELSE IF end = n THEN [q EXCEPT !.cursor = end, !.res = "Incomplete"]
     ELSE [q EXCEPT !.cursor = start, !.addr = d.addr, !.res = d.res]

\* Blanks, the scheme of a GET, then the host up to a blank or a slash.
set_host(q) ==
  LET n == Len(q.buf)
      c == Find(q.buf, q.cursor, Byte \ {Blank})
      short == ~q.is_https /\ c + 7 >= n
      start == IF ~q.is_https /\ to_ascii_lowercase(SubSeq(q.buf, c + 1, c + 7)) = SCHEME
                 THEN c + 7 ELSE c
      end == Find(q.buf, start, {Blank, Slash})
      d == from_http_header(q.is_https, SubSeq(q.buf, start + 1, end))
  IN IF short THEN [q EXCEPT !.cursor = c, !.res = "Incomplete"]
     ELSE IF end = n THEN [q EXCEPT !.cursor = start, !.res = "Incomplete"]
     ELSE [q EXCEPT !.cursor = start, !.addr = d.addr, !.res = d.res]

\* Once the host is known only the last 4 bytes are kept, to see the blank line.
http_parse(q) ==
  LET t == IF q.cursor = 0 THEN set_stream_type(Says(q, "Ok")) ELSE Says(q, "Ok")
      h == IF t.res = "Ok" /\ t.addr = NoAddr THEN set_host(t) ELSE t
      last4 == SubSeq(h.buf, Len(h.buf) - 3, Len(h.buf))
  IN IF h.res # "Ok" \/ last4 = BlankLine THEN h
     ELSE [h EXCEPT !.buf = last4, !.res = "Incomplete"]

\* What the relay sends first for a GET, in place of the header that was read.
to_string(n) ==
  LET k == CHOOSE i \in 1..5 : n < 10 ^ i /\ (i = 1 \/ n >= 10 ^ (i - 1))
  IN [i \in 1..k |-> 48 + ((n \div 10 ^ (k - i)) % 10)]
http_p0(addr) == GET \o addr.ip \o <<Colon>> \o to_string(addr.port) \o BlankLine
=============================================================================

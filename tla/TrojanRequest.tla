--------------------------- MODULE TrojanRequest ---------------------------
(***************************************************************************)
(* The request at the start of a tunnel: how the client encodes it, and    *)
(* how the server's TrojanAcceptor finds it in a buffer that may hold a    *)
(* part of it.                                                             *)
(*                                                                         *)
(*   hash | CR LF | CMD | ATYP | DST.ADDR | DST.PORT | CR LF | payload     *)
(***************************************************************************)
EXTENDS MixAddr

CONSTANT Password   \* the hash, a sequence of HASH_LEN bytes

ASSUME PasswordAssumption == Password \in Seq(Byte)

HASH_LEN == Len(Password)
TCP_REQUEST_CMD == 1
UDP_REQUEST_CMD == 3
LITE_TLS_REQUEST_CMD == 17
ECHO_REQUEST_CMD == 255
Commands == {TCP_REQUEST_CMD, UDP_REQUEST_CMD, LITE_TLS_REQUEST_CMD, ECHO_REQUEST_CMD}

\* send_trojan_auth.
Encode(r) == Password \o CRLF \o <<r.cmd>> \o write_buf(r.addr) \o CRLF
-----------------------------------------------------------------------------
(***************************************************************************)
(* TrojanAcceptor.  An acceptor a is its fields and the result of the last *)
(* step of parse; a step runs only if the ones before it were Ok.          *)
(***************************************************************************)
NewAcceptor == [buf |-> <<>>, cursor |-> 0, cmd |-> 0, host |-> NoAddr, res |-> "Ok"]

Result(a, why) == [a EXCEPT !.res = why]

verify(a) ==
  IF a.cursor # 0 THEN a
  ELSE IF Len(a.buf) < HASH_LEN THEN Result(a, "Incomplete")
  ELSE IF SubSeq(a.buf, 1, HASH_LEN) = Password THEN [a EXCEPT !.cursor = HASH_LEN + 2]
  ELSE Result(a, "Invalid")

\* Mutant: the cursor is not put back before the address is parsed again.
SetHostResumes(a) ==
  IF a.host # NoAddr THEN a
  ELSE IF Len(a.buf) < HASH_LEN + 5 THEN Result(a, "Incomplete")
  ELSE LET c == [a EXCEPT !.cursor = @ + 1, !.cmd = a.buf[HASH_LEN + 3]]
           d == from_encoded_bytes(SubSeq(c.buf, c.cursor + 1, Len(c.buf)))
       IN CASE c.cmd \in Commands \ {ECHO_REQUEST_CMD} ->
                 [c EXCEPT !.res = d.res, !.host = d.addr, !.cursor = @ + d.len]
            [] c.cmd = ECHO_REQUEST_CMD -> c
            [] OTHER -> Result(c, "Invalid")

set_host_and_port(a) ==
  IF a.host # NoAddr THEN a
  ELSE IF Len(a.buf) < HASH_LEN + 5 THEN Result(a, "Incomplete")
  ELSE LET c == [a EXCEPT !.cursor = HASH_LEN + 3, !.cmd = a.buf[HASH_LEN + 3]]
           d == from_encoded_bytes(SubSeq(c.buf, c.cursor + 1, Len(c.buf)))
       IN CASE c.cmd \in Commands \ {ECHO_REQUEST_CMD} ->
                 [c EXCEPT !.res = d.res, !.host = d.addr, !.cursor = @ + d.len]
            [] c.cmd = ECHO_REQUEST_CMD -> c
            [] OTHER -> Result(c, "Invalid")

expect_crlf(a) ==
  IF Len(a.buf) < a.cursor + 2 THEN Result(a, "Incomplete")
  ELSE IF SubSeq(a.buf, a.cursor + 1, a.cursor + 2) = CRLF THEN [a EXCEPT !.cursor = @ + 2]
  ELSE Result(a, "Invalid")

parse(a) ==
  LET v == verify(Result(a, "Ok"))
      h == IF v.res = "Ok" THEN set_host_and_port(v) ELSE v
  IN IF h.res = "Ok" THEN expect_crlf(h) ELSE h
=============================================================================

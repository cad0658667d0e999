------------------------------ MODULE MixAddr ------------------------------
(***************************************************************************)
(* MixAddrType: the address of a target, how it is encoded in requests and *)
(* datagrams, how it is read back from a buffer that may hold a part of    *)
(* it, and how it is read from the header of an HTTP request.              *)
(*                                                                         *)
(* Bytes are numbers.  The ip of a Hostname is its name.                   *)
(***************************************************************************)
EXTENDS Integers, Sequences, FiniteSetsExt

CONSTANTS
  V4Len,      \* bytes of an IPv4 address (4)
  V6Len       \* segments of an IPv6 address (8)

ASSUME LengthAssumption == V4Len \in Nat \ {0} /\ V6Len \in Nat \ {0}

Byte == 0..255
CRLF == <<13, 10>>
NoAddr == [type |-> "None", ip |-> <<>>, port |-> 0]


to_be_bytes(n) == <<n \div 256, n % 256>>
from_be_bytes(a, b) == 256 * a + b

transmute_u16s_to_u8s(ip) ==
  [i \in 1..(2 * Len(ip)) |-> to_be_bytes(ip[(i + 1) \div 2])[2 - (i % 2)]]

write_buf(addr) ==
  CASE addr.type = "Hostname" -> <<3, Len(addr.ip) % 256>> \o addr.ip \o to_be_bytes(addr.port)
    [] addr.type = "V4" -> <<1>> \o addr.ip \o to_be_bytes(addr.port)
    [] addr.type = "V6" -> <<4>> \o transmute_u16s_to_u8s(addr.ip) \o to_be_bytes(addr.port)

\* An address of the given type whose last byte is b[hi], with its port behind it.
Decoded(b, type, ip, hi) ==
  [res |-> "Ok", len |-> hi + 2,
   addr |-> [type |-> type, ip |-> ip, port |-> from_be_bytes(b[hi + 1], b[hi + 2])]]
Undecoded(why) == [res |-> why, len |-> 0, addr |-> NoAddr]

\* Bytes that no UTF-8 string has.
from_utf8_ok(s) == \A i \in 1..Len(s) : s[i] # 255

from_encoded_bytes(b) ==
  IF Len(b) < 2 THEN Undecoded("Incomplete")
  ELSE CASE b[1] = 1 ->
              IF Len(b) < 1 + V4Len + 2 THEN Undecoded("Incomplete")
              ELSE Decoded(b, "V4", SubSeq(b, 2, 1 + V4Len), 1 + V4Len)
         [] b[1] = 3 ->
              IF Len(b) < 2 + b[2] + 2 THEN Undecoded("Incomplete")
              ELSE IF ~from_utf8_ok(SubSeq(b, 3, 2 + b[2])) THEN Undecoded("Invalid")
              ELSE Decoded(b, "Hostname", SubSeq(b, 3, 2 + b[2]), 2 + b[2])
         [] b[1] = 4 ->
              IF Len(b) < 1 + 2 * V6Len + 2 THEN Undecoded("Incomplete")
              ELSE Decoded(b, "V6", [i \in 1..V6Len |-> from_be_bytes(b[1 + i], b[2 + i])],
                           1 + 2 * V6Len)
         [] OTHER -> Undecoded("Invalid")
-----------------------------------------------------------------------------
(***************************************************************************)
(* Addresses in HTTP headers: host or host:port, in ASCII.                 *)
(***************************************************************************)
Colon == 58
Bracket == 93
Digits == 48..57
Letters == (65..90) \cup (97..122)
AllDigits(s) == \A i \in 1..Len(s) : s[i] \in Digits

\* The number that digits stand for, in the arithmetic of u16 of a release build.
parse_port(s) ==
  LET p[n \in 0..Len(s)] == IF n = 0 THEN 0 ELSE (10 * p[n - 1] + s[n] - 48) % 65536
  IN p[Len(s)]

\* SocketAddrV4 reads an address *with* its port; an IPv4 text is V4Len digits here.
SocketAddrV4_from_str_ok(s) ==
  Len(s) > V4Len + 1 /\ s[V4Len + 1] = Colon
    /\ AllDigits(SubSeq(s, 1, V4Len)) /\ AllDigits(SubSeq(s, V4Len + 2, Len(s)))

\* Hosts are told apart by their last byte.  SocketAddrV6 wants a port behind the
\* bracket, so what ends with the bracket never parses.
host_of(s, port) ==
  LET last == s[Len(s)]
      Read(type, ip) == [res |-> "Ok", len |-> Len(s),
                         addr |-> [type |-> type, ip |-> ip, port |-> port]]
  IN IF last = Bracket \/ ~from_utf8_ok(s) THEN Undecoded("Invalid")
     ELSE IF last \in Letters THEN Read("Hostname", s)
     ELSE IF SocketAddrV4_from_str_ok(s) THEN Read("V4", [i \in 1..V4Len |-> s[i] - 48])
     ELSE Undecoded("Invalid")

from_http_header(is_https, b) ==
  LET end == Len(b) + 1
      colons == {i \in 1..Len(b) : b[i] = Colon}
      port_idx == IF colons = {} THEN end ELSE Max(colons)
      digits == SubSeq(b, port_idx + 1, Len(b))
  IN IF \/ port_idx = 1 \/ port_idx = Len(b) \/ (port_idx = end /\ is_https)
        \/ ~AllDigits(digits)
       THEN Undecoded("Invalid")
       ELSE host_of(SubSeq(b, 1, port_idx - 1),
                    IF port_idx = end THEN 80 ELSE parse_port(digits))
=============================================================================

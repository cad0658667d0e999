-------------------------- MODULE MCRequestStream --------------------------
(***************************************************************************)
(* Instances of RequestStream for TLC: a hash of one byte, addresses of    *)
(* two bytes or two segments.                                              *)
(***************************************************************************)
EXTENDS RequestStream

Hash == <<97>>

\* A port below and one above 255; CR and LF inside addresses.
Ports == {80, 3338}
V4Addrs == {[type |-> "V4", ip |-> <<13, 10>>, port |-> p] : p \in Ports}
HostNames == {[type |-> "Hostname", ip |-> h, port |-> p] : h \in {<<>>, <<98>>, <<13, 10, 98>>}, p \in Ports}
\* Addresses whose bytes from the second on are the same, and others.
V6Addrs == {[type |-> "V6", ip |-> ip, port |-> 80] : ip \in {<<0, 0>>, <<1287, 1799>>, <<0, 1>>, <<258, 772>>}}
Payloads == {<<>>, <<7>>, <<13, 10, 7>>}

Trojan(r, p) == [kind |-> "trojan", request |-> r, parts |-> <<Encode(r) \o p>>, payload |-> p]
TrojanScripts ==
  {Trojan([cmd |-> c, addr |-> a], p) :
     c \in Commands \ {ECHO_REQUEST_CMD}, a \in V4Addrs \cup V6Addrs \cup HostNames, p \in Payloads}

\* The request of the client's echo task.
Null == [type |-> "V4", ip |-> <<0, 0>>, port |-> 0]
EchoScripts == {Trojan([cmd |-> ECHO_REQUEST_CMD, addr |-> a], p) : a \in {Null} \cup V6Addrs, p \in {<<>>, <<7>>}}

\* Methods with and without the one that is accepted.
Socks5(r, m, p) ==
  [kind |-> "socks5", request |-> IF \E i \in 1..Len(m) : m[i] = 0 THEN r ELSE NoRequest,
   parts |-> <<<<5, Len(m)>> \o m, <<5, r.cmd, 0>> \o write_buf(r.addr), p>>, payload |-> p]
Socks5Scripts ==
  {Socks5([cmd |-> c, addr |-> a], m, p) :
     c \in {1, 3}, a \in V4Addrs \cup V6Addrs \cup HostNames, m \in {<<0>>, <<2, 0>>, <<2>>}, p \in {<<>>, <<7, 8>>}}

\* Hosts as users write them: with a port, without one, in capitals.
Target(h) == [type |-> "Hostname", ip |-> h, port |-> 80]
At(port) == <<Colon>> \o to_string(port)
Version == <<Blank, 72>> \o BlankLine
Connect(h, port, p) ==
  [kind |-> "http", request |-> [cmd |-> 1, addr |-> [Target(h) EXCEPT !.port = port]],
   parts |-> <<CONNECT \o h \o At(port) \o Version, p>>, payload |-> p]
Get(blanks, scheme, h, port, path) ==
  [kind |-> "http",
   request |-> [cmd |-> 0, addr |-> [Target(h) EXCEPT !.port = port]],
   parts |-> <<GET \o blanks \o scheme \o h \o (IF port = 80 THEN <<>> ELSE At(port)) \o path \o Version>>,
   payload |-> <<>>]
HttpScripts ==
  {Connect(h, port, p) : h \in {<<98>>, <<49, 46, 98>>}, port \in {80, 443, 65535}, p \in {<<>>, <<7>>}}
    \cup {Get(b, s, h, port, path) : b \in {<<>>, <<Blank, Blank>>}, s \in {<<>>, SCHEME, <<72>> \o Tail(SCHEME)},
            h \in {<<98>>, <<104, 116, 116, 112, 98>>}, port \in {80, 8080}, path \in {<<Slash>>, <<Slash, 98>>}}

\* Another hash, and the right hash with anything behind it: bytes that are
\* types, commands, lengths, parts of CR LF or no text at all.  Users that speak
\* another version, ask for another command, or give a host that is none.
No(k, s) == [kind |-> k, request |-> NoRequest, parts |-> <<s>>, payload |-> <<>>]
Foreign ==
  {No("trojan", s) : s \in
     {<<98, 13, 10, 1, 1>>, <<97>>}
       \cup {Hash \o CRLF \o <<c>> \o t : c \in {1, 255}, t \in [1..5 -> {1, 3, 13, 10}]}
       \cup {Hash \o <<0, 0, 3, 3, 1>> \o t : t \in [1..4 -> {1, 13, 10, 255}]}
       \cup {Hash \o CRLF \o <<17, 4>> \o t : t \in [1..7 -> {13, 10}]}}
    \cup {No("socks5", s) : s \in {<<4, 1, 0>>, <<5, 0>>, <<5>>}}
    \cup {[No("socks5", <<5, 1, 0>>) EXCEPT !.parts = @ \o <<s>>] : s \in
            {<<5, 2, 0, 1, 1, 1, 1, 1>>, <<4, 1, 0, 1, 1>>, <<5, 1, 0, 9, 9>>, <<5, 1, 0, 3, 1, 255, 0, 80>>}}
    \cup {No("http", s) : s \in
            {<<80, 79, 83, 84>> \o CONNECT, GET \o SCHEME \o <<Slash>> \o BlankLine}
              \cup {CONNECT \o h \o Version : h \in
                      {<<98>>, <<98, Colon>>, <<Colon, 49>>, <<98, Colon, 49, 98>>, <<255, 98, Colon, 49>>,
                       <<49, 50, Colon, 56>>, <<91, 49, Bracket, Colon, 56>>}}
              \cup {GET \o <<49, 50, Colon, 49, Colon, 56, Slash>> \o Version}}

\* GETs that an earlier call has skipped the scheme of: so short that the next one
\* waits for another, and with a second scheme.
Resumed ==
  {No("http", GET \o s) : s \in
     {SCHEME \o <<98, Slash>> \o BlankLine, SCHEME \o SCHEME \o <<98, Slash>> \o Version,
      SCHEME \o SCHEME \o SCHEME \o <<98, Slash>> \o Version}}

AllScripts == TrojanScripts \cup EchoScripts \cup Socks5Scripts \cup HttpScripts \cup Foreign \cup Resumed
=============================================================================

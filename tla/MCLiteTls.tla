----------------------------- MODULE MCLiteTls -----------------------------
(***************************************************************************)
(* Instances of LiteTls for TLC: sets of scripts for user and target.      *)
(***************************************************************************)
EXTENDS LiteTls

\* Sequences over S of length lo..hi.
SeqsOf(S, lo, hi) == UNION {[1..n -> S] : n \in lo..hi}

\* A user that opens a TLS session, then sends up to 3 records.
TlsUser == {<<"0x16">> \o s : s \in SeqsOf({"0x16", "0x17"}, 0, 3)}

\* A target that answers with up to 2 records.
BriefTlsTarget == SeqsOf({"0x16", "0x17"}, 1, 2)

\* Another protocol from the first byte on.
PlainUser == {<<"other">> \o s : s \in SeqsOf({"0x16", "0x17", "other"}, 0, 1)}

\* Both kinds of user.
AnyUser == TlsUser \cup PlainUser

\* The shortest sessions with a record on either side of the switch, for reads and
\* writes that may be cut anywhere: the target ends its handshake before it sends
\* application data, or has a second record of that, which may leave the tunnel in
\* the clear while the client is still in TLS.
CutUser == {<<"0x16", "0x17">>}
CutTarget == {<<"0x16", "0x17">>, <<"0x17", "0x17">>}

\* One TLS session, short.
ShortTlsUser == {<<"0x16", "0x17">>, <<"0x16", "0x16", "0x17">>}
ShortTlsTarget == {<<"0x16", "0x17">>, <<"0x17", "0x17">>, <<"0x16">>}
=============================================================================

-------------------------- MODULE MCQuicConnection --------------------------
(***************************************************************************)
(* Instances of QuicConnection for TLC: the daemons of the two listeners.  *)
(***************************************************************************)
EXTENDS QuicConnection

CONSTANTS http, socks5

BothDaemons == {http, socks5}
OneDaemon == {http}
=============================================================================

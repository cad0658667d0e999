--------------------------- MODULE MCDnsResolver ---------------------------
(***************************************************************************)
(* The instance of DnsResolver for TLC.                                    *)
(***************************************************************************)
EXTENDS DnsResolver

OneHost == {"example"}
FewQueries == 1..3
=============================================================================

--------------------------- MODULE MCSocksReceiver ---------------------------
(***************************************************************************)
(* SocksReceiver for TLC: three streamhosts, so that one that fails leaves *)
(* two that were stopped to race again, and a file that takes several      *)
(* reads.                                                                  *)
(***************************************************************************)
EXTENDS SocksReceiver

ThreeHosts == <<"direct", "added", "proxy">>
TwoHosts == <<"direct", "proxy">>
Refused == {"refused"}

=============================================================================

--------------------------- MODULE MCNetworkShard ---------------------------
(* One player for checking NetworkShard: what is checked is about links.   *)
EXTENDS NetworkShard

CONSTANT u

OnePlayer == {u}
=============================================================================

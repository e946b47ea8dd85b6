--------------------------- MODULE MCGateSessions ---------------------------
(* Model values for checking GateSessions.  One session is enough: no two  *)
(* sessions have a uid in common, so that they share only the turn of the  *)
(* shards; replies reach it from its own shard and from the other one.     *)
EXTENDS GateSessions, TLC

CONSTANTS s1, a1, a2

MCSessions == {s1}
MCAccounts == {a1, a2}
=============================================================================

---------------------------- MODULE MCDungeonRoom ----------------------------
(* One battle of two players for TLC.                                      *)
EXTENDS DungeonRoom

CONSTANTS p1, p2

MCUids == {p1, p2}
MCTeam == (p1 :> 0) @@ (p2 :> 1)
OneField == (p1 :> <<[raw |-> "wood", amount |-> 3]>>) @@ (p2 :> <<>>)
NoFields == (p1 :> <<>>) @@ (p2 :> <<>>)
MCPrices == [t \in BuildingTypes |-> IF t = "crystal" THEN 0 ELSE 1]
Plain(types) == {<<t, "">> : t \in types}
\* Both sides fight, and one trains a second or a third villager meanwhile.
BattleOrders == (p1 :> Plain({"Attack"}) \cup {<<"Train", "villager">>})
                @@ (p2 :> Plain({"Attack"}))
\* Both sides' workers gather, put down and take from one field; one side moves
\* and builds as well.
EconomyOrders == (p1 :> Plain({"Move", "Stop", "Harvest", "Store", "Pickup", "Construct"})
                        \cup {<<"Build", "camp">>})
                 @@ (p2 :> Plain({"Harvest", "Stop", "Pickup"}))
\* No action reads sent.
RoomView == <<world, phase, todo, pending, frame, server_tick, game_over, clientVars, commands>>
=============================================================================

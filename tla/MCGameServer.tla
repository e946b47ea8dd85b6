---------------------------- MODULE MCGameServer ----------------------------
(* Two shards, whose first rooms have the ids 2 and 3, and small sets of   *)
(* requests for checking GameServer.                                       *)
EXTENDS GameServer, TLC

CONSTANTS a, b, d, s1, s2, l1, l2, n1, n2

\* One session each.
TwoUids == {a, b}
TwoSessionOf == a :> s1 @@ b :> s2

\* The first session may log in as a, as b, or as one after the other.
ThreeUids == {a, b, d}
ThreeSessionOf == a :> s1 @@ b :> s1 @@ d :> s2

MCSessions == {s1, s2}
OneLink == {l1}
TwoLinks == {l1, l2}
MCNetShards == {n1, n2}
MCNetShardOf == l1 :> n1 @@ l2 :> n2
OneNetShardOf == l1 :> n1

Req(msg, room, arg) == [msg |-> msg, room |-> room, arg |-> arg, ok |-> TRUE]
Malformed(msg, room) == [msg |-> msg, room |-> room, arg |-> 1, ok |-> FALSE]

\* Who makes rooms, and who asks for the rooms of either shard.
RoutingRequests ==
    {Req("CreateRoomReq", 0, 1), Req("JoinRoomReq", 2, 0), Malformed("LeaveRoomReq", 3)}

\* One request of every kind, about the first room of shard 0.
EveryRequest ==
    {Req("CreateRoomReq", 0, 2), Req("JoinRoomReq", 2, 0), Req("LeaveRoomReq", 2, 0),
     Req("PlayerReadyReq", 2, 1), Req("EnterBattleReq", 2, 0),
     Req("MoveCmd", 2, 0), Req("SkillCmd", 2, 0), Malformed("MoveCmd", 2)}

CreateOnly == {Req("CreateRoomReq", 0, 2)}

\* No action reads sent or told.
GSView ==
    <<rooms, uid_to_room, uid_route, next_room_id,
      client, bound, requests, logins, state, link, fanout, next_logic_idx, mailbox>>
\* A client is swapped with its session.
ClientSymmetry == {a :> b @@ b :> a @@ s1 :> s2 @@ s2 :> s1}
=============================================================================

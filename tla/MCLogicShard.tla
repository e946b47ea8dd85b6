---------------------------- MODULE MCLogicShard ----------------------------
(* Model values and symmetry for checking LogicShard.                      *)
EXTENDS LogicShard, TLC

CONSTANTS a, b, c, link

MCUids == {a, b, c}
MCRoutes == {link}
\* No action reads sent, so two states that differ in it have the same future;
\* TLC evaluates the action properties on every step it generates.
LogicView == <<rooms, uid_to_room, uid_route, next_room_id>>
UidSymmetry == Permutations(MCUids)
=============================================================================

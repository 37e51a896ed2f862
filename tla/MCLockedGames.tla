---------------------------- MODULE MCLockedGames ----------------------------
(* ann and bob, both near the rating floor, play one game after the other in a  *)
(* room, with three handlers that may end a game; bob also has a game with a    *)
(* strong user whose settlement is still under way.                             *)
EXTENDS LockedGames, TLC

CONSTANTS ann, bob, cyd, g1, g2, g3, g4, x, y

AllRooms == [g \in Finished |-> IF g = g4 THEN y ELSE x]
Seat0 == [g \in Finished |-> IF g = g4 THEN cyd ELSE ann]
Seat1 == [g \in Finished |-> bob]
HandlerSymmetry == Permutations({g1, g2, g3})
Ratings == [u \in Users |-> IF u = cyd THEN 1000 ELSE 110]
=============================================================================

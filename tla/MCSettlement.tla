---------------------------- MODULE MCSettlement ----------------------------
(* Three games among three users: ann and bob, both near the rating floor, play  *)
(* twice at the same time, in exchanged seats, and bob plays a strong user.      *)
EXTENDS Settlement

CONSTANTS ann, bob, cyd, g1, g2, g3

Seat0 == [g \in Finished |-> IF g = g1 THEN ann ELSE bob]
Seat1 == [g \in Finished |-> IF g = g1 THEN bob ELSE IF g = g2 THEN ann ELSE cyd]
Ratings == [u \in Users |-> IF u = cyd THEN 1000 ELSE 110]
=============================================================================

---------------------------- MODULE MCMatchmaking ----------------------------
(* Instances of Matchmaking for TLC. *)
EXTENDS Matchmaking

CONSTANTS c1, c2, i1, i2, r1, r2

OneInstance == [c \in Clients |-> i1]
TwoInstances == [c \in Clients |-> IF c = c2 THEN i2 ELSE i1]
=============================================================================

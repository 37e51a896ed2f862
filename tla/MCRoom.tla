------------------------------- MODULE MCRoom -------------------------------
(* Instances of Room for TLC: one server process, or two of them.              *)
EXTENDS Room, TLC

CONSTANTS c1, c2, c3, i1, i2, r1, r2

OneInstance == [c \in Clients |-> i1]
TwoInstances == [c \in Clients |-> IF c = c2 THEN i2 ELSE i1]

AnyOrder == Permutations(Clients)
OthersOrder == Permutations(Clients \ {c2})
=============================================================================

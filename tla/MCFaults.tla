------------------------------- MODULE MCFaults -------------------------------
(* Instances of Faults for TLC. *)
EXTENDS Faults, TLC

CONSTANTS c1, c2, i1, i2, r1, r2

TwoInstances == [c \in Clients |-> IF c = c2 THEN i2 ELSE i1]
CodeSymmetry == Permutations(Codes)
=============================================================================

-------------------------------- MODULE MCApp --------------------------------
(* Instances of App for TLC: the games at one screen on one small board, or on the server. *)
EXTENDS App

OneDeal == {[c \in Cells |-> IF (c[1] + c[2]) % 3 = 0 THEN 2
                             ELSE IF c[2] = 1 /\ c[1] = 1 THEN 3 ELSE 1]}
=============================================================================

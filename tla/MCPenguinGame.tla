--------------------------- MODULE MCPenguinGame ---------------------------
(* A small board for the game of two players: rows of 3, 2 and 3 tiles.        *)
EXTENDS Computer

\* Two shuffles of a bag of 1, 2 and 3 fish: the 2 in a corner, the 3 on the edge or
\* in the middle.
CornerDeals ==
    {fish \in Deals(<<6, 1, 1>>) : fish[<<0, 0>>] = 2 /\ 3 \in {fish[<<1, 0>>], fish[<<1, 1>>]}}
=============================================================================

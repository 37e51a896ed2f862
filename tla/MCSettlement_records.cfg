SPECIFICATION Spec
CONSTANTS
    ann = ann
    bob = bob
    cyd = cyd
    g1 = g1
    g2 = g2
    g3 = g3
    Users = {ann, bob, cyd}
    Finished = {g1, g2, g3}
    Player0 <- Seat0
    Player1 <- Seat1
    Standing <- Ratings
CHECK_DEADLOCK FALSE
INVARIANTS RecordsMatchHistory

SPECIFICATION LockedSpec
CONSTANTS
    ann = ann
    bob = bob
    cyd = cyd
    g1 = g1
    g2 = g2
    g3 = g3
    g4 = g4
    x = x
    y = y
    Nobody = Nobody
    Users = {ann, bob, cyd}
    Finished = {g1, g2, g3, g4}
    Player0 <- Seat0
    Player1 <- Seat1
    Standing <- Ratings
    Rooms = {x, y}
    RoomOf <- AllRooms
SYMMETRY HandlerSymmetry
CHECK_DEADLOCK FALSE
INVARIANTS WinsMatchHistory RatingsAddUp GamesAreSettledOnce SettledGamesAreOver

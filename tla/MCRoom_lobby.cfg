SPECIFICATION Spec
CONSTANTS
    c1 = c1
    c2 = c2
    c3 = c3
    i1 = i1
    i2 = i2
    r1 = r1
    r2 = r2
    Nobody = Nobody
    NoCode = NoCode
    Clients = {c1, c2, c3}
    Instances = {i1, i2}
    Host <- TwoInstances
    Codes = {r1}
    Modes = {"pvp"}
    Commands = {"ready", "unready", "start"}
    Failing = {c1, c2, c3}
    MaxPlies = 1
    MaxQueue = 2
    MaxTasks = 1
SYMMETRY OthersOrder
INVARIANTS BoundClientsAreSeated RunningGamesAreAgreed LocalMatchesMember NobodyStranded
CHECK_DEADLOCK FALSE

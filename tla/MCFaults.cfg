SPECIFICATION FaultSpec
CONSTANTS
    c1 = c1
    c2 = c2
    i1 = i1
    i2 = i2
    r1 = r1
    r2 = r2
    Nobody = Nobody
    NoCode = NoCode
    Clients = {c1, c2}
    Instances = {i1, i2}
    Host <- TwoInstances
    Codes = {r1, r2}
    Modes = {"pvp"}
    Commands = {}
    Failing = {}
    MaxPlies = 1
    MaxQueue = 2
    MaxTasks = 1
    Rounds = 1
    MaxRechecks = 1
    Faulty = {i2}
    MaxFaults = 1
INVARIANTS WaiterIsNotForgotten NobodyIsPairedTwice CloseLeavesNothing RoomsAreOwned
CHECK_DEADLOCK FALSE
SYMMETRY CodeSymmetry

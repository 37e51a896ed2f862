SPECIFICATION MatchSpec
CONSTANTS
    c1 = c1
    c2 = c2
    i1 = i1
    i2 = i2
    r1 = r1
    r2 = r2
    Nobody = Nobody
    NoCode = NoCode
    Clients = {c1, c2}
    Instances = {i1}
    Host <- OneInstance
    Codes = {r1}
    Modes = {}
    Commands = {}
    Failing = {c1, c2}
    MaxPlies = 1
    MaxQueue = 2
    MaxTasks = 1
    Rounds = 2
    MaxRechecks = 1
INVARIANTS QueueIsCleaned
CHECK_DEADLOCK FALSE

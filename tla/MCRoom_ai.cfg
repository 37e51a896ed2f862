SPECIFICATION FairSpec
CONSTANTS
    c1 = c1
    c2 = c2
    c3 = c3
    i1 = i1
    i2 = i2
    r1 = r1
    r2 = r2
    Nobody = Nobody
    NoCode = NoCode
    Clients = {c1}
    Instances = {i1}
    Host <- OneInstance
    Codes = {r1}
    Modes = {"ai"}
    Commands = {"move", "resign", "rematch"}
    Failing = {c1}
    MaxPlies = 3
    MaxQueue = 2
    MaxTasks = 2
INVARIANTS TypeOK
PROPERTIES AiAnswers
CHECK_DEADLOCK FALSE

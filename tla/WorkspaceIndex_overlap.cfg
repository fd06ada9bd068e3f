SPECIFICATION IndexSpec
CONSTANTS
    Paths = {p1, p2}
    Concurrency = 2
    Jobs = {1, 2, 3}
    MaxVersion = 1
    MaxEvents = 3
    Torn = Torn
    Nobody = Nobody
INVARIANTS
    IndexCurrent
CHECK_DEADLOCK FALSE

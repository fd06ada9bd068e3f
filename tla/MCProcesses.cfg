SPECIFICATION BenchSpec
CONSTANTS
    Procs = {p1, p2}
    Calls = {c1, c2}
    Actors = {a1, a2}
    Workspaces = {w1, w2}
    None = None
INVARIANTS
    ServiceTypeOK
    KilledOnce
    ServedNoStrayTimer
PROPERTIES
    TerminalIsFinal
    ServedOnlyOwnerStops
    RecordsEndOwned
CHECK_DEADLOCK FALSE

SPECIFICATION BenchSpec
CONSTANTS
    Clients = {c1, c2}
    Workspaces = {w1, w2}
    Ports = {p1, p2}
    None = None
    MachineRoot = w1
    Drives = {w2}
    MaxRequests = 3
    MaxLaunches = 2
    Pages = {p}
    OtherPages = {q}
    MaxChanges = 2
    MaxReads = 1
    MaxFailures = 1
    Nothing = Nothing
INVARIANTS
    MainTypeOK
    EndpointHeld
    SelectionServed
    AppSound
PROPERTIES
    AnswersTrue
    ImplementsEndpoint
    DesktopAnswers
CHECK_DEADLOCK FALSE

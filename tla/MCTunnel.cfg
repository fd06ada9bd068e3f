SPECIFICATION BenchSpec
CONSTANTS
    Delay = 1
    MaxDelay = 10
    Window = 10
    MaxRestarts = 5
    LaunchErrors = TRUE
    MayExit = TRUE
    Calls = {c1, c2}
    Children = {k1, k2}
    None = None
INVARIANTS
    TunnelTypeOK
    ReconnectUntilStopped
PROPERTIES
    ExitLeadsToRestart
    StopOutlivesReconnect
    StartingEnds
CHECK_DEADLOCK FALSE

SPECIFICATION Spec
CONSTANTS
    Delay = 1
    MaxDelay = 10
    Window = 10
    MaxRestarts = 5
    LaunchErrors = FALSE
    MayExit = TRUE
INVARIANTS
    ReconnectsBounded

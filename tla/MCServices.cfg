SPECIFICATION BenchSpec
CONSTANTS
 Calls = {c1, c2, c3}
 MaxSessions = 2
 CallTimeout = 1
 IdleTimeout = 2
 Callers = {r1, r2}
 Tasks = {t1}
 Owners = {o1}
 MaxSeconds = 2
 WaitTimes = {1}
 AutoWait = 1
 Tabs = {b1}
 MaxAsked = 2
 TaskNames = {n1}
 MaxBytes = 1
 MaxBody = 2
 Workspaces = {w1, w2}
 Screens <- SomeScreens
 MaxMarks = 1
 Ttl = 1
 MaxTime = 1
 Requests <- FourRequests
 Settings = {"balanced", "full"}
 MaxFailures = 1
 Nothing = Nothing
INVARIANTS
 ServicesTypeOK
 SessionsSound
 CallsSound
 BackendsSound
PROPERTIES
 CapabilityAnswersTrue
 ServicesAnswer
CHECK_DEADLOCK FALSE

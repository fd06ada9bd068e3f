------------------------------ MODULE MCServices ------------------------------
(***************************************************************************)
(* One behaviour exercises the calls of the tools or one of the services   *)
(* behind them: the child MCP servers, the shell and WSL tasks, the        *)
(* browser, the other capability backends, or the marked screen.  `focus`  *)
(* says which.  They share no state, so the others stay as they were       *)
(* created.                                                                *)
(***************************************************************************)
EXTENDS McpSessions

CONSTANTS Callers,                                          \* requests of the other services
          Tasks, Owners, MaxSeconds, WaitTimes, AutoWait,   \* ShellTasks
          Tabs, MaxAsked,                                   \* BrowserSession, Capabilities
          TaskNames, MaxBytes, MaxBody,                     \* Capabilities
          Workspaces, Screens, MaxMarks, Ttl, MaxTime,      \* MarkedActions
          Requests, Settings, MaxFailures, Nothing          \* ToolCalls

(* A wait and a run last as long as the parsers of the requests allow.     *)
ASSUME ServicesAssumption ==
    /\ MaxSeconds \in Nat \ {0} /\ WaitTimes \subseteq 1..MaxSeconds /\ AutoWait \in 0..MaxSeconds
    /\ MaxBytes \in Nat /\ MaxBody \in Nat /\ MaxAsked \in Nat
    /\ MaxMarks \in Nat /\ Ttl \in Nat /\ MaxTime \in Nat
    /\ Settings \subseteq {"safe", "custom", "balanced", "full"}
    /\ Nothing # "REFUSED" /\ Callers # {}
ASSUME ScreensAssumption == \A s \in Screens : s \in Seq({s[i] : i \in DOMAIN s})

VARIABLES focus,
          state, kills, owner, timers, request, early,
          chrome, tabs, browsing, sockets, results, answers, browsed,
          asking, scheduled, answer, asked,
          screen, observations, marking, time, used, acts, sent,
          profile, handled, inflight, log, beat, failed, under

tasksVars == <<state, kills, owner, timers, request, early>>
browserVars == <<chrome, tabs, browsing, sockets, results, answers, browsed>>
backendVars == <<asking, scheduled, answer, asked>>
marksVars == <<screen, observations, marking, time, used, acts, sent>>
toolVars == <<profile, handled, inflight, log, beat, failed, under>>
servicesVars == <<tasksVars, browserVars, backendVars, marksVars>>
benchVars == <<focus, vars, servicesVars, toolVars>>

T == INSTANCE ShellTasks WITH Calls <- Callers
B == INSTANCE BrowserSession WITH
        Calls <- Callers, call <- browsing, asked <- browsed,
        StepLists <- {<<"launch", "evaluate">>, <<"wait", "new_tab">>,
                      <<"status", "close_tab">>, <<"list_tabs">>}
K == INSTANCE Capabilities WITH Calls <- Callers, call <- asking
M == INSTANCE MarkedActions WITH
        Calls <- {CHOOSE c \in Callers : TRUE}, call <- marking, MaxObserved <- 1, MaxActs <- 1

C == INSTANCE ToolCalls WITH Calls <- Callers, call <- handled, Sinks <- <<"audit", "file">>

BenchInit ==
    /\ focus \in {"sessions", "tasks", "browser", "backends", "marks", "tools"}
    /\ C!CallsInit /\ (focus # "tools" => profile = "full")
    /\ Init /\ T!Init /\ B!Init /\ K!Init
    /\ M!Init /\ (focus # "marks" => screen = <<>>)

SessionsStep == focus = "sessions" /\ Next /\ UNCHANGED <<focus, servicesVars, toolVars>>
TasksStep == focus = "tasks" /\ T!Next /\ UNCHANGED <<focus, vars, browserVars, backendVars, marksVars, toolVars>>
BrowserStep == focus = "browser" /\ B!Next /\ UNCHANGED <<focus, vars, tasksVars, backendVars, marksVars, toolVars>>
BackendStep == focus = "backends" /\ K!Next /\ UNCHANGED <<focus, vars, tasksVars, browserVars, marksVars, toolVars>>
MarksStep == focus = "marks" /\ M!Next /\ UNCHANGED <<focus, vars, tasksVars, browserVars, backendVars, toolVars>>
ToolsStep == focus = "tools" /\ C!CallsNext /\ UNCHANGED <<focus, vars, servicesVars>>

BenchNext == SessionsStep \/ TasksStep \/ BrowserStep \/ BackendStep \/ MarksStep \/ ToolsStep

BenchSpec ==
    /\ BenchInit /\ [][BenchNext]_benchVars
    /\ Fairness /\ T!Fairness /\ B!Fairness /\ K!Fairness /\ C!CallsFairness

-----------------------------------------------------------------------------
(* Every service keeps its variables in their types.                       *)
ServicesTypeOK ==
    CASE focus = "sessions" -> TypeOK
      [] focus = "tasks" -> T!TasksTypeOK
      [] focus = "browser" -> B!TypeOK
      [] focus = "backends" -> K!TypeOK
      [] focus = "marks" -> M!TypeOK
      [] focus = "tools" -> C!CallsTypeOK

(* McpSessions: the sweep closes no session under a call, and every child  *)
(* that is up can be reached by drop, sweep or close.                      *)
SessionsSound == focus = "sessions" => SweepSparesCalls /\ ChildInMap

(* ToolCalls: a call runs only if the profile of that moment allows it and *)
(* it is confirmed where it is known to destroy, the logs tell of it once, *)
(* and no timer outlives it.                                               *)
CallsSound == focus = "tools" => C!CallsSound

(* ShellTasks: a foreground run waits for its end, and a tree is killed    *)
(* exactly when the record says so.  Capabilities: one task per name.      *)
(* BrowserSession and MarkedActions: what a request was told of its steps  *)
(* is so, no socket outlives its step, and an action lands on a control    *)
(* with the name or the automation id of the mark that was asked for.      *)
BackendsSound ==
    CASE focus = "tasks" -> T!ForegroundEnds /\ T!KilledWhenEnded
      [] focus = "browser" -> B!BrowserSound
      [] focus = "backends" -> K!OneTaskPerName
      [] focus = "marks" -> M!ActionsSound
      [] OTHER -> TRUE

(* Capabilities: a call that timed out says so, a fetch that was cut too.  *)
CapabilityAnswersTrue == K!CapabilityAnswersTrue

(* Requests are answered as far as the code can see to it: where a system  *)
(* tool without a time limit or a child that cannot be killed has the word,*)
(* they are brought as far as that (Capabilities, ShellTasks, ToolCalls).  *)
ServicesAnswer ==
    CallsAnswered /\ T!RequestsAnswered /\ B!BrowserAnswers /\ K!CapabilitiesAnswer /\ C!CallsAnswered

-----------------------------------------------------------------------------
(* What the clients of the run ask of the tools: a program that deletes,   *)
(* confirmed; a git command that deletes, not confirmed; no tool at all;   *)
(* and a batch with a confirmed deletion, a file it writes and two         *)
(* commands nobody confirmed, which the policy overlooks.                  *)
Input(program, args, dashed, words) ==
    [dry |-> FALSE, runs |-> TRUE, program |-> program, args |-> args, dashed |-> dashed, words |-> words]
Asking(name, input, confirmed, children) ==
    [name |-> name, valid |-> name # "format_disk", confirmed |-> confirmed, children |-> children, input |-> input]
Plain == Input("", <<>>, {}, {})
FourRequests ==
    {Asking("format_disk", Plain, FALSE, {}),
     Asking("process_start", Input("rm", <<>>, {}, {}), TRUE, {}),
     Asking("git", Input("git", <<"--no-pager", "stash", "drop">>, {"--no-pager"}, {}), FALSE, {}),
     Asking("tool_batch", Plain, FALSE,
            {Asking("delete_file", Plain, TRUE, {}),
             Asking("write_file", Input("", <<>>, {}, {"text"}), FALSE, {}),
             Asking("git", Input("git", <<"-C", "dir", "reset", "--hard">>, {"-C", "--hard"}, {}), FALSE, {}),
             Asking("shell", Input("pwsh", <<"git", "rm", "a">>, {}, {}), FALSE, {})})}

(* What the screen of the run may show: no window; a window that can be    *)
(* acted on, with a control of its name; or one that cannot, with at most  *)
(* two controls, of which two bear one automation id and one no name.      *)
Control(name, id, enabled) == [name |-> name, id |-> id, enabled |-> enabled]
Save == Control("Save", "a", TRUE)
ThreeControls == {Save, Control("Open", "b", FALSE), Control("", "a", TRUE)}
SomeScreens ==
    {<<>>, <<Control("Save", "", TRUE), Save>>} \union
    {<<Control("Main", "m", FALSE)>> \o s : s \in UNION {[1..n -> ThreeControls] : n \in 0..2}}
=============================================================================

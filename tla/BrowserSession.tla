---------------------------- MODULE BrowserSession ----------------------------
(***************************************************************************)
(* The DOM capability: BrowserCdpBackend over NodeBrowserCdpProtocol       *)
(* (packages/capabilities/src/browser-cdp-backend.ts, -protocol.ts).  A    *)
(* request is a list of steps, run until one fails; a step lists the tabs  *)
(* of Chrome, lists them again when it sends, and then waits on a web      *)
(* socket of its own for one message, an error, or its timer.  Chrome and  *)
(* its tabs come and go between any two of these.  Time is two facts: the  *)
(* timer of a socket may fire, and the deadline of a wait or a launch may  *)
(* pass, at any moment.                                                    *)
(***************************************************************************)
EXTENDS Naturals, Sequences, FiniteSets

CONSTANTS Calls,     \* requests that may be under way at a time
          Tabs,      \* bound: tabs that may be open at a time
          StepLists, \* what requests ask for: sequences of Steps
          MaxAsked   \* bound: requests in a behaviour

VARIABLES chrome,  \* the browser behind the debugging port
          tabs,    \* its tabs
          call,    \* what each request still has to do and waits for
          sockets, \* the web sockets that are open, with their tab
          results, \* history: how each step of a request ended
          answers, \* history: how each request was answered last
          asked

vars == <<chrome, tabs, call, sockets, results, answers, asked>>

Steps == {"launch", "status", "list_tabs", "new_tab", "close_tab", "evaluate", "wait"}
AnyTab == "any tab"
Idle == [at |-> "idle", steps |-> <<>>, tab |-> AnyTab, on |-> AnyTab, late |-> FALSE]

TypeOK ==
    /\ chrome \in {"down", "starting", "up"}
    /\ tabs \subseteq Tabs /\ (tabs # {} => chrome = "up")
    /\ \A c \in Calls : /\ call[c].at \in {"idle", "http", "probing", "starting", "listing",
                                           "relisting", "socket", "delay"}
                        /\ \A i \in DOMAIN call[c].steps : call[c].steps[i] \in Steps
                        /\ (call[c].at = "idle") <=> (call[c].steps = <<>>)
    /\ sockets \subseteq Calls \X Tabs /\ asked \in 0..MaxAsked

Init ==
    /\ chrome = "down" /\ tabs = {} /\ sockets = {} /\ asked = 0
    /\ call = [c \in Calls |-> Idle]
    /\ results = [c \in Calls |-> <<>>] /\ answers = [c \in Calls |-> "none"]

-----------------------------------------------------------------------------
At(c, place) == call[c].at = place
Step(c) == Head(call[c].steps)

(* executeAction up to its first await.                                    *)
FirstAwait(step) ==
    CASE step = "launch" -> "probing"
      [] step \in {"evaluate", "wait"} -> "listing"
      [] OTHER -> "http"

Ends(c, answer) ==
    /\ call' = [call EXCEPT ![c] = Idle]
    /\ answers' = [answers EXCEPT ![c] = answer]

(* executeSteps: the next step, or the answer.                             *)
Succeeds(c) ==
    /\ results' = [results EXCEPT ![c] = Append(@, "ok")]
    /\ IF Len(call[c].steps) = 1 THEN Ends(c, "ok")
       ELSE /\ call' = [call EXCEPT ![c] = [call[c] EXCEPT !.steps = Tail(call[c].steps), !.late = FALSE,
                                                           !.at = FirstAwait(call[c].steps[2])]]
            /\ UNCHANGED answers

(* An error, returned or thrown, ends the request.                         *)
Fails(c) ==
    /\ results' = [results EXCEPT ![c] = Append(@, "failed")]
    /\ Ends(c, "failed")

Goes(c, place) ==
    /\ call' = [call EXCEPT ![c].at = place]
    /\ UNCHANGED <<results, answers>>

Execute(c, steps, tab) ==
    /\ At(c, "idle") /\ asked < MaxAsked /\ asked' = asked + 1
    /\ call' = [call EXCEPT ![c] = [Idle EXCEPT !.at = FirstAwait(steps[1]), !.steps = steps, !.tab = tab]]
    /\ results' = [results EXCEPT ![c] = <<>>] /\ answers' = [answers EXCEPT ![c] = "none"]
    /\ UNCHANGED <<chrome, tabs, sockets>>

(* status, listTabs, newTab and closeTab: all but the first throw where    *)
(* the connection breaks or the answer is no good.                         *)
Http(c) ==
    /\ At(c, "http")
    /\ IF chrome # "up" THEN (IF Step(c) = "status" THEN Succeeds(c) ELSE Fails(c)) /\ UNCHANGED tabs
       ELSE CASE Step(c) = "new_tab" ->
                    \/ \E t \in Tabs \ tabs : tabs' = tabs \union {t} /\ Succeeds(c)
                    \/ Fails(c) /\ UNCHANGED tabs
              [] Step(c) = "close_tab" ->
                    IF call[c].tab = AnyTab THEN Fails(c) /\ UNCHANGED tabs
                    ELSE \/ tabs' = tabs \ {call[c].tab} /\ Succeeds(c)
                         \/ Fails(c) /\ UNCHANGED tabs
              [] OTHER -> (Succeeds(c) \/ (Step(c) = "list_tabs" /\ Fails(c))) /\ UNCHANGED tabs
    /\ UNCHANGED <<chrome, sockets, asked>>

(* launch: a browser that is there is used; one that is not is started, by *)
(* every launch that finds none.  A program that cannot be run is left out:*)
(* nothing listens for the error of the child, which then ends the server. *)
Launch(c) ==
    /\ At(c, "probing")
    /\ \/ chrome = "up" /\ Succeeds(c) /\ UNCHANGED chrome
       \/ chrome # "up" /\ Fails(c) /\ UNCHANGED chrome
       \/ chrome # "up" /\ Goes(c, "starting") /\ chrome' = "starting"
    /\ UNCHANGED <<tabs, sockets, asked>>

LaunchPolls(c) ==
    /\ At(c, "starting")
    /\ \/ chrome = "up" /\ Succeeds(c)
       \/ call[c].late /\ Fails(c)
    /\ UNCHANGED <<chrome, tabs, sockets, asked>>

(* withTab: the tab that was named, or the first; it fails where there is  *)
(* none, and where listTabs throws.                                        *)
WithTab(c) ==
    /\ At(c, "listing")
    /\ \/ \E t \in tabs : /\ call[c].tab \in {AnyTab, t}
                          /\ call' = [call EXCEPT ![c] = [@ EXCEPT !.at = "relisting", !.on = t]]
                          /\ UNCHANGED <<results, answers>>
       \/ Fails(c)
    /\ UNCHANGED <<chrome, tabs, sockets, asked>>

(* request: the tab must still be there; a socket is opened to it.         *)
Send(c) ==
    /\ At(c, "relisting")
    /\ \/ call[c].on \in tabs /\ Goes(c, "socket") /\ sockets' = sockets \union {<<c, call[c].on>>}
       \/ Fails(c) /\ UNCHANGED sockets
    /\ UNCHANGED <<chrome, tabs, asked>>

Closed(c) == sockets' = {s \in sockets : s[1] # c}

(* The message with the id of the request.  A wait that reads anything but *)
(* true polls again.                                                       *)
Reply(c) ==
    /\ At(c, "socket") /\ call[c].on \in tabs
    /\ Closed(c)
    /\ Succeeds(c) \/ (Step(c) = "wait" /\ Goes(c, "delay"))
    /\ UNCHANGED <<chrome, tabs, asked>>

(* The error event, or the timer; a socket that Chrome closes says nothing.*)
SocketFails(c) ==
    /\ At(c, "socket")
    /\ Closed(c) /\ Fails(c)
    /\ UNCHANGED <<chrome, tabs, asked>>

Poll(c) ==
    /\ At(c, "delay")
    /\ IF call[c].late THEN Succeeds(c) ELSE Goes(c, "listing")
    /\ UNCHANGED <<chrome, tabs, sockets, asked>>

DeadlinePasses(c) ==
    /\ ~At(c, "idle") /\ Step(c) \in {"launch", "wait"} /\ ~call[c].late
    /\ call' = [call EXCEPT ![c].late = TRUE]
    /\ UNCHANGED <<chrome, tabs, sockets, results, answers, asked>>

ChromeComesUp ==
    /\ chrome = "starting" /\ chrome' = "up"
    /\ \E t \in Tabs : tabs' = {t}
    /\ UNCHANGED <<call, sockets, results, answers, asked>>

ChromeEnds ==
    /\ chrome # "down" /\ chrome' = "down" /\ tabs' = {}
    /\ UNCHANGED <<call, sockets, results, answers, asked>>

TabCloses ==
    /\ \E t \in tabs : tabs' = tabs \ {t}
    /\ UNCHANGED <<chrome, call, sockets, results, answers, asked>>

-----------------------------------------------------------------------------
Work(c) == Http(c) \/ Launch(c) \/ LaunchPolls(c) \/ WithTab(c) \/ Send(c) \/ Poll(c)
Next ==
    \/ \E c \in Calls :
          \/ \E steps \in StepLists, tab \in Tabs \union {AnyTab} : Execute(c, steps, tab)
          \/ Work(c) \/ Reply(c) \/ SocketFails(c) \/ DeadlinePasses(c)
    \/ ChromeComesUp \/ ChromeEnds \/ TabCloses

(* A request over http ends within the limits that fetch itself sets,      *)
(* timers fire and deadlines pass; Chrome itself owes nothing.             *)
Fairness == \A c \in Calls :
    WF_vars(Work(c)) /\ WF_vars(SocketFails(c)) /\ WF_vars(DeadlinePasses(c))

Spec == Init /\ [][Next]_vars
FairSpec == Spec /\ Fairness

-----------------------------------------------------------------------------
(* A request is answered "ok" only when every step was, nothing is done    *)
(* after a step that failed (backend 57-65), and whichever of message,     *)
(* error and timer comes, the socket of a request is closed before it goes *)
(* on (protocol 141-157).                                                  *)
BrowserSound == \A c \in Calls :
    /\ \A i \in DOMAIN results[c] : results[c][i] = "failed" => i = Len(results[c]) /\ answers[c] = "failed"
    /\ (\E s \in sockets : s[1] = c) => At(c, "socket")

(* Every request is answered: a socket that Chrome closed ends with the    *)
(* timer (143), a wait and a launch with their deadlines (101, 84).        *)
BrowserAnswers == \A c \in Calls : ~At(c, "idle") ~> At(c, "idle")
=============================================================================

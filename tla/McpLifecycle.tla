---------------------------- MODULE McpLifecycle ----------------------------
(***************************************************************************)
(* DesktopMcpLifecycle (apps/desktop/src/main/mcp-lifecycle.ts): the       *)
(* desktop's owner of the loopback MCP HTTP server.  IPC handlers and the  *)
(* dashboard call start, stop and restart concurrently; each call is a     *)
(* chain of promises, and only two fields (startOperation, stopOperation)  *)
(* keep the chains from overtaking one another.                            *)
(*                                                                         *)
(* A client is one caller of the class.  JavaScript runs one step at a     *)
(* time, so an action is the code between two awaits.  A server is the     *)
(* port it listens on; `open` is the fact about the operating system that  *)
(* the class must keep its fields in agreement with.                       *)
(***************************************************************************)
EXTENDS Naturals, FiniteSets

CONSTANTS Clients,     \* concurrent callers of the lifecycle
          Workspaces,  \* workspace ids a caller may name
          Ports,       \* loopback ports startMcpHttp may bind
          None         \* the JavaScript null

ASSUME NoneAssumption == None \notin Workspaces /\ None \notin Ports

VARIABLES
    handle,       \* handle: the port of the owned server, or None
    workspaceId,  \* workspaceId
    startOp,      \* startOperation and the progress of its startInternal
    stopOp,       \* stopOperation and the progress of its stopInternal
    open,         \* open[p]: the workspace served at p, None if p is closed
    client        \* what each caller is waiting for, and its last answer

vars == <<handle, workspaceId, startOp, stopOp, open, client>>

Idle == [at |-> "none", ws |-> None, port |-> None]

OpenPorts == {p \in Ports : open[p] # None}

Caller == [at : {"idle", "enter", "start", "stop"},
           op : {"start", "stop", "restart"},
           ws : Workspaces \union {None},
           got : {"none", "failed", "stopped", "running"}]

TypeOK ==
    /\ handle \in Ports \union {None}
    /\ workspaceId \in Workspaces \union {None}
    /\ startOp \in [at : {"none", "checking", "listening", "bound",
                          "assigned", "failed"},
                    ws : Workspaces \union {None},
                    port : Ports \union {None}]
    /\ stopOp \in {"none", "awaitStart", "closing", "draining", "done", "failed"}
    /\ open \in [Ports -> Workspaces \union {None}]
    /\ client \in [Clients -> Caller]

Init ==
    /\ handle = None
    /\ workspaceId = None
    /\ startOp = Idle
    /\ stopOp = "none"
    /\ open = [p \in Ports |-> None]
    /\ client = [c \in Clients |->
                    [at |-> "idle", op |-> "stop", ws |-> None, got |-> "none"]]

-----------------------------------------------------------------------------
(* status(): what a caller that asks now is told.                          *)
Status == IF handle = None \/ workspaceId = None THEN "stopped" ELSE "running"

Mut_AnswerWorkspace(c, what) == [client EXCEPT ![c].at = "idle", ![c].got = client[c].ws]
Answer(c, what) == [client EXCEPT ![c].at = "idle", ![c].got = what]

(* A caller makes a call; its first synchronous stretch is Enter*. A start *)
(* may name the empty workspace (None here).                               *)
Invoke(c, op, w) ==
    /\ client[c].at = "idle"
    /\ client' = [client EXCEPT ![c] =
                    [at |-> "enter", op |-> op, ws |-> w, got |-> "none"]]
    /\ UNCHANGED <<handle, workspaceId, startOp, stopOp, open>>

(* The two guards at the head of start().                                  *)
Mut_Never == FALSE
QueuesBehindStop == stopOp # "none"
SharesStart == startOp.at # "none"

(* start(): queue behind a stop, answer from a live handle, share a start  *)
(* under way, or begin one.                                                *)
EnterStart(c) ==
    /\ client[c].at = "enter" /\ client[c].op = "start"
    /\ \/ /\ client[c].ws = None
          /\ client' = Answer(c, "failed")
          /\ UNCHANGED startOp
       \/ /\ client[c].ws # None /\ QueuesBehindStop
          /\ client' = [client EXCEPT ![c].at = "stop"]
          /\ UNCHANGED startOp
       \/ /\ client[c].ws # None /\ ~QueuesBehindStop /\ handle # None
          /\ client' = Answer(c, Status)
          /\ UNCHANGED startOp
       \/ /\ client[c].ws # None /\ ~QueuesBehindStop /\ handle = None
          /\ startOp' = IF SharesStart THEN startOp
                        ELSE [at |-> "checking", ws |-> client[c].ws, port |-> None]
          /\ client' = [client EXCEPT ![c].at = "start"]
    /\ UNCHANGED <<handle, workspaceId, stopOp, open>>

(* stopInternal up to its first await: a start under way is awaited first. *)
CloseOrDone == IF handle = None THEN "done" ELSE "closing"
StopBegins == IF startOp.at # "none" THEN "awaitStart" ELSE CloseOrDone

(* stop(), and the stop half of restart(): share a stop under way or begin *)
(* one.                                                                    *)
EnterStop(c) ==
    /\ client[c].at = "enter" /\ client[c].op \in {"stop", "restart"}
    /\ stopOp' = IF stopOp # "none" THEN stopOp ELSE StopBegins
    /\ client' = [client EXCEPT ![c].at = "stop"]
    /\ UNCHANGED <<handle, workspaceId, startOp, open>>

-----------------------------------------------------------------------------
(* startInternal, one action per await.  Either await may reject.          *)
WorkspaceFound ==
    /\ startOp.at = "checking"
    /\ startOp' = [startOp EXCEPT !.at = "listening"]
    /\ UNCHANGED <<handle, workspaceId, stopOp, open, client>>

StartFails ==
    /\ startOp.at \in {"checking", "listening"}
    /\ startOp' = [startOp EXCEPT !.at = "failed"]
    /\ UNCHANGED <<handle, workspaceId, stopOp, open, client>>

(* startMcpHttp binds the preferred port or, when that one is taken, any   *)
(* free port.                                                              *)
ServerListens(p) ==
    /\ startOp.at = "listening"
    /\ open[p] = None
    /\ open' = [open EXCEPT ![p] = startOp.ws]
    /\ startOp' = [startOp EXCEPT !.at = "bound", !.port = p]
    /\ UNCHANGED <<handle, workspaceId, stopOp, client>>

StartAssigns ==
    /\ startOp.at = "bound"
    /\ handle' = startOp.port
    /\ workspaceId' = startOp.ws
    /\ startOp' = [startOp EXCEPT !.at = "assigned"]
    /\ UNCHANGED <<stopOp, open, client>>

(* What a stopInternal that awaits this start does when it resumes.        *)
StopResumes == IF stopOp = "awaitStart" THEN CloseOrDone ELSE stopOp

(* The shared promise settles: the field is cleared, every caller of start *)
(* that shares it is answered, and a stopInternal that awaited it goes on. *)
StartSettles ==
    /\ startOp.at \in {"assigned", "failed"}
    /\ startOp' = Idle
    /\ stopOp' = StopResumes
    /\ client' = [c \in Clients |->
                    IF client[c].at # "start" THEN client[c]
                    ELSE [client[c] EXCEPT
                            !.at = "idle",
                            !.got = IF startOp.at = "failed" THEN "failed" ELSE Status]]
    /\ UNCHANGED <<handle, workspaceId, open>>

-----------------------------------------------------------------------------
(* handle.close(): first the MCP handler is closed, which may reject with  *)
(* the server untouched; then the server stops listening and its           *)
(* connections drain.                                                      *)
ServerStopsListening ==
    /\ stopOp = "closing"
    /\ open' = [open EXCEPT ![handle] = None]
    /\ stopOp' = "draining"
    /\ UNCHANGED <<handle, workspaceId, startOp, client>>

CloseFails ==
    /\ stopOp = "closing"
    /\ stopOp' = "failed"
    /\ UNCHANGED <<handle, workspaceId, startOp, open, client>>

ServerDrained ==
    /\ stopOp = "draining"
    /\ handle' = None
    /\ workspaceId' = None
    /\ stopOp' = "done"
    /\ UNCHANGED <<startOp, open, client>>

(* The shared stop settles: callers of stop are answered, callers of start *)
(* and restart that queued behind it go on to start(), or fail with it.    *)
StopSettles ==
    /\ stopOp \in {"done", "failed"}
    /\ stopOp' = "none"
    /\ client' = [c \in Clients |->
                    IF client[c].at # "stop" THEN client[c]
                    ELSE IF stopOp = "failed"
                         THEN [client[c] EXCEPT !.at = "idle", !.got = "failed"]
                    ELSE IF client[c].op = "stop"
                         THEN [client[c] EXCEPT !.at = "idle", !.got = Status]
                    ELSE [client[c] EXCEPT !.at = "enter", !.op = "start"]]
    /\ UNCHANGED <<handle, workspaceId, startOp, open>>

-----------------------------------------------------------------------------
(* What goes on once a call has been made.                                 *)
Progress ==
    \/ \E c \in Clients : EnterStart(c) \/ EnterStop(c)
    \/ WorkspaceFound \/ StartFails
    \/ \E p \in Ports : ServerListens(p)
    \/ StartAssigns \/ StartSettles
    \/ ServerStopsListening \/ CloseFails \/ ServerDrained \/ StopSettles

Next ==
    \/ \E c \in Clients, op \in {"start", "stop", "restart"}, w \in Workspaces \union {None} :
          Invoke(c, op, w)
    \/ Progress

(* Every stretch of code that has begun runs, and every await on the       *)
(* operating system is answered; nobody need ever call.                    *)
Fairness ==
    /\ \A c \in Clients : WF_vars(EnterStart(c)) /\ WF_vars(EnterStop(c))
    /\ WF_vars(WorkspaceFound \/ StartFails)
    /\ WF_vars(StartFails \/ \E p \in Ports : ServerListens(p))
    /\ WF_vars(StartAssigns) /\ WF_vars(StartSettles)
    /\ WF_vars(ServerStopsListening \/ CloseFails)
    /\ WF_vars(ServerDrained) /\ WF_vars(StopSettles)

Spec == Init /\ [][Next]_vars
FairSpec == Spec /\ Fairness

-----------------------------------------------------------------------------
(* Whatever the calls and the failures, every listening server is one the  *)
(* lifecycle still has in hand: the handle's, or the one a start in flight *)
(* has just bound and is about to assign.  A server outside this set could *)
(* never be closed.                                                        *)
NoLeakedServer == \A p \in OpenPorts :
    p = handle \/ (startOp.at = "bound" /\ p = startOp.port)

(* The status shown to the user is stale only while a stop drains          *)
(* connections: at any other time "running in w" means that a server for w *)
(* listens at the handle's port.                                           *)
StatusIsLive ==
    (Status = "running" /\ stopOp # "draining") => open[handle] = workspaceId

(* Both: the fields agree with what listens.                               *)
EndpointHeld == NoLeakedServer /\ StatusIsLive

(* A caller that is told "stopped" by stop() is told so at a moment when   *)
(* nothing listens and no start is under way that would bring a server up  *)
(* behind its back.                                                        *)
ToldStoppedWhenClosed == \A c \in Clients :
    (client[c].at # "idle" /\ client'[c].at = "idle" /\ client'[c].got = "stopped")
        => /\ \A p \in Ports : open'[p] = None
           /\ startOp'.at = "none"
StoppedMeansClosed == [][ToldStoppedWhenClosed]_vars

(* A caller that is told "running" by start() is told so while the server  *)
(* still accepts connections, even if a stop is already queued.            *)
ToldRunningWhenOpen == \A c \in Clients :
    (client[c].at # "idle" /\ client'[c].at = "idle" /\ client'[c].got = "running")
        => \E p \in Ports : p = handle' /\ open'[p] # None

(* Both: what a caller is told is true when it is told.                    *)
AnswersTrue == [][ToldStoppedWhenClosed /\ ToldRunningWhenOpen]_vars

(* The lifecycle implements one exclusive endpoint: never two servers, and *)
(* a change of workspace always passes through "nothing listens".          *)
Endpoint == INSTANCE McpEndpoint WITH up <- {<<p, open[p]>> : p \in OpenPorts}
ImplementsEndpoint == Endpoint!Spec
=============================================================================

--------------------------- MODULE DesktopServices ---------------------------
(***************************************************************************)
(* The IPC services of the desktop (apps/desktop/src/main/desktop-services *)
(* .ts) around McpLifecycle: which workspaces are registered, which one is *)
(* selected, and which one is served.  The selection is a stored setting,  *)
(* the served workspace a field of the lifecycle; a request changes the    *)
(* one, then asks for the other, with awaits in between.                   *)
(*                                                                         *)
(* A workspace is named by its root, which the database keeps unique.      *)
(* Every request but a stop first awaits machineRootReady, one promise for *)
(* the life of the process.                                                *)
(***************************************************************************)
EXTENDS McpLifecycle, Sequences, SequencesExt, Selections

CONSTANTS MachineRoot,   \* the drive that machine-root-sync.ts registers
          Drives,        \* registered drives that it prunes
          MaxRequests    \* bound: requests the renderer makes

ASSUME RootsAssumption ==
    MachineRoot \in Workspaces \union {None} /\ Drives \subseteq Workspaces /\ MaxRequests \in Nat

VARIABLES
    registered,   \* the workspaces of the repository, oldest first
    selected,     \* the setting selected_workspace_id, or None
    roots,        \* machineRootReady
    request,      \* what each request of the renderer waits for
    asked,        \* the requests made so far
    strayed       \* history: requests overlapped, one failed, or a start named
                  \* another workspace than the selected one

deskVars == <<registered, selected, roots, request, asked, strayed>>
allVars == <<vars, deskVars>>

Quiet == [op |-> "none", at |-> "idle", ws |-> None]
Ops == {"select", "add", "start", "stop", "restart", "autoStart", "openStart"}

DesktopTypeOK ==
    /\ TypeOK
    /\ ToSet(registered) \subseteq Workspaces /\ IsInjective(registered)
    /\ selected \in Workspaces \union {None}
    /\ roots \in {"untouched", "syncing", "ready", "failed"}
    /\ request \in [Clients -> [op : Ops \union {"none"}, ws : Workspaces \union {None},
                                at : {"idle", "roots", "lookup", "chosen", "mcp"}]]
    /\ asked \in 0..MaxRequests /\ strayed \in BOOLEAN

DesktopInit ==
    /\ Init
    /\ registered \in {<<>>} \union {<<w>> : w \in Workspaces}
    /\ selected = None /\ roots = "untouched"
    /\ request = [c \in Clients |-> Quiet] /\ asked = 0 /\ strayed = FALSE

-----------------------------------------------------------------------------
Goes(c, stage, w) == request' = [request EXCEPT ![c].at = stage, ![c].ws = w]
Ends(c) == request' = [request EXCEPT ![c] = Quiet]
Others(c) == \E d \in Clients \ {c} : request[d] # Quiet

(* A request of the dashboard, or, before any, the start of the            *)
(* application.  A stop goes to the lifecycle at once.                     *)
Ask(c, op, w) ==
    /\ request[c] = Quiet /\ asked < MaxRequests
    /\ op \in {"autoStart", "openStart"} => asked = 0
    /\ asked' = asked + 1
    /\ request' = [request EXCEPT ![c] = [op |-> op, at |-> IF op = "stop" THEN "chosen" ELSE "roots", ws |-> w]]
    /\ roots' = IF op # "stop" /\ roots = "untouched" THEN "syncing" ELSE roots
    /\ strayed' = (strayed \/ Others(c))
    /\ UNCHANGED <<vars, registered, selected>>

(* syncEMachineRoot: other drives go, the machine root comes when it is    *)
(* there (unrestricted mode adds and prunes nothing: Drives is empty).     *)
SyncRoots ==
    /\ roots = "syncing"
    /\ roots' = "ready"
    /\ LET pruned == Selected(registered, Workspaces \ Drives)
       IN  registered' = IF MachineRoot = None \/ Contains(pruned, MachineRoot) THEN pruned
                         ELSE Append(pruned, MachineRoot)
    /\ UNCHANGED <<vars, selected, request, asked, strayed>>

(* The rejected promise is kept: no later request gets past it.            *)
SyncFails ==
    /\ roots = "syncing"
    /\ roots' = "failed" /\ strayed' = TRUE
    /\ UNCHANGED <<vars, registered, selected, request, asked>>

Resume(c) ==
    /\ request[c].at = "roots" /\ roots \in {"ready", "failed"}
    /\ IF roots = "ready" THEN Goes(c, "lookup", request[c].ws) ELSE Ends(c)
    /\ UNCHANGED <<vars, registered, selected, roots, asked, strayed>>

(* resolveSelectedWorkspace: the selected one, or the oldest.              *)
Resolved == IF selected # None /\ Contains(registered, selected) THEN selected
            ELSE IF registered = <<>> THEN None ELSE registered[1]

(* The await on the repository: a selection or an explicit start needs no  *)
(* list, an addition inserts, the others resolve the selection.  The start *)
(* of the application opens the directory LNWJUD_WORKSPACE names           *)
(* (openStart), or the current one where nothing is registered; that this  *)
(* may throw on its way (a path that is not allowed or cannot be added) is *)
(* left out, as it ends a request before it has changed anything.          *)
Lookup(c) ==
    /\ request[c].at = "lookup"
    /\ LET w == request[c].ws
           known == Contains(registered, w)
       IN  CASE request[c].op = "select" ->
                    /\ IF known THEN Goes(c, "chosen", w) ELSE Ends(c)
                    /\ UNCHANGED registered
             [] request[c].op = "add" ->
                    \/ ~known /\ registered' = Append(registered, w) /\ Goes(c, "chosen", w)
                    \/ Ends(c) /\ UNCHANGED registered
             [] request[c].op = "start" ->
                    Goes(c, "chosen", w) /\ UNCHANGED registered
             [] request[c].op = "restart" ->
                    /\ IF Resolved = None THEN Ends(c) ELSE Goes(c, "chosen", Resolved)
                    /\ UNCHANGED registered
             [] request[c].op = "autoStart" /\ Resolved # None ->
                    Goes(c, "chosen", Resolved) /\ UNCHANGED registered
             [] OTHER ->
                    /\ registered' = IF known THEN registered ELSE Append(registered, w)
                    /\ request' = [request EXCEPT ![c] = [op |-> "openStart", at |-> "chosen", ws |-> w]]
    /\ strayed' = (strayed \/ request'[c] = Quiet)
    /\ UNCHANGED <<vars, selected, roots, asked>>

(* The continuation: the selection is stored and the lifecycle is called.  *)
Stores(c) == request[c].op \in {"select", "add", "openStart"}
Selects(c) == IF Stores(c) THEN request[c].ws ELSE selected

Mut_CallFor(c) ==
    CASE request[c].op = "select" -> IF Status = "running" THEN "start" ELSE "none"
      [] request[c].op = "add" -> IF Status = "running" THEN "restart" ELSE "start"
      [] request[c].op \in {"start", "autoStart", "openStart"} -> "start"
      [] OTHER -> request[c].op
CallFor(c) ==
    CASE request[c].op = "select" -> IF Status = "running" THEN "restart" ELSE "none"
      [] request[c].op = "add" -> IF Status = "running" THEN "restart" ELSE "start"
      [] request[c].op \in {"start", "autoStart", "openStart"} -> "start"
      [] OTHER -> request[c].op

Act(c) ==
    /\ request[c].at = "chosen"
    /\ selected' = Selects(c)
    /\ IF CallFor(c) = "none" THEN Ends(c) /\ UNCHANGED vars
       ELSE Goes(c, "mcp", request[c].ws) /\ Invoke(c, CallFor(c), request[c].ws)
    /\ strayed' = (strayed \/ (CallFor(c) = "start" /\ selected' \notin {None, request[c].ws}))
    /\ UNCHANGED <<registered, roots, asked>>

Mut_Return(c) ==
    /\ request[c].at = "mcp" /\ client[c].at = "idle" /\ client[c].got # "failed"
    /\ Ends(c)
    /\ UNCHANGED <<vars, registered, selected, roots, asked, strayed>>
Return(c) ==
    /\ request[c].at = "mcp" /\ client[c].at = "idle"
    /\ Ends(c)
    /\ strayed' = (strayed \/ client[c].got = "failed")
    /\ UNCHANGED <<vars, registered, selected, roots, asked>>

DesktopNext ==
    \/ \E c \in Clients :
          \/ \E op \in {"select", "add", "start", "autoStart", "openStart"}, w \in Workspaces : Ask(c, op, w)
          \/ \E op \in {"start", "stop", "restart"} : Ask(c, op, None)
          \/ Resume(c) \/ Lookup(c) \/ Act(c) \/ Return(c)
    \/ SyncRoots \/ SyncFails
    \/ Progress /\ UNCHANGED deskVars

DesktopFairness ==
    /\ \A c \in Clients : WF_allVars(Resume(c) \/ Lookup(c) \/ Act(c) \/ Return(c))
    /\ WF_allVars(SyncRoots \/ SyncFails)

DesktopSpec == DesktopInit /\ [][DesktopNext]_allVars
FairDesktopSpec == DesktopSpec /\ Fairness /\ DesktopFairness

-----------------------------------------------------------------------------
Settled == \A c \in Clients : request[c] = Quiet

(* README.md:391: the selected project is persisted and a switch restarts  *)
(* MCP.  Between requests the server, if one runs, serves the selection:   *)
(* as long as no two requests overlapped, none failed and no start named   *)
(* another workspace.                                                      *)
SelectionServed ==
    Settled /\ ~strayed /\ selected # None /\ Status = "running" => workspaceId = selected

(* Every request is answered, whatever fails.                              *)
RequestsAnswered == \A c \in Clients : (request[c] # Quiet) ~> (request[c] = Quiet)
=============================================================================

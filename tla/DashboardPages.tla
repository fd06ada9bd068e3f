---------------------------- MODULE DashboardPages ----------------------------
(***************************************************************************)
(* The pages of the desktop and the server behind them: a page performs an *)
(* operation and asks for the dashboard again (renderer/App.tsx, api/      *)
(* client.ts), the server dispatches it to the services and pushes a new   *)
(* dashboard to every open socket (dashboard-server.ts, dashboard-ws.ts,   *)
(* main.ts).                                                               *)
(*                                                                         *)
(* A dashboard is a snapshot of the services, whose state is a number that *)
(* grows with every change.  Snapshots are taken side by side, and nothing *)
(* orders the ones under way.                                              *)
(***************************************************************************)
EXTENDS Naturals, Sequences, FiniteSets, SequencesExt

CONSTANTS Pages,       \* the pages whose view is followed
          Performers,  \* pages, these or others, whose user does something
          Performed,   \* what they ask for: operation and fields of the body
          MaxChanges,  \* bound: changes of the state of the services
          MaxReads,    \* bound: snapshots a page waits for at a time
          MaxFailures, \* bound: snapshots that fail and sockets that close
          Nothing

VARIABLES
    now,      \* the state of the services
    request,  \* per page: the answer to its operation
    reads,    \* per page: the snapshots it has asked for
    pushes,   \* the snapshots that are to be pushed
    wire,     \* per page: whether it is mounted, its socket, and the pushes on their way
    shown,    \* per page: the dashboard it shows
    failures, \* how many of either so far
    blurred   \* history, per page: it may have missed a change

pagesVars == <<now, request, reads, pushes, wire, shown, failures, blurred>>

-----------------------------------------------------------------------------
(* What an operation needs in its body (the parse functions), and which    *)
(* ones are announced to the pages.                                        *)
Needs ==
    [op \in {"addWorkspace"} |-> {"rootPath"}] @@ [op \in {"selectWorkspace", "startMcp"} |-> {"workspaceId"}]
      @@ [op \in {"setPermissionProfile"} |-> {"profile"}] @@ [op \in {"setUnrestrictedMode"} |-> {"enabled"}]
      @@ [op \in {"startProcess"} |-> {"workspaceId", "mode"}] @@ [op \in {"stopProcess"} |-> {"processId"}]
      @@ [op \in {"saveTunnelApiKey"} |-> {"apiKey"}] @@ [op \in {"setTunnelClientPath"} |-> {"clientPath"}]
      @@ [op \in {"setLocale"} |-> {"locale"}] @@ [op \in {"clearLogBuffer", "exportLogs"} |-> {"source"}]
      @@ [op \in {"stopMcp", "restartMcp", "clearWorkLog", "startTunnel", "stopTunnel", "runDoctor",
                  "launchManagedBrowser", "openLogViewer"} |-> {}]
MUTATING_OPERATIONS ==
    {"addWorkspace", "selectWorkspace", "setPermissionProfile", "setUnrestrictedMode",
     "startProcess", "stopProcess", "startMcp", "stopMcp", "restartMcp", "clearWorkLog",
     "saveTunnelApiKey", "startTunnel", "stopTunnel", "setTunnelClientPath", "setLocale"}

(* The log, the doctor's report and the windows are not on the dashboard.  *)
Elsewhere == {"clearLogBuffer", "exportLogs", "runDoctor", "openLogViewer"}

(* The operations App.tsx refreshes after.                                 *)
RefreshesAfter(op) ==
    op \in {"addWorkspace", "selectWorkspace", "setPermissionProfile", "setUnrestrictedMode", "stopMcp",
            "restartMcp", "clearWorkLog", "startTunnel", "stopTunnel", "saveTunnelApiKey",
            "setTunnelClientPath", "setLocale"}

-----------------------------------------------------------------------------
Unread == MaxChanges + 1

PagesInit ==
    /\ now = 0
    /\ request = [p \in Performers |-> "none"]
    /\ reads = [p \in Pages |-> <<>>]
    /\ pushes = <<>>
    /\ wire = [p \in Pages |-> [mounted |-> FALSE, open |-> FALSE, values |-> <<>>]]
    /\ shown = [p \in Pages |-> Nothing]
    /\ failures = 0
    /\ blurred = [p \in Pages |-> TRUE]

(* App is mounted: it asks for a dashboard and connects.                   *)
Mount(p) ==
    /\ ~wire[p].mounted
    /\ wire' = [wire EXCEPT ![p].mounted = TRUE]
    /\ reads' = [reads EXCEPT ![p] = <<Unread>>]
    /\ UNCHANGED <<now, request, pushes, shown, failures, blurred>>

(* handleRequest, for a page that performs an operation: what is done      *)
(* before it fails is done, and not announced.                             *)
Answers(p, op, status) ==
    /\ request[p] = "none" /\ (p \in Pages => shown[p] # Nothing)
    /\ request' = [request EXCEPT ![p] =
          IF status # 200 THEN "error" ELSE IF RefreshesAfter(op) THEN "changed" ELSE "done"]
Parsed(asked) == Needs[asked.op] \subseteq asked.body
Changes(op) == op \notin Elsewhere /\ now < MaxChanges /\ now' = now + 1
Blurs == blurred' = [p \in Pages |-> TRUE]

Malformed(p, asked) ==
    /\ ~Parsed(asked) /\ Answers(p, asked.op, 400)
    /\ UNCHANGED <<now, reads, pushes, wire, shown, failures, blurred>>

Succeeds(p, asked) ==
    /\ Parsed(asked) /\ Answers(p, asked.op, 200)
    /\ Changes(asked.op) \/ (asked.op \in Elsewhere /\ now' = now)
    /\ pushes' = IF asked.op \in MUTATING_OPERATIONS THEN Append(pushes, Unread) ELSE pushes
    /\ UNCHANGED <<reads, wire, shown, failures, blurred>>

Fails(p, asked) ==
    /\ Parsed(asked) /\ Answers(p, asked.op, 500)
    /\ (Changes(asked.op) /\ Blurs) \/ UNCHANGED <<now, blurred>>
    /\ UNCHANGED <<reads, pushes, wire, shown, failures>>

(* The page has its answer: it refreshes, or shows the error.              *)
Continue(p) ==
    /\ request[p] # "none"
    /\ IF request[p] = "changed" /\ p \in Pages
       THEN /\ Len(reads[p]) < MaxReads
            /\ reads' = [reads EXCEPT ![p] = Append(@, Unread)]
       ELSE UNCHANGED reads
    /\ request' = [request EXCEPT ![p] = "none"]
    /\ UNCHANGED <<now, pushes, wire, shown, failures, blurred>>

-----------------------------------------------------------------------------
(* refresh: the interval, the reading on the server, and the response.     *)
Tick(p) ==
    /\ wire[p].mounted /\ Len(reads[p]) < MaxReads
    /\ reads' = [reads EXCEPT ![p] = Append(@, Unread)]
    /\ UNCHANGED <<now, request, pushes, wire, shown, failures, blurred>>

Read(p, i) ==
    /\ reads[p][i] = Unread
    /\ reads' = [reads EXCEPT ![p][i] = now]
    /\ UNCHANGED <<now, request, pushes, wire, shown, failures, blurred>>

(* A page takes whatever comes; an older dashboard than it shows replaces  *)
(* a newer one.                                                            *)
Shows(p, v) == shown' = [shown EXCEPT ![p] = v]
Older(p, v) == shown[p] # Nothing /\ v < shown[p]
Alone(p) == pushes = <<>> /\ wire[p].open /\ wire[p].values = <<>> /\ Len(reads[p]) = 1

Refreshed(p, i) ==
    /\ reads[p][i] # Unread
    /\ Shows(p, reads[p][i])
    /\ reads' = [reads EXCEPT ![p] = RemoveAt(@, i)]
    /\ blurred' = [blurred EXCEPT ![p] =
          IF Alone(p) THEN reads[p][i] # now ELSE @ \/ Older(p, reads[p][i])]
    /\ UNCHANGED <<now, request, pushes, wire, failures>>

RefreshFails(p, i) ==
    /\ failures < MaxFailures /\ failures' = failures + 1
    /\ reads' = [reads EXCEPT ![p] = RemoveAt(@, i)]
    /\ UNCHANGED <<now, request, pushes, wire, shown, blurred>>

-----------------------------------------------------------------------------
(* onMutation: a snapshot is taken for the pages and sent to the sockets   *)
(* that are open when it is there; a failure is swallowed.                 *)
PushRead(i) ==
    /\ pushes[i] = Unread
    /\ pushes' = [pushes EXCEPT ![i] = now]
    /\ UNCHANGED <<now, request, reads, wire, shown, failures, blurred>>

Broadcast(i) ==
    /\ pushes[i] # Unread
    /\ wire' = [p \in Pages |->
          IF wire[p].open THEN [wire[p] EXCEPT !.values = Append(@, pushes[i])] ELSE wire[p]]
    /\ pushes' = RemoveAt(pushes, i)
    /\ blurred' = [p \in Pages |-> blurred[p] \/ ~wire[p].open]
    /\ UNCHANGED <<now, request, reads, shown, failures>>

PushFails(i) ==
    /\ failures < MaxFailures /\ failures' = failures + 1
    /\ pushes' = RemoveAt(pushes, i)
    /\ Blurs
    /\ UNCHANGED <<now, request, reads, wire, shown>>

Receive(p) ==
    /\ wire[p].values # <<>>
    /\ Shows(p, Head(wire[p].values))
    /\ wire' = [wire EXCEPT ![p].values = Tail(@)]
    /\ blurred' = [blurred EXCEPT ![p] = @ \/ Older(p, Head(wire[p].values))]
    /\ UNCHANGED <<now, request, reads, pushes, failures>>

(* The socket closes and takes with it what was on its way; the page       *)
(* connects again, and asks for nothing then.                              *)
SocketOpens(p) ==
    /\ wire[p].mounted /\ ~wire[p].open
    /\ wire' = [wire EXCEPT ![p].open = TRUE]
    /\ UNCHANGED <<now, request, reads, pushes, shown, failures, blurred>>

SocketCloses(p) ==
    /\ wire[p].open /\ failures < MaxFailures /\ failures' = failures + 1
    /\ wire' = [wire EXCEPT ![p].open = FALSE, ![p].values = <<>>]
    /\ blurred' = [blurred EXCEPT ![p] = @ \/ wire[p].values # <<>>]
    /\ UNCHANGED <<now, request, reads, pushes, shown>>

(* A process ends or a tunnel drops: nobody performed anything.            *)
Drift ==
    /\ now < MaxChanges /\ now' = now + 1
    /\ Blurs
    /\ UNCHANGED <<request, reads, pushes, wire, shown, failures>>

Delivers(p) == \E i \in DOMAIN reads[p] : Read(p, i) \/ Refreshed(p, i) \/ RefreshFails(p, i)
Pushes == \E i \in DOMAIN pushes : PushRead(i) \/ Broadcast(i) \/ PushFails(i)
PagesNext ==
    \/ \E p \in Performers :
        \/ Continue(p)
        \/ \E asked \in Performed : Malformed(p, asked) \/ Succeeds(p, asked) \/ Fails(p, asked)
    \/ \E p \in Pages :
        \/ Mount(p) \/ Tick(p) \/ Delivers(p) \/ Receive(p) \/ SocketOpens(p) \/ SocketCloses(p)
    \/ Pushes \/ Drift

PagesFairness ==
    /\ \A p \in Pages : WF_pagesVars(Tick(p)) /\ WF_pagesVars(Delivers(p)) /\ WF_pagesVars(Receive(p))
    /\ WF_pagesVars(Pushes)
PagesSpec == PagesInit /\ [][PagesNext]_pagesVars /\ PagesFairness

-----------------------------------------------------------------------------
PagesTypeOK ==
    /\ now \in 0..MaxChanges /\ failures \in 0..MaxFailures
    /\ request \in [Performers -> {"none", "changed", "done", "error"}]
    /\ \A p \in Pages :
        /\ Len(reads[p]) <= MaxReads /\ shown[p] \in 0..MaxChanges \union {Nothing}
        /\ wire[p].values # <<>> => wire[p].open

(* App.tsx:107: the pushes keep every page up to date after any mutation.  *)
(* Once nothing is under way, a page shows the services as they are; so    *)
(* after successful operations of any page, unless a socket was closed, a  *)
(* snapshot failed or was overtaken by an older one.                       *)
Settled(p) ==
    /\ p \in Performers => request[p] = "none"
    /\ reads[p] = <<>> /\ pushes = <<>> /\ wire[p].values = <<>>
PagesCurrent == \A p \in Pages : Settled(p) /\ ~blurred[p] => shown[p] = now

(* App.tsx:108: the slow interval catches the rest.  Whatever is missed,   *)
(* all pages show the services as they are again and again, so for good    *)
(* when changes cease.                                                     *)
AllCurrent == \A p \in Pages : wire[p].mounted => shown[p] = now
PagesConverge == []<>AllCurrent
=============================================================================

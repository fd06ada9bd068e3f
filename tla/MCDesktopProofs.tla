--------------------------- MODULE MCDesktopProofs ---------------------------
(***************************************************************************)
(* Proofs about the desktop process: the lifecycle of its MCP server for   *)
(* any callers, workspaces and ports, the services around it, the boot and *)
(* the quit of the process, its pages, and the bench that runs the three   *)
(* sides.                                                                  *)
(***************************************************************************)
EXTENDS MCDesktop, SequenceLemmas

(* The two fields of a live server are set and cleared together.           *)
FieldsAgree == (handle = None) <=> (workspaceId = None)

(* How far startInternal is decides whether a handle exists.               *)
StartPhase ==
    /\ startOp.at \in {"checking", "listening", "bound", "failed"} => handle = None
    /\ startOp.at = "assigned" => handle # None
    /\ startOp.at # "none" => startOp.ws # None
    /\ startOp.at = "bound" => startOp.port # None

(* A stop works on a handle that no start can touch.                       *)
StopPhase ==
    /\ stopOp \in {"closing", "draining", "failed"} => handle # None
    /\ stopOp \in {"closing", "draining", "failed", "done"} => startOp.at = "none"
    /\ stopOp = "done" => handle = None

(* The listening servers are exactly those the fields account for.         *)
OpenAccounted == \A p \in Ports :
    open[p] = IF p = handle /\ stopOp # "draining" THEN workspaceId
              ELSE IF startOp.at = "bound" /\ p = startOp.port THEN startOp.ws
              ELSE None

IInv == TypeOK /\ FieldsAgree /\ StartPhase /\ StopPhase /\ OpenAccounted

-----------------------------------------------------------------------------
LEMMA InitInv == Init => IInv
  BY NoneAssumption
  DEF Init, IInv, TypeOK, Caller, FieldsAgree, StartPhase, StopPhase, OpenAccounted, Idle

(* What a settled stop makes of a caller is again a caller.                *)
LEMMA StopAnswersCallers ==
    ASSUME client \in [Clients -> Caller], StopSettles
    PROVE  client' \in [Clients -> Caller]
<1>1. \A r \in Caller : \A got \in {"failed", "stopped", "running"} :
          /\ [r EXCEPT !.at = "idle", !.got = got] \in Caller
          /\ [r EXCEPT !.at = "enter", !.op = "start"] \in Caller
  BY DEF Caller
<1>2. Status \in {"stopped", "running"}
  BY DEF Status
<1>3. ASSUME NEW c \in Clients PROVE client'[c] \in Caller
  <2>1. CASE client[c].at # "stop"
    BY <1>3, <2>1 DEF StopSettles
  <2>2. CASE client[c].at = "stop" /\ stopOp = "failed"
    BY <1>1, <2>2 DEF StopSettles
  <2>3. CASE client[c].at = "stop" /\ stopOp # "failed" /\ client[c].op = "stop"
    BY <1>1, <1>2, <2>3 DEF StopSettles
  <2>4. CASE client[c].at = "stop" /\ stopOp # "failed" /\ client[c].op # "stop"
    BY <1>1, <2>4 DEF StopSettles
  <2> QED
    BY <2>1, <2>2, <2>3, <2>4
<1> QED
  BY <1>3 DEF StopSettles

LEMMA NextInv == IInv /\ [Next]_vars => IInv'
<1> SUFFICES ASSUME IInv, [Next]_vars PROVE IInv'
  OBVIOUS
<1> USE NoneAssumption DEF IInv
<1> USE DEF TypeOK, FieldsAgree, StartPhase, StopPhase, OpenAccounted
<1>1. ASSUME NEW c \in Clients, NEW op \in {"start", "stop", "restart"},
             NEW w \in Workspaces \union {None}, Invoke(c, op, w)
      PROVE IInv'
  BY <1>1 DEF Invoke, Caller
<1>2. ASSUME NEW c \in Clients, EnterStart(c) PROVE IInv'
  BY <1>2 DEF EnterStart, Answer, Status, Caller, QueuesBehindStop, SharesStart
<1>3. ASSUME NEW c \in Clients, EnterStop(c) PROVE IInv'
  BY <1>3 DEF EnterStop, StopBegins, CloseOrDone, Caller
<1>4. CASE WorkspaceFound
  BY <1>4 DEF WorkspaceFound
<1>5. CASE StartFails
  BY <1>5 DEF StartFails
<1>6. ASSUME NEW p \in Ports, ServerListens(p) PROVE IInv'
  BY <1>6 DEF ServerListens
<1>7. CASE StartAssigns
  BY <1>7 DEF StartAssigns
<1>8. CASE StartSettles
  <2>1. /\ startOp' = Idle
        /\ stopOp' \in {stopOp, "closing", "done"}
        /\ stopOp' = stopOp \/ (stopOp' = "done" <=> handle = None)
        /\ UNCHANGED <<handle, workspaceId, open>>
    BY <1>8 DEF StartSettles, StopResumes, CloseOrDone
  <2>2. client' \in [Clients -> Caller]
    <3>1. \A c \in Clients : client[c] \in Caller
      OBVIOUS
    <3>2. \A c \in Clients : client[c].at # "start" \/
             [client[c] EXCEPT !.at = "idle",
                !.got = IF startOp.at = "failed" THEN "failed" ELSE Status] \in Caller
      BY <3>1 DEF Caller, Status
    <3> QED
      BY <1>8, <3>1, <3>2 DEF StartSettles
  <2>3. startOp.at # "none" /\ startOp.at # "bound"
    BY <1>8 DEF StartSettles
  <2>4. TypeOK'
    BY <2>1, <2>2 DEF Idle
  <2>5. FieldsAgree' /\ StartPhase' /\ StopPhase'
    BY <2>1, <2>3 DEF Idle
  <2>6. OpenAccounted'
    BY <2>1, <2>3 DEF Idle
  <2> QED
    BY <2>4, <2>5, <2>6
<1>9. CASE ServerStopsListening
  BY <1>9 DEF ServerStopsListening
<1>10. CASE CloseFails
  BY <1>10 DEF CloseFails
<1>11. CASE ServerDrained
  BY <1>11 DEF ServerDrained
<1>12. CASE StopSettles
  <2>1. client' \in [Clients -> Caller]
    BY <1>12, StopAnswersCallers
  <2> QED
    BY <1>12, <2>1 DEF StopSettles
<1>13. CASE UNCHANGED vars
  BY <1>13 DEF vars
<1> QED
  BY <1>1, <1>2, <1>3, <1>4, <1>5, <1>6, <1>7, <1>8, <1>9, <1>10, <1>11,
     <1>12, <1>13 DEF Next, Progress

LEMMA AlwaysInv == Spec => []IInv
  BY InitInv, NextInv, PTL DEF Spec

(* Every listening server is one the lifecycle can still close.            *)
THEOREM NeverLeaks == Spec => []NoLeakedServer
<1>1. IInv => NoLeakedServer
  BY NoneAssumption DEF IInv, OpenAccounted, NoLeakedServer, OpenPorts
<1> QED
  BY <1>1, AlwaysInv, PTL

(* "Running" is only reported of a listening server, except while a stop   *)
(* drains its connections.                                                 *)
THEOREM StatusAlwaysLive == Spec => []StatusIsLive
<1>1. IInv => StatusIsLive
  BY NoneAssumption DEF IInv, TypeOK, OpenAccounted, FieldsAgree, StatusIsLive, Status
<1> QED
  BY <1>1, AlwaysInv, PTL

(* Both at once, for any clients, workspaces and ports: no server escapes  *)
(* the lifecycle and its status is true of the server it holds.            *)
THEOREM EndpointAlwaysHeld == Spec => []EndpointHeld
BY NeverLeaks, StatusAlwaysLive, PTL DEF EndpointHeld

(* A caller told "stopped" is told so when nothing listens and no start is *)
(* under way.                                                              *)
LEMMA StoppedIsClosed == IInv /\ Next => ToldStoppedWhenClosed
<1> SUFFICES ASSUME IInv, Next, NEW c \in Clients,
                    client[c].at # "idle", client'[c].at = "idle",
                    client'[c].got = "stopped"
             PROVE  /\ \A p \in Ports : open'[p] = None
                    /\ startOp'.at = "none"
  BY DEF ToldStoppedWhenClosed
<1> USE NoneAssumption DEF IInv, TypeOK, FieldsAgree, StartPhase, StopPhase, OpenAccounted
<1>1. ASSUME StopSettles
      PROVE  stopOp = "done" /\ open' = open /\ startOp' = startOp
  <2>1. client[c].at = "stop"
    BY <1>1 DEF StopSettles
  <2>2. stopOp # "failed"
    <3>1. stopOp = "failed"
            => client'[c] = [client[c] EXCEPT !.at = "idle", !.got = "failed"]
      BY <1>1, <2>1 DEF StopSettles
    <3> QED
      BY <3>1 DEF Caller
  <2> QED
    BY <1>1, <2>2 DEF StopSettles
<1>2. /\ ~ \E d \in Clients, op \in {"start", "stop", "restart"}, w \in Workspaces \union {None} :
                Invoke(d, op, w)
      /\ ~ \E d \in Clients : EnterStart(d) \/ EnterStop(d)
  <2>1. ASSUME NEW d \in Clients, NEW op \in {"start", "stop", "restart"},
               NEW w \in Workspaces \union {None}, Invoke(d, op, w)
        PROVE FALSE
    BY <2>1 DEF Invoke, Caller
  <2>2. ASSUME NEW d \in Clients, EnterStart(d) PROVE FALSE
    <3>1. client[d].ws # None /\ ~QueuesBehindStop /\ handle # None
            => Status = "running"
      BY DEF Status
    <3>2. \/ client' = Answer(d, "failed")
          \/ client' = [client EXCEPT ![d].at = "stop"]
          \/ client' = [client EXCEPT ![d].at = "start"]
          \/ client' = Answer(d, "running")
      BY <2>2, <3>1 DEF EnterStart
    <3> QED
      BY <3>2 DEF Answer, Caller
  <2>3. ASSUME NEW d \in Clients, EnterStop(d) PROVE FALSE
    BY <2>3 DEF EnterStop, Caller
  <2> QED
    BY <2>1, <2>2, <2>3
<1>3. ASSUME StartSettles PROVE FALSE
  <2>1. client[c].at = "start"
    BY <1>3 DEF StartSettles
  <2>2. client'[c] = [client[c] EXCEPT !.at = "idle",
            !.got = IF startOp.at = "failed" THEN "failed" ELSE Status]
    BY <1>3, <2>1 DEF StartSettles
  <2>3. startOp.at # "failed" => Status = "running"
    BY <1>3 DEF StartSettles, Status
  <2> QED
    BY <2>2, <2>3 DEF Caller
<1>4. client' # client
  OBVIOUS
<1>5. StopSettles
  BY <1>2, <1>3, <1>4 DEF Next, Progress, WorkspaceFound, StartFails, ServerListens,
     StartAssigns, ServerStopsListening, CloseFails, ServerDrained
<1> QED
  BY <1>1, <1>5

(* A caller told "running" is told so while a server listens.              *)
LEMMA RunningIsOpen == IInv /\ Next => ToldRunningWhenOpen
<1> SUFFICES ASSUME IInv, Next, NEW c \in Clients,
                    client[c].at # "idle", client'[c].at = "idle", client'[c].got = "running"
             PROVE  \E p \in Ports : p = handle' /\ open'[p] # None
  BY DEF ToldRunningWhenOpen
<1> USE NoneAssumption DEF IInv, TypeOK, FieldsAgree, StartPhase, StopPhase, OpenAccounted
<1>1. ASSUME handle # None, stopOp # "draining", UNCHANGED <<handle, open>>
      PROVE  \E p \in Ports : p = handle' /\ open'[p] # None
  BY <1>1
<1>2. CASE StartSettles
  <2>1. client[c].at = "start" /\ UNCHANGED <<handle, open>>
    BY <1>2 DEF StartSettles
  <2>2. client'[c] = [client[c] EXCEPT !.at = "idle",
                        !.got = IF startOp.at = "failed" THEN "failed" ELSE Status]
    BY <1>2, <2>1 DEF StartSettles
  <2>3. startOp.at = "assigned"
    BY <1>2, <2>2 DEF StartSettles, Caller
  <2> QED
    BY <1>1, <2>1, <2>3
<1>3. CASE StopSettles
  <2>1. client[c].at = "stop"
    BY <1>3 DEF StopSettles
  <2>2. \/ client'[c] = [client[c] EXCEPT !.at = "idle", !.got = "failed"]
        \/ client'[c] = [client[c] EXCEPT !.at = "idle", !.got = Status] /\ stopOp = "done"
        \/ client'[c] = [client[c] EXCEPT !.at = "enter", !.op = "start"]
    BY <1>3, <2>1 DEF StopSettles
  <2>3. stopOp = "done" => Status = "stopped"
    BY DEF Status
  <2> QED
    BY <2>2, <2>3 DEF Caller
<1>4. ASSUME NEW d \in Clients, EnterStart(d) PROVE \E p \in Ports : p = handle' /\ open'[p] # None
  <2>1. \/ client' = Answer(d, "failed") \/ client' = [client EXCEPT ![d].at = "stop"]
        \/ client' = [client EXCEPT ![d].at = "start"]
        \/ ~QueuesBehindStop /\ handle # None
    BY <1>4 DEF EnterStart
  <2>2. ~QueuesBehindStop /\ handle # None
    BY <2>1 DEF Answer, Caller
  <2> QED
    BY <1>1, <1>4, <2>2 DEF EnterStart, QueuesBehindStop
<1>5. ASSUME NEW d \in Clients, EnterStop(d) PROVE FALSE
  BY <1>5 DEF EnterStop, Caller
<1>6. ASSUME NEW d \in Clients, NEW op \in {"start", "stop", "restart"},
             NEW w \in Workspaces \union {None}, Invoke(d, op, w)
      PROVE FALSE
  BY <1>6 DEF Invoke, Caller
<1>7. client' # client
  OBVIOUS
<1> QED
  BY <1>2, <1>3, <1>4, <1>5, <1>6, <1>7 DEF Next, Progress, WorkspaceFound, StartFails, ServerListens,
     StartAssigns, ServerStopsListening, CloseFails, ServerDrained

(* Whatever a caller is told is true at the moment it is told: "stopped"   *)
(* when nothing listens and no start is under way, "running" while the     *)
(* server accepts connections.                                             *)
THEOREM AnswersAlwaysTrue == Spec => AnswersTrue
<1>1. IInv /\ [Next]_vars => [ToldStoppedWhenClosed /\ ToldRunningWhenOpen]_vars
  BY StoppedIsClosed, RunningIsOpen
<1> QED
  BY <1>1, AlwaysInv, PTL DEF Spec, AnswersTrue

(* The class implements the exclusive endpoint: every step of the detailed *)
(* specification opens the one server, closes it, or leaves it alone.      *)
THEOREM Refinement == Spec => ImplementsEndpoint
<1> DEFINE Up == {<<p, open[p]>> : p \in OpenPorts}
<1>1. Init => Endpoint!Init
  BY DEF Init, Endpoint!Init, OpenPorts
<1>2. IInv /\ [Next]_vars => [Endpoint!Next]_Up
  <2> SUFFICES ASSUME IInv, [Next]_vars PROVE [Endpoint!Next]_Up
    OBVIOUS
  <2> USE NoneAssumption DEF IInv, TypeOK, FieldsAgree, StartPhase, StopPhase, OpenAccounted
  <2>1. ASSUME NEW p \in Ports, ServerListens(p) PROVE Endpoint!Serve(p, startOp.ws)
    <3>1. OpenPorts = {} /\ OpenPorts' = {p} /\ open'[p] = startOp.ws
      BY <2>1 DEF ServerListens, OpenPorts
    <3> QED
      BY <3>1 DEF Endpoint!Serve
  <2>2. CASE ServerStopsListening
    <3>1. OpenPorts = {handle} /\ OpenPorts' = {}
      BY <2>2 DEF ServerStopsListening, OpenPorts
    <3> QED
      BY <3>1 DEF Endpoint!Next, Endpoint!Release
  <2>3. CASE UNCHANGED open
    <3>1. Up' = Up
      BY <2>3 DEF OpenPorts
    <3> QED
      BY <3>1
  <2>4. CASE \E p \in Ports : ServerListens(p)
    <3>1. startOp.ws \in Workspaces
      BY <2>4 DEF ServerListens
    <3>2. PICK p \in Ports : ServerListens(p)
      BY <2>4
    <3>3. Endpoint!Serve(p, startOp.ws)
      BY <2>1, <3>2
    <3>4. Endpoint!Next
      BY <3>1, <3>3 DEF Endpoint!Next, Endpoint!Serve
    <3> QED
      BY <3>4
  <2>5. \/ UNCHANGED open
        \/ ServerStopsListening
        \/ \E p \in Ports : ServerListens(p)
    BY DEF Next, Progress, vars, Invoke, EnterStart, EnterStop, WorkspaceFound, StartFails,
       StartAssigns, StartSettles, CloseFails, ServerDrained, StopSettles
  <2> QED
    BY <2>2, <2>3, <2>4, <2>5
<1> QED
  BY <1>1, <1>2, AlwaysInv, PTL DEF Spec, ImplementsEndpoint, Endpoint!Spec

-----------------------------------------------------------------------------
(* DesktopServices.  A request that opens a workspace names it, and a stop *)
(* does not wait for the roots.                                            *)
RequestsNamed == \A c \in Clients :
    /\ request[c].op \in {"select", "add", "autoStart", "openStart"} => request[c].ws \in Workspaces
    /\ request[c].at \in {"roots", "lookup"} => request[c].op \notin {"none", "stop"}

(* What a request may hold at each of its stages.  The                     *)
(* roots stay ready, and from then on workspaces are only added: so what a *)
(* request has looked up, and what is selected, stays registered.          *)
Fit(c) ==
    /\ request[c].at \in {"lookup", "chosen", "mcp"} /\ request[c].op # "stop" => roots = "ready"
    /\ request[c].at \in {"chosen", "mcp"} /\ request[c].op \in {"select", "add", "openStart"}
         => request[c].ws \in ToSet(registered)
    /\ client[c].at # "idle" => request[c].at = "mcp"
RequestsFit == \A c \in Clients : Fit(c)
SelectedKnown == selected # None => roots = "ready" /\ selected \in ToSet(registered)

(* What the lifecycle has under way somebody waits for.                    *)
SomebodyWaits ==
    /\ startOp.at # "none" => \E c \in Clients : client[c].at = "start"
    /\ stopOp # "none" => \E c \in Clients : client[c].at = "stop"

(* Nothing strays: one request at a time, and what is served is what is    *)
(* selected, except while a restart, or a start after it, is about to make *)
(* it so.                                                                  *)
OneAtATime == \A c, d \in Clients : request[c] # Quiet /\ request[d] # Quiet => c = d
Serves(w) == selected \in {None, w}
Served == handle # None => Serves(workspaceId)
Restarting(c) == client[c].op = "restart" /\ client[c].at \in {"enter", "stop"}
Rejected(c) == client[c].at = "idle" /\ client[c].got = "failed"
Chosen(c) ==
    /\ request[c].op \in {"autoStart", "openStart"} /\ request[c].at # "mcp" => handle = None
    /\ request[c].op \in {"restart", "autoStart"} /\ request[c].at = "chosen"
         => request[c].ws # None /\ Serves(request[c].ws)
Called(c) == request[c].at = "mcp" =>
    /\ Served \/ Restarting(c) \/ Rejected(c)
    /\ client[c].op \in {"start", "restart"} /\ client[c].at # "idle" => Serves(client[c].ws)
    /\ startOp.at # "none" => Serves(startOp.ws)
OnCourse ==
    /\ OneAtATime
    /\ asked = 0 => handle = None /\ Settled
    /\ (\A c \in Clients : request[c].at # "mcp") => Served
    /\ \A c \in Clients : Chosen(c) /\ Called(c)

ServicesInv ==
    /\ IInv /\ DesktopTypeOK /\ registered \in Seq(Workspaces) /\ RequestsNamed /\ RequestsFit /\ SelectedKnown /\ SomebodyWaits
    /\ ~strayed => OnCourse

-----------------------------------------------------------------------------
(* Sequences without repetition: their elements after an addition, and     *)
(* after a selection.                                                      *)
LEMMA ContainsMember ==
    ASSUME NEW S, NEW s \in Seq(S), NEW e
    PROVE  Contains(s, e) <=> e \in ToSet(s)
<1>1. DOMAIN s = 1..Len(s)
  BY LenProperties
<1> QED
  BY <1>1 DEF Contains, ToSet

LEMMA AppendedSet ==
    ASSUME NEW S, NEW s \in Seq(S), NEW e \in S
    PROVE  /\ Append(s, e) \in Seq(S)
           /\ ToSet(Append(s, e)) = ToSet(s) \union {e}
           /\ IsInjective(s) /\ e \notin ToSet(s) => IsInjective(Append(s, e))
<1>1. /\ Append(s, e) \in Seq(S) /\ Len(Append(s, e)) = Len(s) + 1
      /\ \A i \in 1..Len(s) : Append(s, e)[i] = s[i]
      /\ Append(s, e)[Len(s) + 1] = e
  BY AppendProperties
<1>2. DOMAIN s = 1..Len(s) /\ DOMAIN Append(s, e) = 1..Len(s) + 1 /\ Len(s) \in Nat
  BY <1>1, LenProperties
<1>3. ToSet(Append(s, e)) = ToSet(s) \union {e}
  <2>1. \A x \in ToSet(Append(s, e)) : x \in ToSet(s) \union {e}
    BY <1>1, <1>2 DEF ToSet
  <2>2. \A x \in ToSet(s) : x \in ToSet(Append(s, e))
    BY <1>1, <1>2 DEF ToSet
  <2>3. e \in ToSet(Append(s, e))
    BY <1>1, <1>2 DEF ToSet
  <2> QED
    BY <2>1, <2>2, <2>3
<1>4. IsInjective(s) /\ e \notin ToSet(s) => IsInjective(Append(s, e))
  <2> SUFFICES ASSUME IsInjective(s), e \notin ToSet(s),
                      NEW a \in 1..Len(s) + 1, NEW b \in 1..Len(s) + 1,
                      Append(s, e)[a] = Append(s, e)[b]
               PROVE  a = b
    BY <1>2 DEF IsInjective
  <2>1. \A i \in 1..Len(s) : s[i] # e
    BY <1>2 DEF ToSet
  <2>2. \A i, j \in 1..Len(s) : s[i] = s[j] => i = j
    BY <1>2 DEF IsInjective
  <2> QED
    BY <1>1, <1>2, <2>1, <2>2
<1> QED
  BY <1>1, <1>3, <1>4

LEMMA SelectedSet ==
    ASSUME NEW T, NEW s \in Seq(T), NEW S, IsInjective(s)
    PROVE  /\ Selected(s, S) \in Seq(T) /\ ToSet(Selected(s, S)) \subseteq ToSet(s)
           /\ IsInjective(Selected(s, S))
<1> DEFINE r == Selected(s, S)
<1>1. r \in Seq(T) /\ \E e : Order(e, s, r, S)
  BY SelectedOrder
<1> HIDE DEF r
<1>2. PICK e : Order(e, s, r, S)
  BY <1>1
<1>3. /\ DOMAIN s = 1..Len(s) /\ DOMAIN r = 1..Len(r) /\ Len(r) \in Nat
      /\ e \in [1..Len(r) -> 1..Len(s)]
      /\ \A k \in 1..Len(r) : r[k] = s[e[k]]
      /\ \A j, k \in 1..Len(r) : j < k => e[j] < e[k]
  BY <1>1, <1>2, LenProperties DEF Order
<1>4. ToSet(r) \subseteq ToSet(s)
  BY <1>3 DEF ToSet
<1>5. IsInjective(r)
  <2> SUFFICES ASSUME NEW a \in 1..Len(r), NEW b \in 1..Len(r), r[a] = r[b] PROVE a = b
    BY <1>3 DEF IsInjective
  <2>1. e[a] = e[b]
    BY <1>3 DEF IsInjective
  <2>2. ~(a < b) /\ ~(b < a)
    BY <1>3, <2>1
  <2>3. a \in Nat /\ b \in Nat
    BY <1>3
  <2> QED
    BY <2>2, <2>3
<1> QED
  BY <1>1, <1>4, <1>5 DEF r

-----------------------------------------------------------------------------
(* The lifecycle sees of a step of the services a step of its own.         *)
LEMMA DesktopSteps == DesktopTypeOK /\ [DesktopNext]_allVars => [Next]_vars
<1> SUFFICES ASSUME DesktopTypeOK, [DesktopNext]_allVars PROVE [Next]_vars
  OBVIOUS
<1>1. ASSUME NEW c \in Clients, Act(c) PROVE Next \/ UNCHANGED vars
  <2>1. request[c] \in [op : Ops \union {"none"}, ws : Workspaces \union {None},
                        at : {"idle", "roots", "lookup", "chosen", "mcp"}]
    BY DEF DesktopTypeOK
  <2>2. CallFor(c) \in {"none", "start", "stop", "restart"}
    BY <2>1 DEF CallFor, Ops
  <2> QED
    BY <1>1, <2>1, <2>2 DEF Act, Next
<1> QED
  BY <1>1 DEF DesktopNext, Ask, Resume, Lookup, Return, SyncRoots, SyncFails, Next, allVars

(* What an action of the services may make of a request.                   *)
LEMMA RequestsStay ==
    ASSUME DesktopTypeOK, NEW c \in Clients, NEW stage \in {"roots", "lookup", "chosen", "mcp"},
           NEW w \in Workspaces \union {None}, NEW op \in Ops,
           \/ Goes(c, stage, w) \/ Ends(c)
           \/ request' = [request EXCEPT ![c] = [op |-> op, at |-> stage, ws |-> w]]
    PROVE  /\ request' \in [Clients -> [op : Ops \union {"none"}, ws : Workspaces \union {None},
                                     at : {"idle", "roots", "lookup", "chosen", "mcp"}]]
           /\ \A d \in Clients \ {c} : request'[d] = request[d]
BY DEF DesktopTypeOK, Goes, Ends, Quiet, Ops

(* The types of the services, the workspaces without repetition.           *)
Registers == registered \in Seq(Workspaces) /\ ToSet(registered) \subseteq Workspaces /\ IsInjective(registered)
LEMMA DesktopTyped ==
    ASSUME DesktopTypeOK, registered \in Seq(Workspaces), RequestsNamed, [DesktopNext]_allVars, TypeOK'
    PROVE  DesktopTypeOK' /\ Registers' /\ RequestsNamed'
<1> DEFINE Requests == [Clients -> [op : Ops \union {"none"}, ws : Workspaces \union {None},
                                    at : {"idle", "roots", "lookup", "chosen", "mcp"}]]
           Rest == /\ selected' \in Workspaces \union {None}
                   /\ roots' \in {"untouched", "syncing", "ready", "failed"}
                   /\ asked' \in 0..MaxRequests /\ strayed' \in BOOLEAN
           Good == Registers' /\ request' \in Requests /\ RequestsNamed' /\ Rest
<1> USE RootsAssumption, NoneAssumption
<1>0. /\ Registers /\ selected \in Workspaces \union {None}
      /\ roots \in {"untouched", "syncing", "ready", "failed"}
      /\ request \in Requests /\ RequestsNamed /\ asked \in 0..MaxRequests /\ strayed \in BOOLEAN
  BY DEF DesktopTypeOK, Registers
<1>1. ASSUME NEW c \in Clients, NEW op \in Ops, NEW w \in Workspaces \union {None}, Ask(c, op, w),
             op \in {"select", "add", "autoStart", "openStart"} => w \in Workspaces
      PROVE  Good
  <2>1. request' \in Requests
    BY <1>1, RequestsStay DEF Ask
  <2>2. asked' \in 0..MaxRequests /\ strayed' \in BOOLEAN
    BY <1>0, <1>1 DEF Ask, Others
  <2>3. RequestsNamed'
    <3>1. \A d \in Clients \ {c} : request'[d] = request[d]
      BY <1>1, RequestsStay DEF Ask
    <3>2. /\ request'[c].op = op /\ request'[c].ws = w
          /\ request'[c].at \in {"roots", "lookup"} => op # "stop"
      BY <1>0, <1>1 DEF Ask
    <3> QED
      BY <1>0, <1>1, <3>1, <3>2 DEF RequestsNamed, Ops
  <2> QED
    BY <1>0, <1>1, <2>1, <2>2, <2>3 DEF Ask, Registers
<1>2. ASSUME NEW c \in Clients, Resume(c) PROVE Good
  <2>1. request[c].ws \in Workspaces \union {None}
    BY <1>0
  <2>2. request' \in Requests
    BY <1>2, <2>1, RequestsStay DEF Resume, Ops
  <2>3. RequestsNamed'
    BY <1>0, <1>2, <2>2 DEF Resume, RequestsNamed, Goes, Ends, Quiet
  <2> QED
    BY <1>0, <1>2, <2>2, <2>3 DEF Resume, Registers
<1>3. ASSUME NEW c \in Clients, Lookup(c) PROVE Good
  <2>1. request[c].ws \in Workspaces \union {None} /\ request[c].op \in Ops \union {"none"}
    BY <1>0
  <2>2. Resolved \in Workspaces \union {None}
    <3>1. registered # <<>> => registered[1] \in Workspaces
      BY EmptySeq, ElementOfSeq
    <3> QED
      BY <1>0, <3>1 DEF Resolved
  <2>3. request[c].op \notin {"none", "stop"}
    BY <1>0, <1>3 DEF Lookup, RequestsNamed
  <2>4. /\ UNCHANGED <<selected, roots, asked>> /\ strayed' = (strayed \/ request'[c] = Quiet)
        /\ \/ registered' = registered /\ Ends(c)
           \/ registered' = registered /\ Goes(c, "chosen", request[c].ws)
           \/ registered' = registered /\ Resolved # None /\ Goes(c, "chosen", Resolved)
           \/ /\ registered' \in {registered, Append(registered, request[c].ws)}
              /\ registered' # registered => ~Contains(registered, request[c].ws)
              /\ request[c].ws \in Workspaces
              /\ \/ Goes(c, "chosen", request[c].ws)
                 \/ request' = [request EXCEPT ![c] = [op |-> "openStart", at |-> "chosen", ws |-> request[c].ws]]
    BY <1>0, <1>3, <2>1, <2>3 DEF Lookup, RequestsNamed, Ops
  <2>5. Registers'
    <3>1. CASE registered' = registered
      BY <1>0, <3>1 DEF Registers
    <3>2. CASE registered' = Append(registered, request[c].ws) /\ registered' # registered
      BY <1>0, <2>4, <3>2, ContainsMember, AppendedSet DEF Registers
    <3> QED
      BY <2>4, <3>1, <3>2
  <2>6. request' \in Requests
    BY <2>1, <2>2, <2>4, RequestsStay DEF Ops
  <2>7. RequestsNamed'
    BY <1>0, <2>2, <2>4, <2>6 DEF RequestsNamed, Goes, Ends, Quiet
  <2> QED
    BY <1>0, <2>4, <2>5, <2>6, <2>7
<1>4. ASSUME NEW c \in Clients, Act(c) PROVE Good
  <2>1. request[c].ws \in Workspaces \union {None}
    BY <1>0
  <2>2. request' \in Requests
    BY <1>4, <2>1, RequestsStay DEF Act, Ops
  <2>3. selected' \in Workspaces \union {None} /\ strayed' \in BOOLEAN
    BY <1>0, <1>4, <2>1 DEF Act, Selects
  <2>4. RequestsNamed'
    BY <1>0, <1>4, <2>2 DEF Act, RequestsNamed, Goes, Ends, Quiet
  <2> QED
    BY <1>0, <1>4, <2>2, <2>3, <2>4 DEF Act, Registers
<1>5. ASSUME NEW c \in Clients, Return(c) PROVE Good
  <2>1. request' \in Requests
    BY <1>5, RequestsStay DEF Return, Ops
  <2>2. RequestsNamed'
    BY <1>0, <1>5, <2>1 DEF Return, RequestsNamed, Ends, Quiet
  <2> QED
    BY <1>0, <1>5, <2>1, <2>2 DEF Return, Registers
<1>6. ASSUME SyncRoots PROVE Good
  <2> DEFINE pruned == Selected(registered, Workspaces \ Drives)
  <2>1. pruned \in Seq(Workspaces) /\ ToSet(pruned) \subseteq Workspaces /\ IsInjective(pruned)
    BY <1>0, SelectedSet DEF Registers
  <2>2. registered' = IF MachineRoot = None \/ Contains(pruned, MachineRoot) THEN pruned
                      ELSE Append(pruned, MachineRoot)
    BY <1>6 DEF SyncRoots
  <2> HIDE DEF pruned
  <2>3. Registers'
    <3>1. CASE registered' = pruned
      BY <2>1, <3>1 DEF Registers
    <3>2. CASE registered' = Append(pruned, MachineRoot) /\ MachineRoot \in Workspaces
               /\ ~Contains(pruned, MachineRoot)
      BY <2>1, <3>2, ContainsMember, AppendedSet DEF Registers
    <3> QED
      BY <2>2, <3>1, <3>2
  <2>4. UNCHANGED <<request, selected, asked, strayed>> /\ roots' = "ready"
    BY <1>6 DEF SyncRoots
  <2>5. RequestsNamed'
    BY <1>0, <2>4 DEF RequestsNamed
  <2> QED
    BY <1>0, <2>3, <2>4, <2>5
<1>7. ASSUME SyncFails PROVE Good
  <2>1. UNCHANGED <<request, registered, selected, asked>> /\ roots' = "failed" /\ strayed' = TRUE
    BY <1>7 DEF SyncFails
  <2>2. RequestsNamed' /\ Registers'
    BY <1>0, <2>1 DEF RequestsNamed, Registers
  <2> QED
    BY <1>0, <2>1, <2>2
<1>8. ASSUME UNCHANGED deskVars PROVE Good
  <2>1. UNCHANGED <<registered, selected, roots, request, asked, strayed>>
    BY <1>8 DEF deskVars
  <2>2. RequestsNamed' /\ Registers'
    BY <1>0, <2>1 DEF RequestsNamed, Registers
  <2> QED
    BY <1>0, <2>1, <2>2
<1>9. Good
  <2> HIDE DEF Good
  <2> QED
    BY <1>1, <1>2, <1>3, <1>4, <1>5, <1>6, <1>7, <1>8 DEF DesktopNext, allVars, Ops
<1> QED
  BY <1>9 DEF DesktopTypeOK, Registers

-----------------------------------------------------------------------------
(* Whoever a start or a stop in flight answers is still there.             *)
LEMMA WaitersStay ==
    ASSUME IInv, SomebodyWaits, [Next]_vars
    PROVE  SomebodyWaits'
<1> USE DEF SomebodyWaits
<1>0. client \in [Clients -> Caller] /\ startOp.at \in {"none", "checking", "listening", "bound", "assigned", "failed"}
  BY DEF IInv, TypeOK
<1>1. ASSUME NEW c \in Clients, NEW op \in {"start", "stop", "restart"},
             NEW w \in Workspaces \union {None}, Invoke(c, op, w)
      PROVE SomebodyWaits'
  BY <1>0, <1>1 DEF Invoke
<1>2. ASSUME NEW c \in Clients, EnterStart(c) PROVE SomebodyWaits'
  BY <1>0, <1>2 DEF EnterStart, Answer, Caller
<1>3. ASSUME NEW c \in Clients, EnterStop(c) PROVE SomebodyWaits'
  BY <1>0, <1>3 DEF EnterStop, Caller
<1>4. CASE StartSettles
  BY <1>0, <1>4 DEF StartSettles, StopResumes, Idle
<1>5. CASE StopSettles
  BY <1>0, <1>5 DEF StopSettles
<1>6. CASE WorkspaceFound \/ StartFails \/ (\E p \in Ports : ServerListens(p)) \/ StartAssigns
           \/ ServerStopsListening \/ CloseFails \/ ServerDrained \/ UNCHANGED vars
  BY <1>6 DEF WorkspaceFound, StartFails, ServerListens, StartAssigns, ServerStopsListening,
     CloseFails, ServerDrained, vars
<1> QED
  BY <1>1, <1>2, <1>3, <1>4, <1>5, <1>6 DEF Next, Progress

(* Nobody begins to wait but by a call.                                    *)
LEMMA NobodyWakes ==
    ASSUME IInv, Progress, NEW c \in Clients, client'[c].at # "idle"
    PROVE  client[c].at # "idle"
<1>0. client \in [Clients -> Caller]
  BY DEF IInv, TypeOK
<1>1. ASSUME NEW d \in Clients, EnterStart(d) PROVE client[c].at # "idle"
  BY <1>0, <1>1 DEF EnterStart, Answer, Caller
<1>2. ASSUME NEW d \in Clients, EnterStop(d) PROVE client[c].at # "idle"
  BY <1>0, <1>2 DEF EnterStop, Caller
<1>3. CASE StartSettles
  BY <1>0, <1>3 DEF StartSettles
<1>4. CASE StopSettles
  BY <1>0, <1>4 DEF StopSettles
<1>5. CASE client' = client
  BY <1>5
<1> QED
  BY <1>1, <1>2, <1>3, <1>4, <1>5 DEF Progress, WorkspaceFound, StartFails, ServerListens, StartAssigns,
     ServerStopsListening, CloseFails, ServerDrained

(* From the moment the roots are ready, workspaces are only added.         *)
LEMMA WorkspacesStay ==
    ASSUME DesktopTypeOK, registered \in Seq(Workspaces), RequestsNamed, [DesktopNext]_allVars, roots = "ready"
    PROVE  roots' = "ready" /\ ToSet(registered) \subseteq ToSet(registered')
<1>1. ASSUME NEW c \in Clients, Lookup(c) PROVE ToSet(registered) \subseteq ToSet(registered')
  <2>1. registered' = registered \/ (registered' = Append(registered, request[c].ws) /\ request[c].ws \in Workspaces)
    <3>1. request[c].op \in Ops \union {"none"} /\ request[c].op \notin {"none", "stop"}
      BY <1>1 DEF DesktopTypeOK, RequestsNamed, Lookup
    <3>2. request[c].op \in {"select", "start", "restart"} => registered' = registered
      BY <1>1 DEF Lookup
    <3>3. request[c].op \in {"add", "autoStart", "openStart"}
            => registered' = registered \/ registered' = Append(registered, request[c].ws)
      BY <1>1, <3>1 DEF Lookup, Ops
    <3>4. request[c].op \in {"add", "autoStart", "openStart"} => request[c].ws \in Workspaces
      BY DEF RequestsNamed
    <3> QED
      BY <3>1, <3>2, <3>3, <3>4 DEF Ops
  <2>2. ToSet(Append(registered, request[c].ws)) = ToSet(registered) \union {request[c].ws}
          \/ registered' = registered
    BY <2>1, AppendedSet
  <2> QED
    BY <2>1, <2>2
<1> QED
  BY <1>1 DEF DesktopNext, Ask, Resume, Lookup, Act, Return, SyncRoots, SyncFails, allVars, deskVars

(* What requests hold, and what is selected, stays registered.             *)
LEMMA FitStays ==
    ASSUME IInv, DesktopTypeOK, registered \in Seq(Workspaces), RequestsNamed, RequestsFit, SelectedKnown,
           [DesktopNext]_allVars
    PROVE  RequestsFit' /\ SelectedKnown'
<1>0. /\ request \in [Clients -> [op : Ops \union {"none"}, ws : Workspaces \union {None},
                                  at : {"idle", "roots", "lookup", "chosen", "mcp"}]]
      /\ client \in [Clients -> Caller]
  BY DEF DesktopTypeOK, IInv, TypeOK
<1>1. roots = "ready" => roots' = "ready" /\ ToSet(registered) \subseteq ToSet(registered')
  BY WorkspacesStay
<1>2. ASSUME NEW d \in Clients, request'[d] = request[d], client'[d].at # "idle" => client[d].at # "idle"
      PROVE  Fit(d)'
  <2>1. Fit(d)
    BY DEF RequestsFit
  <2> QED
    BY <1>1, <1>2, <2>1 DEF Fit
<1>3. SelectedKnown \/ selected' # selected
  OBVIOUS
<1>4. ASSUME selected' = selected PROVE SelectedKnown'
  BY <1>1, <1>4 DEF SelectedKnown
<1>5. ASSUME NEW c \in Clients, NEW op \in Ops, NEW w \in Workspaces \union {None}, Ask(c, op, w)
      PROVE  RequestsFit' /\ SelectedKnown'
  <2>1. \A d \in Clients \ {c} : request'[d] = request[d]
    BY <1>0, <1>5 DEF Ask
  <2>2. request'[c].at \in {"roots", "chosen"} /\ request'[c].op = op /\ (request'[c].at = "chosen" => op = "stop")
    BY <1>0, <1>5 DEF Ask
  <2>3. request[c].at # "mcp" /\ client' = client /\ selected' = selected
    BY <1>5 DEF Ask, vars, Quiet
  <2>4. Fit(c)'
    BY <2>2, <2>3 DEF Fit, RequestsFit
  <2> QED
    BY <1>2, <1>4, <2>1, <2>3, <2>4 DEF RequestsFit
<1>6. ASSUME NEW c \in Clients, Resume(c) PROVE RequestsFit' /\ SelectedKnown'
  <2>1. \A d \in Clients \ {c} : request'[d] = request[d]
    BY <1>0, <1>6 DEF Resume, Goes, Ends
  <2>2. (request'[c].at = "lookup" /\ roots' = "ready") \/ request'[c].at = "idle"
    BY <1>0, <1>6 DEF Resume, Goes, Ends, Quiet
  <2>3. request[c].at # "mcp" /\ client' = client /\ selected' = selected
    BY <1>6 DEF Resume, vars
  <2>4. Fit(c)'
    BY <2>2, <2>3 DEF Fit, RequestsFit
  <2> QED
    BY <1>2, <1>4, <2>1, <2>3, <2>4 DEF RequestsFit
<1>7. ASSUME NEW c \in Clients, Lookup(c) PROVE RequestsFit' /\ SelectedKnown'
  <2>1. \A d \in Clients \ {c} : request'[d] = request[d]
    BY <1>0, <1>7 DEF Lookup, Goes, Ends
  <2>2. request[c].at = "lookup" /\ client' = client /\ selected' = selected /\ roots' = roots
    BY <1>7 DEF Lookup, vars
  <2>3. roots = "ready"
    BY <2>2 DEF RequestsFit, Fit, RequestsNamed
  <2>4. \/ request'[c].at = "idle"
        \/ request'[c].at = "chosen" /\ (request'[c].op \in {"select", "add", "openStart"}
                                          => request'[c].ws \in ToSet(registered'))
    <3>1. CASE Contains(registered, request[c].ws) /\ registered' = registered
               /\ (Goes(c, "chosen", request[c].ws) \/ request' = [request EXCEPT ![c] =
                      [op |-> "openStart", at |-> "chosen", ws |-> request[c].ws]])
      BY <1>0, <3>1, ContainsMember DEF Goes
    <3>2. CASE registered' = Append(registered, request[c].ws) /\ request[c].ws \in Workspaces
               /\ (Goes(c, "chosen", request[c].ws) \/ request' = [request EXCEPT ![c] =
                      [op |-> "openStart", at |-> "chosen", ws |-> request[c].ws]])
      BY <1>0, <3>2, AppendedSet DEF Goes
    <3>3. CASE Ends(c)
      BY <1>0, <3>3 DEF Ends, Quiet
    <3>4. CASE request[c].op \in {"start", "restart", "autoStart"}
               /\ \E w \in {request[c].ws, Resolved} : Goes(c, "chosen", w)
      BY <1>0, <3>4 DEF Goes
    <3> QED
      BY <1>0, <1>7, <3>1, <3>2, <3>3, <3>4 DEF Lookup, RequestsNamed, Ops
  <2>5. Fit(c)'
    BY <2>2, <2>3, <2>4 DEF Fit, RequestsFit
  <2> QED
    BY <1>2, <1>4, <2>1, <2>2, <2>5 DEF RequestsFit
<1>8. ASSUME NEW c \in Clients, Act(c) PROVE RequestsFit' /\ SelectedKnown'
  <2>1. \A d \in Clients \ {c} : request'[d] = request[d] /\ client'[d] = client[d]
    BY <1>0, <1>8 DEF Act, Goes, Ends, Invoke, vars
  <2>2. request[c].at = "chosen" /\ registered' = registered /\ roots' = roots
    BY <1>8 DEF Act
  <2>3. \/ request'[c].at = "idle" /\ client' = client
        \/ request'[c].at = "mcp" /\ request'[c].op = request[c].op /\ request'[c].ws = request[c].ws
    BY <1>0, <1>8 DEF Act, Goes, Ends, Quiet, vars
  <2>4. Fit(c)'
    BY <2>2, <2>3 DEF Fit, RequestsFit
  <2>5. SelectedKnown'
    <3>1. CASE Stores(c)
      BY <1>8, <2>2, <3>1 DEF Act, Selects, Stores, RequestsFit, Fit, SelectedKnown
    <3>2. CASE ~Stores(c)
      BY <1>4, <1>8, <3>2 DEF Act, Selects
    <3> QED
      BY <3>1, <3>2
  <2> QED
    BY <1>2, <2>1, <2>4, <2>5 DEF RequestsFit
<1>9. ASSUME NEW c \in Clients, Return(c) PROVE RequestsFit' /\ SelectedKnown'
  <2>1. \A d \in Clients \ {c} : request'[d] = request[d]
    BY <1>0, <1>9 DEF Return, Ends
  <2>2. client' = client /\ client[c].at = "idle" /\ request'[c].at = "idle" /\ selected' = selected
    BY <1>0, <1>9 DEF Return, Ends, Quiet, vars
  <2>3. Fit(c)'
    BY <2>2 DEF Fit
  <2> QED
    BY <1>2, <1>4, <2>1, <2>2, <2>3 DEF RequestsFit
<1>10. ASSUME (SyncRoots \/ SyncFails) \/ UNCHANGED allVars PROVE RequestsFit' /\ SelectedKnown'
  <2>1. UNCHANGED <<request, client, selected>>
    BY <1>10 DEF SyncRoots, SyncFails, allVars, vars, deskVars
  <2> QED
    BY <1>2, <1>4, <2>1 DEF RequestsFit
<1>11. ASSUME Progress, UNCHANGED deskVars PROVE RequestsFit' /\ SelectedKnown'
  <2>1. UNCHANGED <<request, selected>>
    BY <1>11 DEF deskVars
  <2>2. \A d \in Clients : client'[d].at # "idle" => client[d].at # "idle"
    BY <1>11, NobodyWakes
  <2> QED
    BY <1>2, <1>4, <2>1, <2>2 DEF RequestsFit
<1> QED
  BY <1>5, <1>6, <1>7, <1>8, <1>9, <1>10, <1>11 DEF DesktopNext, Ops

-----------------------------------------------------------------------------
(* While no request is with the lifecycle, it has nothing to do.           *)
LEMMA NothingUnderWay ==
    ASSUME IInv, RequestsFit, SomebodyWaits, \A c \in Clients : request[c].at # "mcp"
    PROVE  /\ \A c \in Clients : client[c].at = "idle"
           /\ startOp.at = "none" /\ stopOp = "none"
BY DEF RequestsFit, Fit, SomebodyWaits

(* With one request there, it is brought closer to what is selected.       *)
LEMMA CallStays ==
    ASSUME IInv, SomebodyWaits, NEW c \in Clients, \A d \in Clients \ {c} : client[d].at = "idle",
           request[c].at = "mcp", Called(c), Progress, selected' = selected
    PROVE  Called(c)'
<1>0. /\ client \in [Clients -> Caller] /\ client[c] \in Caller
      /\ startOp \in [at : {"none", "checking", "listening", "bound", "assigned", "failed"},
                      ws : Workspaces \union {None}, port : Ports \union {None}]
  BY DEF IInv, TypeOK
<1>1. /\ Served \/ Restarting(c) \/ Rejected(c)
      /\ client[c].op \in {"start", "restart"} /\ client[c].at # "idle" => Serves(client[c].ws)
      /\ startOp.at # "none" => Serves(startOp.ws)
      /\ startOp.at # "none" => client[c].at = "start"
      /\ stopOp # "none" => client[c].at = "stop"
  BY DEF Called, SomebodyWaits
<1>2. ASSUME client' = client, UNCHANGED <<handle, workspaceId>> \/ handle' = None \/ Serves(workspaceId'),
             startOp'.at # "none" => startOp.at # "none" /\ startOp'.ws = startOp.ws
      PROVE  Called(c)'
  <2>1. Served => Served'
    BY <1>2 DEF Served, Serves
  <2> QED
    BY <1>1, <1>2, <2>1 DEF Called, Serves, Restarting, Rejected
<1>3. ASSUME NEW d \in Clients, EnterStart(d) PROVE Called(c)'
  <2>1. d = c /\ client[c].at = "enter" /\ client[c].op = "start"
    BY <1>3 DEF EnterStart
  <2>2. startOp.at = "none" /\ stopOp = "none" /\ Served /\ Serves(client[c].ws)
    BY <1>1, <2>1 DEF Restarting, Rejected
  <2>3. Served' /\ (\A w : Serves(w)' <=> Serves(w))
    BY <1>3, <2>2 DEF EnterStart, Served, Serves
  <2>4. /\ client'[c].at # "idle" => client'[c].ws = client[c].ws
        /\ startOp'.at # "none" => startOp'.ws = client[c].ws
    <3>1. EnterStart(c)
      BY <1>3, <2>1
    <3>2. \/ client' = Answer(c, "failed") /\ startOp' = startOp
          \/ client' = Answer(c, Status) /\ startOp' = startOp
          \/ /\ client' = [client EXCEPT ![c].at = "start"]
             /\ startOp' = [at |-> "checking", ws |-> client[c].ws, port |-> None]
      BY <2>2, <3>1 DEF EnterStart, QueuesBehindStop, SharesStart
    <3>3. client'[c].at # "idle" => client'[c].ws = client[c].ws
      BY <1>0, <3>2 DEF Answer, Caller
    <3> QED
      BY <2>2, <3>2, <3>3
  <2> QED
    BY <2>2, <2>3, <2>4 DEF Called, Serves
<1>4. ASSUME NEW d \in Clients, EnterStop(d) PROVE Called(c)'
  <2>1. d = c /\ client[c].at = "enter" /\ client[c].op \in {"stop", "restart"}
    BY <1>4 DEF EnterStop
  <2>2. client'[c].at = "stop" /\ client'[c].op = client[c].op /\ client'[c].ws = client[c].ws
    BY <1>0, <1>4, <2>1 DEF EnterStop, Caller
  <2>3. UNCHANGED <<handle, workspaceId, startOp>>
    BY <1>4 DEF EnterStop
  <2>4. Served \/ Restarting(c)
    BY <1>1, <2>1 DEF Rejected
  <2> QED
    BY <1>1, <2>1, <2>2, <2>3, <2>4 DEF Called, Serves, Served, Restarting
<1>5. CASE StartSettles
  <2>1. client[c].at = "start" /\ UNCHANGED <<handle, workspaceId>> /\ startOp' = Idle
    BY <1>1, <1>5 DEF StartSettles
  <2>2. client'[c].at = "idle"
    BY <1>0, <1>5, <2>1 DEF StartSettles, Caller
  <2>3. Served
    BY <1>1, <2>1 DEF Restarting, Rejected
  <2> QED
    BY <2>1, <2>2, <2>3 DEF Called, Served, Serves, Idle
<1>6. CASE StopSettles
  <2>1. client[c].at = "stop" /\ UNCHANGED <<handle, workspaceId, startOp>>
    BY <1>1, <1>6 DEF StopSettles
  <2>2. stopOp \in {"done", "failed"} /\ (stopOp = "done" => handle = None)
    BY <1>6 DEF StopSettles, IInv, StopPhase
  <2>3. CASE stopOp = "failed"
    <3>1. client'[c] = [client[c] EXCEPT !.at = "idle", !.got = "failed"]
      BY <1>6, <2>1, <2>3 DEF StopSettles
    <3>2. client'[c].at = "idle" /\ client'[c].got = "failed"
      BY <1>0, <3>1 DEF Caller
    <3> QED
      BY <1>1, <2>1, <3>2 DEF Called, Rejected, Serves
  <2>4. CASE stopOp = "done"
    <3>1. client'[c].at # "idle" => client'[c].ws = client[c].ws /\ client[c].op \in {"start", "restart"}
      BY <1>0, <1>6, <2>1, <2>4 DEF StopSettles, Caller
    <3>2. Served'
      BY <2>1, <2>2, <2>4 DEF Served
    <3> QED
      BY <1>1, <2>1, <3>1, <3>2 DEF Called, Serves
  <2> QED
    BY <2>2, <2>3, <2>4
<1>7. CASE WorkspaceFound \/ StartFails \/ (\E p \in Ports : ServerListens(p))
  BY <1>0, <1>2, <1>7 DEF WorkspaceFound, StartFails, ServerListens
<1>8. CASE StartAssigns
  BY <1>0, <1>1, <1>2, <1>8 DEF StartAssigns, Serves
<1>9. CASE ServerStopsListening \/ CloseFails \/ ServerDrained
  BY <1>0, <1>2, <1>9 DEF ServerStopsListening, CloseFails, ServerDrained
<1> QED
  BY <1>3, <1>4, <1>5, <1>6, <1>7, <1>8, <1>9 DEF Progress

(* While nothing strays, the services stay on their course.                *)
LEMMA CourseStays ==
    ASSUME ServicesInv, [DesktopNext]_allVars, ~strayed'
    PROVE  OnCourse'
<1>0. /\ IInv /\ DesktopTypeOK /\ registered \in Seq(Workspaces) /\ RequestsNamed
      /\ RequestsFit /\ SelectedKnown /\ SomebodyWaits
      /\ request \in [Clients -> [op : Ops \union {"none"}, ws : Workspaces \union {None},
                                  at : {"idle", "roots", "lookup", "chosen", "mcp"}]]
      /\ client \in [Clients -> Caller] /\ asked \in Nat
  BY RootsAssumption DEF ServicesInv, DesktopTypeOK, IInv, TypeOK
<1>1. ~strayed
  BY DEF DesktopNext, Ask, Resume, Lookup, Act, Return, SyncRoots, SyncFails, allVars, deskVars
<1>2. OneAtATime /\ (asked = 0 => handle = None /\ Settled)
      /\ ((\A c \in Clients : request[c].at # "mcp") => Served)
      /\ \A c \in Clients : Chosen(c) /\ Called(c)
  BY <1>1 DEF ServicesInv, OnCourse
<1>3. Quiet.op = "none" /\ Quiet.at = "idle"
  BY DEF Quiet
(* The step of a request that is not with the lifecycle, nor then.         *)
<1>4. ASSUME NEW c \in Clients, \A d \in Clients \ {c} : request[d] = Quiet /\ request'[d] = Quiet,
             request[c].at # "mcp", request'[c].at # "mcp", asked' # 0,
             Served', Chosen(c)'
      PROVE  OnCourse'
  BY <1>3, <1>4 DEF OnCourse, OneAtATime, Settled, Chosen, Called
<1>5. ASSUME NEW c \in Clients, request[c] # Quiet
      PROVE  (\A d \in Clients \ {c} : request[d] = Quiet) /\ asked # 0
  BY <1>2, <1>5 DEF OneAtATime, Settled
<1>6. ASSUME NEW c \in Clients, NEW op \in Ops, NEW w \in Workspaces \union {None}, Ask(c, op, w)
      PROVE  OnCourse'
  <2>1. request[c] = Quiet /\ \A d \in Clients \ {c} : request[d] = Quiet
    BY <1>6 DEF Ask, Others
  <2>2. \A d \in Clients \ {c} : request'[d] = Quiet
    BY <1>0, <1>6, <2>1 DEF Ask
  <2>3. request'[c].op = op /\ request'[c].at \in {"roots", "chosen"} /\ (request'[c].at = "chosen" => op = "stop")
    BY <1>0, <1>6 DEF Ask
  <2>4. UNCHANGED <<handle, workspaceId, selected>> /\ asked' = asked + 1
        /\ (op \in {"autoStart", "openStart"} => asked = 0)
    BY <1>6 DEF Ask, vars
  <2>5. Served
    BY <1>2, <1>3, <2>1
  <2>6. Served'
    BY <2>4, <2>5 DEF Served, Serves
  <2>7. Chosen(c)'
    BY <1>2, <2>3, <2>4 DEF Chosen
  <2> QED
    BY <1>0, <1>3, <1>4, <2>1, <2>2, <2>3, <2>4, <2>6, <2>7
<1>7. ASSUME NEW c \in Clients, Resume(c) PROVE OnCourse'
  <2>1. request[c].at = "roots" /\ request[c] # Quiet
    BY <1>3, <1>7 DEF Resume
  <2>2. \A d \in Clients \ {c} : request[d] = Quiet /\ request'[d] = Quiet
    BY <1>0, <1>5, <1>7, <2>1 DEF Resume, Goes, Ends
  <2>3. (request'[c].at = "lookup" /\ request'[c].op = request[c].op) \/ request'[c] = Quiet
    BY <1>0, <1>7 DEF Resume, Goes, Ends
  <2>4. UNCHANGED <<handle, workspaceId, selected, asked>>
    BY <1>7 DEF Resume, vars
  <2>5. Served
    BY <1>2, <1>3, <2>1, <2>2
  <2>6. Served'
    BY <2>4, <2>5 DEF Served, Serves
  <2>7. Chosen(c)'
    BY <1>2, <1>3, <2>1, <2>3, <2>4 DEF Chosen
  <2> QED
    BY <1>3, <1>4, <1>5, <2>1, <2>2, <2>3, <2>4, <2>6, <2>7
<1>8. ASSUME NEW c \in Clients, Lookup(c) PROVE OnCourse'
  <2>1. request[c].at = "lookup" /\ request[c] # Quiet /\ request[c].op \notin {"none", "stop"}
    BY <1>0, <1>3, <1>8 DEF Lookup, RequestsNamed
  <2>2. \A d \in Clients \ {c} : request[d] = Quiet /\ request'[d] = Quiet
    BY <1>0, <1>5, <1>8, <2>1 DEF Lookup, Goes, Ends
  <2>3. UNCHANGED <<handle, workspaceId, selected, asked>>
    BY <1>8 DEF Lookup, vars
  <2>4. Served
    BY <1>2, <1>3, <2>1, <2>2
  <2>5. Served'
    BY <2>3, <2>4 DEF Served, Serves
  <2>6. Resolved # None => Serves(Resolved)
    <3>1. selected # None => Contains(registered, selected)
      BY <1>0, ContainsMember DEF SelectedKnown
    <3> QED
      BY <3>1 DEF Serves, Resolved
  <2>7. request'[c].at \in {"idle", "chosen"} /\ Chosen(c)'
    <3>1. CASE request[c].op = "select"
      BY <1>0, <1>3, <1>8, <3>1 DEF Lookup, Goes, Ends, Chosen
    <3>2. CASE request[c].op = "add"
      BY <1>0, <1>3, <1>8, <3>2 DEF Lookup, Goes, Ends, Chosen
    <3>3. CASE request[c].op = "start"
      BY <1>0, <1>3, <1>8, <3>3 DEF Lookup, Goes, Ends, Chosen
    <3>4. CASE request[c].op = "restart"
      <4>1. Ends(c) \/ (Resolved # None /\ Goes(c, "chosen", Resolved))
        BY <1>8, <3>4 DEF Lookup
      <4>2. request'[c] = Quiet \/ (request'[c].at = "chosen" /\ request'[c].op = "restart"
                                     /\ request'[c].ws = Resolved /\ Resolved # None)
        BY <1>0, <3>4, <4>1 DEF Goes, Ends
      <4> QED
        BY <1>3, <2>3, <2>6, <4>2 DEF Chosen, Serves
    <3>5. CASE request[c].op = "autoStart" /\ Resolved # None
      <4>1. request'[c].at = "chosen" /\ request'[c].op = "autoStart" /\ request'[c].ws = Resolved
        BY <1>0, <1>8, <3>5 DEF Lookup, Goes
      <4> QED
        BY <1>2, <2>1, <2>3, <2>6, <3>5, <4>1 DEF Chosen, Serves
    <3>6. CASE request[c].op = "openStart" \/ (request[c].op = "autoStart" /\ Resolved = None)
      <4>1. request'[c].at = "chosen" /\ request'[c].op = "openStart"
        BY <1>0, <1>8, <3>6 DEF Lookup
      <4> QED
        BY <1>2, <2>1, <2>3, <3>6, <4>1 DEF Chosen
    <3> QED
      BY <1>0, <2>1, <3>1, <3>2, <3>3, <3>4, <3>5, <3>6 DEF Ops
  <2> QED
    BY <1>4, <1>5, <2>1, <2>2, <2>3, <2>5, <2>7
<1>9. ASSUME NEW c \in Clients, Act(c) PROVE OnCourse'
  <2>1. request[c].at = "chosen" /\ request[c] # Quiet
    BY <1>3, <1>9 DEF Act
  <2>2. \A d \in Clients \ {c} : request[d] = Quiet /\ request'[d] = Quiet
    BY <1>0, <1>5, <1>9, <2>1 DEF Act, Goes, Ends
  <2>3. Served /\ asked' # 0
    BY <1>2, <1>3, <1>5, <1>9, <2>1, <2>2 DEF Act
  <2>4. startOp.at = "none"
    BY <1>0, <1>3, <2>1, <2>2, NothingUnderWay
  <2>5. UNCHANGED <<handle, workspaceId, startOp>> /\ selected' = Selects(c)
    BY <1>9 DEF Act, Invoke, vars
  <2>6. Status # "running" <=> handle = None
    BY <1>0 DEF Status, IInv, FieldsAgree
  <2>7. CASE CallFor(c) = "none"
    <3>1. request'[c] = Quiet
      BY <1>0, <1>9, <2>7 DEF Act, Ends
    <3>2. Served'
      <4>1. CASE request[c].op = "select"
        BY <2>5, <2>6, <2>7, <4>1 DEF CallFor, Served
      <4>2. CASE request[c].op # "select"
        <5>1. ~Stores(c)
          BY <2>6, <2>7, <4>2 DEF CallFor, Stores
        <5> QED
          BY <2>3, <2>5, <5>1 DEF Selects, Served, Serves
      <4> QED
        BY <4>1, <4>2
    <3> QED
      BY <1>3, <1>4, <2>1, <2>2, <2>3, <3>1, <3>2 DEF Chosen
  <2>8. CASE CallFor(c) # "none"
    <3>1. request'[c].at = "mcp" /\ client'[c] = [at |-> "enter", op |-> CallFor(c), ws |-> request[c].ws, got |-> "none"]
      BY <1>0, <1>9, <2>8 DEF Act, Goes, Invoke
    <3>2. CallFor(c) = "start" => selected' \in {None, request[c].ws}
      BY <1>9 DEF Act, Serves
    <3>3. CallFor(c) = "restart" => selected' \in {None, request[c].ws}
      <4>1. CASE Stores(c)
        BY <1>9, <2>5, <4>1 DEF Act, Serves, Selects
      <4>2. CASE ~Stores(c) /\ CallFor(c) = "restart"
        <5>1. request[c].op = "restart"
          BY <1>0, <4>2 DEF Stores, CallFor, Ops
        <5> QED
          BY <1>2, <2>1, <2>5, <4>2, <5>1, <1>9 DEF Chosen, Selects, Serves, Act
      <4> QED
        BY <4>1, <4>2
    <3>4. Served' \/ CallFor(c) = "restart"
      <4>1. CASE ~Stores(c)
        BY <2>3, <2>5, <4>1 DEF Selects, Served, Serves
      <4>2. CASE request[c].op = "openStart"
        BY <1>2, <2>1, <2>5, <4>2 DEF Chosen, Served
      <4>3. CASE request[c].op \in {"select", "add"} /\ CallFor(c) # "restart"
        BY <2>5, <2>6, <2>8, <4>3 DEF CallFor, Served
      <4> QED
        BY <4>1, <4>2, <4>3 DEF Stores
    <3>5. Called(c)'
      BY <2>4, <2>5, <3>1, <3>2, <3>3, <3>4 DEF Called, Restarting, Serves
    <3> QED
      BY <1>3, <2>2, <2>3, <3>1, <3>5 DEF OnCourse, OneAtATime, Chosen, Called
  <2> QED
    BY <2>7, <2>8
<1>10. ASSUME NEW c \in Clients, Return(c) PROVE OnCourse'
  <2>1. request[c].at = "mcp" /\ request[c] # Quiet /\ client[c].at = "idle" /\ client[c].got # "failed"
    BY <1>3, <1>10 DEF Return
  <2>2. \A d \in Clients : d # c => request[d] = Quiet /\ request'[d] = Quiet
    BY <1>0, <1>5, <1>10, <2>1 DEF Return, Ends
  <2>3. request'[c] = Quiet /\ UNCHANGED <<handle, workspaceId, selected, asked>>
    BY <1>0, <1>10 DEF Return, Ends, vars
  <2>4. Served
    BY <1>2, <2>1 DEF Called, Restarting, Rejected
  <2>5. Served'
    BY <2>3, <2>4 DEF Served, Serves
  <2> QED
    BY <1>3, <1>5, <2>1, <2>2, <2>3, <2>5 DEF OnCourse, OneAtATime, Chosen, Called
<1>11. ASSUME SyncRoots \/ UNCHANGED allVars PROVE OnCourse'
  <2>1. UNCHANGED <<request, asked, selected, handle, workspaceId, startOp, client>>
    BY <1>11 DEF SyncRoots, vars, allVars, deskVars
  <2> QED
    BY <1>2, <2>1 DEF OnCourse, OneAtATime, Settled, Served, Serves, Chosen, Called, Restarting, Rejected
<1>12. ASSUME Progress, UNCHANGED deskVars PROVE OnCourse'
  <2>1. UNCHANGED <<request, asked, selected>>
    BY <1>12 DEF deskVars
  <2>2. PICK c \in Clients : request[c].at = "mcp"
    <3>1. ~(/\ \A c \in Clients : client[c].at = "idle"
            /\ startOp.at = "none" /\ stopOp = "none")
      BY <1>12 DEF Progress, EnterStart, EnterStop, WorkspaceFound, StartFails, ServerListens,
         StartAssigns, StartSettles, ServerStopsListening, CloseFails, ServerDrained, StopSettles
    <3> QED
      BY <1>0, <3>1, NothingUnderWay
  <2>3. (\A d \in Clients \ {c} : request[d] = Quiet) /\ asked # 0
    BY <1>3, <1>5, <2>2
  <2>4. \A d \in Clients \ {c} : client[d].at = "idle"
    BY <1>0, <1>3, <2>3 DEF RequestsFit, Fit
  <2>5. Called(c)'
    BY <1>0, <1>2, <1>12, <2>1, <2>2, <2>4, CallStays
  <2>6. OneAtATime'
    BY <1>2, <2>1 DEF OneAtATime
  <2>7. \A d \in Clients \ {c} : Chosen(d)' /\ Called(d)'
    BY <1>3, <2>1, <2>3 DEF Chosen, Called
  <2>8. Chosen(c)'
    BY <2>1, <2>2 DEF Chosen
  <2> QED
    BY <2>1, <2>2, <2>3, <2>5, <2>6, <2>7, <2>8 DEF OnCourse
<1>13. ~SyncFails
  BY DEF SyncFails
<1> QED
  BY <1>6, <1>7, <1>8, <1>9, <1>10, <1>11, <1>12, <1>13 DEF DesktopNext, Ops

LEMMA ServicesInit == DesktopInit => ServicesInv
<1> SUFFICES ASSUME DesktopInit PROVE ServicesInv
  OBVIOUS
<1> USE NoneAssumption, RootsAssumption
<1>1. IInv /\ TypeOK
  BY InitInv DEF DesktopInit, IInv
<1>2. /\ selected = None /\ roots = "untouched" /\ asked = 0 /\ strayed = FALSE
      /\ handle = None /\ startOp.at = "none" /\ stopOp = "none"
      /\ \A c \in Clients : request[c] = Quiet /\ client[c].at = "idle"
      /\ request \in [Clients -> [op : Ops \union {"none"}, ws : Workspaces \union {None},
                                  at : {"idle", "roots", "lookup", "chosen", "mcp"}]]
  BY DEF DesktopInit, Init, Idle, Quiet
<1>3. Registers
  <2>1. CASE registered = <<>>
    BY <2>1, EmptySeq DEF Registers, ToSet, IsInjective
  <2>2. CASE \E w \in Workspaces : registered = <<w>>
    <3>1. PICK w \in Workspaces : registered = <<w>>
      BY <2>2
    <3>2. registered = [i \in 1..1 |-> w]
      BY <3>1
    <3>3. \A i \in 1..1 : i = 1
      OBVIOUS
    <3>4. registered \in Seq(Workspaces)
      BY <3>1
    <3>5. DOMAIN registered = 1..1 /\ \A i \in 1..1 : registered[i] = w
      BY <3>2
    <3> QED
      BY <3>3, <3>4, <3>5 DEF Registers, ToSet, IsInjective
  <2> QED
    BY <2>1, <2>2 DEF DesktopInit
<1>4. DesktopTypeOK
  <2>1. selected \in Workspaces \union {None} /\ roots \in {"untouched", "syncing", "ready", "failed"}
    BY <1>2
  <2>2. asked \in 0..MaxRequests
    BY <1>2
  <2>3. strayed \in BOOLEAN
    BY <1>2
  <2> QED
    BY <1>1, <1>2, <1>3, <2>1, <2>2, <2>3 DEF DesktopTypeOK, Registers
<1>5. RequestsNamed /\ RequestsFit /\ SelectedKnown /\ SomebodyWaits
  BY <1>2 DEF RequestsNamed, RequestsFit, Fit, SelectedKnown, SomebodyWaits, Quiet
<1>6. OnCourse
  BY <1>2 DEF OnCourse, OneAtATime, Settled, Served, Chosen, Called, Quiet
<1> QED
  BY <1>1, <1>3, <1>4, <1>5, <1>6 DEF ServicesInv, Registers

LEMMA ServicesNext == ServicesInv /\ [DesktopNext]_allVars => ServicesInv'
<1> SUFFICES ASSUME ServicesInv, [DesktopNext]_allVars PROVE ServicesInv'
  OBVIOUS
<1>1. IInv /\ DesktopTypeOK /\ registered \in Seq(Workspaces) /\ RequestsNamed /\ RequestsFit
        /\ SelectedKnown /\ SomebodyWaits
  BY DEF ServicesInv
<1>2. [Next]_vars
  BY <1>1, DesktopSteps
<1>3. IInv'
  BY <1>1, <1>2, NextInv
<1>4. TypeOK'
  BY <1>3 DEF IInv
<1>5. DesktopTypeOK' /\ Registers' /\ RequestsNamed'
  BY <1>1, <1>4, DesktopTyped
<1>6. RequestsFit' /\ SelectedKnown'
  BY <1>1, FitStays
<1>7. SomebodyWaits'
  BY <1>1, <1>2, WaitersStay
<1>8. ~strayed' => OnCourse'
  BY CourseStays
<1> QED
  BY <1>3, <1>5, <1>6, <1>7, <1>8 DEF ServicesInv, Registers

LEMMA ServicesAlways == DesktopSpec => []ServicesInv
  BY ServicesInit, ServicesNext, PTL DEF DesktopSpec

(* README.md:391, for any requests, workspaces and drives: between the     *)
(* requests the server that runs serves the selected workspace, unless two *)
(* requests overlapped, one failed, or a start named another one.          *)
THEOREM SelectionAlwaysServed == DesktopSpec => []SelectionServed
<1>1. ServicesInv => SelectionServed
  BY DEF ServicesInv, OnCourse, SelectionServed, Settled, Quiet, Served, Serves, Status
<1> QED
  BY <1>1, ServicesAlways, PTL

(* The services use the lifecycle as any caller may: every behaviour of    *)
(* theirs is one of McpLifecycle, whose theorems hold of it.               *)
THEOREM ServicesAreCallers == DesktopSpec => Spec
<1>1. ServicesInv /\ [DesktopNext]_allVars => [Next]_vars
  BY DesktopSteps DEF ServicesInv
<1>2. DesktopInit => Init
  BY DEF DesktopInit
<1> QED
  BY <1>1, <1>2, ServicesAlways, PTL DEF DesktopSpec, Spec

-----------------------------------------------------------------------------
(* DesktopApp.  A desktop that has been told to quit shuts down at once,   *)
(* and only a desktop starts the MCP server.                               *)
BootFits ==
    /\ {tray, told_to, starting, spoiled} \subseteq BOOLEAN
    /\ boot = "mcp" => mode = "desktop"
    /\ mode = "desktop" /\ quitting.requested => quitting.phase # "none"

(* What runs needs the database, until the shutdown comes to it; a close   *)
(* in its order leaves nothing of what it has closed.                      *)
ClosesInOrder ==
    /\ quitting.phase \in {"none", "dashboard"} /\ "database" \notin up
         => "mcp" \notin up /\ "tunnel" \notin up /\ ~starting
    /\ ~spoiled =>
         /\ quitting.phase \in {"tunnel", "rest", "again", "exited"} => "mcp" \notin up
         /\ quitting.phase \in {"rest", "again", "exited"} => "tunnel" \notin up
         /\ quitting.phase \in {"again", "exited"} => "database" \notin up

AppInv == A!AppTypeOK /\ BootFits /\ A!KeepsWindow /\ ClosesInOrder

LEMMA AppInitInv == A!AppInit => AppInv
<1> SUFFICES ASSUME A!AppInit PROVE AppInv
  OBVIOUS
<1>1. A!AppTypeOK
  <2>1. launches \in 0..MaxLaunches
    BY BoundsAssumption DEF A!AppInit
  <2> QED
    BY <2>1 DEF A!AppInit, A!AppTypeOK, A!Phases
<1>2. BootFits /\ A!KeepsWindow /\ ClosesInOrder
  BY DEF A!AppInit, BootFits, A!KeepsWindow, ClosesInOrder
<1> QED
  BY <1>1, <1>2 DEF AppInv

(* app.quit: a desktop never resists, a viewer has nothing that would.     *)
LEMMA QuitProceeds ==
    ASSUME A!AppTypeOK, BootFits, A!AppQuit
    PROVE  /\ mainWin' = "none" /\ viewerWin' = "none" /\ (tray' => mode # "desktop") /\ (tray' => tray) /\ tray' \in BOOLEAN
           /\ quitting' \in [requested : BOOLEAN, phase : A!Phases]
           /\ quitting'.phase = IF quitting.phase = "none" THEN "dashboard" ELSE "exited"
BY DEF A!AppTypeOK, BootFits, A!AppQuit, A!BeforeQuit, A!HidesOnClose, A!WillQuit, A!Phases

LEMMA AppNextInv == AppInv /\ [A!AppNext]_appVars => AppInv'
<1> SUFFICES ASSUME AppInv, [A!AppNext]_appVars PROVE AppInv'
  OBVIOUS
<1> USE BoundsAssumption DEF AppInv
<1>0. A!AppTypeOK /\ BootFits /\ A!KeepsWindow /\ ClosesInOrder
  OBVIOUS
(* Every way to quit.                                                      *)
<1>1. ASSUME A!AppQuit, A!Running, UNCHANGED <<mode, boot, up, starting, launches>>, told_to' \in BOOLEAN,
             spoiled' = (spoiled \/ quitting.phase # "none") \/ (quitting.phase = "again" /\ spoiled' = spoiled)
      PROVE  AppInv'
  <2>1. /\ mainWin' = "none" /\ viewerWin' = "none" /\ (tray' => mode # "desktop") /\ (tray' => tray)
        /\ tray' \in BOOLEAN
        /\ quitting' \in [requested : BOOLEAN, phase : A!Phases]
        /\ quitting'.phase = IF quitting.phase = "none" THEN "dashboard" ELSE "exited"
    BY <1>0, <1>1, QuitProceeds
  <2>2. A!AppTypeOK'
    BY <1>1, <2>1 DEF A!AppTypeOK
  <2>3. BootFits'
    BY <1>1, <2>1 DEF BootFits
  <2>4. A!KeepsWindow'
    BY <2>1 DEF A!KeepsWindow
  <2>5. ClosesInOrder'
    <3>1. ~spoiled' => ~spoiled /\ quitting.phase \in {"none", "again"}
      BY <1>0, <1>1 DEF BootFits
    <3>2. quitting.phase = "none" => quitting'.phase = "dashboard"
      BY <2>1
    <3>3. quitting.phase # "none" => quitting'.phase = "exited"
      BY <2>1
    <3> QED
      BY <1>0, <1>1, <3>1, <3>2, <3>3 DEF ClosesInOrder
  <2> QED
    BY <2>2, <2>3, <2>4, <2>5
<1>2. CASE A!Ask
  BY <1>1, <1>2 DEF A!Ask, A!Overtakes
<1>3. CASE A!QuitAgain
  BY <1>0, <1>1, <1>3 DEF A!QuitAgain, A!Running, BootFits
(* The windows and the tunnel leave the shutdown alone.                    *)
<1>4. CASE A!CloseMain
  <2>1. CASE A!AppQuit /\ A!Overtakes
    BY <1>0, <1>1, <1>4, <2>1 DEF A!CloseMain, A!Overtakes, BootFits
  <2>2. CASE ~(A!AppQuit /\ A!Overtakes)
    <3>1. /\ UNCHANGED <<viewerWin, tray, quitting, spoiled, mode, boot, up, starting, launches, told_to>>
          /\ mainWin' \in {"hidden", "none"}
          /\ mainWin' = "none" => quitting.requested
          /\ mode = "desktop"
      BY <1>0, <1>4, <2>2 DEF A!CloseMain, A!HidesOnClose
    <3> QED
      BY <3>1 DEF A!AppTypeOK, BootFits, A!KeepsWindow, ClosesInOrder
  <2> QED
    BY <2>1, <2>2
<1>5. CASE A!CloseViewer
  <2>1. CASE A!AppQuit /\ A!Overtakes
    BY <1>0, <1>1, <1>5, <2>1 DEF A!CloseViewer, A!Overtakes, BootFits
  <2>2. CASE ~(A!AppQuit /\ A!Overtakes)
    <3>1. /\ UNCHANGED <<tray, quitting, spoiled, mode, boot, up, starting, launches, told_to>>
          /\ mainWin' = (IF mode = "viewer" THEN "none" ELSE mainWin) /\ viewerWin' = "none"
      BY <1>5, <2>2 DEF A!CloseViewer
    <3> QED
      BY <3>1 DEF A!AppTypeOK, BootFits, A!KeepsWindow, ClosesInOrder
  <2> QED
    BY <2>1, <2>2
<1>6. CASE A!RevealViewer
  BY <1>6 DEF A!RevealViewer, A!OpensViewer, A!AppTypeOK, BootFits, A!KeepsWindow, ClosesInOrder
<1>7. CASE A!RevealMain
  BY <1>7 DEF A!RevealMain, A!AppTypeOK, BootFits, A!KeepsWindow, ClosesInOrder
<1>8. ASSUME NEW viewer \in BOOLEAN, A!SecondInstance(viewer) PROVE AppInv'
  BY <1>8 DEF A!SecondInstance, A!OpensViewer, A!AppTypeOK, BootFits, A!KeepsWindow, ClosesInOrder
<1>9. CASE A!TunnelAsked
  BY <1>9 DEF A!TunnelAsked, A!AppTypeOK, BootFits, A!KeepsWindow, ClosesInOrder
<1>10. CASE A!TunnelAnswered
  <2>1. /\ UNCHANGED <<mode, boot, mainWin, viewerWin, tray, quitting, launches, told_to>>
        /\ starting /\ starting' = FALSE /\ quitting.phase # "exited"
        /\ \/ up' = up \union {"tunnel"} /\ spoiled' = (spoiled \/ quitting.phase \in {"rest", "again"})
           \/ up' = up /\ spoiled' = spoiled
    BY <1>10 DEF A!TunnelAnswered, A!Running
  <2>2. A!AppTypeOK' /\ BootFits' /\ A!KeepsWindow'
    BY <1>0, <2>1 DEF A!AppTypeOK, A!Resources, BootFits, A!KeepsWindow
  <2>3. ~spoiled' => ~spoiled /\ (up' = up \/ quitting.phase \notin {"rest", "again"})
    BY <1>0, <2>1 DEF BootFits
  <2>4. up' \in {up, up \union {"tunnel"}}
    BY <2>1
  <2>5. ClosesInOrder'
    BY <1>0, <2>1, <2>3, <2>4 DEF ClosesInOrder
  <2> QED
    BY <2>2, <2>5
(* Booting, which goes on during a shutdown.                               *)
<1>11. CASE A!BootFails
  BY <1>11 DEF A!BootFails, A!AppTypeOK, BootFits, A!KeepsWindow, ClosesInOrder
<1>12. CASE A!RuntimeCreated
  BY <1>12 DEF A!RuntimeCreated, A!Overtakes, A!Resources, A!AppTypeOK, BootFits, A!KeepsWindow, ClosesInOrder
<1>13. CASE A!DashboardListens
  BY <1>13 DEF A!DashboardListens, A!Overtakes, A!Resources, A!AppTypeOK, BootFits, A!KeepsWindow, ClosesInOrder
<1>14. CASE A!AutoStarted
  BY <1>14 DEF A!AutoStarted, A!Overtakes, A!Resources, A!AppTypeOK, BootFits, A!KeepsWindow, ClosesInOrder
(* Shutting down.                                                          *)
<1>15. CASE A!StopDashboard
  BY ZenonT(60), <1>15 DEF A!StopDashboard, A!Phase, A!HasRuntime, A!Phases, A!Resources, A!AppTypeOK, BootFits, A!KeepsWindow, ClosesInOrder
<1>16. CASE A!CloseMcp
  BY <1>16 DEF A!CloseMcp, A!Phase, A!Phases, A!Resources, A!AppTypeOK, BootFits, A!KeepsWindow, ClosesInOrder
<1>17. CASE A!StopOwned
  BY <1>17 DEF A!StopOwned, A!Phase, A!Phases, A!Resources, A!AppTypeOK, BootFits, A!KeepsWindow, ClosesInOrder
<1>18. CASE A!CloseRest
  BY <1>18 DEF A!CloseRest, A!Phase, A!Phases, A!Resources, A!AppTypeOK, BootFits, A!KeepsWindow, ClosesInOrder
<1>19. CASE UNCHANGED appVars
  BY <1>19 DEF appVars, A!AppTypeOK, BootFits, A!KeepsWindow, ClosesInOrder
<1> QED
  BY <1>2, <1>3, <1>4, <1>5, <1>6, <1>7, <1>8, <1>9, <1>10, <1>11, <1>12, <1>13, <1>14,
     <1>15, <1>16, <1>17, <1>18, <1>19 DEF A!AppNext, A!Shutdown

LEMMA AppSoundStep == AppInv => A!KeepsWindow /\ A!CleanExit
  BY DEF AppInv, ClosesInOrder, A!CleanExit

-----------------------------------------------------------------------------
(* DashboardPages.  Removing one element of a sequence leaves the others.  *)
LEMMA RemoveAtKeeps ==
    ASSUME NEW S, NEW s \in Seq(S), NEW i \in 1..Len(s)
    PROVE  /\ RemoveAt(s, i) \in Seq(S) /\ Len(RemoveAt(s, i)) = Len(s) - 1
           /\ ToSet(RemoveAt(s, i)) \subseteq ToSet(s)
           /\ ToSet(s) \subseteq ToSet(RemoveAt(s, i)) \union {s[i]}
<1> DEFINE a == SubSeq(s, 1, i - 1)
           b == SubSeq(s, i + 1, Len(s))
<1>1. Len(s) \in Nat /\ i \in Int /\ 1 <= i /\ i <= Len(s)
  BY LenProperties
<1>2. \A j \in 1..Len(s) : s[j] \in S
  BY ElementOfSeq
<1>3. /\ a \in Seq(S) /\ Len(a) = i - 1
      /\ \A j \in 1..i - 1 : a[j] = s[j]
  <2>1. \A j \in 1..i - 1 : s[j] \in S
    BY <1>1, <1>2
  <2>2. /\ a \in Seq(S) /\ Len(a) = (IF 1 <= i - 1 THEN (i - 1) - 1 + 1 ELSE 0)
        /\ \A j \in 1..(i - 1) - 1 + 1 : a[j] = s[1 + j - 1]
    BY <1>1, <2>1, SubSeqProperties
  <2> HIDE DEF a
  <2> QED
    BY <1>1, <2>2
<1>4. /\ b \in Seq(S) /\ Len(b) = Len(s) - i
      /\ \A j \in 1..Len(s) - i : b[j] = s[i + j]
  <2>1. \A j \in i + 1..Len(s) : s[j] \in S
    BY <1>1, <1>2
  <2>2. /\ b \in Seq(S) /\ Len(b) = (IF i + 1 <= Len(s) THEN Len(s) - (i + 1) + 1 ELSE 0)
        /\ \A j \in 1..Len(s) - (i + 1) + 1 : b[j] = s[(i + 1) + j - 1]
    BY <1>1, <2>1, SubSeqProperties
  <2> HIDE DEF b
  <2> QED
    BY <1>1, <2>2
<1> HIDE DEF a, b
<1>5. /\ a \o b \in Seq(S) /\ Len(a \o b) = Len(a) + Len(b)
      /\ \A j \in 1..Len(a) + Len(b) : (a \o b)[j] = IF j <= Len(a) THEN a[j] ELSE b[j - Len(a)]
  BY <1>3, <1>4, ConcatProperties
<1>6. RemoveAt(s, i) = a \o b
  BY DEF RemoveAt, a, b
<1>7. ASSUME NEW j \in 1..Len(s) \ {i} PROVE \E k \in 1..Len(a \o b) : (a \o b)[k] = s[j]
  <2>1. CASE j < i
    <3>1. j \in 1..Len(a) + Len(b) /\ (a \o b)[j] = s[j]
      BY <1>1, <1>3, <1>4, <1>5, <2>1
    <3> QED
      BY <1>5, <3>1
  <2>2. CASE j > i
    <3>1. j - 1 \in 1..Len(a) + Len(b) /\ ~(j - 1 <= Len(a)) /\ (j - 1) - Len(a) = j - i
      BY <1>1, <1>3, <1>4, <2>2
    <3>2. b[j - i] = s[i + (j - i)] /\ i + (j - i) = j
      BY <1>1, <1>4, <2>2
    <3> QED
      BY <1>5, <3>1, <3>2
  <2> QED
    BY <1>1, <2>1, <2>2
<1>8. ASSUME NEW k \in 1..Len(a \o b) PROVE \E j \in 1..Len(s) : (a \o b)[k] = s[j]
  <2>1. CASE k <= Len(a)
    <3>1. (a \o b)[k] = a[k] /\ k \in 1..i - 1 /\ k \in 1..Len(s)
      BY <1>1, <1>3, <1>4, <1>5, <2>1
    <3> QED
      BY <1>3, <3>1
  <2>2. CASE ~(k <= Len(a))
    <3>1. (a \o b)[k] = b[k - Len(a)] /\ k - Len(a) \in 1..Len(s) - i
      BY <1>1, <1>3, <1>4, <1>5, <2>2
    <3>2. b[k - Len(a)] = s[i + (k - Len(a))] /\ i + (k - Len(a)) \in 1..Len(s)
      BY <1>1, <1>3, <1>4, <3>1
    <3> QED
      BY <3>1, <3>2
  <2> QED
    BY <2>1, <2>2
<1>9. DOMAIN s = 1..Len(s) /\ DOMAIN (a \o b) = 1..Len(a \o b)
  BY <1>5, LenProperties
<1>10. ToSet(a \o b) \subseteq ToSet(s) /\ ToSet(s) \subseteq ToSet(a \o b) \union {s[i]}
  <2>1. ASSUME NEW v \in ToSet(a \o b) PROVE v \in ToSet(s)
    BY <1>8, <1>9 DEF ToSet
  <2>2. ASSUME NEW v \in ToSet(s) PROVE v \in ToSet(a \o b) \union {s[i]}
    <3>1. PICK j \in 1..Len(s) : v = s[j]
      BY <1>9 DEF ToSet
    <3>2. CASE j # i
      BY <1>7, <1>9, <3>1, <3>2 DEF ToSet
    <3> QED
      BY <3>1, <3>2
  <2> QED
    BY <2>1, <2>2
<1>11. Len(a \o b) = Len(s) - 1
  BY <1>1, <1>3, <1>4, <1>5
<1> QED
  BY <1>5, <1>6, <1>10, <1>11

LEMMA RemovesAlike == \A s, i : D!RemoveAt(s, i) = RemoveAt(s, i)
  BY DEF D!RemoveAt, RemoveAt

LEMMA TailSet ==
    ASSUME NEW S, NEW s \in Seq(S), s # <<>>
    PROVE  /\ Head(s) \in S /\ Head(s) \in ToSet(s) /\ Tail(s) \in Seq(S)
           /\ ToSet(Tail(s)) \subseteq ToSet(s) /\ ToSet(s) \subseteq ToSet(Tail(s)) \union {Head(s)}
<1>1. /\ Head(s) \in S /\ Tail(s) \in Seq(S) /\ Len(Tail(s)) = Len(s) - 1
      /\ \A i \in 1..Len(Tail(s)) : Tail(s)[i] = s[i + 1]
  BY HeadTailProperties
<1>2. Len(s) \in Nat \ {0} /\ DOMAIN s = 1..Len(s) /\ DOMAIN Tail(s) = 1..Len(s) - 1
  BY <1>1, EmptySeq, LenProperties
<1>3. Head(s) = s[1]
  OBVIOUS
<1>4. \A j \in 1..Len(s) : j = 1 \/ (j - 1 \in 1..Len(s) - 1 /\ Tail(s)[j - 1] = s[j])
  <2> SUFFICES ASSUME NEW j \in 1..Len(s), j # 1
               PROVE  j - 1 \in 1..Len(s) - 1 /\ Tail(s)[j - 1] = s[j]
    OBVIOUS
  <2>1. j - 1 \in 1..Len(s) - 1 /\ (j - 1) + 1 = j
    BY <1>2
  <2> QED
    BY <1>1, <2>1
<1>5. \A k \in 1..Len(s) - 1 : k + 1 \in 1..Len(s) /\ Tail(s)[k] = s[k + 1]
  BY <1>1, <1>2
<1>6. Head(s) \in ToSet(s)
  BY <1>2, <1>3 DEF ToSet
<1>7. ToSet(Tail(s)) \subseteq ToSet(s)
  BY <1>2, <1>5 DEF ToSet
<1>8. ASSUME NEW v \in ToSet(s) PROVE v \in ToSet(Tail(s)) \union {Head(s)}
  <2>1. PICK j \in 1..Len(s) : v = s[j]
    BY <1>2 DEF ToSet
  <2>2. CASE j = 1
    BY <1>3, <2>1, <2>2
  <2>3. CASE j # 1
    <3>1. j - 1 \in DOMAIN Tail(s) /\ Tail(s)[j - 1] = v
      BY <1>2, <1>4, <2>1, <2>3
    <3> QED
      BY <3>1 DEF ToSet
  <2> QED
    BY <2>2, <2>3
<1> QED
  BY <1>1, <1>6, <1>7, <1>8

LEMMA ReplacedSet ==
    ASSUME NEW S, NEW s \in Seq(S), NEW i \in DOMAIN s, NEW e \in S
    PROVE  /\ [s EXCEPT ![i] = e] \in Seq(S) /\ Len([s EXCEPT ![i] = e]) = Len(s)
           /\ e \in ToSet([s EXCEPT ![i] = e])
           /\ ToSet([s EXCEPT ![i] = e]) \subseteq ToSet(s) \union {e}
<1>1. DOMAIN s = 1..Len(s) /\ DOMAIN [s EXCEPT ![i] = e] = 1..Len(s) /\ s \in [1..Len(s) -> S] /\ Len(s) \in Nat
  BY LenProperties
<1>2. [s EXCEPT ![i] = e] \in Seq(S) /\ Len([s EXCEPT ![i] = e]) = Len(s)
  OBVIOUS
<1> QED
  BY <1>1, <1>2 DEF ToSet

(* The operations the pages perform here are pushed when they change       *)
(* something.                                                              *)
LEMMA ChangesAnnounced ==
    \A r \in {Asked("stopTunnel", {}), Asked("selectWorkspace", {}), Asked("clearLogBuffer", {"source"})} :
        r.op \in D!MUTATING_OPERATIONS \/ r.op \in D!Elsewhere
BY DEF Asked, D!MUTATING_OPERATIONS, D!Elsewhere

(* The shape of what is under way.                                         *)
Snapshots == 0..MaxChanges + 1
Wire == [mounted : BOOLEAN, open : BOOLEAN, values : Seq(0..MaxChanges)]
PagesFit ==
    /\ now \in 0..MaxChanges /\ failures \in 0..MaxFailures
    /\ answers \in [Pages \union OtherPages -> {"none", "changed", "done", "error"}]
    /\ reads \in [Pages -> Seq(Snapshots)]
    /\ pushes \in Seq(Snapshots)
    /\ wire \in [Pages -> Wire]
    /\ shown \in [Pages -> 0..MaxChanges \union {Nothing}]
    /\ blurred \in [Pages -> BOOLEAN]
    /\ \A p \in Pages : Len(reads[p]) <= MaxReads /\ (wire[p].values # <<>> => wire[p].open)

(* No snapshot is ahead of the services.                                   *)
Behind(s) == \A v \in ToSet(s) : v = D!Unread \/ v <= now
NoneAhead == Behind(pushes) /\ \A p \in Pages : Behind(reads[p]) /\ Behind(wire[p].values)

(* A page that has missed nothing shows the services as they are, or such  *)
(* a dashboard is on its way to it.                                        *)
Arrives(p) ==
    \/ shown[p] = now
    \/ ToSet(pushes) \intersect {now, D!Unread} # {}
    \/ now \in ToSet(wire[p].values)
Followed == \A p \in Pages : ~blurred[p] => Arrives(p)

PagesInv == PagesFit /\ NoneAhead /\ Followed

LEMMA PagesInitInv == D!PagesInit => PagesInv
<1> SUFFICES ASSUME D!PagesInit PROVE PagesInv
  OBVIOUS
<1>0. MaxChanges \in Nat /\ MaxFailures \in Nat /\ MaxReads \in Nat
  BY BoundsAssumption
<1>1. \A S : << >> \in Seq(S) /\ Len(<< >>) = 0
  BY EmptySeq
<1>2. ToSet(<< >>) = {}
  BY DEF ToSet
<1>3. PagesFit
  <2>1. now \in 0..MaxChanges /\ failures \in 0..MaxFailures
    BY <1>0 DEF D!PagesInit
  <2>2. reads \in [Pages -> Seq(Snapshots)] /\ pushes \in Seq(Snapshots) /\ wire \in [Pages -> Wire]
    BY <1>1 DEF D!PagesInit, Wire
  <2>3. \A p \in Pages : Len(reads[p]) <= MaxReads /\ wire[p].values = <<>>
    BY <1>0, <1>1 DEF D!PagesInit
  <2> QED
    BY <2>1, <2>2, <2>3 DEF D!PagesInit, PagesFit
<1>4. NoneAhead
  BY <1>2 DEF D!PagesInit, NoneAhead, Behind
<1>5. Followed
  BY DEF D!PagesInit, Followed
<1> QED
  BY <1>3, <1>4, <1>5 DEF PagesInv

(* What the steps do to the invariant, by what they change.  When nothing  *)
(* of it is lost, a page is followed as before.                            *)
LEMMA StillFollowed ==
    ASSUME PagesInv, now' = now, NEW p \in Pages, ~blurred[p],
           shown[p] = now => shown'[p] = now,
           ToSet(pushes) \intersect {now, D!Unread} \subseteq ToSet(pushes'),
           ToSet(wire[p].values) \subseteq ToSet(wire'[p].values)
    PROVE  Arrives(p)'
BY DEF PagesInv, Followed, Arrives, D!Unread

(* A change that is pushed reaches every page.                             *)
LEMMA PushFollowed ==
    ASSUME NEW p \in Pages, D!Unread \in ToSet(pushes')
    PROVE  Arrives(p)'
BY DEF Arrives, D!Unread

(* A step that only asks for snapshots, reads them or drops them.          *)
LEMMA ReadsStep ==
    ASSUME PagesInv, UNCHANGED <<now, pushes, shown, blurred>>,
           failures' \in 0..MaxFailures,
           answers' \in [Pages \union OtherPages -> {"none", "changed", "done", "error"}],
           wire' \in [Pages -> Wire],
           \A p \in Pages : wire'[p].values = wire[p].values /\ (wire[p].open => wire'[p].open),
           reads' \in [Pages -> Seq(Snapshots)],
           \A p \in Pages : /\ Len(reads'[p]) <= MaxReads
                            /\ ToSet(reads'[p]) \subseteq ToSet(reads[p]) \union {D!Unread, now}
    PROVE  PagesInv'
<1>0. PagesFit /\ NoneAhead /\ now \in Nat
  BY BoundsAssumption DEF PagesInv, PagesFit
<1>1. PagesFit'
  BY <1>0 DEF PagesFit
<1>2. Behind(pushes)' /\ \A p \in Pages : Behind(wire[p].values)'
  BY <1>0 DEF NoneAhead, Behind
<1>3. ASSUME NEW p \in Pages PROVE Behind(reads[p])'
  <2>1. \A v \in ToSet(reads[p]) : v = D!Unread \/ v <= now
    BY <1>0 DEF NoneAhead, Behind
  <2>2. now <= now
    BY <1>0
  <2> QED
    BY <2>1, <2>2 DEF Behind
<1>4. Followed'
  <2> SUFFICES ASSUME NEW p \in Pages, ~blurred'[p] PROVE Arrives(p)'
    BY DEF Followed
  <2> QED
    BY StillFollowed
<1> QED
  BY <1>1, <1>2, <1>3, <1>4 DEF PagesInv, NoneAhead

(* The requests and the reading of the pages.                              *)
LEMMA PagesRead ==
    ASSUME PagesInv,
           \/ \E p \in Pages \union OtherPages :
                D!Continue(p) \/ \E r \in {Asked("stopTunnel", {}), Asked("selectWorkspace", {}),
                                           Asked("clearLogBuffer", {"source"})} : D!Malformed(p, r)
           \/ \E p \in Pages :
                \/ D!Mount(p) \/ D!Tick(p) \/ D!SocketOpens(p)
                \/ \E i \in DOMAIN reads[p] : D!Read(p, i) \/ D!RefreshFails(p, i)
           \/ UNCHANGED pageVars
    PROVE  PagesInv'
<1>0. PagesFit /\ NoneAhead /\ now \in Nat /\ MaxReads \in Nat \ {0} /\ MaxChanges \in Nat /\ MaxFailures \in Nat
  BY BoundsAssumption DEF PagesInv, PagesFit
<1>1. /\ answers \in [Pages \union OtherPages -> {"none", "changed", "done", "error"}]
      /\ reads \in [Pages -> Seq(Snapshots)] /\ wire \in [Pages -> Wire]
      /\ failures \in 0..MaxFailures
      /\ \A p \in Pages : Len(reads[p]) <= MaxReads /\ (wire[p].values # <<>> => wire[p].open)
  BY <1>0 DEF PagesFit
<1>2. D!Unread \in Snapshots /\ now \in Snapshots
  BY <1>0 DEF D!Unread, Snapshots, PagesFit
(* One page's reads change.                                                *)
<1>3. ASSUME NEW p \in Pages, NEW t \in Seq(Snapshots), reads' = [reads EXCEPT ![p] = t], Len(t) <= MaxReads,
             ToSet(t) \subseteq ToSet(reads[p]) \union {D!Unread, now},
             UNCHANGED <<now, pushes, shown, blurred>>, failures' \in 0..MaxFailures,
             answers' \in [Pages \union OtherPages -> {"none", "changed", "done", "error"}],
             wire' \in [Pages -> Wire],
             \A q \in Pages : wire'[q].values = wire[q].values /\ (wire[q].open => wire'[q].open)
      PROVE  PagesInv'
  <2>1. reads' \in [Pages -> Seq(Snapshots)]
    BY <1>1, <1>3
  <2>2. \A q \in Pages : /\ Len(reads'[q]) <= MaxReads
                         /\ ToSet(reads'[q]) \subseteq ToSet(reads[q]) \union {D!Unread, now}
    BY <1>1, <1>3
  <2> QED
    BY <1>3, <2>1, <2>2, ReadsStep
(* One is asked for.                                                       *)
<1>4. ASSUME NEW p \in Pages, Len(reads[p]) < MaxReads
      PROVE  /\ Append(reads[p], D!Unread) \in Seq(Snapshots) /\ Len(Append(reads[p], D!Unread)) <= MaxReads
             /\ ToSet(Append(reads[p], D!Unread)) \subseteq ToSet(reads[p]) \union {D!Unread, now}
  <2>1. reads[p] \in Seq(Snapshots) /\ Len(reads[p]) \in Nat
    BY <1>1, LenProperties
  <2>2. /\ Append(reads[p], D!Unread) \in Seq(Snapshots)
        /\ ToSet(Append(reads[p], D!Unread)) = ToSet(reads[p]) \union {D!Unread}
    BY <1>2, <2>1, AppendedSet
  <2>3. Len(Append(reads[p], D!Unread)) = Len(reads[p]) + 1
    BY <1>2, <2>1, AppendProperties
  <2> QED
    BY <1>0, <1>4, <2>1, <2>2, <2>3
<1>5. ASSUME NEW p \in Pages \union OtherPages, D!Continue(p) PROVE PagesInv'
  <2>1. answers' \in [Pages \union OtherPages -> {"none", "changed", "done", "error"}]
        /\ UNCHANGED <<now, pushes, wire, shown, failures, blurred>>
    BY <1>1, <1>5 DEF D!Continue
  <2>2. CASE reads' = reads
    BY <1>1, <2>1, <2>2, ReadsStep
  <2>3. CASE reads' # reads
    <3>1. p \in Pages /\ Len(reads[p]) < MaxReads /\ reads' = [reads EXCEPT ![p] = Append(reads[p], D!Unread)]
      BY <1>5, <2>3 DEF D!Continue
    <3> QED
      BY <1>1, <1>3, <1>4, <2>1, <3>1
  <2> QED
    BY <2>2, <2>3
<1>6. ASSUME NEW p \in Pages \union OtherPages, NEW r, D!Malformed(p, r) PROVE PagesInv'
  <2>1. answers' \in [Pages \union OtherPages -> {"none", "changed", "done", "error"}]
        /\ UNCHANGED <<now, reads, pushes, wire, shown, failures, blurred>>
    BY <1>1, <1>6 DEF D!Malformed, D!Answers
  <2> QED
    BY <1>1, <2>1, ReadsStep
<1>7. ASSUME NEW p \in Pages, D!Mount(p) PROVE PagesInv'
  <2>1. UNCHANGED <<now, answers, pushes, shown, failures, blurred>>
        /\ reads' = [reads EXCEPT ![p] = <<D!Unread>>]
        /\ wire' = [wire EXCEPT ![p].mounted = TRUE]
    BY <1>7 DEF D!Mount
  <2>2. wire' \in [Pages -> Wire] /\ \A q \in Pages : wire'[q].values = wire[q].values /\ wire'[q].open = wire[q].open
    BY <1>1, <2>1 DEF Wire
  <2>3. <<D!Unread>> \in Seq(Snapshots) /\ Len(<<D!Unread>>) <= MaxReads
    BY <1>0, <1>2
  <2>4. ToSet(<<D!Unread>>) \subseteq ToSet(reads[p]) \union {D!Unread, now}
    BY DEF ToSet
  <2> QED
    BY <1>1, <1>3, <2>1, <2>2, <2>3, <2>4
<1>8. ASSUME NEW p \in Pages, D!Tick(p) PROVE PagesInv'
  <2>1. UNCHANGED <<now, answers, pushes, wire, shown, failures, blurred>> /\ Len(reads[p]) < MaxReads
        /\ reads' = [reads EXCEPT ![p] = Append(reads[p], D!Unread)]
    BY <1>8 DEF D!Tick
  <2> QED
    BY <1>1, <1>3, <1>4, <2>1
<1>9. ASSUME NEW p \in Pages, D!SocketOpens(p) PROVE PagesInv'
  <2>1. UNCHANGED <<now, answers, reads, pushes, shown, failures, blurred>>
        /\ wire' = [wire EXCEPT ![p].open = TRUE]
    BY <1>9 DEF D!SocketOpens
  <2>2. wire' \in [Pages -> Wire] /\ \A q \in Pages : wire'[q].values = wire[q].values /\ (wire[q].open => wire'[q].open)
    BY <1>1, <2>1 DEF Wire
  <2> QED
    BY <1>1, <2>1, <2>2, ReadsStep
<1>10. ASSUME NEW p \in Pages, NEW i \in DOMAIN reads[p], D!Read(p, i) PROVE PagesInv'
  <2> DEFINE t == [reads[p] EXCEPT ![i] = now]
  <2>1. UNCHANGED <<now, answers, pushes, wire, shown, failures, blurred>> /\ reads' = [reads EXCEPT ![p] = t]
    BY <1>1, <1>10 DEF D!Read
  <2>2. reads[p] \in Seq(Snapshots)
    BY <1>1
  <2>3. t \in Seq(Snapshots) /\ Len(t) = Len(reads[p]) /\ ToSet(t) \subseteq ToSet(reads[p]) \union {now}
    BY <1>2, <2>2, ReplacedSet
  <2> HIDE DEF t
  <2> QED
    BY <1>1, <1>3, <2>1, <2>3
<1>11. ASSUME NEW p \in Pages, NEW i \in DOMAIN reads[p], D!RefreshFails(p, i) PROVE PagesInv'
  <2> DEFINE t == RemoveAt(reads[p], i)
  <2>1. UNCHANGED <<now, answers, pushes, wire, shown, blurred>> /\ reads' = [reads EXCEPT ![p] = t]
        /\ failures < MaxFailures /\ failures' = failures + 1
    BY <1>11, RemovesAlike DEF D!RefreshFails
  <2>2. reads[p] \in Seq(Snapshots) /\ i \in 1..Len(reads[p]) /\ Len(reads[p]) \in Nat
    BY <1>1, LenProperties
  <2>3. t \in Seq(Snapshots) /\ Len(t) = Len(reads[p]) - 1 /\ ToSet(t) \subseteq ToSet(reads[p])
    BY <2>2, RemoveAtKeeps
  <2> HIDE DEF t
  <2>4. Len(t) <= MaxReads /\ failures' \in 0..MaxFailures
    BY <1>0, <1>1, <2>1, <2>2, <2>3
  <2> QED
    BY <1>1, <1>3, <2>1, <2>3, <2>4
<1>12. ASSUME UNCHANGED pageVars PROVE PagesInv'
  <2>1. UNCHANGED <<now, answers, reads, pushes, wire, shown, failures, blurred>>
    BY <1>12 DEF pageVars
  <2> QED
    BY <1>1, <2>1, ReadsStep
<1> QED
  BY <1>5, <1>6, <1>7, <1>8, <1>9, <1>10, <1>11, <1>12

(* A step whose snapshots are no newer than the services are then.         *)
LEMMA AheadStep ==
    ASSUME PagesInv, now' \in 0..MaxChanges, now <= now',
           \A v \in ToSet(pushes') : v \in ToSet(pushes) \/ v = D!Unread \/ v = now',
           \A p \in Pages : /\ ToSet(reads'[p]) \subseteq ToSet(reads[p])
                            /\ ToSet(wire'[p].values) \subseteq ToSet(wire[p].values) \union (ToSet(pushes) \ {D!Unread})
    PROVE  NoneAhead'
<1>0. PagesFit /\ NoneAhead /\ now \in Nat /\ now' \in Nat /\ MaxChanges \in Nat
  BY BoundsAssumption DEF PagesInv, PagesFit
<1>1. \A t \in Seq(Snapshots) : \A v \in ToSet(t) : v \in Nat
  <2> SUFFICES ASSUME NEW t \in Seq(Snapshots), NEW v \in ToSet(t) PROVE v \in Nat
    OBVIOUS
  <2>1. PICK i \in 1..Len(t) : v = t[i]
    BY LenProperties DEF ToSet
  <2>2. t[i] \in Snapshots
    BY ElementOfSeq
  <2> QED
    BY <1>0, <2>1, <2>2 DEF Snapshots
<1>2. /\ \A v \in ToSet(pushes) : v \in Nat
      /\ \A p \in Pages : (\A v \in ToSet(reads[p]) : v \in Nat)
  BY <1>0, <1>1 DEF PagesFit
<1>3. ASSUME NEW p \in Pages PROVE \A v \in ToSet(wire[p].values) : v \in Nat
  <2>1. wire[p].values \in Seq(0..MaxChanges)
    BY <1>0 DEF PagesFit, Wire
  <2>2. wire[p].values \in Seq(Snapshots)
    BY <1>0, <2>1, SeqMonotonic DEF Snapshots
  <2> QED
    BY <1>1, <2>2
<1>4. Behind(pushes)'
  BY <1>0, <1>2 DEF NoneAhead, Behind, D!Unread
<1>5. ASSUME NEW p \in Pages PROVE Behind(reads[p])'
  BY <1>0, <1>2 DEF NoneAhead, Behind, D!Unread
<1>6. ASSUME NEW p \in Pages PROVE Behind(wire[p].values)'
  BY <1>0, <1>2, <1>3 DEF NoneAhead, Behind, D!Unread
<1> QED
  BY <1>4, <1>5, <1>6 DEF NoneAhead

(* The services change, and what is pushed of it.                          *)
LEMMA PagesChange ==
    ASSUME PagesInv,
           \/ \E p \in Pages \union OtherPages :
                \E r \in {Asked("stopTunnel", {}), Asked("selectWorkspace", {}),
                          Asked("clearLogBuffer", {"source"})} : D!Succeeds(p, r) \/ D!Fails(p, r)
           \/ D!Drift
           \/ \E i \in DOMAIN pushes : D!PushRead(i) \/ D!PushFails(i)
    PROVE  PagesInv'
<1>0. PagesFit /\ NoneAhead /\ Followed /\ now \in Nat /\ MaxChanges \in Nat /\ MaxFailures \in Nat
  BY BoundsAssumption DEF PagesInv, PagesFit
<1>1. /\ now \in 0..MaxChanges /\ failures \in 0..MaxFailures
      /\ answers \in [Pages \union OtherPages -> {"none", "changed", "done", "error"}]
      /\ pushes \in Seq(Snapshots) /\ Len(pushes) \in Nat /\ DOMAIN pushes = 1..Len(pushes)
  BY <1>0, LenProperties DEF PagesFit
<1>2. D!Unread \in Snapshots /\ now \in Snapshots
  BY <1>0, <1>1 DEF D!Unread, Snapshots
(* Only these change.                                                      *)
<1>3. ASSUME UNCHANGED <<reads, wire, shown>>, now' \in 0..MaxChanges, now <= now',
             failures' \in 0..MaxFailures,
             answers' \in [Pages \union OtherPages -> {"none", "changed", "done", "error"}],
             pushes' \in Seq(Snapshots),
             \A v \in ToSet(pushes') : v \in ToSet(pushes) \/ v = D!Unread \/ v = now',
             blurred' \in [Pages -> BOOLEAN], Followed'
      PROVE  PagesInv'
  <2>1. PagesFit'
    BY <1>0, <1>3 DEF PagesFit
  <2>2. NoneAhead'
    BY <1>3, AheadStep
  <2> QED
    BY <1>3, <2>1, <2>2 DEF PagesInv
<1>4. ASSUME D!Blurs PROVE blurred' \in [Pages -> BOOLEAN] /\ Followed'
  BY <1>4 DEF D!Blurs, Followed
<1>5. ASSUME UNCHANGED blurred PROVE blurred' \in [Pages -> BOOLEAN]
  BY <1>0, <1>5 DEF PagesFit
<1>6. /\ Append(pushes, D!Unread) \in Seq(Snapshots)
      /\ ToSet(Append(pushes, D!Unread)) = ToSet(pushes) \union {D!Unread}
  BY <1>1, <1>2, AppendedSet
<1>7. ASSUME NEW p \in Pages \union OtherPages,
             NEW r \in {Asked("stopTunnel", {}), Asked("selectWorkspace", {}), Asked("clearLogBuffer", {"source"})},
             D!Succeeds(p, r)
      PROVE  PagesInv'
  <2>1. /\ answers' \in [Pages \union OtherPages -> {"none", "changed", "done", "error"}]
        /\ UNCHANGED <<reads, wire, shown, failures, blurred>>
        /\ pushes' = IF r.op \in D!MUTATING_OPERATIONS THEN Append(pushes, D!Unread) ELSE pushes
        /\ \/ r.op \notin D!Elsewhere /\ now < MaxChanges /\ now' = now + 1
           \/ r.op \in D!Elsewhere /\ now' = now
    BY <1>1, <1>7 DEF D!Succeeds, D!Answers, D!Changes
  <2>2. pushes' \in Seq(Snapshots) /\ \A v \in ToSet(pushes') : v \in ToSet(pushes) \/ v = D!Unread
    BY <1>1, <1>6, <2>1
  <2>3. now' \in 0..MaxChanges /\ now <= now'
    BY <1>0, <1>1, <2>1
  <2>4. Followed'
    <3> SUFFICES ASSUME NEW q \in Pages, ~blurred'[q] PROVE Arrives(q)'
      BY DEF Followed
    <3>1. CASE r.op \in D!MUTATING_OPERATIONS
      BY <1>6, <2>1, <3>1, PushFollowed
    <3>2. CASE r.op \notin D!MUTATING_OPERATIONS
      <4>1. now' = now /\ pushes' = pushes
        BY <2>1, <3>2, ChangesAnnounced
      <4> QED
        BY <2>1, <4>1, StillFollowed
    <3> QED
      BY <3>1, <3>2
  <2> QED
    BY <1>1, <1>3, <1>5, <2>1, <2>2, <2>3, <2>4
<1>8. ASSUME NEW p \in Pages \union OtherPages, NEW r, D!Fails(p, r) PROVE PagesInv'
  <2>1. /\ answers' \in [Pages \union OtherPages -> {"none", "changed", "done", "error"}]
        /\ UNCHANGED <<reads, pushes, wire, shown, failures>>
        /\ (now < MaxChanges /\ now' = now + 1 /\ D!Blurs) \/ UNCHANGED <<now, blurred>>
    BY <1>1, <1>8 DEF D!Fails, D!Answers, D!Changes
  <2>2. now' \in 0..MaxChanges /\ now <= now'
    BY <1>0, <1>1, <2>1
  <2>3. CASE D!Blurs
    BY <1>1, <1>3, <1>4, <2>1, <2>2, <2>3
  <2>4. CASE UNCHANGED <<now, blurred>>
    <3>1. Followed'
      <4> SUFFICES ASSUME NEW q \in Pages, ~blurred'[q] PROVE Arrives(q)'
        BY DEF Followed
      <4> QED
        BY <2>1, <2>4, StillFollowed
    <3> QED
      BY <1>1, <1>3, <1>5, <2>1, <2>2, <2>4, <3>1
  <2> QED
    BY <2>1, <2>3, <2>4
<1>9. ASSUME D!Drift PROVE PagesInv'
  <2>1. UNCHANGED <<answers, reads, pushes, wire, shown, failures>> /\ now < MaxChanges /\ now' = now + 1 /\ D!Blurs
    BY <1>9 DEF D!Drift
  <2>2. now' \in 0..MaxChanges /\ now <= now'
    BY <1>0, <1>1, <2>1
  <2> QED
    BY <1>1, <1>3, <1>4, <2>1, <2>2
<1>10. ASSUME NEW i \in DOMAIN pushes, D!PushRead(i) PROVE PagesInv'
  <2> DEFINE t == [pushes EXCEPT ![i] = now]
  <2>1. UNCHANGED <<now, answers, reads, wire, shown, failures, blurred>> /\ pushes' = t
    BY <1>10 DEF D!PushRead
  <2>2. t \in Seq(Snapshots) /\ now \in ToSet(t) /\ ToSet(t) \subseteq ToSet(pushes) \union {now}
    BY <1>1, <1>2, ReplacedSet
  <2> HIDE DEF t
  <2>3. Followed'
    BY <2>1, <2>2 DEF Followed, Arrives
  <2>4. now' \in 0..MaxChanges /\ now <= now'
    BY <1>0, <1>1, <2>1
  <2> QED
    BY <1>1, <1>3, <1>5, <2>1, <2>2, <2>3, <2>4
<1>11. ASSUME NEW i \in DOMAIN pushes, D!PushFails(i) PROVE PagesInv'
  <2> DEFINE t == RemoveAt(pushes, i)
  <2>1. UNCHANGED <<now, answers, reads, wire, shown>> /\ pushes' = t /\ D!Blurs
        /\ failures < MaxFailures /\ failures' = failures + 1
    BY <1>11, RemovesAlike DEF D!PushFails
  <2>2. t \in Seq(Snapshots) /\ ToSet(t) \subseteq ToSet(pushes)
    BY <1>1, RemoveAtKeeps
  <2> HIDE DEF t
  <2>3. now' \in 0..MaxChanges /\ now <= now' /\ failures' \in 0..MaxFailures
    BY <1>0, <1>1, <2>1
  <2> QED
    BY <1>1, <1>3, <1>4, <2>1, <2>2, <2>3
<1> QED
  BY <1>7, <1>8, <1>9, <1>10, <1>11

(* What the pages take and what they lose.                                 *)
LEMMA PagesTake ==
    ASSUME PagesInv,
           \/ \E p \in Pages : \/ D!Receive(p) \/ D!SocketCloses(p)
                               \/ \E i \in DOMAIN reads[p] : D!Refreshed(p, i)
           \/ \E i \in DOMAIN pushes : D!Broadcast(i)
    PROVE  PagesInv'
<1>0. PagesFit /\ NoneAhead /\ Followed /\ now \in Nat /\ MaxChanges \in Nat /\ MaxFailures \in Nat /\ MaxReads \in Nat
  BY BoundsAssumption DEF PagesInv, PagesFit
<1>1. /\ now \in 0..MaxChanges /\ failures \in 0..MaxFailures /\ Nothing # now
      /\ reads \in [Pages -> Seq(Snapshots)] /\ wire \in [Pages -> Wire]
      /\ pushes \in Seq(Snapshots) /\ DOMAIN pushes = 1..Len(pushes)
      /\ shown \in [Pages -> 0..MaxChanges \union {Nothing}]
      /\ blurred \in [Pages -> BOOLEAN]
      /\ \A p \in Pages : Len(reads[p]) <= MaxReads /\ (wire[p].values # <<>> => wire[p].open)
  BY <1>0, BoundsAssumption, LenProperties DEF PagesFit
<1>2. \A v \in Snapshots \ {D!Unread} : v \in 0..MaxChanges
  BY <1>0 DEF Snapshots, D!Unread
<1>3. ASSUME NEW p \in Pages, NEW v \in 0..MaxChanges, v <= now, shown[p] = now, ~D!Older(p, v)
      PROVE  v = now
  BY <1>0, <1>1, <1>3 DEF D!Older
<1>4. ASSUME NEW p \in Pages, D!Receive(p) PROVE PagesInv'
  <2> DEFINE h == Head(wire[p].values)
             t == Tail(wire[p].values)
  <2>1. /\ UNCHANGED <<now, answers, reads, pushes, failures>> /\ wire[p].values # <<>>
        /\ shown' = [shown EXCEPT ![p] = h]
        /\ wire' = [wire EXCEPT ![p].values = t]
        /\ blurred' = [blurred EXCEPT ![p] = blurred[p] \/ D!Older(p, h)]
    BY <1>1, <1>4 DEF D!Receive, D!Shows
  <2>2. wire[p].values \in Seq(0..MaxChanges)
    BY <1>1 DEF Wire
  <2>3. /\ h \in 0..MaxChanges /\ h \in ToSet(wire[p].values) /\ t \in Seq(0..MaxChanges)
        /\ ToSet(t) \subseteq ToSet(wire[p].values) /\ ToSet(wire[p].values) \subseteq ToSet(t) \union {h}
    BY <2>1, <2>2, TailSet
  <2> HIDE DEF h, t
  <2>4. h <= now
    BY <1>0, <1>1, <2>3 DEF NoneAhead, Behind, D!Unread
  <2>5. wire' \in [Pages -> Wire] /\ wire'[p].values = t /\ wire'[p].open = wire[p].open
        /\ \A q \in Pages \ {p} : wire'[q] = wire[q]
    BY <1>1, <2>1, <2>3 DEF Wire
  <2>6. PagesFit'
    <3>1. shown' \in [Pages -> 0..MaxChanges \union {Nothing}]
      BY <1>1, <2>1, <2>3
    <3>2. blurred' \in [Pages -> BOOLEAN]
      BY <1>1, <2>1 DEF D!Older
    <3>3. \A q \in Pages : wire'[q].values # <<>> => wire'[q].open
      BY <1>1, <2>1, <2>5
    <3> QED
      BY <1>0, <2>1, <2>5, <3>1, <3>2, <3>3 DEF PagesFit
  <2>7. NoneAhead'
    <3>1. \A q \in Pages : ToSet(wire'[q].values) \subseteq ToSet(wire[q].values)
      BY <2>3, <2>5
    <3>2. now' \in 0..MaxChanges /\ now <= now'
      BY <1>0, <1>1, <2>1
    <3> QED
      BY <2>1, <3>1, <3>2, AheadStep
  <2>8. Followed'
    <3> SUFFICES ASSUME NEW q \in Pages, ~blurred'[q] PROVE Arrives(q)'
      BY DEF Followed
    <3>1. CASE q # p
      <4>1. ~blurred[q] /\ shown'[q] = shown[q] /\ wire'[q] = wire[q]
        BY <1>1, <2>1, <2>5, <3>1
      <4> QED
        BY <2>1, <4>1, StillFollowed
    <3>2. CASE q = p
      <4>1. ~blurred[p] /\ ~D!Older(p, h) /\ shown'[p] = h
        BY <1>1, <2>1, <3>2
      <4>2. Arrives(p)
        BY <1>0, <4>1 DEF Followed
      <4>3. CASE shown[p] = now
        BY <1>3, <2>1, <2>3, <2>4, <3>2, <4>1, <4>3 DEF Arrives
      <4>4. CASE ToSet(pushes) \intersect {now, D!Unread} # {}
        BY <2>1, <3>2, <4>4 DEF Arrives, D!Unread
      <4>5. CASE now \in ToSet(wire[p].values)
        BY <2>1, <2>3, <2>5, <3>2, <4>1, <4>5 DEF Arrives
      <4> QED
        BY <4>2, <4>3, <4>4, <4>5 DEF Arrives
    <3> QED
      BY <3>1, <3>2
  <2> QED
    BY <2>6, <2>7, <2>8 DEF PagesInv
<1>5. ASSUME NEW p \in Pages, D!SocketCloses(p) PROVE PagesInv'
  <2>1. /\ UNCHANGED <<now, answers, reads, pushes, shown>>
        /\ failures < MaxFailures /\ failures' = failures + 1
        /\ wire' = [wire EXCEPT ![p].open = FALSE, ![p].values = <<>>]
        /\ blurred' = [blurred EXCEPT ![p] = blurred[p] \/ wire[p].values # <<>>]
    BY <1>1, <1>5 DEF D!SocketCloses
  <2>2. wire' \in [Pages -> Wire] /\ wire'[p].values = <<>> /\ \A q \in Pages \ {p} : wire'[q] = wire[q]
    BY <1>1, <2>1, EmptySeq DEF Wire
  <2>3. ToSet(<<>>) = {}
    BY DEF ToSet
  <2>4. PagesFit'
    <3>1. blurred' \in [Pages -> BOOLEAN]
      BY <1>1, <2>1
    <3>2. \A q \in Pages : wire'[q].values # <<>> => wire'[q].open
      BY <1>1, <2>2
    <3>3. failures' \in 0..MaxFailures
      BY <1>0, <1>1, <2>1
    <3> QED
      BY <1>0, <2>1, <2>2, <3>1, <3>2, <3>3 DEF PagesFit
  <2>5. NoneAhead'
    <3>1. \A q \in Pages : ToSet(wire'[q].values) \subseteq ToSet(wire[q].values)
      BY <2>2, <2>3
    <3>2. now' \in 0..MaxChanges /\ now <= now'
      BY <1>0, <1>1, <2>1
    <3> QED
      BY <2>1, <3>1, <3>2, AheadStep
  <2>6. Followed'
    <3> SUFFICES ASSUME NEW q \in Pages, ~blurred'[q] PROVE Arrives(q)'
      BY DEF Followed
    <3>1. ~blurred[q] /\ ToSet(wire[q].values) \subseteq ToSet(wire'[q].values)
      <4>1. CASE q # p
        BY <1>1, <2>1, <2>2, <4>1
      <4>2. CASE q = p
        <5>1. ~blurred[p] /\ wire[p].values = <<>>
          BY <1>1, <2>1, <4>2
        <5> QED
          BY <2>2, <4>2, <5>1
      <4> QED
        BY <4>1, <4>2
    <3> QED
      BY <2>1, <3>1, StillFollowed
  <2> QED
    BY <2>4, <2>5, <2>6 DEF PagesInv
<1>6. ASSUME NEW p \in Pages, NEW i \in DOMAIN reads[p], D!Refreshed(p, i) PROVE PagesInv'
  <2> DEFINE v == reads[p][i]
             t == RemoveAt(reads[p], i)
  <2>1. /\ UNCHANGED <<now, answers, pushes, wire, failures>> /\ v # D!Unread
        /\ shown' = [shown EXCEPT ![p] = v]
        /\ reads' = [reads EXCEPT ![p] = t]
        /\ blurred' = [blurred EXCEPT ![p] =
              IF D!Alone(p) THEN v # now ELSE blurred[p] \/ D!Older(p, v)]
    BY <1>1, <1>6, RemovesAlike DEF D!Refreshed, D!Shows
  <2>2. reads[p] \in Seq(Snapshots) /\ i \in 1..Len(reads[p]) /\ DOMAIN reads[p] = 1..Len(reads[p]) /\ Len(reads[p]) \in Nat
    BY <1>1, LenProperties
  <2>3. t \in Seq(Snapshots) /\ Len(t) = Len(reads[p]) - 1 /\ ToSet(t) \subseteq ToSet(reads[p])
    BY <2>2, RemoveAtKeeps
  <2>4. v \in 0..MaxChanges /\ v <= now
    <3>1. v \in Snapshots /\ v \in ToSet(reads[p])
      BY <2>2, ElementOfSeq DEF ToSet
    <3> QED
      BY <1>0, <1>2, <2>1, <3>1 DEF NoneAhead, Behind
  <2> HIDE DEF v, t
  <2>5. PagesFit'
    <3>1. shown' \in [Pages -> 0..MaxChanges \union {Nothing}]
      BY <1>1, <2>1, <2>4
    <3>2. blurred' \in [Pages -> BOOLEAN]
      BY <1>1, <2>1 DEF D!Older
    <3>3. reads' \in [Pages -> Seq(Snapshots)]
      BY <1>1, <2>1, <2>3
    <3>4. Len(t) <= MaxReads
      BY <1>0, <1>1, <2>2, <2>3
    <3>5. \A q \in Pages : Len(reads'[q]) <= MaxReads
      BY <1>1, <2>1, <3>4
    <3> QED
      BY <1>0, <2>1, <3>1, <3>2, <3>3, <3>5 DEF PagesFit
  <2>6. NoneAhead'
    <3>1. \A q \in Pages : ToSet(reads'[q]) \subseteq ToSet(reads[q])
      BY <1>1, <2>1, <2>3
    <3>2. now' \in 0..MaxChanges /\ now <= now'
      BY <1>0, <1>1, <2>1
    <3> QED
      BY <2>1, <3>1, <3>2, AheadStep
  <2>7. Followed'
    <3> SUFFICES ASSUME NEW q \in Pages, ~blurred'[q] PROVE Arrives(q)'
      BY DEF Followed
    <3>1. CASE q # p
      <4>1. ~blurred[q] /\ shown'[q] = shown[q]
        BY <1>1, <2>1, <3>1
      <4> QED
        BY <2>1, <4>1, StillFollowed
    <3>2. CASE q = p /\ D!Alone(p)
      <4>1. shown'[p] = now'
        BY <1>1, <2>1, <3>2
      <4> QED
        BY <3>2, <4>1 DEF Arrives
    <3>3. CASE q = p /\ ~D!Alone(p)
      <4>1. ~blurred[p] /\ ~D!Older(p, v) /\ shown'[p] = v
        BY <1>1, <2>1, <3>3
      <4>2. shown[p] = now => shown'[p] = now
        BY <1>3, <2>4, <4>1
      <4> QED
        BY <2>1, <3>3, <4>1, <4>2, StillFollowed
    <3> QED
      BY <3>1, <3>2, <3>3
  <2> QED
    BY <2>5, <2>6, <2>7 DEF PagesInv
<1>7. ASSUME NEW i \in DOMAIN pushes, D!Broadcast(i) PROVE PagesInv'
  <2> DEFINE v == pushes[i]
             t == RemoveAt(pushes, i)
             longer(p) == Append(wire[p].values, v)
  <2>1. /\ UNCHANGED <<now, answers, reads, shown, failures>> /\ v # D!Unread
        /\ pushes' = t
        /\ wire' = [p \in Pages |-> IF wire[p].open THEN [wire[p] EXCEPT !.values = longer(p)] ELSE wire[p]]
        /\ blurred' = [p \in Pages |-> blurred[p] \/ ~wire[p].open]
    BY <1>7, RemovesAlike DEF D!Broadcast
  <2>2. /\ t \in Seq(Snapshots) /\ ToSet(t) \subseteq ToSet(pushes)
        /\ ToSet(pushes) \subseteq ToSet(t) \union {v}
    BY <1>1, RemoveAtKeeps
  <2>3. v \in 0..MaxChanges /\ v \in ToSet(pushes)
    <3>1. v \in Snapshots /\ v \in ToSet(pushes)
      BY <1>1, ElementOfSeq DEF ToSet
    <3> QED
      BY <1>2, <2>1, <3>1
  <2>4. ASSUME NEW p \in Pages
        PROVE  longer(p) \in Seq(0..MaxChanges) /\ ToSet(longer(p)) = ToSet(wire[p].values) \union {v}
    <3> HIDE DEF v
    <3>1. wire[p].values \in Seq(0..MaxChanges)
      BY <1>1 DEF Wire
    <3>2. /\ Append(wire[p].values, v) \in Seq(0..MaxChanges)
          /\ ToSet(Append(wire[p].values, v)) = ToSet(wire[p].values) \union {v}
      <4> DEFINE Versions == 0..MaxChanges
      <4>1. wire[p].values \in Seq(Versions) /\ v \in Versions
        BY <2>3, <3>1
      <4> HIDE DEF Versions
      <4>2. /\ Append(wire[p].values, v) \in Seq(Versions)
            /\ ToSet(Append(wire[p].values, v)) = ToSet(wire[p].values) \union {v}
        BY <4>1, AppendedSet
      <4> QED
        BY <4>2 DEF Versions
    <3> QED
      BY <3>2 DEF longer
  <2> HIDE DEF v, t, longer
  <2>5. ASSUME NEW p \in Pages
        PROVE  /\ wire'[p] \in Wire /\ wire'[p].open = wire[p].open
               /\ wire'[p].values = IF wire[p].open THEN longer(p) ELSE wire[p].values
    <3>1. wire[p] \in Wire
      BY <1>1
    <3> QED
      BY <2>1, <2>4, <3>1 DEF Wire
  <2>6. PagesFit'
    <3>1. blurred' \in [Pages -> BOOLEAN]
      BY <1>1, <2>1
    <3>2. wire' \in [Pages -> Wire]
      BY <2>1, <2>5
    <3>3. \A p \in Pages : wire'[p].values # <<>> => wire'[p].open
      BY <1>1, <2>5
    <3> QED
      BY <1>0, <2>1, <2>2, <3>1, <3>2, <3>3 DEF PagesFit
  <2>7. NoneAhead'
    <3>1. \A p \in Pages : ToSet(wire'[p].values) \subseteq ToSet(wire[p].values) \union (ToSet(pushes) \ {D!Unread})
      BY <2>1, <2>3, <2>4, <2>5
    <3>2. now' \in 0..MaxChanges /\ now <= now'
      BY <1>0, <1>1, <2>1
    <3> QED
      BY <2>1, <2>2, <3>1, <3>2, AheadStep
  <2>8. Followed'
    <3> SUFFICES ASSUME NEW p \in Pages, ~blurred'[p] PROVE Arrives(p)'
      BY DEF Followed
    <3>1. ~blurred[p] /\ wire[p].open
      BY <1>1, <2>1
    <3>2. ToSet(wire'[p].values) = ToSet(wire[p].values) \union {v}
      BY <2>4, <2>5, <3>1
    <3>3. Arrives(p)
      BY <1>0, <3>1 DEF Followed
    <3>4. CASE now \in ToSet(pushes)
      BY <2>1, <2>2, <3>2, <3>4 DEF Arrives
    <3>5. CASE D!Unread \in ToSet(pushes)
      BY <2>1, <2>2, <3>5, PushFollowed
    <3>6. CASE shown[p] = now \/ now \in ToSet(wire[p].values)
      BY <2>1, <3>2, <3>6 DEF Arrives
    <3> QED
      BY <3>3, <3>4, <3>5, <3>6 DEF Arrives
  <2> QED
    BY <2>6, <2>7, <2>8 DEF PagesInv
<1> QED
  BY <1>4, <1>5, <1>6, <1>7

LEMMA PagesNextInv == PagesInv /\ [D!PagesNext]_pageVars => PagesInv'
  BY PagesRead, PagesChange, PagesTake DEF D!PagesNext, D!Delivers, D!Pushes

-----------------------------------------------------------------------------
(* The bench: a step of one side is a step or a stutter of every side.     *)
LEMMA OneSideSteps ==
    [BenchNext]_benchVars => [DesktopNext]_allVars /\ [A!AppNext]_appVars /\ [D!PagesNext]_pageVars
  BY DEF BenchNext, ServicesStep, AppStep, PagesStep, benchVars

LEMMA BenchAlways == BenchSpec => [](ServicesInv /\ AppInv /\ PagesInv)
<1>1. BenchInit => ServicesInv /\ AppInv /\ PagesInv
  BY ServicesInit, AppInitInv, PagesInitInv DEF BenchInit
<1>2. (ServicesInv /\ AppInv /\ PagesInv) /\ [BenchNext]_benchVars => (ServicesInv /\ AppInv /\ PagesInv)'
  BY OneSideSteps, ServicesNext, AppNextInv, PagesNextInv
<1> QED
  BY <1>1, <1>2, PTL DEF BenchSpec

(* The desktop process runs the services as they are specified, so that    *)
(* what is proved of them, and of the lifecycle, holds in it.              *)
THEOREM BenchServes == BenchSpec => DesktopSpec
<1>1. BenchInit => DesktopInit
  BY DEF BenchInit
<1> QED
  BY <1>1, OneSideSteps, PTL DEF BenchSpec, DesktopSpec

(* Every side keeps its variables in their types, whatever the callers,    *)
(* workspaces, ports, drives, pages and bounds.                            *)
THEOREM MainTyped == BenchSpec => []MainTypeOK
<1>1. ServicesInv => DesktopTypeOK
  BY DEF ServicesInv
<1>2. AppInv => A!AppTypeOK
  BY DEF AppInv
<1>3. PagesInv => D!PagesTypeOK
  BY DEF PagesInv, PagesFit, D!PagesTypeOK
<1> QED
  BY <1>1, <1>2, <1>3, BenchAlways, PTL DEF MainTypeOK

(* README.md:264 and App.tsx:107: a desktop keeps its window until it is   *)
(* told to quit, a process that exits in its order leaves no tunnel, no    *)
(* MCP server and no open database behind, and a page that has missed      *)
(* nothing shows the services as they are once nothing is under way.       *)
THEOREM AppStaysSound == BenchSpec => []AppSound
<1>1. AppInv => A!AppSound
  BY AppSoundStep DEF A!AppSound
<1>2. PagesInv => D!PagesCurrent
  <2> SUFFICES ASSUME PagesInv, NEW p \in Pages, D!Settled(p), ~blurred[p] PROVE shown[p] = now
    BY DEF D!PagesCurrent
  <2>1. pushes = <<>> /\ wire[p].values = <<>>
    BY DEF D!Settled
  <2>2. ToSet(pushes) = {} /\ ToSet(wire[p].values) = {}
    BY <2>1 DEF ToSet
  <2>3. Arrives(p)
    BY DEF PagesInv, Followed
  <2> QED
    BY <2>2, <2>3 DEF Arrives
<1> QED
  BY <1>1, <1>2, BenchAlways, PTL DEF AppSound
=============================================================================

----------------------------- MODULE MCProcesses -----------------------------
(***************************************************************************)
(* The process manager on its own, as the desktop's list and its own       *)
(* callers use it, or behind the process service, as the tools do: `focus` *)
(* says which.  Through the service a process has no name before its spawn *)
(* event; in the manager it has.                                           *)
(***************************************************************************)
EXTENDS ProcessService

VARIABLE focus

bvars == <<focus, svars>>

BenchInit == ServiceInit /\ focus \in {"manager", "service"}

ManagerStep == focus = "manager" /\ Next /\ UNCHANGED <<focus, owners, call>>
ServiceStep == focus = "service" /\ ServiceNext /\ UNCHANGED focus

(* An event as the manager alone, or the manager under the service, has it.*)
In(event, served) ==
    \/ focus = "manager" /\ event /\ UNCHANGED <<focus, owners, call>>
    \/ focus = "service" /\ served /\ UNCHANGED focus

BenchFairness ==
    /\ \A p \in Procs :
          /\ WF_bvars(In(SpawnEvent(p), Spawned(p)))
          /\ WF_bvars(In(ErrorEvent(p), SpawnFailed(p)))
          /\ WF_bvars(In(TerminatorEnds(p), Killed(p)))
          /\ WF_bvars(In(CloseEvent(p), CloseEvent(p) /\ UNCHANGED <<owners, call>>))
          /\ WF_bvars(In(TimerFires(p), TimerFires(p) /\ UNCHANGED <<owners, call>>))
    /\ \A c \in Calls : WF_bvars(focus = "service" /\ Register(c) /\ UNCHANGED focus)

BenchSpec == BenchInit /\ [][ManagerStep \/ ServiceStep]_bvars /\ BenchFairness

-----------------------------------------------------------------------------
(* Behind the service a finished process has no timer left, and only its   *)
(* owner stops a process (process-service.ts 108-144).                     *)
ServedNoStrayTimer == focus = "service" => NoStrayTimer
ServedOnlyOwnerStops == [][focus = "service" => StopByOwner]_bvars

(* Every started record ends although its child may never exit, and behind *)
(* the service a running process comes to have its owner.                  *)
RecordsEndOwned == \A p \in Procs :
    /\ state[p] # "absent" ~> IsTerminal(p)
    /\ focus = "service" /\ state[p] = "running" ~> owners[p] # None
=============================================================================

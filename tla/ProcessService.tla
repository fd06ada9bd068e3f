--------------------------- MODULE ProcessService ---------------------------
(***************************************************************************)
(* ProcessService (packages/application/src/process-service.ts) on top of  *)
(* ProcessManager: which client may see and stop which process.  The owner *)
(* of a process is entered only after the manager's start() has answered,  *)
(* so between the spawn and that moment the process exists but nobody can  *)
(* name it.  Requests that are refused before the spawn (validation, cwd,  *)
(* command policy, permission) change nothing here and are left out.       *)
(***************************************************************************)
EXTENDS ProcessManager

CONSTANTS Calls,       \* requests that may be under way at a time
          Actors,      \* actor.clientId
          Workspaces,  \* workspace ids
          None

ASSUME OwnerAssumption == None \notin Actors \X Workspaces

VARIABLES
    owners,  \* the owners map: <<actor, workspace>>, or None
    call     \* what each request is waiting for

svars == <<state, timer, exitCode, os, kills, killing, owners, call>>

Owner == Actors \X Workspaces

ServiceTypeOK ==
    /\ TypeOK
    /\ owners \in [Procs -> Owner \union {None}]
    /\ call \in [Calls -> [at : {"idle", "spawning", "register", "killing"},
                           as : Owner \union {None},
                           proc : Procs \union {None}]]

NoCall == [at |-> "idle", as |-> None, proc |-> None]

ServiceInit ==
    /\ Init
    /\ owners = [p \in Procs |-> None]
    /\ call = [c \in Calls |-> NoCall]

-----------------------------------------------------------------------------
(* authorizeHandle *)
Mut_AuthorizeAnyWorkspace(as, p) == owners[p] # None /\ owners[p][1] = as[1]
Authorized(as, p) == owners[p] = as

(* The requests that wait for p at `from` go on: to another wait, or home. *)
Move(p, from, to) ==
    call' = [c \in Calls |->
                IF call[c].at # from \/ call[c].proc # p THEN call[c]
                ELSE IF to = "idle" THEN NoCall ELSE [call[c] EXCEPT !.at = to]]

(* startInternal up to and including processManager.start's first stretch. *)
Mut_StartOwnsFirst(c, as, p) ==
    /\ call[c].at = "idle"
    /\ Start(p)
    /\ call' = [call EXCEPT ![c] = [at |-> "spawning", as |-> as, proc |-> p]]
    /\ owners' = [owners EXCEPT ![p] = as]
StartCall(c, as, p) ==
    /\ call[c].at = "idle"
    /\ Start(p)
    /\ call' = [call EXCEPT ![c] = [at |-> "spawning", as |-> as, proc |-> p]]
    /\ UNCHANGED owners

(* The manager's promise settles: with the process, or with an error that  *)
(* leaves no owner behind.                                                 *)
Spawned(p) == SpawnEvent(p) /\ Move(p, "spawning", "register") /\ UNCHANGED owners
SpawnFailed(p) == ErrorEvent(p) /\ Move(p, "spawning", "idle") /\ UNCHANGED owners

(* The rest of startInternal: the caller becomes the owner.                *)
Mut_RegisterActorOnly(c) ==
    /\ call[c].at = "register"
    /\ owners' = [owners EXCEPT ![call[c].proc] = call[c].as[1]]
    /\ call' = [call EXCEPT ![c] = NoCall]
    /\ UNCHANGED mvars
Mut_RegisterNobody(c) ==
    /\ call[c].at = "register"
    /\ call' = [call EXCEPT ![c] = NoCall]
    /\ UNCHANGED owners /\ UNCHANGED mvars
Register(c) ==
    /\ call[c].at = "register"
    /\ owners' = [owners EXCEPT ![call[c].proc] = call[c].as]
    /\ call' = [call EXCEPT ![c] = NoCall]
    /\ UNCHANGED mvars

(* stop(): refused unless authorized; answered at once when nothing is to  *)
(* be killed.                                                              *)
StopCall(c, as, p) ==
    /\ call[c].at = "idle"
    /\ Authorized(as, p)
    /\ Stop(p)
    /\ call' = IF killing' = killing THEN call
               ELSE [call EXCEPT ![c] = [at |-> "killing", as |-> as, proc |-> p]]
    /\ UNCHANGED owners

Killed(p) == TerminatorEnds(p) /\ Move(p, "killing", "idle") /\ UNCHANGED owners

-----------------------------------------------------------------------------
ServiceNext ==
    \/ \E c \in Calls, as \in Owner, p \in Procs : StartCall(c, as, p) \/ StopCall(c, as, p)
    \/ \E c \in Calls : Register(c)
    \/ \E p \in Procs :
          \/ Spawned(p) \/ SpawnFailed(p) \/ Killed(p)
          \/ (ChildExits(p) \/ CloseEvent(p) \/ TimerFires(p)) /\ UNCHANGED <<owners, call>>

ServiceFairness ==
    /\ \A c \in Calls : WF_svars(Register(c))
    /\ \A p \in Procs :
          /\ WF_svars(Spawned(p)) /\ WF_svars(SpawnFailed(p)) /\ WF_svars(Killed(p))

ServiceSpec == ServiceInit /\ [][ServiceNext]_svars
FairServiceSpec == ServiceSpec /\ ServiceFairness

-----------------------------------------------------------------------------
(* A process is stopped only by a request of the client and the workspace  *)
(* that started it.                                                        *)
StopByOwner == \A p \in Procs :
    (state'[p] = "stopped" /\ state[p] # "stopped") =>
        \E c \in Calls : /\ call'[c].at = "killing" /\ call'[c].proc = p
                         /\ owners[p] = call'[c].as
OnlyOwnerStops == [][StopByOwner]_svars

(* A finished process has no timer left, although the spawn event arms it  *)
(* whatever the state: since nobody owns a process before that event has   *)
(* been handled, no stop can come in between.  (ProcessManager alone, whose*)
(* list() shows processes that are still starting, does not have this.)    *)
NoStrayTimer == \A p \in Procs : IsTerminal(p) => ~timer[p]
=============================================================================

-------------------------- MODULE ExecutionProofs ----------------------------
(***************************************************************************)
(* Proofs about what runs on behalf of a tool call.  Processes: the manager*)
(* alone, and the process service with the manager beside it as in         *)
(* MCProcesses, for any processes, requests, clients and workspaces: the   *)
(* final state of a process is never rewritten, its tree is killed at most *)
(* once and never after the child has closed; behind the service only the  *)
(* owner stops a process, and a finished process has no timer left.        *)
(* Batches, for plans of any size and shape: a call runs only after its    *)
(* dependencies have succeeded, sets run in order, a side-effecting call   *)
(* overlaps only abandoned ones, and no call is left without a result.     *)
(***************************************************************************)
EXTENDS MCProcesses, BatchExecutor, TLAPS

(* The manager.                                                            *)
-----------------------------------------------------------------------------
(* The record keeps step with the child: a record that is still open has a *)
(* child that is, and only a record past its spawn event has a timer.      *)
RecordFollowsChild == \A p \in Procs :
    /\ state[p] = "absent" <=> os[p] = "none"
    /\ state[p] = "starting" => os[p] \in {"launched", "refused"}
    /\ state[p] = "running" => os[p] \in {"alive", "dead"}
    /\ os[p] = "refused" => state[p] = "starting"

IInv == TypeOK /\ KilledOnce /\ RecordFollowsChild

LEMMA InitInv == Init => IInv
  BY DEF Init, IInv, TypeOK, KilledOnce, RecordFollowsChild, Terminal

(* Every event preserves the invariant.                                    *)
LEMMA NextInv == IInv /\ [Next]_mvars => IInv'
<1> SUFFICES ASSUME IInv, [Next]_mvars PROVE IInv'
  OBVIOUS
<1> USE DEF IInv, TypeOK, KilledOnce, RecordFollowsChild, Terminal
<1>1. ASSUME NEW p \in Procs, Start(p) PROVE IInv'
  BY <1>1 DEF Start
<1>2. ASSUME NEW p \in Procs, Stop(p) PROVE IInv'
  <2>1. CASE IsTerminal(p) \/ os[p] = "refused"
    <3>1. TypeOK'
      BY <1>2, <2>1 DEF Stop, IsTerminal, Finish, Terminate
    <3>2. KilledOnce'
      BY <1>2, <2>1 DEF Stop, IsTerminal, Finish, Terminate
    <3>3. RecordFollowsChild'
      BY <1>2, <2>1 DEF Stop, IsTerminal, Finish, Terminate
    <3> QED
      BY <3>1, <3>2, <3>3
  <2>2. CASE ~(IsTerminal(p) \/ os[p] = "refused")
    <3>1. TypeOK'
      <4>1. /\ state' = [state EXCEPT ![p] = "stopped"]
            /\ timer' = [timer EXCEPT ![p] = FALSE]
        BY <1>2, <2>2 DEF Stop, IsTerminal, Finish, Terminate
      <4>2. /\ kills' = [kills EXCEPT ![p] = @ + 1]
            /\ killing' = [killing EXCEPT ![p] = TRUE]
        BY <1>2, <2>2 DEF Stop, IsTerminal, Finish, Terminate
      <4>3. exitCode' = exitCode /\ os' = os
        BY <1>2, <2>2 DEF Stop, IsTerminal, Finish, Terminate
      <4> QED
        BY <4>1, <4>2, <4>3
    <3>2. KilledOnce'
      BY <1>2, <2>2 DEF Stop, IsTerminal, Finish, Terminate
    <3>3. RecordFollowsChild'
      BY <1>2, <2>2 DEF Stop, IsTerminal, Finish, Terminate
    <3> QED
      BY <3>1, <3>2, <3>3
  <2> QED
    BY <2>1, <2>2
<1>3. ASSUME NEW p \in Procs, SpawnEvent(p) PROVE IInv'
  BY <1>3 DEF SpawnEvent
<1>4. ASSUME NEW p \in Procs, ErrorEvent(p) PROVE IInv'
  <2>1. CASE IsTerminal(p)
    <3>1. TypeOK'
      BY <1>4, <2>1 DEF ErrorEvent, FinishOnce, IsTerminal, Finish
    <3>2. KilledOnce'
      BY <1>4, <2>1 DEF ErrorEvent, FinishOnce, IsTerminal, Finish
    <3>3. RecordFollowsChild'
      BY <1>4, <2>1 DEF ErrorEvent, FinishOnce, IsTerminal, Finish
    <3> QED
      BY <3>1, <3>2, <3>3
  <2>2. CASE ~IsTerminal(p)
    <3>1. TypeOK'
      <4>1. /\ state' = [state EXCEPT ![p] = "failed"]
            /\ timer' = [timer EXCEPT ![p] = FALSE]
        BY <1>4, <2>2 DEF ErrorEvent, FinishOnce, IsTerminal, Finish
      <4>2. exitCode' \in [Procs -> {"none", "minus1", "code"}]
        BY <1>4, <2>2 DEF ErrorEvent, FinishOnce, IsTerminal, Finish
      <4>3. kills' = kills /\ killing' = killing /\ os' = [os EXCEPT ![p] = "dead"]
        BY <1>4, <2>2 DEF ErrorEvent, FinishOnce, IsTerminal, Finish
      <4> QED
        BY <4>1, <4>2, <4>3
    <3>2. KilledOnce'
      BY <1>4, <2>2 DEF ErrorEvent, FinishOnce, IsTerminal, Finish
    <3>3. RecordFollowsChild'
      BY <1>4, <2>2 DEF ErrorEvent, FinishOnce, IsTerminal, Finish
    <3> QED
      BY <3>1, <3>2, <3>3
  <2> QED
    BY <2>1, <2>2
<1>5. ASSUME NEW p \in Procs, ChildExits(p) PROVE IInv'
  BY <1>5 DEF ChildExits
<1>6. ASSUME NEW p \in Procs, CloseEvent(p) PROVE IInv'
  <2>1. CASE IsTerminal(p)
    <3>1. TypeOK'
      BY <1>6, <2>1 DEF CloseEvent, FinishOnce, IsTerminal, Finish
    <3>2. KilledOnce'
      BY <1>6, <2>1 DEF CloseEvent, FinishOnce, IsTerminal, Finish
    <3>3. RecordFollowsChild'
      BY <1>6, <2>1 DEF CloseEvent, FinishOnce, IsTerminal, Finish
    <3> QED
      BY <3>1, <3>2, <3>3
  <2>2. CASE ~IsTerminal(p)
    <3>1. TypeOK'
      BY ZenonT(60), <1>6, <2>2 DEF CloseEvent, FinishOnce, IsTerminal, Finish
    <3>2. KilledOnce'
      BY <1>6, <2>2 DEF CloseEvent, FinishOnce, IsTerminal, Finish
    <3>3. RecordFollowsChild'
      BY <1>6, <2>2 DEF CloseEvent, FinishOnce, IsTerminal, Finish
    <3> QED
      BY <3>1, <3>2, <3>3
  <2> QED
    BY <2>1, <2>2
<1>7. ASSUME NEW p \in Procs, TimerFires(p) PROVE IInv'
  <2>1. CASE state[p] = "running"
    <3>1. TypeOK'
      <4>1. /\ state' = [state EXCEPT ![p] = "timed_out"]
            /\ timer' = [timer EXCEPT ![p] = FALSE]
        BY <1>7, <2>1 DEF TimerFires, Finish, Terminate
      <4>2. /\ kills' = [kills EXCEPT ![p] = @ + 1]
            /\ killing' = [killing EXCEPT ![p] = TRUE]
        BY <1>7, <2>1 DEF TimerFires, Finish, Terminate
      <4>3. exitCode' = exitCode /\ os' = os
        BY <1>7, <2>1 DEF TimerFires, Finish, Terminate
      <4> QED
        BY <4>1, <4>2, <4>3
    <3>2. KilledOnce'
      BY <1>7, <2>1 DEF TimerFires, Finish, Terminate
    <3>3. RecordFollowsChild'
      BY <1>7, <2>1 DEF TimerFires, Finish, Terminate
    <3> QED
      BY <3>1, <3>2, <3>3
  <2>2. CASE state[p] # "running"
    <3>1. TypeOK'
      BY <1>7, <2>2 DEF TimerFires, Finish, Terminate
    <3>2. KilledOnce'
      BY <1>7, <2>2 DEF TimerFires, Finish, Terminate
    <3>3. RecordFollowsChild'
      BY <1>7, <2>2 DEF TimerFires, Finish, Terminate
    <3> QED
      BY <3>1, <3>2, <3>3
  <2> QED
    BY <2>1, <2>2
<1>8. ASSUME NEW p \in Procs, TerminatorEnds(p) PROVE IInv'
  BY <1>8 DEF TerminatorEnds
<1>9. CASE UNCHANGED mvars
  BY <1>9 DEF mvars
<1> QED
  BY <1>1, <1>2, <1>3, <1>4, <1>5, <1>6, <1>7, <1>8, <1>9 DEF Next, Events

LEMMA AlwaysInv == Spec => []IInv
  BY InitInv, NextInv, PTL DEF Spec

(* The record says "stopped" or "timed_out" exactly when the tree was      *)
(* killed, and it was killed once.                                         *)
THEOREM AlwaysKilledOnce == Spec => []KilledOnce
  BY AlwaysInv, PTL DEF IInv

(* How a process ended is decided once.                                    *)
THEOREM FinalStays == Spec => TerminalIsFinal
<1>1. IInv /\ [Next]_mvars => [FinalStateKept]_mvars
  <2> SUFFICES ASSUME IInv, Next, NEW q \in Procs, state[q] \in Terminal
               PROVE  state'[q] = state[q]
    BY DEF FinalStateKept
  <2> USE DEF IInv, TypeOK, RecordFollowsChild
  <2>1. ASSUME NEW p \in Procs, Start(p) PROVE state'[q] = state[q]
    BY <2>1 DEF Start, Terminal
  <2>2. ASSUME NEW p \in Procs, Stop(p) PROVE state'[q] = state[q]
    BY <2>2 DEF Stop, IsTerminal, Finish
  <2>3. ASSUME NEW p \in Procs, Events(p) PROVE state'[q] = state[q]
    BY <2>3 DEF Events, SpawnEvent, ErrorEvent, ChildExits, CloseEvent, TimerFires,
       TerminatorEnds, FinishOnce, IsTerminal, Finish, Terminal
  <2> QED
    BY <2>1, <2>2, <2>3 DEF Next
<1> QED
  BY <1>1, AlwaysInv, PTL DEF Spec, TerminalIsFinal

(* No kill is sent to a child that has already closed.                     *)
THEOREM NeverKillsClosed == Spec => KillsOnlyOpenChildren
<1>1. IInv /\ [Next]_mvars => [KillTargetLive]_mvars
  <2> SUFFICES ASSUME IInv, Next, NEW q \in Procs, kills'[q] > kills[q]
               PROVE  os[q] \in {"launched", "alive", "dead"}
    BY DEF KillTargetLive
  <2> USE DEF IInv, TypeOK, RecordFollowsChild, Terminal
  <2>1. PICK p \in Procs : Stop(p) \/ TimerFires(p)
    BY DEF Next, Events, Start, SpawnEvent, ErrorEvent, ChildExits, CloseEvent,
       TerminatorEnds
  <2>2. CASE Stop(p)
    BY <2>2 DEF Stop, IsTerminal, Terminate
  <2>3. CASE TimerFires(p)
    BY <2>3 DEF TimerFires, Terminate
  <2> QED
    BY <2>1, <2>2, <2>3
<1> QED
  BY <1>1, AlwaysInv, PTL DEF Spec, KillsOnlyOpenChildren

-----------------------------------------------------------------------------
(* The service and the manager.                                            *)
BenchNext == ManagerStep \/ ServiceStep

(* A terminator is at work only on a process that has ended.               *)
KillingEnded == \A p \in Procs : killing[p] => IsTerminal(p)

(* Before its spawn event has been handled nobody owns a process, or is    *)
(* about to, so that nothing can end it: what is launched is starting.     *)
Unborn == {"none", "launched", "refused"}
UnbornUnowned == \A p \in Procs : os[p] \in Unborn =>
    owners[p] = None /\ \A c \in Calls : call[c].at = "register" => call[c].proc # p
LaunchedStarting == \A p \in Procs : os[p] = "launched" => state[p] = "starting"

Served == UnbornUnowned /\ LaunchedStarting /\ NoStrayTimer
ServiceInv ==
    /\ ServiceTypeOK /\ focus \in {"manager", "service"}
    /\ IInv /\ KillingEnded
    /\ focus = "service" => Served

LEMMA ServiceInitInv == BenchInit => ServiceInv
<1> SUFFICES ASSUME BenchInit PROVE ServiceInv
  OBVIOUS
<1> USE DEF BenchInit, ServiceInit, Init
<1>1. IInv
  BY InitInv
<1>2. ServiceTypeOK
  BY <1>1 DEF IInv, ServiceTypeOK, NoCall
<1>3. KillingEnded /\ Served
  BY DEF KillingEnded, Served, UnbornUnowned, LaunchedStarting, NoStrayTimer, IsTerminal,
     Terminal, NoCall
<1> QED
  BY <1>1, <1>2, <1>3 DEF ServiceInv

(* Whoever takes a step, the manager under it takes one of its own or none.*)
LEMMA StepOfManager == BenchNext => [Next]_mvars
  BY DEF BenchNext, ManagerStep, ServiceStep, ServiceNext, StartCall, StopCall, Register,
     Spawned, SpawnFailed, Killed, Next, Events

(* What a step of the manager does to the terminators.                     *)
LEMMA KillingEndedKept ==
  ASSUME IInv, KillingEnded, [Next]_mvars
  PROVE  KillingEnded'
<1> USE DEF IInv, TypeOK, KillingEnded, IsTerminal, Terminal
<1>1. ASSUME NEW p \in Procs, Start(p) PROVE KillingEnded'
  BY <1>1 DEF Start
<1>2. ASSUME NEW p \in Procs, Stop(p) PROVE KillingEnded'
  BY <1>2 DEF Stop, Finish, Terminate
<1>3. ASSUME NEW p \in Procs, SpawnEvent(p) PROVE KillingEnded'
  BY <1>3 DEF SpawnEvent
<1>4. ASSUME NEW p \in Procs, ErrorEvent(p) \/ CloseEvent(p) PROVE KillingEnded'
  BY <1>4 DEF ErrorEvent, CloseEvent, FinishOnce, Finish
<1>5. ASSUME NEW p \in Procs, TimerFires(p) PROVE KillingEnded'
  BY <1>5 DEF TimerFires, Finish, Terminate
<1>6. ASSUME NEW p \in Procs, TerminatorEnds(p) \/ ChildExits(p) PROVE KillingEnded'
  BY <1>6 DEF TerminatorEnds, ChildExits
<1> QED
  BY <1>1, <1>2, <1>3, <1>4, <1>5, <1>6 DEF Next, Events, mvars

LEMMA ServiceTypeKept ==
  ASSUME ServiceTypeOK, TypeOK', BenchNext
  PROVE  ServiceTypeOK'
<1> DEFINE Waits == [at : {"idle", "spawning", "register", "killing"},
                     as : Owner \union {None}, proc : Procs \union {None}]
<1> USE DEF ServiceTypeOK, NoCall, Move
<1>1. ASSUME NEW c \in Calls, NEW as \in Owner, NEW p \in Procs,
             StartCall(c, as, p) \/ StopCall(c, as, p)
      PROVE  ServiceTypeOK'
  <2>1. owners' = owners
    BY <1>1 DEF StartCall, StopCall
  <2>2. \/ call' = call
        \/ call' = [call EXCEPT ![c] = [at |-> "spawning", as |-> as, proc |-> p]]
        \/ call' = [call EXCEPT ![c] = [at |-> "killing", as |-> as, proc |-> p]]
    BY <1>1 DEF StartCall, StopCall
  <2>3. [at |-> "spawning", as |-> as, proc |-> p] \in Waits
        /\ [at |-> "killing", as |-> as, proc |-> p] \in Waits
    OBVIOUS
  <2>4. call' \in [Calls -> Waits]
    BY <2>2, <2>3
  <2> QED
    BY <2>1, <2>4
<1>2. ASSUME NEW c \in Calls, Register(c) PROVE ServiceTypeOK'
  BY <1>2 DEF Register
<1>3. ASSUME NEW p \in Procs, Spawned(p) \/ SpawnFailed(p) \/ Killed(p) PROVE ServiceTypeOK'
  BY <1>3 DEF Spawned, SpawnFailed, Killed
<1> QED
  BY <1>1, <1>2, <1>3 DEF BenchNext, ManagerStep, ServiceStep, ServiceNext

(* A step of the service keeps what holds behind it.                       *)
LEMMA ServedKept ==
  ASSUME ServiceTypeOK, IInv, KillingEnded, Served, ServiceNext
  PROVE  Served'
<1> USE OwnerAssumption
    DEF ServiceTypeOK, IInv, TypeOK, RecordFollowsChild, KillingEnded, Served, UnbornUnowned,
        LaunchedStarting, NoStrayTimer, Unborn, IsTerminal, Terminal, Owner
<1>1. ASSUME NEW c \in Calls, NEW as \in Owner, NEW p \in Procs, StartCall(c, as, p)
      PROVE  Served'
  BY <1>1 DEF StartCall, Start
<1>2. ASSUME NEW c \in Calls, NEW as \in Owner, NEW p \in Procs, StopCall(c, as, p)
      PROVE  Served'
  <2>1. os[p] \notin Unborn
    BY <1>2 DEF StopCall, Authorized
  <2>2. UNCHANGED <<os, owners>> /\ \A q \in Procs \ {p} : state'[q] = state[q] /\ timer'[q] = timer[q]
    BY <1>2 DEF StopCall, Stop, Finish
  <2>3. UNCHANGED <<state, timer>> \/ (IsTerminal(p)' /\ ~timer'[p])
    BY <1>2 DEF StopCall, Stop, Finish
  <2>4. \A d \in Calls : call'[d].at = "register" => call'[d] = call[d]
    BY <1>2 DEF StopCall
  <2> QED
    BY <2>1, <2>2, <2>3, <2>4
<1>3. ASSUME NEW c \in Calls, Register(c) PROVE Served'
  BY <1>3 DEF Register, mvars, NoCall
<1>4. ASSUME NEW p \in Procs, Spawned(p) PROVE Served'
  BY <1>4 DEF Spawned, SpawnEvent, Move, NoCall
<1>5. ASSUME NEW p \in Procs, SpawnFailed(p) PROVE Served'
  BY <1>5 DEF SpawnFailed, ErrorEvent, FinishOnce, Finish, Move, NoCall
<1>6. ASSUME NEW p \in Procs, Killed(p) PROVE Served'
  BY <1>6 DEF Killed, TerminatorEnds, Move, NoCall
<1>7. ASSUME NEW p \in Procs, ChildExits(p) \/ CloseEvent(p), UNCHANGED <<owners, call>>
      PROVE  Served'
  BY <1>7 DEF ChildExits, CloseEvent, FinishOnce, Finish
<1>8. ASSUME NEW p \in Procs, TimerFires(p), UNCHANGED <<owners, call>> PROVE Served'
  BY <1>8 DEF TimerFires, Finish
<1> QED
  BY <1>1, <1>2, <1>3, <1>4, <1>5, <1>6, <1>7, <1>8 DEF ServiceNext

LEMMA ServiceNextInv == ServiceInv /\ [BenchNext]_bvars => ServiceInv'
<1> SUFFICES ASSUME ServiceInv, BenchNext PROVE ServiceInv'
  <2> SUFFICES ASSUME ServiceInv, UNCHANGED bvars PROVE ServiceInv'
    BY DEF bvars
  <2>1. IInv'
    BY NextInv DEF ServiceInv, bvars, svars, mvars
  <2> QED
    BY <2>1 DEF ServiceInv, bvars, svars, ServiceTypeOK, TypeOK, KillingEnded, Served,
       UnbornUnowned, LaunchedStarting, NoStrayTimer, IsTerminal
<1>1. IInv' /\ KillingEnded'
  BY StepOfManager, NextInv, KillingEndedKept DEF ServiceInv
<1>2. ServiceTypeOK'
  BY <1>1, ServiceTypeKept DEF ServiceInv, IInv
<1>3. focus' = focus
  BY DEF BenchNext, ManagerStep, ServiceStep
<1>4. (focus = "service" => Served)'
  <2> SUFFICES ASSUME focus = "service" PROVE Served'
    BY <1>3
  <2>1. ServiceNext
    BY DEF BenchNext, ManagerStep, ServiceStep
  <2> QED
    BY <2>1, ServedKept DEF ServiceInv
<1> QED
  BY <1>1, <1>2, <1>3, <1>4 DEF ServiceInv

LEMMA AlwaysServiceInv == BenchSpec => []ServiceInv
<1>1. BenchSpec => BenchInit /\ [][BenchNext]_bvars
  BY DEF BenchSpec, BenchNext
<1> QED
  BY <1>1, ServiceInitInv, ServiceNextInv, PTL

(* The variables of manager and service keep to their types.               *)
THEOREM ServiceTyped == BenchSpec => []ServiceTypeOK
  BY AlwaysServiceInv, PTL DEF ServiceInv

(* Behind the service no finished process has a timer left, although the   *)
(* spawn event arms it whatever the state (process-manager.ts:67).         *)
THEOREM NoTimerStrays == BenchSpec => []ServedNoStrayTimer
<1>1. ServiceInv => ServedNoStrayTimer
  BY DEF ServiceInv, Served, ServedNoStrayTimer
<1> QED
  BY <1>1, AlwaysServiceInv, PTL

(* Behind the service a process is stopped only for the client and the     *)
(* workspace that started it (process-service.ts:108).                     *)
THEOREM OwnerStops == BenchSpec => ServedOnlyOwnerStops
<1>1. ServiceInv /\ [BenchNext]_bvars => [focus = "service" => StopByOwner]_bvars
  <2> SUFFICES ASSUME ServiceInv, BenchNext, focus = "service",
                      NEW p \in Procs, state'[p] = "stopped", state[p] # "stopped"
               PROVE  \E c \in Calls : /\ call'[c].at = "killing" /\ call'[c].proc = p
                                       /\ owners[p] = call'[c].as
    BY DEF StopByOwner
  <2> USE DEF ServiceInv, ServiceTypeOK, IInv, TypeOK, KillingEnded
  <2>1. ServiceNext
    BY DEF BenchNext, ManagerStep, ServiceStep
  <2>2. PICK c \in Calls, as \in Owner, q \in Procs : StopCall(c, as, q)
    BY <2>1 DEF ServiceNext, StartCall, Start, Register, mvars, Spawned, SpawnEvent, SpawnFailed,
       ErrorEvent, Killed, TerminatorEnds, ChildExits, CloseEvent, TimerFires, FinishOnce, Finish
  <2>3. q = p /\ ~IsTerminal(p) /\ killing' = [killing EXCEPT ![p] = TRUE]
    BY <2>2 DEF StopCall, Stop, Finish, Terminate
  <2>4. killing' # killing
    BY <2>3
  <2> QED
    BY <2>2, <2>3, <2>4 DEF StopCall, Authorized
<1>2. BenchSpec => [][BenchNext]_bvars
  BY DEF BenchSpec, BenchNext
<1> QED
  BY <1>1, <1>2, AlwaysServiceInv, PTL DEF ServedOnlyOwnerStops

(* The batch executor.                                                     *)
-----------------------------------------------------------------------------
(* Every call of the plan is in exactly one place: before the current set  *)
(* (with a result), in it (pending, in the wave, or with a result), or     *)
(* after it (untouched).                                                   *)
Bookkeeping ==
    /\ pending \subseteq InSet(cur) /\ wave \subseteq InSet(cur)
    /\ pending \intersect wave = {}
    /\ \A c \in pending \union wave : result[c] = "none"
    /\ \A c \in PlanCalls : plan.set[c] < cur => result[c] # "none"
    /\ \A c \in PlanCalls : plan.set[c] > cur => result[c] = "none"
    /\ \A c \in PlanCalls : plan.set[c] = cur /\ result[c] = "none" => c \in pending \union wave
    /\ phase # "await" => wave = {}
    /\ phase = "rejected" \/ ValidPlan(plan)

(* An invocation is either raced in the wave or has been abandoned.        *)
RunningKnown == \A c \in running :
    \/ c \in wave /\ outcome[c] \in {"none", "timed_out", "cancelled"}
    \/ result[c] \in {"timed_out", "cancelled"}

WaveAlone == \A c \in wave \intersect plan.unsafe, d \in wave : c = d

BatchInv == BatchTypeOK /\ Bookkeeping /\ RunningKnown /\ WaveAlone /\ DependenciesFirst

-----------------------------------------------------------------------------
(* First picks at most one call of a set.                                  *)
LEMMA FirstUnique ==
    ASSUME NEW S \in SUBSET PlanCalls
    PROVE  First(S) \subseteq S /\ \A c, d \in First(S) : c = d
  BY BatchAssumption DEF First, PlanCalls

(* selectWave returns candidates, and an unsafe one only alone.            *)
LEMMA SelectWaveSafe ==
    ASSUME NEW S \in SUBSET PlanCalls
    PROVE  /\ SelectWave(S) \subseteq S
           /\ \A c \in SelectWave(S) \intersect plan.unsafe, d \in SelectWave(S) : c = d
<1>1. CASE ~plan.parallel[cur]
  BY <1>1, FirstUnique DEF SelectWave
<1>2. CASE plan.parallel[cur] /\ S \intersect plan.unsafe = {}
  BY <1>2 DEF SelectWave
<1>3. CASE plan.parallel[cur] /\ S \intersect plan.unsafe # {}
  <2>1. SelectWave(S) = First(S \intersect plan.unsafe)
    BY <1>3 DEF SelectWave
  <2> QED
    BY <2>1, FirstUnique
<1> QED
  BY <1>1, <1>2, <1>3

(* In a plan that passed validatePlan every dependency is a call.          *)
LEMMA DepsAreCalls ==
    ASSUME BatchInv, phase # "rejected"
    PROVE  \A c \in PlanCalls : plan.deps[c] \subseteq PlanCalls
  BY DEF BatchInv, BatchTypeOK, Plan, Bookkeeping, ValidPlan

LEMMA BatchInitInv == BatchInit => BatchInv
<1> SUFFICES ASSUME BatchInit PROVE BatchInv
  OBVIOUS
<1> USE BatchAssumption, PlansAssumption DEF BatchInit
<1>1. BatchTypeOK
  BY DEF BatchTypeOK, InSet, Settled, Status
<1>2. Bookkeeping
  BY DEF Bookkeeping, InSet, Plan, Sets, PlanCalls, ValidPlan
<1>3. RunningKnown /\ WaveAlone /\ DependenciesFirst
  BY DEF RunningKnown, WaveAlone, DependenciesFirst, Started
<1> QED
  BY <1>1, <1>2, <1>3 DEF BatchInv

-----------------------------------------------------------------------------
(* Starting a wave.                                                        *)
LEMMA RunWaveInv == BatchInv /\ RunWave => BatchInv'
<1> SUFFICES ASSUME BatchInv, RunWave PROVE BatchInv'
  OBVIOUS
<1> USE BatchAssumption DEF BatchInv
<1>1. /\ wave' \subseteq Ready \ Blocked
      /\ \A c \in wave' \intersect plan.unsafe, d \in wave' : c = d
  <2>1. Ready \ Blocked \in SUBSET PlanCalls
    BY DEF Ready, BatchTypeOK
  <2> QED
    BY <2>1, SelectWaveSafe DEF RunWave
<1>2. wave' \subseteq pending /\ Blocked \subseteq pending /\ Blocked \intersect wave' = {}
  BY <1>1 DEF Ready, Blocked
<1>3. /\ plan' = plan /\ cur' = cur /\ aborted' = aborted
      /\ result' = [c \in PlanCalls |-> IF c \in Blocked THEN "skipped" ELSE result[c]]
      /\ pending' = pending \ (Blocked \union wave')
      /\ outcome' = [c \in PlanCalls |-> "none"]
      /\ running' = running \union wave'
      /\ phase' = IF wave' = {} THEN "loop" ELSE "await"
      /\ wave = {}
  BY DEF RunWave, Give, Looping, Bookkeeping
<1>4. BatchTypeOK'
  BY <1>2, <1>3 DEF BatchTypeOK, Settled, Status
<1>5. Bookkeeping'
  <2>1. InSet(cur)' = InSet(cur) /\ phase = "loop"
    BY <1>3 DEF InSet, RunWave, Looping
  <2>2. \A c \in PlanCalls : result'[c] = IF c \in Blocked THEN "skipped" ELSE result[c]
    BY <1>3
  <2>3. /\ phase' # "await" => wave' = {}
        /\ (phase = "rejected" \/ ValidPlan(plan))'
    BY <1>3, <2>1 DEF Bookkeeping, ValidPlan
  <2>4. /\ pending' \subseteq InSet(cur) /\ wave' \subseteq InSet(cur)
        /\ pending' \intersect wave' = {}
        /\ \A c \in pending' \union wave' : result'[c] = "none"
    BY <1>2, <1>3, <2>2 DEF Bookkeeping, BatchTypeOK
  <2>5. /\ \A c \in PlanCalls : plan.set[c] < cur => result'[c] # "none"
        /\ \A c \in PlanCalls : plan.set[c] = cur /\ result'[c] = "none"
                             => c \in pending' \union wave'
    BY <1>2, <1>3, <2>2 DEF Bookkeeping
  <2>6. \A c \in PlanCalls : plan.set[c] > cur => result'[c] = "none"
    BY <1>2, <2>2 DEF Bookkeeping, InSet, BatchTypeOK, Plan, Sets
  <2> QED
    BY <1>3, <2>1, <2>3, <2>4, <2>5, <2>6 DEF Bookkeeping
<1>6. RunningKnown'
  BY <1>2, <1>3 DEF RunningKnown, BatchTypeOK, Bookkeeping
<1>7. WaveAlone'
  BY <1>1, <1>3 DEF WaveAlone
<1>8. DependenciesFirst'
  <2>1. ASSUME NEW c \in PlanCalls, NEW d \in plan.deps[c], c \in wave'
        PROVE  result[d] = "succeeded"
    BY <1>1, <2>1 DEF Ready, Blocked
  <2>2. ASSUME NEW c \in PlanCalls, result[c] # "none" PROVE result'[c] = result[c]
    BY <2>2, <1>2, <1>3 DEF Bookkeeping
  <2>3. ASSUME NEW c \in PlanCalls, Started(c)', c \notin wave' PROVE Started(c)
    BY <2>3, <1>3 DEF Started, BatchTypeOK
  <2>4. \A c \in PlanCalls : plan.deps[c] \subseteq PlanCalls
    BY DepsAreCalls DEF RunWave, Looping
  <2>5. ASSUME NEW c \in PlanCalls, NEW d \in plan.deps[c], result[d] = "succeeded"
        PROVE  result'[d] = "succeeded"
    BY <2>2, <2>4, <2>5
  <2> QED
    BY <2>1, <2>3, <2>5, <1>3 DEF DependenciesFirst
<1> QED
  BY <1>4, <1>5, <1>6, <1>7, <1>8

(* Every step preserves the invariant.                                     *)
LEMMA BatchNextInv == BatchInv /\ [BatchNext]_vars => BatchInv'
<1> SUFFICES ASSUME BatchInv, [BatchNext]_vars PROVE BatchInv'
  OBVIOUS
<1> USE BatchAssumption DEF BatchInv
<1>1. CASE SetCancelled \/ SetUnresolved
  <2>1. PICK r \in {"cancelled", "skipped"} : result' = Give(pending, r)
    BY <1>1 DEF SetCancelled, SetUnresolved
  <2>2. /\ plan' = plan /\ cur' = cur /\ aborted' = aborted /\ phase' = phase
        /\ wave' = wave /\ outcome' = outcome /\ running' = running
        /\ pending' = {} /\ phase = "loop"
    BY <1>1 DEF SetCancelled, SetUnresolved, Looping
  <2>3. BatchTypeOK'
    BY <2>1, <2>2 DEF BatchTypeOK, Give, Settled, Status
  <2>4. Bookkeeping'
    BY <2>1, <2>2 DEF BatchTypeOK, Bookkeeping, Give, InSet, ValidPlan
  <2>5. RunningKnown' /\ WaveAlone'
    BY <2>1, <2>2 DEF RunningKnown, WaveAlone, BatchTypeOK, Bookkeeping, Give
  <2>6. DependenciesFirst'
    BY <2>1, <2>2, DepsAreCalls DEF DependenciesFirst, Started, BatchTypeOK, Bookkeeping, Give
  <2> QED
    BY <2>3, <2>4, <2>5, <2>6
<1>2. CASE RunWave
  BY <1>2, RunWaveInv
<1>3. CASE NextSet
  <2>1. BatchTypeOK'
    BY <1>3 DEF NextSet, BatchTypeOK, InSet
  <2>2. Bookkeeping'
    BY <1>3 DEF NextSet, BatchTypeOK, Plan, Sets, Bookkeeping, InSet, ValidPlan
  <2>3. RunningKnown' /\ WaveAlone' /\ DependenciesFirst'
    BY <1>3 DEF NextSet, RunningKnown, WaveAlone, DependenciesFirst, Started
  <2> QED
    BY <2>1, <2>2, <2>3
<1>4. CASE Finalize
  <2>1. \A c \in PlanCalls : result[c] # "none"
    BY <1>4 DEF Finalize, BatchTypeOK, Plan, Sets, Bookkeeping
  <2>2. UNCHANGED <<plan, cur, pending, wave, outcome, result, running, aborted>>
        /\ phase' = "done" /\ phase = "loop"
    BY <1>4, <2>1 DEF Finalize, Give, BatchTypeOK
  <2> QED
    BY <2>2 DEF BatchTypeOK, Bookkeeping, InSet, RunningKnown, WaveAlone, DependenciesFirst,
       Started, ValidPlan
<1>5. ASSUME NEW c \in PlanCalls, InvocationEnds(c) PROVE BatchInv'
  <2>1. BatchTypeOK'
    BY <1>5 DEF InvocationEnds, InRace, BatchTypeOK, Settled
  <2>2. Bookkeeping'
    BY <1>5 DEF InvocationEnds, Bookkeeping, InSet, ValidPlan
  <2>3. RunningKnown'
    BY <1>5 DEF InvocationEnds, InRace, RunningKnown, BatchTypeOK
  <2>4. WaveAlone' /\ DependenciesFirst'
    BY <1>5 DEF InvocationEnds, WaveAlone, DependenciesFirst, Started
  <2> QED
    BY <2>1, <2>2, <2>3, <2>4
<1>6. ASSUME NEW c \in PlanCalls, TimesOut(c) PROVE BatchInv'
  <2>1. BatchTypeOK'
    BY <1>6 DEF TimesOut, BatchTypeOK, Settled
  <2>2. Bookkeeping'
    BY <1>6 DEF TimesOut, Bookkeeping, InSet, ValidPlan
  <2>3. RunningKnown'
    BY <1>6 DEF TimesOut, InRace, RunningKnown, BatchTypeOK
  <2>4. WaveAlone' /\ DependenciesFirst'
    BY <1>6 DEF TimesOut, WaveAlone, DependenciesFirst, Started
  <2> QED
    BY <2>1, <2>2, <2>3, <2>4
<1>7. CASE Abort
  <2>1. BatchTypeOK'
    BY <1>7 DEF Abort, BatchTypeOK, Settled
  <2>2. Bookkeeping'
    BY <1>7 DEF Abort, Bookkeeping, InSet, ValidPlan
  <2>3. RunningKnown'
    BY <1>7 DEF Abort, InRace, RunningKnown, BatchTypeOK
  <2>4. WaveAlone' /\ DependenciesFirst'
    BY <1>7 DEF Abort, WaveAlone, DependenciesFirst, Started
  <2> QED
    BY <2>1, <2>2, <2>3, <2>4
<1>8. CASE WaveSettles
  <2>1. BatchTypeOK'
    BY <1>8 DEF WaveSettles, BatchTypeOK, Settled, Status
  <2>2. Bookkeeping'
    BY <1>8 DEF WaveSettles, BatchTypeOK, Bookkeeping, InSet, ValidPlan
  <2>3. RunningKnown' /\ WaveAlone'
    BY <1>8 DEF WaveSettles, RunningKnown, WaveAlone, BatchTypeOK, Bookkeeping
  <2>4. DependenciesFirst'
    <3>1. \A c \in PlanCalls : result[c] # "none" => result'[c] = result[c]
      BY <1>8 DEF WaveSettles, Bookkeeping, BatchTypeOK
    <3>2. ASSUME NEW c \in PlanCalls, Started(c)' PROVE Started(c)
      BY <1>8, <3>2 DEF WaveSettles, Started, BatchTypeOK
    <3> QED
      BY <1>8, <3>1, <3>2, DepsAreCalls DEF WaveSettles, DependenciesFirst
  <2> QED
    BY <2>1, <2>2, <2>3, <2>4
<1>9. CASE UNCHANGED vars
  BY <1>9 DEF vars, BatchTypeOK, Bookkeeping, InSet, RunningKnown, WaveAlone,
     DependenciesFirst, Started, ValidPlan
<1> QED
  BY <1>1, <1>2, <1>3, <1>4, <1>5, <1>6, <1>7, <1>8, <1>9 DEF BatchNext

LEMMA BatchAlwaysInv == BatchSpec => []BatchInv
  BY BatchInitInv, BatchNextInv, PTL DEF BatchSpec

(* Every variable keeps its type.                                          *)
THEOREM BatchTyped == BatchSpec => []BatchTypeOK
<1>1. BatchInv => BatchTypeOK
  BY DEF BatchInv
<1> QED
  BY <1>1, BatchAlwaysInv, PTL

(* A call is started only when all its dependencies have succeeded.        *)
THEOREM DependenciesHonoured == BatchSpec => []DependenciesFirst
  BY BatchAlwaysInv, PTL DEF BatchInv

(* Sets run one after another.                                             *)
THEOREM SetsSequential == BatchSpec => []SetsInOrder
<1>1. BatchInv => SetsInOrder
  <2> SUFFICES ASSUME BatchInv, NEW c \in PlanCalls, NEW d \in PlanCalls, Started(c),
                      plan.set[d] < plan.set[c]
               PROVE  result[d] # "none"
    BY DEF SetsInOrder
  <2> USE BatchAssumption DEF BatchInv, BatchTypeOK, Plan, Sets
  <2>1. c \in wave \/ result[c] # "none"
    BY DEF Started, RunningKnown
  <2>2. plan.set[c] <= cur
    BY <2>1 DEF Bookkeeping, InSet
  <2> QED
    BY <2>2 DEF Bookkeeping
<1> QED
  BY <1>1, BatchAlwaysInv, PTL

(* OrderHonoured: dependencies and groups together.                        *)
THEOREM OrderAlwaysHonoured == BatchSpec => []OrderHonoured
  BY DependenciesHonoured, SetsSequential, PTL DEF OrderHonoured

(* A side-effecting invocation overlaps another one only if one of the two *)
(* was abandoned by its timeout or by the abort.                           *)
THEOREM UnsafeOverlapsOnlyAbandoned == BatchSpec => []UnsafeAlone
<1>1. BatchInv => UnsafeAlone
  BY DEF BatchInv, BatchTypeOK, RunningKnown, WaveAlone, UnsafeAlone, Abandoned
<1> QED
  BY <1>1, BatchAlwaysInv, PTL

(* finalize never has to invent a result.                                  *)
THEOREM EveryCallAccounted == BatchSpec => []NothingForgotten
<1>1. BatchInv => NothingForgotten
  BY BatchAssumption DEF BatchInv, BatchTypeOK, Plan, Sets, Bookkeeping, NothingForgotten
<1> QED
  BY <1>1, BatchAlwaysInv, PTL

(* Once the caller has aborted no invocation is started any more: what     *)
(* runs can only end, whatever wave was awaited when the signal came.      *)
THEOREM AbortStops == BatchSpec => AbortStartsNothing
<1>1. [BatchNext]_vars => [NoStartOnceAborted]_vars
  <2> SUFFICES ASSUME BatchNext, aborted PROVE running' \subseteq running
    BY DEF NoStartOnceAborted
  <2>1. ~RunWave
    BY DEF RunWave, Looping
  <2>2. ASSUME NEW c \in PlanCalls, InvocationEnds(c) \/ TimesOut(c)
        PROVE  running' \subseteq running
    BY <2>2 DEF InvocationEnds, TimesOut
  <2> QED
    BY <2>1, <2>2 DEF BatchNext, SetCancelled, SetUnresolved, NextSet, Finalize, Abort, WaveSettles
<1> QED
  BY <1>1, PTL DEF BatchSpec, AbortStartsNothing

(* A result, once recorded, stands.                                        *)
THEOREM ResultsStand == BatchSpec => ResultsFinal
<1>1. BatchInv /\ [BatchNext]_vars => [ResultKept]_vars
  <2> SUFFICES ASSUME BatchInv, BatchNext, NEW c \in PlanCalls, result[c] # "none"
               PROVE  result'[c] = result[c]
    BY DEF ResultKept
  <2>1. c \notin pending /\ c \notin wave
    BY DEF BatchInv, Bookkeeping
  <2>2. CASE RunWave
    <3>1. c \notin Blocked
      BY <2>1 DEF Blocked, Ready
    <3> QED
      BY <2>2, <3>1 DEF RunWave, Give
  <2>3. CASE SetCancelled \/ SetUnresolved \/ Finalize \/ WaveSettles
    BY <2>1, <2>3 DEF SetCancelled, SetUnresolved, Finalize, WaveSettles, Give
  <2>4. CASE NextSet \/ Abort \/ \E d \in PlanCalls : InvocationEnds(d) \/ TimesOut(d)
    BY <2>4 DEF NextSet, Abort, InvocationEnds, TimesOut
  <2> QED
    BY <2>2, <2>3, <2>4 DEF BatchNext
<1> QED
  BY <1>1, BatchAlwaysInv, PTL DEF BatchSpec, ResultsFinal
=============================================================================

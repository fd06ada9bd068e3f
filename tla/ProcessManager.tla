--------------------------- MODULE ProcessManager ---------------------------
(***************************************************************************)
(* ProcessManager (packages/process/src/process-manager.ts): the records   *)
(* of the child processes that process_start spawns.  A record's state is  *)
(* written by five parties that do not wait for one another: the spawn,    *)
(* error and close events of the child, the timeout timer, and stop().     *)
(* Each action is one event-loop callback, run to its first await.         *)
(*                                                                         *)
(* os[p] is what the operating system and Node know of the child:          *)
(* "launched" and "refused" are spawn() before its spawn or error event,   *)
(* "dead" is a child whose close event is still to come.                   *)
(***************************************************************************)
EXTENDS Naturals

CONSTANT Procs   \* process ids (each randomUUID is used once)

VARIABLES
    state,     \* record.state, "absent" when there is no record
    timer,     \* whether record.timer is armed
    exitCode,  \* record.exitCode: "none", "minus1" or a "code"
    os,        \* the child itself
    kills,     \* how many times the terminator was started on the child
    killing    \* whether a terminator is at work on the child

mvars == <<state, timer, exitCode, os, kills, killing>>

Terminal == {"exited", "failed", "stopped", "timed_out"}

TypeOK ==
    /\ state \in [Procs -> Terminal \union {"absent", "starting", "running"}]
    /\ timer \in [Procs -> BOOLEAN]
    /\ exitCode \in [Procs -> {"none", "minus1", "code"}]
    /\ os \in [Procs -> {"none", "launched", "refused", "alive", "dead", "closed"}]
    /\ kills \in [Procs -> Nat]
    /\ killing \in [Procs -> BOOLEAN]

Init ==
    /\ state = [p \in Procs |-> "absent"]
    /\ timer = [p \in Procs |-> FALSE]
    /\ exitCode = [p \in Procs |-> "none"]
    /\ os = [p \in Procs |-> "none"]
    /\ kills = [p \in Procs |-> 0]
    /\ killing = [p \in Procs |-> FALSE]

-----------------------------------------------------------------------------
(* isTerminal *)
IsTerminal(p) == state[p] \in Terminal

(* finish() and the calls of it that are guarded by isTerminal.            *)
Finish(p, s) ==
    /\ state' = [state EXCEPT ![p] = s]
    /\ timer' = [timer EXCEPT ![p] = FALSE]

Mut_FinishAlways(p, s) == Finish(p, s)
FinishOnce(p, s) == IF IsTerminal(p) THEN UNCHANGED <<state, timer>> ELSE Finish(p, s)

(* terminator.stop(child, pid) *)
Terminate(p) ==
    /\ kills' = [kills EXCEPT ![p] = @ + 1]
    /\ killing' = [killing EXCEPT ![p] = TRUE]

(* start(), once the request is validated and the executable resolved: the *)
(* record is made and the child is spawned in one stretch.                 *)
Start(p) ==
    /\ state[p] = "absent"
    /\ state' = [state EXCEPT ![p] = "starting"]
    /\ \E outcome \in {"launched", "refused"} : os' = [os EXCEPT ![p] = outcome]
    /\ UNCHANGED <<timer, exitCode, kills, killing>>

(* The 'spawn' event: the timer is armed whatever the state has become.    *)
SpawnEvent(p) ==
    /\ os[p] = "launched"
    /\ os' = [os EXCEPT ![p] = "alive"]
    /\ state' = IF state[p] = "starting" THEN [state EXCEPT ![p] = "running"] ELSE state
    /\ timer' = [timer EXCEPT ![p] = TRUE]
    /\ UNCHANGED <<exitCode, kills, killing>>

(* The 'error' event of a child that could not be spawned: handleError.    *)
(* ENOENT leaves the exit code to the close event.                         *)
ErrorEvent(p) ==
    /\ os[p] = "refused"
    /\ os' = [os EXCEPT ![p] = "dead"]
    /\ FinishOnce(p, "failed")
    /\ \E code \in {exitCode[p], "minus1"} : exitCode' = [exitCode EXCEPT ![p] = code]
    /\ UNCHANGED <<kills, killing>>

ChildExits(p) ==
    /\ os[p] = "alive"
    /\ os' = [os EXCEPT ![p] = "dead"]
    /\ UNCHANGED <<state, timer, exitCode, kills, killing>>

(* The 'close' event: handleClose.  A child killed by a signal has no code.*)
CloseEvent(p) ==
    /\ os[p] = "dead"
    /\ os' = [os EXCEPT ![p] = "closed"]
    /\ FinishOnce(p, "exited")
    /\ \E code \in IF exitCode[p] = "none" THEN {"none", "code"} ELSE {exitCode[p]} :
          exitCode' = [exitCode EXCEPT ![p] = code]
    /\ UNCHANGED <<kills, killing>>

(* timeout(): it runs unconditionally when the timer fires, and finishes   *)
(* the record before it awaits the terminator.                             *)
TimerFires(p) ==
    /\ timer[p]
    /\ IF state[p] = "running"
       THEN Finish(p, "timed_out") /\ Terminate(p)
       ELSE timer' = [timer EXCEPT ![p] = FALSE] /\ UNCHANGED <<state, kills, killing>>
    /\ UNCHANGED <<exitCode, os>>

(* stop(): a finished record is left alone; a child without a pid cannot   *)
(* be stopped; otherwise the record is finished before the kill.           *)
Mut_StopEndsLate(p) ==
    /\ state[p] # "absent"
    /\ IF IsTerminal(p) \/ os[p] = "refused"
       THEN UNCHANGED <<state, timer, kills, killing>>
       ELSE Terminate(p) /\ UNCHANGED <<state, timer>>
    /\ UNCHANGED <<exitCode, os>>
Stop(p) ==
    /\ state[p] # "absent"
    /\ IF IsTerminal(p) \/ os[p] = "refused"
       THEN UNCHANGED <<state, timer, kills, killing>>
       ELSE Finish(p, "stopped") /\ Terminate(p)
    /\ UNCHANGED <<exitCode, os>>

(* The terminator ends: it killed the child, came too late, or failed; a   *)
(* kill that failed may be reported as an 'error' event of the child.  The *)
(* spawn event, on the next-tick queue, is never behind it.                *)
TerminatorEnds(p) ==
    /\ killing[p] /\ os[p] # "launched"
    /\ killing' = [killing EXCEPT ![p] = FALSE]
    /\ \/ /\ os' = IF os[p] = "alive" THEN [os EXCEPT ![p] = "dead"] ELSE os
          /\ UNCHANGED exitCode
       \/ /\ os[p] = "alive"
          /\ \E code \in {exitCode[p], "minus1"} :
                exitCode' = [exitCode EXCEPT ![p] = code]
          /\ UNCHANGED os
    /\ UNCHANGED <<state, timer, kills>>

-----------------------------------------------------------------------------
Events(p) ==
    \/ SpawnEvent(p) \/ ErrorEvent(p) \/ ChildExits(p) \/ CloseEvent(p)
    \/ TimerFires(p) \/ TerminatorEnds(p)

Next == \E p \in Procs : Start(p) \/ Stop(p) \/ Events(p)

(* Node delivers its events and fires its timers; a child may run for ever.*)
Fairness == \A p \in Procs :
    /\ WF_mvars(SpawnEvent(p)) /\ WF_mvars(ErrorEvent(p)) /\ WF_mvars(CloseEvent(p))
    /\ WF_mvars(TimerFires(p)) /\ WF_mvars(TerminatorEnds(p))

Spec == Init /\ [][Next]_mvars
FairSpec == Spec /\ Fairness

-----------------------------------------------------------------------------
(* Whichever of exit, spawn failure, timeout and stop comes first decides  *)
(* how a process ended, and no later event rewrites it: a stopped process  *)
(* is never reported as exited because its close event came in after.      *)
FinalStateKept == \A p \in Procs : state[p] \in Terminal => state'[p] = state[p]
TerminalIsFinal == [][FinalStateKept]_mvars

(* A process tree is killed exactly when the record says that the manager  *)
(* ended it, and once: a stop racing the timeout does not run taskkill a   *)
(* second time, on a pid the system may have given to somebody else.       *)
KilledOnce == \A p \in Procs :
    kills[p] = IF state[p] \in {"stopped", "timed_out"} THEN 1 ELSE 0

(* A process that ended on its own is never killed afterwards: a kill      *)
(* begins only while no close event of the child has been seen.            *)
KillTargetLive == \A p \in Procs :
    kills'[p] > kills[p] => os[p] \in {"launched", "alive", "dead"}
KillsOnlyOpenChildren == [][KillTargetLive]_mvars

(* No process outlives its timeout unnoticed: every started record becomes *)
(* terminal although the child itself may never exit.                      *)
RecordsEnd == \A p \in Procs : (state[p] # "absent") ~> IsTerminal(p)
=============================================================================

--------------------------- MODULE BatchExecutor ----------------------------
(***************************************************************************)
(* executeBatch (packages/mcp-server/src/parallel-tool-executor.ts), the   *)
(* engine of the tool_batch tool (tools/batch-tools.ts).  A plan is a list *)
(* of calls, in an ungrouped set and in groups that run one after another; *)
(* a call waits for the calls it depends on; a call that is not            *)
(* parallelSafe has a wave for itself.  A call is raced against its        *)
(* timeout and the caller's abort signal, and the race abandons the        *)
(* invocation, it does not end it.                                         *)
(*                                                                         *)
(* A call is its position in the flattened plan.  Set 0 holds plan.calls,  *)
(* set g the calls of the g-th group.                                      *)
(***************************************************************************)
EXTENDS Naturals, FiniteSets

CONSTANTS N,           \* number of calls of a plan
          Groups,      \* number of groups of a plan
          Plans,       \* the plans a client may send
          Cancellable  \* whether an AbortSignal is passed (tool_batch passes none)

ASSUME BatchAssumption ==
    /\ N \in Nat /\ Groups \in Nat
    /\ Cancellable \in BOOLEAN

PlanCalls == 1..N
Sets == 0..Groups
UnknownId == 0   \* a dependency on an id no call has

(* unsafe: the calls whose tool is not strictly READ and non-destructive;  *)
(* timed: the calls with a timeoutMs.                                      *)
Plan == [set : [PlanCalls -> Sets], parallel : [Sets -> BOOLEAN],
         deps : [PlanCalls -> SUBSET (PlanCalls \union {UnknownId})],
         unsafe : SUBSET PlanCalls, timed : SUBSET PlanCalls]

ASSUME PlansAssumption == Plans \subseteq Plan

VARIABLES
    plan,     \* the plan being executed (never changes)
    phase,    \* "loop" between waves, "await" during one, "done", "rejected"
    cur,      \* the set executeSet works on
    pending,  \* its pending map
    wave,     \* the calls whose settlement is awaited
    outcome,  \* how the race of each call of the wave ended
    result,   \* the results map
    running,  \* the invocations that are still executing
    aborted   \* signal.aborted

vars == <<plan, phase, cur, pending, wave, outcome, result, running, aborted>>

Settled == {"succeeded", "failed", "timed_out", "cancelled"}
Status == Settled \union {"none", "skipped"}

BatchTypeOK ==
    /\ plan \in Plan
    /\ phase \in {"loop", "await", "done", "rejected"}
    /\ cur \in Nat
    /\ pending \in SUBSET PlanCalls
    /\ wave \in SUBSET PlanCalls
    /\ outcome \in [PlanCalls -> Settled \union {"none"}]
    /\ result \in [PlanCalls -> Status]
    /\ running \in SUBSET PlanCalls
    /\ aborted \in BOOLEAN

-----------------------------------------------------------------------------
InSet(s) == {c \in PlanCalls : plan.set[c] = s}

(* validatePlan: every dependency is known, and none of a grouped call is  *)
(* in a later group.  Nothing forbids a cycle, or a call of the ungrouped  *)
(* set that depends on a grouped one.                                      *)
ValidPlan(pl) == \A c \in PlanCalls :
    /\ UnknownId \notin pl.deps[c]
    /\ pl.set[c] # 0 => \A d \in pl.deps[c] : pl.set[d] <= pl.set[c]

(* The start of executeSet for set s.                                      *)
BatchInit ==
    /\ plan \in Plans
    /\ phase = IF ValidPlan(plan) THEN "loop" ELSE "rejected"
    /\ cur = 0
    /\ pending = InSet(0)
    /\ wave = {}
    /\ outcome = [c \in PlanCalls |-> "none"]
    /\ result = [c \in PlanCalls |-> "none"]
    /\ running = {}
    /\ aborted \in IF Cancellable THEN BOOLEAN ELSE {FALSE}

Ready == {c \in pending : \A d \in plan.deps[c] : result[d] # "none"}
Mut_BlockedByFailure == {c \in Ready : \E d \in plan.deps[c] : result[d] = "failed"}
Blocked == {c \in Ready : \E d \in plan.deps[c] : result[d] # "succeeded"}

(* selectWave: calls come in the order of the plan.                        *)
First(S) == {c \in S : \A d \in S : c <= d}
Mut_SelectWaveAll(S) == IF plan.parallel[cur] THEN S ELSE First(S)
SelectWave(S) ==
    IF ~plan.parallel[cur] THEN First(S)
    ELSE IF S \intersect plan.unsafe = {} THEN S ELSE First(S \intersect plan.unsafe)

Mut_GiveOnly(S, r) == [c \in S |-> r]
Give(S, r) == [c \in PlanCalls |-> IF c \in S THEN r ELSE result[c]]

-----------------------------------------------------------------------------
(* The loop of executeSet, one action per way through it.                  *)
Mut_LoopForgetsAbort == phase = "loop" /\ cur \in Sets /\ pending # {}
Looping == phase = "loop" /\ cur \in Sets /\ pending # {} /\ ~aborted

SetCancelled ==
    /\ phase = "loop" /\ cur \in Sets /\ pending # {} /\ aborted
    /\ result' = Give(pending, "cancelled")
    /\ pending' = {}
    /\ UNCHANGED <<plan, phase, cur, wave, outcome, running, aborted>>

SetUnresolved ==
    /\ Looping /\ Ready = {}
    /\ result' = Give(pending, "skipped")
    /\ pending' = {}
    /\ UNCHANGED <<plan, phase, cur, wave, outcome, running, aborted>>

(* Blocked calls are skipped; of the others a wave is invoked and awaited. *)
RunWave ==
    /\ Looping /\ Ready # {}
    /\ wave' = SelectWave(Ready \ Blocked)
    /\ result' = Give(Blocked, "skipped")
    /\ pending' = pending \ (Blocked \union wave')
    /\ outcome' = [c \in PlanCalls |-> "none"]
    /\ running' = running \union wave'
    /\ phase' = IF wave' = {} THEN "loop" ELSE "await"
    /\ UNCHANGED <<plan, cur, aborted>>

(* executeSet returns; executeBatch goes on to the next group.             *)
Mut_NextSetSkipsOne ==
    /\ phase = "loop" /\ cur \in Sets /\ pending = {}
    /\ cur' = cur + 1
    /\ pending' = IF cur = 0 THEN InSet(cur + 2) ELSE InSet(cur + 1)
    /\ UNCHANGED <<plan, phase, wave, outcome, result, running, aborted>>
NextSet ==
    /\ phase = "loop" /\ cur \in Sets /\ pending = {}
    /\ cur' = cur + 1
    /\ pending' = InSet(cur + 1)
    /\ UNCHANGED <<plan, phase, wave, outcome, result, running, aborted>>

(* finalize: a call without a result is reported as skipped.               *)
Finalize ==
    /\ phase = "loop" /\ cur \notin Sets
    /\ phase' = "done"
    /\ result' = Give({c \in PlanCalls : result[c] = "none"}, "skipped")
    /\ UNCHANGED <<plan, cur, pending, wave, outcome, running, aborted>>

-----------------------------------------------------------------------------
(* executeOne: the race of a call of the wave.                             *)
InRace(c) == c \in wave /\ outcome[c] = "none"

(* The tool ends, possibly long after the race has abandoned it.           *)
InvocationEnds(c) ==
    /\ c \in running
    /\ running' = running \ {c}
    /\ IF InRace(c)
       THEN \E how \in {"succeeded", "failed"} : outcome' = [outcome EXCEPT ![c] = how]
       ELSE UNCHANGED outcome
    /\ UNCHANGED <<plan, phase, cur, pending, wave, result, aborted>>

Mut_TimesOutLost(c) == FALSE /\ c \in plan.timed /\ UNCHANGED vars
TimesOut(c) ==
    /\ c \in plan.timed /\ InRace(c)
    /\ outcome' = [outcome EXCEPT ![c] = "timed_out"]
    /\ UNCHANGED <<plan, phase, cur, pending, wave, result, running, aborted>>

(* The caller aborts: every race under way is lost at once.                *)
Abort ==
    /\ Cancellable /\ ~aborted /\ phase \in {"loop", "await"}
    /\ aborted' = TRUE
    /\ outcome' = [c \in PlanCalls |-> IF InRace(c) THEN "cancelled" ELSE outcome[c]]
    /\ UNCHANGED <<plan, phase, cur, pending, wave, result, running>>

(* Promise.allSettled: results are entered when the whole wave has settled.*)
WaveSettles ==
    /\ phase = "await" /\ \A c \in wave : outcome[c] # "none"
    /\ result' = [c \in PlanCalls |-> IF c \in wave THEN outcome[c] ELSE result[c]]
    /\ wave' = {}
    /\ phase' = "loop"
    /\ UNCHANGED <<plan, cur, pending, outcome, running, aborted>>

-----------------------------------------------------------------------------
Loop == SetCancelled \/ SetUnresolved \/ RunWave \/ NextSet \/ Finalize \/ WaveSettles

BatchNext ==
    \/ SetCancelled \/ SetUnresolved \/ RunWave \/ NextSet \/ Finalize \/ WaveSettles
    \/ \E c \in PlanCalls : InvocationEnds(c) \/ TimesOut(c)
    \/ Abort

(* The executor runs and timers fire; a tool is only assumed to end when   *)
(* its call has no timeout.                                                *)
BatchFairness ==
    /\ WF_vars(Loop)
    /\ \A c \in PlanCalls : WF_vars(TimesOut(c))
    /\ \A c \in PlanCalls : WF_vars(c \notin plan.timed /\ InvocationEnds(c))

BatchSpec == BatchInit /\ [][BatchNext]_vars
FairBatchSpec == BatchSpec /\ BatchFairness

-----------------------------------------------------------------------------
Started(c) == c \in running \/ c \in wave \/ result[c] \in {"succeeded", "failed", "timed_out"}

(* A call is invoked only after everything it depends on has succeeded;    *)
(* a timed-out or skipped dependency counts as a failure.                  *)
DependenciesFirst == \A c \in PlanCalls :
    Started(c) => \A d \in plan.deps[c] : result[d] = "succeeded"

(* Groups are sequential: when a call of one set has been started, every   *)
(* call of the sets before it has its result.                              *)
SetsInOrder == \A c, d \in PlanCalls :
    Started(c) /\ plan.set[d] < plan.set[c] => result[d] # "none"

(* Both: nothing is started before what it has to wait for (lines 85-113). *)
OrderHonoured == DependenciesFirst /\ SetsInOrder

(* A side-effecting call shares no wave with any other call, so whenever   *)
(* two invocations of which one is unsafe overlap, one of them has been    *)
(* abandoned by its timeout or by the caller's abort.                      *)
Abandoned(c) == "timed_out" \in {outcome[c], result[c]} \/ "cancelled" \in {outcome[c], result[c]}
UnsafeAlone == \A c \in running \intersect plan.unsafe, d \in running :
    c = d \/ Abandoned(c) \/ Abandoned(d)

(* Every call has a result of its own before finalize runs: its NOT_EXECUTED*)
(* fallback is never used, whatever failed, timed out or was cancelled.    *)
NothingForgotten == cur \notin Sets => \A c \in PlanCalls : result[c] # "none"

(* After the caller has aborted nothing is started any more.               *)
NoStartOnceAborted == aborted => running' \subseteq running
AbortStartsNothing == [][NoStartOnceAborted]_vars

(* A recorded result is never replaced, e.g. by a tool that ends after its *)
(* timeout was reported.                                                   *)
ResultKept == \A c \in PlanCalls : result[c] # "none" => result'[c] = result[c]
ResultsFinal == [][ResultKept]_vars

(* A batch ends although tools that have a timeout may hang for ever.      *)
BatchEnds == <>(phase \in {"done", "rejected"})

(* "One compound request cannot fan out multiple side effects": no two     *)
(* side-effecting tools of a batch are ever at work together.              *)
MutationsSerialized == Cardinality(running \intersect plan.unsafe) <= 1
=============================================================================

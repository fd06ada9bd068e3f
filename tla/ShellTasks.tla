----------------------------- MODULE ShellTasks -----------------------------
(***************************************************************************)
(* The local task runner of the capabilities: ShellCapabilityBackend       *)
(* (packages/capabilities/src/shell-backend.ts) and, on top of the same    *)
(* runner, WslCapabilityBackend (wsl-backend.ts), which adds an owner to   *)
(* every task.  A run spawns a child, arms the timer of the task and waits *)
(* for the task, for a while, or not at all.  An action is the code        *)
(* between two awaits; who waits for a task that ends is answered before   *)
(* anything else happens.  Output is in OutputBuffers.                     *)
(***************************************************************************)
EXTENDS Naturals, Sequences, SequencesExt, Selections

CONSTANTS Tasks,       \* bound: children spawned in a behaviour
          Calls,       \* requests that may be under way at a time
          Owners,      \* a workspace with a distribution, for WSL
          MaxSeconds,  \* the longest timeout a request may ask for
          WaitTimes,   \* the timeouts of a wait
          AutoWait     \* autoWaitSeconds

VARIABLES
    state,    \* the record of each task
    kills,    \* how often its tree was killed
    owner,    \* taskOwners of the WSL backend
    timers,   \* setTimeout: [kind, of, left, whole], oldest first
    request,  \* what each request asks and waits for
    early     \* history: a foreground run was answered with a running task

vars == <<state, kills, owner, timers, request, early>>

Shell == "shell"
Nobody == "nobody"
Ended == {"exited", "timed_out", "cancelled"}   \* exited: completed or failed
NoTask == "no task"

(* A run that has passed the checks of parse...Request and isDelete-       *)
(* Like...Command; WSL runs have a workspace and a distribution.           *)
Runs == [op : {"foreground", "background", "auto"}, by : Owners \union {Shell}, seconds : 1..MaxSeconds]
Idle == [at |-> "idle", op |-> "none", by |-> Shell, task |-> NoTask]

TasksTypeOK ==
    /\ state \in [Tasks -> Ended \union {"absent", "running"}]
    /\ owner \in [Tasks -> Owners \union {Nobody}]
    /\ \A i \in DOMAIN timers : timers[i].left \in 0..timers[i].whole /\ timers[i].whole \in 1..MaxSeconds
    /\ \A c \in Calls : /\ request[c].at \in {"idle", "resolving", "waiting", "stopping"}
                        /\ request[c].task \in Tasks \union {NoTask}
    /\ early \in BOOLEAN

Init ==
    /\ state = [t \in Tasks |-> "absent"] /\ kills = [t \in Tasks |-> 0] /\ owner = [t \in Tasks |-> Nobody]
    /\ timers = <<>> /\ request = [c \in Calls |-> Idle] /\ early = FALSE

-----------------------------------------------------------------------------
Answered(c) == request' = [request EXCEPT ![c] = Idle]
Timer(kind, of, seconds) == [kind |-> kind, of |-> of, left |-> seconds, whole |-> seconds]

RunCall(c, run) ==
    /\ request[c] = Idle
    /\ request' = [request EXCEPT ![c] = [at |-> "resolving", op |-> run.op, by |-> run.by,
                                          task |-> NoTask, seconds |-> run.seconds]]
    /\ UNCHANGED <<state, kills, owner, timers, early>>

(* No such directory or program, a directory outside the roots, a spawn    *)
(* that throws, or a dry run.                                              *)
RunRefused(c) ==
    /\ request[c].at = "resolving"
    /\ Answered(c)
    /\ UNCHANGED <<state, kills, owner, timers, early>>

(* A WSL task gets its owner when run() of the shell has answered.         *)
Registered(owners, r, t) == IF r.by = Shell THEN owners ELSE [owners EXCEPT ![t] = r.by]

WaitSeconds(r) == IF r.op = "foreground" THEN r.seconds ELSE IF r.op = "auto" THEN AutoWait ELSE 0

Mut_Armed(r, c, t) == <<Timer("delay", c, WaitSeconds(r)), Timer("task", t, r.seconds)>>
Armed(r, c, t) == <<Timer("task", t, r.seconds), Timer("delay", c, WaitSeconds(r))>>

Spawn(c) ==
    /\ request[c].at = "resolving"
    /\ \E t \in Tasks :
          LET r == request[c]
              now == WaitSeconds(r) = 0
          IN  /\ state[t] = "absent"
              /\ state' = [state EXCEPT ![t] = "running"]
              /\ timers' = timers \o (IF now THEN <<Timer("task", t, r.seconds)>> ELSE Armed(r, c, t))
              /\ request' = [request EXCEPT ![c] =
                    IF now THEN Idle
                    ELSE [r EXCEPT !.at = "waiting", !.task = t]]
              /\ owner' = IF now THEN Registered(owner, r, t) ELSE owner
    /\ UNCHANGED <<kills, early>>

-----------------------------------------------------------------------------
(* finish(): the timer of the task goes, and every wait for it is over.    *)
Waiters(t) == {c \in Calls : request[c].at = "waiting" /\ request[c].task = t}
RunBy(t) == {c \in Waiters(t) : request[c].op \in {"foreground", "auto"}}
Cleared(x, t) == IF x.kind = "task" THEN x.of = t ELSE x.of \in Waiters(t)

Finish(t, how) ==
    /\ state[t] = "running"
    /\ state' = [state EXCEPT ![t] = how]
    /\ timers' = Selected(timers, {x \in Range(timers) : ~Cleared(x, t)})
    /\ owner' = IF RunBy(t) = {} THEN owner
                ELSE Registered(owner, request[CHOOSE c \in RunBy(t) : TRUE], t)

AnswerWaiters(t) == [c \in Calls |-> IF c \in Waiters(t) THEN Idle ELSE request[c]]

(* 'close', or 'error' where the program could not be started; neither     *)
(* changes a task that has ended.                                          *)
ChildCloses(t) ==
    /\ Finish(t, "exited")
    /\ request' = AnswerWaiters(t)
    /\ UNCHANGED <<kills, early>>

(* Timers of one length fire in the order in which they were armed.        *)
Due(i) == /\ timers[i].left = 0
          /\ \A j \in 1..(i - 1) : timers[j].whole # timers[i].whole \/ timers[j].left > 0

TimeoutFires(i) ==
    /\ Due(i) /\ timers[i].kind = "task"
    /\ LET t == timers[i].of
       IN  /\ Finish(t, "timed_out")
           /\ request' = AnswerWaiters(t)
           /\ kills' = [kills EXCEPT ![t] = @ + 1]
    /\ UNCHANGED early

DelayFires(i) ==
    /\ Due(i) /\ timers[i].kind = "delay"
    /\ LET c == timers[i].of
           t == request[c].task
       IN  /\ Answered(c)
           /\ early' = (early \/ (request[c].op = "foreground" /\ state[t] = "running"))
           /\ owner' = IF request[c].op = "wait" THEN owner ELSE Registered(owner, request[c], t)
    /\ timers' = RemoveAt(timers, i)
    /\ UNCHANGED <<state, kills>>

-----------------------------------------------------------------------------
(* A task that the caller may name: the shell knows every task, WSL only   *)
(* those of the workspace and distribution of the request.  Requests that  *)
(* are refused or answered at once change nothing and are left out.        *)
Known(by, t) == state[t] # "absent" /\ (by = Shell \/ owner[t] = by)

WaitCall(c, by, t, seconds) ==
    /\ request[c] = Idle /\ Known(by, t) /\ state[t] = "running"
    /\ request' = [request EXCEPT ![c] = [Idle EXCEPT !.at = "waiting", !.op = "wait", !.task = t]]
    /\ timers' = Append(timers, Timer("delay", c, seconds))
    /\ UNCHANGED <<state, kills, owner, early>>

CancelCall(c, by, t) ==
    /\ request[c] = Idle /\ Known(by, t)
    /\ Finish(t, "cancelled")
    /\ request' = [AnswerWaiters(t) EXCEPT ![c] = [Idle EXCEPT !.at = "stopping", !.op = "cancel"]]
    /\ kills' = [kills EXCEPT ![t] = @ + 1]
    /\ UNCHANGED early

TerminatorEnds(c) ==
    /\ request[c].at = "stopping"
    /\ Answered(c)
    /\ UNCHANGED <<state, kills, owner, timers, early>>

(* A timer that is due is never passed over.                               *)
Tick ==
    /\ timers # <<>> /\ \A i \in DOMAIN timers : timers[i].left > 0
    /\ timers' = [i \in DOMAIN timers |-> [timers[i] EXCEPT !.left = @ - 1]]
    /\ UNCHANGED <<state, kills, owner, request, early>>

-----------------------------------------------------------------------------
Fire == \E i \in DOMAIN timers : TimeoutFires(i) \/ DelayFires(i)

Next ==
    \/ \E c \in Calls :
          \/ \E run \in Runs : RunCall(c, run)
          \/ \E by \in Owners \union {Shell}, t \in Tasks :
                CancelCall(c, by, t) \/ \E s \in WaitTimes : WaitCall(c, by, t, s)
          \/ RunRefused(c) \/ Spawn(c) \/ TerminatorEnds(c)
    \/ \E t \in Tasks : ChildCloses(t)
    \/ Fire \/ Tick

(* Paths resolve, and time passes; a child may run for ever, and taskkill, *)
(* which has no time limit, may not end either.                            *)
Fairness ==
    /\ \A c \in Calls : WF_vars(RunRefused(c) \/ Spawn(c))
    /\ WF_vars(Fire \/ Tick)

Spec == Init /\ [][Next]_vars
FairSpec == Spec /\ Fairness

-----------------------------------------------------------------------------
(* A foreground run waits as long as the task may take, and the two timers *)
(* fall due together: it is never answered with a task that still runs     *)
(* (lines 173-176).                                                        *)
ForegroundEnds == ~early

(* However close, timeout and cancel race, the tree is killed exactly when *)
(* the record says that the runner ended the task, and a task runs exactly *)
(* as long as its timer is armed (192-208, 256-264).                       *)
KilledWhenEnded == \A t \in Tasks :
    /\ kills[t] = IF state[t] \in {"timed_out", "cancelled"} THEN 1 ELSE 0
    /\ (state[t] = "running") <=> \E i \in DOMAIN timers : timers[i].kind = "task" /\ timers[i].of = t

(* Every run and every wait is answered, and every task ends, although its *)
(* child may never exit and nobody may wait for it.  A cancel also waits   *)
(* for taskkill (199-208).                                                 *)
RequestsAnswered ==
    /\ \A c \in Calls : request[c].at \in {"resolving", "waiting"} ~> request[c] = Idle
    /\ \A t \in Tasks : (state[t] = "running") ~> (state[t] \in Ended)
=============================================================================

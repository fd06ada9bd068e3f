------------------------- MODULE WorkspaceIndexQueue -------------------------
(***************************************************************************)
(* WorkspaceIndexQueue (packages/application/src/workspace-index-queue.ts) *)
(* as the watcher of WorkspaceIndexService uses it: file events are        *)
(* coalesced by path, debounced by one timer, and handed to at most        *)
(* Concurrency workers; stopWatch and startWatch drain the queue.  An      *)
(* action is what one event-loop callback does up to its awaits.           *)
(*                                                                         *)
(* flush() awaits the workers it has started itself: a frame is such a     *)
(* flush with the workers that are still out.  Called while every worker   *)
(* is busy and something is pending, flush() awaits nothing and calls      *)
(* itself until the stack overflows: the call rejects with a RangeError.   *)
(***************************************************************************)
EXTENDS Naturals, Sequences, SequencesExt, FiniteSets

CONSTANTS Paths,        \* relative paths, normalised
          Concurrency,  \* this.concurrency
          Jobs,         \* names for workers, more than may run at a time
          Nobody

ASSUME QueueAssumption ==
    /\ Concurrency \in Nat \ {0} /\ IsFiniteSet(Jobs)
    /\ Concurrency < Cardinality(Jobs)
    /\ Nobody \notin Paths

VARIABLES
    pending,   \* this.pending, in insertion order
    armed,     \* this.timer is set
    job,       \* job[j]: the path worker j is at, or Nobody
    frames,    \* the flush() calls that await workers
    watching,  \* the FSWatcher delivers events
    drain,     \* what stopWatch or startWatch is waiting for
    answer     \* how the last one of them ended

qvars == <<pending, armed, job, frames, watching, drain, answer>>

Running == {j \in Jobs : job[j] # Nobody}
Frame == [awaits : SUBSET Jobs, drains : BOOLEAN]

QueueTypeOK ==
    /\ pending \in Seq(Paths) /\ IsInjective(pending)
    /\ armed \in BOOLEAN /\ watching \in BOOLEAN
    /\ job \in [Jobs -> Paths \union {Nobody}]
    /\ frames \subseteq Frame
    /\ drain \in [at : {"idle", "flushing", "waiting"}, goal : {"stop", "start"}]
    /\ answer \in {"none", "stopped", "watching", "refused", "failed"}

Idle == [at |-> "idle", goal |-> "stop"]

QueueInit ==
    /\ pending = <<>> /\ armed = FALSE
    /\ job = [j \in Jobs |-> Nobody]
    /\ frames = {}
    /\ watching = TRUE
    /\ drain = Idle /\ answer = "none"

-----------------------------------------------------------------------------
(* How many workers the loop of flush() may add to the busy ones.          *)
Room(busy) == Concurrency - Cardinality(busy)

Overflows == pending # <<>> /\ Room(Running) = 0

(* Names for n new workers, each its own.                                  *)
Names(n, free) == CHOOSE f \in Injection(1..n, free) : TRUE

(* The loop of flush(): the oldest pending paths go to new workers, which  *)
(* a frame awaits.  `busy` and `others` are the workers and the frames that*)
(* there are besides.                                                      *)
Take(busy, others, drains) ==
    LET n == IF Room(busy) < Len(pending) THEN Room(busy) ELSE Len(pending)
        new == Names(n, Jobs \ busy)
    IN  /\ job' = [j \in Jobs |-> IF j \in busy THEN job[j]
                                  ELSE IF \E i \in 1..n : new[i] = j
                                       THEN pending[CHOOSE i \in 1..n : new[i] = j]
                                  ELSE Nobody]
        /\ pending' = SubSeq(pending, n + 1, Len(pending))
        /\ frames' = others \union {[awaits |-> {new[i] : i \in 1..n}, drains |-> drains]}

(* The rest of stopWatch, and of startWatch, which watches the directory   *)
(* with a new queue or finds that it cannot be watched.                    *)
Answered(goal) ==
    /\ drain' = Idle
    /\ \/ goal = "stop" /\ answer' = "stopped" /\ watching' = FALSE
       \/ goal = "start" /\ answer' = "watching" /\ watching' = TRUE
       \/ goal = "start" /\ answer' = "refused" /\ watching' = FALSE

(* The end of a flush() that leaves `busy` at work: with nothing left to   *)
(* do it wakes the drain that waits, which clears the timer and finds the  *)
(* queue empty.                                                            *)
FlushEnds(busy) ==
    IF drain.at = "waiting" /\ busy = {}
    THEN Answered(drain.goal) /\ armed' = FALSE
    ELSE UNCHANGED <<armed, drain, answer, watching>>

(* The flush() of a drain ends with nothing pending: the drain is done, or *)
(* it waits to be woken.                                                   *)
DrainEnds(busy) ==
    IF busy = {} /\ ~armed
    THEN Answered(drain.goal) /\ UNCHANGED armed
    ELSE drain' = [drain EXCEPT !.at = "waiting"] /\ UNCHANGED <<armed, answer, watching>>

-----------------------------------------------------------------------------
(* enqueue() from the watcher's callback, with schedule().                 *)
Mut_EnqueueTwice(p) ==
    /\ watching
    /\ pending' = Append(pending, p)
    /\ armed' = TRUE
    /\ UNCHANGED <<job, frames, watching, drain, answer>>
Mut_EnqueueUnlessAtWork(p) ==
    /\ watching
    /\ pending' = IF p \in ToSet(pending) \/ \E j \in Jobs : job[j] = p THEN pending ELSE Append(pending, p)
    /\ armed' = TRUE
    /\ UNCHANGED <<job, frames, watching, drain, answer>>
Enqueue(p) ==
    /\ watching
    /\ pending' = IF p \in ToSet(pending) THEN pending ELSE Append(pending, p)
    /\ armed' = TRUE
    /\ UNCHANGED <<job, frames, watching, drain, answer>>

(* The debounce timer: `void this.flush()`.  When that overflows it rejects*)
(* and nobody handles it: here the process goes on (see Dies).             *)
TimerFlushes ==
    /\ armed /\ armed' = FALSE
    /\ pending # <<>> /\ ~Overflows
    /\ Take(Running, frames, FALSE)
    /\ UNCHANGED <<watching, drain, answer>>

TimerOverflows ==
    /\ armed /\ armed' = FALSE
    /\ Overflows
    /\ UNCHANGED <<pending, job, frames, watching, drain, answer>>

TimerFindsNothing ==
    /\ armed /\ armed' = FALSE
    /\ pending = <<>>
    /\ IF drain.at = "waiting" /\ Running = {} THEN Answered(drain.goal)
       ELSE UNCHANGED <<watching, drain, answer>>
    /\ UNCHANGED <<pending, job, frames>>

(* stopWatch(), also as the first thing startWatch() does: the watcher is  *)
(* closed and the queue drained.                                           *)
Mut_DrainOnlyPending(goal) ==
    /\ drain.at = "idle"
    /\ armed' = FALSE
    /\ IF pending = <<>> THEN Answered(goal) /\ UNCHANGED <<pending, job, frames>>
       ELSE /\ ~Overflows /\ watching' = FALSE
            /\ Take(Running, frames, TRUE)
            /\ drain' = [at |-> "flushing", goal |-> goal]
            /\ UNCHANGED answer
DrainCall(goal) ==
    /\ drain.at = "idle"
    /\ armed' = FALSE
    /\ IF pending = <<>> /\ Running = {} THEN Answered(goal) /\ UNCHANGED <<pending, job, frames>>
       ELSE /\ watching' = FALSE
            /\ \/ /\ pending = <<>>
                  /\ drain' = [at |-> "waiting", goal |-> goal]
                  /\ UNCHANGED <<pending, job, frames, answer>>
               \/ /\ pending # <<>> /\ ~Overflows
                  /\ Take(Running, frames, TRUE)
                  /\ drain' = [at |-> "flushing", goal |-> goal]
                  /\ UNCHANGED answer
               \/ /\ Overflows
                  /\ answer' = "failed"
                  /\ UNCHANGED <<pending, job, frames, drain>>

(* A worker ends.  When it is the last one its frame awaits, that flush()  *)
(* goes on with what is pending, or ends.                                  *)
Mut_WorkerEndsForgetful(j) ==
    LET busy == Running \ {j} IN
    /\ job[j] # Nobody
    /\ job' = [job EXCEPT ![j] = Nobody]
    /\ \E f \in frames :
          /\ j \in f.awaits
          /\ \/ /\ f.awaits # {j}
                /\ frames' = (frames \ {f}) \union {[f EXCEPT !.awaits = @ \ {j}]}
                /\ UNCHANGED <<armed, watching, drain, answer>>
             \/ /\ f.awaits = {j}
                /\ frames' = frames \ {f}
                /\ IF f.drains THEN DrainEnds(busy) ELSE FlushEnds(busy)
    /\ UNCHANGED pending
WorkerEnds(j) ==
    LET busy == Running \ {j} IN
    /\ job[j] # Nobody
    /\ \E f \in frames :
          /\ j \in f.awaits
          /\ \/ /\ f.awaits # {j}
                /\ job' = [job EXCEPT ![j] = Nobody]
                /\ frames' = (frames \ {f}) \union {[f EXCEPT !.awaits = @ \ {j}]}
                /\ UNCHANGED <<pending, armed, watching, drain, answer>>
             \/ /\ f.awaits = {j} /\ pending # <<>>
                /\ Take(busy, frames \ {f}, f.drains)
                /\ UNCHANGED <<armed, watching, drain, answer>>
             \/ /\ f.awaits = {j} /\ pending = <<>>
                /\ job' = [job EXCEPT ![j] = Nobody]
                /\ frames' = frames \ {f}
                /\ IF f.drains THEN DrainEnds(busy) ELSE FlushEnds(busy)
                /\ UNCHANGED pending
=============================================================================

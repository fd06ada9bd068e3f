--------------------------- MODULE WorkspaceIndex ---------------------------
(***************************************************************************)
(* WorkspaceIndexService with its JSON store (packages/application/src/    *)
(* workspace-index.ts) on top of the queue: files change on the disk, the  *)
(* watcher announces it, and a worker brings the stored snapshot up to date*)
(* by loading it whole, looking at its own path, and saving it whole.  All *)
(* savers of a process write one temporary file and rename it.             *)
(*                                                                         *)
(* A snapshot maps a path to the version of the file it describes, 0 when  *)
(* it has no entry.  Files are flat (a directory is indexed like several   *)
(* paths), readable, and discoverable under the automatic policy.          *)
(***************************************************************************)
EXTENDS WorkspaceIndexQueue

CONSTANTS MaxVersion,  \* versions a file is distinguished by
          MaxEvents,   \* bound on changes of files and on indexings of the whole tree
          Torn         \* a file that is being written


VARIABLES
    disk,     \* the version of each file, 0 when there is none
    news,     \* changed paths the watcher has yet to announce
    missed,   \* changed paths a closed watcher will never announce
    stored,   \* the index file
    tmp,      \* the temporary file: a snapshot, Torn, or Nobody
    work,     \* what each worker, and a workspace_index call, is at
    events,   \* how many of those there were
    raced,    \* whether two savers have ever been at work at a time
    ended     \* the process is gone

indexVars == <<qvars, disk, news, missed, stored, tmp, work, events, raced, ended>>

Rebuild == 0   \* indexWorkspace() works beside the workers
Workers == Jobs \union {Rebuild}

Snapshot == [Paths -> 0..MaxVersion]

ASSUME IndexAssumption ==
    /\ MaxVersion \in Nat \ {0} /\ MaxEvents \in Nat
    /\ Rebuild \notin Jobs /\ Nobody \notin Workers
    /\ {Torn, Nobody} \intersect Snapshot = {} /\ Torn # Nobody

(* work[w].out: where the file is now that w has opened for writing.       *)
IndexTypeOK ==
    /\ QueueTypeOK
    /\ disk \in Snapshot /\ news \subseteq Paths /\ missed \subseteq Paths
    /\ stored \in Snapshot \union {Torn}
    /\ tmp \in Snapshot \union {Torn, Nobody}
    /\ work \in [Workers -> [at : {"idle", "load", "look", "open", "write", "rename"},
                             snap : Snapshot, retried : BOOLEAN,
                             out : {"tmp", "stored", "gone"}]]
    /\ events \in 0..MaxEvents /\ raced \in BOOLEAN /\ ended \in BOOLEAN

NoWork == [at |-> "idle", snap |-> [p \in Paths |-> 0], retried |-> FALSE, out |-> "gone"]

IndexInit ==
    /\ QueueInit
    /\ disk = [p \in Paths |-> 1] /\ news = {} /\ missed = {}
    /\ stored = disk /\ tmp = Nobody
    /\ work = [w \in Workers |-> NoWork]
    /\ events = 0 /\ raced = FALSE /\ ended = FALSE

-----------------------------------------------------------------------------
(* Workers that a flush() has just started begin to load; w, if it is one, *)
(* has ended; the others are at `now`.                                     *)
Begin(w, now) ==
    work' = [v \in Workers |->
        IF v \in Jobs /\ job'[v] # Nobody /\ (job[v] = Nobody \/ v = w)
        THEN [NoWork EXCEPT !.at = "load"]
        ELSE IF v = w THEN NoWork ELSE now[v]]

(* A file is written or deleted.                                           *)
Change(p) ==
    /\ events < MaxEvents /\ events' = events + 1
    /\ watching
    /\ \E v \in 0..MaxVersion \ {disk[p]} : disk' = [disk EXCEPT ![p] = v]
    /\ news' = news \union {p}
    /\ UNCHANGED <<qvars, missed, stored, tmp, work>>

(* The callback of fs.watch in startWatch.                                 *)
Announce(p) ==
    /\ p \in news /\ news' = news \ {p}
    /\ missed' = missed \ {p}
    /\ Enqueue(p)
    /\ UNCHANGED <<disk, stored, tmp, work, events>>

Timer ==
    /\ TimerFlushes \/ TimerOverflows \/ TimerFindsNothing
    /\ Begin(Nobody, work)
    /\ UNCHANGED <<disk, news, missed, stored, tmp, events>>

(* The tools workspace_index_stop and workspace_index_watch, and close().  *)
Control(goal) ==
    /\ DrainCall(goal)
    /\ Begin(Nobody, work)
    /\ missed' = missed \union news /\ news' = {}
    /\ UNCHANGED <<disk, stored, tmp, events>>

-----------------------------------------------------------------------------
(* indexPath: the stored snapshot is loaded; a file that does not parse is *)
(* an empty one.                                                           *)
Load(j) ==
    /\ work[j].at = "load"
    /\ work' = [work EXCEPT ![j].at = "look",
                            ![j].snap = IF stored = Torn THEN NoWork.snap ELSE stored]
    /\ UNCHANGED <<qvars, disk, news, missed, stored, tmp, events>>

(* The path is described; a path that is gone goes out of the snapshot, in *)
(* the handler of ENOENT.  Another error, which ends the update and leaves *)
(* the file as it is, is left out.                                         *)
Look(j) ==
    /\ work[j].at = "look"
    /\ work' = [work EXCEPT ![j].at = "open",
                            ![j].snap = [work[j].snap EXCEPT ![job[j]] = disk[job[j]]],
                            ![j].retried = (disk[job[j]] = 0)]
    /\ UNCHANGED <<qvars, disk, news, missed, stored, tmp, events>>

(* indexWorkspace: the whole tree is described, and saved without a load.  *)
Scan ==
    /\ events < MaxEvents /\ events' = events + 1
    /\ work[Rebuild].at = "idle"
    /\ work' = [work EXCEPT ![Rebuild] = [NoWork EXCEPT !.at = "open", !.snap = disk]]
    /\ UNCHANGED <<qvars, disk, news, missed, stored, tmp>>

(* save: writeFile opens and truncates the temporary file, ...             *)
Open(w) ==
    /\ work[w].at = "open"
    /\ tmp' = Torn
    /\ work' = [work EXCEPT ![w].at = "write", ![w].out = "tmp"]
    /\ UNCHANGED <<qvars, disk, news, missed, stored, events>>

(* ... writes it, over what another saver has written into the same file,  *)
(* wherever a rename has put that by now, ...                              *)
Written(old, snap) == IF old = Torn THEN {snap} ELSE {snap, Torn}

Write(w) ==
    /\ work[w].at = "write"
    /\ tmp' \in IF work[w].out = "tmp" THEN Written(tmp, work[w].snap) ELSE {tmp}
    /\ stored' \in IF work[w].out = "stored" THEN Written(stored, work[w].snap) ELSE {stored}
    /\ work' = [work EXCEPT ![w].at = "rename"]
    /\ UNCHANGED <<qvars, disk, news, missed, events>>

(* ... and renames it.                                                     *)
Published(w) ==
    /\ work[w].at = "rename" /\ tmp # Nobody
    /\ stored' = tmp /\ tmp' = Nobody

Follow == [v \in Workers |->
    [work[v] EXCEPT !.out = IF @ = "tmp" THEN "stored" ELSE "gone"]]

RenameEnds(j) ==
    /\ Published(j)
    /\ WorkerEnds(j)
    /\ Begin(j, Follow)
    /\ UNCHANGED <<disk, news, missed, events>>

RebuildEnds ==
    /\ Published(Rebuild)
    /\ work' = [Follow EXCEPT ![Rebuild] = NoWork]
    /\ UNCHANGED <<qvars, disk, news, missed, events>>

(* The temporary file is gone, since another saver has renamed it: ENOENT. *)
(* Out of its try block indexPath takes that for the deletion of the path, *)
(* and saves again without it; a second time it gives up.                  *)
RenameMisled(j) ==
    /\ work[j].at = "rename" /\ tmp = Nobody /\ ~work[j].retried
    /\ work' = [work EXCEPT ![j].at = "open", ![j].retried = TRUE, ![j].out = "gone",
                            ![j].snap = [work[j].snap EXCEPT ![job[j]] = 0]]
    /\ UNCHANGED <<qvars, disk, news, missed, stored, tmp, events>>

RenameFails(j) ==
    /\ work[j].at = "rename" /\ tmp = Nobody /\ work[j].retried
    /\ WorkerEnds(j)
    /\ Begin(j, work)
    /\ UNCHANGED <<disk, news, missed, stored, tmp, events>>

RebuildFails ==
    /\ work[Rebuild].at = "rename" /\ tmp = Nobody
    /\ work' = [work EXCEPT ![Rebuild] = NoWork]
    /\ UNCHANGED <<qvars, disk, news, missed, stored, tmp, events>>

-----------------------------------------------------------------------------
WorkSteps(w) ==
    \/ w \in Jobs /\ (Load(w) \/ Look(w) \/ RenameEnds(w) \/ RenameMisled(w) \/ RenameFails(w))
    \/ w = Rebuild /\ (RebuildEnds \/ RebuildFails)
    \/ Open(w) \/ Write(w)

AtWork == {w \in Workers : work[w].at # "idle"}
Races ==
    /\ ~ended /\ UNCHANGED ended
    /\ raced' = (raced \/ Cardinality(AtWork') > 1)

(* Nobody handles the rejection of the timer's flush(), nor any other: it  *)
(* ends a process of plain Node (the stdio runtime) with the updates still *)
(* pending; the Electron main process warns and goes on (TimerOverflows).  *)
Dies ==
    /\ ~ended /\ armed /\ Overflows
    /\ ended' = TRUE
    /\ UNCHANGED <<qvars, disk, news, missed, stored, tmp, work, events, raced>>

IndexNext ==
    \/ \E p \in Paths : (Change(p) \/ Announce(p)) /\ Races
    \/ (Timer \/ Scan) /\ Races
    \/ \E goal \in {"stop", "start"} : Control(goal) /\ Races
    \/ \E w \in Workers : WorkSteps(w) /\ Races
    \/ Dies

(* Timers fire and the file operations of a worker end.                    *)
Fairness == WF_indexVars(Timer /\ Races) /\ \A w \in Workers : WF_indexVars(WorkSteps(w) /\ Races)

IndexSpec == IndexInit /\ [][IndexNext]_indexVars
FairIndexSpec == IndexSpec /\ Fairness

-----------------------------------------------------------------------------
Agrees(index, p) == index # Torn /\ index[p] = disk[p]
Quiet == pending = <<>> /\ Running = {} /\ work[Rebuild].at = "idle"

(* The watcher re-indexes every changed path: once the events are worked   *)
(* off the index says what is on the disk, except where the watcher was    *)
(* closed before it could announce a change.                               *)
IndexCurrent == Quiet => \A p \in Paths \ (news \union missed) : Agrees(stored, p)

(* What the code keeps of it: that is so unless two savers have overlapped.*)
IndexCurrentAlone == raced \/ IndexCurrent

(* "Stop a workspace watcher after draining all queued path updates": when *)
(* a stop is answered as done, every update the queue had taken is in the  *)
(* index, where no savers have overlapped.                                 *)
StopAfterAll ==
    (answer' = "stopped" /\ (answer # "stopped" \/ drain.at # "idle") /\ drain'.at = "idle") =>
        raced' \/ \A p \in Paths \ missed' : stored' # Torn /\ stored'[p] = disk'[p]
StopDrains == [][StopAfterAll]_indexVars

(* The same line read as a promise to the caller: a stop does drain.       *)
StopNeverFails == answer # "failed"

(* No update is left lying in the queue, except that of a process which a  *)
(* timer's flush() ends: it overflows while all workers are busy and loses *)
(* what is pending.  Where that process goes on, the workers take it.      *)
UpdatesAreTaken ==
    \A p \in Paths : (p \in ToSet(pending)) ~> (p \notin ToSet(pending) \/ ended)

(* A drain ends, although only one of several flushes wakes it.            *)
DrainEnded == (drain.at # "idle") ~> (drain.at = "idle" \/ ended)

(* Both: whatever waits in or for the queue of a running process gets its  *)
(* turn.                                                                   *)
QueueWorksOff == UpdatesAreTaken /\ DrainEnded
=============================================================================

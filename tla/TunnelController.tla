-------------------------- MODULE TunnelController --------------------------
(***************************************************************************)
(* TunnelController (apps/desktop/src/main/tunnel-controller.ts) under     *)
(* overlapping calls: the desktop window, the dashboard and the status poll*)
(* all call start, stop and status, and nothing serialises them.  An action*)
(* is the code between two awaits.  Time is left out (TunnelReconnect has  *)
(* it): the restart timer fires at any moment, and whether an exit pauses  *)
(* the reconnect is a free choice.                                         *)
(*                                                                         *)
(* A probe for a tunnel outside the controller may answer either way: the  *)
(* answer is up to EXTERNAL_PROBE_TTL_MS old, it is "no" when PowerShell   *)
(* fails, and anybody may start and stop such a tunnel.                    *)
(***************************************************************************)
CONSTANTS Calls,           \* calls under way at a time
          Children,        \* child processes that exist at a time
          None

VARIABLES
    state,        \* this.state
    child,        \* this.child
    intentional,  \* this.intentionalStop
    timer,        \* restartTimer is armed
    resuming,     \* its callback awaits preferPackagedStdioCommand
    key,          \* lastApiKey is not null
    os,           \* os[k]: the child process and the events it still owes
    call          \* what each call is waiting for

vars == <<state, child, intentional, timer, resuming, key, os, call>>

TypeOK ==
    /\ state \in {"stopped", "starting", "running", "error"}
    /\ child \in Children \union {None}
    /\ intentional \in BOOLEAN /\ timer \in BOOLEAN /\ resuming \in BOOLEAN /\ key \in BOOLEAN
    /\ os \in [Children -> {"free", "up", "refused", "exiting", "hint"}]
    /\ call \in [Calls -> {"idle", "probing", "checking", "preparing",
                           "rejected", "statusProbe", "stopping"}]

Init ==
    /\ state = "stopped" /\ child = None
    /\ intentional = FALSE /\ timer = FALSE /\ resuming = FALSE /\ key = FALSE
    /\ os = [k \in Children |-> "free"]
    /\ call = [c \in Calls |-> "idle"]

Up == {k \in Children : os[k] = "up"}
Waits(c, at) == call' = [call EXCEPT ![c] = at]

-----------------------------------------------------------------------------
(* spawnRun and the state its callers set behind it.  A spawn that fails   *)
(* owes an 'error' event.                                                  *)
SpawnRun(k) ==
    /\ os[k] = "free"
    /\ child' = k
    /\ \E how \in {"up", "refused"} : os' = [os EXCEPT ![k] = how]
    /\ state' = "running"

(* status() up to its await, entered with state st: an owned child is      *)
(* running; without one a probe decides, except while starting.            *)
StatusFrom(c, st) ==
    \/ child # None /\ state' = "running" /\ Waits(c, "idle")
    \/ child = None /\ st = "starting" /\ state' = st /\ Waits(c, "idle")
    \/ child = None /\ st # "starting" /\ state' = st /\ Waits(c, "statusProbe")

StatusCall(c) ==
    /\ call[c] = "idle"
    /\ StatusFrom(c, state)
    /\ UNCHANGED <<child, intentional, timer, resuming, key, os>>

(* The rest of status() works on the state of the moment, but on the child *)
(* it looked at before.                                                    *)
StatusProbed(c) ==
    /\ call[c] = "statusProbe"
    /\ \E seen \in BOOLEAN :
          state' = IF seen THEN "running" ELSE IF state = "running" THEN "stopped" ELSE state
    /\ Waits(c, "idle")
    /\ UNCHANGED <<child, intentional, timer, resuming, key, os>>

-----------------------------------------------------------------------------
(* start() up to its first await.                                          *)
StartCall(c) ==
    /\ call[c] = "idle"
    /\ intentional' = FALSE /\ timer' = FALSE
    /\ IF state \in {"running", "starting"} \/ child # None
       THEN StatusFrom(c, state)
       ELSE Waits(c, "probing") /\ UNCHANGED state
    /\ UNCHANGED <<child, resuming, key, os>>

(* A tunnel outside is adopted as running; a missing client, profile or key*)
(* is an error.                                                            *)
StartProbed(c) ==
    /\ call[c] = "probing"
    /\ \/ StatusFrom(c, "running") \/ StatusFrom(c, "error")
       \/ Waits(c, "checking") /\ UNCHANGED state
    /\ UNCHANGED <<child, intentional, timer, resuming, key, os>>

(* The key and the profile are read: one is missing, or cannot be decrypted*)
(* (start() rejects), or the child is prepared.                            *)
StartChecked(c) ==
    /\ call[c] = "checking"
    /\ \/ StatusFrom(c, "error") /\ UNCHANGED key
       \/ Waits(c, "rejected") /\ UNCHANGED <<state, key>>
       \/ Waits(c, "preparing") /\ state' = "starting" /\ key' = TRUE
    /\ UNCHANGED <<child, intentional, timer, resuming, os>>

Mut_PrepareFailsSilently(c) ==
    /\ call[c] = "preparing"
    /\ Waits(c, "idle")
    /\ UNCHANGED <<state, child, intentional, timer, resuming, key, os>>
(* The doctor refuses, or mkdir rejects and leaves the state as it is.     *)
PrepareFails(c) ==
    /\ call[c] = "preparing"
    /\ \/ StatusFrom(c, "error")
       \/ Waits(c, "rejected") /\ UNCHANGED state
    /\ UNCHANGED <<child, intentional, timer, resuming, key, os>>

(* The caller of a start that threw hears of it.                           *)
Rejected(c) ==
    /\ call[c] = "rejected"
    /\ Waits(c, "idle")
    /\ UNCHANGED <<state, child, intentional, timer, resuming, key, os>>

(* The child is spawned, whatever has happened since start() was called.   *)
StartSpawns(c, k) ==
    /\ call[c] = "preparing"
    /\ SpawnRun(k)
    /\ Waits(c, "idle")
    /\ UNCHANGED <<intentional, timer, resuming, key>>

-----------------------------------------------------------------------------
(* killOwnedChild: the process is told to end; its exit event comes later. *)
KillOwnedChild ==
    /\ intentional' = TRUE /\ timer' = FALSE
    /\ child' = None
    /\ os' = [k \in Children |-> IF k = child /\ os[k] = "up" THEN "exiting" ELSE os[k]]

StopCall(c) ==
    /\ call[c] = "idle"
    /\ KillOwnedChild
    /\ Waits(c, "stopping")
    /\ UNCHANGED <<state, resuming, key>>

(* PowerShell has ended every lnwjud tunnel it found (stop), or was not    *)
(* asked to (stopOwned) or failed.                                         *)
StopEnds(c) ==
    /\ call[c] = "stopping"
    /\ \E found \in SUBSET Up :
          os' = [k \in Children |-> IF k \in found THEN "exiting" ELSE os[k]]
    /\ StatusFrom(c, "stopped")
    /\ key' = FALSE
    /\ UNCHANGED <<child, intentional, timer, resuming>>

-----------------------------------------------------------------------------
(* scheduleRestart *)
ScheduleRestart == timer' = (timer \/ ~intentional)

Mut_DisownWithEvent(k) == child' = IF child = k THEN os[k] ELSE child
Disown(k) == child' = IF child = k THEN None ELSE child

ChildExits(k) ==
    /\ os[k] = "up"
    /\ os' = [os EXCEPT ![k] = "exiting"]
    /\ UNCHANGED <<state, child, intentional, timer, resuming, key, call>>

(* The 'exit' event: whose stop it is is decided by the flag of the moment.*)
ExitEvent(k) ==
    /\ os[k] = "exiting"
    /\ Disown(k)
    /\ IF intentional THEN state' = "stopped" /\ os' = [os EXCEPT ![k] = "free"]
                      ELSE UNCHANGED state /\ os' = [os EXCEPT ![k] = "hint"]
    /\ UNCHANGED <<intentional, timer, resuming, key, call>>

(* applyUnexpectedExit, once the exit hint has been read from the log.     *)
UnexpectedExit(k) ==
    /\ os[k] = "hint"
    /\ os' = [os EXCEPT ![k] = "free"]
    /\ state' = "error"
    /\ ScheduleRestart \/ UNCHANGED timer
    /\ UNCHANGED <<child, intentional, resuming, key, call>>

ErrorEvent(k) ==
    /\ os[k] = "refused"
    /\ os' = [os EXCEPT ![k] = "free"]
    /\ Disown(k)
    /\ state' = "error"
    /\ ScheduleRestart
    /\ UNCHANGED <<intentional, resuming, key, call>>

(* The callback of the restart timer, before and after its await (which is *)
(* shorter than any delay, so it is never entered twice).                  *)
RestartFires ==
    /\ timer /\ ~resuming
    /\ timer' = FALSE
    /\ resuming' = (~intentional /\ key)
    /\ UNCHANGED <<state, child, intentional, key, os, call>>

Mut_ResumeAnyway(k) ==
    /\ resuming /\ resuming' = FALSE
    /\ SpawnRun(k)
    /\ UNCHANGED <<intentional, timer, key, call>>
ResumeSpawns(k) ==
    /\ resuming /\ resuming' = FALSE
    /\ ~intentional /\ key
    /\ SpawnRun(k)
    /\ UNCHANGED <<intentional, timer, key, call>>

ResumeDropped ==
    /\ resuming /\ resuming' = FALSE
    /\ intentional \/ ~key
    /\ UNCHANGED <<state, child, intentional, timer, key, os, call>>

-----------------------------------------------------------------------------
CallSteps(c) ==
    \/ StatusProbed(c) \/ StartProbed(c) \/ StartChecked(c) \/ PrepareFails(c) \/ StopEnds(c)
    \/ Rejected(c)
    \/ \E k \in Children : StartSpawns(c, k)

Next ==
    \/ \E c \in Calls : StatusCall(c) \/ StartCall(c) \/ StopCall(c) \/ CallSteps(c)
    \/ \E k \in Children :
          ChildExits(k) \/ ExitEvent(k) \/ UnexpectedExit(k) \/ ErrorEvent(k) \/ ResumeSpawns(k)
    \/ RestartFires \/ ResumeDropped

(* Every await of a call is answered.                                      *)
Fairness == \A c \in Calls : WF_vars(CallSteps(c))

Spec == Init /\ [][Next]_vars
FairSpec == Spec /\ Fairness

-----------------------------------------------------------------------------
(* "The desktop owns the tunnel-client child it starts": no child runs that*)
(* the controller has lost track of and that quitting the app will leave.  *)
OwnsItsChild == \A k \in Up : child = k

(* After a stop no reconnect is pending until somebody calls start, though *)
(* an exit from before the stop may still be working its way to the timer. *)
StopDisarms == intentional => ~timer

(* Nor does a reconnect that had begun bring the child back: while the stop*)
(* stands, only a start() that was under way can spawn.                    *)
SpawnedByStart == intentional /\ Up # Up' /\ Up \subseteq Up' =>
    \E c \in Calls : call[c] = "preparing" /\ call'[c] = "idle"
StopOutlivesReconnect == [][SpawnedByStart]_vars

(* A start ends the "starting" it has set, in which start() does nothing   *)
(* and status() does not look, or its caller hears why not: mkdir of the   *)
(* profile directory is awaited without a handler.                         *)
StartingEnds == \A c \in Calls :
    (state = "starting" /\ call[c] = "preparing") ~> (state # "starting" \/ call[c] = "rejected")
=============================================================================

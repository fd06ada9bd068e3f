---------------------------- MODULE RuntimeState ----------------------------
(***************************************************************************)
(* The part of UpgradeRuntimeService (upgrade-runtime.ts) that keeps       *)
(* state: tasks, session checkpoints and plugins in memory, read lazily    *)
(* from one JSON file and written back to it as a whole after each change. *)
(* Every tool registry has a service of its own (upgrade-tools.ts:15): each*)
(* HTTP request and each stdio session, of the desktop and of the stdio    *)
(* runtime, and all of them use the one file.  An action is one await.     *)
(* Hooks and cache counters live in memory alone and are left out, like the*)
(* answers that only read.                                                 *)
(***************************************************************************)
EXTENDS Integers, FiniteSets

CONSTANTS Services,   \* services that may be there at a time
          Slots,      \* tool calls that one of them may have under way
          Ids,        \* random identifiers; each is given out once
          Plugins,    \* plugin names
          MaxCalls    \* bound: tool calls in all

VARIABLES
    stateFile,        \* the state that the file holds; {} when it does not parse
    loaded,           \* the flag of loadState, for each service
    memory,           \* the maps of each service
    call,             \* what each request is doing
    calls,            \* how many there have been
    acked,            \* history: ids of tasks and checkpoints that were answered
    current,          \* history: services that have all the file has
    overlapped,       \* history: a request came during its load, two wrote, or
                      \* one wrote that had not what others had written
    failed            \* history: a write failed, or its process ended in one

stateVars == <<stateFile, loaded, memory, call, calls, acked, current, overlapped, failed>>

Requests == Services \X Slots
Service(r) == r[1]

Torn == {}
Empty == [tasks |-> <<>>, checkpoints |-> {}, plugins |-> <<>>]
States == [tasks : UNION {[S -> {"queued", "cancelled"}] : S \in SUBSET Ids},
           checkpoints : SUBSET Ids,
           plugins : UNION {[S -> BOOLEAN] : S \in SUBSET Plugins}]
Resting == [at |-> "idle", kind |-> "none", id |-> "none", text |-> Empty]
Kinds == {"task_create", "task_cancel", "session_checkpoint", "plugin_enable",
          "plugin_disable", "plugin_remove"}
Work == [at : {"idle", "loading", "apply", "mkdir", "writing"}, kind : Kinds \union {"none"},
         id : Ids \union Plugins \union {"none"}, text : States]

RuntimeTypeOK ==
    /\ stateFile \subseteq States /\ Cardinality(stateFile) <= 1
    /\ memory \in [Services -> States] /\ loaded \in [Services -> BOOLEAN]
    /\ call \in [Requests -> Work]
    /\ calls \in 0..MaxCalls /\ acked \subseteq Ids /\ current \subseteq Services
    /\ overlapped \in BOOLEAN /\ failed \in BOOLEAN

RuntimeInit ==
    /\ stateFile = Torn /\ loaded = [s \in Services |-> FALSE] /\ memory = [s \in Services |-> Empty]
    /\ call = [r \in Requests |-> Resting] /\ calls = 0
    /\ acked = {} /\ current = {} /\ overlapped = FALSE /\ failed = FALSE

(* Map.set, for the entries of another map and for one entry.              *)
Over(f, g) == [x \in DOMAIN f \union DOMAIN g |-> IF x \in DOMAIN f THEN f[x] ELSE g[x]]
With(key, value, f) == Over([x \in {key} |-> value], f)

At(r, stage) == call[r].at = stage
Known(state) == DOMAIN state.tasks \union state.checkpoints
Used == {i \in Ids : \E r \in Requests : ~At(r, "idle") /\ call[r].id = i} \union acked

Held(r) == memory[Service(r)]
Holds(r, state) == memory' = [memory EXCEPT ![Service(r)] = state]

-----------------------------------------------------------------------------
(* execute: `loaded` is set before the file is read, so that only the      *)
(* first request of a service waits for it.                                *)
Execute(r, kind, id) ==
    /\ At(r, "idle") /\ calls < MaxCalls
    /\ id \in Plugins <=> kind \in {"plugin_enable", "plugin_disable", "plugin_remove"}
    /\ kind \in {"task_create", "session_checkpoint"} => id \notin Used
    /\ call' = [call EXCEPT ![r] = [at |-> IF loaded[Service(r)] THEN "apply" ELSE "loading",
                                    kind |-> kind, id |-> id, text |-> Empty]]
    /\ calls' = calls + 1
    /\ loaded' = [loaded EXCEPT ![Service(r)] = TRUE]
    /\ overlapped' = (overlapped \/ \E q \in Requests : Service(q) = Service(r) /\ At(q, "loading"))
    /\ UNCHANGED <<stateFile, memory, acked, current, failed>>

(* What the file holds replaces and joins what memory holds by now; a file *)
(* that does not parse, as while somebody writes it, counts as empty.      *)
Joined(text, state) ==
    [tasks |-> Over(text.tasks, state.tasks),
     checkpoints |-> state.checkpoints \union text.checkpoints,
     plugins |-> Over(text.plugins, state.plugins)]
Loads(r) ==
    /\ At(r, "loading")
    /\ call' = [call EXCEPT ![r].at = "apply"]
    /\ current' = IF \E q \in Requests : At(q, "writing") THEN current ELSE current \union {Service(r)}
    /\ UNCHANGED <<stateFile, loaded, calls, acked, overlapped, failed>>
Mut_LoadTasksOnly(r) ==
    /\ Loads(r)
    /\ \/ stateFile = Torn /\ Holds(r, Held(r))
       \/ \E text \in stateFile : Holds(r, [Joined(text, Held(r)) EXCEPT !.checkpoints = Held(r).checkpoints])
LoadState(r) ==
    /\ Loads(r)
    /\ \/ stateFile = Torn /\ Holds(r, Held(r))
       \/ \E text \in stateFile : Holds(r, Joined(text, Held(r)))

-----------------------------------------------------------------------------
(* createTask, cancelTask, session_checkpoint and changePlugin change the  *)
(* maps and go on to persistState.                                         *)
CreateTask(r) == call[r].kind = "task_create"
    /\ Holds(r, [Held(r) EXCEPT !.tasks = With(call[r].id, "queued", @)])
CancelTask(r) == call[r].kind = "task_cancel" /\ call[r].id \in DOMAIN Held(r).tasks
    /\ Holds(r, [Held(r) EXCEPT !.tasks[call[r].id] = "cancelled"])
SessionCheckpoint(r) == call[r].kind = "session_checkpoint"
    /\ Holds(r, [Held(r) EXCEPT !.checkpoints = @ \union {call[r].id}])
Mut_ChangePlugin(r) ==
    Holds(r, [Held(r) EXCEPT !.plugins = With(call[r].id, call[r].kind, @)])
ChangePlugin(r) ==
    \/ /\ call[r].kind \in {"plugin_enable", "plugin_disable"}
       /\ Holds(r, [Held(r) EXCEPT !.plugins = With(call[r].id, call[r].kind = "plugin_enable", @)])
    \/ /\ call[r].kind = "plugin_remove"
       /\ Holds(r, [Held(r) EXCEPT !.plugins = [p \in DOMAIN @ \ {call[r].id} |-> @[p]]])

Apply(r) ==
    /\ At(r, "apply")
    /\ CreateTask(r) \/ CancelTask(r) \/ SessionCheckpoint(r) \/ ChangePlugin(r)
    /\ call' = [call EXCEPT ![r].at = "mkdir"]
    /\ UNCHANGED <<stateFile, loaded, calls, acked, current, overlapped, failed>>

UnknownTask(r) ==
    /\ At(r, "apply") /\ call[r].kind = "task_cancel" /\ call[r].id \notin DOMAIN Held(r).tasks
    /\ call' = [call EXCEPT ![r] = Resting]
    /\ UNCHANGED <<stateFile, loaded, memory, calls, acked, current, overlapped, failed>>

-----------------------------------------------------------------------------
(* persistState: mkdir, then writeFile opens the file, which empties it,   *)
(* with the state of the service as it is at that moment.                  *)
OpenFile(r) ==
    /\ At(r, "mkdir")
    /\ call' = [call EXCEPT ![r] = [at |-> "writing", kind |-> @.kind, id |-> @.id,
                                    text |-> Held(r)]]
    /\ stateFile' = Torn
    /\ overlapped' = (overlapped \/ Service(r) \notin current \/ \E q \in Requests : At(q, "writing"))
    /\ current' = {Service(r)}
    /\ UNCHANGED <<loaded, memory, calls, acked, failed>>

Answer(r) ==
    /\ call' = [call EXCEPT ![r] = Resting]
    /\ acked' = IF call[r].kind \in {"task_create", "session_checkpoint"}
                THEN acked \union {call[r].id} ELSE acked

(* Over the text of another writer that opened the file meanwhile, the end *)
(* of the longer text stays behind the shorter one.                        *)
WriteFile(r) ==
    /\ At(r, "writing")
    /\ \/ stateFile' = {call[r].text}
       \/ stateFile # Torn /\ stateFile' = Torn
    /\ Answer(r)
    /\ UNCHANGED <<loaded, memory, calls, current, overlapped, failed>>

(* A write that fails is passed over: the call is answered all the same.   *)
PersistFails(r) ==
    /\ call[r].at \in {"mkdir", "writing"}
    /\ Answer(r)
    /\ failed' = TRUE
    /\ UNCHANGED <<stateFile, loaded, memory, calls, current, overlapped>>

(* Another service takes the place of s: its HTTP request is over, or its  *)
(* process ended and starts again.                                         *)
Restart(s) ==
    /\ loaded' = [loaded EXCEPT ![s] = FALSE] /\ memory' = [memory EXCEPT ![s] = Empty]
    /\ call' = [r \in Requests |-> IF Service(r) = s THEN Resting ELSE call[r]]
    /\ current' = current \ {s}
    /\ failed' = (failed \/ \E r \in Requests : Service(r) = s /\ At(r, "writing"))
    /\ UNCHANGED <<stateFile, calls, acked, overlapped>>

RuntimeNext ==
    \/ \E r \in Requests :
          \/ \E kind \in Kinds, i \in Ids \union Plugins : Execute(r, kind, i)
          \/ LoadState(r) \/ Apply(r) \/ UnknownTask(r)
          \/ OpenFile(r) \/ WriteFile(r) \/ PersistFails(r)
    \/ \E s \in Services : Restart(s)

RuntimeSpec == RuntimeInit /\ [][RuntimeNext]_stateVars

-----------------------------------------------------------------------------
Stored == UNION {Known(text) : text \in stateFile}
Quiet == \A r \in Requests : ~At(r, "writing")

(* A task or checkpoint that was answered is in the file whenever nobody   *)
(* writes it, and so comes back after a restart, as long as no request     *)
(* came during the load (line 480), no two writes overlapped, none failed  *)
(* (line 500), and no service wrote that had not read what another one had *)
(* written: requests that interleave elsewhere, and services that take     *)
(* turns by starting anew, lose nothing.                                   *)
AnsweredIsStored == ~overlapped /\ ~failed /\ Quiet => acked \subseteq Stored
=============================================================================

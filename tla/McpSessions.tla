---------------------------- MODULE McpSessions ----------------------------
(***************************************************************************)
(* McpSessionManager (packages/extensions/src/mcp-session-manager.ts) with *)
(* the entry points of LocalExtensionsService.  The manager keeps one      *)
(* session per child server name, and one name never touches the entry of  *)
(* another, so this is the life of one name: calls connect lazily, queue   *)
(* behind each other, drop the session BY NAME when they fail, and an idle *)
(* sweep closes it.  A child process is started by connect() and ends only *)
(* through close() of its own session or by itself.                        *)
(* Time is counted in ticks; a timer fires when it is due, not later.      *)
(***************************************************************************)
EXTENDS Naturals, Sequences

CONSTANTS Calls,        \* requests that may be under way at a time
          MaxSessions,  \* bound: children started in a behaviour
          CallTimeout,  \* callTimeoutMs, in ticks
          IdleTimeout   \* idleTimeoutMs, in ticks

ASSUME SessionsAssumption ==
    /\ MaxSessions \in Nat
    /\ CallTimeout \in Nat /\ IdleTimeout \in Nat /\ CallTimeout < IdleTimeout

VARIABLES
    listed,     \* the entry of the sessions map: a session, or 0
    child,      \* what the child of each session does
    queue,      \* the calls chained on managed.queue, the running one first
    runFor,     \* ticks since the first of the queue was started
    sinceUsed,  \* now - lastUsedAt of the session in the map (nobody reads another's)
    call,       \* what each request waits for
    raced       \* history: two connects overlapped, or one failed half way

vars == <<listed, child, queue, runFor, sinceUsed, call, raced>>

Sessions == 1..MaxSessions
Phases == {"none", "connecting", "listing", "open", "closing", "gone"}
Waits == [at : {"idle", "connect", "list", "queue", "close"},
          op : {"none", "describe", "call"}, on : 0..MaxSessions]
NoCall == [at |-> "idle", op |-> "none", on |-> 0]

TypeOK ==
    /\ listed \in 0..MaxSessions
    /\ child \in [Sessions -> Phases]
    /\ queue \in [Sessions -> Seq(Calls)]
    /\ runFor \in [Sessions -> 0..CallTimeout]
    /\ sinceUsed \in 0..IdleTimeout
    /\ call \in [Calls -> Waits]
    /\ raced \in BOOLEAN

Init ==
    /\ listed = 0
    /\ child = [i \in Sessions |-> "none"]
    /\ queue = [i \in Sessions |-> <<>>]
    /\ runFor = [i \in Sessions |-> 0]
    /\ sinceUsed = 0
    /\ call = [c \in Calls |-> NoCall]
    /\ raced = FALSE

-----------------------------------------------------------------------------
(* enqueue: a call that finds the queue empty is started at once.          *)
Enqueued(c, i) ==
    /\ queue' = [queue EXCEPT ![i] = Append(@, c)]
    /\ runFor' = IF queue[i] = <<>> THEN [runFor EXCEPT ![i] = 0] ELSE runFor
    /\ call' = [call EXCEPT ![c] = [at |-> "queue", op |-> "call", on |-> i]]

(* What follows ensure() in describe() and in call().                      *)
Mut_EnsuredWithoutTouch(c, op, i) ==
    /\ UNCHANGED sinceUsed
    /\ \/ op = "call" /\ Enqueued(c, i)
       \/ op = "describe" /\ call' = [call EXCEPT ![c] = NoCall] /\ UNCHANGED <<queue, runFor>>
Ensured(c, op, i) ==
    /\ sinceUsed' = 0
    /\ \/ op = "call" /\ Enqueued(c, i)
       \/ op = "describe" /\ call' = [call EXCEPT ![c] = NoCall] /\ UNCHANGED <<queue, runFor>>

(* describeMcpServer and callMcpTool up to the first await of ensure(); a  *)
(* name that is unknown, disabled or excluded changes nothing and is left  *)
(* out here (see ExtensionCatalog).                                         *)
Request(c, op) ==
    /\ call[c] = NoCall
    /\ \/ /\ listed # 0
          /\ Ensured(c, op, listed)
          /\ UNCHANGED <<listed, child, raced>>
       \/ /\ listed = 0
          /\ \E i \in Sessions :
                /\ child[i] = "none" /\ \A j \in 1..(i - 1) : child[j] # "none"
                /\ child' = [child EXCEPT ![i] = "connecting"]
                /\ call' = [call EXCEPT ![c] = [at |-> "connect", op |-> op, on |-> i]]
          /\ raced' = (raced \/ \E d \in Calls : call[d].at \in {"connect", "list"})
          /\ UNCHANGED <<listed, queue, runFor, sinceUsed>>

Connected(c) ==
    /\ call[c].at = "connect"
    /\ child' = [child EXCEPT ![call[c].on] = "listing"]
    /\ call' = [call EXCEPT ![c].at = "list"]
    /\ UNCHANGED <<listed, queue, runFor, sinceUsed, raced>>

(* The tools are known: the session enters the map, over whatever is there.*)
ToolsListed(c) ==
    /\ call[c].at = "list"
    /\ listed' = call[c].on
    /\ child' = [child EXCEPT ![call[c].on] = "open"]
    /\ Ensured(c, call[c].op, call[c].on)
    /\ UNCHANGED <<raced>>

(* drop(): whatever the name stands for NOW is closed; c waits for it.     *)
DropBy(c, children) ==
    /\ listed' = 0
    /\ child' = IF listed = 0 THEN children ELSE [children EXCEPT ![listed] = "closing"]
    /\ call' = [call EXCEPT ![c] = IF listed = 0 THEN NoCall
                                   ELSE [at |-> "close", op |-> "call", on |-> listed]]

(* ensure() fails.  A connect that fails leaves no child; a child that     *)
(* fails to list its tools stays up.  Only call() drops the session.       *)
EnsureFails(c) ==
    /\ call[c].at \in {"connect", "list"}
    /\ LET i == call[c].on
           children == [child EXCEPT ![i] = IF call[c].at = "connect" THEN "gone" ELSE "open"]
       IN  \/ call[c].op = "call" /\ DropBy(c, children)
           \/ /\ call[c].op = "describe"
              /\ child' = children /\ call' = [call EXCEPT ![c] = NoCall]
              /\ UNCHANGED listed
    /\ raced' = (raced \/ call[c].at = "list")
    /\ UNCHANGED <<queue, runFor, sinceUsed>>

Advance(i) ==
    /\ queue' = [queue EXCEPT ![i] = Tail(@)]
    /\ runFor' = [runFor EXCEPT ![i] = 0]

CallAnswers(i) ==
    /\ queue[i] # <<>> /\ child[i] = "open"
    /\ Advance(i)
    /\ sinceUsed' = IF i = listed THEN 0 ELSE sinceUsed
    /\ call' = [call EXCEPT ![Head(queue[i])] = NoCall]
    /\ UNCHANGED <<listed, child, raced>>

(* The tool fails, the timeout of the call passes, or the session is being *)
(* closed: the next call is started all the same.                          *)
CallFails(i) ==
    /\ queue[i] # <<>>
    /\ Advance(i)
    /\ DropBy(Head(queue[i]), child)
    /\ UNCHANGED <<sinceUsed, raced>>

(* close() of the client ends; who waited for it is answered.              *)
Mut_CloseEndsUnheard(i) ==
    /\ child[i] = "closing"
    /\ child' = [child EXCEPT ![i] = "gone"]
    /\ UNCHANGED <<listed, queue, runFor, sinceUsed, call, raced>>
CloseEnds(i) ==
    /\ child[i] = "closing"
    /\ child' = [child EXCEPT ![i] = "gone"]
    /\ call' = [c \in Calls |-> IF call[c].at = "close" /\ call[c].on = i THEN NoCall ELSE call[c]]
    /\ UNCHANGED <<listed, queue, runFor, sinceUsed, raced>>

(* The child ends by itself; its session stays in the map until a call     *)
(* fails on it.                                                            *)
ChildExits(i) ==
    /\ child[i] = "open"
    /\ child' = [child EXCEPT ![i] = "gone"]
    /\ UNCHANGED <<listed, queue, runFor, sinceUsed, call, raced>>

(* sweepIdle, and close() of the manager: the entry goes, then the child.  *)
Unlist ==
    /\ listed # 0
    /\ listed' = 0
    /\ child' = [child EXCEPT ![listed] = "closing"]
    /\ UNCHANGED <<queue, runFor, sinceUsed, call, raced>>
SweepIdle == listed # 0 /\ sinceUsed >= IdleTimeout /\ Unlist
ManagerCloses == Unlist

Tick ==
    /\ \A i \in Sessions : queue[i] # <<>> => runFor[i] < CallTimeout
    /\ runFor' = [i \in Sessions |-> IF queue[i] = <<>> THEN 0 ELSE runFor[i] + 1]
    /\ sinceUsed' = IF listed # 0 /\ sinceUsed < IdleTimeout THEN sinceUsed + 1 ELSE sinceUsed
    /\ UNCHANGED <<listed, child, queue, call, raced>>

-----------------------------------------------------------------------------
Next ==
    \/ \E c \in Calls :
          \/ \E op \in {"describe", "call"} : Request(c, op)
          \/ Connected(c) \/ ToolsListed(c) \/ EnsureFails(c)
    \/ \E i \in Sessions : CallAnswers(i) \/ CallFails(i) \/ CloseEnds(i) \/ ChildExits(i)
    \/ SweepIdle \/ ManagerCloses \/ Tick

(* Every request of the SDK has a timeout, and so has every call here; the *)
(* SDK's close() settles after its own waits and ends the child.           *)
Fairness ==
    /\ \A c \in Calls : WF_vars(Connected(c) \/ ToolsListed(c) \/ EnsureFails(c))
    /\ \A i \in Sessions : WF_vars(CallAnswers(i) \/ CallFails(i)) /\ WF_vars(CloseEnds(i))

Spec == Init /\ [][Next]_vars
FairSpec == Spec /\ Fairness

-----------------------------------------------------------------------------
(* The idle sweep (lines 130-135) never closes a session under a call: what *)
(* is idle long enough has nothing queued, because a call ends within the  *)
(* shorter call timeout and only a success leaves the session in the map.  *)
SweepSparesCalls ==
    listed # 0 /\ sinceUsed >= IdleTimeout => queue[listed] = <<>>

(* Where no two first calls overlap and no child fails to list its tools,  *)
(* every child that is up is the one in the map, so that drop, sweep or    *)
(* close can end it.  (Otherwise ensure(), lines 91-104, loses one.)       *)
ChildInMap == ~raced => \A i \in Sessions : child[i] = "open" => listed = i

(* Every describe and every call is answered, also those queued behind a   *)
(* call that fails and takes the session with it.                          *)
CallsAnswered == \A c \in Calls : call[c] # NoCall ~> call[c] = NoCall
=============================================================================

--------------------------- MODULE MCServicesProofs ---------------------------
(***************************************************************************)
(* Proofs about the services behind the tools and about the calls of the   *)
(* tools, for any number of requests, tasks, tabs, sessions and profiles.  *)
(* Every service has an inductive invariant of its own; BenchInv joins     *)
(* them, and the theorems about BenchSpec are at the end.                  *)
(***************************************************************************)
EXTENDS MCServices, SequenceLemmas

-----------------------------------------------------------------------------
(* McpSessions: the sessions of one child server.                          *)
(* While a call runs on the session in the map, the session was last used  *)
(* no earlier than that call was started.                                  *)
UsedByCall == \A i \in Sessions :
    listed = i /\ queue[i] # <<>> => sinceUsed <= runFor[i]

(* A request that makes a session is the only one that does, nothing is in *)
(* the map meanwhile, and its child is not up yet.                         *)
Making(c) == call[c].at \in {"connect", "list"}
MakesAlone == \A c \in Calls : Making(c) =>
    /\ listed = 0
    /\ \A d \in Calls : Making(d) => d = c

SessionInv == TypeOK /\ UsedByCall /\ (~raced => MakesAlone /\ ChildInMap)

-----------------------------------------------------------------------------
LEMMA SessionInitInv == Init => SessionInv
<1> SUFFICES ASSUME Init PROVE SessionInv
  OBVIOUS
<1> USE SessionsAssumption DEF Init
<1>1. call \in [Calls -> Waits]
  BY DEF NoCall, Waits
<1>2. queue \in [Sessions -> Seq(Calls)]
  <2>1. << >> \in Seq(Calls)
    OBVIOUS
  <2> QED
    BY <2>1
<1>3. runFor \in [Sessions -> 0..CallTimeout] /\ sinceUsed \in 0..IdleTimeout
  OBVIOUS
<1>4. child \in [Sessions -> Phases]
  BY DEF Phases
<1>5. listed \in 0..MaxSessions
  OBVIOUS
<1>r. raced \in BOOLEAN
  OBVIOUS
<1> HIDE DEF Init
<1>6. TypeOK
  BY <1>1, <1>2, <1>3, <1>4, <1>5, <1>r DEF TypeOK
<1>7. UsedByCall /\ MakesAlone /\ ChildInMap
  BY DEF Init, UsedByCall, MakesAlone, Making, ChildInMap, NoCall, Sessions
<1> QED
  BY <1>6, <1>7 DEF SessionInv

(* What a request may come to wait for.                                    *)
LEMMA WaitsAre ==
  /\ NoCall \in Waits
  /\ \A at \in {"idle", "connect", "list", "queue", "close"},
        op \in {"none", "describe", "call"}, i \in 0..MaxSessions :
           [at |-> at, op |-> op, on |-> i] \in Waits
  /\ \A w \in Waits : w.on \in 0..MaxSessions /\ w.op \in {"none", "describe", "call"}
  BY SessionsAssumption DEF Waits, NoCall

LEMMA WaitsNext == ASSUME NEW w \in Waits PROVE [w EXCEPT !.at = "list"] \in Waits
  BY DEF Waits

(* One more wait, one more phase, one more queued call: each function keeps *)
(* its type, whichever argument it is changed at.                          *)
LEMMA FunctionsKept ==
  /\ \A c : \A f \in [Calls -> Waits], w \in Waits : [f EXCEPT ![c] = w] \in [Calls -> Waits]
  /\ \A i : \A f \in [Sessions -> Phases], p \in Phases : [f EXCEPT ![i] = p] \in [Sessions -> Phases]
  /\ \A i : \A f \in [Sessions -> 0..CallTimeout] :
        [f EXCEPT ![i] = 0] \in [Sessions -> 0..CallTimeout]
  /\ \A i : \A f \in [Sessions -> Seq(Calls)], c \in Calls :
        [f EXCEPT ![i] = Append(@, c)] \in [Sessions -> Seq(Calls)]
  /\ \A f \in [Sessions -> Seq(Calls)], i \in Sessions :
        f[i] # << >> => [f EXCEPT ![i] = Tail(@)] \in [Sessions -> Seq(Calls)]
<1>1. \A q \in Seq(Calls), c \in Calls : Append(q, c) \in Seq(Calls)
  OBVIOUS
<1>2. \A q \in Seq(Calls) : q # << >> => Tail(q) \in Seq(Calls)
  OBVIOUS
<1>3. \A i : \A f \in [Sessions -> Seq(Calls)], c \in Calls :
        [f EXCEPT ![i] = Append(@, c)] \in [Sessions -> Seq(Calls)]
  BY <1>1
<1>4. \A f \in [Sessions -> Seq(Calls)], i \in Sessions :
        f[i] # << >> => [f EXCEPT ![i] = Tail(@)] \in [Sessions -> Seq(Calls)]
  BY <1>2
<1>5. \A c : \A f \in [Calls -> Waits], w \in Waits : [f EXCEPT ![c] = w] \in [Calls -> Waits]
  OBVIOUS
<1>6. \A i : \A f \in [Sessions -> Phases], p \in Phases :
        [f EXCEPT ![i] = p] \in [Sessions -> Phases]
  OBVIOUS
<1>7. \A i : \A f \in [Sessions -> 0..CallTimeout] :
        [f EXCEPT ![i] = 0] \in [Sessions -> 0..CallTimeout]
  <2>1. 0 \in 0..CallTimeout
    BY SessionsAssumption
  <2> QED
    BY <2>1
<1> QED
  BY <1>3, <1>4, <1>5, <1>6, <1>7

(* A call that follows ensure() keeps the types of what it writes.         *)
LEMMA EnsuredTyped ==
  ASSUME TypeOK, NEW c \in Calls, NEW op, NEW i \in 0..MaxSessions, Ensured(c, op, i)
  PROVE  /\ sinceUsed' \in 0..IdleTimeout
         /\ queue' \in [Sessions -> Seq(Calls)]
         /\ runFor' \in [Sessions -> 0..CallTimeout]
         /\ call' \in [Calls -> Waits]
<1> USE SessionsAssumption, FunctionsKept, WaitsAre DEF TypeOK
<1>1. sinceUsed' \in 0..IdleTimeout
  BY DEF Ensured
<1>2. CASE Enqueued(c, i)
  <2>1. queue' \in [Sessions -> Seq(Calls)]
    <3>1. queue' = [queue EXCEPT ![i] = Append(@, c)] /\ queue \in [Sessions -> Seq(Calls)]
      BY <1>2 DEF Enqueued
    <3>2. ASSUME NEW j \in Sessions PROVE queue'[j] \in Seq(Calls)
      <4>1. Append(queue[j], c) \in Seq(Calls)
        BY <3>1
      <4> QED
        BY <3>1, <4>1
    <3>3. queue' = [j \in Sessions |-> queue'[j]]
      BY <3>1
    <3> QED
      BY <3>2, <3>3
  <2>2. runFor' \in [Sessions -> 0..CallTimeout]
    BY <1>2 DEF Enqueued
  <2>3. call' \in [Calls -> Waits]
    BY <1>2 DEF Enqueued
  <2> QED
    BY <1>1, <2>1, <2>2, <2>3
<1>3. CASE call' = [call EXCEPT ![c] = NoCall] /\ UNCHANGED <<queue, runFor>>
  BY <1>1, <1>3
<1> QED
  BY <1>2, <1>3 DEF Ensured

(* And so does a drop.                                                     *)
LEMMA DropTyped ==
  ASSUME TypeOK, NEW c, NEW children \in [Sessions -> Phases], DropBy(c, children)
  PROVE  /\ listed' \in 0..MaxSessions
         /\ child' \in [Sessions -> Phases]
         /\ call' \in [Calls -> Waits]
<1>1. "closing" \in Phases
  BY DEF Phases
<1>2. listed' \in 0..MaxSessions
  BY SessionsAssumption DEF DropBy
<1>3. child' \in [Sessions -> Phases]
  BY <1>1, FunctionsKept DEF DropBy
<1>4. call' \in [Calls -> Waits]
  <2>1. [at |-> "close", op |-> "call", on |-> listed] \in Waits
    BY WaitsAre DEF TypeOK
  <2> QED
    BY <2>1, FunctionsKept, WaitsAre DEF TypeOK, DropBy
<1> QED
  BY <1>2, <1>3, <1>4

(* Every step keeps the variables in their types.                          *)
LEMMA TypeKept == TypeOK /\ Next => TypeOK'
<1> SUFFICES ASSUME TypeOK, Next PROVE TypeOK'
  OBVIOUS
<1>p. {"connecting", "listing", "open", "closing", "gone"} \subseteq Phases
  BY DEF Phases
<1> USE SessionsAssumption, FunctionsKept, WaitsAre, <1>p
<1>1. ASSUME NEW c \in Calls, NEW op \in {"describe", "call"}, Request(c, op) PROVE TypeOK'
  <2>1. CASE listed # 0 /\ Ensured(c, op, listed) /\ UNCHANGED <<listed, child, raced>>
    <3>1. listed \in 0..MaxSessions
      BY DEF TypeOK
    <3> QED
      BY <2>1, <3>1, EnsuredTyped DEF TypeOK
  <2>2. CASE listed = 0
    <3>1. PICK i \in Sessions :
            /\ child' = [child EXCEPT ![i] = "connecting"]
            /\ call' = [call EXCEPT ![c] = [at |-> "connect", op |-> op, on |-> i]]
      BY <1>1, <2>2 DEF Request
    <3>2. child' \in [Sessions -> Phases]
      BY <3>1 DEF TypeOK
    <3>3. call' \in [Calls -> Waits]
      BY <3>1 DEF TypeOK, Sessions
    <3>4. raced' \in BOOLEAN /\ UNCHANGED <<listed, queue, runFor, sinceUsed>>
      BY <1>1, <2>2 DEF Request
    <3> QED
      BY <3>2, <3>3, <3>4 DEF TypeOK
  <2> QED
    BY <1>1, <2>1, <2>2 DEF Request
<1>2. ASSUME NEW c \in Calls, Connected(c) PROVE TypeOK'
  <2>1. call[c] \in Waits
    BY DEF TypeOK
  <2>2. call' = [call EXCEPT ![c] = [call[c] EXCEPT !.at = "list"]]
    BY <1>2 DEF Connected
  <2>3. [call[c] EXCEPT !.at = "list"] \in Waits
    BY <2>1, WaitsNext
  <2>4. child' \in [Sessions -> Phases] /\ UNCHANGED <<listed, queue, runFor, sinceUsed, raced>>
    BY <1>2 DEF Connected, TypeOK
  <2>5. call' \in [Calls -> Waits]
    BY <2>2, <2>3 DEF TypeOK
  <2> QED
    BY <2>4, <2>5 DEF TypeOK
<1>3. ASSUME NEW c \in Calls, ToolsListed(c) PROVE TypeOK'
  <2>1. call[c].on \in 0..MaxSessions
    BY DEF TypeOK
  <2>2. child' \in [Sessions -> Phases]
    BY <1>3 DEF ToolsListed, TypeOK
  <2>3. Ensured(c, call[c].op, call[c].on) /\ listed' = call[c].on /\ UNCHANGED raced
    BY <1>3 DEF ToolsListed
  <2> QED
    BY <2>1, <2>2, <2>3, EnsuredTyped DEF TypeOK
<1>4. ASSUME NEW c \in Calls, EnsureFails(c) PROVE TypeOK'
  <2> DEFINE children == [child EXCEPT ![call[c].on] =
                             IF call[c].at = "connect" THEN "gone" ELSE "open"]
  <2>1. children \in [Sessions -> Phases]
    BY DEF TypeOK
  <2>2. raced' \in BOOLEAN /\ UNCHANGED <<queue, runFor, sinceUsed>>
    BY <1>4 DEF EnsureFails
  <2>3. \/ DropBy(c, children)
        \/ child' = children /\ call' = [call EXCEPT ![c] = NoCall] /\ UNCHANGED listed
    BY <1>4 DEF EnsureFails
  <2> HIDE DEF children
  <2>4. CASE DropBy(c, children)
    BY <2>1, <2>2, <2>4, DropTyped DEF TypeOK
  <2>5. CASE child' = children /\ call' = [call EXCEPT ![c] = NoCall] /\ UNCHANGED listed
    BY <2>1, <2>2, <2>5 DEF TypeOK
  <2> QED
    BY <2>3, <2>4, <2>5
<1>5. ASSUME NEW i \in Sessions, Advance(i), queue[i] # << >>
      PROVE  queue' \in [Sessions -> Seq(Calls)] /\ runFor' \in [Sessions -> 0..CallTimeout]
  BY <1>5 DEF Advance, TypeOK
<1>6. ASSUME NEW i \in Sessions, CallAnswers(i) PROVE TypeOK'
  <2>1. sinceUsed' \in 0..IdleTimeout /\ call' \in [Calls -> Waits] /\ UNCHANGED <<listed, child, raced>>
    BY <1>6 DEF CallAnswers, TypeOK
  <2>2. Advance(i) /\ queue[i] # << >>
    BY <1>6 DEF CallAnswers
  <2> QED
    BY <1>5, <2>1, <2>2 DEF TypeOK
<1>7. ASSUME NEW i \in Sessions, CallFails(i) PROVE TypeOK'
  <2>1. child \in [Sessions -> Phases]
    BY DEF TypeOK
  <2>2. DropBy(Head(queue[i]), child) /\ Advance(i) /\ queue[i] # << >> /\ UNCHANGED <<sinceUsed, raced>>
    BY <1>7 DEF CallFails
  <2> QED
    BY <1>5, <2>1, <2>2, DropTyped DEF TypeOK
<1>8. ASSUME NEW i \in Sessions, CloseEnds(i) \/ ChildExits(i) PROVE TypeOK'
  <2>0. child' = [child EXCEPT ![i] = "gone"] /\ UNCHANGED <<listed, queue, runFor, sinceUsed, raced>>
    BY <1>8 DEF CloseEnds, ChildExits
  <2>1. child' \in [Sessions -> Phases]
    BY <2>0 DEF TypeOK
  <2>2. call' \in [Calls -> Waits]
    <3>1. CASE CloseEnds(i)
      BY <3>1 DEF CloseEnds, TypeOK
    <3>2. CASE ChildExits(i)
      BY <3>2 DEF ChildExits, TypeOK
    <3> QED
      BY <1>8, <3>1, <3>2
  <2> QED
    BY <2>0, <2>1, <2>2 DEF TypeOK
<1>9. CASE SweepIdle \/ ManagerCloses
  <2>1. /\ listed' = 0
        /\ child' = [child EXCEPT ![listed] = "closing"]
        /\ UNCHANGED <<queue, runFor, sinceUsed, call, raced>>
    BY <1>9 DEF SweepIdle, ManagerCloses, Unlist
  <2>2. child' \in [Sessions -> Phases]
    BY <2>1 DEF TypeOK
  <2>3. listed' \in 0..MaxSessions
    BY <2>1
  <2> QED
    BY <2>1, <2>2, <2>3 DEF TypeOK
<1>10. CASE Tick
  <2>1. runFor' \in [Sessions -> 0..CallTimeout]
    BY <1>10 DEF Tick, TypeOK
  <2> QED
    BY <1>10, <2>1 DEF Tick, TypeOK
<1> QED
  BY <1>1, <1>2, <1>3, <1>4, <1>6, <1>7, <1>8, <1>9, <1>10 DEF Next

-----------------------------------------------------------------------------
(* A call that follows ensure() leaves the session just used, makes nobody *)
(* a maker, and touches no other queue.                                    *)
LEMMA EnsuredUses ==
  ASSUME TypeOK, NEW c \in Calls, NEW op, NEW i \in 0..MaxSessions, Ensured(c, op, i)
  PROVE  sinceUsed' = 0 /\ \A d \in Calls : Making(d)' => Making(d) /\ d # c
<1>1. CASE Enqueued(c, i)
  BY <1>1 DEF Ensured, Enqueued, TypeOK, Making
<1>2. CASE call' = [call EXCEPT ![c] = NoCall] /\ UNCHANGED <<queue, runFor>>
  BY <1>2 DEF Ensured, NoCall, TypeOK, Making
<1> QED
  BY <1>1, <1>2 DEF Ensured

(* What is used at the moment has been used since any call was started.    *)
LEMMA JustUsed == TypeOK' /\ sinceUsed' = 0 => UsedByCall'
<1> SUFFICES ASSUME TypeOK', sinceUsed' = 0, NEW i \in Sessions PROVE sinceUsed' <= runFor'[i]
  BY DEF UsedByCall
<1>1. runFor'[i] \in 0..CallTimeout
  BY DEF TypeOK
<1> QED
  BY <1>1, SessionsAssumption

(* Nothing in the map, nothing to be used.                                 *)
LEMMA NothingUsed == listed' = 0 => UsedByCall'
  BY SessionsAssumption DEF UsedByCall, Sessions

(* Every step keeps the session in the map as recently used as its call.   *)
LEMMA UseKept == TypeOK /\ UsedByCall /\ Next => UsedByCall'
<1> SUFFICES ASSUME TypeOK, UsedByCall, Next PROVE UsedByCall'
  OBVIOUS
<1>t. TypeOK'
  BY TypeKept
<1>1. ASSUME NEW c \in Calls, NEW op \in {"describe", "call"}, Request(c, op) PROVE UsedByCall'
  <2>1. CASE listed # 0 /\ Ensured(c, op, listed)
    <3>1. listed \in 0..MaxSessions
      BY DEF TypeOK
    <3> QED
      BY <1>t, <2>1, <3>1, EnsuredUses, JustUsed
  <2>2. CASE listed = 0 /\ UNCHANGED <<listed, queue, runFor, sinceUsed>>
    BY <2>2, NothingUsed
  <2> QED
    BY <1>1, <2>1, <2>2 DEF Request
<1>2. ASSUME NEW c \in Calls, Connected(c) PROVE UsedByCall'
  BY <1>2 DEF Connected, UsedByCall
<1>3. ASSUME NEW c \in Calls, ToolsListed(c) PROVE UsedByCall'
  <2>1. call[c].on \in 0..MaxSessions
    BY WaitsAre DEF TypeOK
  <2>2. Ensured(c, call[c].op, call[c].on)
    BY <1>3 DEF ToolsListed
  <2> QED
    BY <1>t, <2>1, <2>2, EnsuredUses, JustUsed
<1>4. ASSUME NEW c \in Calls, EnsureFails(c) PROVE UsedByCall'
  <2>1. UNCHANGED <<queue, runFor, sinceUsed>> /\ (listed' = 0 \/ listed' = listed)
    BY <1>4 DEF EnsureFails, DropBy
  <2> QED
    BY <2>1, NothingUsed DEF UsedByCall
<1>5. ASSUME NEW i \in Sessions, CallAnswers(i) PROVE UsedByCall'
  <2>1. CASE i = listed
    BY <1>t, <1>5, <2>1, JustUsed DEF CallAnswers
  <2>2. CASE i # listed
    BY <1>5, <2>2 DEF CallAnswers, Advance, UsedByCall, TypeOK
  <2> QED
    BY <2>1, <2>2
<1>6. ASSUME NEW i \in Sessions, CallFails(i) PROVE UsedByCall'
  BY <1>6, NothingUsed DEF CallFails, DropBy
<1>7. ASSUME NEW i \in Sessions, CloseEnds(i) \/ ChildExits(i) PROVE UsedByCall'
  BY <1>7 DEF CloseEnds, ChildExits, UsedByCall
<1>8. CASE SweepIdle \/ ManagerCloses
  BY <1>8, NothingUsed DEF SweepIdle, ManagerCloses, Unlist
<1>9. CASE Tick
  <2> SUFFICES ASSUME NEW i \in Sessions, listed' = i, queue'[i] # << >>
               PROVE  sinceUsed' <= runFor'[i]
    BY DEF UsedByCall
  <2>1. listed = i /\ queue[i] # << >>
    BY <1>9 DEF Tick
  <2>2. sinceUsed <= runFor[i]
    BY <2>1 DEF UsedByCall
  <2>3. runFor'[i] = runFor[i] + 1
    BY <1>9, <2>1 DEF Tick
  <2>4. sinceUsed' = sinceUsed \/ sinceUsed' = sinceUsed + 1
    BY <1>9 DEF Tick
  <2>5. sinceUsed \in Nat /\ runFor[i] \in Nat
    BY SessionsAssumption DEF TypeOK
  <2> QED
    BY <2>2, <2>3, <2>4, <2>5
<1> QED
  BY <1>1, <1>2, <1>3, <1>4, <1>5, <1>6, <1>7, <1>8, <1>9 DEF Next

(* A step that makes nobody a maker, enters nothing in the map and brings  *)
(* no child up keeps the makers alone.                                     *)
LEMMA AloneKept ==
  ASSUME MakesAlone,
         \A d \in Calls : Making(d)' => Making(d),
         listed' \in {0, listed}
  PROVE  MakesAlone'
  BY DEF MakesAlone

(* While no two first calls overlap and no child fails to list its tools,  *)
(* whoever makes a session makes it alone, and each child up is in the map.*)
LEMMA ChildKept ==
  TypeOK /\ MakesAlone /\ ChildInMap /\ ~raced /\ Next /\ ~raced' => MakesAlone' /\ ChildInMap'
<1> SUFFICES ASSUME TypeOK, MakesAlone, ChildInMap, ~raced, Next, ~raced'
             PROVE  MakesAlone' /\ \A j \in Sessions : child'[j] = "open" => listed' = j
  BY DEF ChildInMap
<1>c. \A j \in Sessions : child[j] = "open" => listed = j
  BY DEF ChildInMap
<1>n. listed = 0 => \A j \in Sessions : child[j] # "open"
  BY <1>c, SessionsAssumption DEF Sessions
<1>f. child \in [Sessions -> Phases] /\ call \in [Calls -> Waits] /\ listed \in 0..MaxSessions
  BY DEF TypeOK
<1>1. ASSUME NEW c \in Calls, NEW op \in {"describe", "call"}, Request(c, op)
      PROVE  MakesAlone' /\ \A j \in Sessions : child'[j] = "open" => listed' = j
  <2>1. CASE listed # 0 /\ Ensured(c, op, listed) /\ UNCHANGED <<listed, child, raced>>
    <3>1. MakesAlone'
      BY <1>f, <2>1, EnsuredUses, AloneKept
    <3> QED
      BY <1>c, <2>1, <3>1
  <2>2. CASE listed = 0 /\ listed' = listed
    <3>1. PICK i \in Sessions :
            /\ child' = [child EXCEPT ![i] = "connecting"]
            /\ call' = [call EXCEPT ![c] = [at |-> "connect", op |-> op, on |-> i]]
            /\ ~ \E d \in Calls : call[d].at \in {"connect", "list"}
      BY <1>1, <2>2 DEF Request
    <3>2. \A d \in Calls : Making(d)' => d = c
      BY <1>f, <3>1 DEF Making
    <3> QED
      BY <1>f, <1>n, <2>2, <3>1, <3>2 DEF MakesAlone
  <2> QED
    BY <1>1, <2>1, <2>2 DEF Request
<1>2. ASSUME NEW c \in Calls, Connected(c)
      PROVE  MakesAlone' /\ \A j \in Sessions : child'[j] = "open" => listed' = j
  <2>1. \A d \in Calls : Making(d)' => Making(d)
    BY <1>f, <1>2 DEF Connected, Making
  <2>2. MakesAlone'
    BY <1>2, <2>1, AloneKept DEF Connected
  <2> QED
    BY <1>c, <1>f, <1>2, <2>2 DEF Connected
<1>3. ASSUME NEW c \in Calls, ToolsListed(c)
      PROVE  MakesAlone' /\ \A j \in Sessions : child'[j] = "open" => listed' = j
  <2>1. call[c].on \in 0..MaxSessions /\ Ensured(c, call[c].op, call[c].on)
    BY <1>f, <1>3, WaitsAre DEF ToolsListed
  <2>2. Making(c) /\ listed = 0
    BY <1>3 DEF ToolsListed, Making, MakesAlone
  <2>3. \A d \in Calls : ~ Making(d)'
    BY <2>1, <2>2, EnsuredUses DEF MakesAlone
  <2>4. listed' = call[c].on /\ child' = [child EXCEPT ![call[c].on] = "open"]
    BY <1>3 DEF ToolsListed
  <2> QED
    BY <1>f, <1>n, <2>2, <2>3, <2>4 DEF MakesAlone
<1>4. ASSUME NEW c \in Calls, EnsureFails(c)
      PROVE  MakesAlone' /\ \A j \in Sessions : child'[j] = "open" => listed' = j
  <2>1. call[c].at = "connect"
    BY <1>4 DEF EnsureFails
  <2>2. Making(c) /\ listed = 0
    BY <2>1 DEF Making, MakesAlone
  <2>3. child' = [child EXCEPT ![call[c].on] = "gone"] /\ call' = [call EXCEPT ![c] = NoCall]
        /\ listed' = 0
    BY <1>4, <2>1, <2>2 DEF EnsureFails, DropBy
  <2>4. \A d \in Calls : Making(d)' => Making(d)
    BY <1>f, <2>3 DEF Making, NoCall
  <2> QED
    BY <1>f, <1>n, <2>2, <2>3, <2>4, AloneKept
<1>5. ASSUME NEW i \in Sessions, CallAnswers(i)
      PROVE  MakesAlone' /\ \A j \in Sessions : child'[j] = "open" => listed' = j
  <2>1. \A d \in Calls : Making(d)' => Making(d)
    BY <1>f, <1>5 DEF CallAnswers, Making, NoCall
  <2> QED
    BY <1>c, <1>5, <2>1, AloneKept DEF CallAnswers
<1>6. ASSUME NEW i \in Sessions, CallFails(i)
      PROVE  MakesAlone' /\ \A j \in Sessions : child'[j] = "open" => listed' = j
  <2>1. DropBy(Head(queue[i]), child)
    BY <1>6 DEF CallFails
  <2>2. \A d \in Calls : Making(d)' => Making(d)
    BY <1>f, <2>1 DEF DropBy, Making, NoCall
  <2>3. \A j \in Sessions : child'[j] # "open"
    BY <1>c, <1>f, <1>n, <2>1 DEF DropBy
  <2> QED
    BY <2>1, <2>2, <2>3, AloneKept DEF DropBy
<1>7. ASSUME NEW i \in Sessions, CloseEnds(i) \/ ChildExits(i)
      PROVE  MakesAlone' /\ \A j \in Sessions : child'[j] = "open" => listed' = j
  <2>1. \A d \in Calls : Making(d)' => Making(d)
    BY <1>f, <1>7 DEF CloseEnds, ChildExits, Making, NoCall
  <2>2. child' = [child EXCEPT ![i] = "gone"] /\ listed' = listed
    BY <1>7 DEF CloseEnds, ChildExits
  <2> QED
    BY <1>c, <1>f, <2>1, <2>2, AloneKept
<1>8. CASE SweepIdle \/ ManagerCloses
  <2>1. listed' = 0 /\ child' = [child EXCEPT ![listed] = "closing"] /\ call' = call
    BY <1>8 DEF SweepIdle, ManagerCloses, Unlist
  <2>2. \A d \in Calls : Making(d)' => Making(d)
    BY <2>1 DEF Making
  <2> QED
    BY <1>c, <1>f, <2>1, <2>2, AloneKept
<1>9. CASE Tick
  <2>1. UNCHANGED <<listed, child, call>>
    BY <1>9 DEF Tick
  <2>2. \A d \in Calls : Making(d)' => Making(d)
    BY <2>1 DEF Making
  <2> QED
    BY <1>c, <2>1, <2>2, AloneKept
<1> QED
  BY <1>1, <1>2, <1>3, <1>4, <1>5, <1>6, <1>7, <1>8, <1>9 DEF Next

(* An overlap or a child that was lost is never forgotten.                 *)
LEMMA RacedStays == TypeOK /\ raced /\ Next => raced'
  BY DEF TypeOK, Next, Request, Connected, ToolsListed, EnsureFails, CallAnswers, CallFails,
         CloseEnds, ChildExits, SweepIdle, ManagerCloses, Unlist, Tick

LEMMA SessionStepInv == SessionInv /\ [Next]_vars => SessionInv'
<1> SUFFICES ASSUME SessionInv, [Next]_vars PROVE SessionInv'
  OBVIOUS
<1>1. CASE Next
  <2>1. TypeOK' /\ UsedByCall'
    BY <1>1, TypeKept, UseKept DEF SessionInv
  <2>2. ~raced' => MakesAlone' /\ ChildInMap'
    BY <1>1, ChildKept, RacedStays DEF SessionInv
  <2> QED
    BY <2>1, <2>2 DEF SessionInv
<1>2. CASE UNCHANGED vars
  BY <1>2 DEF vars, SessionInv, TypeOK, UsedByCall, MakesAlone, Making, ChildInMap
<1> QED
  BY <1>1, <1>2

LEMMA SessionsKeepInv == Spec => []SessionInv
  BY SessionInitInv, SessionStepInv, PTL DEF Spec

-----------------------------------------------------------------------------
(* What is idle long enough would have a call older than its timeout.      *)
LEMMA SpareUsed == SessionInv => SweepSparesCalls
<1> SUFFICES ASSUME SessionInv, listed # 0, sinceUsed >= IdleTimeout, queue[listed] # << >>
             PROVE  FALSE
  BY DEF SweepSparesCalls
<1>1. listed \in Sessions /\ sinceUsed \in Nat
  BY SessionsAssumption DEF SessionInv, TypeOK, Sessions
<1>2. runFor[listed] \in 0..CallTimeout
  BY <1>1 DEF SessionInv, TypeOK
<1>3. sinceUsed <= runFor[listed]
  BY <1>1 DEF SessionInv, UsedByCall
<1> QED
  BY <1>1, <1>2, <1>3, SessionsAssumption

(* The idle sweep never closes a session that has a call: what is idle     *)
(* long enough would have a call older than the call timeout allows.       *)
THEOREM SweepSpares == Spec => []SweepSparesCalls
  BY SpareUsed, SessionsKeepInv, PTL

(* Where no first calls overlap and no child fails to list its tools, every *)
(* child that is up is the one in the map.                                 *)
THEOREM ChildReachable == Spec => []ChildInMap
<1>1. SessionInv => ChildInMap
  BY DEF SessionInv, ChildInMap
<1> QED
  BY <1>1, SessionsKeepInv, PTL

-----------------------------------------------------------------------------
(* ShellTasks: the tasks, their timers and who waits for them.             *)

(* A timer of a task or of the wait of a request.                          *)
TimerShape ==
    {x \in [kind : {"task", "delay"}, of : Tasks \union Callers, left : 0..MaxSeconds, whole : 1..MaxSeconds] :
        /\ x.left <= x.whole
        /\ IF x.kind = "task" THEN x.of \in Tasks ELSE x.of \in Callers}
RunShape ==
    [at : {"resolving", "waiting"}, op : {"foreground", "background", "auto"}, by : Owners \union {T!Shell},
     task : Tasks \union {T!NoTask}, seconds : 1..MaxSeconds]
RestShape ==
    [at : {"idle", "waiting", "stopping"}, op : {"none", "wait", "cancel"}, by : {T!Shell},
     task : Tasks \union {T!NoTask}]
States == T!Ended \union {"absent", "running"}
KilledBy(s) == IF s \in {"timed_out", "cancelled"} THEN 1 ELSE 0

TasksShape ==
    /\ state \in [Tasks -> States] /\ owner \in [Tasks -> Owners \union {T!Nobody}]
    /\ timers \in Seq(TimerShape) /\ request \in [Callers -> RunShape \union RestShape]
    /\ early = FALSE /\ kills = [t \in Tasks |-> KilledBy(state[t])]

(* Who waits, waits for a task that runs; such a task has its timer.       *)
WaitersFit == \A c \in Callers : request[c].at = "waiting" =>
    request[c].task \in Tasks /\ state[request[c].task] = "running"
TaskTimer(x, t) == x.kind = "task" /\ x.of = t
TimersArmed == \A t \in Tasks :
    (state[t] = "running") <=> \E i \in 1..Len(timers) : TaskTimer(timers[i], t)

(* A request has one delay at most, and waits while it runs.  The delay of *)
(* a foreground run is as long as its task may take, and stands behind the *)
(* timer of the task.                                                      *)
DelaysFit == \A i \in 1..Len(timers) : timers[i].kind = "delay" =>
    /\ request[timers[i].of].at = "waiting"
    /\ \A j \in 1..Len(timers) : timers[j].kind = "delay" /\ timers[j].of = timers[i].of => j = i
    /\ request[timers[i].of].op = "foreground" =>
         \E j \in 1..(i - 1) : /\ TaskTimer(timers[j], request[timers[i].of].task)
                               /\ timers[j].left = timers[i].left /\ timers[j].whole = timers[i].whole

TasksInv == TasksShape /\ WaitersFit /\ TimersArmed /\ DelaysFit

(* The invariant is strong enough.                                         *)
LEMMA TasksHold == TasksInv => T!TasksTypeOK /\ T!ForegroundEnds /\ T!KilledWhenEnded
<1> SUFFICES ASSUME TasksInv PROVE T!TasksTypeOK /\ T!ForegroundEnds /\ T!KilledWhenEnded
  OBVIOUS
<1>1. DOMAIN timers = 1..Len(timers) /\ \A i \in 1..Len(timers) : timers[i] \in TimerShape
  BY DEF TasksInv, TasksShape
<1>2. \A x \in TimerShape : x.left \in 0..x.whole /\ x.whole \in 1..MaxSeconds
  BY ServicesAssumption DEF TimerShape
<1>3. \A r \in RunShape \union RestShape : /\ r.at \in {"idle", "resolving", "waiting", "stopping"}
                                           /\ r.task \in Tasks \union {T!NoTask}
  BY DEF RunShape, RestShape
<1>4. T!TasksTypeOK
  BY <1>1, <1>2, <1>3 DEF T!TasksTypeOK, TasksInv, TasksShape, States
<1>5. T!KilledWhenEnded
  BY <1>1 DEF T!KilledWhenEnded, TasksInv, TasksShape, KilledBy, TimersArmed, TaskTimer
<1> QED
  BY <1>4, <1>5 DEF T!ForegroundEnds, TasksInv, TasksShape

(* No task has been spawned, no timer armed.                               *)
LEMMA TasksStart == T!Init => TasksInv
<1> SUFFICES ASSUME T!Init PROVE TasksInv
  OBVIOUS
<1>1. Len(<<>>) = 0 /\ <<>> \in Seq(TimerShape)
  OBVIOUS
<1>2. T!Idle \in RestShape /\ T!Idle.at = "idle"
  BY DEF T!Idle, RestShape
<1>3. TasksShape
  BY <1>1, <1>2 DEF T!Init, TasksShape, States, KilledBy
<1> QED
  BY <1>1, <1>2, <1>3 DEF T!Init, TasksInv, WaitersFit, TimersArmed, DelaysFit

(* Timers go, in the order of the others: the delays that stay are those   *)
(* of requests that wait on, and no task that runs loses its timer.        *)
LEMMA TimersGo ==
  ASSUME TasksInv, timers' \in Seq(TimerShape), TasksShape', WaitersFit',
         NEW e \in [1..Len(timers') -> 1..Len(timers)],
         \A k \in 1..Len(timers') : timers'[k] = timers[e[k]],
         \A j, k \in 1..Len(timers') : j < k => e[j] < e[k],
         \A k \in 1..Len(timers') : timers'[k].kind = "delay" => request'[timers'[k].of] = request[timers'[k].of],
         \A k \in 1..Len(timers') : timers'[k].kind = "task" => state'[timers'[k].of] = "running",
         \A t \in Tasks : state'[t] = "running" => state[t] = "running",
         \A i \in 1..Len(timers), t \in Tasks : TaskTimer(timers[i], t) /\ state'[t] = "running" =>
            \E k \in 1..Len(timers') : e[k] = i
  PROVE  TasksInv'
<1>0. Len(timers) \in Nat /\ Len(timers') \in Nat
  BY DEF TasksInv, TasksShape
<1>t. \A k \in 1..Len(timers') : timers'[k] \in TimerShape
  OBVIOUS
<1>1. TimersArmed'
  <2> SUFFICES ASSUME NEW t \in Tasks
               PROVE (state'[t] = "running") <=> \E k \in 1..Len(timers') : TaskTimer(timers'[k], t)
    BY DEF TimersArmed, TaskTimer
  <2>1. ASSUME state'[t] = "running" PROVE \E k \in 1..Len(timers') : TaskTimer(timers'[k], t)
    <3>1. PICK i \in 1..Len(timers) : TaskTimer(timers[i], t)
      BY <2>1 DEF TasksInv, TimersArmed
    <3>2. PICK k \in 1..Len(timers') : e[k] = i
      BY <2>1, <3>1
    <3> QED
      BY <3>1, <3>2
  <2>2. ASSUME NEW k \in 1..Len(timers'), TaskTimer(timers'[k], t) PROVE state'[t] = "running"
    BY <2>2 DEF TaskTimer
  <2> QED
    BY <2>1, <2>2
<1>2. DelaysFit'
  <2> SUFFICES ASSUME NEW k \in 1..Len(timers'), timers'[k].kind = "delay"
               PROVE  /\ request'[timers'[k].of].at = "waiting"
                      /\ \A j \in 1..Len(timers') :
                            timers'[j].kind = "delay" /\ timers'[j].of = timers'[k].of => j = k
                      /\ request'[timers'[k].of].op = "foreground" =>
                           \E j \in 1..(k - 1) : /\ TaskTimer(timers'[j], request'[timers'[k].of].task)
                                                 /\ timers'[j].left = timers'[k].left
                                                 /\ timers'[j].whole = timers'[k].whole
    BY DEF DelaysFit, TaskTimer
  <2> DEFINE c == timers'[k].of
  <2>1. timers'[k] = timers[e[k]] /\ e[k] \in 1..Len(timers) /\ request'[c] = request[c]
    OBVIOUS
  <2>d. timers[e[k]].kind = "delay" /\ timers[e[k]].of = c
    BY <2>1
  <2>c. c \in Callers
    BY <1>t DEF TimerShape
  <2> HIDE DEF c
  <2>2. /\ request[c].at = "waiting"
        /\ \A j \in 1..Len(timers) : timers[j].kind = "delay" /\ timers[j].of = c => j = e[k]
        /\ request[c].op = "foreground" =>
             \E j \in 1..(e[k] - 1) : /\ TaskTimer(timers[j], request[c].task)
                                      /\ timers[j].left = timers[e[k]].left /\ timers[j].whole = timers[e[k]].whole
    BY <2>1, <2>d DEF TasksInv, DelaysFit
  <2>3. ASSUME NEW j \in 1..Len(timers'), timers'[j].kind = "delay", timers'[j].of = c PROVE j = k
    <3>1. e[j] = e[k]
      BY <2>2, <2>3
    <3>2. ~(j < k) /\ ~(k < j)
      BY <1>0, <3>1
    <3> QED
      BY <1>0, <3>2
  <2>4. ASSUME request'[c].op = "foreground"
        PROVE  \E j \in 1..(k - 1) : /\ TaskTimer(timers'[j], request'[c].task)
                                     /\ timers'[j].left = timers'[k].left /\ timers'[j].whole = timers'[k].whole
    <3>1. PICK i \in 1..(e[k] - 1) : /\ TaskTimer(timers[i], request[c].task)
                                     /\ timers[i].left = timers[e[k]].left /\ timers[i].whole = timers[e[k]].whole
      BY <2>1, <2>2, <2>4
    <3>2. i \in 1..Len(timers) /\ i < e[k]
      BY <1>0, <2>1, <3>1
    <3>3. request[c].task \in Tasks /\ state'[request[c].task] = "running"
      BY <2>1, <2>2, <2>c DEF WaitersFit
    <3>4. PICK j \in 1..Len(timers') : e[j] = i
      BY <3>1, <3>2, <3>3
    <3>5. j < k
      <4>1. CASE j = k
        BY <3>2, <3>4, <4>1
      <4>2. CASE k < j
        <5>1. e[k] < e[j]
          BY <4>2
        <5> QED
          BY <1>0, <2>1, <3>2, <3>4, <5>1
      <4> QED
        BY <1>0, <4>1, <4>2
    <3>6. j \in 1..(k - 1)
      BY <1>0, <3>5
    <3> QED
      BY <2>1, <3>1, <3>4, <3>6
  <2> QED
    BY <2>1, <2>2, <2>3, <2>4 DEF c
<1> QED
  BY <1>1, <1>2 DEF TasksInv

(* Timers are armed behind the others.                                     *)
LEMMA RemovedAt ==
  ASSUME NEW S, NEW s \in Seq(S), NEW i \in 1..Len(s)
  PROVE  /\ T!RemoveAt(s, i) \in Seq(S) /\ Len(T!RemoveAt(s, i)) = Len(s) - 1
         /\ \A k \in 1..(Len(s) - 1) : T!RemoveAt(s, i)[k] = s[IF k < i THEN k ELSE k + 1]
<1> DEFINE a == SubSeq(s, 1, i - 1)
           b == SubSeq(s, i + 1, Len(s))
<1>0. Len(s) \in Nat
  OBVIOUS
<1>1. a \in Seq(S) /\ Len(a) = i - 1 /\ \A k \in 1..(i - 1) : a[k] = s[k]
  BY <1>0, SubSeqProperties
<1>2. b \in Seq(S) /\ Len(b) = Len(s) - i /\ \A k \in 1..(Len(s) - i) : b[k] = s[k + i]
  BY <1>0, SubSeqProperties
<1>3. T!RemoveAt(s, i) = a \o b
  BY DEF T!RemoveAt
<1> HIDE DEF a, b
<1>4. a \o b \in Seq(S) /\ Len(a \o b) = Len(s) - 1
  <2>1. a \o b \in Seq(S) /\ Len(a \o b) = Len(a) + Len(b)
    BY <1>1, <1>2, ConcatProperties
  <2> QED
    BY <1>0, <1>1, <1>2, <2>1
<1>5. ASSUME NEW k \in 1..(Len(s) - 1) PROVE (a \o b)[k] = s[IF k < i THEN k ELSE k + 1]
  <2>1. k \in 1..(Len(a) + Len(b))
    BY <1>0, <1>1, <1>2
  <2>2. (a \o b)[k] = IF k <= Len(a) THEN a[k] ELSE b[k - Len(a)]
    BY <1>1, <1>2, <2>1, ConcatProperties
  <2>3. CASE k < i
    BY <1>0, <1>1, <2>2, <2>3
  <2>4. CASE ~(k < i)
    <3>1. k - (i - 1) \in 1..(Len(s) - i) /\ (k - (i - 1)) + i = k + 1 /\ ~(k <= Len(a))
      BY <1>0, <1>1, <2>4
    <3>2. b[k - (i - 1)] = s[k + 1]
      BY <1>2, <3>1
    <3> QED
      BY <1>1, <2>2, <2>4, <3>1, <3>2
  <2> QED
    BY <2>3, <2>4
<1> QED
  BY <1>3, <1>4, <1>5

(* The n timers are followed by others: of task t, and last by that of the *)
(* wait of c.                                                              *)
Behind(c, t, n, m) ==
    /\ n = Len(timers) /\ m = Len(timers') /\ n <= m
    /\ \A i \in 1..n : timers'[i] = timers[i]
    /\ \A i \in (n + 1)..m : \/ TaskTimer(timers'[i], t)
                             \/ /\ timers'[i].kind = "delay" /\ timers'[i].of = c /\ i = m
                                /\ request'[c].at = "waiting"
                                /\ request'[c].op = "foreground" =>
                                     /\ n + 1 < m /\ TaskTimer(timers'[n + 1], t)
                                     /\ timers'[n + 1].left = timers'[m].left
                                     /\ timers'[n + 1].whole = timers'[m].whole
    /\ state[t] # "running" => n < m /\ TaskTimer(timers'[n + 1], t)

(* A request that waits for no task begins to, or comes to its end.        *)
LEMMA TimersCome ==
  ASSUME TasksInv, TasksShape', NEW c \in Callers, request[c].at # "waiting",
         \A d \in Callers : d # c => request'[d] = request[d],
         NEW t \in Tasks, state' = [state EXCEPT ![t] = "running"],
         NEW n \in Nat, NEW m \in Nat, Behind(c, t, n, m),
         request'[c].at = "waiting" => request'[c].task = t
  PROVE  TasksInv'
<1> USE DEF Behind
<1>s. /\ state'[t] = "running" /\ \A u \in Tasks : u # t => state'[u] = state[u]
  BY DEF TasksInv, TasksShape
<1>1. WaitersFit'
  BY <1>s DEF TasksInv, WaitersFit
<1>2. TimersArmed'
  <2> SUFFICES ASSUME NEW u \in Tasks
               PROVE (state'[u] = "running") <=> \E k \in 1..m : TaskTimer(timers'[k], u)
    BY DEF TimersArmed, TaskTimer
  <2>1. ASSUME state'[u] = "running" PROVE \E k \in 1..m : TaskTimer(timers'[k], u)
    <3>1. CASE state[u] = "running"
      <4>1. PICK i \in 1..n : TaskTimer(timers[i], u)
        BY <3>1 DEF TasksInv, TimersArmed
      <4>2. i \in 1..m /\ timers'[i] = timers[i]
        OBVIOUS
      <4> QED
        BY <4>1, <4>2
    <3>2. CASE state[u] # "running"
      BY <1>s, <2>1, <3>2
    <3> QED
      BY <3>1, <3>2
  <2>2. ASSUME NEW k \in 1..m, TaskTimer(timers'[k], u) PROVE state'[u] = "running"
    <3>1. CASE k \in 1..n
      <4>1. TaskTimer(timers[k], u)
        BY <2>2, <3>1
      <4>2. state[u] = "running"
        BY <3>1, <4>1 DEF TasksInv, TimersArmed
      <4> QED
        BY <1>s, <4>2
    <3>2. CASE k \in (n + 1)..m
      <4>1. u = t
        BY <2>2, <3>2 DEF TaskTimer
      <4> QED
        BY <1>s, <4>1
    <3> QED
      BY <3>1, <3>2
  <2> QED
    BY <2>1, <2>2
<1>3. DelaysFit'
  <2> SUFFICES ASSUME NEW k \in 1..m, timers'[k].kind = "delay"
               PROVE  /\ request'[timers'[k].of].at = "waiting"
                      /\ \A j \in 1..m :
                            timers'[j].kind = "delay" /\ timers'[j].of = timers'[k].of => j = k
                      /\ request'[timers'[k].of].op = "foreground" =>
                           \E j \in 1..(k - 1) : /\ TaskTimer(timers'[j], request'[timers'[k].of].task)
                                                 /\ timers'[j].left = timers'[k].left
                                                 /\ timers'[j].whole = timers'[k].whole
    BY DEF DelaysFit, TaskTimer
  <2>1. ASSUME NEW i \in 1..n, timers[i].kind = "delay"
        PROVE  /\ timers'[i] = timers[i] /\ request[timers[i].of].at = "waiting"
               /\ timers[i].of \in Callers \ {c} /\ request'[timers[i].of] = request[timers[i].of]
    <3>1. request[timers[i].of].at = "waiting"
      BY <2>1 DEF TasksInv, DelaysFit
    <3>2. timers[i] \in TimerShape
      BY DEF TasksInv, TasksShape
    <3>3. timers[i].of \in Callers
      BY <2>1, <3>2 DEF TimerShape
    <3> QED
      BY <3>1, <3>3
  <2>2. ASSUME NEW i \in (n + 1)..m, timers'[i].kind = "delay" PROVE timers'[i].of = c /\ i = m
    BY <2>2 DEF TaskTimer
  <2>3. \A i \in 1..m : i \in 1..n \/ i \in (n + 1)..m
    OBVIOUS
  <2>4. CASE k \in 1..n
    <3>1. timers[k].kind = "delay" /\ timers'[k] = timers[k]
      BY <2>4
    <3> DEFINE d == timers[k].of
    <3>2. request[d].at = "waiting" /\ d # c /\ request'[d] = request[d]
      BY <2>1, <2>4, <3>1
    <3>3. /\ \A j \in 1..n : timers[j].kind = "delay" /\ timers[j].of = d => j = k
          /\ request[d].op = "foreground" =>
               \E j \in 1..(k - 1) : /\ TaskTimer(timers[j], request[d].task)
                                     /\ timers[j].left = timers[k].left /\ timers[j].whole = timers[k].whole
      BY <2>4, <3>1 DEF TasksInv, DelaysFit
    <3> HIDE DEF d
    <3>4. ASSUME NEW j \in 1..m, timers'[j].kind = "delay", timers'[j].of = d PROVE j = k
      <4>1. j \in 1..n
        BY <2>2, <2>3, <3>2, <3>4
      <4> QED
        BY <3>3, <3>4, <4>1
    <3>5. ASSUME request'[d].op = "foreground"
          PROVE  \E j \in 1..(k - 1) : /\ TaskTimer(timers'[j], request'[d].task)
                                       /\ timers'[j].left = timers'[k].left /\ timers'[j].whole = timers'[k].whole
      <4>1. PICK j \in 1..(k - 1) : /\ TaskTimer(timers[j], request[d].task)
                                    /\ timers[j].left = timers[k].left /\ timers[j].whole = timers[k].whole
        BY <3>2, <3>3, <3>5
      <4>2. j \in 1..n /\ timers'[j] = timers[j]
        BY <2>4
      <4> QED
        BY <3>1, <3>2, <4>1, <4>2
    <3> QED
      BY <3>1, <3>2, <3>4, <3>5 DEF d
  <2>5. CASE k \in (n + 1)..m
    <3>1. timers'[k].of = c /\ k = m /\ request'[c].at = "waiting" /\ request'[c].task = t
          /\ (request'[c].op = "foreground" =>
                /\ n + 1 < m /\ TaskTimer(timers'[n + 1], t)
                /\ timers'[n + 1].left = timers'[m].left /\ timers'[n + 1].whole = timers'[m].whole)
      BY <2>5 DEF TaskTimer
    <3>2. ASSUME NEW j \in 1..m, timers'[j].kind = "delay", timers'[j].of = c PROVE j = k
      <4>1. j \notin 1..n
        BY <2>1, <3>2
      <4> QED
        BY <2>2, <2>3, <3>1, <3>2, <4>1
    <3>3. ASSUME request'[c].op = "foreground"
          PROVE  \E j \in 1..(k - 1) : /\ TaskTimer(timers'[j], request'[c].task)
                                       /\ timers'[j].left = timers'[k].left /\ timers'[j].whole = timers'[k].whole
      <4>1. n + 1 \in 1..(k - 1)
        BY <3>1, <3>3
      <4> QED
        BY <3>1, <3>3, <4>1
    <3> QED
      BY <3>1, <3>2, <3>3
  <2> QED
    BY <2>3, <2>4, <2>5
<1> QED
  BY <1>1, <1>2, <1>3 DEF TasksInv

(* A request moves that waits for no task, before and after.               *)
LEMMA RequestMoves ==
  ASSUME TasksInv, NEW c \in Callers, request[c].at # "waiting", NEW r \in RunShape \union RestShape,
         r.at # "waiting", request' = [request EXCEPT ![c] = r], UNCHANGED <<state, kills, owner, timers, early>>
  PROVE  TasksInv'
<1>1. TasksShape'
  BY DEF TasksInv, TasksShape
<1>2. \A d \in Callers : request'[d].at = "waiting" => d # c /\ request'[d] = request[d]
  BY DEF TasksInv, TasksShape
<1>3. WaitersFit' /\ TimersArmed'
  BY <1>2 DEF TasksInv, WaitersFit, TimersArmed, TaskTimer
<1>4. \A i \in 1..Len(timers) : timers[i].kind = "delay" => request'[timers[i].of] = request[timers[i].of]
  BY DEF TasksInv, TasksShape, DelaysFit
<1>5. DelaysFit'
  BY <1>4 DEF TasksInv, DelaysFit, TaskTimer
<1> QED
  BY <1>1, <1>3, <1>5 DEF TasksInv

(* A WSL task gets an owner, and only one there is.                        *)
LEMMA OwnersKept ==
  ASSUME NEW o \in [Tasks -> Owners \union {T!Nobody}], NEW r \in RunShape \union RestShape, NEW t
  PROVE  T!Registered(o, r, t) \in [Tasks -> Owners \union {T!Nobody}]
<1>1. r.by \in Owners \union {T!Shell}
  BY DEF RunShape, RestShape
<1> QED
  BY <1>1 DEF T!Registered

(* finish(): the task ends, and with it its timer and the waits for it.    *)
LEMMA FinishKept ==
  ASSUME TasksInv, NEW t \in Tasks, NEW how \in T!Ended, T!Finish(t, how),
         kills' = IF how = "exited" THEN kills ELSE [kills EXCEPT ![t] = kills[t] + 1],
         request' \in [Callers -> RunShape \union RestShape],
         \A c \in Callers : request'[c].at = "waiting" => request'[c] = request[c] /\ request[c].task # t,
         \A c \in Callers : request[c].at = "waiting" /\ request[c].task # t => request'[c] = request[c],
         UNCHANGED early
  PROVE  TasksInv'
<1> DEFINE S == {x \in T!Range(timers) : ~T!Cleared(x, t)}
<1>1. state[t] = "running" /\ state' = [state EXCEPT ![t] = how] /\ timers' = T!Selected(timers, S)
  BY DEF T!Finish
<1>2. how # "running" /\ how \in States
  BY DEF T!Ended, States
<1>3. timers' \in Seq(TimerShape) /\ \E e : Order(e, timers, timers', S)
  <2>1. T!Selected(timers, S) = Selected(timers, S)
    BY DEF T!Selected, Selected
  <2>2. timers \in Seq(TimerShape)
    BY DEF TasksInv, TasksShape
  <2> HIDE DEF S
  <2> QED
    BY <1>1, <2>1, <2>2, SelectedOrder
<1>4. PICK e : Order(e, timers, timers', S)
  BY <1>3
<1>5. \A i \in 1..Len(timers) : timers[i] \in S <=> ~T!Cleared(timers[i], t)
  BY DEF T!Range, TasksInv, TasksShape
<1>6. \A k \in 1..Len(timers') : e[k] \in 1..Len(timers) /\ timers'[k] = timers[e[k]] /\ ~T!Cleared(timers'[k], t)
  BY <1>4, <1>5 DEF Order
<1>s. \A u \in Tasks : state'[u] = "running" <=> u # t /\ state[u] = "running"
  BY <1>1, <1>2 DEF TasksInv, TasksShape
<1>7. TasksShape'
  <2>1. owner' \in [Tasks -> Owners \union {T!Nobody}]
    <3>1. T!RunBy(t) \subseteq Callers
      BY DEF T!RunBy, T!Waiters
    <3>2. CASE T!RunBy(t) = {}
      BY <3>2 DEF T!Finish, TasksInv, TasksShape
    <3>3. CASE T!RunBy(t) # {}
      <4> DEFINE c == CHOOSE c \in T!RunBy(t) : TRUE
      <4>1. c \in T!RunBy(t)
        BY <3>3
      <4>2. owner' = T!Registered(owner, request[c], t)
        BY <3>3 DEF T!Finish
      <4> HIDE DEF c
      <4>3. request[c] \in RunShape \union RestShape
        BY <3>1, <4>1 DEF TasksInv, TasksShape
      <4> QED
        BY <4>2, <4>3, OwnersKept DEF TasksInv, TasksShape
    <3> QED
      BY <3>2, <3>3
  <2>2. state' \in [Tasks -> States]
    BY <1>1, <1>2 DEF TasksInv, TasksShape
  <2>3. kills' = [u \in Tasks |-> KilledBy(state'[u])]
    <3>1. kills = [u \in Tasks |-> KilledBy(state[u])] /\ kills[t] = 0
      BY <1>1 DEF TasksInv, TasksShape, KilledBy
    <3>2. KilledBy(how) = IF how = "exited" THEN 0 ELSE 1
      BY DEF KilledBy, T!Ended
    <3>3. \A u \in Tasks : u # t => state'[u] = state[u]
      BY <1>1 DEF TasksInv, TasksShape
    <3>4. state'[t] = how
      BY <1>1 DEF TasksInv, TasksShape
    <3> QED
      BY <3>1, <3>2, <3>3, <3>4
  <2> QED
    BY <1>3, <2>1, <2>2, <2>3 DEF TasksInv, TasksShape
<1>8. WaitersFit'
  BY <1>s DEF TasksInv, WaitersFit
<1>w. ASSUME NEW k \in 1..Len(timers'), timers'[k].kind = "delay"
      PROVE  /\ timers'[k].of \in Callers /\ request[timers'[k].of].at = "waiting"
             /\ request[timers'[k].of].task # t
  <2>1. timers'[k] \in TimerShape
    BY <1>3
  <2>2. timers'[k].of \in Callers
    BY <1>w, <2>1 DEF TimerShape
  <2>3. request[timers'[k].of].at = "waiting"
    BY <1>6, <1>w DEF TasksInv, DelaysFit
  <2> QED
    BY <1>6, <1>w, <2>2, <2>3 DEF T!Cleared, T!Waiters
<1>9. \A k \in 1..Len(timers') : timers'[k].kind = "delay" => request'[timers'[k].of] = request[timers'[k].of]
  BY <1>w
<1>10. ASSUME NEW k \in 1..Len(timers'), timers'[k].kind = "task" PROVE state'[timers'[k].of] = "running"
  <2>1. timers'[k] \in TimerShape
    BY <1>3
  <2>2. timers'[k].of \in Tasks /\ timers'[k].of # t
    BY <1>6, <1>10, <2>1 DEF TimerShape, T!Cleared
  <2>3. state[timers'[k].of] = "running"
    BY <1>6, <1>10, <2>2 DEF TasksInv, TimersArmed, TaskTimer
  <2> QED
    BY <1>s, <2>2, <2>3
<1>11. ASSUME NEW i \in 1..Len(timers), NEW u \in Tasks, TaskTimer(timers[i], u), state'[u] = "running"
       PROVE  \E k \in 1..Len(timers') : e[k] = i
  <2>1. ~T!Cleared(timers[i], t)
    BY <1>s, <1>11 DEF T!Cleared, TaskTimer
  <2>2. timers[i] \in S
    BY <1>5, <2>1
  <2> HIDE DEF S
  <2> QED
    BY <1>4, <2>2 DEF Order
<1>12. /\ e \in [1..Len(timers') -> 1..Len(timers)]
       /\ \A j, k \in 1..Len(timers') : j < k => e[j] < e[k]
  BY <1>4 DEF Order
<1>13. \A u \in Tasks : state'[u] = "running" => state[u] = "running"
  BY <1>s
<1> HIDE DEF S
<1> QED
  BY <1>3, <1>6, <1>7, <1>8, <1>9, <1>10, <1>11, <1>12, <1>13, TimersGo

(* Who waited for the task waits no more, the others wait on.              *)
LEMMA WaitersAnswered ==
  ASSUME TasksInv, NEW t \in Tasks
  PROVE  /\ T!AnswerWaiters(t) \in [Callers -> RunShape \union RestShape]
         /\ \A c \in Callers : T!AnswerWaiters(t)[c].at = "waiting" =>
               T!AnswerWaiters(t)[c] = request[c] /\ request[c].task # t
         /\ \A c \in Callers : request[c].at = "waiting" /\ request[c].task # t =>
               T!AnswerWaiters(t)[c] = request[c]
         /\ \A c \in Callers : request[c] = T!Idle => T!AnswerWaiters(t)[c] = T!Idle
<1>1. T!Idle \in RestShape /\ T!Idle.at = "idle"
  BY DEF T!Idle, RestShape
<1>2. \A c \in Callers : T!AnswerWaiters(t)[c] = IF c \in T!Waiters(t) THEN T!Idle ELSE request[c]
  BY DEF T!AnswerWaiters
<1>3. \A c \in Callers : c \in T!Waiters(t) <=> request[c].at = "waiting" /\ request[c].task = t
  BY DEF T!Waiters
<1>4. T!AnswerWaiters(t) \in [Callers -> RunShape \union RestShape]
  BY <1>1 DEF T!AnswerWaiters, TasksInv, TasksShape
<1> QED
  BY <1>1, <1>2, <1>3, <1>4

(* The wait of a request is over before its task is.                       *)
LEMMA DelayKept ==
  ASSUME TasksInv, NEW i \in 1..Len(timers), T!DelayFires(i)
  PROVE  TasksInv'
<1> DEFINE c == timers[i].of
           n == Len(timers)
<1>n. n \in Nat /\ timers \in Seq(TimerShape)
  BY DEF TasksInv, TasksShape
<1>1. /\ timers[i].kind = "delay" /\ timers[i].left = 0 /\ UNCHANGED <<state, kills>>
      /\ \A j \in 1..(i - 1) : timers[j].whole # timers[i].whole \/ timers[j].left > 0
  BY DEF T!DelayFires, T!Due
<1>2. /\ request' = [request EXCEPT ![c] = T!Idle] /\ timers' = T!RemoveAt(timers, i)
      /\ early' = (early \/ (request[c].op = "foreground" /\ state[request[c].task] = "running"))
      /\ owner' = IF request[c].op = "wait" THEN owner ELSE T!Registered(owner, request[c], request[c].task)
  BY DEF T!DelayFires, T!Answered
<1>3. c \in Callers
  <2>1. timers[i] \in TimerShape
    BY <1>n
  <2> QED
    BY <1>1, <2>1 DEF TimerShape
<1>4. /\ request[c].at = "waiting" /\ request[c].op # "foreground"
      /\ \A j \in 1..n : timers[j].kind = "delay" /\ timers[j].of = c => j = i
  <2>1. request[c].op = "foreground" => \E j \in 1..(i - 1) :
           timers[j].left = timers[i].left /\ timers[j].whole = timers[i].whole
    BY <1>1 DEF TasksInv, DelaysFit
  <2>2. request[c].op # "foreground"
    BY <1>1, <2>1
  <2> QED
    BY <1>1, <2>2 DEF TasksInv, DelaysFit
<1>5. /\ timers' \in Seq(TimerShape) /\ Len(timers') = n - 1
      /\ \A k \in 1..(n - 1) : timers'[k] = timers[IF k < i THEN k ELSE k + 1]
  BY <1>n, <1>2, RemovedAt
<1> DEFINE e == [k \in 1..(n - 1) |-> IF k < i THEN k ELSE k + 1]
<1>6. T!Idle \in RestShape /\ T!Idle.at = "idle"
  BY DEF T!Idle, RestShape
<1> HIDE DEF c
<1>7. /\ request' \in [Callers -> RunShape \union RestShape] /\ request'[c].at = "idle"
      /\ \A d \in Callers : d # c => request'[d] = request[d]
  BY <1>2, <1>3, <1>6 DEF TasksInv, TasksShape
<1>8. TasksShape'
  <2>1. owner' \in [Tasks -> Owners \union {T!Nobody}]
    <3>1. request[c] \in RunShape \union RestShape
      BY <1>3 DEF TasksInv, TasksShape
    <3> QED
      BY <1>2, <3>1, OwnersKept DEF TasksInv, TasksShape
  <2>2. early' = FALSE
    BY <1>2, <1>4 DEF TasksInv, TasksShape
  <2> QED
    BY <1>1, <1>5, <1>7, <2>1, <2>2 DEF TasksInv, TasksShape
<1>9. WaitersFit'
  BY <1>1, <1>7 DEF TasksInv, WaitersFit
<1> HIDE DEF n
<1>10. /\ e \in [1..Len(timers') -> 1..Len(timers)]
       /\ \A k \in 1..Len(timers') : timers'[k] = timers[e[k]] /\ e[k] # i
       /\ \A j, k \in 1..Len(timers') : j < k => e[j] < e[k]
       /\ \A j \in 1..Len(timers) : j # i => \E k \in 1..Len(timers') : e[k] = j
  <2>1. e \in [1..(n - 1) -> 1..n]
    BY <1>n DEF n
  <2>2. \A k \in 1..(n - 1) : timers'[k] = timers[e[k]] /\ e[k] # i
    BY <1>n, <1>5
  <2>3. \A j, k \in 1..(n - 1) : j < k => e[j] < e[k]
    BY <1>n
  <2>4. ASSUME NEW j \in 1..n, j # i PROVE \E k \in 1..(n - 1) : e[k] = j
    <3>1. CASE j < i
      <4>1. j \in 1..(n - 1) /\ e[j] = j
        BY <1>n, <3>1 DEF n
      <4> QED
        BY <4>1
    <3>2. CASE i < j
      <4>1. j - 1 \in 1..(n - 1) /\ e[j - 1] = j
        BY <1>n, <3>2 DEF n
      <4> QED
        BY <4>1
    <3> QED
      BY <1>n, <2>4, <3>1, <3>2 DEF n
  <2> HIDE DEF e
  <2> QED
    BY <1>5, <2>1, <2>2, <2>3, <2>4 DEF n
<1> HIDE DEF e
<1>11. ASSUME NEW k \in 1..Len(timers'), timers'[k].kind = "delay"
       PROVE  request'[timers'[k].of] = request[timers'[k].of]
  <2>1. timers'[k] \in TimerShape
    BY <1>5
  <2>2. timers'[k].of \in Callers
    BY <1>11, <2>1 DEF TimerShape
  <2>3. e[k] \in 1..n /\ timers'[k] = timers[e[k]] /\ e[k] # i
    BY <1>10 DEF n
  <2>4. timers'[k].of # c
    BY <1>4, <1>11, <2>3
  <2> QED
    BY <1>7, <2>2, <2>4
<1>12. ASSUME NEW k \in 1..Len(timers'), timers'[k].kind = "task" PROVE state'[timers'[k].of] = "running"
  <2>1. timers'[k] \in TimerShape
    BY <1>5
  <2>2. timers'[k].of \in Tasks
    BY <1>12, <2>1 DEF TimerShape
  <2>3. e[k] \in 1..Len(timers) /\ timers'[k] = timers[e[k]]
    BY <1>10
  <2> QED
    BY <1>1, <1>12, <2>2, <2>3 DEF TasksInv, TimersArmed, TaskTimer
<1>13. ASSUME NEW j \in 1..Len(timers), NEW t \in Tasks, TaskTimer(timers[j], t)
       PROVE  \E k \in 1..Len(timers') : e[k] = j
  BY <1>1, <1>10, <1>13 DEF TaskTimer
<1>14. \A t \in Tasks : state'[t] = "running" => state[t] = "running"
  BY <1>1
<1> QED
  BY <1>5, <1>8, <1>9, <1>10, <1>11, <1>12, <1>13, <1>14, TimersGo

(* A second passes.                                                        *)
LEMMA TickKept == ASSUME TasksInv, T!Tick PROVE TasksInv'
<1>n. Len(timers) \in Nat /\ timers \in Seq(TimerShape) /\ DOMAIN timers = 1..Len(timers)
  BY DEF TasksInv, TasksShape
<1>1. /\ timers' = [i \in 1..Len(timers) |-> [timers[i] EXCEPT !.left = timers[i].left - 1]]
      /\ \A i \in 1..Len(timers) : timers[i].left > 0
      /\ UNCHANGED <<state, kills, owner, request, early>>
  BY <1>n DEF T!Tick
<1>2. ASSUME NEW x \in TimerShape, x.left > 0
      PROVE  LET y == [x EXCEPT !.left = x.left - 1]
             IN  y \in TimerShape /\ y.kind = x.kind /\ y.of = x.of /\ y.whole = x.whole /\ y.left = x.left - 1
  BY <1>2, ServicesAssumption DEF TimerShape
<1>3. \A i \in 1..Len(timers) : /\ timers'[i] \in TimerShape
                               /\ timers'[i].kind = timers[i].kind /\ timers'[i].of = timers[i].of
                               /\ timers'[i].whole = timers[i].whole /\ timers'[i].left = timers[i].left - 1
  <2> SUFFICES ASSUME NEW i \in 1..Len(timers)
               PROVE  /\ timers'[i] \in TimerShape
                      /\ timers'[i].kind = timers[i].kind /\ timers'[i].of = timers[i].of
                      /\ timers'[i].whole = timers[i].whole /\ timers'[i].left = timers[i].left - 1
    OBVIOUS
  <2>1. timers[i] \in TimerShape /\ timers[i].left > 0
    BY <1>n, <1>1
  <2>2. timers'[i] = [timers[i] EXCEPT !.left = timers[i].left - 1]
    BY <1>1
  <2> QED
    BY <1>2, <2>1, <2>2
<1>4. timers' \in Seq(TimerShape) /\ Len(timers') = Len(timers)
  <2>1. timers' = [i \in 1..Len(timers) |-> timers'[i]]
    BY <1>1
  <2>2. timers' \in [1..Len(timers) -> TimerShape]
    BY <1>3, <2>1
  <2>3. timers' \in Seq(TimerShape)
    BY <1>n, <2>2
  <2> QED
    BY <1>n, <2>2, <2>3
<1>5. TasksShape' /\ WaitersFit'
  BY <1>1, <1>4 DEF TasksInv, TasksShape, WaitersFit
<1>6. TimersArmed'
  BY <1>1, <1>3, <1>4 DEF TasksInv, TimersArmed, TaskTimer
<1>7. DelaysFit'
  <2> SUFFICES ASSUME NEW i \in 1..Len(timers), timers'[i].kind = "delay"
               PROVE  /\ request'[timers'[i].of].at = "waiting"
                      /\ \A j \in 1..Len(timers) :
                            timers'[j].kind = "delay" /\ timers'[j].of = timers'[i].of => j = i
                      /\ request'[timers'[i].of].op = "foreground" =>
                           \E j \in 1..(i - 1) : /\ TaskTimer(timers'[j], request'[timers'[i].of].task)
                                                 /\ timers'[j].left = timers'[i].left
                                                 /\ timers'[j].whole = timers'[i].whole
    BY <1>4 DEF DelaysFit, TaskTimer
  <2>1. timers[i].kind = "delay" /\ timers[i].of = timers'[i].of
    BY <1>3
  <2>2. /\ request[timers[i].of].at = "waiting"
        /\ \A j \in 1..Len(timers) : timers[j].kind = "delay" /\ timers[j].of = timers[i].of => j = i
    BY <2>1 DEF TasksInv, DelaysFit
  <2>3. ASSUME request[timers[i].of].op = "foreground"
        PROVE  \E j \in 1..(i - 1) : /\ TaskTimer(timers'[j], request[timers[i].of].task)
                                     /\ timers'[j].left = timers'[i].left /\ timers'[j].whole = timers'[i].whole
    <3>1. PICK j \in 1..(i - 1) : /\ TaskTimer(timers[j], request[timers[i].of].task)
                                  /\ timers[j].left = timers[i].left /\ timers[j].whole = timers[i].whole
      BY <2>1, <2>3 DEF TasksInv, DelaysFit
    <3>2. j \in 1..Len(timers)
      BY <1>n
    <3>3. TaskTimer(timers'[j], request[timers[i].of].task)
      BY <1>3, <3>1, <3>2 DEF TaskTimer
    <3>4. timers'[j].left = timers'[i].left /\ timers'[j].whole = timers'[i].whole
      BY <1>3, <3>1, <3>2
    <3> QED
      BY <3>3, <3>4
  <2>4. \A j \in 1..Len(timers) : timers'[j].kind = timers[j].kind /\ timers'[j].of = timers[j].of
    BY <1>3
  <2> QED
    BY <1>1, <2>1, <2>2, <2>3, <2>4
<1> QED
  BY <1>5, <1>6, <1>7 DEF TasksInv

(* A run gets its child: it is answered at once, or waits for its task.    *)
LEMMA SpawnKept == ASSUME TasksInv, NEW c \in Callers, T!Spawn(c) PROVE TasksInv'
<1> DEFINE r == request[c]
<1>1. PICK t \in Tasks :
         /\ state[t] = "absent" /\ state' = [state EXCEPT ![t] = "running"]
         /\ timers' = timers \o (IF T!WaitSeconds(r) = 0 THEN <<T!Timer("task", t, r.seconds)>> ELSE T!Armed(r, c, t))
         /\ request' = [request EXCEPT ![c] = IF T!WaitSeconds(r) = 0 THEN T!Idle
                                              ELSE [r EXCEPT !.at = "waiting", !.task = t]]
         /\ owner' = IF T!WaitSeconds(r) = 0 THEN T!Registered(owner, r, t) ELSE owner
  BY DEF T!Spawn
<1>2. r.at = "resolving" /\ UNCHANGED <<kills, early>>
  BY DEF T!Spawn
<1>3. r \in RunShape
  BY <1>2 DEF TasksInv, TasksShape, RestShape
<1> HIDE DEF r
<1>d. r = request[c]
  BY DEF r
<1>4. r.seconds \in 1..MaxSeconds /\ T!WaitSeconds(r) \in 0..MaxSeconds
      /\ (r.op = "foreground" => T!WaitSeconds(r) = r.seconds)
  BY <1>3, ServicesAssumption DEF T!WaitSeconds, RunShape
<1> DEFINE x == T!Timer("task", t, r.seconds)
           y == T!Timer("delay", c, T!WaitSeconds(r))
           n == Len(timers)
<1>5. /\ x \in TimerShape /\ TaskTimer(x, t) /\ x.left = r.seconds /\ x.whole = r.seconds
      /\ y.kind = "delay" /\ y.of = c /\ y.left = T!WaitSeconds(r) /\ y.whole = T!WaitSeconds(r)
      /\ T!WaitSeconds(r) # 0 => y \in TimerShape
  BY <1>4, ServicesAssumption DEF T!Timer, TaskTimer, TimerShape
<1>6. n \in Nat /\ timers \in Seq(TimerShape)
  BY DEF TasksInv, TasksShape
<1>7. T!Armed(r, c, t) = <<x, y>>
  BY DEF T!Armed
<1> HIDE DEF x, y
<1>s. state' \in [Tasks -> States] /\ kills' = [u \in Tasks |-> KilledBy(state'[u])] /\ early' = FALSE
  BY <1>1, <1>2 DEF TasksInv, TasksShape, KilledBy, States
<1>8. CASE T!WaitSeconds(r) = 0
  <2>1. timers' = timers \o <<x>> /\ request' = [request EXCEPT ![c] = T!Idle]
        /\ owner' = T!Registered(owner, r, t)
    BY <1>1, <1>8 DEF x
  <2>2. timers' = Append(timers, x)
    BY <1>5, <1>6, <2>1
  <2>3. /\ timers' \in Seq(TimerShape) /\ Len(timers') = n + 1 /\ timers'[n + 1] = x
        /\ \A i \in 1..n : timers'[i] = timers[i]
    BY <1>5, <1>6, <2>2
  <2>4. T!Idle \in RestShape /\ T!Idle.at = "idle"
    BY DEF T!Idle, RestShape
  <2>5. TasksShape'
    <3>1. owner' \in [Tasks -> Owners \union {T!Nobody}]
      BY <1>3, <2>1, OwnersKept DEF TasksInv, TasksShape
    <3> QED
      BY <1>s, <2>1, <2>3, <2>4, <3>1 DEF TasksInv, TasksShape
  <2>6. request'[c].at # "waiting" /\ \A d \in Callers : d # c => request'[d] = request[d]
    BY <2>1, <2>4 DEF TasksInv, TasksShape
  <2>7. Behind(c, t, n, n + 1)
    <3>1. n < n + 1 /\ \A i \in (n + 1)..(n + 1) : i = n + 1
      BY <1>6
    <3> QED
      BY <1>5, <1>6, <2>3, <3>1 DEF Behind
  <2>8. n + 1 \in Nat /\ request[c].at # "waiting"
    BY <1>2, <1>6, <1>d
  <2> HIDE DEF n
  <2> QED
    BY <1>1, <1>6, <2>5, <2>6, <2>7, <2>8, TimersCome
<1>9. CASE T!WaitSeconds(r) # 0
  <2> DEFINE w == [r EXCEPT !.at = "waiting", !.task = t]
  <2>1. timers' = timers \o <<x, y>> /\ request' = [request EXCEPT ![c] = w] /\ owner' = owner
    BY <1>1, <1>7, <1>9
  <2>2. /\ timers' \in Seq(TimerShape) /\ Len(timers') = n + 2
        /\ timers'[n + 1] = x /\ timers'[n + 2] = y
        /\ \A i \in 1..n : timers'[i] = timers[i]
    <3>1. <<x, y>> \in Seq(TimerShape) /\ Len(<<x, y>>) = 2 /\ <<x, y>>[1] = x /\ <<x, y>>[2] = y
      BY <1>5, <1>9
    <3> DEFINE p == <<x, y>>
    <3>2. timers' = timers \o p
      BY <2>1
    <3> HIDE DEF p
    <3>3. p \in Seq(TimerShape) /\ Len(p) = 2 /\ p[1] = x /\ p[2] = y
      BY <3>1 DEF p
    <3>4. timers \o p \in Seq(TimerShape) /\ Len(timers \o p) = n + 2
          /\ \A i \in 1..(n + 2) : (timers \o p)[i] = IF i <= n THEN timers[i] ELSE p[i - n]
      <4>1. /\ timers \o p \in Seq(TimerShape) /\ Len(timers \o p) = n + Len(p)
            /\ \A i \in 1..(n + Len(p)) : (timers \o p)[i] = IF i <= n THEN timers[i] ELSE p[i - n]
        BY <1>6, <3>3, ConcatProperties
      <4> QED
        BY <3>3, <4>1
    <3>5. (timers \o p)[n + 1] = p[1] /\ (timers \o p)[n + 2] = p[2] /\ \A i \in 1..n : (timers \o p)[i] = timers[i]
      BY <1>6, <3>4
    <3> QED
      BY <3>2, <3>3, <3>4, <3>5
  <2>3. w \in RunShape /\ w.at = "waiting" /\ w.task = t /\ w.op = r.op
    BY <1>3 DEF RunShape
  <2> HIDE DEF w
  <2>5. TasksShape'
    BY <1>s, <2>1, <2>2, <2>3 DEF TasksInv, TasksShape
  <2>6. request'[c] = w /\ \A d \in Callers : d # c => request'[d] = request[d]
    BY <2>1 DEF TasksInv, TasksShape
  <2>7. ASSUME NEW i \in (n + 1)..(n + 2)
        PROVE  \/ TaskTimer(timers'[i], t)
               \/ /\ timers'[i].kind = "delay" /\ timers'[i].of = c /\ i = n + 2
                  /\ request'[c].at = "waiting"
                  /\ request'[c].op = "foreground" =>
                       /\ n + 1 < n + 2 /\ TaskTimer(timers'[n + 1], t)
                       /\ timers'[n + 1].left = timers'[n + 2].left /\ timers'[n + 1].whole = timers'[n + 2].whole
    <3>1. i = n + 1 \/ i = n + 2
      BY <1>6
    <3>2. n + 1 < n + 2
      BY <1>6
    <3> QED
      BY <1>4, <1>5, <2>2, <2>3, <2>6, <3>1, <3>2
  <2>8. Behind(c, t, n, n + 2)
    <3>1. n < n + 2 /\ n <= n + 2
      BY <1>6
    <3> HIDE DEF n
    <3> QED
      BY <1>5, <2>2, <2>7, <3>1 DEF Behind, n
  <2>9. n + 2 \in Nat /\ request[c].at # "waiting" /\ request'[c].task = t
    BY <1>2, <1>6, <1>d, <2>3, <2>6
  <2> HIDE DEF n
  <2> QED
    BY <1>1, <1>6, <2>5, <2>6, <2>8, <2>9, TimersCome
<1> QED
  BY <1>8, <1>9

(* A request waits for a task that runs.                                   *)
LEMMA WaitKept ==
  ASSUME TasksInv, NEW c \in Callers, NEW by, NEW t \in Tasks, NEW s \in WaitTimes, T!WaitCall(c, by, t, s)
  PROVE  TasksInv'
<1> DEFINE w == [T!Idle EXCEPT !.at = "waiting", !.op = "wait", !.task = t]
           y == T!Timer("delay", c, s)
           n == Len(timers)
<1>1. /\ request[c] = T!Idle /\ state[t] = "running" /\ request' = [request EXCEPT ![c] = w]
      /\ timers' = Append(timers, y) /\ UNCHANGED <<state, kills, owner, early>>
  BY DEF T!WaitCall
<1>2. w \in RestShape /\ w.at = "waiting" /\ w.task = t /\ w.op = "wait" /\ T!Idle.at = "idle"
  BY DEF T!Idle, RestShape
<1>3. y \in TimerShape /\ y.kind = "delay" /\ y.of = c
  BY ServicesAssumption DEF T!Timer, TimerShape
<1>4. n \in Nat /\ timers \in Seq(TimerShape)
  BY DEF TasksInv, TasksShape
<1> HIDE DEF w, y
<1>5. /\ timers' \in Seq(TimerShape) /\ Len(timers') = n + 1 /\ timers'[n + 1] = y
      /\ \A i \in 1..n : timers'[i] = timers[i]
  BY <1>1, <1>3, <1>4
<1>6. TasksShape'
  BY <1>1, <1>2, <1>5 DEF TasksInv, TasksShape
<1>7. request'[c] = w /\ \A d \in Callers : d # c => request'[d] = request[d]
  BY <1>1 DEF TasksInv, TasksShape
<1>8. \A i \in (n + 1)..(n + 1) : i = n + 1
  BY <1>4
<1>9. state' = [state EXCEPT ![t] = "running"]
  BY <1>1 DEF TasksInv, TasksShape
<1>10. Behind(c, t, n, n + 1)
  <2>1. n <= n + 1 /\ n + 1 \in Nat
    BY <1>4
  <2>2. request'[c].at = "waiting" /\ request'[c].op # "foreground"
    BY <1>2, <1>7
  <2> QED
    BY <1>1, <1>3, <1>5, <1>8, <2>1, <2>2 DEF Behind
<1>11. request[c].at # "waiting" /\ request'[c].task = t /\ n + 1 \in Nat
  BY <1>1, <1>2, <1>4, <1>7
<1> HIDE DEF n
<1> QED
  BY <1>4, <1>6, <1>7, <1>9, <1>10, <1>11, TimersCome

(* Every step of the runner keeps its invariant.                           *)
LEMMA TasksKept == TasksInv /\ [T!Next]_tasksVars => TasksInv'
<1> SUFFICES ASSUME TasksInv, [T!Next]_tasksVars PROVE TasksInv'
  OBVIOUS
<1>i. T!Idle \in RestShape /\ T!Idle.at = "idle"
  BY DEF T!Idle, RestShape
<1>r. DOMAIN timers = 1..Len(timers) /\ timers \in Seq(TimerShape)
  BY DEF TasksInv, TasksShape
<1>e. "exited" \in T!Ended /\ "timed_out" \in T!Ended /\ "cancelled" \in T!Ended
  BY DEF T!Ended
<1>1. ASSUME NEW c \in Callers, NEW run \in T!Runs, T!RunCall(c, run) PROVE TasksInv'
  <2> DEFINE r == [at |-> "resolving", op |-> run.op, by |-> run.by, task |-> T!NoTask, seconds |-> run.seconds]
  <2>1. r \in RunShape /\ r.at = "resolving"
    BY DEF T!Runs, RunShape
  <2>2. request[c].at = "idle" /\ request' = [request EXCEPT ![c] = r]
        /\ UNCHANGED <<state, kills, owner, timers, early>>
    BY <1>1, <1>i DEF T!RunCall
  <2> HIDE DEF r
  <2> QED
    BY <2>1, <2>2, RequestMoves
<1>2. ASSUME NEW c \in Callers, T!RunRefused(c) \/ T!TerminatorEnds(c) PROVE TasksInv'
  <2>1. request[c].at # "waiting" /\ request' = [request EXCEPT ![c] = T!Idle]
        /\ UNCHANGED <<state, kills, owner, timers, early>>
    BY <1>2 DEF T!RunRefused, T!TerminatorEnds, T!Answered
  <2> QED
    BY <1>i, <2>1, RequestMoves
<1>3. ASSUME NEW c \in Callers, NEW by, NEW t \in Tasks, T!CancelCall(c, by, t) PROVE TasksInv'
  <2> DEFINE w == [T!Idle EXCEPT !.at = "stopping", !.op = "cancel"]
  <2>1. /\ request[c] = T!Idle /\ T!Finish(t, "cancelled") /\ UNCHANGED early
        /\ request' = [T!AnswerWaiters(t) EXCEPT ![c] = w]
        /\ kills' = [kills EXCEPT ![t] = kills[t] + 1]
    BY <1>3 DEF T!CancelCall
  <2>2. w \in RestShape /\ w.at = "stopping"
    BY DEF T!Idle, RestShape
  <2> HIDE DEF w
  <2>a. T!AnswerWaiters(t) \in [Callers -> RunShape \union RestShape]
    BY WaitersAnswered
  <2>3. /\ request' \in [Callers -> RunShape \union RestShape] /\ request'[c].at # "waiting"
        /\ \A d \in Callers : d # c => request'[d] = T!AnswerWaiters(t)[d]
    BY <2>1, <2>2, <2>a
  <2>4. request[c].at # "waiting"
    BY <1>i, <2>1
  <2>5. /\ \A d \in Callers : request'[d].at = "waiting" => request'[d] = request[d] /\ request[d].task # t
        /\ \A d \in Callers : request[d].at = "waiting" /\ request[d].task # t => request'[d] = request[d]
    BY <2>3, <2>4, WaitersAnswered
  <2> QED
    BY <1>e, <2>1, <2>3, <2>5, FinishKept
<1>4. ASSUME NEW t \in Tasks, T!ChildCloses(t) PROVE TasksInv'
  <2>1. T!Finish(t, "exited") /\ request' = T!AnswerWaiters(t) /\ UNCHANGED <<kills, early>>
    BY <1>4 DEF T!ChildCloses
  <2> QED
    BY <1>e, <2>1, WaitersAnswered, FinishKept
<1>5. ASSUME NEW i \in DOMAIN timers, T!TimeoutFires(i) PROVE TasksInv'
  <2> DEFINE t == timers[i].of
  <2>1. timers[i].kind = "task" /\ T!Finish(t, "timed_out") /\ request' = T!AnswerWaiters(t)
        /\ kills' = [kills EXCEPT ![t] = kills[t] + 1] /\ UNCHANGED early
    BY <1>5 DEF T!TimeoutFires
  <2>2. timers[i] \in TimerShape
    BY <1>r
  <2>3. t \in Tasks
    BY <2>1, <2>2 DEF TimerShape
  <2> HIDE DEF t
  <2>4. /\ request' \in [Callers -> RunShape \union RestShape]
        /\ \A d \in Callers : request'[d].at = "waiting" => request'[d] = request[d] /\ request[d].task # t
        /\ \A d \in Callers : request[d].at = "waiting" /\ request[d].task # t => request'[d] = request[d]
    BY <2>1, <2>3, WaitersAnswered
  <2> QED
    BY <1>e, <2>1, <2>3, <2>4, FinishKept
<1>6. ASSUME NEW i \in DOMAIN timers, T!DelayFires(i) PROVE TasksInv'
  BY <1>6, <1>r, DelayKept
<1>7. CASE UNCHANGED tasksVars
  BY <1>7 DEF tasksVars, TasksInv, TasksShape, WaitersFit, TimersArmed, TaskTimer, DelaysFit
<1> QED
  BY <1>1, <1>2, <1>3, <1>4, <1>5, <1>6, <1>7, SpawnKept, WaitKept, TickKept DEF T!Next, T!Fire

-----------------------------------------------------------------------------
(* BrowserSession: the steps of the requests to the browser.               *)

Lists == {<<"launch", "evaluate">>, <<"wait", "new_tab">>, <<"status", "close_tab">>, <<"list_tabs">>}
BrowsingShape ==
    [at : {"idle", "http", "probing", "starting", "listing", "relisting", "socket", "delay"},
     steps : Seq(B!Steps), tab : Tabs \union {B!AnyTab}, on : Tabs \union {B!AnyTab}, late : BOOLEAN]

(* A request, how its steps ended and what it was answered: only the last  *)
(* step of one that was answered so has failed.                            *)
Coherent(r, ended, told) ==
    /\ r \in BrowsingShape
    /\ r.at = "idle" <=> r.steps = <<>>
    /\ ended \in Seq({"ok", "failed"})
    /\ \A i \in 1..Len(ended) : ended[i] = "failed" => r.at = "idle" /\ i = Len(ended) /\ told = "failed"

BrowserInv ==
    /\ chrome \in {"down", "starting", "up"} /\ tabs \subseteq Tabs /\ (tabs # {} => chrome = "up")
    /\ browsing = [c \in Callers |-> browsing[c]] /\ results = [c \in Callers |-> results[c]]
    /\ answers = [c \in Callers |-> answers[c]]
    /\ \A c \in Callers : Coherent(browsing[c], results[c], answers[c])
    /\ sockets \subseteq Callers \X Tabs
    /\ \A s \in sockets : browsing[s[1]].at = "socket"
    /\ browsed \in 0..MaxAsked

(* The invariant is strong enough.                                         *)
LEMMA BrowserHolds == BrowserInv => B!TypeOK /\ B!BrowserSound
<1> SUFFICES ASSUME BrowserInv PROVE B!TypeOK /\ B!BrowserSound
  OBVIOUS
<1>1. ASSUME NEW c \in Callers
      PROVE  /\ browsing[c].at \in {"idle", "http", "probing", "starting", "listing",
                                    "relisting", "socket", "delay"}
             /\ browsing[c].steps \in Seq(B!Steps)
             /\ browsing[c].at = "idle" <=> browsing[c].steps = <<>>
             /\ results[c] \in Seq({"ok", "failed"})
             /\ \A i \in 1..Len(results[c]) :
                   results[c][i] = "failed" => i = Len(results[c]) /\ answers[c] = "failed"
  BY DEF BrowserInv, Coherent, BrowsingShape
<1>2. B!TypeOK
  BY <1>1 DEF BrowserInv, B!TypeOK
<1>3. B!BrowserSound
  <2>1. ASSUME NEW c \in Callers, NEW s \in sockets, s[1] = c PROVE browsing[c].at = "socket"
    BY <2>1 DEF BrowserInv
  <2> QED
    BY <1>1, <2>1 DEF B!BrowserSound, B!At
<1> QED
  BY <1>2, <1>3

(* Chrome is down and no request is there.                                 *)
LEMMA BrowserStart == B!Init => BrowserInv
<1> SUFFICES ASSUME B!Init PROVE BrowserInv
  OBVIOUS
<1>1. B!Idle \in BrowsingShape /\ B!Idle.at = "idle" /\ B!Idle.steps = <<>>
  BY DEF B!Idle, BrowsingShape
<1>2. Coherent(B!Idle, <<>>, "none")
  BY <1>1 DEF Coherent
<1> QED
  BY <1>2, ServicesAssumption DEF B!Init, BrowserInv

(* One request goes on, and the others stay as they are.                   *)
Turn(c) ==
    /\ browsing' = [browsing EXCEPT ![c] = browsing'[c]]
    /\ results' = [results EXCEPT ![c] = results'[c]]
    /\ answers' = [answers EXCEPT ![c] = answers'[c]]
    /\ Coherent(browsing'[c], results'[c], answers'[c])

LEMMA OneTurns ==
  ASSUME BrowserInv, NEW c \in Callers, Turn(c), browsed' \in 0..MaxAsked,
         chrome' \in {"down", "starting", "up"}, tabs' \subseteq Tabs, tabs' # {} => chrome' = "up",
         sockets' \subseteq Callers \X Tabs,
         \A s \in sockets' : IF s[1] = c THEN browsing'[c].at = "socket" ELSE s \in sockets
  PROVE  BrowserInv'
<1>1. \A d \in Callers : d # c => /\ browsing'[d] = browsing[d] /\ results'[d] = results[d]
                                  /\ answers'[d] = answers[d]
  BY DEF BrowserInv, Turn
<1>2. \A d \in Callers : Coherent(browsing'[d], results'[d], answers'[d])
  BY <1>1 DEF BrowserInv, Turn
<1>3. \A s \in sockets' : browsing'[s[1]].at = "socket"
  BY <1>1 DEF BrowserInv
<1>4. /\ browsing' = [d \in Callers |-> browsing'[d]] /\ results' = [d \in Callers |-> results'[d]]
      /\ answers' = [d \in Callers |-> answers'[d]]
  BY DEF BrowserInv, Turn
<1> QED
  BY <1>2, <1>3, <1>4 DEF BrowserInv

(* The ways a request goes on.                                             *)
LEMMA Ended ==
  ASSUME BrowserInv, NEW c \in Callers, browsing[c].at # "idle", NEW last \in {"ok", "failed"},
         NEW told \in {"ok", "failed"}, last = "failed" => told = "failed",
         results' = [results EXCEPT ![c] = Append(results[c], last)], B!Ends(c, told)
  PROVE  Turn(c) /\ browsing'[c].at = "idle"
<1>1. Coherent(browsing[c], results[c], answers[c])
  BY DEF BrowserInv
<1>2. B!Idle \in BrowsingShape /\ B!Idle.at = "idle" /\ B!Idle.steps = <<>>
  BY DEF B!Idle, BrowsingShape
<1>3. browsing'[c] = B!Idle /\ answers'[c] = told /\ results'[c] = Append(results[c], last)
  BY DEF BrowserInv, B!Ends
<1>4. results[c] \in Seq({"ok", "failed"}) /\ \A i \in 1..Len(results[c]) : results[c][i] # "failed"
  BY <1>1 DEF Coherent
<1>5. /\ results'[c] \in Seq({"ok", "failed"})
      /\ \A i \in 1..Len(results'[c]) : results'[c][i] = "failed" => i = Len(results'[c]) /\ last = "failed"
  BY <1>3, <1>4
<1>6. Coherent(browsing'[c], results'[c], answers'[c])
  BY <1>2, <1>3, <1>5 DEF Coherent
<1> QED
  BY <1>2, <1>3, <1>6 DEF Turn, BrowserInv, B!Ends

LEMMA Failing ==
  ASSUME BrowserInv, NEW c \in Callers, browsing[c].at # "idle", B!Fails(c)
  PROVE  Turn(c) /\ browsing'[c].at = "idle"
  BY Ended DEF B!Fails

LEMMA Going ==
  ASSUME BrowserInv, NEW c \in Callers, browsing[c].at # "idle", NEW r \in BrowsingShape,
         r.at # "idle", r.steps # <<>>, browsing' = [browsing EXCEPT ![c] = r], UNCHANGED <<results, answers>>
  PROVE  Turn(c) /\ browsing'[c] = r
<1>1. browsing'[c] = r
  BY DEF BrowserInv
<1>2. Coherent(browsing'[c], results'[c], answers'[c])
  BY <1>1 DEF BrowserInv, Coherent
<1> QED
  BY <1>1, <1>2 DEF Turn, BrowserInv

LEMMA Succeeding ==
  ASSUME BrowserInv, NEW c \in Callers, browsing[c].at # "idle", B!Succeeds(c)
  PROVE  Turn(c) /\ browsing'[c].at \in {"idle", "http", "probing", "listing"}
<1>1. CASE Len(browsing[c].steps) = 1
  BY <1>1, Ended DEF B!Succeeds
<1>2. CASE Len(browsing[c].steps) # 1
  <2>f. Coherent(browsing[c], results[c], answers[c])
    BY DEF BrowserInv
  <2> DEFINE s == browsing[c].steps
             r == [browsing[c] EXCEPT !.steps = Tail(s), !.late = FALSE, !.at = B!FirstAwait(s[2])]
  <2>1. browsing' = [browsing EXCEPT ![c] = r] /\ answers' = answers
        /\ results' = [results EXCEPT ![c] = Append(results[c], "ok")]
    BY <1>2 DEF B!Succeeds
  <2>2. s \in Seq(B!Steps) /\ s # <<>>
    BY <2>f DEF Coherent, BrowsingShape
  <2>3. Tail(s) \in Seq(B!Steps) /\ Tail(s) # <<>>
    BY <1>2, <2>2, TailProper
  <2>4. B!FirstAwait(s[2]) \in {"http", "probing", "listing"}
    BY DEF B!FirstAwait
  <2>5. r \in BrowsingShape /\ r.at = B!FirstAwait(s[2]) /\ r.steps = Tail(s)
    <3>1. browsing[c] \in BrowsingShape
      BY <2>f DEF Coherent
    <3> DEFINE t == Tail(s)
               a == B!FirstAwait(s[2])
    <3>4. t \in Seq(B!Steps) /\ a \in {"http", "probing", "listing"}
      BY <2>3, <2>4
    <3>5. r = [browsing[c] EXCEPT !.steps = t, !.late = FALSE, !.at = a]
      OBVIOUS
    <3> HIDE DEF t, a, s, r
    <3>6. r \in BrowsingShape /\ r.at = a /\ r.steps = t
      BY <3>1, <3>4, <3>5 DEF BrowsingShape
    <3> QED
      BY <3>6 DEF t, a
  <2>6. browsing'[c] = r /\ results'[c] = Append(results[c], "ok")
    BY <2>1 DEF BrowserInv
  <2>7. results[c] \in Seq({"ok", "failed"}) /\ \A i \in 1..Len(results[c]) : results[c][i] # "failed"
    BY <2>f DEF Coherent
  <2>8. results'[c] \in Seq({"ok", "failed"}) /\ \A i \in 1..Len(results'[c]) : results'[c][i] # "failed"
    BY <2>6, <2>7
  <2>9. Coherent(browsing'[c], results'[c], answers'[c])
    BY <2>3, <2>4, <2>5, <2>6, <2>8 DEF Coherent
  <2> HIDE DEF r
  <2> QED
    BY <2>1, <2>4, <2>5, <2>6, <2>9 DEF Turn, BrowserInv
<1> QED
  BY <1>1, <1>2

(* Every step of a browser request keeps the invariant.                    *)
LEMMA BrowserKept == BrowserInv /\ [B!Next]_browserVars => BrowserInv'
<1> SUFFICES ASSUME BrowserInv, [B!Next]_browserVars PROVE BrowserInv'
  OBVIOUS
<1>f. \A c \in Callers : Coherent(browsing[c], results[c], answers[c])
  BY DEF BrowserInv
<1>s. \A c \in Callers : browsing[c] \in BrowsingShape /\ (browsing[c].at # "idle" => browsing[c].steps # <<>>)
  BY <1>f DEF Coherent
<1>o. ASSUME NEW c \in Callers, Turn(c), UNCHANGED <<chrome, sockets, browsed>>, browsing[c].at # "socket",
             tabs' \subseteq Tabs, tabs' # {} => chrome = "up"
      PROVE  BrowserInv'
  <2>1. \A s \in sockets' : s \in sockets /\ s[1] # c
    BY <1>o DEF BrowserInv
  <2> QED
    BY <1>o, <2>1, OneTurns DEF BrowserInv
<1>1. ASSUME NEW c \in Callers, NEW steps \in Lists, NEW tab \in Tabs \union {B!AnyTab}, B!Execute(c, steps, tab)
      PROVE  BrowserInv'
  <2> DEFINE r == [B!Idle EXCEPT !.at = B!FirstAwait(steps[1]), !.steps = steps, !.tab = tab]
  <2>1. steps \in Seq(B!Steps) /\ steps # <<>>
    <3>1. /\ <<"launch", "evaluate">> \in Seq(B!Steps) /\ <<"wait", "new_tab">> \in Seq(B!Steps)
          /\ <<"status", "close_tab">> \in Seq(B!Steps) /\ <<"list_tabs">> \in Seq(B!Steps)
          /\ <<"launch", "evaluate">> # <<>> /\ <<"wait", "new_tab">> # <<>>
          /\ <<"status", "close_tab">> # <<>> /\ <<"list_tabs">> # <<>>
      BY DEF B!Steps
    <3> QED
      BY <3>1, Zenon DEF Lists
  <2>2. B!FirstAwait(steps[1]) \in {"http", "probing", "listing"}
    BY DEF B!FirstAwait
  <2>3. r \in BrowsingShape /\ r.at # "idle" /\ r.at # "socket" /\ r.steps # <<>>
    BY <2>1, <2>2 DEF B!Idle, BrowsingShape
  <2>4. /\ browsing' = [browsing EXCEPT ![c] = r] /\ results' = [results EXCEPT ![c] = <<>>]
        /\ answers' = [answers EXCEPT ![c] = "none"] /\ UNCHANGED <<chrome, tabs, sockets>>
        /\ browsing[c].at = "idle" /\ browsed' \in 0..MaxAsked
    BY <1>1, ServicesAssumption DEF B!Execute, B!At, BrowserInv
  <2> HIDE DEF r
  <2>5. browsing'[c] = r /\ results'[c] = <<>>
    BY <2>4 DEF BrowserInv
  <2>6. Coherent(browsing'[c], results'[c], answers'[c])
    BY <2>3, <2>5 DEF Coherent
  <2>7. Turn(c)
    BY <2>4, <2>6 DEF Turn, BrowserInv
  <2>8. \A s \in sockets' : s \in sockets /\ s[1] # c
    BY <2>4 DEF BrowserInv
  <2> QED
    BY <2>4, <2>7, <2>8, OneTurns DEF BrowserInv
<1>2. ASSUME NEW c \in Callers, B!Http(c) PROVE BrowserInv'
  <2>1. browsing[c].at = "http" /\ UNCHANGED <<chrome, sockets, browsed>>
    BY <1>2 DEF B!Http, B!At
  <2>2. B!Succeeds(c) \/ B!Fails(c)
    BY <1>2 DEF B!Http
  <2>3. tabs' \subseteq Tabs /\ (tabs' # {} => chrome = "up")
    BY <1>2 DEF B!Http, BrowserInv
  <2> QED
    BY <1>o, <2>1, <2>2, <2>3, Succeeding, Failing
<1>3. ASSUME NEW c \in Callers, B!Launch(c) PROVE BrowserInv'
  <2>1. browsing[c].at = "probing" /\ UNCHANGED <<tabs, sockets, browsed>>
    BY <1>3 DEF B!Launch, B!At
  <2>2. CASE B!Succeeds(c) /\ UNCHANGED chrome
    BY <1>o, <2>1, <2>2, Succeeding DEF BrowserInv
  <2>3. CASE B!Fails(c) /\ UNCHANGED chrome
    BY <1>o, <2>1, <2>3, Failing DEF BrowserInv
  <2>4. CASE chrome # "up" /\ B!Goes(c, "starting") /\ chrome' = "starting"
    <3> DEFINE r == [browsing[c] EXCEPT !.at = "starting"]
    <3>1. r \in BrowsingShape /\ r.at # "idle" /\ r.steps # <<>>
      BY <1>s, <2>1 DEF BrowsingShape
    <3>2. browsing' = [browsing EXCEPT ![c] = r] /\ UNCHANGED <<results, answers>>
      BY <2>4 DEF B!Goes
    <3> HIDE DEF r
    <3>3. Turn(c)
      BY <2>1, <3>1, <3>2, Going
    <3>4. \A s \in sockets' : s \in sockets /\ s[1] # c
      BY <2>1 DEF BrowserInv
    <3> QED
      BY <2>1, <2>4, <3>3, <3>4, OneTurns DEF BrowserInv
  <2> QED
    BY <1>3, <2>2, <2>3, <2>4 DEF B!Launch
<1>4. ASSUME NEW c \in Callers, B!LaunchPolls(c) PROVE BrowserInv'
  BY <1>o, <1>4, Succeeding, Failing DEF B!LaunchPolls, B!At, BrowserInv
<1>5. ASSUME NEW c \in Callers, B!WithTab(c) PROVE BrowserInv'
  <2>1. browsing[c].at = "listing" /\ UNCHANGED <<chrome, tabs, sockets, browsed>>
    BY <1>5 DEF B!WithTab, B!At
  <2>2. ASSUME NEW t \in tabs, UNCHANGED <<results, answers>>,
               browsing' = [browsing EXCEPT ![c] = [browsing[c] EXCEPT !.at = "relisting", !.on = t]]
        PROVE  BrowserInv'
    <3> DEFINE r == [browsing[c] EXCEPT !.at = "relisting", !.on = t]
    <3>0. t \in Tabs
      BY DEF BrowserInv
    <3>1. r \in BrowsingShape /\ r.at # "idle" /\ r.steps # <<>>
      BY <1>s, <2>1, <3>0 DEF BrowsingShape
    <3>2. browsing' = [browsing EXCEPT ![c] = r]
      BY <2>2
    <3> HIDE DEF r
    <3>3. Turn(c)
      BY <2>1, <2>2, <3>1, <3>2, Going
    <3> QED
      BY <1>o, <2>1, <3>3 DEF BrowserInv
  <2>3. CASE B!Fails(c)
    BY <1>o, <2>1, <2>3, Failing DEF BrowserInv
  <2> QED
    BY <1>5, <2>2, <2>3 DEF B!WithTab
<1>6. ASSUME NEW c \in Callers, B!Send(c) PROVE BrowserInv'
  <2>1. browsing[c].at = "relisting" /\ UNCHANGED <<chrome, tabs, browsed>>
    BY <1>6 DEF B!Send, B!At
  <2>2. CASE browsing[c].on \in tabs /\ B!Goes(c, "socket") /\ sockets' = sockets \union {<<c, browsing[c].on>>}
    <3> DEFINE r == [browsing[c] EXCEPT !.at = "socket"]
    <3>1. r \in BrowsingShape /\ r.at = "socket" /\ r.steps # <<>>
      BY <1>s, <2>1 DEF BrowsingShape
    <3>2. browsing' = [browsing EXCEPT ![c] = r] /\ UNCHANGED <<results, answers>>
      BY <2>2 DEF B!Goes
    <3> HIDE DEF r
    <3>3. Turn(c) /\ browsing'[c].at = "socket"
      BY <2>1, <3>1, <3>2, Going
    <3>4. sockets' \subseteq Callers \X Tabs
      BY <2>2 DEF BrowserInv
    <3>5. \A s \in sockets' : IF s[1] = c THEN browsing'[c].at = "socket" ELSE s \in sockets
      BY <2>2, <3>3
    <3> QED
      BY <2>1, <3>3, <3>4, <3>5, OneTurns DEF BrowserInv
  <2>3. CASE B!Fails(c) /\ UNCHANGED sockets
    BY <1>o, <2>1, <2>3, Failing DEF BrowserInv
  <2> QED
    BY <1>6, <2>2, <2>3 DEF B!Send
<1>c. ASSUME NEW c \in Callers, Turn(c), B!Closed(c), UNCHANGED <<chrome, tabs, browsed>>
      PROVE  BrowserInv'
  BY <1>c, OneTurns DEF B!Closed, BrowserInv
<1>7. ASSUME NEW c \in Callers, B!Reply(c) PROVE BrowserInv'
  <2>1. browsing[c].at = "socket" /\ B!Closed(c) /\ UNCHANGED <<chrome, tabs, browsed>>
    BY <1>7 DEF B!Reply, B!At
  <2>2. CASE B!Succeeds(c)
    BY <1>c, <2>1, <2>2, Succeeding
  <2>3. CASE B!Goes(c, "delay")
    <3> DEFINE r == [browsing[c] EXCEPT !.at = "delay"]
    <3>1. r \in BrowsingShape /\ r.at # "idle" /\ r.steps # <<>>
      BY <1>s, <2>1 DEF BrowsingShape
    <3>2. browsing' = [browsing EXCEPT ![c] = r] /\ UNCHANGED <<results, answers>>
      BY <2>3 DEF B!Goes
    <3> HIDE DEF r
    <3> QED
      BY <1>c, <2>1, <3>1, <3>2, Going
  <2> QED
    BY <1>7, <2>2, <2>3 DEF B!Reply
<1>8. ASSUME NEW c \in Callers, B!SocketFails(c) PROVE BrowserInv'
  BY <1>c, <1>8, Failing DEF B!SocketFails, B!At
<1>9. ASSUME NEW c \in Callers, B!Poll(c) PROVE BrowserInv'
  <2>1. browsing[c].at = "delay" /\ UNCHANGED <<chrome, tabs, sockets, browsed>>
    BY <1>9 DEF B!Poll, B!At
  <2>2. CASE B!Succeeds(c)
    BY <1>o, <2>1, <2>2, Succeeding DEF BrowserInv
  <2>3. CASE B!Goes(c, "listing")
    <3> DEFINE r == [browsing[c] EXCEPT !.at = "listing"]
    <3>1. r \in BrowsingShape /\ r.at # "idle" /\ r.steps # <<>>
      BY <1>s, <2>1 DEF BrowsingShape
    <3>2. browsing' = [browsing EXCEPT ![c] = r] /\ UNCHANGED <<results, answers>>
      BY <2>3 DEF B!Goes
    <3> HIDE DEF r
    <3> QED
      BY <1>o, <2>1, <3>1, <3>2, Going DEF BrowserInv
  <2> QED
    BY <1>9, <2>2, <2>3 DEF B!Poll
<1>10. ASSUME NEW c \in Callers, B!DeadlinePasses(c) PROVE BrowserInv'
  <2> DEFINE r == [browsing[c] EXCEPT !.late = TRUE]
  <2>1. browsing[c].at # "idle" /\ browsing' = [browsing EXCEPT ![c] = r]
        /\ UNCHANGED <<chrome, tabs, sockets, results, answers, browsed>>
    BY <1>10 DEF B!DeadlinePasses, B!At
  <2>2. r \in BrowsingShape /\ r.at = browsing[c].at /\ r.steps # <<>>
    BY <1>s, <2>1 DEF BrowsingShape
  <2> HIDE DEF r
  <2>3. Turn(c) /\ browsing'[c].at = browsing[c].at
    BY <2>1, <2>2, Going
  <2>4. \A s \in sockets' : IF s[1] = c THEN browsing'[c].at = "socket" ELSE s \in sockets
    BY <2>1, <2>3 DEF BrowserInv
  <2> QED
    BY <2>1, <2>3, <2>4, OneTurns DEF BrowserInv
<1>11. ASSUME B!ChromeComesUp \/ B!ChromeEnds \/ B!TabCloses PROVE BrowserInv'
  BY <1>11 DEF B!ChromeComesUp, B!ChromeEnds, B!TabCloses, BrowserInv
<1>12. CASE UNCHANGED browserVars
  BY <1>12 DEF browserVars, BrowserInv
<1> QED
  BY <1>1, <1>2, <1>3, <1>4, <1>5, <1>6, <1>7, <1>8, <1>9, <1>10, <1>11, <1>12
  DEF B!Next, B!Work, Lists

-----------------------------------------------------------------------------
(* Capabilities: the scheduler and the local backends.                     *)

BackendShape ==
    [at : {"idle", "roots", "child", "fetch", "body", "schtasks", "checking"},
     kind : K!Kinds \union {"none"}, child : {"none", "spawning", "running", "killing", "dead"},
     timer : BOOLEAN, timedOut : BOOLEAN, body : 0..MaxBody, read : 0..MaxBytes,
     name : TaskNames \union {"none"}, command : {"short", "long", "none"}, confirmed : BOOLEAN]

(* What a request waits for: only one that has a child may have timed out, *)
(* and one that is about a task names it.                                  *)
Fit(r) ==
    /\ r \in BackendShape
    /\ r.at # "child" => ~r.timedOut
    /\ r.kind \in {"create", "delete"} => r.name \in TaskNames
    /\ r.kind = "create" => r.command # "none"

BackendsInv ==
    /\ DOMAIN asking = Callers /\ asking = [c \in Callers |-> asking[c]]
    /\ DOMAIN answer = Callers
    /\ \A c \in Callers : Fit(asking[c])
    /\ \A t \in scheduled : t.name \in TaskNames /\ t.command \in K!Commands
    /\ asked \in 0..MaxAsked
    /\ K!OneTaskPerName

LEMMA IdleFits == Fit(K!Idle)
  BY ServicesAssumption DEF Fit, BackendShape, K!Idle

(* No request is there, nothing is scheduled.                              *)
LEMMA BackendsStart == K!Init => BackendsInv
  BY IdleFits, ServicesAssumption DEF K!Init, BackendsInv, K!OneTaskPerName

(* A step that gives one request another thing to wait for, and what it    *)
(* must not disturb.                                                       *)
LEMMA OneMoves ==
  ASSUME BackendsInv, NEW c \in Callers, NEW r, Fit(r), asking' = [asking EXCEPT ![c] = r],
         UNCHANGED <<scheduled, asked>>, DOMAIN answer' = DOMAIN answer
  PROVE  BackendsInv'
<1>1. \A d \in Callers : asking'[d] = IF d = c THEN r ELSE asking[d]
  BY DEF BackendsInv
<1>2. DOMAIN asking' = Callers /\ asking' = [d \in Callers |-> asking'[d]]
  BY DEF BackendsInv
<1> QED
  BY <1>1, <1>2 DEF BackendsInv, K!OneTaskPerName, Fit

LEMMA Answering ==
  ASSUME BackendsInv, NEW c \in Callers, NEW value, K!Answers(c, value), UNCHANGED <<scheduled, asked>>
  PROVE  BackendsInv'
  BY OneMoves, IdleFits DEF K!Answers

(* Every step of a backend keeps the invariant.                            *)
LEMMA BackendsStep == BackendsInv /\ [K!Next]_backendVars => BackendsInv'
<1> SUFFICES ASSUME BackendsInv, [K!Next]_backendVars PROVE BackendsInv'
  OBVIOUS
<1> USE ServicesAssumption
<1>f. \A c \in Callers : Fit(asking[c])
  BY DEF BackendsInv
<1>1. ASSUME NEW c \in Callers, NEW kind \in K!Kinds, NEW name \in TaskNames,
             NEW command \in {"short", "long"}, NEW confirmed \in BOOLEAN,
             K!Execute(c, kind, name, command, confirmed)
      PROVE  BackendsInv'
  <2> DEFINE r == [K!Idle EXCEPT !.at = K!FirstAwait(kind), !.kind = kind, !.name = name,
                                 !.command = command, !.confirmed = confirmed]
  <2>0. K!FirstAwait(kind) \in {"roots", "fetch", "checking", "schtasks"}
    BY DEF K!FirstAwait
  <2>1. Fit(r)
    <3> HIDE DEF K!FirstAwait
    <3>1. K!Idle \in BackendShape /\ ~K!Idle.timedOut
      BY IdleFits DEF Fit, K!Idle
    <3>2. r \in BackendShape /\ ~r.timedOut /\ r.name = name /\ r.command = command
      BY <2>0, <3>1 DEF BackendShape
    <3> QED
      BY <3>2 DEF Fit
  <2>2. asked' \in 0..MaxAsked
    BY <1>1 DEF K!Execute, BackendsInv
  <2>3. asking' = [asking EXCEPT ![c] = r] /\ UNCHANGED <<scheduled, answer>>
    BY <1>1 DEF K!Execute
  <2> HIDE DEF r
  <2>4. \A d \in Callers : asking'[d] = IF d = c THEN r ELSE asking[d]
    BY <2>3 DEF BackendsInv
  <2>5. DOMAIN asking' = Callers /\ asking' = [d \in Callers |-> asking'[d]]
    BY <2>3 DEF BackendsInv
  <2> QED
    BY <2>1, <2>2, <2>3, <2>4, <2>5 DEF BackendsInv, K!OneTaskPerName, Fit
<1>2. ASSUME NEW c \in Callers, K!Spawn(c) PROVE BackendsInv'
  <2> DEFINE r == [asking[c] EXCEPT !.at = "child", !.child = "spawning", !.timer = TRUE]
  <2>1. Fit(r)
    BY ZenonT(60), <1>f DEF Fit, BackendShape
  <2>2. CASE asking' = [asking EXCEPT ![c] = r] /\ UNCHANGED answer
    BY <1>2, <2>1, <2>2, OneMoves DEF K!Spawn
  <2>3. CASE K!PathsRefused(c) \/ K!OcrUnavailable(c)
    BY <1>2, <2>3, Answering DEF K!Spawn, K!PathsRefused, K!OcrUnavailable
  <2> QED
    BY <1>2, <2>2, <2>3 DEF K!Spawn
<1>3. ASSUME NEW c \in Callers, K!ChildStarts(c) PROVE BackendsInv'
  <2>1. Fit([asking[c] EXCEPT !.child = "running"])
    BY <1>f DEF Fit, BackendShape
  <2>2. asking' = [asking EXCEPT ![c] = [asking[c] EXCEPT !.child = "running"]]
    BY <1>3 DEF K!ChildStarts
  <2> QED
    BY <1>3, <2>1, <2>2, OneMoves DEF K!ChildStarts
<1>4. ASSUME NEW c \in Callers, K!ChildExits(c) PROVE BackendsInv'
  <2>1. Fit([asking[c] EXCEPT !.child = "dead"])
    BY <1>f DEF Fit, BackendShape
  <2>2. asking' = [asking EXCEPT ![c] = [asking[c] EXCEPT !.child = "dead"]]
    BY <1>4 DEF K!ChildExits
  <2> QED
    BY <1>4, <2>1, <2>2, OneMoves DEF K!ChildExits
<1>5. ASSUME NEW c \in Callers, K!ErrorEvent(c) \/ K!FetchFails(c) \/ K!HealthChecks(c)
      PROVE  BackendsInv'
  BY <1>5, Answering DEF K!ErrorEvent, K!FetchFails, K!HealthChecks
<1>6. ASSUME NEW c \in Callers, K!CloseEvent(c) PROVE BackendsInv'
  BY <1>6, Answering DEF K!CloseEvent
<1>7. ASSUME NEW c \in Callers, K!TimerFires(c) PROVE BackendsInv'
  <2> DEFINE r == [asking[c] EXCEPT !.timer = FALSE, !.timedOut = TRUE,
                                    !.child = IF asking[c].child = "dead" THEN "dead" ELSE "killing"]
  <2>1. Fit(r)
    BY ZenonT(60), <1>f, <1>7 DEF Fit, BackendShape, K!TimerFires, K!At
  <2>2. asking' = [asking EXCEPT ![c] = r]
    BY <1>7 DEF K!TimerFires
  <2> QED
    BY <1>7, <2>1, <2>2, OneMoves DEF K!TimerFires
<1>8. ASSUME NEW c \in Callers, K!FetchAnswers(c) PROVE BackendsInv'
  <2>1. ASSUME NEW n \in 0..MaxBody,
               asking' = [asking EXCEPT ![c] = [asking[c] EXCEPT !.at = "body", !.body = n]],
               UNCHANGED answer
        PROVE  BackendsInv'
    <3>1. Fit([asking[c] EXCEPT !.at = "body", !.body = n])
      BY ZenonT(60), <1>f, <1>8 DEF Fit, BackendShape, K!FetchAnswers, K!At
    <3> QED
      BY <1>8, <2>1, <3>1, OneMoves DEF K!FetchAnswers
  <2>2. CASE K!Answers(c, K!Failed)
    BY <1>8, <2>2, Answering DEF K!FetchAnswers
  <2> QED
    BY <1>8, <2>1, <2>2 DEF K!FetchAnswers
<1>9. ASSUME NEW c \in Callers, K!ReadChunk(c) PROVE BackendsInv'
  <2> DEFINE got == asking[c].read
  <2>1. CASE \E value : K!Answers(c, value)
    BY <1>9, <2>1, Answering DEF K!ReadChunk
  <2>2. ASSUME NEW n \in 1..asking[c].body, ~(n > MaxBytes - got),
               asking' = [asking EXCEPT ![c] = [asking[c] EXCEPT !.body = asking[c].body - n, !.read = got + n]],
               UNCHANGED answer
        PROVE  BackendsInv'
    <3> DEFINE body == asking[c].body - n
               read == asking[c].read + n
    <3>0. asking[c].body \in 0..MaxBody /\ asking[c].read \in 0..MaxBytes /\ ~asking[c].timedOut
      BY <1>f, <1>9 DEF Fit, BackendShape, K!ReadChunk, K!At
    <3>2. body \in 0..MaxBody /\ read \in 0..MaxBytes
      BY <2>2, <3>0
    <3> HIDE DEF body, read
    <3>3. Fit([asking[c] EXCEPT !.body = body, !.read = read])
      BY ZenonT(60), <1>f, <3>0, <3>2 DEF Fit, BackendShape
    <3>1. Fit([asking[c] EXCEPT !.body = asking[c].body - n, !.read = got + n])
      BY <3>3 DEF body, read
    <3> QED
      BY <1>9, <2>2, <3>1, OneMoves DEF K!ReadChunk
  <2>3. got \in Nat /\ asking[c].body \in Nat
    BY <1>f DEF Fit, BackendShape
  <2> QED
    BY <1>9, <2>1, <2>2, <2>3 DEF K!ReadChunk
<1>10. ASSUME NEW c \in Callers, K!Schtasks(c) PROVE BackendsInv'
  <2>1. CASE UNCHANGED scheduled
    BY <1>10, <2>1, Answering DEF K!Schtasks
  <2>2. CASE scheduled' # scheduled
    <3>1. PICK value : K!Answers(c, value)
      BY <1>10 DEF K!Schtasks
    <3>2. /\ \A d \in Callers : Fit(asking[d])'
          /\ DOMAIN asking' = Callers /\ asking' = [d \in Callers |-> asking'[d]]
          /\ DOMAIN answer' = Callers
      BY <1>f, <3>1, IdleFits DEF BackendsInv, K!Answers, Fit
    <3>3. /\ scheduled' \subseteq K!Others(c) \union
                {[name |-> asking[c].name, command |-> K!Registered(asking[c].command)]}
          /\ asked' = asked
      BY <1>10, <2>2 DEF K!Schtasks
    <3>4. scheduled' = K!Others(c) \/ asking[c].kind = "create"
      BY <1>10, <2>2 DEF K!Schtasks
    <3>5. \A t \in scheduled' : t.name \in TaskNames /\ t.command \in K!Commands
      <4>1. asking[c].kind = "create" =>
              asking[c].name \in TaskNames /\ K!Registered(asking[c].command) \in K!Commands
        BY <1>f DEF Fit, BackendShape, K!Registered, K!Commands
      <4> QED
        BY <3>3, <3>4, <4>1 DEF BackendsInv, K!Others
    <3>6. K!OneTaskPerName'
      BY <3>3 DEF BackendsInv, K!OneTaskPerName, K!Others
    <3> QED
      BY <3>2, <3>3, <3>5, <3>6 DEF BackendsInv
  <2> QED
    BY <2>1, <2>2
<1>11. CASE UNCHANGED backendVars
  BY <1>11 DEF backendVars, BackendsInv, Fit, K!OneTaskPerName
<1> QED
  BY <1>1, <1>2, <1>3, <1>4, <1>5, <1>6, <1>7, <1>8, <1>9, <1>10, <1>11 DEF K!Next, K!Work

(* The invariant is strong enough.                                         *)
LEMMA BackendsHold == BackendsInv => K!TypeOK /\ K!OneTaskPerName
  BY DEF BackendsInv, K!TypeOK, Fit, BackendShape

(* Every answer is true when it is given. *)
LEMMA BackendsAnswerTrue ==
  BackendsInv /\ [K!Next]_backendVars => [\A c \in Callers : K!AnswerTrue(c)]_K!vars
<1> SUFFICES ASSUME BackendsInv, K!Next, NEW c \in Callers, asking[c].at # "idle", asking'[c].at = "idle"
             PROVE  /\ answer'[c].is = "ok" => ~asking[c].timedOut
                    /\ answer'[c].is = "timed_out" => asking[c].timedOut
                    /\ answer'[c].is = "fetched" =>
                          /\ answer'[c].truncated = (asking[c].read + asking[c].body > MaxBytes)
                          /\ answer'[c].truncated => answer'[c].length = MaxBytes
  BY DEF K!AnswerTrue, K!vars, backendVars, K!At
<1>f. Fit(asking[c]) /\ DOMAIN asking = Callers /\ DOMAIN answer = Callers
  BY DEF BackendsInv
<1>1. ASSUME NEW d \in Callers, NEW value, K!Answers(d, value) PROVE d = c /\ answer'[c] = value
  BY <1>f, <1>1 DEF K!Answers
<1>2. ASSUME NEW d \in Callers, NEW r, asking' = [asking EXCEPT ![d] = r], r.at # "idle" PROVE FALSE
  BY <1>f, <1>2
<1>3. ASSUME NEW d \in Callers, K!Answers(d, K!Failed) PROVE answer'[c].is = "failed"
  BY <1>1, <1>3 DEF K!Failed
<1>4. ASSUME NEW d \in Callers, K!Answers(d, K!Done), asking[d].at # "child"
      PROVE  answer'[c].is = "ok" /\ ~asking[c].timedOut
  <2>1. d = c /\ answer'[c] = K!Done
    BY <1>1, <1>4
  <2> QED
    BY <1>f, <1>4, <2>1 DEF K!Done, Fit
<1>5. ASSUME NEW d \in Callers, NEW kind, NEW name, NEW command, NEW confirmed,
             K!Execute(d, kind, name, command, confirmed)
      PROVE  FALSE
  <2>1. d # c
    BY <1>5 DEF K!Execute, K!At
  <2> QED
    BY <1>5, <1>f, <2>1 DEF K!Execute
<1>s. asking[c] \in BackendShape
  BY <1>f DEF Fit
<1>6. ASSUME NEW d \in Callers, K!ChildStarts(d) \/ K!ChildExits(d) \/ K!TimerFires(d) PROVE FALSE
  <2>1. d = c
    BY <1>f, <1>6 DEF K!ChildStarts, K!ChildExits, K!TimerFires
  <2> QED
    BY ZenonT(60), <1>f, <1>s, <1>6, <2>1 DEF K!ChildStarts, K!ChildExits, K!TimerFires, BackendShape
<1>7. ASSUME NEW d \in Callers, K!Spawn(d)
      PROVE  (answer'[c].is = "ok" /\ ~asking[c].timedOut) \/ answer'[c].is = "failed"
  <2>1. asking[d].at # "child"
    BY <1>7 DEF K!Spawn, K!At
  <2>2. ~ (asking' = [asking EXCEPT ![d] = [@ EXCEPT !.at = "child", !.child = "spawning", !.timer = TRUE]])
    BY <1>f, <1>s DEF BackendShape
  <2> QED
    BY <1>3, <1>4, <1>7, <2>1, <2>2 DEF K!Spawn, K!PathsRefused, K!OcrUnavailable
<1>8. ASSUME NEW d \in Callers, K!ErrorEvent(d) \/ K!FetchFails(d) PROVE answer'[c].is = "failed"
  BY <1>3, <1>8 DEF K!ErrorEvent, K!FetchFails
<1>9. ASSUME NEW d \in Callers, K!Schtasks(d) \/ K!HealthChecks(d)
      PROVE  (answer'[c].is = "ok" /\ ~asking[c].timedOut) \/ answer'[c].is = "failed"
  <2>1. asking[d].at # "child" /\ (K!Answers(d, K!Done) \/ K!Answers(d, K!Failed))
    BY <1>9 DEF K!Schtasks, K!HealthChecks, K!At
  <2> QED
    BY <1>3, <1>4, <2>1
<1>10. ASSUME NEW d \in Callers, K!CloseEvent(d)
       PROVE  IF asking[c].timedOut THEN answer'[c].is = "timed_out" ELSE answer'[c].is \in {"ok", "failed"}
  <2>1. CASE asking[d].timedOut
    <3>1. K!Answers(d, K!TimedOut)
      BY <1>10, <2>1 DEF K!CloseEvent
    <3>2. d = c /\ answer'[c] = K!TimedOut
      BY <1>1, <3>1
    <3> QED
      BY <2>1, <3>2 DEF K!TimedOut
  <2>2. CASE ~asking[d].timedOut
    <3>1. PICK value \in {K!Done, K!Failed} : K!Answers(d, value)
      BY <1>10, <2>2 DEF K!CloseEvent
    <3>2. d = c /\ answer'[c] = value
      BY <1>1, <3>1
    <3> QED
      BY <2>2, <3>2 DEF K!Done, K!Failed
  <2> QED
    BY <2>1, <2>2
<1>11. ASSUME NEW d \in Callers, K!FetchAnswers(d) PROVE answer'[c].is = "failed"
  <2>1. ASSUME NEW n, asking' = [asking EXCEPT ![d] = [@ EXCEPT !.at = "body", !.body = n]] PROVE FALSE
    BY <1>f, <1>s, <2>1 DEF BackendShape
  <2> QED
    BY <1>3, <1>11, <2>1 DEF K!FetchAnswers
<1>12. ASSUME NEW d \in Callers, K!ReadChunk(d)
       PROVE  /\ answer'[c].is = "fetched"
              /\ answer'[c].truncated = (asking[c].read + asking[c].body > MaxBytes)
              /\ answer'[c].truncated => answer'[c].length = MaxBytes
  <2>0. asking[c].body \in Nat /\ asking[c].read \in 0..MaxBytes
    BY <1>s, ServicesAssumption DEF BackendShape
  <2>1. CASE asking[d].body = 0 /\ K!Answers(d, K!Fetched(asking[d].read, FALSE))
    <3>1. d = c /\ answer'[c] = K!Fetched(asking[c].read, FALSE)
      BY <1>1, <2>1
    <3>2. asking[c].body = 0
      BY <2>1, <3>1
    <3>3. (asking[c].read + asking[c].body > MaxBytes) = FALSE
      BY <2>0, <3>2, ServicesAssumption
    <3>4. answer'[c].is = "fetched" /\ answer'[c].truncated = FALSE
      BY <3>1 DEF K!Fetched
    <3> QED
      BY <3>3, <3>4
  <2>2. ASSUME NEW n \in 1..asking[d].body, n > MaxBytes - asking[d].read, K!Answers(d, K!Fetched(MaxBytes, TRUE))
        PROVE  /\ answer'[c].is = "fetched" /\ answer'[c].truncated /\ answer'[c].length = MaxBytes
               /\ asking[c].read + asking[c].body > MaxBytes
    <3>1. d = c /\ answer'[c] = K!Fetched(MaxBytes, TRUE)
      BY <1>1, <2>2
    <3>2. asking[c].read + asking[c].body > MaxBytes
      BY <2>0, <2>2, <3>1, ServicesAssumption
    <3> QED
      BY <3>1, <3>2 DEF K!Fetched
  <2>3. ASSUME NEW n, asking' = [asking EXCEPT ![d] = [asking[d] EXCEPT !.body = asking[d].body - n,
                                                                        !.read = asking[d].read + n]]
        PROVE  FALSE
    BY <1>f, <1>s, <2>3 DEF BackendShape
  <2>4. \/ asking[d].body = 0 /\ K!Answers(d, K!Fetched(asking[d].read, FALSE))
        \/ \E n \in 1..asking[d].body :
              \/ n > MaxBytes - asking[d].read /\ K!Answers(d, K!Fetched(MaxBytes, TRUE))
              \/ asking' = [asking EXCEPT ![d] = [asking[d] EXCEPT !.body = asking[d].body - n,
                                                                   !.read = asking[d].read + n]]
    BY <1>12 DEF K!ReadChunk
  <2>5. CASE \E n \in 1..asking[d].body :
               n > MaxBytes - asking[d].read /\ K!Answers(d, K!Fetched(MaxBytes, TRUE))
    <3>1. PICK n \in 1..asking[d].body :
             n > MaxBytes - asking[d].read /\ K!Answers(d, K!Fetched(MaxBytes, TRUE))
      BY <2>5
    <3>2. /\ answer'[c].is = "fetched" /\ answer'[c].truncated /\ answer'[c].length = MaxBytes
          /\ asking[c].read + asking[c].body > MaxBytes
      BY <2>2, <3>1
    <3>3. answer'[c] = K!Fetched(MaxBytes, TRUE)
      BY <1>1, <3>1
    <3>4. answer'[c].truncated = TRUE
      BY <3>3 DEF K!Fetched
    <3> QED
      BY <3>2, <3>4
  <2>6. ~ \E n \in 1..asking[d].body :
            asking' = [asking EXCEPT ![d] = [asking[d] EXCEPT !.body = asking[d].body - n,
                                                              !.read = asking[d].read + n]]
    BY <2>3
  <2> QED
    BY <2>1, <2>4, <2>5, <2>6
<1> QED
  BY <1>5, <1>6, <1>7, <1>8, <1>9, <1>10, <1>11, <1>12 DEF K!Next, K!Work

-----------------------------------------------------------------------------
(* MarkedActions: what was captured, and who acts on it.                   *)

TheCaller == CHOOSE c \in Callers : TRUE
Elements == UNION {M!Shown(s) : s \in Screens}
Marks == {m \in Seq(Elements) : Len(m) <= MaxMarks /\ \A i \in 1..Len(m) : m[i].enabled}
Observations == [id : Nat, workspace : Workspaces, marks : Marks, expires : Nat]
Targets == {M!Target(m) : m \in Elements}
Aims == [at : {"finding", "acting"}, mark : Nat, target : Targets, since : Nat, by : Workspaces, from : Observations,
         mutating : BOOLEAN, confirmed : BOOLEAN]

(* The target is that of a mark of a living observation of the workspace   *)
(* that asks, and is confirmed where it must be.                           *)
Aimed(r) ==
    /\ r \in Aims
    /\ r.mark \in 1..Len(r.from.marks) /\ r.target = M!Target(r.from.marks[r.mark])
    /\ r.from.workspace = r.by /\ r.since < r.from.expires
    /\ r.mutating => r.confirmed

(* What an action lands on bears what it looks for.                        *)
Hit(on, target) ==
    \/ target.name # "" /\ on.name = target.name
    \/ target.id # "" /\ on.id = target.id

Pictures == [at : {"capturing", "annotating"}, workspace : Workspaces, marks : Marks]
MarkingFits(r) ==
    \/ r = M!Idle
    \/ r \in [at : {"observing"}, workspace : Workspaces]
    \/ r \in Pictures
    \/ Aimed(r)

MarksInv ==
    /\ screen \in Screens
    /\ marking = [c \in {TheCaller} |-> marking[c]] /\ MarkingFits(marking[TheCaller])
    /\ observations \subseteq Observations /\ \A o \in observations : o.id \in 1..used
    /\ time \in 0..MaxTime /\ used \in 0..1 /\ acts \in 0..1
    /\ sent.is => Aimed(sent.call) /\ Hit(sent.on, sent.call.target)

(* The invariant is strong enough.                                         *)
LEMMA MarksHold == MarksInv => M!TypeOK /\ M!ActionsSound
<1> SUFFICES ASSUME MarksInv PROVE M!TypeOK /\ M!ActionsSound
  OBVIOUS
<1>1. \A o \in observations : o.id \in 1..used /\ o.workspace \in Workspaces /\ Len(o.marks) <= MaxMarks
  BY DEF MarksInv, Observations, Marks
<1>2. marking[TheCaller].at \in {"idle", "observing", "capturing", "annotating", "finding", "acting"}
  BY DEF MarksInv, MarkingFits, M!Idle, Pictures, Aimed, Aims
<1>3. M!TypeOK
  BY <1>1, <1>2 DEF MarksInv, M!TypeOK, TheCaller
<1>4. ASSUME sent.is PROVE M!ActionsSound
  <2> DEFINE a == sent.call
             m == a.from.marks[a.mark]
  <2>1. Aimed(a) /\ Hit(sent.on, a.target)
    BY <1>4 DEF MarksInv
  <2>2. a.from.marks \in Marks
    BY <2>1 DEF Aimed, Aims, Observations
  <2>3. m.enabled
    BY <2>1, <2>2 DEF Aimed, Marks
  <2>4. a.target = M!Target(m)
    BY <2>1 DEF Aimed
  <2> HIDE DEF m
  <2>7. a.target.name = m.name /\ a.target.id = m.id
    BY <2>4 DEF M!Target
  <2>5. a.from.workspace = a.by /\ a.since < a.from.expires /\ (a.mutating => a.confirmed)
    BY <2>1 DEF Aimed
  <2>6. (m.name # "" /\ sent.on.name = m.name) \/ (m.id # "" /\ sent.on.id = m.id)
    BY <2>1, <2>7 DEF Hit
  <2> QED
    BY <2>3, <2>5, <2>6, Zenon DEF M!ActionsSound, m
<1>5. ASSUME ~sent.is PROVE M!ActionsSound
  BY <1>5 DEF M!ActionsSound
<1> QED
  BY <1>3, <1>4, <1>5

(* Nothing was observed yet.                                               *)
LEMMA MarksStart == M!Init => MarksInv
  BY ServicesAssumption DEF M!Init, MarksInv, MarkingFits, M!Neither, TheCaller

(* What is selected for marks can be acted on, and is not too much.        *)
LEMMA ExtractedMarks ==
  ASSUME NEW list \in Screens
  PROVE  M!ExtractMarks(list) \in Marks
<1> DEFINE S == {e \in M!Shown(list) : e.enabled}
           u == M!Selected(list, S)
           n == IF Len(u) < MaxMarks THEN Len(u) ELSE MaxMarks
<1>1. list \in Seq(Elements)
  <2>1. list \in Seq(M!Shown(list))
    BY ScreensAssumption DEF M!Shown
  <2>2. Len(list) \in Nat /\ DOMAIN list = 1..Len(list) /\ \A i \in 1..Len(list) : list[i] \in M!Shown(list)
    BY <2>1
  <2>3. list = [i \in 1..Len(list) |-> list[i]]
    BY <2>1
  <2>4. M!Shown(list) \subseteq Elements
    BY DEF Elements
  <2>5. list \in [1..Len(list) -> Elements]
    BY <2>2, <2>3, <2>4
  <2> QED
    BY <2>2, <2>5
<1>2. u = Selected(list, S)
  BY DEF M!Selected, Selected
<1>3. u \in Seq(Elements) /\ \E e : Order(e, list, u, S)
  BY <1>1, <1>2, SelectedOrder
<1>4. \A k \in 1..Len(u) : u[k] \in S
  BY <1>3 DEF Order
<1>5. M!ExtractMarks(list) = SubSeq(u, 1, n)
  BY DEF M!ExtractMarks
<1> HIDE DEF u
<1>6. n \in 0..Len(u) /\ n <= MaxMarks
  BY <1>3, ServicesAssumption
<1> HIDE DEF n
<1>7. SubSeq(u, 1, n) \in Seq(Elements) /\ Len(SubSeq(u, 1, n)) = n /\ \A i \in 1..n : SubSeq(u, 1, n)[i] = u[i]
  <2>1. \A i \in 1..n : u[i] \in Elements
    BY <1>3, <1>6
  <2>2. /\ SubSeq(u, 1, n) \in Seq(Elements) /\ Len(SubSeq(u, 1, n)) = IF 1 <= n THEN n - 1 + 1 ELSE 0
        /\ \A i \in 1..(n - 1 + 1) : SubSeq(u, 1, n)[i] = u[1 + i - 1]
    BY <1>6, <2>1, SubSeqProperties
  <2>3. n \in Nat
    BY <1>3, <1>6
  <2> QED
    BY <2>2, <2>3
<1>8. \A i \in 1..n : i \in 1..Len(u) /\ u[i].enabled
  BY <1>3, <1>4, <1>6
<1> DEFINE v == SubSeq(u, 1, n)
<1>9. v \in Seq(Elements) /\ Len(v) <= MaxMarks /\ \A i \in 1..Len(v) : v[i].enabled
  BY <1>6, <1>7, <1>8
<1> HIDE DEF v
<1>10. v \in Marks
  BY <1>9 DEF Marks
<1> QED
  BY <1>5, <1>10 DEF v

(* The request of the one caller goes on.                                  *)
LEMMA OneMarks ==
  ASSUME MarksInv, NEW r, MarkingFits(r), marking' = [marking EXCEPT ![TheCaller] = r],
         UNCHANGED <<screen, time>>, used' \in 0..1, acts' \in 0..1,
         observations' \subseteq Observations, \A o \in observations' : o.id \in 1..used',
         sent' = sent \/ (Aimed(sent'.call) /\ Hit(sent'.on, sent'.call.target))
  PROVE  MarksInv'
<1>1. marking' = [c \in {TheCaller} |-> marking'[c]] /\ marking'[TheCaller] = r
  BY DEF MarksInv
<1>2. MarkingFits(marking[TheCaller])'
  BY <1>1 DEF MarkingFits, Aimed
<1>3. sent'.is => Aimed(sent'.call) /\ Hit(sent'.on, sent'.call.target)
  BY DEF MarksInv
<1> QED
  BY <1>1, <1>2, <1>3 DEF MarksInv, Aimed

(* Every step of the marked screen keeps the invariant.                    *)
LEMMA MarksKept == MarksInv /\ [M!Next]_marksVars => MarksInv'
<1> SUFFICES ASSUME MarksInv, [M!Next]_marksVars PROVE MarksInv'
  OBVIOUS
<1> DEFINE c == TheCaller
           r == marking[c]
<1>f. MarkingFits(r)
  BY DEF MarksInv
<1>i. MarkingFits(M!Idle)
  BY DEF MarkingFits
<1>n. used \in 0..1 /\ acts \in 0..1 /\ observations \subseteq Observations /\ \A o \in observations : o.id \in 1..used
  BY DEF MarksInv
<1>t. time \in Nat
  BY ServicesAssumption DEF MarksInv
<1>p. ASSUME r.at \in {"capturing", "annotating"} PROVE r \in Pictures
  BY <1>f, <1>p DEF MarkingFits, M!Idle, Aimed, Aims
<1>q. ASSUME r.at \in {"finding", "acting"} PROVE Aimed(r)
  BY <1>f, <1>q DEF MarkingFits, M!Idle, Pictures
<1>1. ASSUME NEW w \in Workspaces, M!Capture(c, w) PROVE MarksInv'
  <2>1. MarkingFits([at |-> "observing", workspace |-> w])
    BY DEF MarkingFits
  <2>2. observations' \subseteq observations /\ UNCHANGED <<screen, time, used, acts, sent>>
        /\ marking' = [marking EXCEPT ![c] = [at |-> "observing", workspace |-> w]]
    BY <1>1 DEF M!Capture
  <2> QED
    BY <1>n, <2>1, <2>2, OneMarks
<1>2. ASSUME NEW w \in Workspaces, NEW o \in observations, NEW mark \in 1..MaxMarks, NEW mutating \in BOOLEAN,
             NEW confirmed \in BOOLEAN, M!Act(c, w, o, mark, mutating, confirmed)
      PROVE  MarksInv'
  <2> DEFINE new == [at |-> "finding", mark |-> mark, target |-> M!Target(o.marks[mark]), since |-> time,
                     by |-> w, from |-> o, mutating |-> mutating, confirmed |-> confirmed]
  <2>1. observations' \subseteq observations /\ acts' \in 0..1 /\ UNCHANGED <<screen, time, used, sent>>
    BY <1>2, <1>n DEF M!Act
  <2>2. ASSUME M!Live(o), o.workspace = w, mark \in DOMAIN o.marks, mutating => confirmed PROVE MarkingFits(new)
    <3>1. o \in Observations /\ o.marks \in Marks
      BY <1>n DEF Observations
    <3>2. o.marks \in Seq(Elements) /\ mark \in 1..Len(o.marks)
      BY <2>2, <3>1 DEF Marks
    <3>3. M!Target(o.marks[mark]) \in Targets /\ mark \in Nat
      <4>1. o.marks[mark] \in Elements
        BY <3>2
      <4> QED
        BY <3>2, <4>1 DEF Targets
    <3>4. new \in Aims
      BY <1>t, <3>1, <3>3 DEF Aims
    <3>5. new.target = M!Target(new.from.marks[new.mark]) /\ new.from.workspace = new.by /\ new.since < new.from.expires
      BY <2>2 DEF M!Live
    <3>6. Aimed(new)
      BY <2>2, <3>2, <3>4, <3>5 DEF Aimed
    <3> QED
      BY <3>6 DEF MarkingFits
  <2>3. CASE marking' = [marking EXCEPT ![c] = new] /\ MarkingFits(new)
    <3> HIDE DEF new
    <3> QED
      BY <1>n, <2>1, <2>3, OneMarks
  <2>4. CASE marking' = marking
    <3>1. marking' = [marking EXCEPT ![c] = r]
      BY <2>4 DEF MarksInv
    <3> QED
      BY <1>f, <1>n, <2>1, <3>1, OneMarks
  <2> QED
    BY <1>2, <2>2, <2>3, <2>4 DEF M!Act
<1>3. ASSUME M!Observed(c) PROVE MarksInv'
  <2> DEFINE new == [at |-> "capturing", workspace |-> r.workspace, marks |-> M!ExtractMarks(screen)]
  <2>1. r.at = "observing" /\ UNCHANGED <<screen, observations, time, used, acts, sent>>
        /\ marking' = [marking EXCEPT ![c] = new]
    BY <1>3 DEF M!Observed
  <2>2. r.workspace \in Workspaces
    BY <1>f, <2>1 DEF MarkingFits, M!Idle, Pictures, Aimed, Aims
  <2>3. M!ExtractMarks(screen) \in Marks
    BY ExtractedMarks DEF MarksInv
  <2>4. new \in Pictures
    BY <2>2, <2>3 DEF Pictures
  <2>5. MarkingFits(new)
    BY <2>4 DEF MarkingFits
  <2> HIDE DEF new
  <2> QED
    BY <1>n, <2>1, <2>5, OneMarks
<1>4. ASSUME M!PictureTaken(c) PROVE MarksInv'
  <2> DEFINE new == [r EXCEPT !.at = "annotating"]
  <2>1. r.at = "capturing" /\ UNCHANGED <<screen, observations, time, used, acts, sent>>
        /\ marking' = [marking EXCEPT ![c] = new]
    BY <1>4 DEF M!PictureTaken
  <2>2. new \in Pictures
    BY <1>p, <2>1 DEF Pictures
  <2>3. MarkingFits(new)
    BY <2>2 DEF MarkingFits
  <2> HIDE DEF new
  <2> QED
    BY <1>n, <2>1, <2>3, OneMarks
<1>5. ASSUME M!Annotated(c) PROVE MarksInv'
  <2> DEFINE o == [id |-> used + 1, workspace |-> r.workspace, marks |-> r.marks, expires |-> time + Ttl]
  <2>1. r.at = "annotating" /\ used < 1 /\ used' = used + 1 /\ observations' = observations \union {o}
        /\ UNCHANGED <<screen, time, acts, sent>> /\ marking' = [marking EXCEPT ![c] = M!Idle]
    BY <1>5 DEF M!Annotated, M!Ends
  <2>2. o \in Observations /\ o.id = used + 1
    BY <1>n, <1>p, <1>t, <2>1, ServicesAssumption DEF Pictures, Observations
  <2> HIDE DEF o
  <2>3. observations' \subseteq Observations /\ used' \in 0..1 /\ \A p \in observations' : p.id \in 1..used'
    BY <1>n, <2>1, <2>2
  <2> QED
    BY <1>n, <1>i, <2>1, <2>3, OneMarks
<1>6. ASSUME M!Found(c) PROVE MarksInv'
  <2> DEFINE new == [r EXCEPT !.at = "acting"]
  <2>1. r.at = "finding" /\ UNCHANGED <<screen, observations, time, used, acts, sent>>
    BY <1>6 DEF M!Found
  <2>2. CASE marking' = [marking EXCEPT ![c] = new]
    <3>1. Aimed(r)
      BY <1>q, <2>1
    <3>2. /\ new \in Aims /\ new.from = r.from /\ new.target = r.target /\ new.mark = r.mark /\ new.by = r.by /\ new.since = r.since
          /\ new.mutating = r.mutating /\ new.confirmed = r.confirmed
      BY <3>1 DEF Aimed, Aims
    <3> HIDE DEF new
    <3>3. Aimed(new)
      BY <3>1, <3>2 DEF Aimed
    <3>4. MarkingFits(new)
      BY <3>3 DEF MarkingFits
    <3> QED
      BY <1>n, <2>1, <2>2, <3>4, OneMarks
  <2>3. CASE M!Ends(c)
    BY <1>n, <1>i, <2>1, <2>3, OneMarks DEF M!Ends
  <2> QED
    BY <1>6, <2>2, <2>3 DEF M!Found
<1>7. ASSUME M!Acted(c) PROVE MarksInv'
  <2> DEFINE B1 == M!Find(r.target)
             i1 == CHOOSE i \in B1 : \A j \in B1 : i <= j
             new == [is |-> TRUE, on |-> screen[i1], call |-> r]
  <2>1. r.at = "acting" /\ UNCHANGED <<screen, observations, time, used, acts>>
        /\ marking' = [marking EXCEPT ![c] = M!Idle]
    BY <1>7 DEF M!Acted, M!Ends
  <2>2. CASE B1 = {}
    <3>1. sent' = sent
      BY <1>7, <2>2 DEF M!Acted
    <3> QED
      BY <1>n, <1>i, <2>1, <3>1, OneMarks
  <2>3. CASE B1 # {}
    <3>1. sent' = new
      BY <1>7, <2>3 DEF M!Acted
    <3>2. B1 \subseteq 1..Len(screen)
      <4>1. screen \in Seq(M!Shown(screen))
        BY ScreensAssumption DEF M!Shown, MarksInv
      <4>2. DOMAIN screen = 1..Len(screen)
        BY <4>1
      <4> QED
        BY <4>2 DEF M!Find, M!Named, M!Identified, M!Inside
    <3>3. B1 \in SUBSET Nat
      BY <3>2
    <3>4. i1 \in B1
      BY <2>3, <3>3, LeastNat
    <3>5. Hit(screen[i1], r.target)
      <4> HIDE DEF i1
      <4>1. i1 \in M!Named(r.target.name) \/ i1 \in M!Identified(r.target.id)
        BY <3>4 DEF M!Find
      <4> QED
        BY <4>1 DEF M!Named, M!Identified, Hit
    <3>6. Aimed(r)
      BY <1>q, <2>1
    <3> HIDE DEF i1, B1
    <3>7. sent'.call = r /\ sent'.on = screen[i1]
      BY <3>1
    <3>8. Aimed(sent'.call) /\ Hit(sent'.on, sent'.call.target)
      BY <3>5, <3>6, <3>7
    <3> HIDE DEF new
    <3> QED
      BY <1>n, <1>i, <2>1, <3>8, OneMarks
  <2> QED
    BY <2>2, <2>3
<1>8. ASSUME M!CapabilityFails(c) PROVE MarksInv'
  BY <1>8, <1>n, <1>i, OneMarks DEF M!CapabilityFails, M!Ends
<1>9. ASSUME M!ScreenChanges \/ M!Tick PROVE MarksInv'
  <2>1. screen' \in Screens /\ time' \in 0..MaxTime /\ UNCHANGED <<observations, marking, used, acts, sent>>
    BY <1>9, <1>t, ServicesAssumption DEF M!ScreenChanges, M!Tick, MarksInv
  <2> QED
    BY <2>1 DEF MarksInv, MarkingFits, Aimed
<1>10. CASE UNCHANGED marksVars
  BY <1>10 DEF marksVars, MarksInv, MarkingFits, Aimed
<1> QED
  BY <1>1, <1>2, <1>3, <1>4, <1>5, <1>6, <1>7, <1>8, <1>9, <1>10 DEF M!Next, M!Work, TheCaller

-----------------------------------------------------------------------------
(* ToolCalls: the calls of the tools and what is recorded of them.         *)

ActivitySinks == DOMAIN <<"audit", "file">>
Allowed(r, u) ==
    /\ r.valid /\ C!Profiles[u][C!Catalog[r.name].level] = "ALLOW"
    /\ C!Destructive(r.name, r.input) \/ C!Claimed(r.name, r.input) => r.confirmed

(* A call, its heartbeat and the profile it runs under.                    *)
CallFits(h, b, u) ==
    /\ h \in [at : C!Stages, request : {h.request}, parent : Callers \union {Nothing}, code : {h.code}]
    /\ h.code = "REFUSED" => h.at \in {"writing", "written", "gone"}
    /\ b \in {"off", "first", "interval"} /\ (h.at \in {"idle", "writing", "written", "gone"} => b = "off")
    /\ u \in Settings \union {Nothing} /\ (u # Nothing => h.at \in {"executing", "ended"} /\ Allowed(h.request, u))

(* What its sinks hold, and which records they could not take.             *)
Unheard(h) == h.at = "idle" \/ h.code = "REFUSED"
Open(h) == h.at \in {"recorded", "executing"}
Word(f, i, phase) == IF <<i, phase>> \in f THEN <<>> ELSE <<phase>>
Reported(h, held, f) ==
    /\ held = [i \in ActivitySinks |-> held[i]]
    /\ Unheard(h) => f = {}
    /\ Open(h) => \A i \in ActivitySinks : <<i, "completed">> \notin f
    /\ \A i \in ActivitySinks :
          held[i] = IF Unheard(h) THEN <<>>
                    ELSE IF Open(h) THEN Word(f, i, "started")
                    ELSE Word(f, i, "started") \o Word(f, i, "completed")

ToolsInv ==
    /\ profile \in Settings
    /\ handled = [c \in Callers |-> handled[c]] /\ log = [c \in Callers |-> log[c]]
    /\ beat = [c \in Callers |-> beat[c]] /\ failed = [c \in Callers |-> failed[c]]
    /\ under = [c \in Callers |-> under[c]]
    /\ \A c \in Callers :
          /\ CallFits(handled[c], beat[c], under[c]) /\ Reported(handled[c], log[c], failed[c])
          /\ c \in inflight <=> Open(handled[c])

(* The invariant is strong enough.                                         *)
LEMMA ToolsHold == ToolsInv => C!CallsTypeOK /\ C!Sanctioned /\ C!Accounted /\ C!Quieted
<1> SUFFICES ASSUME ToolsInv PROVE C!CallsTypeOK /\ C!Sanctioned /\ C!Accounted /\ C!Quieted
  OBVIOUS
<1>1. C!CallsTypeOK
  <2>1. Settings \subseteq DOMAIN C!Profiles
    BY ServicesAssumption DEF C!Profiles
  <2> QED
    BY <2>1 DEF C!CallsTypeOK, ToolsInv, CallFits
<1>2. C!Sanctioned
  BY DEF C!Sanctioned, ToolsInv, CallFits, Allowed
<1>3. C!Accounted
  <2> SUFFICES ASSUME NEW c \in Callers
               PROVE  /\ c \in inflight <=> handled[c].at \in {"recorded", "executing"}
                      /\ \A i \in ActivitySinks :
                            log[c][i] = C!Heard(c, i, "started") \o C!Heard(c, i, "completed")
    BY DEF C!Accounted, ActivitySinks
  <2> SUFFICES ASSUME NEW i \in ActivitySinks
               PROVE  /\ c \in inflight <=> handled[c].at \in {"recorded", "executing"}
                      /\ log[c][i] = C!Heard(c, i, "started") \o C!Heard(c, i, "completed")
    <3>1. 1 \in ActivitySinks
      BY DEF ActivitySinks
    <3> QED
      BY <3>1
  <2>1. c \in inflight <=> Open(handled[c])
    BY DEF ToolsInv
  <2>2. Reported(handled[c], log[c], failed[c])
    BY DEF ToolsInv
  <2>3. \A w \in {<<>>, <<"started">>} : w \o <<>> = w
    OBVIOUS
  <2>4. CASE Unheard(handled[c])
    <3>0. handled[c].at \notin {"recorded", "executing"}
      BY <2>4 DEF Unheard, ToolsInv, CallFits
    <3>1. C!Due(c) = {}
      BY <2>4, <3>0 DEF C!Due, Unheard
    <3>2. C!Heard(c, i, "started") = <<>> /\ C!Heard(c, i, "completed") = <<>>
      BY <3>1 DEF C!Heard
    <3>3. log[c][i] = <<>>
      BY <2>2, <2>4 DEF Reported
    <3>4. log[c][i] = C!Heard(c, i, "started") \o C!Heard(c, i, "completed")
      BY <2>3, <3>2, <3>3
    <3> QED
      BY <2>1, <3>4 DEF Open
  <2>5. CASE ~Unheard(handled[c]) /\ Open(handled[c])
    <3>1. C!Due(c) = {"started"}
      BY <2>5 DEF C!Due, Unheard, Open
    <3>2. C!Heard(c, i, "started") = Word(failed[c], i, "started") /\ C!Heard(c, i, "completed") = <<>>
      BY <3>1 DEF C!Heard, Word
    <3>3. log[c][i] = Word(failed[c], i, "started") /\ Word(failed[c], i, "started") \in {<<>>, <<"started">>}
      BY <2>2, <2>5 DEF Reported, Word
    <3> QED
      BY <2>1, <2>3, <3>2, <3>3 DEF Open
  <2>6. CASE ~Unheard(handled[c]) /\ ~Open(handled[c])
    <3>1. C!Due(c) = {"started", "completed"}
      BY <2>6 DEF C!Due, Unheard, Open
    <3>2. C!Heard(c, i, "started") = Word(failed[c], i, "started")
          /\ C!Heard(c, i, "completed") = Word(failed[c], i, "completed")
      BY <3>1 DEF C!Heard, Word
    <3>3. log[c][i] = Word(failed[c], i, "started") \o Word(failed[c], i, "completed")
      BY <2>2, <2>6 DEF Reported
    <3> QED
      BY <2>1, <3>2, <3>3 DEF Open
  <2> QED
    BY <2>4, <2>5, <2>6
<1>4. C!Quieted
  BY DEF C!Quieted, ToolsInv, CallFits
<1> QED
  BY <1>1, <1>2, <1>3, <1>4

(* No call has come in.                                                    *)
LEMMA ToolsStart == C!CallsInit => ToolsInv
<1> SUFFICES ASSUME C!CallsInit PROVE ToolsInv
  OBVIOUS
<1>1. CallFits(C!Idle, "off", Nothing)
  BY ServicesAssumption DEF CallFits, C!Idle, C!Stages
<1>2. Reported(C!Idle, [i \in ActivitySinks |-> <<>>], {})
  BY DEF Reported, C!Idle, Unheard, Open
<1>3. ~Open(C!Idle)
  BY DEF Open, C!Idle
<1> QED
  BY <1>1, <1>2, <1>3 DEF C!CallsInit, ToolsInv, ActivitySinks

(* One call goes on, the profile and the other calls stay as they are.     *)
LEMMA OneCallMoves ==
  ASSUME ToolsInv, NEW c \in Callers, profile' = profile,
         NEW h, handled' = [handled EXCEPT ![c] = h], NEW b, beat' = [beat EXCEPT ![c] = b],
         NEW u, under' = [under EXCEPT ![c] = u], NEW l, log' = [log EXCEPT ![c] = l],
         NEW f, failed' = [failed EXCEPT ![c] = f], CallFits(h, b, u), Reported(h, l, f),
         inflight' = IF Open(h) THEN inflight \union {c} ELSE inflight \ {c}
  PROVE  ToolsInv'
<1>1. \A d \in Callers : d # c =>
         /\ handled'[d] = handled[d] /\ beat'[d] = beat[d] /\ under'[d] = under[d]
         /\ log'[d] = log[d] /\ failed'[d] = failed[d] /\ (d \in inflight' <=> d \in inflight)
  BY DEF ToolsInv
<1>2. handled'[c] = h /\ beat'[c] = b /\ under'[c] = u /\ log'[c] = l /\ failed'[c] = f
      /\ (c \in inflight' <=> Open(h))
  BY DEF ToolsInv
<1>3. \A d \in Callers : /\ CallFits(handled'[d], beat'[d], under'[d])
                         /\ Reported(handled'[d], log'[d], failed'[d])
                         /\ d \in inflight' <=> Open(handled'[d])
  BY <1>1, <1>2 DEF ToolsInv
<1>4. /\ handled' = [d \in Callers |-> handled'[d]] /\ log' = [d \in Callers |-> log'[d]]
      /\ beat' = [d \in Callers |-> beat'[d]] /\ failed' = [d \in Callers |-> failed'[d]]
      /\ under' = [d \in Callers |-> under'[d]]
  BY DEF ToolsInv
<1> QED
  BY <1>3, <1>4 DEF ToolsInv

(* What a record of a phase does to what the sinks hold.                   *)
LEMMA BeginsReported ==
  ASSUME NEW h, NEW held, NEW f, Reported(h, held, f), Unheard(h), NEW failing, NEW g, Open(g), ~Unheard(g)
  PROVE  Reported(g, C!Recorded(held, "started", failing), f \union {<<i, "started">> : i \in failing})
<1> DEFINE l == C!Recorded(held, "started", failing)
           k == f \union {<<i, "started">> : i \in failing}
<1>1. f = {} /\ \A i \in ActivitySinks : held[i] = <<>>
  BY DEF Reported
<1>2. ASSUME NEW i \in ActivitySinks
      PROVE  /\ l[i] = IF i \in failing THEN <<>> ELSE <<"started">>
             /\ <<i, "started">> \in k <=> i \in failing
             /\ <<i, "completed">> \notin k
  <2>1. Append(<<>>, "started") = <<"started">>
    OBVIOUS
  <2> QED
    BY <1>1, <2>1 DEF C!Recorded, ActivitySinks
<1>3. l = [i \in ActivitySinks |-> l[i]]
  BY DEF C!Recorded, ActivitySinks
<1> HIDE DEF l, k
<1>4. Reported(g, l, k)
  BY <1>2, <1>3 DEF Reported, Word
<1> QED
  BY <1>4 DEF l, k

(* The end of a call is recorded behind its begin.                         *)
LEMMA EndsReported ==
  ASSUME NEW h, NEW held, NEW f, Reported(h, held, f), ~Unheard(h), Open(h), NEW failing,
         NEW g, ~Open(g), ~Unheard(g)
  PROVE  Reported(g, C!Recorded(held, "completed", failing), f \union {<<i, "completed">> : i \in failing})
<1> DEFINE l == C!Recorded(held, "completed", failing)
           k == f \union {<<i, "completed">> : i \in failing}
<1>1. \A i \in ActivitySinks : held[i] = Word(f, i, "started") /\ <<i, "completed">> \notin f
  BY DEF Reported
<1>2. ASSUME NEW i \in ActivitySinks
      PROVE  /\ l[i] = IF i \in failing THEN held[i] ELSE Append(held[i], "completed")
             /\ <<i, "started">> \in k <=> <<i, "started">> \in f
             /\ <<i, "completed">> \in k <=> i \in failing
  BY <1>1 DEF C!Recorded, ActivitySinks
<1>3. l = [i \in ActivitySinks |-> l[i]]
  BY DEF C!Recorded, ActivitySinks
<1> HIDE DEF l, k
<1>4. ASSUME NEW i \in ActivitySinks PROVE l[i] = Word(k, i, "started") \o Word(k, i, "completed")
  <2>1. \A w \in {<<>>, <<"started">>} : w \o <<>> = w /\ Append(w, "completed") = w \o <<"completed">>
    OBVIOUS
  <2>2. held[i] = Word(k, i, "started") /\ held[i] \in {<<>>, <<"started">>}
    BY <1>1, <1>2 DEF Word
  <2>3. l[i] = IF i \in failing THEN held[i] \o <<>> ELSE held[i] \o <<"completed">>
    BY <1>2, <2>1, <2>2
  <2> QED
    BY <1>2, <2>2, <2>3 DEF Word
<1>5. Reported(g, l, k)
  BY <1>3, <1>4 DEF Reported
<1> QED
  BY <1>5 DEF l, k

Levels == {"READ", "WRITE", "EXECUTE", "DANGEROUS"}

(* The catalog, by its families: what is in a family is a tool, no two     *)
(* tools share a name, and every name that is listed names one.            *)
IsTool(t) ==
    /\ t = [name |-> t.name, level |-> t.level, readOnly |-> t.readOnly, hint |-> t.hint]
    /\ t.level \in Levels /\ t.readOnly \in BOOLEAN /\ t.hint \in BOOLEAN
AllAre(F) == \A t \in F : IsTool(t)
Alike(F) == \A t, u \in F : t.name = u.name =>
    t.level = u.level /\ (t.readOnly => u.readOnly) /\ (t.hint => u.hint)
OnceIn(F) == \A t, u \in F : t.name = u.name => t = u
Apart(F, G) == \A t \in F, u \in G : t.name # u.name

(* Whatever is put into a family is a tool.                                *)
LEMMA ToolsAreTools ==
  /\ \A names : \A level \in Levels : \A readOnly, hint \in BOOLEAN : AllAre(C!Tools(names, level, readOnly, hint))
  /\ \A names : AllAre(C!Reads(names)) /\ AllAre(C!Writes(names)) /\ AllAre(C!Runs(names)) /\ AllAre(C!Dangers(names))
  /\ \A F, G : AllAre(F) /\ AllAre(G) => AllAre(F \union G)
<1>1. ASSUME NEW names, NEW level \in Levels, NEW r \in BOOLEAN, NEW h \in BOOLEAN,
             NEW t \in C!Tools(names, level, r, h)
      PROVE  IsTool(t)
  <2>1. PICK n \in names : t = [name |-> n, level |-> level, readOnly |-> r, hint |-> h]
    BY DEF C!Tools
  <2> QED
    BY <2>1 DEF IsTool
<1>2. \A names : \A level \in Levels : \A r, h \in BOOLEAN : AllAre(C!Tools(names, level, r, h))
  BY <1>1 DEF AllAre
<1>3. \A names : AllAre(C!Reads(names)) /\ AllAre(C!Writes(names)) /\ AllAre(C!Runs(names)) /\ AllAre(C!Dangers(names))
  BY <1>2 DEF C!Reads, C!Writes, C!Runs, C!Dangers, Levels
<1>4. \A F, G : AllAre(F) /\ AllAre(G) => AllAre(F \union G)
  BY DEF AllAre
<1> QED
  BY <1>2, <1>3, <1>4

(* The families, by number.                                                *)
LEMMA FamiliesAre ==
  /\ DOMAIN C!Families = 1..14
  /\ C!Families[1] = C!WorkspaceTools /\ C!Families[2] = C!FileTools /\ C!Families[3] = C!SearchTools
  /\ C!Families[4] = C!GitTools /\ C!Families[5] = C!ProcessTools /\ C!Families[6] = C!CodexTools
  /\ C!Families[7] = C!CapabilityTools /\ C!Families[8] = C!SkillTools /\ C!Families[9] = C!BridgeTools
  /\ C!Families[10] = C!ContextTools /\ C!Families[11] = C!FilePageTools /\ C!Families[12] = C!IndexTools
  /\ C!Families[13] = C!UpgradeTools /\ C!Families[14] = C!BatchTools
  BY DEF C!Families

(* A family has one tool of a name.                                        *)
LEMMA FamiliesOnce == \A i \in 1..14 : OnceIn(C!Families[i]) /\ AllAre(C!Families[i])
<1>1. ASSUME NEW F, AllAre(F), Alike(F) PROVE OnceIn(F)
  BY <1>1 DEF AllAre, Alike, OnceIn, IsTool
<1>2. /\ AllAre(C!WorkspaceTools) /\ AllAre(C!FileTools) /\ AllAre(C!SearchTools) /\ AllAre(C!GitTools)
      /\ AllAre(C!ProcessTools) /\ AllAre(C!CodexTools)
  BY ToolsAreTools
  DEF C!WorkspaceTools, C!FileTools, C!SearchTools, C!GitTools, C!ProcessTools, C!CodexTools, Levels
<1>3. AllAre(C!CapabilityTools)
  BY ToolsAreTools DEF C!CapabilityTools, Levels
<1>4. /\ AllAre(C!SkillTools) /\ AllAre(C!BridgeTools) /\ AllAre(C!ContextTools) /\ AllAre(C!FilePageTools)
      /\ AllAre(C!IndexTools) /\ AllAre(C!BatchTools)
  BY ToolsAreTools
  DEF C!SkillTools, C!BridgeTools, C!ContextTools, C!FilePageTools, C!IndexTools, C!BatchTools
<1>5. AllAre(C!UpgradeTools)
  <2>1. AllAre(C!UpgradeReads)
    BY ToolsAreTools DEF C!UpgradeReads
  <2> QED
    BY <2>1, ToolsAreTools DEF C!UpgradeTools
<1> USE DEF Alike, C!Tools, C!Reads, C!Writes, C!Runs, C!Dangers
<1>6. /\ Alike(C!WorkspaceTools) /\ Alike(C!FileTools) /\ Alike(C!SearchTools) /\ Alike(C!GitTools)
      /\ Alike(C!ProcessTools) /\ Alike(C!CodexTools)
  BY DEF C!WorkspaceTools, C!FileTools, C!SearchTools, C!GitTools, C!ProcessTools, C!CodexTools
<1>7. Alike(C!CapabilityTools)
  BY DEF C!CapabilityTools
<1>8. /\ Alike(C!SkillTools) /\ Alike(C!BridgeTools) /\ Alike(C!ContextTools) /\ Alike(C!FilePageTools)
      /\ Alike(C!IndexTools) /\ Alike(C!BatchTools)
  BY DEF C!SkillTools, C!BridgeTools, C!ContextTools, C!FilePageTools, C!IndexTools, C!BatchTools
<1>9. Alike(C!UpgradeTools)
  BY DEF C!UpgradeTools, C!UpgradeReads
<1> HIDE DEF Alike, C!Tools, C!Reads, C!Writes, C!Runs, C!Dangers
<1>10. ASSUME NEW i \in 1..14 PROVE AllAre(C!Families[i])
  BY <1>2, <1>3, <1>4, <1>5, FamiliesAre
<1>11. ASSUME NEW i \in 1..14 PROVE Alike(C!Families[i])
  BY <1>6, <1>7, <1>8, <1>9, FamiliesAre
<1> QED
  BY <1>1, <1>10, <1>11

(* No name is that of tools of two families.                               *)
LEMMA FamiliesApart == \A i, j \in 1..14 : i < j => Apart(C!Families[i], C!Families[j])
<1> USE DEF Apart, C!Tools, C!Reads, C!Writes, C!Runs, C!Dangers
<1> DEFINE R12 == C!UpgradeTools \union C!BatchTools
           R10 == C!FilePageTools \union C!IndexTools \union R12
           R8 == C!BridgeTools \union C!ContextTools \union R10
           R6 == C!CapabilityTools \union C!SkillTools \union R8
           R4 == C!ProcessTools \union C!CodexTools \union R6
           R2 == C!SearchTools \union C!GitTools \union R4
<1> USE DEF C!UpgradeTools, C!UpgradeReads, C!BatchTools
<1>13. Apart(C!UpgradeTools, C!BatchTools)
  OBVIOUS
<1> USE DEF C!FilePageTools, C!IndexTools
<1>12. Apart(C!IndexTools, R12)
  OBVIOUS
<1>11. Apart(C!FilePageTools, C!IndexTools \union R12)
  OBVIOUS
<1> USE DEF C!ContextTools, C!BridgeTools
<1>10. Apart(C!ContextTools, R10)
  OBVIOUS
<1>9. Apart(C!BridgeTools, C!ContextTools \union R10)
  OBVIOUS
<1> USE DEF C!SkillTools, C!CapabilityTools
<1>8. Apart(C!SkillTools, R8)
  OBVIOUS
<1>7. Apart(C!CapabilityTools, C!SkillTools \union R8)
  OBVIOUS
<1> USE DEF C!ProcessTools, C!CodexTools
<1>6. Apart(C!CodexTools, R6)
  OBVIOUS
<1>5. Apart(C!ProcessTools, C!CodexTools \union R6)
  OBVIOUS
<1> USE DEF C!SearchTools, C!GitTools
<1>4. Apart(C!GitTools, R4)
  OBVIOUS
<1>3. Apart(C!SearchTools, C!GitTools \union R4)
  OBVIOUS
<1> USE DEF C!FileTools, C!WorkspaceTools
<1>2. Apart(C!FileTools, R2)
  OBVIOUS
<1>1. Apart(C!WorkspaceTools, C!FileTools \union R2)
  OBVIOUS
<1> HIDE DEF Apart, C!Tools, C!Reads, C!Writes, C!Runs, C!Dangers, C!UpgradeTools, C!UpgradeReads, C!BatchTools,
             C!FilePageTools, C!IndexTools, C!ContextTools, C!BridgeTools, C!SkillTools, C!CapabilityTools,
             C!ProcessTools, C!CodexTools, C!SearchTools, C!GitTools, C!FileTools, C!WorkspaceTools
<1>14. ASSUME NEW F, NEW G, NEW H, Apart(F, G \union H) PROVE Apart(F, G) /\ Apart(F, H)
  BY <1>14 DEF Apart
<1>15. ASSUME NEW i \in 1..14, NEW j \in 1..14, i < j PROVE Apart(C!Families[i], C!Families[j])
  BY <1>1, <1>2, <1>3, <1>4, <1>5, <1>6, <1>7, <1>8, <1>9, <1>10, <1>11, <1>12, <1>13, <1>14, <1>15,
     FamiliesAre
<1> QED
  BY <1>15

(* The name of a tool finds that tool.                                     *)
LEMMA CatalogFinds ==
  /\ \A t \in C!AllTools : t.name \in C!ToolNames /\ C!Catalog[t.name] = t
  /\ \A n \in C!ToolNames : C!Catalog[n] \in C!AllTools /\ C!Catalog[n].name = n
  /\ \A t \in C!AllTools : IsTool(t)
<1>1. \A t \in C!AllTools : \E i \in 1..14 : t \in C!Families[i]
  BY FamiliesAre DEF C!AllTools
<1>2. ASSUME NEW t \in C!AllTools, NEW u \in C!AllTools, t.name = u.name PROVE t = u
  <2>1. PICK i \in 1..14, j \in 1..14 : t \in C!Families[i] /\ u \in C!Families[j]
    BY <1>1
  <2>2. i = j
    <3>1. i = j \/ i < j \/ j < i
      OBVIOUS
    <3> QED
      BY <1>2, <2>1, <3>1, FamiliesApart DEF Apart
  <2> QED
    BY <1>2, <2>1, <2>2, FamiliesOnce DEF OnceIn
<1>3. ASSUME NEW n \in C!ToolNames PROVE C!Catalog[n] \in C!AllTools /\ C!Catalog[n].name = n
  BY DEF C!Catalog, C!ToolNames
<1>4. ASSUME NEW t \in C!AllTools PROVE t.name \in C!ToolNames /\ C!Catalog[t.name] = t /\ IsTool(t)
  <2>1. t.name \in C!ToolNames
    BY DEF C!ToolNames
  <2> QED
    BY <1>1, <1>2, <1>3, <2>1, FamiliesOnce DEF AllAre
<1> QED
  BY <1>3, <1>4

(* The names that the tools of a family bear.                              *)
NamesOf(F) == {t.name : t \in F}

LEMMA NamesAre ==
  /\ \A names, level : \A readOnly, hint \in BOOLEAN : NamesOf(C!Tools(names, level, readOnly, hint)) = names
  /\ \A names : /\ NamesOf(C!Reads(names)) = names /\ NamesOf(C!Writes(names)) = names
                /\ NamesOf(C!Runs(names)) = names /\ NamesOf(C!Dangers(names)) = names
  /\ \A F, G : NamesOf(F \union G) = NamesOf(F) \union NamesOf(G)
<1>1. ASSUME NEW names, NEW level, NEW readOnly \in BOOLEAN, NEW hint \in BOOLEAN
      PROVE  NamesOf(C!Tools(names, level, readOnly, hint)) = names
  <2>1. ASSUME NEW n \in names PROVE n \in NamesOf(C!Tools(names, level, readOnly, hint))
    <3> DEFINE t == [name |-> n, level |-> level, readOnly |-> readOnly, hint |-> hint]
    <3>1. t \in C!Tools(names, level, readOnly, hint) /\ t.name = n
      BY DEF C!Tools
    <3> HIDE DEF t
    <3> QED
      BY <3>1 DEF NamesOf
  <2>2. ASSUME NEW t \in C!Tools(names, level, readOnly, hint) PROVE t.name \in names
    BY DEF C!Tools
  <2> QED
    BY <2>1, <2>2 DEF NamesOf
<1>2. \A names : /\ NamesOf(C!Reads(names)) = names /\ NamesOf(C!Writes(names)) = names
                 /\ NamesOf(C!Runs(names)) = names /\ NamesOf(C!Dangers(names)) = names
  BY <1>1 DEF C!Reads, C!Writes, C!Runs, C!Dangers
<1>3. \A F, G : NamesOf(F \union G) = NamesOf(F) \union NamesOf(G)
  BY DEF NamesOf
<1> QED
  BY <1>1, <1>2, <1>3

(* Every name of the destructive policy is that of a tool.                 *)
LEMMA PolicyNamesNamed == C!PolicyNames \subseteq C!ToolNames
<1>1. \A i \in 1..14 : NamesOf(C!Families[i]) \subseteq C!ToolNames
  BY FamiliesAre DEF NamesOf, C!ToolNames, C!AllTools
<1>2. {"delete_file", "write_file", "apply_patch"} \subseteq NamesOf(C!FileTools)
  BY NamesAre DEF C!FileTools
<1>3. {"git_worktree_spawn", "plugin_remove", "hook_remove"} \subseteq NamesOf(C!UpgradeTools)
  BY NamesAre DEF C!UpgradeTools
<1>4. {"codex_run"} \subseteq NamesOf(C!CodexTools) /\ {"mcp_call"} \subseteq NamesOf(C!BridgeTools)
      /\ {"process_start"} \subseteq NamesOf(C!ProcessTools)
  BY NamesAre DEF C!CodexTools, C!BridgeTools, C!ProcessTools
<1>t. \A names : /\ NamesOf(C!Tools(names, "EXECUTE", FALSE, TRUE)) = names
                 /\ NamesOf(C!Tools(names, "EXECUTE", TRUE, FALSE)) = names
                 /\ NamesOf(C!Tools(names, "DANGEROUS", FALSE, FALSE)) = names
                 /\ NamesOf(C!Tools(names, "DANGEROUS", TRUE, FALSE)) = names
  BY NamesAre
<1>s. \A F, G : F \subseteq G => NamesOf(F) \subseteq NamesOf(G)
  BY DEF NamesOf
<1>g. {"git"} \subseteq NamesOf(C!GitTools)
  <2> DEFINE K1 == C!Tools({"git"}, "EXECUTE", FALSE, TRUE)
  <2>1. NamesOf(K1) = {"git"}
    BY <1>t, Zenon
  <2>2. K1 \subseteq C!GitTools
    BY DEF C!GitTools
  <2> HIDE DEF K1
  <2> QED
    BY <1>s, <2>1, <2>2
<1>5. {"shell", "wsl_exec", "dom_cdp", "web_fetch", "scheduler", "office", "window", "accessibility",
       "input_event", "ui_target_action"} \subseteq NamesOf(C!CapabilityTools)
  <2> DEFINE K4 == C!Tools({"shell", "wsl_exec"}, "EXECUTE", FALSE, TRUE)
             K5 == C!Dangers({"dom_cdp", "accessibility", "input_event", "ui_target_action", "window", "scheduler"})
             K6 == C!Tools({"clipboard", "audio", "screen_record", "office"}, "DANGEROUS", FALSE, FALSE)
             K7 == C!Tools({"web_fetch"}, "DANGEROUS", TRUE, FALSE)
  <2>1. /\ NamesOf(K4) = {"shell", "wsl_exec"}
        /\ NamesOf(K6) = {"clipboard", "audio", "screen_record", "office"} /\ NamesOf(K7) = {"web_fetch"}
    BY <1>t, Zenon
  <2>2. NamesOf(K5) = {"dom_cdp", "accessibility", "input_event", "ui_target_action", "window", "scheduler"}
    BY NamesAre, Zenon
  <2>3. K4 \subseteq C!CapabilityTools /\ K5 \subseteq C!CapabilityTools /\ K6 \subseteq C!CapabilityTools
        /\ K7 \subseteq C!CapabilityTools
    BY DEF C!CapabilityTools
  <2> HIDE DEF K4, K5, K6, K7
  <2> QED
    BY <1>s, <2>1, <2>2, <2>3
<1>6. C!PolicyNames \subseteq
        {"delete_file", "write_file", "apply_patch"} \union {"git_worktree_spawn", "plugin_remove", "hook_remove"}
        \union {"codex_run"} \union {"mcp_call"} \union {"git"} \union {"process_start"}
        \union {"shell", "wsl_exec", "dom_cdp", "web_fetch", "scheduler", "office", "window", "accessibility",
                "input_event", "ui_target_action"}
  BY DEF C!PolicyNames, C!AlwaysDestructive, C!Programs, C!OpaqueActions
<1> QED
  BY <1>1, <1>2, <1>3, <1>4, <1>g, <1>5, <1>6, FamiliesAre

(* What the destructive policy knows only reads by no tool.                *)
LEMMA PoliciesNeverRead == \A t \in C!AllTools : t.name \in C!PolicyNames => t.level # "READ"
<1> DEFINE Fine(F) == \A t \in F : t.name \in C!PolicyNames => t.level # "READ"
<1> USE DEF C!Tools, C!Reads, C!Writes, C!Runs, C!Dangers, C!PolicyNames, C!AlwaysDestructive, C!Programs,
            C!OpaqueActions
<1>1. /\ Fine(C!WorkspaceTools) /\ Fine(C!FileTools) /\ Fine(C!SearchTools) /\ Fine(C!GitTools)
      /\ Fine(C!ProcessTools) /\ Fine(C!CodexTools)
  BY DEF C!WorkspaceTools, C!FileTools, C!SearchTools, C!GitTools, C!ProcessTools, C!CodexTools
<1>2. Fine(C!CapabilityTools)
  BY DEF C!CapabilityTools
<1>3. /\ Fine(C!SkillTools) /\ Fine(C!BridgeTools) /\ Fine(C!ContextTools) /\ Fine(C!FilePageTools)
      /\ Fine(C!IndexTools) /\ Fine(C!BatchTools)
  BY DEF C!SkillTools, C!BridgeTools, C!ContextTools, C!FilePageTools, C!IndexTools, C!BatchTools
<1>4. Fine(C!UpgradeTools)
  BY DEF C!UpgradeTools, C!UpgradeReads
<1> HIDE DEF Fine, C!Tools, C!Reads, C!Writes, C!Runs, C!Dangers, C!PolicyNames, C!AlwaysDestructive,
             C!Programs, C!OpaqueActions
<1>5. ASSUME NEW i \in 1..14 PROVE Fine(C!Families[i])
  BY <1>1, <1>2, <1>3, <1>4, FamiliesAre
<1> QED
  BY <1>5, FamiliesAre DEF Fine, C!AllTools

(* The catalog and the policies fit each other.                            *)
LEMMA TablesSound == C!CatalogSound
<1>1. \A i, j \in DOMAIN C!Families : \A t \in C!Families[i], u \in C!Families[j] :
         t.name = u.name => i = j /\ t = u
  <2>1. \A i, j \in 1..14 : i = j \/ i < j \/ j < i
    OBVIOUS
  <2> QED
    BY <2>1, FamiliesAre, FamiliesApart, FamiliesOnce DEF Apart, OnceIn
<1>2. ASSUME NEW n \in C!PolicyNames
      PROVE  /\ ~C!ParallelSafe(C!Catalog[n])
             /\ C!Decide("safe", n, C!Catalog[n].level, C!Catalog[n].hint) # "ALLOW"
  <2> DEFINE t == C!Catalog[n]
  <2>1. t \in C!AllTools /\ t.name = n
    BY PolicyNamesNamed, CatalogFinds
  <2>2. t.level \in Levels /\ t.level # "READ"
    BY <2>1, CatalogFinds, PoliciesNeverRead DEF IsTool
  <2> HIDE DEF t
  <2>3. ~C!ParallelSafe(t)
    BY <2>2 DEF C!ParallelSafe
  <2>4. C!Profiles["safe"] = C!Cautious
    BY DEF C!Profiles
  <2>5. C!Cautious[t.level] # "ALLOW"
    BY <2>2 DEF C!Cautious, Levels
  <2>6. C!Decide("safe", n, t.level, t.hint) # "ALLOW"
    BY <2>4, <2>5 DEF C!Decide
  <2> QED
    BY <2>3, <2>6 DEF t
<1> QED
  BY <1>1, <1>2, PolicyNamesNamed DEF C!CatalogSound

(* What README.md says is confirmed, and is not overlooked, the policy     *)
(* takes for destructive.                                                  *)
LEMMA ClaimedDestructive ==
  ASSUME NEW name, NEW in, C!Claimed(name, in)
  PROVE  C!Destructive(name, in)
<1>1. ~in.dry /\ ~C!Overlooked(in)
  BY DEF C!Claimed
<1>2. (name = "git" /\ C!GitDestroys(in)) \/ (name \in C!Programs /\ in.runs /\ C!CommandDestroys(in))
  BY DEF C!Claimed
<1>3. ASSUME C!GitDestroys(in) PROVE C!InspectGit(in)
  <2>1. PICK k \in DOMAIN in.args : C!Subcommand(in, k) /\ C!Discards(in, k)
    BY <1>3 DEF C!GitDestroys
  <2>2. C!First(in, k)
    BY <1>1, <2>1 DEF C!Overlooked
  <2> QED
    BY <2>1, <2>2 DEF C!InspectGit
<1>4. ASSUME C!CommandDestroys(in) PROVE C!InspectShell(in)
  <2>1. CASE in.program = "git" /\ C!GitDestroys(in)
    BY <1>3, <2>1 DEF C!InspectShell
  <2>2. CASE in.program \in C!Deleters
    BY <2>2 DEF C!InspectShell
  <2>3. CASE /\ in.program \in DOMAIN C!Told
             /\ \E k \in DOMAIN in.args : in.args[k] \in C!Told[in.program]
    <3>1. PICK k \in DOMAIN in.args : in.args[k] \in C!Told[in.program]
      BY <2>3
    <3>2. in.program \in C!PowerShells => ~C!GitRm(in, k)
      BY <1>1 DEF C!Overlooked
    <3> QED
      BY <2>3, <3>1, <3>2 DEF C!InspectShell
  <2>4. CASE in.program \in C!PowerShells /\ C!Says(in, "set-content")
    <3>1. ~C!Says(in, C!AddContent)
      BY <1>1, <2>4 DEF C!Overlooked
    <3> QED
      BY <2>4, <3>1 DEF C!InspectShell
  <2> QED
    BY <1>4, <2>1, <2>2, <2>3, <2>4 DEF C!CommandDestroys
<1>5. CASE name = "git" /\ C!GitDestroys(in)
  BY <1>1, <1>3, <1>5 DEF C!Destructive
<1>6. CASE name \in C!Programs /\ in.runs /\ C!CommandDestroys(in)
  BY <1>1, <1>4, <1>6 DEF C!Destructive
<1> QED
  BY <1>2, <1>5, <1>6

(* What invoke() lets through is confirmed where it must be, and allowed.  *)
LEMMA AllowedVerdict ==
  ASSUME NEW r, NEW now \in Settings, C!Verdict(r, now) = "ALLOWED"
  PROVE  Allowed(r, now)
<1> DEFINE t == C!Catalog[r.name]
           d == C!Decide(now, "mcp", t.level, t.hint)
<1>1. r.name \in C!ToolNames
  BY DEF C!Verdict, C!Catalog
<1>2. r.valid /\ (C!Destructive(r.name, r.input) => r.confirmed)
  BY <1>1 DEF C!Verdict, C!Catalog, C!Confirmed
<1>8. C!Claimed(r.name, r.input) => r.confirmed
  BY <1>2, ClaimedDestructive
<1>3. d # "DENY" /\ d # "ASK"
  BY <1>1, <1>2 DEF C!Verdict, C!Catalog, C!Confirmed
<1>4. t.level \in Levels
  BY <1>1, CatalogFinds DEF IsTool
<1> HIDE DEF t
<1>5. d = C!Profiles[now][t.level]
  BY DEF C!Decide, C!HardBlocked
<1>6. now \in {"safe", "custom", "balanced", "full"}
  BY ServicesAssumption
<1>7. C!Profiles[now][t.level] \in {"ALLOW", "ASK", "DENY"}
  BY <1>4, <1>6 DEF Levels, C!Profiles, C!Cautious
<1> QED
  BY <1>2, <1>3, <1>5, <1>7, <1>8 DEF Allowed, t

(* Every step of a call keeps the invariant.                               *)
LEMMA ToolsKept == ToolsInv /\ [C!CallsNext]_toolVars => ToolsInv'
<1> SUFFICES ASSUME ToolsInv, [C!CallsNext]_toolVars PROVE ToolsInv'
  OBVIOUS
<1>f. \A c \in Callers :
         /\ CallFits(handled[c], beat[c], under[c]) /\ Reported(handled[c], log[c], failed[c])
         /\ c \in inflight <=> Open(handled[c])
  BY DEF ToolsInv
<1>n. Nothing # "REFUSED"
  BY ServicesAssumption
<1>e. ASSUME NEW c \in Callers PROVE /\ handled = [handled EXCEPT ![c] = handled[c]] /\ beat = [beat EXCEPT ![c] = beat[c]]
                                     /\ under = [under EXCEPT ![c] = under[c]] /\ log = [log EXCEPT ![c] = log[c]]
                                     /\ failed = [failed EXCEPT ![c] = failed[c]]
  BY DEF ToolsInv
<1>1. ASSUME C!SwitchProfile PROVE ToolsInv'
  BY <1>1 DEF C!SwitchProfile, ToolsInv, CallFits
(* begin: of a request that comes in, or of one that a batch makes.        *)
<1>b. ASSUME NEW c \in Callers, NEW r, NEW parent \in Callers \union {Nothing}, C!Begin(c, r, parent),
             NEW b \in {"off", "first"}, beat' = [beat EXCEPT ![c] = b], UNCHANGED <<profile, under>>
      PROVE  ToolsInv'
  <2> DEFINE h == [C!Idle EXCEPT !.at = "recorded", !.request = r, !.parent = parent]
  <2>1. handled[c].at = "idle" /\ handled' = [handled EXCEPT ![c] = h] /\ inflight' = inflight \union {c}
    BY <1>b DEF C!Begin
  <2>2. PICK failing : /\ log' = [log EXCEPT ![c] = C!Recorded(log[c], "started", failing)]
                       /\ failed' = [failed EXCEPT ![c] = failed[c] \union {<<i, "started">> : i \in failing}]
    BY <1>b DEF C!Begin, C!Record
  <2>3. h \in [at : {"recorded"}, request : {r}, parent : {parent}, code : {Nothing}]
    BY DEF C!Idle
  <2> HIDE DEF h
  <2>4. under[c] = Nothing
    BY <1>f, <2>1 DEF CallFits
  <2>5. CallFits(h, b, under[c])
    BY <1>n, <1>b, <2>3, <2>4 DEF CallFits, C!Stages
  <2>6. Open(h) /\ ~Unheard(h) /\ Unheard(handled[c])
    BY <1>n, <2>1, <2>3 DEF Open, Unheard
  <2>7. Reported(h, C!Recorded(log[c], "started", failing), failed[c] \union {<<i, "started">> : i \in failing})
    BY <1>f, <2>6, BeginsReported
  <2>8. under' = [under EXCEPT ![c] = under[c]]
    BY <1>b, <1>e
  <2> QED
    BY <1>b, <2>1, <2>2, <2>5, <2>6, <2>7, <2>8, OneCallMoves
(* end: of a call that was begun.                                          *)
<1>d. ASSUME NEW c \in Callers, NEW code, code # "REFUSED", Open(handled[c]), C!End(c, code),
             UNCHANGED <<profile, beat, under>>
      PROVE  ToolsInv'
  <2> DEFINE h == [handled[c] EXCEPT !.at = "ended", !.code = code]
  <2>1. handled' = [handled EXCEPT ![c] = h] /\ inflight' = inflight \ {c}
    BY <1>d DEF C!End, ToolsInv
  <2>2. PICK failing : /\ log' = [log EXCEPT ![c] = C!Recorded(log[c], "completed", failing)]
                       /\ failed' = [failed EXCEPT ![c] = failed[c] \union {<<i, "completed">> : i \in failing}]
    BY <1>d DEF C!End, C!Record
  <2>3. handled[c] \in [at : C!Stages, request : {handled[c].request}, parent : Callers \union {Nothing},
                        code : {handled[c].code}]
    BY <1>f DEF CallFits
  <2>4. h \in [at : {"ended"}, request : {handled[c].request}, parent : {handled[c].parent}, code : {code}]
    BY <2>3
  <2> HIDE DEF h
  <2>5. handled[c].at \in {"recorded", "executing"} /\ handled[c].code # "REFUSED"
    BY <1>d, <1>f DEF Open, CallFits
  <2>6. ~Open(h) /\ ~Unheard(h) /\ ~Unheard(handled[c])
    BY <1>d, <2>4, <2>5 DEF Open, Unheard
  <2>7. Reported(h, C!Recorded(log[c], "completed", failing), failed[c] \union {<<i, "completed">> : i \in failing})
    BY <1>d, <1>f, <2>6, EndsReported
  <2>8. CallFits(h, beat[c], under[c])
    <3>1. /\ handled[c].parent \in Callers \union {Nothing} /\ beat[c] \in {"off", "first", "interval"}
          /\ under[c] \in Settings \union {Nothing} /\ (under[c] # Nothing => Allowed(handled[c].request, under[c]))
      BY <1>f DEF CallFits
    <3>2. h.at = "ended" /\ h.request = handled[c].request /\ h.parent = handled[c].parent /\ h.code = code
          /\ h \in [at : C!Stages, request : {h.request}, parent : Callers \union {Nothing}, code : {h.code}]
      BY <2>4, <3>1 DEF C!Stages
    <3> QED
      BY <1>d, <3>1, <3>2 DEF CallFits, C!Stages
  <2>9. beat' = [beat EXCEPT ![c] = beat[c]] /\ under' = [under EXCEPT ![c] = under[c]]
    BY <1>d, <1>e
  <2> QED
    BY <1>d, <2>1, <2>2, <2>6, <2>7, <2>8, <2>9, OneCallMoves
(* A call changes its place, and nothing is recorded.                      *)
<1>m. ASSUME NEW c \in Callers, NEW h, NEW b, NEW u, CallFits(h, b, u), Open(h) <=> Open(handled[c]),
             Unheard(h) <=> Unheard(handled[c]), handled' = [handled EXCEPT ![c] = h],
             beat' = [beat EXCEPT ![c] = b], under' = [under EXCEPT ![c] = u],
             UNCHANGED <<profile, inflight, log, failed>>
      PROVE  ToolsInv'
  <2>1. Reported(h, log[c], failed[c])
    BY <1>f, <1>m DEF Reported
  <2>2. inflight' = IF Open(h) THEN inflight \union {c} ELSE inflight \ {c}
    BY <1>f, <1>m
  <2>3. log' = [log EXCEPT ![c] = log[c]] /\ failed' = [failed EXCEPT ![c] = failed[c]]
    BY <1>e, <1>m
  <2> QED
    BY <1>m, <2>1, <2>2, <2>3, OneCallMoves
<1>r. \A c \in Callers :
        /\ handled[c] \in [at : C!Stages, request : {handled[c].request}, parent : Callers \union {Nothing},
                           code : {handled[c].code}]
        /\ handled[c].at \in C!Stages /\ handled[c].parent \in Callers \union {Nothing}
        /\ handled[c].code = "REFUSED" => handled[c].at \in {"writing", "written", "gone"}
        /\ beat[c] \in {"off", "first", "interval"}
        /\ handled[c].at \in {"idle", "writing", "written", "gone"} => beat[c] = "off"
        /\ under[c] \in Settings \union {Nothing}
        /\ under[c] # Nothing => handled[c].at \in {"executing", "ended"} /\ Allowed(handled[c].request, under[c])
  BY <1>f DEF CallFits
<1>2. ASSUME NEW c \in Callers, C!Refuse(c) PROVE ToolsInv'
  <2> DEFINE h == [C!Idle EXCEPT !.at = "writing", !.code = "REFUSED"]
  <2>h. h \in [at : {"writing"}, request : {Nothing}, parent : {Nothing}, code : {"REFUSED"}]
    BY DEF C!Idle
  <2>1. handled[c].at = "idle" /\ handled' = [handled EXCEPT ![c] = h]
        /\ UNCHANGED <<profile, inflight, log, beat, failed, under>>
    BY <1>2 DEF C!Refuse
  <2> HIDE DEF h
  <2>2. CallFits(h, beat[c], under[c])
    <3>1. beat[c] = "off" /\ under[c] = Nothing
      BY <1>r, <2>1
    <3> QED
      BY <2>h, <3>1 DEF CallFits, C!Stages
  <2>3. (Open(h) <=> Open(handled[c])) /\ (Unheard(h) <=> Unheard(handled[c]))
    BY <2>h, <2>1 DEF Open, Unheard
  <2>4. /\ beat' = [beat EXCEPT ![c] = beat[c]] /\ under' = [under EXCEPT ![c] = under[c]]
        /\ UNCHANGED <<profile, inflight, log, failed>> /\ handled' = [handled EXCEPT ![c] = h]
    BY <1>e, <2>1
  <2> QED
    BY <1>m, <2>2, <2>3, <2>4
<1>3. ASSUME NEW c \in Callers, C!Heartbeat(c) PROVE ToolsInv'
  <2>1. beat[c] = "first" /\ beat' = [beat EXCEPT ![c] = "interval"]
        /\ UNCHANGED <<profile, handled, inflight, log, failed, under>>
    BY <1>3 DEF C!Heartbeat
  <2>2. CallFits(handled[c], "interval", under[c])
    BY <1>r, <2>1 DEF CallFits
  <2>3. handled' = [handled EXCEPT ![c] = handled[c]] /\ under' = [under EXCEPT ![c] = under[c]]
    BY <1>e, <2>1
  <2> QED
    BY <1>m, <2>1, <2>2, <2>3
<1>4. ASSUME NEW c \in Callers, C!Examine(c) PROVE ToolsInv'
  <2> DEFINE verdict == C!Verdict(handled[c].request, profile)
             h == [handled[c] EXCEPT !.at = "executing"]
  <2>1. handled[c].at = "recorded" /\ UNCHANGED <<profile, beat>>
    BY <1>4 DEF C!Examine
  <2>2. CASE verdict = "ALLOWED"
    <3>1. /\ handled' = [handled EXCEPT ![c] = h] /\ under' = [under EXCEPT ![c] = profile]
          /\ UNCHANGED <<inflight, log, failed>>
      BY <1>4, <2>2 DEF C!Examine
    <3>2. profile \in Settings
      BY DEF ToolsInv
    <3>3. Allowed(handled[c].request, profile)
      BY <2>2, <3>2, AllowedVerdict
    <3>4. h \in [at : {"executing"}, request : {handled[c].request}, parent : {handled[c].parent},
                 code : {handled[c].code}]
      <4>1. handled[c] \in [at : C!Stages, request : {handled[c].request}, parent : Callers \union {Nothing},
                            code : {handled[c].code}]
        BY <1>r
      <4> QED
        BY <4>1
    <3> HIDE DEF h, verdict
    <3>5. /\ h.at = "executing" /\ h.request = handled[c].request /\ h.parent = handled[c].parent
          /\ h.code = handled[c].code
          /\ h \in [at : C!Stages, request : {h.request}, parent : Callers \union {Nothing}, code : {h.code}]
      BY <1>r, <3>4 DEF C!Stages
    <3>6. CallFits(h, beat[c], profile)
      BY <1>r, <2>1, <3>2, <3>3, <3>5 DEF CallFits, C!Stages
    <3>7. Open(h) /\ Open(handled[c]) /\ ~Unheard(h) /\ ~Unheard(handled[c])
      BY <1>r, <2>1, <3>5 DEF Open, Unheard
    <3>8. beat' = [beat EXCEPT ![c] = beat[c]]
      BY <1>e, <2>1
    <3> QED
      BY <1>m, <2>1, <3>1, <3>6, <3>7, <3>8
  <2>3. CASE verdict # "ALLOWED"
    <3>1. C!End(c, verdict) /\ UNCHANGED under
      BY <1>4, <2>3 DEF C!Examine
    <3>2. verdict # "REFUSED"
      BY DEF C!Verdict
    <3>3. Open(handled[c])
      BY <2>1 DEF Open
    <3> HIDE DEF verdict
    <3> QED
      BY <1>d, <2>1, <3>1, <3>2, <3>3
  <2> QED
    BY <2>2, <2>3
<1>5. ASSUME NEW c \in Callers, C!Executed(c) \/ C!BatchEnds(c) PROVE ToolsInv'
  <2>1. handled[c].at = "executing" /\ UNCHANGED <<profile, beat, under>>
    BY <1>5 DEF C!Executed, C!BatchEnds
  <2>2. C!Codes(handled[c].request) \subseteq
          {"SUCCESS", "ERROR", "INTERNAL_ERROR", "PERMISSION_DENIED", "PERMISSION_REQUIRED"}
    BY DEF C!Codes
  <2>3. PICK code : code # "REFUSED" /\ C!End(c, code)
    BY <1>5, <2>2 DEF C!Executed, C!BatchEnds
  <2>4. Open(handled[c])
    BY <2>1 DEF Open
  <2> QED
    BY <1>d, <2>1, <2>3, <2>4
<1>6. ASSUME NEW c \in Callers, C!Answer(c) PROVE ToolsInv'
  <2> DEFINE at == IF handled[c].parent = Nothing THEN "writing" ELSE "written"
             h == [handled[c] EXCEPT !.at = at, !.request = Nothing, !.code = Nothing]
  <2>1. /\ handled[c].at = "ended" /\ handled' = [handled EXCEPT ![c] = h]
        /\ beat' = [beat EXCEPT ![c] = "off"] /\ under' = [under EXCEPT ![c] = Nothing]
        /\ UNCHANGED <<profile, inflight, log, failed>>
    BY <1>6 DEF C!Answer, C!Quiet, ToolsInv
  <2>2. h \in [at : {at}, request : {Nothing}, parent : {handled[c].parent}, code : {Nothing}]
    <3>1. handled[c] \in [at : C!Stages, request : {handled[c].request}, parent : Callers \union {Nothing},
                          code : {handled[c].code}]
      BY <1>r
    <3> QED
      BY <3>1
  <2>3. at \in {"writing", "written"}
    OBVIOUS
  <2> HIDE DEF h, at
  <2>4. CallFits(h, "off", Nothing)
    BY <1>n, <1>r, <2>2, <2>3 DEF CallFits, C!Stages
  <2>5. ~Open(h) /\ ~Unheard(h) /\ ~Open(handled[c]) /\ ~Unheard(handled[c])
    BY <1>n, <1>r, <2>1, <2>2, <2>3 DEF Open, Unheard
  <2> QED
    BY <1>m, <2>1, <2>4, <2>5
<1>7. ASSUME NEW c \in Callers, C!WriteAnswer(c) \/ C!ClientLeaves(c) PROVE ToolsInv'
  <2>1. PICK at \in {"written", "gone"} :
           /\ handled[c].at = "writing" /\ handled' = [handled EXCEPT ![c] = [handled[c] EXCEPT !.at = at]]
           /\ UNCHANGED <<profile, inflight, log, beat, failed, under>>
    BY <1>7 DEF C!WriteAnswer, C!ClientLeaves
  <2> DEFINE h == [handled[c] EXCEPT !.at = at]
  <2>2. h \in [at : {at}, request : {handled[c].request}, parent : {handled[c].parent}, code : {handled[c].code}]
    <3>1. handled[c] \in [at : C!Stages, request : {handled[c].request}, parent : Callers \union {Nothing},
                          code : {handled[c].code}]
      BY <1>r
    <3> QED
      BY <3>1
  <2>3. handled' = [handled EXCEPT ![c] = h]
    BY <2>1
  <2> HIDE DEF h
  <2>4. /\ h.at = at /\ h.request = handled[c].request /\ h.parent = handled[c].parent /\ h.code = handled[c].code
        /\ h \in [at : C!Stages, request : {h.request}, parent : Callers \union {Nothing}, code : {h.code}]
    BY <1>r, <2>2 DEF C!Stages
  <2>5. CallFits(h, beat[c], under[c])
    BY <1>r, <2>1, <2>4 DEF CallFits, C!Stages
  <2>6. (Open(h) <=> Open(handled[c])) /\ (Unheard(h) <=> Unheard(handled[c]))
    BY <2>1, <2>4 DEF Open, Unheard
  <2>7. /\ beat' = [beat EXCEPT ![c] = beat[c]] /\ under' = [under EXCEPT ![c] = under[c]]
        /\ UNCHANGED <<profile, inflight, log, failed>>
    BY <1>e, <2>1
  <2> QED
    BY <1>m, <2>3, <2>5, <2>6, <2>7
<1>8. ASSUME NEW c \in Callers, NEW r, C!Receive(c, r) PROVE ToolsInv'
  BY <1>8, <1>b DEF C!Receive
<1>9. ASSUME NEW c \in Callers, NEW d \in Callers, C!StartsChild(c, d) PROVE ToolsInv'
  <2>1. PICK r : C!Begin(d, r, c)
    BY <1>9 DEF C!StartsChild
  <2>2. handled[d].at = "idle" /\ UNCHANGED <<profile, beat, under>>
    BY <1>9, <2>1 DEF C!StartsChild, C!Begin
  <2>3. beat[d] = "off" /\ beat' = [beat EXCEPT ![d] = "off"]
    BY <1>e, <1>r, <2>2
  <2> QED
    BY <1>b, <2>1, <2>2, <2>3
<1>10. CASE UNCHANGED toolVars
  BY <1>10 DEF toolVars, ToolsInv, CallFits
<1> QED
  BY <1>1, <1>2, <1>3, <1>4, <1>5, <1>6, <1>7, <1>8, <1>9, <1>10 DEF C!CallsNext, C!Step

-----------------------------------------------------------------------------
(* MCServices: all of them side by side.                                   *)
BenchInv == SessionInv /\ TasksInv /\ BrowserInv /\ BackendsInv /\ MarksInv /\ ToolsInv

(* All of them start in their invariants.                                  *)
LEMMA BenchStart == BenchInit => BenchInv
  BY SessionInitInv, TasksStart, BrowserStart, BackendsStart, MarksStart, ToolsStart DEF BenchInit, BenchInv

(* One service takes a step, the others stay as they are.                  *)
LEMMA OneServiceSteps ==
  [BenchNext]_benchVars =>
    /\ [Next]_vars /\ [T!Next]_tasksVars /\ [B!Next]_browserVars /\ [K!Next]_backendVars
    /\ [M!Next]_marksVars /\ [C!CallsNext]_toolVars
<1> SUFFICES ASSUME [BenchNext]_benchVars
             PROVE  /\ [Next]_vars /\ [T!Next]_tasksVars /\ [B!Next]_browserVars /\ [K!Next]_backendVars
                    /\ [M!Next]_marksVars /\ [C!CallsNext]_toolVars
  OBVIOUS
<1> USE DEF servicesVars
<1>1. CASE SessionsStep
  BY <1>1 DEF SessionsStep
<1>2. CASE TasksStep
  BY <1>2 DEF TasksStep
<1>3. CASE BrowserStep
  BY <1>3 DEF BrowserStep
<1>4. CASE BackendStep
  BY <1>4 DEF BackendStep
<1>5. CASE MarksStep
  BY <1>5 DEF MarksStep
<1>6. CASE ToolsStep
  BY <1>6 DEF ToolsStep
<1>7. CASE UNCHANGED benchVars
  BY <1>7 DEF benchVars
<1> QED
  BY <1>1, <1>2, <1>3, <1>4, <1>5, <1>6, <1>7 DEF BenchNext

(* And stay there.                                                         *)
LEMMA BenchKept == BenchInv /\ [BenchNext]_benchVars => BenchInv'
<1> SUFFICES ASSUME BenchInv, [BenchNext]_benchVars PROVE BenchInv'
  OBVIOUS
<1>1. SessionInv' /\ TasksInv'
  BY OneServiceSteps, SessionStepInv, TasksKept DEF BenchInv
<1>2. BrowserInv' /\ BackendsInv'
  BY OneServiceSteps, BrowserKept, BackendsStep DEF BenchInv
<1>3. MarksInv' /\ ToolsInv'
  BY OneServiceSteps, MarksKept, ToolsKept DEF BenchInv
<1> QED
  BY <1>1, <1>2, <1>3 DEF BenchInv

LEMMA BenchKeepsInv == BenchSpec => []BenchInv
  BY BenchStart, BenchKept, PTL DEF BenchSpec

(* `focus` stays one of the six.                                           *)
Foci == {"sessions", "tasks", "browser", "backends", "marks", "tools"}
LEMMA FocusStays == BenchSpec => [](focus \in Foci)
<1>1. BenchInit => focus \in Foci
  BY DEF BenchInit, Foci
<1>2. focus \in Foci /\ [BenchNext]_benchVars => (focus \in Foci)'
  BY DEF BenchNext, SessionsStep, TasksStep, BrowserStep, BackendStep, MarksStep, ToolsStep, benchVars
<1> QED
  BY <1>1, <1>2, PTL DEF BenchSpec

(* Every service keeps its variables in their types.                       *)
THEOREM ServicesTyped == BenchSpec => []ServicesTypeOK
<1>1. BenchInv /\ focus \in Foci => ServicesTypeOK
  <2> SUFFICES ASSUME BenchInv, focus \in Foci PROVE ServicesTypeOK
    OBVIOUS
  <2>1. TypeOK
    BY DEF BenchInv, SessionInv
  <2>2. T!TasksTypeOK /\ B!TypeOK /\ K!TypeOK /\ M!TypeOK /\ C!CallsTypeOK
    BY TasksHold, BrowserHolds, BackendsHold, MarksHold, ToolsHold DEF BenchInv
  <2> QED
    BY <2>1, <2>2 DEF ServicesTypeOK, Foci
<1> QED
  BY <1>1, BenchKeepsInv, FocusStays, PTL

(* The sweep closes no session under a call, and no child that is up is    *)
(* lost where no first calls overlap.                                      *)
THEOREM SessionsKeepSound == BenchSpec => []SessionsSound
<1>1. BenchInv => SessionsSound
  BY SpareUsed DEF BenchInv, SessionInv, ChildInMap, SessionsSound
<1> QED
  BY <1>1, BenchKeepsInv, PTL

(* Whatever requests there are, a call runs only if the profile of that    *)
(* moment allows it and it is confirmed where the policy takes it for      *)
(* destructive, or README.md does and no form that the policy overlooks is *)
(* used; every sink that takes its records holds both, once and in order;  *)
(* no heartbeat outlives it; and the tables fit each other.                *)
THEOREM CallsKeepSound == BenchSpec => []CallsSound
<1>1. BenchInv => CallsSound
  BY ToolsHold, TablesSound DEF BenchInv, CallsSound, C!CallsSound
<1> QED
  BY <1>1, BenchKeepsInv, PTL

(* A foreground run waits for its end and a tree is killed exactly when    *)
(* the record says so; what a browser request was told of its steps is so  *)
(* and no socket outlives its step; one scheduled task per name; an action *)
(* lands on a control with the name or the automation id of the mark that  *)
(* was asked for, alive and usable when it was captured.                   *)
THEOREM BackendsKeepSound == BenchSpec => []BackendsSound
<1>1. BenchInv /\ focus \in Foci => BackendsSound
  <2> SUFFICES ASSUME BenchInv, focus \in Foci PROVE BackendsSound
    OBVIOUS
  <2>1. T!ForegroundEnds /\ T!KilledWhenEnded /\ B!BrowserSound /\ K!OneTaskPerName /\ M!ActionsSound
    BY TasksHold, BrowserHolds, BackendsHold, MarksHold DEF BenchInv
  <2> QED
    BY <2>1 DEF BackendsSound, Foci
<1> QED
  BY <1>1, BenchKeepsInv, FocusStays, PTL

(* A call that timed out is answered so and no other is, and a fetch says  *)
(* that it was cut exactly when it was.                                    *)
THEOREM CapabilitiesAnswerTrue == BenchSpec => CapabilityAnswersTrue
<1>1. BenchInv /\ [BenchNext]_benchVars => [\A c \in Callers : K!AnswerTrue(c)]_K!vars
  BY OneServiceSteps, BackendsAnswerTrue DEF BenchInv
<1> QED
  BY <1>1, BenchKeepsInv, PTL DEF BenchSpec, CapabilityAnswersTrue, K!CapabilityAnswersTrue
=============================================================================

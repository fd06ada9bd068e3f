------------------------------ MODULE LogStream ------------------------------
(***************************************************************************)
(* The live log of the desktop: LogHub (apps/desktop/src/main/log-hub.ts)  *)
(* collects the lines, dashboard-ws.ts pushes each to the open sockets,    *)
(* and a page of the renderer merges what the socket brings with one       *)
(* snapshot it asks for when it is mounted (StandaloneLogViewer.tsx,       *)
(* log-buffer.ts, socket.ts).                                              *)
(*                                                                         *)
(* One source, one page.  A tool call leaves an event in the audit         *)
(* database and in the activity file; the hub learns of it from whichever  *)
(* it reads first and tells them apart by the event's key.  React may      *)
(* postpone what a page computes to its next render, once one is due.      *)
(***************************************************************************)
EXTENDS Selections, FiniteSets, SequencesExt

CONSTANTS Events,     \* keys of tool events (mcpActivityKey)
          MaxLines,   \* MAX_LINES_PER_SOURCE
          MaxSeen,    \* MAX_SEEN_KEYS_PER_SOURCE
          MaxView,    \* MAX_CLIENT_LOG_LINES
          MaxIds      \* bound: lines the hub numbers

VARIABLES
    recorded,  \* the events recorded so far, in order
    tailed,    \* how many of them the tail of the file has read
    hub,       \* lines, seenKeys (oldest first) and nextId
    socket,    \* the socket of the page, and the lines on their way to it
    fetch,     \* the request for the snapshot, and its lines
    page,      \* logIds, the lines computed, and the updates for the next render
    clearing,  \* the answer to a clear is on its way to the page
    due,       \* history: lines the page has to show
    late       \* history: a line came between the snapshot and its render

streamVars == <<recorded, tailed, hub, socket, fetch, page, clearing, due, late>>

(* A line: its number and the event it tells of.                           *)
Numbers(lines) == {lines[i].id : i \in DOMAIN lines}

StreamInit ==
    /\ recorded = <<>> /\ tailed = 0
    /\ hub = [lines |-> <<>>, seen |-> <<>>, next |-> 1]
    /\ socket = [at |-> "connecting", wire |-> <<>>]
    /\ fetch = [at |-> "asked", lines |-> <<>>]
    /\ page = [ids |-> {}, lines |-> <<>>, updates |-> <<>>, rendering |-> FALSE]
    /\ clearing = FALSE /\ due = {} /\ late = FALSE

TailOf(s, n) == IF Len(s) > n THEN SubSeq(s, Len(s) - n + 1, Len(s)) ELSE s

-----------------------------------------------------------------------------
(* append: the line is numbered, kept, and sent to the socket if it is     *)
(* open.  A page whose socket is open has to show it.                      *)
Unfed == [hub |-> hub, out |-> <<>>]
Appended(fed, e) ==
    LET line == [id |-> fed.hub.next, event |-> e]
    IN  [hub |-> [fed.hub EXCEPT !.lines = TailOf(Append(@, line), MaxLines), !.next = @ + 1],
         out |-> Append(fed.out, line)]

Reaching(out) == IF socket.at = "open" THEN out ELSE <<>>
Broadcast(out) ==
    /\ socket' = [socket EXCEPT !.wire = @ \o Reaching(out)]
    /\ due' = due \union Numbers(Reaching(out))

FeedIfNew(fed, e) ==
    IF Contains(fed.hub.seen, e) THEN fed
    ELSE Appended([fed EXCEPT !.hub = [fed.hub EXCEPT !.seen = TailOf(Append(@, e), MaxSeen)]], e)

(* syncWorkLog: every event of the audit database is offered again.        *)
Synced ==
    LET upto[i \in 0..Len(recorded)] ==
          IF i = 0 THEN Unfed ELSE FeedIfNew(upto[i - 1], recorded[i])
    IN  upto[Len(recorded)]

RecordEvent(e) ==
    /\ ~Contains(recorded, e)
    /\ recorded' = Append(recorded, e)
    /\ UNCHANGED <<tailed, hub, socket, fetch, page, clearing, due, late>>

(* The tail of the activity file has come to the next event.               *)
TailReads ==
    /\ tailed < Len(recorded) /\ hub.next <= MaxIds
    /\ tailed' = tailed + 1
    /\ LET fed == FeedIfNew(Unfed, recorded[tailed + 1])
       IN  hub' = fed.hub /\ Broadcast(fed.out)
    /\ UNCHANGED <<recorded, fetch, page, clearing, late>>

(* getDashboard, which a page asks for again and again.                    *)
PollDashboard ==
    /\ hub.next <= MaxIds
    /\ hub' = Synced.hub /\ hub' # hub
    /\ Broadcast(Synced.out)
    /\ UNCHANGED <<recorded, tailed, fetch, page, clearing, late>>

-----------------------------------------------------------------------------
(* getLogSnapshot, and the way of its answer to the page.                  *)
TakeSnapshot ==
    /\ fetch.at = "asked" /\ hub.next <= MaxIds
    /\ hub' = Synced.hub
    /\ fetch' = [at |-> "sent", lines |-> Synced.hub.lines]
    /\ socket' = [socket EXCEPT !.wire = @ \o Reaching(Synced.out)]
    /\ due' = due \union Numbers(Synced.hub.lines) \union Numbers(Reaching(Synced.out))
    /\ UNCHANGED <<recorded, tailed, page, clearing, late>>

(* The snapshot may fail: the page goes on without.                        *)
SnapshotFails ==
    /\ fetch.at \in {"asked", "sent"}
    /\ fetch' = [at |-> "done", lines |-> <<>>]
    /\ due' = due \ Numbers(fetch.lines)
    /\ UNCHANGED <<recorded, tailed, hub, socket, page, clearing, late>>

(* applyLogSnapshot: a map of the lines by number, in which those that are *)
(* there already stay, and its values in the order of their numbers.       *)
Ordered(byId) ==
    LET ids   == {l.id : l \in byId}
        last  == CHOOSE n \in ids \union {0} : \A m \in ids : m <= n
        order == Selected([n \in 1..last |-> n], ids)
    IN  [k \in 1..Len(order) |-> CHOOSE l \in byId : l.id = order[k]]
Mut_Merged(lines, snapshot) == snapshot
Merged(lines, snapshot) ==
    Ordered(ToSet(lines) \union {l \in ToSet(snapshot) : l.id \notin Numbers(lines)})

(* setLines: the first update since the last render is computed at once,   *)
(* the others wait for the render.  Computing a snapshot's update extends  *)
(* logIds.                                                                 *)
Computed(p, u) ==
    CASE u.op = "snapshot" ->
            LET merged == Merged(p.lines, u.lines)
            IN  [p EXCEPT !.lines = merged, !.ids = @ \union Numbers(merged)]
      [] u.op = "line" ->
            [p EXCEPT !.lines = TailOf(@, MaxView - 1) \o u.lines]
      [] OTHER ->
            [p EXCEPT !.lines = <<>>]
SetLines(p, u) ==
    IF p.rendering THEN [p EXCEPT !.updates = Append(@, u)]
    ELSE [Computed(p, u) EXCEPT !.rendering = TRUE]

SnapshotArrives ==
    /\ fetch.at = "sent"
    /\ page' = SetLines(page, [op |-> "snapshot", lines |-> fetch.lines])
    /\ fetch' = [at |-> "done", lines |-> <<>>]
    /\ UNCHANGED <<recorded, tailed, hub, socket, clearing, due, late>>

(* appendLine: a line whose number is known is dropped.                    *)
AppendLine(p, l) ==
    IF l.id \in p.ids THEN p
    ELSE SetLines([p EXCEPT !.ids = @ \union {l.id}], [op |-> "line", lines |-> <<l>>])

MessageArrives ==
    /\ socket.wire # <<>>
    /\ socket' = [socket EXCEPT !.wire = Tail(@)]
    /\ page' = AppendLine(page, Head(socket.wire))
    /\ late' = (late \/ \E i \in DOMAIN page.updates : page.updates[i].op = "snapshot")
    /\ UNCHANGED <<recorded, tailed, hub, fetch, clearing, due>>

(* The render computes the updates that have waited, in their order.       *)
Rendered(p) ==
    LET upto[i \in 0..Len(p.updates)] ==
          IF i = 0 THEN p ELSE Computed(upto[i - 1], p.updates[i])
    IN  upto[Len(p.updates)]
Render ==
    /\ page.rendering
    /\ page' = [Rendered(page) EXCEPT !.updates = <<>>, !.rendering = FALSE]
    /\ UNCHANGED <<recorded, tailed, hub, socket, fetch, clearing, due, late>>

-----------------------------------------------------------------------------
(* connect: what is broadcast from now on reaches the page.                *)
SocketOpens ==
    /\ socket.at = "connecting"
    /\ socket' = [socket EXCEPT !.at = "open"]
    /\ UNCHANGED <<recorded, tailed, hub, fetch, page, clearing, due, late>>

(* An attempt fails or a connection ends; what was on its way is lost.     *)
SocketCloses ==
    /\ socket.at \in {"connecting", "open"} /\ hub.next <= MaxIds
    /\ socket' = [at |-> "closed", wire |-> <<>>]
    /\ due' = due \ Numbers(socket.wire)
    /\ UNCHANGED <<recorded, tailed, hub, fetch, page, clearing, late>>

(* scheduleReconnect, after the retry delay.                               *)
Reconnect ==
    /\ socket.at = "closed"
    /\ socket' = [socket EXCEPT !.at = "connecting"]
    /\ UNCHANGED <<recorded, tailed, hub, fetch, page, clearing, due, late>>

(* clear: the hub forgets lines and keys, or the call fails, which the page*)
(* does not mind (StandaloneLogViewer.tsx:56).  One at a time (bound).     *)
ClearHub(done) ==
    /\ ~clearing /\ clearing' = TRUE
    /\ \A i \in DOMAIN page.updates : page.updates[i].op # "clear"
    /\ hub.lines # <<>>
    /\ IF done THEN /\ hub' = [hub EXCEPT !.lines = <<>>, !.seen = <<>>] /\ due' = {}
               ELSE UNCHANGED <<hub, due>>
    /\ UNCHANGED <<recorded, tailed, socket, fetch, page, late>>

(* The answer has come: the page forgets what it has by then, and what was *)
(* broadcast since the hub was cleared with it.  Only what is still on its *)
(* way, and would not be dropped as known, is left for it to show.         *)
Ahead == (Numbers(socket.wire) \ Rendered(page).ids) \union Numbers(fetch.lines)
ClearPage ==
    /\ clearing /\ clearing' = FALSE
    /\ page' = SetLines(page, [op |-> "clear", lines |-> <<>>])
    /\ due' = due \intersect Ahead
    /\ UNCHANGED <<recorded, tailed, hub, socket, fetch, late>>

StreamNext ==
    \/ \E e \in Events : RecordEvent(e)
    \/ TailReads \/ PollDashboard
    \/ TakeSnapshot \/ SnapshotFails \/ SnapshotArrives
    \/ MessageArrives \/ Render
    \/ SocketOpens \/ SocketCloses \/ Reconnect
    \/ (\E done \in BOOLEAN : ClearHub(done)) \/ ClearPage

StreamSpec == StreamInit /\ [][StreamNext]_streamVars

-----------------------------------------------------------------------------
StreamTypeOK ==
    /\ ToSet(recorded) \subseteq Events /\ tailed \in 0..Len(recorded)
    /\ Len(hub.lines) <= MaxLines /\ Len(hub.seen) <= MaxSeen
    /\ socket.at \in {"connecting", "open", "closed"}
    /\ socket.at # "open" => socket.wire = <<>>
    /\ fetch.at \in {"asked", "sent", "done"} /\ clearing \in BOOLEAN
    /\ page.updates # <<>> => page.rendering

Quiet == socket.wire = <<>> /\ fetch.at = "done" /\ ~page.rendering

(* log-buffer.test.ts:10: live lines that arrive before the snapshot is    *)
(* there are kept.  A page at rest shows every line that was broadcast     *)
(* while its socket was open or that was in the hub when its snapshot was  *)
(* taken, unless its buffer is full or a clear took it away: a clear takes *)
(* all that the page has had when its answer comes, which is more than the *)
(* hub was cleared of.                                                     *)
NothingMissed ==
    Quiet /\ Len(page.lines) < MaxView => due \subseteq Numbers(page.lines)

(* No line is shown twice, unless one came while the snapshot waited for   *)
(* its render: React may then compute the line before logIds has the       *)
(* snapshot's numbers, and UPGRADE_ARCHITECTURE.md:193-194 promises more.  *)
ShownOnce == ~late => IsInjective([i \in DOMAIN page.lines |-> page.lines[i].id])

(* The hub tells of an event once, from whichever source it learns of it   *)
(* (log-hub.test.ts:137), as long as its key is not evicted.               *)
ToldOnce ==
    Cardinality(Events) <= MaxSeen => IsInjective([i \in DOMAIN hub.lines |-> hub.lines[i].event])

ViewSound == NothingMissed /\ ShownOnce /\ ToldOnce
=============================================================================

# Formal models of lnwjud

lnwjud is a Windows-first local agent runtime. An Electron desktop owns an MCP
server, a reconnecting tunnel and a dashboard; a command line serves the same
tools on stdio; a set of packages behind both starts processes, edits files,
indexes workspaces, and talks to child MCP servers. Almost all of it is
TypeScript on one event loop: nothing runs in parallel inside a process, but
every `await` is a place where another call may come in, and the operating
system, child processes and timers answer in any order.

This directory holds TLA+ models of the parts whose correctness depends on that
order, the TLC configurations that check them on small instances, and TLAPS
proofs of the properties that matter most. `PROJECT.json` is the index: which
definition models which lines, which run checks which property, which mutation
of the code each property would notice.

    tlc -config MCDesktop.cfg MCDesktop       # a run
    tlapm MCDesktopProofs.tla                 # a proof

Conventions. An action is the code between two awaits. A field of a class is a
variable of the same name where the name is free; facts about the operating
system are variables of their own (`open`, `os`, `disk`). `Mut_X` stands beside
`X` and is a plausible bug in it, used to see that a property notices it; no
specification refers to it. Every bound is a CONSTANT given in the `.cfg`.

## 1. The system

### Components, state, operations

| Component | State it keeps | Operations | Who calls it |
|---|---|---|---|
| MCP server lifecycle (`desktop/main/mcp-lifecycle.ts`, `mcp-server/http.ts`) | handle, workspace, one start and one stop in flight | start, stop, restart, status, close | IPC, dashboard, shutdown |
| Tunnel controller (`tunnel-controller.ts`, `tunnel-exit.ts`, `tunnel-profile.ts`) | owned child, state, restart and stable timers, attempts, window | start, stop, status, exit and error events | window, dashboard, status poll |
| Desktop services (`desktop-services.ts`, `main.ts`) | selected workspace, the instances of everything else | select workspace, start/stop, close in order | IPC |
| Dashboard and log hub | history, subscribers, event ids | publish, subscribe, replay | renderer, HTTP clients |
| Tool registry (`tool-registry.ts`) with destructive policy, permission engine, activity tracker | list of tools, calls under way | invoke: look up, parse, policy, permission, execute, record | MCP transports, batch |
| Batch executor (`parallel-tool-executor.ts`) | plan, results, running set of a batch | executeBatch | tool_batch |
| Process manager (`process-manager.ts`) and process service (`process-service.ts`) | records with state, timer, exit code; owner of each | start, stop, list, logs, events of the child | process tools |
| Process log buffer (`ring-buffer.ts`) | entries, bytes, sequence, evicted | append, read from a cursor | process manager |
| Workspace index and watcher queue | stored snapshot, pending paths, workers, timer | index, watch, stop, events of the watcher | index tools |
| File service, checkpoints, atomic writer | files, checkpoints | read, write, patch, move, copy, delete, restore | file tools |
| Workspace registry and path guard | registered roots | resolve a path inside a root | every tool with a path |
| Upgrade runtime | tasks, checkpoints, plugins, session map, one state file | some 40 tools that read and write them | MCP transports |
| Context engine, pages, set of marks | ledger, revisions, cursors, marks of a screen | pack, page, observe, act | MCP transports |
| Child MCP sessions (`extensions`) | one session per server, call queue, idle timer | describe, call, sweep, close | extension tools |
| Capability backends (shell, browser, WSL, OCR, Windows, scheduler) | shell tasks, CDP requests under way | execute, wait, cancel | capability tools |
| Storage, audit, settings | SQLite tables | insert, get, list, set | everything |
| CLI, renderer, scripts | - | wiring, user interface, packaging | people |

### How they interact

* Calls: a tool call enters at a transport, passes the registry (which checks
  it and records it) and ends in one application service. `tool_batch` calls the
  registry again for its children. Nothing serialises two calls.
* Events: child processes (`spawn`, `error`, `exit`, `close`), the file watcher
  and sockets call back at any time, also for objects that have been given up.
* Timers: process timeouts, the tunnel's restart and stable timers, the debounce
  of the watcher queue, the idle sweep of the sessions.
* Shared state: the map of a class between two of its own awaits; one state file
  or index file between two of its writers; the selected workspace in the
  settings against the workspace the MCP server actually serves.

### What is hard, and what would be right

| Where | What is hard | Correct means |
|---|---|---|
| lifecycle | start, stop and restart overlap; a start may fail or a close be refused | never two servers, none that nobody can close; an answer is true when given; everybody is answered |
| process manager | timeout, exit, stop and spawn failure race for one record | the first decides; the tree is killed at most once and not after it is gone; every record ends |
| process service | the owner is known only after the spawn was awaited | only the owner stops it; a running process gets its owner |
| batch | dependencies, groups, unsafe calls, timeouts, abort | dependencies first, groups in order, one mutation at a time, no call without a result |
| tunnel, time | three clocks decide whether reconnecting is bounded | a restart after every exit, a bound on restarts, a stop that holds |
| tunnel, calls | start, stop and status await PowerShell and decide on what they saw before | one owned child, no reconnect after a stop |
| index | several savers of one file; events while a worker is busy | the index says what is on the disk; a stop drains |
| sessions | lazy connect, drop by name, idle sweep | one session per server, no session closed under a call, none left open |
| runtime state | lazy load and unserialised save | no task lost by a load that overlaps a save or by a restart |
| files, checkpoints | inspect, checkpoint, write are three steps | what a checkpoint restores is what the write replaced |
| path guard | links, parents that do not exist yet | a resolved path lies inside the root |
| log buffer | a reader's cursor against eviction | a reader is told of every gap |
| dashboard, live log | snapshots race pushes, a socket comes and goes, a tailed file is replaced | a page ends up with the present state; each line once |
| tool calls | the profile changes under a batch, a sink fails, a client leaves | judged by the profile of the moment, recorded once, answered |
| capability backends | timer, exit, cancel and a late answer race | one end per task, a tree killed when and only when the record says so |
| context engine, pages | cursors and ledger against files that change | pages tile the answer, references name what is there |
| desktop process | boot and shutdown are two chains nothing keeps apart | a window until told to quit, nothing left behind after |

`PROJECT.json` lists the hazards at the line where each bites, with the properties
that would catch it going wrong.

## 2. Modules

A module models one component; a *bench* (`MC...`) puts components side by side
for TLC. In a bench the variable `focus` chooses, once and for all, which
component a behaviour exercises; the others stay as they were created. The
components of a bench share no state in the code, so their state spaces add up
instead of multiplying and nothing is lost. Components that do interact are
composed for real: `DesktopServices` EXTENDS the lifecycle whose operations its
requests call, `ProcessService` EXTENDS the manager, `WorkspaceIndex` EXTENDS the
queue, `ToolCalls` EXTENDS the catalog of tools, and `WorkspaceRegistry` resolves
its paths with `PathGuard`.

| Module | Models | Bench, focus |
|---|---|---|
| `McpLifecycle` | `DesktopMcpLifecycle` with `startMcpHttp` | `MCDesktop`, services |
| `McpEndpoint` | what the desktop promises: one exclusive endpoint | refined by `McpLifecycle` |
| `DesktopServices` | registered, selected and served workspace | `MCDesktop`, services |
| `DesktopApp` | boot, windows, second launches, shutdown of the process | `MCDesktop`, app |
| `DashboardPages` | operations of pages, pushes, refreshes | `MCDesktop`, pages |
| `ProcessManager` | records of child processes | `MCProcesses`, manager |
| `ProcessService` | ownership on top of it | `MCProcesses`, service |
| `BatchExecutor` | `executeBatch` | `MCBatchExecutor` |
| `TunnelReconnect` | the tunnel's timers, one call at a time | `MCTunnel`, timers |
| `TunnelController` | the tunnel's overlapping calls, without time | `MCTunnel`, calls |
| `WorkspaceIndexQueue`, `WorkspaceIndex` | watcher queue; watcher, workers, JSON store | itself |
| `FileStore` | file service, checkpoints, atomic writer | `MCStores`, files |
| `RuntimeState` | the state file of the upgrade runtime | `MCStores`, runtime |
| `ContextEngine` | candidates, ledger, chains of pages | `MCStores`, context |
| `FilePages` | the two text readers and their page tokens | `MCStores`, pages |
| `LogStream` | log hub, socket and page | `MCStores`, stream |
| `LogTail` | the tail of a log file | `MCStores`, tail |
| `PathGuard`, `WorkspaceRegistry` | guard as an operator over a disk with links; the table of roots | `MCStores`, registry |
| `ExtensionCatalog` | skills and child servers found on the disk | `MCStores`, catalog |
| `OutputBuffers` | ring of log lines, captures of tasks | `MCStores`, buffers |
| `McpSessions` | child MCP servers: connect, queue, drop, sweep | `MCServices`, sessions |
| `ShellTasks` | shell and WSL tasks | `MCServices`, tasks |
| `BrowserSession` | CDP requests against a Chrome that comes and goes | `MCServices`, browser |
| `Capabilities` | native bridge, OCR, web, scheduled tasks, health | `MCServices`, backends |
| `MarkedActions` | set of marks | `MCServices`, marks |
| `ToolCatalog`, `ToolCalls` | tables and policies; a call from request to answer | `MCServices`, tools |
| `Selections` | `filter`, `flat` and sums of a sequence by definitions that can be reasoned about | used by the modules that select or join |
| `MCReads` | the part of the bench `MCStores` whose components pass text on: the context engine, pages, buffers, stream and tail | extended by `MCStores` |
| `MCLookups` | the part of it whose components look up what a client names: registry with guard, catalog | extended by `MCStores` |
| `*Proofs`, `SequenceLemmas` | theorems about the bench or modules they extend; `BackgroundProofs` is about the index and the tunnel | |

### The desktop
`McpLifecycle`: `startOp` and `stopOp` stand for `startOperation` and
`stopOperation` together with how far `startInternal` and `stopInternal` have
come; `client[c]` is where a caller is (a restart is a stop followed by a start,
with an await between). `open[p]` is the truth about the sockets.
`QueuesBehindStop` and `SharesStart` are the early returns of `start`; a start that
shares another's promise is answered for the workspace of that one. The workspace
lookup or `listen` may reject, `server.close` may reject or drain for any time.

`DesktopServices`: a request of the renderer awaits the sync of the machine roots,
registers or selects, then asks the lifecycle, with awaits between; the selection
is a stored setting and the served workspace a field of the lifecycle. `strayed` is
history: two requests overlapped, one failed, or a start named another workspace
than the selected one. `DesktopApp` is the process: two chains of awaits (boot,
shutdown), the windows, the tray, second launches, and Electron, which ends the
process the second time it is told to quit; `mode` is the desktop or
`--log-viewer`. `DashboardPages` numbers the states of the services; a dashboard is
a number that was current when it was read, and snapshots overtake one another.

### Processes, batch, tunnel, index
`ProcessManager`: `state`, `timer`, `exitCode` are the record, `os` is the child and
the events it still owes, `kills` and `killing` count and time the `taskkill`.
`ProcessService` adds the calls in flight and `owners`; it has no name for a process
before the spawn event.

`BatchExecutor`: the plan is data (`Plans`). `wave` is what the current
`Promise.all` awaits, `outcome` how each race ended, `running` the invocations still
at work, which a timeout does not end. Results are their status only.

`TunnelReconnect` keeps time in ticks of `Delay` (3 s), with `Window` and `MaxDelay`
ten of them, and takes calls one by one. `TunnelController` drops time (a restart
timer fires at any moment) and lets start, stop, status, the reconnect and child
events overlap; a probe for a foreign tunnel may answer either way.

`WorkspaceIndexQueue`: `pending` is the map in insertion order; a *frame* is a
`flush()` that awaits workers it started; `drain` is the stop or watch that drains. A
`flush()` entered with all workers busy and something pending overflows the stack,
an action of its own; where a timer called it nobody handles the rejection, which ends
a process of plain Node (`Dies`) with what is pending, while Electron's main process
warns and goes on. `WorkspaceIndex` gives the workers their work: load, look,
open, write, rename, on one temporary file per process. An opened file keeps its
identity when it is renamed (`out`), so that a late write may land in the published
index. `raced` is history: whether two savers were ever at work together.

### Stores
`FileStore`: one action per await of write, patch, restore, move, copy and delete; a
content is a number used once, and for each text there is a content that is not UTF-8
and decodes to it (`Decoded`): only the first 8192 bytes are searched for a NUL, so a
checkpoint may hold less than what was overwritten. A checkpoint is a function from
paths to texts. The process may end between any two steps. `RuntimeState`: the lazy
load, whose flag is set before the file is read, and the write of the whole state in
place; an end of the process in a write leaves a torn file, which does not parse. There
are several services on the one file, as every tool registry makes its own
(tool-registry.ts:68, upgrade-tools.ts:15): each HTTP request has one (http.ts:157-160),
and so has each stdio server (stdio.ts:21-24), of the desktop (desktop-services.ts:165)
and of the command line (stdio-mcp-runtime.ts:131). Each loads the file once and then
writes all it has. `ContextEngine`:
candidates are ranked, prepared against the ledger (`prints` finds an entry by
fingerprint) and cut into pages by count and by bytes; one-use tokens continue a
chain. `FilePages`: the cut of a file into pages by lines, then by bytes, with the
last line that may lack its newline. `LogStream`: numbering and keys in the hub, what
is on the wire, the snapshot that races the live lines, the lines a page renders, and
a clear, which empties the hub and, after the answer, the page.
`LogTail`: offset, pending half line and descriptor against a file that is appended
to, truncated or replaced. `PathGuard` follows links in a small disk, component by
component; `WorkspaceRegistry` has two processes that sync the same rows from lists
they read earlier. `ExtensionCatalog` reads place by place while the places are
edited. `OutputBuffers` writes the same pieces to the ring and to the captures; a piece
that is cut within a character grows by up to `Growth` bytes, as each byte left of it
becomes a replacement character of three. A disk may have a drive that is a link: a
substituted or mapped drive is another name of a directory.

### Services
`McpSessions` is the life of one server name: calls connect lazily, queue behind each
other, drop the session by name when they fail, and an idle sweep closes it; time is in
ticks. `ShellTasks` keeps `setTimeout` as a list of timers, oldest first, which is why a
foreground run whose timer falls due together with the task's sees the task ended.
`BrowserSession` runs step lists, each step on a socket with a timer of its own.
`Capabilities` has "error" and "close" of a child as separate events beside the timer.
`MarkedActions`: capture and act are chains of calls, the screen changes between any
two; the bridge looks for the name of a mark, and where nothing in the window bears it,
for its automation id (windows-capability-bridge.ps1:198-213). `ToolCalls` follows a
call through recording, the two policies, the execution (of a batch: calls of its own),
the sinks, the heartbeat and the writing of the answer, while the user switches the
profile; `ToolCatalog` is the table of the tools, as sets of names, and the two policies
as operators on the words of a command. Beside the policy stands what README.md:98-102
of the repository says of git and shells (`Claimed`), and the forms in which the two
differ (`Overlooked`).

## 3. Runs

| Run | Properties | Shows |
|---|---|---|
| `desktop` | `MainTypeOK`, `EndpointHeld`, `SelectionServed`, `AppSound`, `AnswersTrue`, `ImplementsEndpoint`, `DesktopAnswers` | no server escapes the lifecycle, "running" and "stopped" are true when they are answered, the lifecycle implements `McpEndpoint`; the selection is what is served; the desktop keeps its window until told to quit and leaves nothing behind; pages at rest show the present state; requests are answered, a quit ends, pages converge |
| `processes` | `ServiceTypeOK`, `KilledOnce`, `ServedNoStrayTimer`, `TerminalIsFinal`, `ServedOnlyOwnerStops`, `RecordsEndOwned` | the first event decides, a tree is killed once or never, only the owner stops, records end and running processes get their owner |
| `batch` | `BatchTypeOK`, `OrderHonoured`, `UnsafeAlone`, `NothingForgotten`, `AbortStartsNothing`, `BatchEnds` | dependencies and groups in order, one mutation at a time (abandoned ones aside), no call without a result, nothing started after an abort, termination |
| `tunnel` | `TunnelTypeOK`, `ReconnectUntilStopped`, `ExitLeadsToRestart`, `StopOutlivesReconnect`, `StartingEnds` | a restart after every exit until a stop, no reconnect outlives a stop, "starting" ends or the caller hears why not |
| `index` | `IndexTypeOK`, `IndexCurrentAlone`, `StopDrains`, `QueueWorksOff` | updates are taken up, a stop that succeeds leaves an empty queue, drains end, and the index says what is on the disk where savers do not overlap; an update is lost only with the process that the overflow of a timer ends |
| `stores` | `StoresTypeOK`, `ContentKept`, `AnsweredIsStored`, `ReadsSound`, `LookupsTrue`, `ViewSound` | no content is lost but on request (what is not UTF-8 is kept as decoded); what was answered is stored; ledger, pages and buffers are sound; the guard lets through what lies inside, paths are located in the innermost workspace, a sync leaves a workspace for every drive and fails for known reasons only, catalogs are true and complete; the log page shows each line once |
| `services` | `ServicesTypeOK`, `SessionsSound`, `CallsSound`, `BackendsSound`, `CapabilityAnswersTrue`, `ServicesAnswer` | no session closed under a call and none lost; calls sanctioned, accounted for, quieted; trees killed exactly when recorded; a marked action lands on a control of the mark's name or automation id; answers true; every request answered as far as the code can see to it |
| `batch_mutations` | `MutationsSerialized` (violated) | finding 3 |
| `tunnel_exits` | `ReconnectsBounded` (violated) | finding 1 |
| `tunnel_owner` | `OwnsItsChild` (violated) | finding 2 |
| `index_overlap` | `IndexCurrent` (violated) | finding 4 |
| `index_stop` | `StopNeverFails` (violated) | finding 5 |

### Bounds
Every bound is a constant of its cfg, and is one more than what the hazard needs or
the least at which it happens.

* `desktop`: two callers let every pair of operations meet, and as a restart is two
  operations, three do; two ports are what a leak needs; three requests are a
  selection between the two halves of another; two further launches come before and
  during the shutdown; two changes are what it takes for an older snapshot to
  overtake a newer one.
* `processes`: two processes show that records are independent; the races are inside
  one. Two clients in two workspaces tell an owner from a neighbour either way.
* `batch`: three calls are the smallest plan with a wave, a dependency across waves
  and a cycle that is not a self-loop.
* `tunnel`: the ratios of delay, window and cap are those of the code.
* `index`: two files and two workers are a lost update; three changes are one more
  than there are workers, which the overflow needs.
* `stores`: two files and three contents are a patch of which the second file fails;
  two services with two requests each write in turn, overlap and start anew, and two
  tool calls are one each, or one on either side of a restart; a ledger of two
  entries and three bytes evicts by count and by size; three lines and pages of one
  or two cut in every place; three log ids make the hub evict; the tail's window and
  chunk are smaller than the file; the disk has links to both sides of a workspace
  border and one to nothing, and of three drives one is another name of a directory; a
  piece larger than the ring splits a character at any of its bytes.
* `services`: three calls on one server are one that runs, one queued, one that
  connects; the call timeout is one tick and the idle timeout two, keeping the order
  of the defaults, on which the sweep relies; one task with two callers
  waits, cancels and times out; the four requests are one that is blocked, one that is
  confirmed, a git command behind an option, and a batch whose children are a deletion,
  a write, and the two commands that the policy overlooks; the screens have two
  controls of one automation id, one without a name and a window without controls.

Symmetry is used in `stores` only, for its two file requests: that run checks
invariants alone, while the others check liveness or temporal properties.
`CONSTRAINT NoClash` in `stores` cuts behaviours in which two file requests have met
on a path: `ContentKept` says nothing of those. Deadlock checking is off where the
modelled thing may rightly stop: a batch ends, identifiers are used up, a bound is
reached.

### What the histories exempt
Some properties hold only where a named thing has not happened, which a history
variable records. Each of them is a real gap of the code, and none is an artefact of
the model:

* `clash` (`FileStore`): a second request changed a path between the inspection and
  the write of another; the first one's checkpoint is then not what it overwrote.
* `overlapped`, `failed`, `current` (`RuntimeState`): a request during the load works on
  an empty state and writes it over the file; two writes, or one cut short, leave a torn
  file; a service that writes without having read what another one has written since
  (it is not `current`) takes that out of the file again, although the two never overlap.
* `raced` (`McpSessions`): two first calls each start a child and one is never closed;
  a child that fails to list its tools is left behind as well. (`WorkspaceIndex`): two
  savers overlap, finding 4.
* `strayed` (`DesktopServices`): overlapping selections, or a restart that fails, leave
  another workspace served than the selected one.
* `spoiled` (`DesktopApp`): a close that fails, a second quit in the middle of the
  shutdown, or a boot that goes on during it, leave a tunnel or an open database.
* `blurred` (`DashboardPages`, `LogTail`): an older snapshot arrives after a newer one
  and the page shows it until its interval; the tailed file was exchanged between two
  looks.
* `late` (`LogStream`): a line that comes between the snapshot and its render is shown
  twice. (`due`): a line that comes between the clearing of the hub and that of the page
  is wiped from the page, and `ClearPage` no longer counts it as due.
* `ended` (`WorkspaceIndex`): the overflow of a timer has ended the process; what was
  pending is lost, and the index stays stale until it is built anew.
* `cut` (`WorkspaceRegistry`): the other process deleted a row in the middle of a sync.

Others exempt a case by its state: `PagesLossless` leaves out files above the
read limit (in a trusted workspace a reader without ranges takes over, and every page
begins at the top of the file again) and empty lines under a byte target, which are
dropped at the top of a page;
`ToldOnce` keys that were evicted; `PathsResolved` a workspace registered under a
second name of its root; `CleanExit` a start of the tunnel still at work; `Kept` (`FileStore`)
asks of a content that is not UTF-8 only for its decoded text; `FailsOnlyByRace` leaves out a drive
that is another name of a directory (`AnotherName`); `Sanctioned` the forms of a command
that the policy overlooks (`Overlooked`).

### Fairness
Only what the runtime guarantees: code that has begun is continued, an await on the
operating system is answered, an armed timer fires, Node delivers the events of a
child, an interval of a page ticks, `fetch` ends within its own limits, the SDK settles
the close of a child server. The awaits on the operating system are those of the
lifecycle (listen, and a close, which waits for open connections), of files, and of the
`taskkill` that the process manager awaits in `stop`. Not assumed: that anybody calls,
that a child process exits (records and tasks end through their timeouts), or does so
once it was killed (`taskkill` may fail, and "close" waits for whoever holds the pipes),
that `schtasks` ends or the `taskkill` of a shell task, that a tool answers when its
call has a timeout (`BatchEnds` needs the answer only of calls without one), that a
server or Chrome answers (timers and deadlines do), that a client waits for its answer.
So `ServicesAnswer` says of a capability that it is answered or that its time was up and
its child killed, of a shell task that its waiting callers are answered, and of a tool
call that it comes to its tool or to its answer. In a bench the components out
of focus have no step to take, and so no fairness to be owed.

## 4. Findings

1. `tunnel_exits`: restarts of a child that exits at once are 3, 6, 12 and 24 s
   apart; the fifth exit falls outside the 30 s window, so the count restarts and
   the pause after five attempts is unreachable. The documents promise bounded
   attempts. That the pause is unreachable is also a theorem (`PauseUnreachable`).
   A child that cannot be spawned at all is not counted either.
2. `tunnel_owner`: `start()` looks for a child before its awaits and spawns after
   them; two starts spawn two children.
3. `batch_mutations`: the timeout of a side-effecting child abandons the tool, it
   does not end it, and the next side-effecting child starts beside it.
4. `index_overlap`: workers of the queue save whole snapshots without a lock,
   through one temporary file.
5. `index_stop`: `flush()` recurses without end while all workers are busy. A stop then
   fails; called by the timer, it ends the stdio process, with the updates still pending.

Beside these, and beside what the histories of section 3 exempt:

* `stop()` of the tunnel clears the key that an overtaking `start()` has just set
  (tunnel-controller.ts:197); `mkdir` in `start()` may leave it in "starting", and only
  its caller hears of it (175).
* README.md:98-102 of the repository says that destructive forms of git are confirmed:
  `git -C dir reset --hard` is not, since the policy takes the first argument without a
  dash for the subcommand (destructive-policy.ts:87-89), nor is `git rm` through
  PowerShell, which is cut out before the patterns are tried (125). Without `Overlooked`
  in `Claimed` the run `services` ends in such a call.
* docs/architecture/UPGRADE_ARCHITECTURE.md:193-194 says that the page deduplicates by
  line id: not where a line comes between the snapshot and its render (`late`), as the
  ids of the snapshot are known only once it is rendered (StandaloneLogViewer.tsx:19-33).
  Lines 256-258 say that a caller resumes "without silently skipping": an empty line at
  the top of a page with a byte target is skipped, and above the read limit every page
  begins at the top.
* A checkpoint of a file that is not UTF-8, binary ones without a NUL in their first 8192
  bytes included, holds replacement characters for the bytes that do not decode
  (checkpoint-service.ts:113-114); its hash is that of the decoded text, so a restore does
  not notice.
* Two services on upgrade-runtime.json lose each other's tasks, without any overlap: the
  second to write never reads what the first one wrote (upgrade-runtime.ts:478-510).
* A sync looks for a drive among the real paths of the workspaces (machine-root-sync.ts:29,
  48) while the table is unique in their roots (001_initial.sql:4): of a substituted or
  mapped drive, every start but the first fails. In the desktop the failure is memoised
  (desktop-services.ts:154), so that every later request fails as well.
* Each chunk of output is decoded alone (process-manager.ts:59-60): a character that
  comes in two chunks is lost, and no flag tells of it.
* Nobody listens for the error of the Chrome that `launch` spawns
  (browser-cdp-protocol.ts:80); where the program is missing the error ends the process.
* The context ledger records what was read, not what was sent: a page cut by its byte
  target, or one delivered as metadata only, leaves entries that later answer
  "unchanged" for content the client has never had (context-engine.ts 545-566).
* A second `drain()` of the watcher queue replaces the `wake` of the first; overlapping
  watch and stop calls of one workspace share one entry (workspace-index.ts:157); a path
  that cannot be read for a moment is dropped by its worker (120).
* `taskkill` may fail or miss children of the tree, after the record said "stopped"
  (windows-process-tree.ts:15); records of finished processes are never removed
  (process-manager.ts:58).
* `http.ts` waits for the drain of a response whose client may have left, so a call is
  answered only if its client waits for it.

## 5. Proofs

TLAPS proves for every value of the constants, from the named assumptions in the
modules: `NoneAssumption`, `OwnerAssumption`, `QueueAssumption` and `IndexAssumption`
(names of things differ), `RootsAssumption` (the machine root and its drives are
workspaces), `BatchAssumption` and `PlansAssumption` (a plan is a plan),
`TimingAssumption`, `SessionsAssumption`, `BoundsAssumption`, `ServicesAssumption`,
`ScreensAssumption` (a screen is a sequence of controls), `ReadsAssumption` and
`StoresAssumption` (bounds, sizes and delays are numbers; a patch may have two files,
since a move has two paths; a page of a file has room for a line and a page of the live
log for one; the keys of events are finitely many), and `LookupsAssumption`: a disk
consists of directories, files and links, and its drives are directories or links that
lead to one, which is what `lstat` can answer; the rows the program starts with hold the
real path of their root beside it, since `addWorkspace` stores both and the disk of the
model does not change; a skill root and a configuration file are places of different
names. TLC evaluates each of them in a run.

A proof of `Spec => []Inv` goes through an inductive invariant; TLC checked each one as
an invariant of the run before it was proved. In a bench each component has one of its
own, and a step of one component is a stutter of the others.

* **MCDesktopProofs**. `NeverLeaks`, `StatusAlwaysLive`, `EndpointAlwaysHeld`,
  `AnswersAlwaysTrue`, `Refinement`: that no server leaks is not inductive by itself,
  since whether a start that assigns overwrites a live handle depends on where the stop
  is. `IInv` adds `FieldsAgree` (handle and workspace are set and cleared together),
  `StartPhase` (how far a start is decides whether a handle exists), `StopPhase` (a stop
  past the wait for the start works on a handle no start can touch) and `OpenAccounted`
  (the listening servers are exactly those the fields account for). The refinement maps
  the open ports to `up`; every action but `ServerListens` and `ServerStopsListening` is
  a stutter. `SelectionAlwaysServed`: `ServicesInv` adds which phase of the lifecycle
  belongs to which phase of the one request (`RequestsFit`), and, as long as nothing has
  `strayed`, that a request on its way and the lifecycle name the same workspace
  (`OnCourse`). `ServicesAreCallers` and `BenchServes` are refinements: the services use
  the lifecycle as any caller may, and the bench runs the services, so that all these
  theorems hold in it. `MainTyped`, `AppStaysSound`: `AppInv` (`BootFits`,
  `ClosesInOrder`) ties the boot chain to the shutdown chain, `PagesInv` says that no
  snapshot on its way is ahead of the services (`NoneAhead`) and that a page which has
  missed nothing shows the present one or has it coming (`Followed`).
* **ExecutionProofs**. Processes: `AlwaysKilledOnce`, `FinalStays`, `NeverKillsClosed`:
  `RecordFollowsChild` says that a record still open has a child still open, so `stop`
  and the timer never find an open record over a closed child. `ServiceTyped`,
  `NoTimerStrays`, `OwnerStops`: every step of the service is a step of the manager or
  none (`StepOfManager`), so the manager's invariant carries over; `ServiceInv` adds
  `UnbornUnowned` (before its spawn event is handled nobody owns a process or is about
  to) and `LaunchedStarting` (so the timer that this event arms is never armed for a
  finished record).
  Batches: `DependenciesHonoured`, `OrderAlwaysHonoured`,
  `SetsSequential`, `UnsafeOverlapsOnlyAbandoned`, `EveryCallAccounted`, `ResultsStand`,
  `AbortStops`, `BatchTyped`, for any set of plans. `Bookkeeping` says which of pending,
  wave and results a call is in; `WaveAlone` that an unsafe call has its wave to itself;
  `RunningKnown` that whatever still runs is in the wave or was abandoned.
* **BackgroundProofs**, the tunnel. `PauseUnreachable` and `ReconnectsUntilStopped` assume only that
  the backoff outlasts the window (`BackoffOutlastsWindow`: 15 delays exceed it, the
  fourth is not capped), `StopIsFinal` nothing. `WindowHoldsDelays` is the arithmetic:
  after k exits the age of the window is at least the sum of the delays that have
  passed. `TunnelTyped`, `StopAlwaysDisarms`, `StopOutlives`, for any callers and
  children: a stop disarms the timer in the step in which it begins to stand, an exit
  that was intended does not reconnect, and a callback that was under way finds the
  stop when it resumes.
* **BackgroundProofs**, the index. `IndexTyped`, `IndexStaysCurrent`, `StopsDrain`. The
  invariant has two layers. `QueueInv` is about the queue alone: paths are pending once,
  there are never more workers than the concurrency, and a drain is going on only for a
  watcher that was closed. On it, as long as no two savers have overlapped, stands
  `Sound`: `OneSaver` (the temporary file belongs to the only saver, so the index file is
  always whole), `StoredCurrent` (a path the index is wrong about is yet to be announced,
  pending, missed or in a worker's hands) and `SnapsCurrent` (so is a path that the
  snapshot about to be saved is wrong about, and a worker past its look is right about
  its own).
* **MCServicesProofs**. `SweepSpares` and `ChildReachable` for the sessions alone,
  where `UsedByCall` compares two clocks (the session in the map was used no earlier than
  the call on it began, so it is idle no longer than a call may take) and `MakesAlone`
  says that who makes a session is the only one to, over an empty entry. In the bench:
  `ServicesTyped`, `SessionsKeepSound`, `CallsKeepSound` (the profile of the moment, one
  record per sink and call, no heartbeat that outlives its call), `BackendsKeepSound`
  (`TasksInv`: a task has its timer exactly while it runs, and the delay of a foreground
  run stands behind it in the order of `setTimeout`; `BrowserInv`: a socket is open only
  for a request that is at one, and a step fails only as the last; `MarksInv`: what an
  action is about to do is the target of a mark that was observed; `ToolsInv`, with the
  lemma `ClaimedDestructive`: what README.md:98-102 claims and the policy does not overlook
  is destructive to the policy) and
  `CapabilitiesAnswerTrue`.
* **MCStoresProofs**. `ContentAlwaysKept`, for any files, requests and contents.
  `FilesFit` says what a request holds at each of its steps, and that a checkpoint
  covers some files of one patch (so that its restore is no longer than a patch). What
  counts is `Ready`, which holds of every request until another one changes its paths: a
  patch has noted each existing file it has passed (`Noted`), has read what is still on
  the disk, and once its checkpoint is inserted the files it has still to write are in
  one with their present content (`Kept`); the destination of a move or copy is free
  when it commits, and a move across devices has its copy before it removes the source.
  So a write, a move and a removal take nothing that is not elsewhere (`DiskMoves`), and
  a crash, which forgets every request, loses nothing either. `AnsweredStaysStored`, for
  any services, requests, identifiers and plugins: `LoadsAlone` and `WritesAlone` say
  what the histories buy: nobody of a service is at work beside its load, nobody writes
  beside a write, and what is being written has everything that was answered;
  `MemoryKnows` that the maps of a `current` service have it as soon as the file is
  loaded. `StoresTyped`, the type invariant of the whole bench: `RuntimeTyped` says that
  a request carries an identifier of its own kind (`RightId`: a task's for a task, a
  plugin's for a plugin), without which the maps it writes would not be maps of tasks
  and of plugins. `StoresInv` joins the components in the bench.
* **MCLookupsProofs** and **MCStoresProofs**: `LookupsAlwaysTrue`, for any disk, drives,
  stored rows, inputs, folders and edits. *Guard*: `GuardIs` is `GuardRight` for every
  disk and every input. It rests on what the walk through the links does: `Realpath`
  ends at something that exists and is no link, and of what lies in a directory that is
  its own real path it says nothing new (the lemmas about `Stops`, `Follow` and
  `Enter`); so a path that is let through for a write is one whose nearest parent that
  exists really lies inside (`Ahead`), and then so does the place where the write lands
  (`LandsAhead`). *Registry*: `RegistryInv` says that the rows are roots with their real
  paths and ids given once (`TableKept`); that what a runtime has yet to add was not in
  the list it decided on, so an insertion fails only over a row that came later, or of a
  drive with another name (`ActorKeeps`); and that a drive of the mode is registered or
  still to be added until another process deletes a row (`ActorDrives`). `InnermostIs`
  is the choice of the longest root: of the workspaces around a path it is within every
  other. *Catalog*: `CatalogInv` says of a search under way that what it has was there
  at some moment since it began (`GotTrue`), and that where nobody edits it is exactly
  what the places read so far hold, the first place counting (`ReadUpto`); the answer is
  the search when no place is left.
* **MCReadsProofs** and **MCStoresProofs**, the readers of the same bench:
  `ReadsAlwaysSound`, for any files, places, requests and sizes. *Context*: an entry of
  the ledger that is kept has its place and its content once, and the bytes of the kept
  ones are their sum, which `Remember` keeps under the bound; a chain is what was given,
  what was selected and what remains, which together are always the candidates it began
  with, each once. *Pages*: a token stands where the last page ended, so that the pages
  given so far are the first lines of the file and their bytes are within the limit or one
  line. *Buffers*: the ring holds the last pieces without a gap, the cursor of a follower
  is between its first and its last number or the follower has been told, and what was
  removed is what the counters say. The lemmas follow the code through its loops:
  `AppendAll`, the cutting of a page, the sum of the kept bytes.
* **MCReadsProofs**, the live log and the tail: `ViewAlwaysSound`. *Stream*: `StreamInv`
  says what the page will show after its next render, `Rendered(page)`, and reasons about
  that: the lines that are due are there or on their way (`StillShown`), the page knows
  the numbers of its lines and none the hub has yet to give (`Known`, `IdsBelow`), a
  snapshot waits for a render at most once (`SnapshotOnce`), and no line is there twice
  as long as none came while it waited (`BothApart`). For the hub, a key is never evicted
  while there is room for all events (a pigeonhole over the keys seen), so `FeedIfNew`
  numbers an event once; `RenderedAppend` says that an update computed at once is the one
  computed by the render, and `RenderedLike` that a render only depends on what the page
  has. *Tail*: `TailInv` says that what was passed on, together with the half line that
  waits, is what the file held from where the tail began to its offset (`TailHolds`), and
  that half a line waits only up to the offset (`Waits`); `CutKeeps` is the cut of a text
  into lines, which neither loses nor adds anything.
* **SequenceLemmas** has what these proofs need of sequences that lose, keep or gain
  elements: `FiltersExist` and `SelectedIs` show that the operator `Selected` of
  `Selections` keeps exactly the elements asked for and their order. `RecursionExists`
  says that a loop over a sequence, written as a function of the number of elements it
  has passed, has a result, and `RecursionKeeps` that what each pass keeps holds of it;
  `Total`, `Flattened` and the cut of a page are instances. Where an induction is needed
  it goes over a set of numbers (`NatSetInduction`, from the least element).

Every safety invariant that a passing run checks is the statement of a theorem. Only
model-checked: everything under fairness (`DesktopAnswers`, `RecordsEndOwned`,
`BatchEnds`, `ExitLeadsToRestart`, `StartingEnds`, `QueueWorksOff`, `ServicesAnswer`),
since the prover has no means for liveness under fairness, and what the five runs
find violated.

## 6. Not modelled

`PROJECT.json` lists every component with its status. Left out are:

* components that keep no state which another call could meet halfway: the directory
  tree reader, the application queries, the executable lookup, the adapters that run
  git, search, codex or a project's tools and parse what they print, the thin SQLite
  repositories, the table of the upgrade catalog beyond the levels and annotations of
  its tools, the plan of a sandboxed Windows session;
* the runtime cache and the lifecycle hooks, which the running program does not use;
* wiring and types: the command line and the stdio runtime, the construction of the
  backends, the IPC contracts, build and release scripts;
* inside modelled components: the HTTP headers and the SDK behind the transports, the
  schemas of inputs, parsing of log lines and configuration, the layout of windows,
  update dialogs, static files and exports of the dashboard, `removePath` of the index
  (nothing enqueues a deletion) and overlapping calls of its watch and stop, `wsl_fs`,
  upper and lower case of paths, and a disk that changes while the guard follows it.

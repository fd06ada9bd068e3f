-------------------------- MODULE WorkspaceRegistry --------------------------
(***************************************************************************)
(* The registered workspaces: a table in SQLite (storage/src/              *)
(* workspace-repository.ts) which the desktop app and the stdio runtimes   *)
(* of one user share.  Each registers the drives when it starts            *)
(* (application/src/machine-root-sync.ts) and directories when it is asked *)
(* to (workspace/src/workspace-service.ts, workspace-info-service.ts and   *)
(* desktop-services.ts); a stdio runtime may be told to empty the table    *)
(* first.  An actor works on the list it has read until it is done.        *)
(***************************************************************************)
EXTENDS PathGuard, FiniteSets

CONSTANTS Runtimes,   \* processes that share the database
          Desktop,    \* the one of them that is the desktop app
          Drives,     \* the drives, in the order of their letters
          Disk,       \* what is there
          Earlier,    \* what the table may hold from earlier sessions
          Places,     \* what requests want to register
          Inputs,     \* the paths requests ask for
          MaxRows     \* bound: workspaces ever registered

VARIABLES
    unrestricted, \* the mode, read when a process starts
    rows,         \* the table, in the order of insertion
    ids,          \* identifiers given out
    actor,        \* per process: at, what it does, the list it read, what is left, and
                  \* (history) whether another one has deleted a row meanwhile
    roots,        \* machineRootReady of the desktop app
    found         \* the last path asked for and what came of it

registryVars == <<unrestricted, rows, ids, actor, roots, found>>

Resting == [at |-> "idle", does |-> "", seen |-> <<>>, left |-> <<>>, answer |-> 0, cut |-> FALSE]
NotAsked == [is |-> FALSE]
RegistryInit ==
    /\ unrestricted \in BOOLEAN
    /\ rows \in Earlier /\ ids = Len(rows)
    /\ actor = [r \in Runtimes |-> Resting]
    /\ roots = "unread"
    /\ found = NotAsked

IsDriveRoot(p) == Len(p) = 1
Exists(p) == p \in DOMAIN Disk /\ Realpath(Disk, p) # Nowhere
Row(passing) == IF passing = <<>> THEN 0 ELSE passing[1].id
RowOf(list, p) == Row(Selected(list, {w \in Words(list) : w.real = p}))
Becomes(r, next) ==
    /\ actor' = [actor EXCEPT ![r] = next]
    /\ roots' = IF r = Desktop /\ next.does = "sync" THEN next.at ELSE roots

-----------------------------------------------------------------------------
(* syncMachineRoots begins with the list.  Unrestricted, every drive that  *)
(* is not in it is added; otherwise the other drives go, and E: is added.  *)
(* The list is searched for the real path of a row: a drive that is only   *)
(* another name of a directory (subst, a mapped drive) is never found      *)
(* there.  The desktop app does this once, whatever comes of it.           *)
BeginSync(r) ==
    /\ actor[r].at = "idle" /\ (r = Desktop => roots = "unread")
    /\ LET missing == Selected(Drives, {d \in Words(Drives) : RowOf(rows, d) = 0})
           others  == Selected(rows, {w \in Words(rows) : IsDriveRoot(w.real) /\ w.real # <<"E">>})
       IN  Becomes(r, IF unrestricted
                      THEN [Resting EXCEPT !.at = "adding", !.does = "sync", !.seen = rows, !.left = missing,
                                           !.answer = Row(Selected(rows, {w \in Words(rows) : w.real \in Words(Drives)}))]
                      ELSE [Resting EXCEPT !.at = "pruning", !.does = "sync", !.left = others])
    /\ UNCHANGED <<unrestricted, rows, ids, found>>

(* --reset-workspaces: every row of the list is deleted, then the sync.    *)
BeginReset(r) ==
    /\ actor[r].at = "idle" /\ r # Desktop /\ rows # <<>>
    /\ Becomes(r, [Resting EXCEPT !.at = "resetting", !.does = "reset", !.left = rows])
    /\ UNCHANGED <<unrestricted, rows, ids, found>>

Prune(r) ==
    /\ actor[r].at \in {"pruning", "resetting"} /\ actor[r].left # <<>>
    /\ rows' = Selected(rows, {w \in Words(rows) : w.id # Head(actor[r].left).id})
    /\ actor' = [s \in Runtimes |-> IF s = r THEN [actor[r] EXCEPT !.left = Tail(@)]
                                             ELSE [actor[s] EXCEPT !.cut = @ \/ actor[s].at # "idle"]]
    /\ UNCHANGED <<unrestricted, ids, roots, found>>

ResetEnds(r) ==
    /\ actor[r].at = "resetting" /\ actor[r].left = <<>>
    /\ Becomes(r, Resting)
    /\ UNCHANGED <<unrestricted, rows, ids, found>>

PruneEnds(r) ==
    /\ actor[r].at = "pruning" /\ actor[r].left = <<>>
    /\ LET known == RowOf(rows, <<"E">>)
       IN  Becomes(r, [actor[r] EXCEPT !.at = IF known = 0 /\ Exists(<<"E">>) THEN "adding" ELSE "ok",
                                       !.seen = rows, !.left = <<<<"E">>>>, !.answer = known])
    /\ UNCHANGED <<unrestricted, rows, ids, found>>

-----------------------------------------------------------------------------
(* register looks for the directory in the list, ensureDefaultWorkspace    *)
(* too, or takes the selected one, here the first; addWorkspace does not   *)
(* look.  The desktop app waits for the drives before, and fails for ever  *)
(* if they did.                                                            *)
Mut_Known(does, p) == 0
Known(does, p) ==
    CASE does = "register" -> Row(Selected(rows, {w \in Words(rows) : w.real = p \/ w.root = p}))
      [] does = "default" /\ RowOf(rows, p) = 0 /\ rows # <<>> -> rows[1].id
      [] does = "default" /\ (RowOf(rows, p) # 0 \/ rows = <<>>) -> RowOf(rows, p)
      [] OTHER -> 0
Ask(r, does, p) ==
    /\ actor[r].at = "idle"
    /\ IF does = "register" THEN \E i \in DOMAIN rows : IsDriveRoot(rows[i].real) /\ (unrestricted \/ rows[i].real = <<"E">>)
                            ELSE r = Desktop /\ roots \in {"ok", "failed"}
    /\ LET known == Known(does, p)
       IN  Becomes(r, [Resting EXCEPT !.at = CASE does # "register" /\ roots = "failed" -> "failed"
                                               [] ~unrestricted /\ p[1] # "E" -> "refused"
                                               [] known # 0 -> "ok"
                                               [] OTHER -> "adding",
                                      !.does = IF does # "register" /\ roots = "failed" THEN "unready" ELSE does,
                                      !.seen = rows, !.left = <<p>>, !.answer = known])
    /\ UNCHANGED <<unrestricted, rows, ids, found>>

(* add: the directory is looked at, then inserted; the table takes a root  *)
(* path once and throws otherwise.  A sync goes on with the next drive.    *)
Add(r) ==
    /\ actor[r].at = "adding" /\ actor[r].left # <<>>
    /\ LET p     == Head(actor[r].left)
           real  == Realpath(Disk, p)
           taken == \E i \in DOMAIN rows : rows[i].root = p
           rest  == Tail(actor[r].left)
       IN  IF real = Nowhere \/ Disk[real].kind # "dir"
           THEN /\ Becomes(r, [actor[r] EXCEPT !.at = IF @ = "adding" /\ rest # <<>> THEN @ ELSE "refused",
                                               !.left = rest])
                /\ UNCHANGED <<rows, ids>>
           ELSE IF taken
           THEN Becomes(r, [actor[r] EXCEPT !.at = "failed"]) /\ UNCHANGED <<rows, ids>>
           ELSE /\ ids < MaxRows /\ ids' = ids + 1
                /\ rows' = Append(rows, [id |-> ids', root |-> p, real |-> real])
                /\ Becomes(r, [actor[r] EXCEPT !.left = rest,
                                   !.answer = IF @ = 0 THEN ids' ELSE @,
                                   !.at = IF rest = <<>> THEN "ok" ELSE "adding"])
    /\ UNCHANGED <<unrestricted, found>>

(* Nothing was missing: the first one listed will do.                      *)
NothingToAdd(r) ==
    /\ actor[r].at = "adding" /\ actor[r].left = <<>>
    /\ Becomes(r, [actor[r] EXCEPT !.at = "ok"])
    /\ UNCHANGED <<unrestricted, rows, ids, found>>

Answered(r) ==
    /\ actor[r].at \in {"ok", "refused", "failed"}
    /\ actor' = [actor EXCEPT ![r] = Resting]
    /\ UNCHANGED <<unrestricted, rows, ids, roots, found>>

(* A request for a path: its workspace, then the guard.  Nothing else      *)
(* happens to the table meanwhile: what the request works on is one row.   *)
AskPath(in, id) ==
    /\ \A r \in Runtimes : actor[r] = Resting
    /\ LET w == IF id = 0 THEN Located(rows, in) ELSE LocatedById(rows, id, in)
       IN  found' = [is |-> TRUE, in |-> in, byId |-> id # 0, workspace |-> w]
    /\ UNCHANGED <<unrestricted, rows, ids, actor, roots>>
Forget == found.is /\ found' = NotAsked /\ UNCHANGED <<unrestricted, rows, ids, actor, roots>>

Works(r) == Prune(r) \/ ResetEnds(r) \/ PruneEnds(r) \/ Add(r) \/ NothingToAdd(r) \/ Answered(r)
RegistryNext ==
    \/ /\ ~found.is
       /\ \/ \E r \in Runtimes :
               \/ BeginSync(r) \/ BeginReset(r) \/ Works(r)
               \/ \E does \in {"register", "default", "add"}, p \in Places : Ask(r, does, p)
          \/ \E in \in Inputs, id \in {0} \union {w.id : w \in Words(rows)} : AskPath(in, id)
    \/ Forget
RegistrySpec == RegistryInit /\ [][RegistryNext]_registryVars

-----------------------------------------------------------------------------
RegistryTypeOK ==
    /\ ids \in 0..MaxRows
    /\ \A i \in DOMAIN rows : rows[i].id \in 1..ids /\ rows[i].real \in DOMAIN Disk
    /\ \A r \in Runtimes :
        actor[r].at \in {"idle", "pruning", "resetting", "adding", "ok", "refused", "failed"}
    /\ roots \in {"unread", "pruning", "adding", "ok", "refused", "failed"}

(* A root is registered once, though the list an actor decides on is old:  *)
(* a request fails only over a row that was not in it, or because it never *)
(* looked, or because the drives of the desktop app failed.  A sync also   *)
(* fails, race or not, over a drive that is another name of a directory    *)
(* and has its row already: it looked for the wrong path.                  *)
AnotherName(d) == Realpath(Disk, d) # d
FailsOnlyByRace ==
    \A r \in Runtimes : actor[r].at = "failed" =>
        \/ actor[r].does \in {"add", "unready"}
        \/ actor[r].does = "sync" /\ AnotherName(Head(actor[r].left))
        \/ \A w \in Words(actor[r].seen) : w.root # Head(actor[r].left)

(* When a sync ends well and no other process has deleted a row meanwhile, *)
(* there is a workspace for every drive of its mode, under its letter or   *)
(* under another name of it.                                               *)
DrivesRegistered ==
    \A r \in Runtimes :
        (actor[r].at = "ok" /\ actor[r].does = "sync" /\ ~actor[r].cut) =>
            \A i \in DOMAIN Drives :
                (unrestricted \/ Drives[i] = <<"E">>) =>
                    \E w \in Words(rows) : w.real = Drives[i] \/ w.root = Drives[i]

(* A path is located in the innermost workspace around it, as long as no   *)
(* workspace is registered under another name; and the guard is right.     *)
PathsResolved ==
    (found.is /\ found.workspace.id # 0) =>
        /\ GuardRight(Disk, unrestricted, found.workspace, found.in)
        /\ (~found.byId /\ \A w \in Words(rows) : w.real = w.root) =>
              \A w \in Words(rows) :
                  WorkspaceContains(w, found.in) => IsWithin(w.root, found.workspace.root)

RegistrySound == FailsOnlyByRace /\ DrivesRegistered /\ PathsResolved
=============================================================================

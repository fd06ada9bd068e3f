------------------------------ MODULE PathGuard ------------------------------
(***************************************************************************)
(* Which file a request means, and whether it is the workspace's: the      *)
(* locator (application/src/workspace-locator.ts) finds the workspace, the *)
(* guard (workspace/src/workspace-path-guard.ts) follows the path.         *)
(*                                                                         *)
(* A path is a sequence of names, the drive first.  A disk says of some    *)
(* paths what is there: a directory, a file, or a link to another path.    *)
(* Both are case-sensitive here; a path of the code is not.                *)
(***************************************************************************)
EXTENDS Selections, SequencesExt

CONSTANTS MaxLinks,  \* bound: links followed before the system gives up
          Secrets    \* names of secret files and directories

Nowhere == <<>>
Words(p) == {p[i] : i \in DOMAIN p}

(* realpath, by the operating system: where nothing is, nobody goes on; a  *)
(* link is replaced by the path it holds.                                  *)
Stops(disk, p) == {n \in 1..Len(p) : SubSeq(p, 1, n) \notin DOMAIN disk \/ disk[SubSeq(p, 1, n)].kind = "link"}
Follow(disk, p) ==
    LET n == CHOOSE n \in Stops(disk, p) : \A m \in Stops(disk, p) : n <= m
        q == SubSeq(p, 1, n)
    IN  IF Stops(disk, p) = {} THEN p
        ELSE IF q \notin DOMAIN disk THEN Nowhere ELSE disk[q].to \o SubSeq(p, n + 1, Len(p))
Realpath(disk, p) ==
    LET after[n \in 0..MaxLinks] == IF n = 0 THEN p ELSE Follow(disk, after[n - 1])
    IN  IF Stops(disk, after[MaxLinks]) = {} THEN after[MaxLinks] ELSE Nowhere

(* path.resolve: only a relative path has the root before it; no disk is   *)
(* looked at.                                                              *)
Enter(p, name) ==
    IF name # ".." THEN Append(p, name) ELSE IF Len(p) > 1 THEN Front(p) ELSE p
Normal(done, rest) ==
    LET upto[i \in 0..Len(rest)] == IF i = 0 THEN done ELSE Enter(upto[i - 1], rest[i])
    IN  upto[Len(rest)]
Resolved(root, in) == IF in.absolute THEN Normal(<<>>, in.path) ELSE Normal(root, in.path)

(* isWithin.                                                               *)
IsWithin(root, p) == IsPrefix(root, p)

-----------------------------------------------------------------------------
(* findExistingAncestor: lstat sees a link whose target is gone.           *)
Lstat(disk, p) ==
    IF Len(p) = 1 THEN p \in DOMAIN disk
    ELSE LET up == Realpath(disk, Front(p)) IN up # Nowhere /\ Append(up, Last(p)) \in DOMAIN disk
Ancestor(disk, p) ==
    LET seen == {n \in 1..Len(p) : Lstat(disk, SubSeq(p, 1, n))}
    IN  IF seen = {} THEN Nowhere ELSE SubSeq(p, 1, CHOOSE n \in seen : \A m \in seen : m <= n)

(* assertSecretReadable: not in unrestricted mode and not on drive E.      *)
Secret(unrestricted, workspace, relative) ==
    /\ ~unrestricted /\ workspace.real[1] # "E" /\ workspace.root[1] # "E"
    /\ Words(relative) \intersect Secrets # {}

Relative(root, p) == SubSeq(p, Len(root) + 1, Len(p))
Failed(code) == [code |-> code, at |-> Nowhere]
Found(p) == [code |-> "OK", at |-> p]

(* What the guard says of a path nobody can follow: the ancestor that is   *)
(* there must be inside.  A link without its target makes realpath throw.  *)
Missing(disk, root, p, otherwise) ==
    LET up == Ancestor(disk, p)
    IN  CASE up = Nowhere -> Failed("PATH_OUTSIDE_WORKSPACE")
          [] up # Nowhere /\ Realpath(disk, up) = Nowhere -> Failed("INTERNAL_ERROR")
          [] up # Nowhere /\ Realpath(disk, up) # Nowhere /\ ~IsWithin(root, Realpath(disk, up)) ->
               Failed("PATH_OUTSIDE_WORKSPACE")
          [] OTHER -> otherwise

ResolveForRead(disk, unrestricted, workspace, in) ==
    LET root == Realpath(disk, workspace.root)
        p    == Resolved(root, in)
        real == Realpath(disk, p)
    IN  CASE root = Nowhere -> Failed("WORKSPACE_NOT_FOUND")
          [] root # Nowhere /\ ~IsWithin(root, p) -> Failed("PATH_OUTSIDE_WORKSPACE")
          [] root # Nowhere /\ IsWithin(root, p) /\ real = Nowhere ->
               Missing(disk, root, p, Failed("FILE_NOT_FOUND"))
          [] OTHER ->
               CASE ~IsWithin(root, real) -> Failed("PATH_OUTSIDE_WORKSPACE")
                 [] IsWithin(root, real) /\ Secret(unrestricted, workspace, Relative(root, real)) ->
                      Failed("SECRET_ACCESS_DENIED")
                 [] OTHER -> Found(real)

ResolveForWrite(disk, unrestricted, workspace, in) ==
    LET root == Realpath(disk, workspace.root)
        p    == Resolved(root, in)
        real == Realpath(disk, p)
        checked == IF real = Nowhere THEN p ELSE real
    IN  CASE root = Nowhere -> Failed("WORKSPACE_NOT_FOUND")
          [] root # Nowhere /\ ~IsWithin(root, p) -> Failed("PATH_OUTSIDE_WORKSPACE")
          [] OTHER ->
               Missing(disk, root, p,
                   CASE real # Nowhere /\ ~IsWithin(root, real) -> Failed("PATH_OUTSIDE_WORKSPACE")
                     [] (real = Nowhere \/ IsWithin(root, real))
                            /\ Secret(unrestricted, workspace, Relative(root, checked)) ->
                          Failed("SECRET_ACCESS_DENIED")
                     [] OTHER -> Found(p))

-----------------------------------------------------------------------------
(* resolveWorkspaceForPath: `rows` are the workspaces in the order they    *)
(* are listed; the longest root wins, of two as long the first.            *)
WorkspaceContains(workspace, in) ==
    LET p == Normal(<<>>, in.path) IN IsWithin(workspace.real, p) \/ IsWithin(workspace.root, p)
LongestRoot(workspace) ==
    IF Len(workspace.real) >= Len(workspace.root) THEN Len(workspace.real) ELSE Len(workspace.root)
Nearer(v, w) == LongestRoot(v) > LongestRoot(w)
NoWorkspace == [id |-> 0]
Located(rows, in) ==
    LET matches == {i \in DOMAIN rows : WorkspaceContains(rows[i], in)}
        first   == CHOOSE i \in matches :
                     \A j \in matches \ {i} : ~Nearer(rows[j], rows[i]) /\ (i > j => Nearer(rows[i], rows[j]))
    IN  IF ~in.absolute \/ matches = {} THEN NoWorkspace ELSE rows[first]
LocatedById(rows, id, in) ==
    LET row == Selected(rows, {w \in Words(rows) : w.id = id})
    IN  IF row = <<>> \/ (in.absolute /\ ~WorkspaceContains(row[1], in)) THEN NoWorkspace ELSE row[1]

-----------------------------------------------------------------------------
(* What is meant by it.  Content written to a path lands where the links   *)
(* lead, in directories that are made on the way.                          *)
Lands(disk, p) ==
    LET up == Ancestor(disk, p)
    IN  CASE Realpath(disk, p) # Nowhere -> Realpath(disk, p)
          [] Realpath(disk, p) = Nowhere /\ up # Nowhere /\ Realpath(disk, up) # Nowhere ->
               Realpath(disk, up) \o Relative(up, p)
          [] OTHER -> Nowhere

(* workspace-path-guard.test.ts: a read that is let through reads a file   *)
(* of the workspace that is no secret, a write lands in the workspace, and *)
(* what leads inside and is no secret is let through.                      *)
GuardRight(disk, unrestricted, workspace, in) ==
    LET root  == Realpath(disk, workspace.root)
        p     == Resolved(root, in)
        lands == Lands(disk, p)
        read  == ResolveForRead(disk, unrestricted, workspace, in)
        write == ResolveForWrite(disk, unrestricted, workspace, in)
    IN  root # Nowhere =>
        /\ read.code = "OK" <=>
             /\ IsWithin(root, p) /\ Realpath(disk, p) # Nowhere /\ IsWithin(root, Realpath(disk, p))
             /\ unrestricted \/ root[1] = "E" \/ workspace.root[1] = "E"
                    \/ Words(Relative(root, Realpath(disk, p))) \intersect Secrets = {}
        /\ write.code = "OK" => lands # Nowhere /\ IsWithin(root, lands)
        /\ (IsWithin(root, p) /\ lands # Nowhere /\ IsWithin(root, lands)) =>
             write.code \in {"OK", "SECRET_ACCESS_DENIED"}
=============================================================================

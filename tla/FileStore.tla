----------------------------- MODULE FileStore -----------------------------
(***************************************************************************)
(* FileService (packages/application/src/file-service.ts) with             *)
(* CheckpointService and AtomicFileWriter: what writes, patches, restores, *)
(* moves, copies and deletions do to the files and the checkpoints.  An    *)
(* action is one await.  write_file is a patch of one file.  The writer    *)
(* renames a finished temporary file over the target, so a write is there  *)
(* as a whole or not at all; the process may end between any two steps.    *)
(* A content is a number that is used once, also for a file that is not    *)
(* UTF-8: a checkpoint keeps what decoding leaves of it.  Refusals by the  *)
(* path guard (PathGuard) and of malformed requests change nothing and are *)
(* left out.                                                               *)
(***************************************************************************)
EXTENDS Integers, Sequences, SequencesExt, Functions

CONSTANTS Files,        \* canonical paths inside one workspace
          Calls,        \* requests that may be under way at a time
          MaxFiles,     \* bound: files in one patch
          MaxContents   \* bound: texts there ever are

VARIABLES
    disk,         \* what each path holds: Absent, Directory or a content
    checkpoints,  \* the repository: functions from paths to contents
    op,           \* what each request is doing
    fresh,        \* the next content
    born, dropped,\* history: contents that were on the disk; that were to go
    clash         \* history: a request changed a path another one works on

vars == <<disk, checkpoints, op, fresh, born, dropped, clash>>
aux == <<fresh, born>>

Absent == 0
Directory == -1

(* The texts, and for each a content that is not UTF-8 and reads as it once*)
(* its bad bytes are U+FFFD; the check for binary files looks for a NUL in *)
(* the first 8192 bytes only and lets it pass.                             *)
Texts == 1..MaxContents
Contents == 1..(2 * MaxContents)
Decoded(n) == IF n \in Texts THEN n ELSE n - MaxContents
IsFile(f) == disk[f] \in Contents

Idle == [kind |-> "none", at |-> "idle", files |-> <<>>, next |-> 1,
         saved |-> <<>>, new |-> <<>>]

(* The files of a request: a patch names none twice (PatchApplier.validate)*)
FileLists == {s \in UNION {[1..n -> Files] : n \in 1..MaxFiles} : IsInjective(s)}

TypeOK ==
    /\ disk \in [Files -> {Absent, Directory} \union Contents]
    /\ \A k \in checkpoints : DOMAIN k \subseteq Files /\ Range(k) \subseteq Texts
    /\ \A c \in Calls :
          /\ op[c].kind \in {"none", "patch", "restore", "move", "copy", "delete"}
          /\ op[c].at \in {"idle", "inspect", "read", "insert", "check", "write", "commit", "remove"}
          /\ op[c].files \in FileLists \union {<<>>}
          /\ op[c].next \in 1..MaxFiles
    /\ fresh \in 1..(MaxContents + 1)
    /\ born \subseteq Contents /\ dropped \subseteq Contents /\ clash \in BOOLEAN

(* Before any request a path holds nothing, an empty directory or a file.  *)
Init ==
    \E used \in [Files -> {Absent, Directory} \union Contents] :
        /\ disk = used
        /\ \E n \in 0..MaxContents :
              /\ {Decoded(used[f]) : f \in {g \in Files : used[g] \in Contents}} = 1..n
              /\ \A f, g \in Files : f # g /\ {used[f], used[g]} \subseteq Contents =>
                                       Decoded(used[f]) # Decoded(used[g])
              /\ fresh = n + 1
        /\ born = {used[f] : f \in Files} \ {Absent, Directory}
        /\ checkpoints = {} /\ op = [c \in Calls |-> Idle]
        /\ dropped = {} /\ clash = FALSE

-----------------------------------------------------------------------------
File(c) == op[c].files[op[c].next]
LastFile(c) == op[c].next = Len(op[c].files)
Following(c) == IF LastFile(c) THEN 1 ELSE op[c].next + 1
Ends(c) == op' = [op EXCEPT ![c] = Idle]
Begins(c, kind, at, files, new) ==
    op' = [op EXCEPT ![c] = [kind |-> kind, at |-> at, files |-> files, next |-> 1,
                             saved |-> <<>>, new |-> new]]
Goes(c, at, next) == op' = [op EXCEPT ![c] = [op[c] EXCEPT !.next = next, !.at = at]]
Busy(c, at) == op[c].at = at

(* c changes the disk at the paths of `changes`.                           *)
Change(c, changes) ==
    /\ disk' = [f \in Files |-> IF f \in DOMAIN changes THEN changes[f] ELSE disk[f]]
    /\ clash' = (clash \/ \E d \in Calls \ {c} : Range(op[d].files) \intersect DOMAIN changes # {})

(* writeFile, applyPatch.                                                  *)
BeginPatch(c, files) ==
    /\ op[c] = Idle /\ fresh + Len(files) <= MaxContents + 1
    /\ Begins(c, "patch", "inspect", files, [i \in 1..Len(files) |-> fresh + i - 1])
    /\ fresh' = fresh + Len(files)
    /\ UNCHANGED <<disk, checkpoints, born, dropped, clash>>

(* The files that are there go into `saved` with the value they have when  *)
(* they are read, which is later.                                          *)
Inspect(c) ==
    /\ Busy(c, "inspect") /\ op[c].kind = "patch" /\ disk[File(c)] # Directory
    /\ LET there == IF IsFile(File(c)) THEN {File(c)} ELSE {}
           saved == [f \in DOMAIN op[c].saved \union there |-> Absent]
           at    == IF ~LastFile(c) THEN "inspect" ELSE IF DOMAIN saved = {} THEN "write" ELSE "read"
       IN  op' = [op EXCEPT ![c] = [op[c] EXCEPT !.saved = saved, !.next = Following(c), !.at = at]]
    /\ UNCHANGED <<disk, checkpoints, fresh, born, dropped, clash>>

(* A directory, a path that cannot be looked at, or no permission.         *)
Refused(c) ==
    /\ op[c].at \in {"inspect", "check"}
    /\ Ends(c)
    /\ UNCHANGED <<disk, checkpoints, fresh, born, dropped, clash>>

(* createForFiles: one file after the other is read and decoded, then there*)
(* is one insert.                                                          *)
ReadForCheckpoint(c) ==
    /\ Busy(c, "read")
    /\ \E f \in DOMAIN op[c].saved :
          /\ op[c].saved[f] = Absent /\ IsFile(f)
          /\ LET saved == [op[c].saved EXCEPT ![f] = Decoded(disk[f])]
                 at    == IF Absent \in Range(saved) THEN "read" ELSE "insert"
             IN  op' = [op EXCEPT ![c] = [op[c] EXCEPT !.saved = saved, !.at = at]]
    /\ UNCHANGED <<disk, checkpoints, fresh, born, dropped, clash>>

(* The file went away, or has an early NUL, or is too large: the request   *)
(* ends.                                                                   *)
CheckpointFails(c) ==
    /\ op[c].at \in {"read", "insert"}
    /\ Ends(c)
    /\ UNCHANGED <<disk, checkpoints, fresh, born, dropped, clash>>

InsertCheckpoint(c) ==
    /\ Busy(c, "insert")
    /\ checkpoints' = checkpoints \union {op[c].saved}
    /\ Goes(c, "write", op[c].next)
    /\ UNCHANGED <<disk, fresh, born, dropped, clash>>

(* AtomicFileWriter.write of the next file of a patch or a restore; a      *)
(* restore keeps nothing of what it overwrites.                            *)
Write(c) ==
    /\ Busy(c, "write") /\ disk[File(c)] # Directory
    /\ Change(c, [f \in {File(c)} |-> op[c].new[op[c].next]])
    /\ dropped' = IF op[c].kind = "restore" /\ IsFile(File(c)) THEN dropped \union {disk[File(c)]} ELSE dropped
    /\ born' = born \union {op[c].new[op[c].next]}
    /\ IF LastFile(c) THEN Ends(c) ELSE Goes(c, "write", op[c].next + 1)
    /\ UNCHANGED <<checkpoints, fresh>>

(* The first write that fails ends the request; those before it stand.     *)
WriteFails(c) ==
    /\ Busy(c, "write")
    /\ Ends(c)
    /\ UNCHANGED <<disk, checkpoints, fresh, born, dropped, clash>>

-----------------------------------------------------------------------------
(* CheckpointService.restore.                                              *)
BeginRestore(c, k) ==
    /\ op[c] = Idle
    /\ LET files == SetToSeq(DOMAIN k)
       IN  Begins(c, "restore", "check", files, [i \in 1..Len(files) |-> k[files[i]]])
    /\ UNCHANGED <<disk, checkpoints, fresh, born, dropped, clash>>

(* One file resolves, and has the expected hash if there is one.           *)
Check(c) ==
    /\ Busy(c, "check")
    /\ Goes(c, IF LastFile(c) THEN "write" ELSE "check", Following(c))
    /\ UNCHANGED <<disk, checkpoints, fresh, born, dropped, clash>>

-----------------------------------------------------------------------------
(* prepareTransfer: source first, then destination.                        *)
BeginTransfer(c, kind, source, destination) ==
    /\ op[c] = Idle /\ source # destination
    /\ Begins(c, kind, "inspect", <<source, destination>>, <<>>)
    /\ UNCHANGED <<disk, checkpoints, fresh, born, dropped, clash>>

Mut_InspectTransferSource(c) ==
    /\ Busy(c, "inspect") /\ op[c].kind \in {"move", "copy"}
    /\ op[c].next = 2 \/ disk[File(c)] # Absent
    /\ Goes(c, IF op[c].next = 1 THEN "inspect" ELSE "commit", 2)
    /\ UNCHANGED <<disk, checkpoints, fresh, born, dropped, clash>>
InspectTransfer(c) ==
    /\ Busy(c, "inspect") /\ op[c].kind \in {"move", "copy"}
    /\ (disk[File(c)] # Absent) <=> (op[c].next = 1)
    /\ Goes(c, IF op[c].next = 1 THEN "inspect" ELSE "commit", 2)
    /\ UNCHANGED <<disk, checkpoints, fresh, born, dropped, clash>>

(* rename(2) replaces a file that has come to the destination meanwhile.   *)
MoveRenames(c) ==
    LET source == op[c].files[1]
        destination == op[c].files[2]
    IN  /\ Busy(c, "commit") /\ op[c].kind = "move"
        /\ disk[source] # Absent /\ disk[destination] # Directory
        /\ disk[source] = Directory => disk[destination] = Absent
        /\ Change(c, [f \in {source, destination} |-> IF f = source THEN Absent ELSE disk[source]])
        /\ Ends(c)
        /\ UNCHANGED <<checkpoints, fresh, born, dropped>>

(* copyFile and cp refuse to overwrite; a move across devices (EXDEV) is a *)
(* copy whose source is removed afterwards.                                *)
CopyExclusive(c) ==
    LET source == op[c].files[1]
        destination == op[c].files[2]
    IN  /\ Busy(c, "commit") /\ op[c].kind \in {"move", "copy"}
        /\ disk[source] # Absent /\ disk[destination] = Absent
        /\ Change(c, [f \in {destination} |-> disk[source]])
        /\ IF op[c].kind = "copy" THEN Ends(c) ELSE Goes(c, "remove", op[c].next)
        /\ UNCHANGED <<checkpoints, fresh, born, dropped>>

RemoveSource(c) ==
    /\ Busy(c, "remove")
    /\ Change(c, [f \in {op[c].files[1]} |-> Absent])
    /\ Ends(c)
    /\ UNCHANGED <<checkpoints, fresh, born, dropped>>

-----------------------------------------------------------------------------
(* deleteFile, confirmed by the user: lstat, then rmdir or unlink.         *)
BeginDelete(c, f) ==
    /\ op[c] = Idle /\ disk[f] # Absent
    /\ Begins(c, "delete", "commit", <<f>>, <<>>)
    /\ UNCHANGED <<disk, checkpoints, fresh, born, dropped, clash>>

Delete(c) ==
    /\ Busy(c, "commit") /\ op[c].kind = "delete" /\ disk[File(c)] # Absent
    /\ Change(c, [f \in {File(c)} |-> Absent])
    /\ dropped' = IF IsFile(File(c)) THEN dropped \union {disk[File(c)]} ELSE dropped
    /\ Ends(c)
    /\ UNCHANGED <<checkpoints, fresh, born>>

(* The system refuses, or the paths are no longer what they were.          *)
CommitFails(c) ==
    /\ op[c].at \in {"commit", "remove"}
    /\ Ends(c)
    /\ UNCHANGED <<disk, checkpoints, fresh, born, dropped, clash>>

(* The process ends; files and repository stay.                            *)
Crash ==
    /\ op' = [c \in Calls |-> Idle]
    /\ UNCHANGED <<disk, checkpoints, fresh, born, dropped, clash>>

-----------------------------------------------------------------------------
Next ==
    \/ \E c \in Calls :
          \/ \E files \in FileLists : BeginPatch(c, files)
          \/ \E k \in checkpoints : BeginRestore(c, k)
          \/ \E f, g \in Files, kind \in {"move", "copy"} : BeginTransfer(c, kind, f, g)
          \/ \E f \in Files : BeginDelete(c, f)
          \/ Inspect(c) \/ Refused(c) \/ ReadForCheckpoint(c) \/ CheckpointFails(c)
          \/ InsertCheckpoint(c) \/ Write(c) \/ WriteFails(c) \/ Check(c)
          \/ InspectTransfer(c) \/ MoveRenames(c) \/ CopyExclusive(c) \/ RemoveSource(c)
          \/ Delete(c) \/ CommitFails(c)
    \/ Crash

Spec == Init /\ [][Next]_vars

-----------------------------------------------------------------------------
(* What was in a file is still in a file or in a checkpoint, unless it was *)
(* deleted on request or overwritten by a restore: whatever fails, and     *)
(* whenever the process ends, in patches, moves and copies (lines 195-310),*)
(* as long as no request changes a path under another one's hands.  Of a   *)
(* file that is not UTF-8 a patch keeps only what the decoding leaves.     *)
Kept(n) ==
    \/ \E f \in Files : disk[f] = n
    \/ \E k \in checkpoints : Decoded(n) \in Range(k)
ContentKept == ~clash => \A n \in born \ dropped : Kept(n)
=============================================================================

--------------------------- MODULE MCStoresProofs ---------------------------
(***************************************************************************)
(* Proofs about what the stores keep and answer, for any files, requests,  *)
(* contents, identifiers and bounds.  Every store has an inductive         *)
(* invariant of its own; StoresInv joins them, and the theorems about Spec *)
(* are at the end.                                                         *)
(***************************************************************************)
EXTENDS MCStores, MCReadsProofs, MCLookupsProofs

-----------------------------------------------------------------------------
(* FileStore: what a request holds at each of its steps.                   *)
Saves == UNION {[D -> {F!Absent} \union F!Texts] : D \in SUBSET Files}
Operation == [kind : {"none", "patch", "restore", "move", "copy", "delete"},
              at : {"idle", "inspect", "read", "insert", "check", "write", "commit", "remove"},
              files : F!FileLists \union {<< >>}, next : 1..MaxFiles,
              saved : Saves, new : Seq(F!Texts)]

(* Where each kind of request may be, and what it has by then.             *)
Stages == {<<"none", "idle">>, <<"restore", "check">>, <<"restore", "write">>, <<"delete", "commit">>}
    \union {"patch"} \X {"inspect", "read", "insert", "write"}
    \union {"move"} \X {"inspect", "commit", "remove"}
    \union {"copy"} \X {"inspect", "commit"}
OpFits(o) ==
    /\ o \in Operation /\ <<o.kind, o.at>> \in Stages
    /\ o.kind = "none" => o = F!Idle
    /\ o.kind # "none" => o.files \in F!FileLists /\ o.next <= Len(o.files)
    /\ o.kind \in {"patch", "restore"} => Len(o.new) = Len(o.files)
    /\ o.kind = "patch" => DOMAIN o.saved \subseteq F!Range(o.files)
    /\ o.at = "insert" => DOMAIN o.saved # {} /\ \A f \in DOMAIN o.saved : o.saved[f] \in F!Texts
    /\ o.kind \in {"move", "copy"} => Len(o.files) = 2

(* A checkpoint has the contents of some of the files of a patch.          *)
CheckpointFits(k) ==
    /\ k \in Saves /\ DOMAIN k # {} /\ \A f \in DOMAIN k : k[f] \in F!Texts
    /\ \E s \in F!FileLists : DOMAIN k \subseteq F!Range(s)
Held == {F!Absent, F!Directory} \union F!Contents
FilesFit ==
    /\ disk \in [Files -> Held]
    /\ op = [c \in Calls |-> op[c]] /\ \A c \in Calls : OpFits(op[c])
    /\ \A k \in checkpoints : CheckpointFits(k)
    /\ fresh \in 1..(MaxContents + 1)
    /\ born \subseteq F!Contents /\ dropped \subseteq F!Contents /\ clash \in BOOLEAN

(* What a request may rely on, with disk D and checkpoints K, unless       *)
(* another one changes its paths: the files a patch has still to write are *)
(* in its checkpoint, the destination of a move or copy is free, and a     *)
(* move across devices has made its copy.                                  *)
Noted(o, D, j) == D[o.files[j]] \in F!Contents => o.files[j] \in DOMAIN o.saved
Kept(o, D, K, j) == D[o.files[j]] \in F!Contents =>
    \E k \in K : o.files[j] \in DOMAIN k /\ k[o.files[j]] = F!Decoded(D[o.files[j]])
Ready(o, D, K) ==
    /\ o.kind = "patch" /\ o.at = "inspect" => \A j \in 1..(o.next - 1) : Noted(o, D, j)
    /\ o.kind = "patch" /\ o.at \in {"read", "insert"} => \A j \in 1..Len(o.files) : Noted(o, D, j)
    /\ o.at = "read" => \A f \in DOMAIN o.saved : o.saved[f] \in {F!Absent, F!Decoded(D[f])}
    /\ o.at = "insert" => \A f \in DOMAIN o.saved : o.saved[f] = F!Decoded(D[f])
    /\ o.kind = "patch" /\ o.at = "write" => \A j \in o.next..Len(o.files) : Kept(o, D, K, j)
    /\ o.kind \in {"move", "copy"} /\ o.at = "commit" => D[o.files[2]] = F!Absent
    /\ o.at = "remove" => D[o.files[2]] = D[o.files[1]]

NothingLost ==
    \A n \in born \ dropped :
        (\E f \in Files : disk[f] = n) \/ (\E k \in checkpoints : F!Decoded(n) \in F!Range(k))

FilesInv == FilesFit /\ (~clash => NothingLost /\ \A c \in Calls : Ready(op[c], disk, checkpoints))

-----------------------------------------------------------------------------
(* Numbers of contents.                                                    *)
LEMMA DecodedIs == F!Texts \subseteq F!Contents /\ \A n \in F!Contents : F!Decoded(n) \in F!Texts
BY StoresAssumption DEF F!Texts, F!Contents, F!Decoded

LEMMA NoContents == F!Absent \notin F!Contents /\ F!Directory \notin F!Contents
BY DEF F!Absent, F!Directory, F!Contents

-----------------------------------------------------------------------------
LEMMA ListsAre ==
    \A s \in F!FileLists :
        /\ s \in Seq(Files) /\ Len(s) \in 1..MaxFiles /\ DOMAIN s = 1..Len(s)
        /\ \A i, j \in 1..Len(s) : s[i] = s[j] => i = j
<1> SUFFICES ASSUME NEW s \in F!FileLists
             PROVE  /\ s \in Seq(Files) /\ Len(s) \in 1..MaxFiles /\ DOMAIN s = 1..Len(s)
                    /\ \A i, j \in 1..Len(s) : s[i] = s[j] => i = j
  OBVIOUS
<1>1. PICK n \in 1..MaxFiles : s \in [1..n -> Files]
  BY DEF F!FileLists
<1>2. \A i, j \in DOMAIN s : s[i] = s[j] => i = j
  BY DEF F!FileLists, F!IsInjective
<1>3. s \in Seq(Files) /\ Len(s) = n
  BY <1>1, StoresAssumption
<1> QED
  BY <1>1, <1>2, <1>3

LEMMA PairListed ==
    ASSUME NEW f \in Files, NEW g \in Files, f # g
    PROVE  <<f, g>> \in F!FileLists /\ Len(<<f, g>>) = 2
<1>1. <<f, g>> \in [1..2 -> Files] /\ 2 \in 1..MaxFiles
  BY StoresAssumption
<1>2. \A i, j \in DOMAIN <<f, g>> : <<f, g>>[i] = <<f, g>>[j] => i = j
  OBVIOUS
<1> QED
  BY <1>1, <1>2 DEF F!FileLists, F!IsInjective

LEMMA OneListed ==
    ASSUME NEW f \in Files
    PROVE  <<f>> \in F!FileLists /\ Len(<<f>>) = 1
<1>1. <<f>> \in [1..1 -> Files] /\ 1 \in 1..MaxFiles
  BY StoresAssumption
<1>2. \A i, j \in DOMAIN <<f>> : <<f>>[i] = <<f>>[j] => i = j
  OBVIOUS
<1> QED
  BY <1>1, <1>2 DEF F!FileLists, F!IsInjective

LEMMA IdleFits == OpFits(F!Idle) /\ \A D, K : Ready(F!Idle, D, K)
<1>1. << >> \in Saves
  <2>1. << >> \in [{} -> {F!Absent} \union F!Texts]
    OBVIOUS
  <2> QED
    BY <2>1 DEF Saves
<1>2. << >> \in Seq(F!Texts) /\ 1 \in 1..MaxFiles
  BY StoresAssumption
<1> QED
  BY <1>1, <1>2 DEF OpFits, Operation, Stages, F!Idle, Ready

(* A list of some files, each once, has no more than a patch.              *)
LEMMA DomainListed ==
    ASSUME NEW k, CheckpointFits(k)
    PROVE  LET files == F!SetToSeq(DOMAIN k)
           IN  /\ files \in F!FileLists
               /\ \A i \in 1..Len(files) : files[i] \in DOMAIN k
<1> DEFINE D == DOMAIN k
           n == Cardinality(D)
<1>1. PICK s \in F!FileLists : D \subseteq F!Range(s)
  BY DEF CheckpointFits
<1>2. /\ DOMAIN s = 1..Len(s) /\ Len(s) \in 1..MaxFiles
      /\ \A i, j \in 1..Len(s) : s[i] = s[j] => i = j
  BY <1>1, ListsAre
<1>3. D # {} /\ D \subseteq Files
  BY DEF CheckpointFits, Saves
<1>4. s \in Surjection(1..Len(s), F!Range(s))
  <2>1. s \in [1..Len(s) -> F!Range(s)]
    <3>1. s = [i \in 1..Len(s) |-> s[i]]
      BY <1>1, <1>2 DEF F!FileLists
    <3> QED
      BY <1>2, <3>1 DEF F!Range
  <2> QED
    BY <1>2, <2>1 DEF Surjection, F!Range
<1>5. IsFiniteSet(1..Len(s)) /\ Cardinality(1..Len(s)) = Len(s)
  <2>1. Len(s) \in Nat
    BY <1>2, StoresAssumption
  <2>2. 1 \in Int /\ Len(s) \in Int
    BY <2>1
  <2>3. /\ IsFiniteSet(1..Len(s))
        /\ Cardinality(1..Len(s)) = IF 1 > Len(s) THEN 0 ELSE Len(s) - 1 + 1
    BY <2>2, FS_Interval
  <2> QED
    BY <2>1, <2>3
<1>6. IsFiniteSet(F!Range(s)) /\ Cardinality(F!Range(s)) <= Len(s)
  BY <1>4, <1>5, FS_Surjection
<1>7. IsFiniteSet(D) /\ Cardinality(D) <= Len(s)
  BY <1>1, <1>2, <1>6, FS_Subset, FS_CardinalityType
<1>8. n \in Nat /\ n # 0
  BY <1>3, <1>7, FS_CardinalityType, FS_EmptySet
<1>9. n \in 1..MaxFiles
  BY <1>2, <1>7, <1>8, StoresAssumption
<1>10. \E f \in [1..n -> D] : F!IsInjective(f)
  <2>1. PICK f : f \in Bijection(1..n, D)
    BY <1>7, <1>8, FS_CardinalityType DEF ExistsBijection
  <2>2. f \in [1..n -> D] /\ \A i, j \in DOMAIN f : f[i] = f[j] => i = j
    BY <2>1 DEF Bijection, Injection, IsInjective
  <2> QED
    BY <2>2 DEF F!IsInjective
<1>11. PICK files : files = F!SetToSeq(D)
  OBVIOUS
<1>12. files \in [1..n -> D] /\ F!IsInjective(files)
  <2>1. F!Cardinality(D) = n
    BY DEF F!Cardinality, Cardinality
  <2> QED
    BY <1>10, <1>11, <2>1 DEF F!SetToSeq
<1>13. Len(files) = n /\ files \in [1..n -> Files]
  BY <1>3, <1>8, <1>12
<1>14. files \in F!FileLists
  BY <1>9, <1>12, <1>13 DEF F!FileLists
<1> QED
  BY <1>11, <1>12, <1>13, <1>14

-----------------------------------------------------------------------------
(* A request whose paths nobody changes may rely on what it did before.    *)
LEMMA Untouched ==
    ASSUME NEW o, OpFits(o), NEW D, NEW E, NEW K, NEW L, Ready(o, D, K), K \subseteq L,
           \A f \in F!Range(o.files) : E[f] = D[f]
    PROVE  Ready(o, E, L)
<1>1. CASE o.kind = "none"
  BY <1>1, IdleFits DEF OpFits
<1>2. CASE o.kind # "none"
  <2>1. \A j \in 1..Len(o.files) : E[o.files[j]] = D[o.files[j]]
    BY <1>2, ListsAre DEF OpFits, F!Range
  <2>2. Len(o.files) \in Nat /\ o.next \in Nat /\ 1 <= o.next /\ o.next <= Len(o.files)
    BY <1>2, ListsAre, StoresAssumption DEF OpFits, Operation
  <2>3. <<o.kind, o.at>> \in Stages
    BY DEF OpFits
  <2>4. \A j \in 1..Len(o.files) : Noted(o, D, j) => Noted(o, E, j)
    BY <2>1 DEF Noted
  <2>5. \A j \in 1..Len(o.files) : Kept(o, D, K, j) => Kept(o, E, L, j)
    BY <2>1 DEF Kept
  <2>6. o.at \in {"read", "insert"} => \A f \in DOMAIN o.saved : E[f] = D[f]
    <3>1. o.at \in {"read", "insert"} => o.kind = "patch"
      BY <2>3 DEF Stages
    <3> QED
      BY <3>1 DEF OpFits
  <2>7. o.at \in {"commit", "remove"} /\ o.kind \in {"move", "copy"} =>
            E[o.files[1]] = D[o.files[1]] /\ E[o.files[2]] = D[o.files[2]]
    BY <2>1 DEF OpFits
  <2>8. o.at = "remove" => o.kind = "move"
    BY <2>3 DEF Stages
  <2> QED
    BY <2>2, <2>4, <2>5, <2>6, <2>7, <2>8 DEF Ready
<1> QED
  BY <1>1, <1>2

(* A step of one request keeps the invariant if what that request holds    *)
(* fits, and if it changes no other one's paths unless there is a clash.   *)
OneMoves(c) ==
    /\ op' = [d \in Calls |-> op'[d]] /\ OpFits(op'[c])
    /\ \A d \in Calls \ {c} : op'[d] = op[d]
    /\ disk' \in [Files -> Held]
    /\ checkpoints \subseteq checkpoints' /\ \A k \in checkpoints' : CheckpointFits(k)
    /\ fresh' \in 1..(MaxContents + 1)
    /\ born' \subseteq F!Contents /\ dropped' \subseteq F!Contents /\ clash' \in BOOLEAN
    /\ ~clash' =>
          /\ ~clash /\ NothingLost' /\ Ready(op'[c], disk', checkpoints')
          /\ \A d \in Calls \ {c} : \A f \in F!Range(op[d].files) : disk'[f] = disk[f]

LEMMA OneMovesInv == ASSUME FilesInv, NEW c \in Calls, OneMoves(c) PROVE FilesInv'
<1>1. FilesFit'
  BY DEF OneMoves, FilesInv, FilesFit
<1>2. ASSUME ~clash', NEW d \in Calls \ {c} PROVE Ready(op'[d], disk', checkpoints')
  <2>1. OpFits(op[d]) /\ Ready(op[d], disk, checkpoints) /\ op'[d] = op[d]
    BY <1>2 DEF OneMoves, FilesInv, FilesFit
  <2>2. checkpoints \subseteq checkpoints' /\ \A f \in F!Range(op[d].files) : disk'[f] = disk[f]
    BY <1>2 DEF OneMoves
  <2> QED
    BY <2>1, <2>2, Untouched
<1>3. ~clash' => NothingLost' /\ \A d \in Calls : Ready(op'[d], disk', checkpoints')
  BY <1>2 DEF OneMoves
<1> QED
  BY <1>1, <1>3 DEF FilesInv

(* A step that changes neither the disk nor the checkpoints.               *)
LEMMA OnlyOp ==
    ASSUME FilesInv, NEW c \in Calls, NEW o, op' = [op EXCEPT ![c] = o], OpFits(o),
           ~clash => Ready(o, disk, checkpoints), fresh' \in 1..(MaxContents + 1),
           UNCHANGED <<disk, checkpoints, born, dropped, clash>>
    PROVE  FilesInv'
<1>1. op = [d \in Calls |-> op[d]]
  BY DEF FilesInv, FilesFit
<1>2. op' = [d \in Calls |-> op'[d]] /\ op'[c] = o /\ \A d \in Calls \ {c} : op'[d] = op[d]
  BY <1>1
<1>3. OneMoves(c)
  BY <1>2 DEF OneMoves, FilesInv, FilesFit, NothingLost
<1> QED
  BY <1>3, OneMovesInv

(* Nothing is lost if what was at the changed paths is elsewhere.          *)
LEMMA DiskMoves ==
    ASSUME FilesInv, NEW c \in Calls, NEW o, op' = [op EXCEPT ![c] = o], OpFits(o),
           NEW changes, DOMAIN changes \subseteq Files, \A f \in DOMAIN changes : changes[f] \in Held,
           F!Change(c, changes), UNCHANGED <<checkpoints, fresh>>,
           born' \subseteq F!Contents, dropped' \subseteq F!Contents,
           dropped \subseteq dropped',
           ~clash => Ready(o, disk', checkpoints),
           \A n \in born' : n \in born \/ \E f \in DOMAIN changes : changes[f] = n,
           ~clash => \A f \in DOMAIN changes :
               \/ disk[f] \notin F!Contents \/ disk[f] \in dropped'
               \/ \E g \in DOMAIN changes : changes[g] = disk[f]
               \/ \E g \in Files \ DOMAIN changes : disk[g] = disk[f]
               \/ \E k \in checkpoints : F!Decoded(disk[f]) \in F!Range(k)
    PROVE  FilesInv'
<1>1. op = [d \in Calls |-> op[d]] /\ disk \in [Files -> Held] /\ clash \in BOOLEAN
  BY DEF FilesInv, FilesFit
<1>2. op' = [d \in Calls |-> op'[d]] /\ op'[c] = o /\ \A d \in Calls \ {c} : op'[d] = op[d]
  BY <1>1
<1>3. /\ disk' \in [Files -> Held]
      /\ \A f \in DOMAIN changes : disk'[f] = changes[f]
      /\ \A f \in Files \ DOMAIN changes : disk'[f] = disk[f]
  BY <1>1 DEF F!Change
<1>4. clash' \in BOOLEAN /\ (~clash' => ~clash /\ \A d \in Calls \ {c} : F!Range(op[d].files) \intersect DOMAIN changes = {})
  BY <1>1 DEF F!Change
<1>5. \A d \in Calls : F!Range(op[d].files) \subseteq Files
  <2> SUFFICES ASSUME NEW d \in Calls PROVE F!Range(op[d].files) \subseteq Files
    OBVIOUS
  <2>1. op[d].files \in F!FileLists \union {<< >>}
    BY DEF FilesInv, FilesFit, OpFits, Operation
  <2> QED
    BY <2>1, ListsAre DEF F!Range
<1>6. ASSUME ~clash' PROVE NothingLost'
  <2> SUFFICES ASSUME NEW n \in born' \ dropped', ~(\E k \in checkpoints : F!Decoded(n) \in F!Range(k))
               PROVE  \E f \in Files : disk'[f] = n
    BY DEF NothingLost
  <2>1. n \in F!Contents /\ ~clash
    BY <1>4, <1>6
  <2>2. CASE \E f \in DOMAIN changes : changes[f] = n
    BY <1>3, <2>2
  <2>3. CASE n \in born
    <3>1. PICK f \in Files : disk[f] = n
      BY <2>1, <2>3 DEF FilesInv, NothingLost
    <3>2. CASE f \in DOMAIN changes
      <4>1. \/ \E g \in DOMAIN changes : changes[g] = disk[f]
            \/ \E g \in Files \ DOMAIN changes : disk[g] = disk[f]
        BY <2>1, <3>1, <3>2
      <4> QED
        BY <1>3, <3>1, <4>1
    <3> QED
      BY <1>3, <3>1, <3>2
  <2> QED
    BY <2>2, <2>3
<1>7. OneMoves(c)
  <2>1. ~clash' => \A d \in Calls \ {c} : \A f \in F!Range(op[d].files) : disk'[f] = disk[f]
    BY <1>3, <1>4, <1>5
  <2> QED
    BY <1>2, <1>3, <1>4, <1>6, <2>1 DEF OneMoves, FilesInv, FilesFit
<1> QED
  BY <1>7, OneMovesInv

-----------------------------------------------------------------------------
(* A request that goes on holds what it held.                              *)
LEMMA StepFits ==
    ASSUME NEW o, OpFits(o), o.kind # "none", NEW at, <<o.kind, at>> \in Stages, at # "insert",
           NEW next \in 1..Len(o.files)
    PROVE  OpFits([o EXCEPT !.next = next, !.at = at])
<1>1. Len(o.files) \in 1..MaxFiles /\ next \in 1..MaxFiles /\ next <= Len(o.files)
  BY ListsAre, StoresAssumption DEF OpFits
<1>2. at \in {"idle", "inspect", "read", "insert", "check", "write", "commit", "remove"}
  BY DEF Stages
<1>3. [o EXCEPT !.next = next, !.at = at] \in Operation
  BY <1>1, <1>2 DEF OpFits, Operation
<1> QED
  BY <1>1, <1>3 DEF OpFits, Operation

(* The request a step belongs to.                                          *)
LEMMA OpIs ==
    ASSUME FilesInv, NEW c \in Calls
    PROVE  /\ op[c] \in Operation /\ OpFits(op[c])
           /\ ~clash => Ready(op[c], disk, checkpoints)
           /\ op[c].at \in {"read", "insert"} => op[c].kind = "patch"
           /\ op[c].at = "write" => op[c].kind \in {"patch", "restore"}
           /\ op[c].at = "check" => op[c].kind = "restore"
           /\ op[c].at = "remove" => op[c].kind = "move"
           /\ op[c].at # "idle" =>
                 /\ op[c].kind # "none" /\ op[c].files \in F!FileLists
                 /\ Len(op[c].files) \in 1..MaxFiles /\ Len(op[c].files) \in Nat
                 /\ op[c].next \in 1..Len(op[c].files) /\ op[c].next \in Nat
                 /\ DOMAIN op[c].files = 1..Len(op[c].files)
                 /\ \A j \in 1..Len(op[c].files) : op[c].files[j] \in Files
                 /\ \A i, j \in 1..Len(op[c].files) : op[c].files[i] = op[c].files[j] => i = j
<1>1. OpFits(op[c]) /\ op[c] \in Operation /\ (~clash => Ready(op[c], disk, checkpoints))
  BY DEF FilesInv, FilesFit, OpFits
<1>2. op[c].at # "idle" => op[c].kind # "none"
  BY <1>1 DEF OpFits, F!Idle
<1>3. op[c].kind # "none" => op[c].files \in F!FileLists /\ op[c].next \in Nat \ {0} /\ op[c].next <= Len(op[c].files)
  BY <1>1, StoresAssumption DEF OpFits, Operation
<1>4. op[c].kind # "none" => /\ Len(op[c].files) \in Nat /\ op[c].next \in Nat
                             /\ op[c].next \in 1..Len(op[c].files)
  BY <1>3, ListsAre, StoresAssumption
<1>5. <<op[c].kind, op[c].at>> \in Stages
  BY <1>1 DEF OpFits
<1>6. /\ op[c].at \in {"read", "insert"} => op[c].kind = "patch"
      /\ op[c].at = "write" => op[c].kind \in {"patch", "restore"}
      /\ op[c].at = "check" => op[c].kind = "restore"
      /\ op[c].at = "remove" => op[c].kind = "move"
  BY <1>5 DEF Stages
<1> QED
  BY <1>1, <1>2, <1>3, <1>4, <1>6, ListsAre

LEMMA BeginPatchInv ==
    ASSUME FilesInv, NEW c \in Calls, NEW files \in F!FileLists, F!BeginPatch(c, files)
    PROVE  FilesInv'
<1> DEFINE o == [kind |-> "patch", at |-> "inspect", files |-> files, next |-> 1, saved |-> << >>,
                 new |-> [i \in 1..Len(files) |-> fresh + i - 1]]
<1>1. op' = [op EXCEPT ![c] = o]
  BY DEF F!BeginPatch, F!Begins
<1>2. Len(files) \in 1..MaxFiles /\ fresh \in 1..(MaxContents + 1) /\ fresh + Len(files) <= MaxContents + 1
  BY ListsAre DEF F!BeginPatch, FilesInv, FilesFit
<1>3. o.new \in Seq(F!Texts) /\ Len(o.new) = Len(files)
  <2>1. \A i \in 1..Len(files) : fresh + i - 1 \in F!Texts
    BY <1>2, StoresAssumption DEF F!Texts
  <2>2. o.new \in [1..Len(files) -> F!Texts] /\ Len(files) \in Nat
    BY <1>2, <2>1, StoresAssumption
  <2> QED
    BY <2>2
<1>4. OpFits(o)
  <2>1. << >> \in Saves
    BY IdleFits DEF OpFits, Operation, F!Idle
  <2>2. o \in Operation
    BY <1>2, <1>3, <2>1, StoresAssumption DEF Operation
  <2> QED
    BY <1>2, <1>3, <2>2, StoresAssumption DEF OpFits, Stages
<1>5. Ready(o, disk, checkpoints)
  BY DEF Ready
<1>6. fresh' \in 1..(MaxContents + 1)
  BY <1>2, StoresAssumption DEF F!BeginPatch
<1>7. UNCHANGED <<disk, checkpoints, born, dropped, clash>>
  BY DEF F!BeginPatch
<1> HIDE DEF o
<1> QED
  BY <1>1, <1>4, <1>5, <1>6, <1>7, OnlyOp

LEMMA BeginOthersInv ==
    ASSUME FilesInv, NEW c \in Calls,
           \/ \E k \in checkpoints : F!BeginRestore(c, k)
           \/ \E f, g \in Files, kind \in {"move", "copy"} : F!BeginTransfer(c, kind, f, g)
           \/ \E f \in Files : F!BeginDelete(c, f)
    PROVE  FilesInv'
<1>0. << >> \in Saves /\ << >> \in Seq(F!Texts) /\ 1 \in 1..MaxFiles
  BY IdleFits DEF OpFits, Operation, F!Idle
<1>1. ASSUME NEW k \in checkpoints, F!BeginRestore(c, k) PROVE FilesInv'
  <2>1. PICK files : files = F!SetToSeq(DOMAIN k)
    OBVIOUS
  <2>2. CheckpointFits(k)
    BY DEF FilesInv, FilesFit
  <2>3. files \in F!FileLists /\ \A i \in 1..Len(files) : files[i] \in DOMAIN k
    BY <2>1, <2>2, DomainListed
  <2> DEFINE o == [kind |-> "restore", at |-> "check", files |-> files, next |-> 1, saved |-> << >>,
                   new |-> [i \in 1..Len(files) |-> k[files[i]]]]
  <2>4. op' = [op EXCEPT ![c] = o]
    BY <1>1, <2>1 DEF F!BeginRestore, F!Begins
  <2>5. Len(files) \in Nat \ {0}
    BY <2>3, ListsAre
  <2>6. o.new \in Seq(F!Texts) /\ Len(o.new) = Len(files)
    <3>1. o.new \in [1..Len(files) -> F!Texts]
      BY <2>2, <2>3 DEF CheckpointFits
    <3> QED
      BY <2>5, <3>1
  <2>7. o \in Operation
    BY <1>0, <2>3, <2>6 DEF Operation
  <2>8. OpFits(o)
    BY <2>3, <2>5, <2>6, <2>7 DEF OpFits, Stages
  <2>9. Ready(o, disk, checkpoints)
    BY DEF Ready
  <2>10. fresh' \in 1..(MaxContents + 1) /\ UNCHANGED <<disk, checkpoints, born, dropped, clash>>
    BY <1>1 DEF F!BeginRestore, FilesInv, FilesFit
  <2> HIDE DEF o
  <2> QED
    BY <2>4, <2>8, <2>9, <2>10, OnlyOp
<1>2. ASSUME NEW f \in Files, NEW g \in Files, NEW kind \in {"move", "copy"}, F!BeginTransfer(c, kind, f, g)
      PROVE  FilesInv'
  <2> DEFINE o == [kind |-> kind, at |-> "inspect", files |-> <<f, g>>, next |-> 1, saved |-> << >>, new |-> << >>]
  <2>1. op' = [op EXCEPT ![c] = o] /\ f # g
    BY <1>2 DEF F!BeginTransfer, F!Begins
  <2>2. <<f, g>> \in F!FileLists /\ Len(<<f, g>>) = 2
    BY <2>1, PairListed
  <2>3. o \in Operation
    BY <1>0, <2>2 DEF Operation
  <2>4. OpFits(o)
    BY <2>2, <2>3 DEF OpFits, Stages
  <2>5. Ready(o, disk, checkpoints)
    BY DEF Ready
  <2>6. fresh' \in 1..(MaxContents + 1) /\ UNCHANGED <<disk, checkpoints, born, dropped, clash>>
    BY <1>2 DEF F!BeginTransfer, FilesInv, FilesFit
  <2> HIDE DEF o
  <2> QED
    BY <2>1, <2>4, <2>5, <2>6, OnlyOp
<1>3. ASSUME NEW f \in Files, F!BeginDelete(c, f) PROVE FilesInv'
  <2> DEFINE o == [kind |-> "delete", at |-> "commit", files |-> <<f>>, next |-> 1, saved |-> << >>, new |-> << >>]
  <2>1. op' = [op EXCEPT ![c] = o]
    BY <1>3 DEF F!BeginDelete, F!Begins
  <2>2. <<f>> \in F!FileLists /\ Len(<<f>>) = 1
    BY OneListed
  <2>3. o \in Operation
    BY <1>0, <2>2 DEF Operation
  <2>4. OpFits(o)
    BY <2>2, <2>3 DEF OpFits, Stages
  <2>5. Ready(o, disk, checkpoints)
    BY DEF Ready
  <2>6. fresh' \in 1..(MaxContents + 1) /\ UNCHANGED <<disk, checkpoints, born, dropped, clash>>
    BY <1>3 DEF F!BeginDelete, FilesInv, FilesFit
  <2> HIDE DEF o
  <2> QED
    BY <2>1, <2>4, <2>5, <2>6, OnlyOp
<1> QED
  BY <1>1, <1>2, <1>3

-----------------------------------------------------------------------------
(* What a request does before it changes a file.                           *)
LEMMA EndsInv ==
    ASSUME FilesInv, NEW c \in Calls, F!Refused(c) \/ F!CheckpointFails(c) \/ F!WriteFails(c) \/ F!CommitFails(c)
    PROVE  FilesInv'
<1>1. op' = [op EXCEPT ![c] = F!Idle] /\ UNCHANGED <<disk, checkpoints, born, dropped, clash>> /\ fresh' = fresh
  BY DEF F!Refused, F!CheckpointFails, F!WriteFails, F!CommitFails, F!Ends
<1>2. fresh' \in 1..(MaxContents + 1)
  BY <1>1 DEF FilesInv, FilesFit
<1> QED
  BY <1>1, <1>2, IdleFits, OnlyOp

LEMMA InspectInv == ASSUME FilesInv, NEW c \in Calls, F!Inspect(c) PROVE FilesInv'
<1> DEFINE f     == op[c].files[op[c].next]
           there == IF F!IsFile(f) THEN {f} ELSE {}
           saved == [g \in DOMAIN op[c].saved \union there |-> F!Absent]
           last  == op[c].next = Len(op[c].files)
           at    == IF ~last THEN "inspect" ELSE IF DOMAIN saved = {} THEN "write" ELSE "read"
           next  == IF last THEN 1 ELSE op[c].next + 1
           o     == [op[c] EXCEPT !.saved = saved, !.next = next, !.at = at]
<1>1. /\ op' = [op EXCEPT ![c] = o]
      /\ UNCHANGED <<disk, checkpoints, born, dropped, clash>> /\ fresh' = fresh
      /\ op[c].at = "inspect" /\ op[c].kind = "patch"
  BY DEF F!Inspect, F!Following, F!LastFile, F!File, F!Busy
<1>2. fresh' \in 1..(MaxContents + 1)
  BY <1>1 DEF FilesInv, FilesFit
<1>3. /\ op[c] \in Operation /\ OpFits(op[c]) /\ (~clash => Ready(op[c], disk, checkpoints))
      /\ op[c].files \in F!FileLists /\ Len(op[c].files) \in 1..MaxFiles /\ op[c].next \in 1..Len(op[c].files)
      /\ DOMAIN op[c].files = 1..Len(op[c].files) /\ f \in Files
      /\ Len(op[c].files) \in Nat /\ op[c].next \in Nat
  BY <1>1, OpIs
<1>4. next \in 1..MaxFiles /\ next <= Len(op[c].files)
  BY <1>3, StoresAssumption
<1>5. DOMAIN saved = DOMAIN op[c].saved \union there /\ DOMAIN saved \subseteq F!Range(op[c].files)
  BY <1>1, <1>3 DEF OpFits, F!Range
<1>6. saved \in Saves
  <2>1. DOMAIN op[c].saved \subseteq Files
    BY <1>3 DEF Operation, Saves
  <2>2. saved \in [DOMAIN saved -> {F!Absent} \union F!Texts] /\ DOMAIN saved \subseteq Files
    BY <1>3, <2>1
  <2> QED
    BY <2>2 DEF Saves
<1>7. /\ o \in Operation /\ o.kind = "patch" /\ o.at = at /\ o.saved = saved
      /\ o.next = next /\ o.files = op[c].files /\ o.new = op[c].new
  <2> HIDE DEF saved, next
  <2>1. at \in {"inspect", "write", "read"}
    OBVIOUS
  <2> HIDE DEF at
  <2> QED
    BY <1>1, <1>3, <1>4, <1>6, <2>1 DEF Operation
<1>8. at \in {"inspect", "write", "read"}
  OBVIOUS
<1>9. OpFits(o)
  <2> HIDE DEF saved, next, at, o
  <2> QED
    BY <1>1, <1>3, <1>4, <1>5, <1>7, <1>8 DEF OpFits, Stages
<1>10. ASSUME ~clash PROVE Ready(o, disk, checkpoints)
  <2>1. \A j \in 1..(op[c].next - 1) : Noted(op[c], disk, j)
    BY <1>1, <1>3, <1>10 DEF Ready
  <2>2. \A j \in 1..op[c].next : Noted(o, disk, j)
    <3>0. disk[f] \in F!Contents => f \in DOMAIN saved
      BY DEF F!IsFile
    <3> HIDE DEF saved, next, at, o
    <3> SUFFICES ASSUME NEW j \in 1..op[c].next PROVE Noted(o, disk, j)
      OBVIOUS
    <3>1. CASE j = op[c].next
      BY <1>7, <3>0, <3>1 DEF Noted
    <3>2. CASE j # op[c].next
      <4>1. j \in 1..(op[c].next - 1)
        BY <1>3, <3>2
      <4> QED
        BY <1>5, <1>7, <2>1, <4>1 DEF Noted, saved
    <3> QED
      BY <3>1, <3>2
  <2>3. CASE ~last
    <3>1. at = "inspect" /\ next - 1 = op[c].next
      BY <1>3, <2>3
    <3> HIDE DEF saved, next, at, o
    <3> QED
      BY <1>7, <2>2, <3>1 DEF Ready
  <2>4. CASE last /\ DOMAIN saved = {}
    <3>1. at = "write" /\ next = 1
      BY <2>4
    <3>2. \A j \in 1..Len(o.files) : Kept(o, disk, checkpoints, j)
      BY <1>7, <2>2, <2>4 DEF Noted, Kept
    <3> HIDE DEF saved, next, at, o
    <3> QED
      BY <1>7, <3>1, <3>2 DEF Ready
  <2>5. CASE last /\ DOMAIN saved # {}
    <3>1. at = "read" /\ \A g \in DOMAIN saved : saved[g] = F!Absent
      BY <2>5
    <3>2. \A j \in 1..Len(o.files) : Noted(o, disk, j)
      BY <1>7, <2>2, <2>5
    <3> HIDE DEF saved, next, at, o
    <3> QED
      BY <1>7, <3>1, <3>2 DEF Ready
  <2> QED
    BY <2>3, <2>4, <2>5
<1> HIDE DEF o
<1> QED
  BY <1>1, <1>2, <1>9, <1>10, OnlyOp

LEMMA ReadForCheckpointInv == ASSUME FilesInv, NEW c \in Calls, F!ReadForCheckpoint(c) PROVE FilesInv'
<1>1. PICK f \in DOMAIN op[c].saved :
          /\ op[c].saved[f] = F!Absent /\ F!IsFile(f)
          /\ LET saved == [op[c].saved EXCEPT ![f] = F!Decoded(disk[f])]
                 at    == IF F!Absent \in F!Range(saved) THEN "read" ELSE "insert"
             IN  op' = [op EXCEPT ![c] = [op[c] EXCEPT !.saved = saved, !.at = at]]
  BY DEF F!ReadForCheckpoint
<1> DEFINE saved == [op[c].saved EXCEPT ![f] = F!Decoded(disk[f])]
           at    == IF F!Absent \in F!Range(saved) THEN "read" ELSE "insert"
           o     == [op[c] EXCEPT !.saved = saved, !.at = at]
<1>2. /\ op' = [op EXCEPT ![c] = o] /\ op[c].at = "read"
      /\ UNCHANGED <<disk, checkpoints, born, dropped, clash>> /\ fresh' \in 1..(MaxContents + 1)
  BY <1>1 DEF F!ReadForCheckpoint, F!Busy, FilesInv, FilesFit
<1>3. /\ op[c] \in Operation /\ OpFits(op[c]) /\ (~clash => Ready(op[c], disk, checkpoints))
      /\ op[c].files \in F!FileLists /\ op[c].kind = "patch"
  BY <1>2, OpIs
<1>4. /\ saved \in Saves /\ DOMAIN saved = DOMAIN op[c].saved
      /\ \A g \in DOMAIN saved : saved[g] = IF g = f THEN F!Decoded(disk[f]) ELSE op[c].saved[g]
  <2>1. PICK D \in SUBSET Files : op[c].saved \in [D -> {F!Absent} \union F!Texts]
    BY <1>3 DEF Operation, Saves
  <2>2. saved \in [D -> {F!Absent} \union F!Texts]
    BY <1>1, <2>1, DecodedIs DEF F!IsFile
  <2> QED
    BY <2>1, <2>2 DEF Saves
<1>5. at = "insert" => \A g \in DOMAIN saved : saved[g] \in F!Texts
  <2>1. ASSUME at = "insert", NEW g \in DOMAIN saved PROVE saved[g] \in F!Texts
    <3>1. saved[g] # F!Absent
      BY <2>1 DEF F!Range
    <3>2. saved[g] \in {F!Absent} \union F!Texts
      BY <1>4 DEF Saves
    <3> QED
      BY <3>1, <3>2
  <2> QED
    BY <2>1
<1>6. at \in {"read", "insert"}
  OBVIOUS
<1> HIDE DEF saved, at
<1>7. /\ o \in Operation /\ o.kind = "patch" /\ o.at = at /\ o.saved = saved
      /\ o.next = op[c].next /\ o.files = op[c].files /\ o.new = op[c].new
  BY <1>3, <1>4, <1>6 DEF Operation
<1> HIDE DEF o
<1>8. OpFits(o)
  BY <1>1, <1>3, <1>4, <1>5, <1>6, <1>7 DEF OpFits, Stages
<1>9. ASSUME ~clash PROVE Ready(o, disk, checkpoints)
  <2>1. \A j \in 1..Len(o.files) : Noted(o, disk, j)
    BY <1>2, <1>3, <1>4, <1>7, <1>9 DEF Ready, Noted
  <2>2. \A g \in DOMAIN o.saved : o.saved[g] \in {F!Absent, F!Decoded(disk[g])}
    BY <1>2, <1>3, <1>4, <1>7, <1>9 DEF Ready
  <2>3. o.at = "insert" => \A g \in DOMAIN o.saved : o.saved[g] = F!Decoded(disk[g])
    <3>1. F!Absent \notin F!Texts
      BY DEF F!Absent, F!Texts
    <3> QED
      BY <1>5, <1>7, <2>2, <3>1
  <2> QED
    BY <1>6, <1>7, <2>1, <2>2, <2>3 DEF Ready
<1> QED
  BY <1>2, <1>8, <1>9, OnlyOp

LEMMA InsertCheckpointInv == ASSUME FilesInv, NEW c \in Calls, F!InsertCheckpoint(c) PROVE FilesInv'
<1> DEFINE o == [op[c] EXCEPT !.next = op[c].next, !.at = "write"]
<1>1. /\ op' = [op EXCEPT ![c] = o] /\ op[c].at = "insert" /\ checkpoints' = checkpoints \union {op[c].saved}
      /\ UNCHANGED <<disk, fresh, born, dropped, clash>>
  BY DEF F!InsertCheckpoint, F!Goes, F!Busy
<1>2. /\ op[c] \in Operation /\ OpFits(op[c]) /\ (~clash => Ready(op[c], disk, checkpoints))
      /\ op[c].files \in F!FileLists /\ op[c].kind = "patch" /\ op[c].next \in 1..Len(op[c].files)
      /\ Len(op[c].files) \in Nat
  BY <1>1, OpIs
<1>3. OpFits(o)
  BY <1>2, StepFits DEF Stages
<1>4. CheckpointFits(op[c].saved)
  BY <1>1, <1>2 DEF OpFits, Operation, CheckpointFits
<1>5. /\ o.kind = "patch" /\ o.at = "write" /\ o.files = op[c].files /\ o.next = op[c].next
      /\ o.saved = op[c].saved
  BY <1>2 DEF Operation
<1> HIDE DEF o
<1>6. ASSUME ~clash PROVE Ready(o, disk, checkpoints')
  <2>1. \A j \in 1..Len(o.files) : Kept(o, disk, checkpoints', j)
    <3>1. \A j \in 1..Len(op[c].files) : Noted(op[c], disk, j)
      BY <1>1, <1>2, <1>6 DEF Ready
    <3>2. \A f \in DOMAIN op[c].saved : op[c].saved[f] = F!Decoded(disk[f])
      BY <1>1, <1>2, <1>6 DEF Ready
    <3> QED
      BY <1>1, <1>5, <3>1, <3>2 DEF Noted, Kept
  <2> QED
    BY <1>2, <1>5, <2>1 DEF Ready
<1>7. op = [d \in Calls |-> op[d]]
  BY DEF FilesInv, FilesFit
<1>8. op' = [d \in Calls |-> op'[d]] /\ op'[c] = o /\ \A d \in Calls \ {c} : op'[d] = op[d]
  BY <1>1, <1>7
<1>9. OneMoves(c)
  BY <1>1, <1>3, <1>4, <1>6, <1>8 DEF OneMoves, FilesInv, FilesFit, NothingLost
<1> QED
  BY <1>9, OneMovesInv

LEMMA CheckInv == ASSUME FilesInv, NEW c \in Calls, F!Check(c) PROVE FilesInv'
<1> DEFINE at   == IF op[c].next = Len(op[c].files) THEN "write" ELSE "check"
           next == IF op[c].next = Len(op[c].files) THEN 1 ELSE op[c].next + 1
           o    == [op[c] EXCEPT !.next = next, !.at = at]
<1>1. /\ op' = [op EXCEPT ![c] = o] /\ op[c].at = "check"
      /\ UNCHANGED <<disk, checkpoints, born, dropped, clash>> /\ fresh' \in 1..(MaxContents + 1)
  BY DEF F!Check, F!Goes, F!Busy, F!Following, F!LastFile, FilesInv, FilesFit
<1>2. /\ op[c] \in Operation /\ OpFits(op[c]) /\ op[c].kind = "restore"
      /\ op[c].next \in 1..Len(op[c].files) /\ Len(op[c].files) \in Nat
  BY <1>1, OpIs
<1>3. next \in 1..Len(op[c].files) /\ at \in {"write", "check"}
  BY <1>2
<1> HIDE DEF at, next
<1>4. OpFits(o)
  BY <1>2, <1>3, StepFits DEF Stages
<1>5. o.kind = "restore" /\ o.at \in {"write", "check"}
  BY <1>2, <1>3 DEF Operation
<1>6. Ready(o, disk, checkpoints)
  BY <1>5 DEF Ready
<1> HIDE DEF o
<1> QED
  BY <1>1, <1>4, <1>6, OnlyOp

LEMMA InspectTransferInv == ASSUME FilesInv, NEW c \in Calls, F!InspectTransfer(c) PROVE FilesInv'
<1> DEFINE at == IF op[c].next = 1 THEN "inspect" ELSE "commit"
           o  == [op[c] EXCEPT !.next = 2, !.at = at]
<1>1. /\ op' = [op EXCEPT ![c] = o] /\ op[c].at = "inspect" /\ op[c].kind \in {"move", "copy"}
      /\ UNCHANGED <<disk, checkpoints, born, dropped, clash>> /\ fresh' \in 1..(MaxContents + 1)
      /\ (disk[op[c].files[op[c].next]] # F!Absent) <=> (op[c].next = 1)
  BY DEF F!InspectTransfer, F!Goes, F!Busy, F!File, FilesInv, FilesFit
<1>2. /\ op[c] \in Operation /\ OpFits(op[c]) /\ Len(op[c].files) = 2 /\ op[c].next \in 1..2
  BY <1>1, OpIs DEF OpFits
<1>3. at \in {"inspect", "commit"} /\ (at = "commit" => disk[op[c].files[2]] = F!Absent)
  BY <1>1, <1>2
<1> HIDE DEF at
<1>4. OpFits(o)
  <2>1. <<op[c].kind, at>> \in Stages /\ op[c].kind # "none" /\ at # "insert" /\ 2 \in 1..Len(op[c].files)
    BY <1>1, <1>2, <1>3 DEF Stages
  <2> QED
    BY <1>2, <2>1, StepFits
<1>5. o.kind = op[c].kind /\ o.at = at /\ o.files = op[c].files
  BY <1>2 DEF Operation
<1>6. Ready(o, disk, checkpoints)
  BY <1>1, <1>3, <1>5 DEF Ready
<1> HIDE DEF o
<1> QED
  BY <1>1, <1>4, <1>6, OnlyOp

-----------------------------------------------------------------------------
(* Where a request changes files.                                          *)
LEMMA WriteInv == ASSUME FilesInv, NEW c \in Calls, F!Write(c) PROVE FilesInv'
<1> DEFINE f    == op[c].files[op[c].next]
           n    == op[c].new[op[c].next]
           last == op[c].next = Len(op[c].files)
           o    == IF last THEN F!Idle ELSE [op[c] EXCEPT !.next = op[c].next + 1, !.at = "write"]
           changes == [g \in {f} |-> n]
<1>1. /\ op[c].at = "write" /\ F!Change(c, changes) /\ born' = born \union {n}
      /\ dropped' = IF op[c].kind = "restore" /\ F!IsFile(f) THEN dropped \union {disk[f]} ELSE dropped
      /\ UNCHANGED <<checkpoints, fresh>>
  BY DEF F!Write, F!File, F!Busy
<1>2. op' = [op EXCEPT ![c] = o]
  BY DEF F!Write, F!Ends, F!Goes, F!LastFile
<1>3. /\ op[c] \in Operation /\ OpFits(op[c]) /\ (~clash => Ready(op[c], disk, checkpoints))
      /\ op[c].kind \in {"patch", "restore"} /\ op[c].next \in 1..Len(op[c].files)
      /\ Len(op[c].files) \in Nat /\ op[c].next \in Nat /\ f \in Files
      /\ \A i, j \in 1..Len(op[c].files) : op[c].files[i] = op[c].files[j] => i = j
  BY <1>1, OpIs
<1>4. n \in F!Contents
  BY <1>3, DecodedIs DEF OpFits, Operation
<1>5. DOMAIN changes = {f} /\ changes[f] = n /\ n \in Held
  BY <1>4 DEF Held
<1>6. disk' = [g \in Files |-> IF g = f THEN n ELSE disk[g]]
  BY <1>1 DEF F!Change
<1>7. OpFits(o)
  <2>1. CASE last
    BY <2>1, IdleFits
  <2>2. CASE ~last
    <3>1. op[c].next + 1 \in 1..Len(op[c].files)
      BY <1>3, <2>2
    <3>2. <<op[c].kind, "write">> \in Stages
      BY <1>3 DEF Stages
    <3>3. op[c].kind # "none"
      BY <1>3
    <3>4. OpFits([op[c] EXCEPT !.next = op[c].next + 1, !.at = "write"])
      BY <1>3, <3>1, <3>2, <3>3, StepFits
    <3> QED
      BY <2>2, <3>4
  <2> QED
    BY <2>1, <2>2
<1>8. ASSUME ~clash PROVE Ready(o, disk', checkpoints)
  <2>1. CASE last
    BY <2>1, IdleFits
  <2>2. CASE ~last
    <3>1. o.kind = op[c].kind /\ o.at = "write" /\ o.files = op[c].files /\ o.next = op[c].next + 1
      BY <1>3, <2>2 DEF Operation
    <3>2. ASSUME op[c].kind = "patch", NEW j \in (op[c].next + 1)..Len(op[c].files)
          PROVE  Kept(o, disk', checkpoints, j)
      <4>1. j \in op[c].next..Len(op[c].files) /\ j \in 1..Len(op[c].files) /\ j # op[c].next
        BY <1>3
      <4>2. Kept(op[c], disk, checkpoints, j)
        BY <1>1, <1>3, <1>8, <3>2, <4>1 DEF Ready
      <4>3. op[c].files[j] # f /\ op[c].files[j] \in Files
        BY <1>1, <1>3, <4>1, OpIs
      <4>4. disk'[op[c].files[j]] = disk[op[c].files[j]]
        BY <1>6, <4>3
      <4> QED
        BY <3>1, <4>2, <4>4 DEF Kept
    <3> HIDE DEF o
    <3> QED
      BY <1>3, <3>1, <3>2 DEF Ready
  <2> QED
    BY <2>1, <2>2
<1>9. ASSUME ~clash
      PROVE  disk[f] \notin F!Contents \/ disk[f] \in dropped' \/ \E k \in checkpoints : F!Decoded(disk[f]) \in F!Range(k)
  <2>1. CASE op[c].kind = "restore"
    BY <1>1, <2>1 DEF F!IsFile
  <2>2. CASE op[c].kind = "patch"
    <3>1. op[c].next \in op[c].next..Len(op[c].files)
      BY <1>3
    <3>2. Kept(op[c], disk, checkpoints, op[c].next)
      BY <1>1, <1>3, <1>9, <2>2, <3>1 DEF Ready
    <3> QED
      BY <3>2 DEF Kept, F!Range
  <2> QED
    BY <1>3, <2>1, <2>2
<1>10. born' \subseteq F!Contents /\ dropped' \subseteq F!Contents /\ dropped \subseteq dropped'
  BY <1>1, <1>4 DEF FilesInv, FilesFit, F!IsFile
<1>11. /\ DOMAIN changes \subseteq Files /\ \A g \in DOMAIN changes : changes[g] \in Held
       /\ \A m \in born' : m \in born \/ \E g \in DOMAIN changes : changes[g] = m
       /\ ~clash => \A g \in DOMAIN changes :
               \/ disk[g] \notin F!Contents \/ disk[g] \in dropped'
               \/ \E h \in DOMAIN changes : changes[h] = disk[g]
               \/ \E h \in Files \ DOMAIN changes : disk[h] = disk[g]
               \/ \E k \in checkpoints : F!Decoded(disk[g]) \in F!Range(k)
  BY <1>1, <1>3, <1>5, <1>9
<1> HIDE DEF o, changes
<1> QED
  BY <1>1, <1>2, <1>7, <1>8, <1>10, <1>11, DiskMoves

(* The two paths of a move or a copy.                                      *)
LEMMA TransferIs ==
    ASSUME FilesInv, NEW c \in Calls, op[c].kind \in {"move", "copy"}, op[c].at \in {"commit", "remove"}
    PROVE  /\ op[c].files[1] \in Files /\ op[c].files[2] \in Files /\ op[c].files[1] # op[c].files[2]
           /\ op[c].next \in 1..2 /\ Len(op[c].files) = 2
           /\ ~clash /\ op[c].at = "commit" => disk[op[c].files[2]] = F!Absent
           /\ ~clash /\ op[c].at = "remove" => disk[op[c].files[2]] = disk[op[c].files[1]]
<1>1. Len(op[c].files) = 2
  BY OpIs DEF OpFits
<1> QED
  BY <1>1, OpIs DEF Ready

LEMMA MoveRenamesInv == ASSUME FilesInv, NEW c \in Calls, F!MoveRenames(c) PROVE FilesInv'
<1> DEFINE s == op[c].files[1]
           d == op[c].files[2]
           changes == [f \in {s, d} |-> IF f = s THEN F!Absent ELSE disk[s]]
<1>1. /\ op' = [op EXCEPT ![c] = F!Idle] /\ op[c].at = "commit" /\ op[c].kind = "move"
      /\ F!Change(c, changes) /\ UNCHANGED <<checkpoints, fresh>> /\ born' = born /\ dropped' = dropped
  BY DEF F!MoveRenames, F!Ends, F!Busy
<1>2. /\ s \in Files /\ d \in Files /\ s # d /\ (~clash => disk[d] = F!Absent)
  BY <1>1, TransferIs
<1>3. DOMAIN changes = {s, d} /\ changes[s] = F!Absent /\ changes[d] = disk[s]
  BY <1>2
<1>4. \A g \in DOMAIN changes : changes[g] \in Held
  BY <1>2, <1>3 DEF FilesInv, FilesFit, Held
<1>5. ~clash => \A g \in DOMAIN changes : disk[g] \notin F!Contents \/ \E h \in DOMAIN changes : changes[h] = disk[g]
  BY <1>2, <1>3, NoContents
<1>6. born' \subseteq F!Contents /\ dropped' \subseteq F!Contents /\ DOMAIN changes \subseteq Files
  BY <1>1, <1>2, <1>3 DEF FilesInv, FilesFit
<1> HIDE DEF changes
<1>7. /\ \A m \in born' : m \in born \/ \E g \in DOMAIN changes : changes[g] = m
      /\ dropped \subseteq dropped'
      /\ ~clash => \A g \in DOMAIN changes :
               \/ disk[g] \notin F!Contents \/ disk[g] \in dropped'
               \/ \E h \in DOMAIN changes : changes[h] = disk[g]
               \/ \E h \in Files \ DOMAIN changes : disk[h] = disk[g]
               \/ \E k \in checkpoints : F!Decoded(disk[g]) \in F!Range(k)
  BY <1>1, <1>5
<1>8. OpFits(F!Idle) /\ (~clash => Ready(F!Idle, disk', checkpoints))
  BY IdleFits
<1> QED
  BY <1>1, <1>4, <1>6, <1>7, <1>8, DiskMoves

LEMMA CopyExclusiveInv == ASSUME FilesInv, NEW c \in Calls, F!CopyExclusive(c) PROVE FilesInv'
<1> DEFINE s == op[c].files[1]
           d == op[c].files[2]
           o == IF op[c].kind = "copy" THEN F!Idle ELSE [op[c] EXCEPT !.next = op[c].next, !.at = "remove"]
           changes == [f \in {d} |-> disk[s]]
<1>1. /\ op[c].at = "commit" /\ op[c].kind \in {"move", "copy"} /\ disk[d] = F!Absent
      /\ F!Change(c, changes) /\ UNCHANGED <<checkpoints, fresh>> /\ born' = born /\ dropped' = dropped
  BY DEF F!CopyExclusive, F!Busy
<1>2. op' = [op EXCEPT ![c] = o]
  BY DEF F!CopyExclusive, F!Ends, F!Goes
<1>3. s \in Files /\ d \in Files /\ s # d /\ op[c].next \in 1..2 /\ Len(op[c].files) = 2
  BY <1>1, TransferIs
<1>4. op[c] \in Operation /\ OpFits(op[c])
  BY OpIs
<1>5. DOMAIN changes = {d} /\ changes[d] = disk[s]
  OBVIOUS
<1>6. /\ \A g \in DOMAIN changes : changes[g] \in Held
      /\ \A g \in DOMAIN changes : disk[g] \notin F!Contents
  BY <1>1, <1>3, <1>5, NoContents DEF FilesInv, FilesFit, Held
<1>7. disk' = [g \in Files |-> IF g = d THEN disk[s] ELSE disk[g]]
  BY <1>1 DEF F!Change
<1>8. OpFits(o) /\ Ready(o, disk', checkpoints)
  <2>1. CASE op[c].kind = "copy"
    BY <2>1, IdleFits
  <2>2. CASE op[c].kind = "move"
    <3>1. <<op[c].kind, "remove">> \in Stages /\ op[c].next \in 1..Len(op[c].files)
      BY <1>3, <2>2 DEF Stages
    <3>2. OpFits([op[c] EXCEPT !.next = op[c].next, !.at = "remove"])
      BY <1>4, <2>2, <3>1, StepFits
    <3>3. o = [op[c] EXCEPT !.next = op[c].next, !.at = "remove"]
      BY <2>2
    <3>4. o.kind = "move" /\ o.at = "remove" /\ o.files = op[c].files
      BY <1>4, <2>2, <3>3 DEF Operation
    <3>5. disk'[d] = disk'[s]
      BY <1>3, <1>7
    <3> HIDE DEF o
    <3> QED
      BY <3>2, <3>3, <3>4, <3>5 DEF Ready
  <2> QED
    BY <1>1, <2>1, <2>2
<1>9. born' \subseteq F!Contents /\ dropped' \subseteq F!Contents /\ DOMAIN changes \subseteq Files
  BY <1>1, <1>3, <1>5 DEF FilesInv, FilesFit
<1> HIDE DEF changes, o
<1>10. /\ \A m \in born' : m \in born \/ \E g \in DOMAIN changes : changes[g] = m
       /\ dropped \subseteq dropped'
       /\ ~clash => \A g \in DOMAIN changes :
               \/ disk[g] \notin F!Contents \/ disk[g] \in dropped'
               \/ \E h \in DOMAIN changes : changes[h] = disk[g]
               \/ \E h \in Files \ DOMAIN changes : disk[h] = disk[g]
               \/ \E k \in checkpoints : F!Decoded(disk[g]) \in F!Range(k)
  BY <1>1, <1>6
<1> QED
  BY <1>1, <1>2, <1>6, <1>8, <1>9, <1>10, DiskMoves

(* A path that is emptied, with what becomes of its content.               *)
LEMMA EmptiedInv ==
    ASSUME FilesInv, NEW c \in Calls, NEW f \in Files, F!Change(c, [g \in {f} |-> F!Absent]),
           op' = [op EXCEPT ![c] = F!Idle], UNCHANGED <<checkpoints, fresh>>, born' = born,
           dropped \subseteq dropped', dropped' \subseteq F!Contents,
           ~clash => \/ disk[f] \notin F!Contents \/ disk[f] \in dropped'
                     \/ \E h \in Files \ {f} : disk[h] = disk[f]
    PROVE  FilesInv'
<1> DEFINE changes == [g \in {f} |-> F!Absent]
<1>1. DOMAIN changes = {f} /\ changes[f] = F!Absent
  OBVIOUS
<1>2. /\ DOMAIN changes \subseteq Files /\ \A g \in DOMAIN changes : changes[g] \in Held
      /\ born' \subseteq F!Contents
  BY <1>1 DEF Held, FilesInv, FilesFit
<1>3. /\ \A m \in born' : m \in born \/ \E g \in DOMAIN changes : changes[g] = m
      /\ ~clash => \A g \in DOMAIN changes :
               \/ disk[g] \notin F!Contents \/ disk[g] \in dropped'
               \/ \E h \in DOMAIN changes : changes[h] = disk[g]
               \/ \E h \in Files \ DOMAIN changes : disk[h] = disk[g]
               \/ \E k \in checkpoints : F!Decoded(disk[g]) \in F!Range(k)
  BY <1>1
<1>4. F!Change(c, changes)
  OBVIOUS
<1>5. OpFits(F!Idle) /\ (~clash => Ready(F!Idle, disk', checkpoints))
  BY IdleFits
<1> HIDE DEF changes
<1> QED
  BY <1>2, <1>3, <1>4, <1>5, DiskMoves

LEMMA RemovesInv == ASSUME FilesInv, NEW c \in Calls, F!RemoveSource(c) \/ F!Delete(c) PROVE FilesInv'
<1>0. dropped \subseteq F!Contents
  BY DEF FilesInv, FilesFit
<1>1. CASE F!RemoveSource(c)
  <2> DEFINE s == op[c].files[1]
             d == op[c].files[2]
  <2>1. /\ op[c].at = "remove" /\ F!Change(c, [g \in {s} |-> F!Absent]) /\ op' = [op EXCEPT ![c] = F!Idle]
        /\ UNCHANGED <<checkpoints, fresh>> /\ born' = born /\ dropped' = dropped
    BY <1>1 DEF F!RemoveSource, F!Ends, F!Busy
  <2>2. op[c].kind = "move"
    BY <2>1, OpIs
  <2>3. s \in Files /\ d \in Files /\ s # d /\ (~clash => disk[d] = disk[s])
    BY <2>1, <2>2, TransferIs
  <2>4. ~clash => \E h \in Files \ {s} : disk[h] = disk[s]
    BY <2>3
  <2> HIDE DEF s, d
  <2> QED
    BY <1>0, <2>1, <2>3, <2>4, EmptiedInv
<1>2. CASE F!Delete(c)
  <2> DEFINE f == op[c].files[op[c].next]
  <2>1. /\ op[c].at = "commit" /\ F!Change(c, [g \in {f} |-> F!Absent]) /\ op' = [op EXCEPT ![c] = F!Idle]
        /\ UNCHANGED <<checkpoints, fresh>> /\ born' = born
        /\ dropped' = IF disk[f] \in F!Contents THEN dropped \union {disk[f]} ELSE dropped
    BY <1>2 DEF F!Delete, F!Ends, F!Busy, F!File, F!IsFile
  <2>2. f \in Files
    BY <2>1, OpIs
  <2>3. dropped \subseteq dropped' /\ dropped' \subseteq F!Contents /\ (disk[f] \notin F!Contents \/ disk[f] \in dropped')
    BY <1>0, <2>1
  <2> HIDE DEF f
  <2> QED
    BY <2>1, <2>2, <2>3, EmptiedInv
<1> QED
  BY <1>1, <1>2

LEMMA CrashInv == ASSUME FilesInv, F!Crash PROVE FilesInv'
<1>1. op' = [c \in Calls |-> F!Idle] /\ UNCHANGED <<disk, checkpoints, born, dropped, clash>> /\ fresh' = fresh
  BY DEF F!Crash
<1>2. op' = [c \in Calls |-> op'[c]] /\ \A c \in Calls : op'[c] = F!Idle
  BY <1>1
<1>3. \A c \in Calls : OpFits(op'[c]) /\ Ready(op'[c], disk', checkpoints')
  BY <1>2, IdleFits
<1> QED
  BY <1>1, <1>2, <1>3 DEF FilesInv, FilesFit, NothingLost

-----------------------------------------------------------------------------
LEMMA FilesInitInv == F!Init => FilesInv
<1> SUFFICES ASSUME F!Init PROVE FilesInv
  OBVIOUS
<1>1. PICK n \in 0..MaxContents :
        /\ disk \in [Files -> {F!Absent, F!Directory} \union F!Contents]
        /\ fresh = n + 1 /\ born = {disk[f] : f \in Files} \ {F!Absent, F!Directory}
  BY DEF F!Init
<1>2. checkpoints = {} /\ op = [c \in Calls |-> F!Idle] /\ dropped = {} /\ clash = FALSE
  BY DEF F!Init
<1>3. op = [c \in Calls |-> op[c]] /\ \A c \in Calls : op[c] = F!Idle
  BY <1>2
<1>4. \A c \in Calls : OpFits(op[c]) /\ Ready(op[c], disk, checkpoints)
  BY <1>3, IdleFits
<1>5. fresh \in 1..(MaxContents + 1) /\ born \subseteq F!Contents
  BY <1>1, StoresAssumption DEF F!Contents
<1>6. NothingLost
  BY <1>1 DEF NothingLost
<1> QED
  BY <1>1, <1>2, <1>3, <1>4, <1>5, <1>6 DEF FilesInv, FilesFit, Held

LEMMA FilesNextInv == FilesInv /\ F!Next => FilesInv'
<1> SUFFICES ASSUME FilesInv, F!Next PROVE FilesInv'
  OBVIOUS
<1>1. CASE F!Crash
  BY <1>1, CrashInv
<1>2. CASE ~F!Crash
  <2>1. PICK c \in Calls :
          \/ \E files \in F!FileLists : F!BeginPatch(c, files)
          \/ \E k \in checkpoints : F!BeginRestore(c, k)
          \/ \E f, g \in Files, kind \in {"move", "copy"} : F!BeginTransfer(c, kind, f, g)
          \/ \E f \in Files : F!BeginDelete(c, f)
          \/ F!Inspect(c) \/ F!Refused(c) \/ F!ReadForCheckpoint(c) \/ F!CheckpointFails(c)
          \/ F!InsertCheckpoint(c) \/ F!Write(c) \/ F!WriteFails(c) \/ F!Check(c)
          \/ F!InspectTransfer(c) \/ F!MoveRenames(c) \/ F!CopyExclusive(c) \/ F!RemoveSource(c)
          \/ F!Delete(c) \/ F!CommitFails(c)
    BY <1>2 DEF F!Next
  <2> QED
    BY <2>1, BeginPatchInv, BeginOthersInv, EndsInv, InspectInv, ReadForCheckpointInv, InsertCheckpointInv,
       CheckInv, InspectTransferInv, WriteInv, MoveRenamesInv, CopyExclusiveInv, RemovesInv
<1> QED
  BY <1>1, <1>2

LEMMA FilesStutterInv == FilesInv /\ UNCHANGED filesVars => FilesInv'
  BY DEF filesVars, FilesInv, FilesFit, NothingLost

LEMMA FilesInvGives == FilesInv => F!TypeOK /\ F!ContentKept
<1> SUFFICES ASSUME FilesInv PROVE F!TypeOK /\ F!ContentKept
  OBVIOUS
<1>1. \A k \in checkpoints : DOMAIN k \subseteq Files /\ F!Range(k) \subseteq F!Texts
  BY DEF FilesInv, FilesFit, CheckpointFits, Saves, F!Range
<1>2. \A c \in Calls : op[c] \in Operation
  BY DEF FilesInv, FilesFit, OpFits
<1>3. F!TypeOK
  BY <1>1, <1>2 DEF FilesInv, FilesFit, Held, Operation, F!TypeOK
<1>4. F!ContentKept
  BY DEF FilesInv, NothingLost, F!ContentKept, F!Kept
<1> QED
  BY <1>3, <1>4

-----------------------------------------------------------------------------
(* RuntimeState: while no request comes during the load of its service, no *)
(* two writes overlap, none fails and nobody writes what is not current,   *)
(* what was answered is in the file.                                       *)
Undisturbed == ~overlapped /\ ~failed
Loading(r) == R!At(r, "loading")
Creates(r) == call[r].kind \in {"task_create", "session_checkpoint"}
Mine(r) == R!Service(r)

Shapes ==
    /\ call = [r \in R!Requests |-> call[r]]
    /\ memory = [s \in Services |-> memory[s]] /\ loaded = [s \in Services |-> loaded[s]]
    /\ \A s \in Services : memory[s] = [tasks |-> memory[s].tasks, checkpoints |-> memory[s].checkpoints,
                                        plugins |-> memory[s].plugins]
    /\ \A r \in R!Requests : call[r] = [at |-> call[r].at, kind |-> call[r].kind,
                                       id |-> call[r].id, text |-> call[r].text]
    /\ \A one, other \in stateFile : one = other
    /\ overlapped \in BOOLEAN /\ failed \in BOOLEAN /\ current \subseteq Services

(* Who loads is alone in its service, which has no request before.         *)
LoadsAlone == \A r \in R!Requests :
    /\ ~loaded[Mine(r)] => R!At(r, "idle")
    /\ Loading(r) => \A q \in R!Requests \ {r} : Mine(q) = Mine(r) => R!At(q, "idle")

(* Who writes is alone at that; the file is open and empty meanwhile, what *)
(* is being written has everything that was answered, and no other service *)
(* will have it.                                                           *)
WritesAlone == \A r \in R!Requests : R!At(r, "writing") =>
    /\ stateFile = R!Torn
    /\ \A q \in R!Requests \ {r} : ~R!At(q, "writing")
    /\ acked \subseteq R!Known(call[r].text)
    /\ Creates(r) => call[r].id \in R!Known(call[r].text)
    /\ current \subseteq {Mine(r)}

(* A current service has everything that was answered, and any service what*)
(* it is about to answer.                                                  *)
MemoryKnows ==
    /\ \A s \in current : acked \subseteq R!Known(memory[s])
    /\ \A r \in R!Requests : call[r].at \in {"mkdir", "writing"} /\ Creates(r)
                              => call[r].id \in R!Known(memory[Mine(r)])

StateInv ==
    /\ Shapes
    /\ Undisturbed => LoadsAlone /\ WritesAlone /\ MemoryKnows /\ R!AnsweredIsStored

-----------------------------------------------------------------------------
LEMMA ServiceOf == \A r \in R!Requests : Mine(r) \in Services
BY DEF Mine, R!Requests, R!Service

LEMMA StateInitInv == R!RuntimeInit => StateInv
<1> SUFFICES ASSUME R!RuntimeInit PROVE StateInv
  OBVIOUS
<1> USE DEF R!RuntimeInit
<1>1. \A r \in R!Requests : call[r] = R!Resting
  OBVIOUS
<1>2. Shapes
  BY <1>1 DEF Shapes, R!Resting, R!Empty, R!Torn
<1>3. LoadsAlone /\ WritesAlone /\ MemoryKnows /\ R!AnsweredIsStored
  BY <1>1 DEF LoadsAlone, WritesAlone, MemoryKnows, R!AnsweredIsStored, R!Resting, R!At, Loading
<1> QED
  BY <1>2, <1>3 DEF StateInv

(* The memory of one service is set.                                       *)
LEMMA HoldsIs ==
  ASSUME Shapes, NEW r \in R!Requests, NEW x, R!Holds(r, x)
  PROVE  /\ memory'[Mine(r)] = x /\ \A s \in Services \ {Mine(r)} : memory'[s] = memory[s]
         /\ memory' = [s \in Services |-> memory'[s]] /\ Mine(r) \in Services
BY ServiceOf DEF Shapes, R!Holds, Mine

(* The changes to the maps forget no task and no checkpoint.               *)
Grows(r, x) ==
    /\ R!Holds(r, x) /\ R!Known(R!Held(r)) \subseteq R!Known(x)
    /\ x = [tasks |-> x.tasks, checkpoints |-> x.checkpoints, plugins |-> x.plugins]
LEMMA ApplyKeeps ==
  ASSUME StateInv, NEW r \in R!Requests, R!Apply(r)
  PROVE  \E x : Grows(r, x) /\ (Creates(r) => call[r].id \in R!Known(x))
<1> DEFINE h == R!Held(r)
<1>0. h = [tasks |-> h.tasks, checkpoints |-> h.checkpoints, plugins |-> h.plugins]
  BY ServiceOf DEF StateInv, Shapes, R!Held, Mine
<1> HIDE DEF h
<1> USE DEF R!Known, Creates, Grows
<1>1. CASE R!CreateTask(r)
  <2> DEFINE f == R!With(call[r].id, "queued", h.tasks)
  <2>1. DOMAIN f = {call[r].id} \union DOMAIN h.tasks
    BY DEF R!With, R!Over
  <2> HIDE DEF f
  <2>2. R!Holds(r, [h EXCEPT !.tasks = f])
    BY <1>1 DEF R!CreateTask, f, h
  <2> QED
    BY <1>0, <1>1, <2>1, <2>2 DEF R!CreateTask, h
<1>2. CASE R!CancelTask(r)
  <2> DEFINE f == [h.tasks EXCEPT ![call[r].id] = "cancelled"]
  <2>1. DOMAIN f = DOMAIN h.tasks
    OBVIOUS
  <2>2. R!Holds(r, [h EXCEPT !.tasks = f])
    BY <1>2 DEF R!CancelTask, h
  <2> HIDE DEF f
  <2> QED
    BY <1>0, <1>2, <2>1, <2>2 DEF R!CancelTask, h
<1>3. CASE R!SessionCheckpoint(r)
  <2>1. R!Holds(r, [h EXCEPT !.checkpoints = h.checkpoints \union {call[r].id}])
    BY <1>3 DEF R!SessionCheckpoint, h
  <2> QED
    BY <1>0, <1>3, <2>1 DEF R!SessionCheckpoint, h
<1>4. CASE R!ChangePlugin(r)
  <2>1. PICK f : R!Holds(r, [h EXCEPT !.plugins = f])
    BY <1>4 DEF R!ChangePlugin, h
  <2>2. ~Creates(r)
    BY <1>4 DEF R!ChangePlugin
  <2> QED
    BY <1>0, <2>1, <2>2 DEF h
<1> QED
  BY <1>1, <1>2, <1>3, <1>4 DEF R!Apply

LEMMA LoadKeeps ==
  ASSUME StateInv, NEW r \in R!Requests, R!LoadState(r)
  PROVE  \E x : Grows(r, x) /\ R!Stored \subseteq R!Known(x)
<1> DEFINE h == R!Held(r)
<1>0. h = [tasks |-> h.tasks, checkpoints |-> h.checkpoints, plugins |-> h.plugins]
  BY ServiceOf DEF StateInv, Shapes, R!Held, Mine
<1>1. CASE stateFile = R!Torn
  <2>1. R!Holds(r, h) /\ R!Stored = {}
    BY <1>1 DEF R!LoadState, R!Torn, R!Stored
  <2> QED
    BY <1>0, <2>1 DEF Grows
<1>2. CASE stateFile # R!Torn
  <2>1. PICK text \in stateFile : R!Holds(r, R!Joined(text, h))
    BY <1>2 DEF R!LoadState
  <2>2. R!Stored = R!Known(text)
    BY DEF StateInv, Shapes, R!Stored
  <2>3. DOMAIN R!Over(text.tasks, h.tasks) = DOMAIN text.tasks \union DOMAIN h.tasks
    BY DEF R!Over
  <2> HIDE DEF h
  <2>4. /\ R!Known(h) \subseteq R!Known(R!Joined(text, h)) /\ R!Known(text) \subseteq R!Known(R!Joined(text, h))
        /\ R!Joined(text, h) = [tasks |-> R!Joined(text, h).tasks, checkpoints |-> R!Joined(text, h).checkpoints,
                                plugins |-> R!Joined(text, h).plugins]
    BY <2>3 DEF R!Known, R!Joined
  <2> QED
    BY <2>1, <2>2, <2>4 DEF Grows, h
<1> QED
  BY <1>1, <1>2

(* Only r goes on, to another stage of the same request.                   *)
Goes(r, stage) ==
    /\ call'[r].at = stage
    /\ UNCHANGED <<call[r].kind, call[r].id>>
    /\ \A q \in R!Requests \ {r} : call'[q] = call[q]

LEMMA GoesOn ==
  ASSUME Shapes, NEW r \in R!Requests, NEW stage, call' = [call EXCEPT ![r].at = stage]
  PROVE  Goes(r, stage) /\ call'[r].text = call[r].text
  BY DEF Shapes, Goes

(* What a service that grows leaves of the shapes and of its knowledge.    *)
LEMMA GrowsKeeps ==
  ASSUME StateInv, NEW r \in R!Requests, NEW x, Grows(r, x)
  PROVE  /\ memory' = [s \in Services |-> memory'[s]] /\ memory'[Mine(r)] = x
         /\ \A s \in Services : memory'[s] = [tasks |-> memory'[s].tasks, checkpoints |-> memory'[s].checkpoints,
                                              plugins |-> memory'[s].plugins]
         /\ \A s \in Services : R!Known(memory[s]) \subseteq R!Known(memory'[s])
<1>1. /\ memory'[Mine(r)] = x /\ \A s \in Services \ {Mine(r)} : memory'[s] = memory[s]
      /\ memory' = [s \in Services |-> memory'[s]] /\ Mine(r) \in Services
  BY HoldsIs DEF StateInv, Grows
<1>2. R!Known(memory[Mine(r)]) \subseteq R!Known(x)
  BY DEF Grows, R!Held, Mine
<1> QED
  BY <1>1, <1>2 DEF Grows, StateInv, Shapes

LEMMA ShapesKept == ASSUME StateInv, R!RuntimeNext PROVE Shapes'
<1>0. Shapes
  BY DEF StateInv
<1>1. ASSUME NEW r \in R!Requests, NEW kind \in R!Kinds, NEW i \in Ids \union Plugins, R!Execute(r, kind, i)
      PROVE  Shapes'
  BY <1>0, <1>1 DEF Shapes, R!Execute
<1>2. ASSUME NEW r \in R!Requests, R!LoadState(r) PROVE Shapes'
  <2>1. PICK x : Grows(r, x)
    BY <1>2, LoadKeeps
  <2>2. current' \subseteq Services
    BY <1>0, <1>2, ServiceOf DEF R!LoadState, R!Loads, Shapes, Mine
  <2> QED
    BY <1>0, <1>2, <2>1, <2>2, GrowsKeeps DEF R!LoadState, R!Loads, Shapes
<1>3. ASSUME NEW r \in R!Requests, R!Apply(r) PROVE Shapes'
  <2>1. PICK x : Grows(r, x)
    BY <1>3, ApplyKeeps
  <2> QED
    BY <1>0, <1>3, <2>1, GrowsKeeps DEF R!Apply, Shapes
<1>4. ASSUME NEW r \in R!Requests, R!UnknownTask(r) \/ R!PersistFails(r) \/ R!WriteFile(r) PROVE Shapes'
  <2>1. \A one, other \in stateFile' : one = other
    BY <1>0, <1>4 DEF Shapes, R!UnknownTask, R!PersistFails, R!WriteFile, R!Torn
  <2>2. call' = [call EXCEPT ![r] = R!Resting]
    BY <1>4 DEF R!UnknownTask, R!PersistFails, R!WriteFile, R!Answer
  <2>3. /\ call' = [q \in R!Requests |-> call'[q]]
        /\ \A q \in R!Requests : call'[q] = [at |-> call'[q].at, kind |-> call'[q].kind,
                                            id |-> call'[q].id, text |-> call'[q].text]
    BY <1>0, <2>2 DEF Shapes, R!Resting
  <2>4. UNCHANGED <<memory, loaded, overlapped, current>> /\ failed' \in BOOLEAN
    BY <1>0, <1>4 DEF Shapes, R!UnknownTask, R!PersistFails, R!WriteFile
  <2> QED
    BY <1>0, <2>1, <2>3, <2>4 DEF Shapes
<1>5. ASSUME NEW r \in R!Requests, R!OpenFile(r) PROVE Shapes'
  BY <1>0, <1>5, ServiceOf DEF Shapes, R!OpenFile, R!Torn, Mine
<1>6. ASSUME NEW s \in Services, R!Restart(s) PROVE Shapes'
  <2>1. memory' = [memory EXCEPT ![s] = R!Empty] /\ loaded' = [loaded EXCEPT ![s] = FALSE]
    BY <1>6 DEF R!Restart
  <2>2. /\ memory' = [t \in Services |-> memory'[t]] /\ loaded' = [t \in Services |-> loaded'[t]]
        /\ \A t \in Services : memory'[t] = [tasks |-> memory'[t].tasks, checkpoints |-> memory'[t].checkpoints,
                                             plugins |-> memory'[t].plugins]
    BY <1>0, <2>1 DEF Shapes, R!Empty
  <2>3. /\ call' = [q \in R!Requests |-> call'[q]]
        /\ \A q \in R!Requests : call'[q] = [at |-> call'[q].at, kind |-> call'[q].kind,
                                            id |-> call'[q].id, text |-> call'[q].text]
    BY <1>0, <1>6 DEF Shapes, R!Restart, R!Resting
  <2> QED
    BY <1>0, <1>6, <2>2, <2>3 DEF Shapes, R!Restart
<1> QED
  BY <1>1, <1>2, <1>3, <1>4, <1>5, <1>6 DEF R!RuntimeNext

Sound == LoadsAlone /\ WritesAlone /\ MemoryKnows /\ R!AnsweredIsStored

(* A step that nothing disturbs comes from a state that nothing disturbed, *)
(* and keeps what holds there.                                             *)
LEMMA SoundKept ==
  ASSUME StateInv, Undisturbed, Sound, R!RuntimeNext, Undisturbed'
  PROVE  Sound'
<1> USE DEF Sound, LoadsAlone, WritesAlone, MemoryKnows, R!AnsweredIsStored, Undisturbed, R!Quiet,
        R!At, Loading, Creates, R!Torn
<1>0. Shapes /\ \A r \in R!Requests : Mine(r) \in Services
  BY ServiceOf DEF StateInv
<1>1. ASSUME NEW r \in R!Requests, NEW kind \in R!Kinds, NEW i \in Ids \union Plugins, R!Execute(r, kind, i)
      PROVE  Sound'
  <2>1. /\ call'[r].at = IF loaded[Mine(r)] THEN "apply" ELSE "loading"
        /\ \A q \in R!Requests \ {r} : call'[q] = call[q]
    BY <1>0, <1>1 DEF R!Execute, Shapes, Mine
  <2>2. \A q \in R!Requests : Mine(q) = Mine(r) => ~Loading(q)
    BY <1>1 DEF R!Execute, Mine
  <2>3. loaded'[Mine(r)] /\ \A s \in Services \ {Mine(r)} : loaded'[s] = loaded[s]
    BY <1>0, <1>1 DEF R!Execute, Shapes, Mine
  <2>4. LoadsAlone'
    BY <1>0, <1>1, <2>1, <2>2, <2>3
  <2>5. WritesAlone' /\ MemoryKnows'
    BY <1>0, <1>1, <2>1 DEF R!Execute, Shapes
  <2>6. R!AnsweredIsStored'
    BY <1>1, <2>1 DEF R!Execute, R!Stored
  <2> QED
    BY <2>4, <2>5, <2>6
<1>2. ASSUME NEW r \in R!Requests, R!LoadState(r) PROVE Sound'
  <2>1. Goes(r, "apply")
    BY <1>0, <1>2, GoesOn DEF R!LoadState, R!Loads
  <2>2. PICK x : Grows(r, x) /\ R!Stored \subseteq R!Known(x)
    BY <1>2, LoadKeeps
  <2>3. memory'[Mine(r)] = x /\ \A s \in Services : R!Known(memory[s]) \subseteq R!Known(memory'[s])
    BY <2>2, GrowsKeeps
  <2>4. UNCHANGED <<stateFile, loaded, acked, overlapped, failed>> /\ call[r].at = "loading"
    BY <1>2 DEF R!LoadState, R!Loads
  <2>5. current' = IF R!Quiet THEN current \union {Mine(r)} ELSE current
    BY <1>2 DEF R!LoadState, R!Loads, Mine
  <2>6. \A s \in current' : acked' \subseteq R!Known(memory'[s])
    <3>1. \A s \in current : acked \subseteq R!Known(memory'[s])
      BY <1>0, <2>3 DEF Shapes
    <3>2. R!Quiet => acked \subseteq R!Known(memory'[Mine(r)])
      BY <2>2, <2>3
    <3> QED
      BY <2>4, <2>5, <3>1, <3>2
  <2>7. LoadsAlone'
    BY <2>1, <2>4 DEF Goes
  <2>8. WritesAlone'
    BY <2>1, <2>4, <2>5 DEF Goes
  <2>9. \A q \in R!Requests : call'[q].at \in {"mkdir", "writing"} /\ Creates(q)' => call'[q].id \in R!Known(memory'[Mine(q)])
    BY <1>0, <2>1, <2>3 DEF Goes
  <2>10. R!AnsweredIsStored'
    BY <2>1, <2>4 DEF Goes, R!Stored
  <2> QED
    BY <2>6, <2>7, <2>8, <2>9, <2>10
<1>3. ASSUME NEW r \in R!Requests, R!Apply(r) PROVE Sound'
  <2>1. Goes(r, "mkdir")
    BY <1>0, <1>3, GoesOn DEF R!Apply
  <2>2. PICK x : Grows(r, x) /\ (Creates(r) => call[r].id \in R!Known(x))
    BY <1>3, ApplyKeeps
  <2>3. memory'[Mine(r)] = x /\ \A s \in Services : R!Known(memory[s]) \subseteq R!Known(memory'[s])
    BY <2>2, GrowsKeeps
  <2>4. UNCHANGED <<stateFile, loaded, acked, current, overlapped, failed>> /\ call[r].at = "apply"
    BY <1>3 DEF R!Apply
  <2>5. LoadsAlone' /\ WritesAlone'
    BY <2>1, <2>4 DEF Goes
  <2>6. \A s \in current' : acked' \subseteq R!Known(memory'[s])
    BY <1>0, <2>3, <2>4 DEF Shapes
  <2>7. \A q \in R!Requests : call'[q].at \in {"mkdir", "writing"} /\ Creates(q)' => call'[q].id \in R!Known(memory'[Mine(q)])
    BY <1>0, <2>1, <2>2, <2>3 DEF Goes
  <2>8. R!AnsweredIsStored'
    BY <2>1, <2>4 DEF Goes, R!Stored
  <2> QED
    BY <2>5, <2>6, <2>7, <2>8
<1>4. ASSUME NEW r \in R!Requests, R!UnknownTask(r) PROVE Sound'
  <2>1. call'[r].at = "idle" /\ \A q \in R!Requests \ {r} : call'[q] = call[q]
    BY <1>0, <1>4 DEF R!UnknownTask, Shapes, R!Resting
  <2>2. UNCHANGED <<stateFile, loaded, memory, acked, current>> /\ call[r].at = "apply"
    BY <1>4 DEF R!UnknownTask
  <2> QED
    BY <2>1, <2>2 DEF R!Stored
<1>5. ASSUME NEW r \in R!Requests, R!OpenFile(r) PROVE Sound'
  <2>1. Goes(r, "writing") /\ call'[r].text = memory[Mine(r)]
    BY <1>0, <1>5 DEF R!OpenFile, R!Held, Shapes, Goes, Mine
  <2>2. \A q \in R!Requests : ~R!At(q, "writing")
    BY <1>5 DEF R!OpenFile
  <2>3. Mine(r) \in current
    BY <1>5 DEF R!OpenFile, Mine
  <2>4. /\ stateFile' = {} /\ current' = {Mine(r)} /\ call[r].at = "mkdir"
        /\ UNCHANGED <<loaded, memory, acked>>
    BY <1>5 DEF R!OpenFile, Mine
  <2>5. LoadsAlone'
    BY <2>1, <2>4 DEF Goes
  <2>6. WritesAlone'
    BY <1>0, <2>1, <2>2, <2>3, <2>4 DEF Goes
  <2>7. MemoryKnows'
    BY <2>1, <2>3, <2>4 DEF Goes
  <2>8. ~R!Quiet'
    BY <2>1 DEF Goes
  <2> QED
    BY <2>5, <2>6, <2>7, <2>8
<1>6. ASSUME NEW r \in R!Requests, R!WriteFile(r) PROVE Sound'
  <2>1. call'[r].at = "idle" /\ \A q \in R!Requests \ {r} : call'[q] = call[q]
    BY <1>0, <1>6 DEF R!WriteFile, R!Answer, Shapes, R!Resting
  <2>2. call[r].at = "writing" /\ UNCHANGED <<loaded, memory, current>>
    BY <1>6 DEF R!WriteFile
  <2>3. stateFile' = {call[r].text}
    BY <1>6 DEF R!WriteFile
  <2>4. acked' = acked \/ (Creates(r) /\ acked' = acked \union {call[r].id})
    BY <1>6 DEF R!WriteFile, R!Answer
  <2>5. acked' \subseteq R!Known(call[r].text)
    BY <2>2, <2>4
  <2>6. \A s \in current' : acked' \subseteq R!Known(memory'[s])
    <3>1. current \subseteq {Mine(r)}
      BY <2>2
    <3> QED
      BY <2>2, <2>4, <3>1
  <2>7. R!Stored' = R!Known(call[r].text)
    BY <2>3 DEF R!Stored, R!Known
  <2>8. \A q \in R!Requests : ~R!At(q, "writing")'
    BY <2>1, <2>2
  <2>9. \A q \in R!Requests : call'[q].at \in {"mkdir", "writing"} /\ Creates(q)' => call'[q].id \in R!Known(memory'[Mine(q)])
    BY <2>1, <2>2
  <2> QED
    BY <2>1, <2>2, <2>5, <2>6, <2>7, <2>8, <2>9
<1>7. ASSUME NEW r \in R!Requests, R!PersistFails(r) PROVE Sound'
  BY <1>7 DEF R!PersistFails
<1>8. ASSUME NEW s \in Services, R!Restart(s) PROVE Sound'
  <2>1. /\ \A q \in R!Requests : call'[q] = IF Mine(q) = s THEN R!Resting ELSE call[q]
        /\ \A q \in R!Requests : Mine(q) = s => ~R!At(q, "writing")
    BY <1>8 DEF R!Restart, Mine
  <2>2. R!Resting.at = "idle"
    BY DEF R!Resting
  <2>3. /\ UNCHANGED <<stateFile, acked>> /\ current' = current \ {s}
        /\ memory' = [memory EXCEPT ![s] = R!Empty] /\ loaded' = [loaded EXCEPT ![s] = FALSE]
    BY <1>8 DEF R!Restart
  <2>4. \A t \in Services \ {s} : memory'[t] = memory[t] /\ loaded'[t] = loaded[t]
    BY <1>0, <2>3 DEF Shapes
  <2>5. LoadsAlone'
    BY <1>0, <2>1, <2>2, <2>4
  <2>6. WritesAlone'
    BY <1>0, <2>1, <2>2, <2>3
  <2>7. MemoryKnows'
    <3>1. \A t \in current' : t \in Services \ {s} /\ t \in current
      BY <1>0, <2>3 DEF Shapes
    <3>2. \A t \in current' : acked' \subseteq R!Known(memory'[t])
      BY <2>3, <2>4, <3>1
    <3>3. ASSUME NEW q \in R!Requests, call'[q].at \in {"mkdir", "writing"}, Creates(q)'
          PROVE  call'[q].id \in R!Known(memory'[Mine(q)])
      <4>1. Mine(q) \in Services \ {s} /\ call'[q] = call[q]
        BY <1>0, <2>1, <2>2, <3>3
      <4> QED
        BY <2>4, <3>3, <4>1
    <3> QED
      BY <3>2, <3>3
  <2>8. R!AnsweredIsStored'
    BY <2>1, <2>2, <2>3 DEF R!Stored
  <2> QED
    BY <2>5, <2>6, <2>7, <2>8
<1> QED
  BY <1>1, <1>2, <1>3, <1>4, <1>5, <1>6, <1>7, <1>8 DEF R!RuntimeNext

LEMMA StateNextInv == StateInv /\ [R!RuntimeNext]_runtimeVars => StateInv'
<1>1. ASSUME StateInv, R!RuntimeNext PROVE StateInv'
  <2>1. Shapes'
    BY <1>1, ShapesKept DEF StateInv
  <2>2. ASSUME Undisturbed' PROVE Sound'
    <3>1. Undisturbed
      BY <1>1, <2>1, <2>2 DEF Undisturbed, R!RuntimeNext, R!Execute, R!LoadState, R!Loads, R!Apply, R!UnknownTask,
         R!OpenFile, R!WriteFile, R!PersistFails, R!Restart, StateInv, Shapes
    <3> QED
      BY <1>1, <2>2, <3>1, SoundKept DEF StateInv, Sound
  <2> QED
    BY <2>1, <2>2 DEF StateInv, Sound
<1>2. ASSUME StateInv, UNCHANGED runtimeVars PROVE StateInv'
  BY <1>2 DEF StateInv, runtimeVars, Shapes, LoadsAlone, WritesAlone, MemoryKnows, R!AnsweredIsStored,
     Undisturbed, R!Quiet, R!Stored, R!At, Loading, Creates, R!Known
<1> QED
  BY <1>1, <1>2

LEMMA StateInvGives == StateInv => R!AnsweredIsStored
  BY DEF StateInv, Undisturbed, R!AnsweredIsStored

-----------------------------------------------------------------------------
(* RuntimeState: its variables keep their types.  A request that creates   *)
(* has an identifier, and one about a plugin the name of one.              *)
Maps(K, V) == UNION {[D -> V] : D \in SUBSET K}
TaskMaps == Maps(Ids, {"queued", "cancelled"})
PluginMaps == Maps(Plugins, BOOLEAN)
AboutPlugins == {"plugin_enable", "plugin_disable", "plugin_remove"}
RightId(x) == x.at # "idle" =>
    /\ x.kind \in AboutPlugins => x.id \in Plugins
    /\ x.kind \in {"task_create", "task_cancel", "session_checkpoint"} => x.id \in Ids
    /\ x.kind # "none"
WorkFits(x) == x \in R!Work /\ RightId(x)
TextFits(x) == x \in R!States
CallsFit(c) == c \in [R!Requests -> R!Work] /\ \A r \in R!Requests : RightId(c[r])
FileFits(s) == s = {} \/ \E x : s = {x} /\ TextFits(x)
MemoriesFit(m) == m = [s \in Services |-> m[s]] /\ \A s \in Services : TextFits(m[s])
RuntimeTyped ==
    /\ FileFits(stateFile) /\ MemoriesFit(memory) /\ CallsFit(call)
    /\ calls \in 0..MaxCalls /\ acked \subseteq Ids /\ loaded \in [Services -> BOOLEAN]
    /\ current \subseteq Services /\ overlapped \in BOOLEAN /\ failed \in BOOLEAN

LEMMA MapIs ==
  ASSUME NEW K, NEW V
  PROVE  /\ \A f \in Maps(K, V) : f \in [DOMAIN f -> V] /\ DOMAIN f \subseteq K
         /\ \A D \in SUBSET K : \A f \in [D -> V] : f \in Maps(K, V)
         /\ <<>> \in Maps(K, V)
<1>1. \A D \in SUBSET K : \A f \in [D -> V] : f \in Maps(K, V)
  BY Zenon DEF Maps
<1>2. <<>> \in [{} -> V] /\ {} \in SUBSET K
  OBVIOUS
<1>3. ASSUME NEW f \in Maps(K, V) PROVE f \in [DOMAIN f -> V] /\ DOMAIN f \subseteq K
  <2>1. PICK D \in SUBSET K : f \in [D -> V]
    BY Zenon, <1>3 DEF Maps
  <2> QED
    BY <2>1
<1> QED
  BY <1>1, <1>2, <1>3

LEMMA OverFits ==
  ASSUME NEW K, NEW V, NEW f \in Maps(K, V), NEW g \in Maps(K, V)
  PROVE  R!Over(f, g) \in Maps(K, V)
<1>1. f \in [DOMAIN f -> V] /\ g \in [DOMAIN g -> V] /\ DOMAIN f \union DOMAIN g \in SUBSET K
  BY MapIs
<1>2. R!Over(f, g) \in [DOMAIN f \union DOMAIN g -> V]
  BY <1>1 DEF R!Over
<1> QED
  BY <1>1, <1>2, MapIs

LEMMA WithFits ==
  ASSUME NEW K, NEW V, NEW f \in Maps(K, V), NEW key \in K, NEW v \in V
  PROVE  R!With(key, v, f) \in Maps(K, V)
<1>1. [x \in {key} |-> v] \in [{key} -> V] /\ {key} \in SUBSET K
  OBVIOUS
<1>2. [x \in {key} |-> v] \in Maps(K, V)
  BY <1>1, MapIs
<1> QED
  BY <1>2, OverFits DEF R!With

StateText(t, c, p) == [tasks |-> t, checkpoints |-> c, plugins |-> p]
LEMMA TextIs ==
  /\ \A t \in TaskMaps, c \in SUBSET Ids, p \in PluginMaps : TextFits(StateText(t, c, p))
  /\ \A x : TextFits(x) => /\ x = StateText(x.tasks, x.checkpoints, x.plugins)
                           /\ x.tasks \in TaskMaps /\ x.checkpoints \in SUBSET Ids /\ x.plugins \in PluginMaps
  /\ TextFits(R!Empty)
<1>1. R!States = [tasks : TaskMaps, checkpoints : SUBSET Ids, plugins : PluginMaps]
  BY Zenon DEF R!States, TaskMaps, PluginMaps, Maps
<1>2. \A t \in TaskMaps, c \in SUBSET Ids, p \in PluginMaps : TextFits(StateText(t, c, p))
  BY <1>1 DEF TextFits, StateText
<1>3. ASSUME NEW x, TextFits(x)
      PROVE  /\ x = StateText(x.tasks, x.checkpoints, x.plugins)
             /\ x.tasks \in TaskMaps /\ x.checkpoints \in SUBSET Ids /\ x.plugins \in PluginMaps
  BY <1>1, <1>3 DEF TextFits, StateText
<1>4. <<>> \in TaskMaps /\ <<>> \in PluginMaps /\ {} \in SUBSET Ids
  BY MapIs DEF TaskMaps, PluginMaps
<1>5. R!Empty = StateText(<<>>, {}, <<>>)
  BY DEF R!Empty, StateText
<1> QED
  BY <1>2, <1>3, <1>4, <1>5

Job(a, k, i, t) == [at |-> a, kind |-> k, id |-> i, text |-> t]
LEMMA WorkIs ==
  /\ \A x \in R!Work : /\ x = Job(x.at, x.kind, x.id, x.text)
                       /\ x.kind \in R!Kinds \union {"none"} /\ x.id \in Ids \union Plugins \union {"none"} /\ TextFits(x.text)
  /\ \A a \in {"idle", "loading", "apply", "mkdir", "writing"}, k \in R!Kinds \union {"none"},
        i \in Ids \union Plugins \union {"none"} : \A t : TextFits(t) => Job(a, k, i, t) \in R!Work
  /\ WorkFits(R!Resting)
<1>1. R!Work = [at : {"idle", "loading", "apply", "mkdir", "writing"}, kind : R!Kinds \union {"none"},
                id : Ids \union Plugins \union {"none"}, text : R!States]
  BY Zenon DEF R!Work
<1>2. \A x \in R!Work : /\ x = Job(x.at, x.kind, x.id, x.text)
                        /\ x.kind \in R!Kinds \union {"none"} /\ x.id \in Ids \union Plugins \union {"none"} /\ TextFits(x.text)
  BY <1>1 DEF Job, TextFits
<1>3. \A a \in {"idle", "loading", "apply", "mkdir", "writing"}, k \in R!Kinds \union {"none"},
         i \in Ids \union Plugins \union {"none"} : \A t : TextFits(t) => Job(a, k, i, t) \in R!Work
  BY <1>1 DEF Job, TextFits
<1>4. R!Resting = Job("idle", "none", "none", R!Empty)
  BY DEF R!Resting, Job
<1>5. R!Resting.at = "idle"
  BY DEF R!Resting
<1> QED
  BY <1>2, <1>3, <1>4, <1>5, TextIs DEF WorkFits, RightId

(* The memory of one service is set.                                       *)
LEMMA MemoryPut ==
  ASSUME MemoriesFit(memory), NEW r \in R!Requests, NEW x, TextFits(x), R!Holds(r, x)
  PROVE  MemoriesFit(memory')
BY ServiceOf DEF MemoriesFit, R!Holds, Mine

LEMMA HeldFits ==
  ASSUME MemoriesFit(memory), NEW r \in R!Requests
  PROVE  TextFits(R!Held(r))
BY ServiceOf DEF MemoriesFit, R!Held, Mine

LEMMA CallPut ==
  ASSUME CallsFit(call), NEW r \in R!Requests, NEW x, WorkFits(x), call' = [call EXCEPT ![r] = x]
  PROVE  CallsFit(call')
  BY DEF CallsFit, WorkFits

LEMMA CallGoes ==
  ASSUME CallsFit(call), NEW r \in R!Requests, NEW stage \in {"apply", "mkdir"}, ~R!At(r, "idle"),
         call' = [call EXCEPT ![r].at = stage]
  PROVE  CallsFit(call')
<1> DEFINE x == call[r]
           y == [x EXCEPT !.at = stage]
<1>1. x \in R!Work /\ RightId(x) /\ x.at # "idle"
  BY DEF CallsFit, R!At
<1>2. call' = [call EXCEPT ![r] = y]
  BY DEF CallsFit
<1> HIDE DEF x, y
<1>3. x = Job(x.at, x.kind, x.id, x.text) /\ x.kind \in R!Kinds \union {"none"}
      /\ x.id \in Ids \union Plugins \union {"none"} /\ TextFits(x.text)
  BY <1>1, WorkIs
<1>4. y = Job(stage, x.kind, x.id, x.text)
  BY <1>3 DEF y, Job
<1>5. y \in R!Work
  BY <1>3, <1>4, WorkIs
<1>6. y.at = stage /\ y.kind = x.kind /\ y.id = x.id
  BY <1>4 DEF Job
<1>7. WorkFits(y)
  BY <1>1, <1>5, <1>6 DEF WorkFits, RightId
<1> QED
  BY <1>2, <1>7, CallPut

LEMMA TypedInit == R!RuntimeInit => RuntimeTyped
<1> SUFFICES ASSUME R!RuntimeInit PROVE RuntimeTyped
  OBVIOUS
<1>1. /\ stateFile = {} /\ loaded = [s \in Services |-> FALSE] /\ memory = [s \in Services |-> R!Empty]
      /\ call = [r \in R!Requests |-> R!Resting] /\ acked = {} /\ current = {} /\ overlapped = FALSE
      /\ calls = 0 /\ failed = FALSE
  BY Zenon DEF R!RuntimeInit, R!Torn
<1>2. CallsFit(call)
  BY <1>1, WorkIs DEF CallsFit, WorkFits
<1>3. FileFits(stateFile) /\ MemoriesFit(memory) /\ calls \in 0..MaxCalls
  BY <1>1, TextIs, StoresAssumption DEF FileFits, MemoriesFit
<1> QED
  BY <1>1, <1>2, <1>3 DEF RuntimeTyped

LEMMA TypedExecute ==
  ASSUME RuntimeTyped, NEW r \in R!Requests, NEW kind \in R!Kinds, NEW i \in Ids \union Plugins, R!Execute(r, kind, i)
  PROVE  RuntimeTyped'
<1> DEFINE stage == IF loaded[R!Service(r)] THEN "apply" ELSE "loading"
<1>1. /\ i \in Plugins <=> kind \in AboutPlugins
      /\ call' = [call EXCEPT ![r] = Job(stage, kind, i, R!Empty)]
      /\ calls < MaxCalls /\ calls' = calls + 1 /\ loaded' = [loaded EXCEPT ![R!Service(r)] = TRUE]
      /\ overlapped' = (overlapped \/ \E q \in R!Requests : R!Service(q) = R!Service(r) /\ R!At(q, "loading"))
      /\ stateFile' = stateFile /\ memory' = memory /\ acked' = acked /\ current' = current /\ failed' = failed
  BY Zenon DEF R!Execute, Job, AboutPlugins
<1>2. stage \in {"apply", "loading"}
  OBVIOUS
<1> HIDE DEF stage
<1>3. Job(stage, kind, i, R!Empty) \in R!Work
  BY <1>2, TextIs, WorkIs
<1>4. RightId(Job(stage, kind, i, R!Empty))
  BY <1>1 DEF RightId, Job, AboutPlugins, R!Kinds
<1>5. CallsFit(call')
  BY <1>1, <1>3, <1>4, CallPut DEF WorkFits, RuntimeTyped
<1>6. calls' \in 0..MaxCalls
  BY <1>1, StoresAssumption DEF RuntimeTyped
<1>7. overlapped' \in BOOLEAN /\ loaded' \in [Services -> BOOLEAN]
  BY <1>1 DEF RuntimeTyped
<1> QED
  BY <1>1, <1>5, <1>6, <1>7 DEF RuntimeTyped

LEMMA TypedLoad == ASSUME RuntimeTyped, NEW r \in R!Requests, R!LoadState(r) PROVE RuntimeTyped'
<1>1. /\ R!At(r, "loading") /\ call' = [call EXCEPT ![r].at = "apply"]
      /\ stateFile' = stateFile /\ loaded' = loaded /\ calls' = calls
      /\ acked' = acked /\ overlapped' = overlapped /\ failed' = failed
      /\ current' = current \/ current' = current \union {R!Service(r)}
  BY Zenon DEF R!LoadState, R!Loads
<1>2. TextFits(R!Held(r)) /\ current' \subseteq Services
  BY <1>1, HeldFits, ServiceOf DEF RuntimeTyped, Mine
<1>3. MemoriesFit(memory')
  <2>1. CASE R!Holds(r, R!Held(r))
    BY <1>2, <2>1, MemoryPut DEF RuntimeTyped
  <2>2. ASSUME NEW text \in stateFile, R!Holds(r, R!Joined(text, R!Held(r)))
        PROVE  MemoriesFit(memory')
    <3> DEFINE h == R!Held(r)
    <3>1. TextFits(text) /\ TextFits(h)
      BY <1>2 DEF RuntimeTyped, FileFits
    <3> HIDE DEF h
    <3>2. R!Over(text.tasks, h.tasks) \in TaskMaps /\ R!Over(text.plugins, h.plugins) \in PluginMaps
      BY <3>1, TextIs, OverFits DEF TaskMaps, PluginMaps
    <3>3. h.checkpoints \union text.checkpoints \in SUBSET Ids
      BY <3>1, TextIs
    <3>4. R!Joined(text, h) = StateText(R!Over(text.tasks, h.tasks), h.checkpoints \union text.checkpoints,
                                        R!Over(text.plugins, h.plugins))
      BY Zenon DEF R!Joined, StateText
    <3>5. TextFits(R!Joined(text, h))
      BY <3>2, <3>3, <3>4, TextIs
    <3> QED
      BY <2>2, <3>5, MemoryPut DEF RuntimeTyped, h
  <2> QED
    BY Zenon, <2>1, <2>2 DEF R!LoadState
<1>4. ~R!At(r, "idle")
  BY <1>1 DEF R!At
<1>5. CallsFit(call')
  BY <1>1, <1>4, CallGoes DEF RuntimeTyped
<1> QED
  BY <1>1, <1>2, <1>3, <1>5 DEF RuntimeTyped

(* One map of the memory is set.                                           *)
TasksPut(x, f) == [x EXCEPT !.tasks = f]
CheckpointsPut(x, s) == [x EXCEPT !.checkpoints = s]
PluginsPut(x, f) == [x EXCEPT !.plugins = f]
LEMMA PutsFit ==
  ASSUME NEW x, TextFits(x)
  PROVE  /\ \A f \in TaskMaps : TextFits(TasksPut(x, f))
         /\ \A s \in SUBSET Ids : TextFits(CheckpointsPut(x, s))
         /\ \A f \in PluginMaps : TextFits(PluginsPut(x, f))
<1>1. x = StateText(x.tasks, x.checkpoints, x.plugins)
      /\ x.tasks \in TaskMaps /\ x.checkpoints \in SUBSET Ids /\ x.plugins \in PluginMaps
  BY TextIs
<1>2. ASSUME NEW f \in TaskMaps PROVE TextFits(TasksPut(x, f))
  <2>1. TasksPut(x, f) = StateText(f, x.checkpoints, x.plugins)
    BY <1>1 DEF TasksPut, StateText
  <2> QED
    BY <1>1, <2>1, TextIs
<1>3. ASSUME NEW s \in SUBSET Ids PROVE TextFits(CheckpointsPut(x, s))
  <2>1. CheckpointsPut(x, s) = StateText(x.tasks, s, x.plugins)
    BY <1>1 DEF CheckpointsPut, StateText
  <2> QED
    BY <1>1, <2>1, TextIs
<1>4. ASSUME NEW f \in PluginMaps PROVE TextFits(PluginsPut(x, f))
  <2>1. PluginsPut(x, f) = StateText(x.tasks, x.checkpoints, f)
    BY <1>1 DEF PluginsPut, StateText
  <2> QED
    BY <1>1, <2>1, TextIs
<1> QED
  BY <1>2, <1>3, <1>4

LEMMA TypedApply == ASSUME RuntimeTyped, NEW r \in R!Requests, R!Apply(r) PROVE RuntimeTyped'
<1>1. /\ R!At(r, "apply") /\ call' = [call EXCEPT ![r].at = "mkdir"]
      /\ stateFile' = stateFile /\ loaded' = loaded /\ calls' = calls
      /\ acked' = acked /\ current' = current /\ overlapped' = overlapped /\ failed' = failed
  BY Zenon DEF R!Apply
<1>2. ~R!At(r, "idle")
  BY <1>1 DEF R!At
<1>3. CallsFit(call')
  BY <1>1, <1>2, CallGoes DEF RuntimeTyped
<1>4. RightId(call[r]) /\ call[r].at # "idle" /\ TextFits(R!Held(r)) /\ MemoriesFit(memory)
  BY <1>2, HeldFits DEF RuntimeTyped, CallsFit, R!At
<1>5. R!Held(r).tasks \in TaskMaps /\ R!Held(r).checkpoints \in SUBSET Ids /\ R!Held(r).plugins \in PluginMaps
  BY <1>4, TextIs
<1>6. CASE R!CreateTask(r)
  <2>1. call[r].kind = "task_create" /\ R!Holds(r, TasksPut(R!Held(r), R!With(call[r].id, "queued", R!Held(r).tasks)))
    BY Zenon, <1>6 DEF R!CreateTask, TasksPut
  <2>2. call[r].id \in Ids
    BY <1>4, <2>1 DEF RightId
  <2>3. R!With(call[r].id, "queued", R!Held(r).tasks) \in TaskMaps
    BY <1>5, <2>2, WithFits DEF TaskMaps
  <2> QED
    BY <1>1, <1>3, <1>4, <2>1, <2>3, PutsFit, MemoryPut DEF RuntimeTyped
<1>7. CASE R!CancelTask(r)
  <2> DEFINE f == [R!Held(r).tasks EXCEPT ![call[r].id] = "cancelled"]
  <2>1. R!Holds(r, [R!Held(r) EXCEPT !.tasks[call[r].id] = "cancelled"])
    BY Zenon, <1>7 DEF R!CancelTask
  <2>2. R!Holds(r, TasksPut(R!Held(r), f))
    BY <2>1 DEF TasksPut
  <2>3. R!Held(r).tasks \in [DOMAIN R!Held(r).tasks -> {"queued", "cancelled"}] /\ DOMAIN R!Held(r).tasks \subseteq Ids
    BY <1>5, MapIs DEF TaskMaps
  <2>4. f \in [DOMAIN R!Held(r).tasks -> {"queued", "cancelled"}]
    BY <2>3
  <2>5. f \in TaskMaps
    BY <2>3, <2>4, MapIs DEF TaskMaps
  <2> QED
    BY <1>1, <1>3, <1>4, <2>2, <2>5, PutsFit, MemoryPut DEF RuntimeTyped
<1>8. CASE R!SessionCheckpoint(r)
  <2>1. call[r].kind = "session_checkpoint"
        /\ R!Holds(r, CheckpointsPut(R!Held(r), R!Held(r).checkpoints \union {call[r].id}))
    BY Zenon, <1>8 DEF R!SessionCheckpoint, CheckpointsPut
  <2>2. call[r].id \in Ids
    BY <1>4, <2>1 DEF RightId
  <2>3. R!Held(r).checkpoints \union {call[r].id} \in SUBSET Ids
    BY <1>5, <2>2
  <2> QED
    BY <1>1, <1>3, <1>4, <2>1, <2>3, PutsFit, MemoryPut DEF RuntimeTyped
<1>9. CASE R!ChangePlugin(r)
  <2>1. \/ call[r].kind \in {"plugin_enable", "plugin_disable"} /\ \E on \in BOOLEAN :
              R!Holds(r, PluginsPut(R!Held(r), R!With(call[r].id, on, R!Held(r).plugins)))
        \/ R!Holds(r, PluginsPut(R!Held(r), [p \in DOMAIN R!Held(r).plugins \ {call[r].id} |-> R!Held(r).plugins[p]]))
    BY Zenon, <1>9 DEF R!ChangePlugin, PluginsPut
  <2>2. CASE call[r].kind \in {"plugin_enable", "plugin_disable"} /\ \E on \in BOOLEAN :
              R!Holds(r, PluginsPut(R!Held(r), R!With(call[r].id, on, R!Held(r).plugins)))
    <3>1. PICK on \in BOOLEAN : R!Holds(r, PluginsPut(R!Held(r), R!With(call[r].id, on, R!Held(r).plugins)))
      BY Zenon, <2>2
    <3>2. call[r].id \in Plugins
      BY <1>4, <2>2 DEF RightId, AboutPlugins
    <3>3. R!With(call[r].id, on, R!Held(r).plugins) \in PluginMaps
      BY <1>5, <3>2, WithFits DEF PluginMaps
    <3> QED
      BY <1>1, <1>3, <1>4, <3>1, <3>3, PutsFit, MemoryPut DEF RuntimeTyped
  <2>3. CASE R!Holds(r, PluginsPut(R!Held(r), [p \in DOMAIN R!Held(r).plugins \ {call[r].id} |-> R!Held(r).plugins[p]]))
    <3> DEFINE D == DOMAIN R!Held(r).plugins \ {call[r].id}
               f == [p \in D |-> R!Held(r).plugins[p]]
    <3>1. R!Held(r).plugins \in [DOMAIN R!Held(r).plugins -> BOOLEAN] /\ DOMAIN R!Held(r).plugins \subseteq Plugins
      BY <1>5, MapIs DEF PluginMaps
    <3>2. f \in [D -> BOOLEAN] /\ D \in SUBSET Plugins
      BY <3>1
    <3>3. f \in PluginMaps
      BY <3>2, MapIs DEF PluginMaps
    <3> QED
      BY <1>1, <1>3, <1>4, <2>3, <3>3, PutsFit, MemoryPut DEF RuntimeTyped
  <2> QED
    BY <2>1, <2>2, <2>3
<1> QED
  BY Zenon, <1>6, <1>7, <1>8, <1>9 DEF R!Apply

LEMMA TypedUnknown == ASSUME RuntimeTyped, NEW r \in R!Requests, R!UnknownTask(r) PROVE RuntimeTyped'
<1>1. /\ call' = [call EXCEPT ![r] = R!Resting] /\ memory' = memory
      /\ stateFile' = stateFile /\ loaded' = loaded /\ calls' = calls /\ current' = current
      /\ acked' = acked /\ overlapped' = overlapped /\ failed' = failed
  BY Zenon DEF R!UnknownTask
<1>2. CallsFit(call')
  BY <1>1, WorkIs, CallPut DEF RuntimeTyped
<1> QED
  BY <1>1, <1>2 DEF RuntimeTyped

LEMMA TypedOpen == ASSUME RuntimeTyped, NEW r \in R!Requests, R!OpenFile(r) PROVE RuntimeTyped'
<1>1. /\ R!At(r, "mkdir") /\ call' = [call EXCEPT ![r] = Job("writing", call[r].kind, call[r].id, R!Held(r))]
      /\ memory' = memory /\ stateFile' = {} /\ loaded' = loaded /\ calls' = calls
      /\ acked' = acked /\ failed' = failed
      /\ overlapped' = (overlapped \/ R!Service(r) \notin current \/ \E q \in R!Requests : R!At(q, "writing"))
      /\ current' = {R!Service(r)}
  BY Zenon DEF R!OpenFile, R!Torn, Job
<1> DEFINE x == call[r]
           y == Job("writing", x.kind, x.id, R!Held(r))
<1>2. x \in R!Work /\ RightId(x) /\ x.at # "idle" /\ TextFits(R!Held(r))
  BY <1>1, HeldFits DEF RuntimeTyped, CallsFit, R!At
<1>3. y \in R!Work
  <2> HIDE DEF x
  <2> QED
    BY <1>2, WorkIs
<1>4. RightId(y)
  BY <1>2 DEF RightId, Job
<1>5. CallsFit(call')
  BY <1>1, <1>3, <1>4, CallPut DEF RuntimeTyped, WorkFits
<1>6. FileFits(stateFile') /\ overlapped' \in BOOLEAN /\ current' \subseteq Services
  BY <1>1, ServiceOf DEF FileFits, RuntimeTyped, Mine
<1> QED
  BY <1>1, <1>5, <1>6 DEF RuntimeTyped

LEMMA TypedAnswer ==
  ASSUME RuntimeTyped, NEW r \in R!Requests, R!Answer(r), ~R!At(r, "idle")
  PROVE  CallsFit(call') /\ acked' \subseteq Ids
<1>1. /\ call' = [call EXCEPT ![r] = R!Resting]
      /\ acked' = IF call[r].kind \in {"task_create", "session_checkpoint"} THEN acked \union {call[r].id} ELSE acked
  BY Zenon DEF R!Answer
<1>2. CallsFit(call')
  BY <1>1, WorkIs, CallPut DEF RuntimeTyped
<1>3. RightId(call[r]) /\ call[r].at # "idle" /\ acked \subseteq Ids
  BY DEF RuntimeTyped, CallsFit, R!At
<1>4. call[r].kind \in {"task_create", "session_checkpoint"} => call[r].id \in Ids
  BY <1>3 DEF RightId
<1>5. acked' \subseteq Ids
  BY <1>1, <1>3, <1>4
<1> QED
  BY <1>2, <1>5

LEMMA TypedWrite == ASSUME RuntimeTyped, NEW r \in R!Requests, R!WriteFile(r) PROVE RuntimeTyped'
<1>1. /\ R!At(r, "writing") /\ R!Answer(r) /\ (stateFile' = {call[r].text} \/ stateFile' = {})
      /\ memory' = memory /\ loaded' = loaded /\ calls' = calls /\ overlapped' = overlapped /\ failed' = failed
      /\ current' = current
  BY Zenon DEF R!WriteFile, R!Torn
<1>2. CallsFit(call') /\ acked' \subseteq Ids
  BY <1>1, TypedAnswer DEF R!At
<1>3. TextFits(call[r].text)
  BY WorkIs DEF RuntimeTyped, CallsFit
<1>4. FileFits(stateFile')
  BY <1>1, <1>3 DEF FileFits
<1> QED
  BY <1>1, <1>2, <1>4 DEF RuntimeTyped

LEMMA TypedFails == ASSUME RuntimeTyped, NEW r \in R!Requests, R!PersistFails(r) PROVE RuntimeTyped'
<1>1. /\ call[r].at \in {"mkdir", "writing"} /\ R!Answer(r) /\ failed' = TRUE
      /\ stateFile' = stateFile /\ memory' = memory /\ loaded' = loaded /\ calls' = calls /\ overlapped' = overlapped
      /\ current' = current
  BY Zenon DEF R!PersistFails
<1>2. CallsFit(call') /\ acked' \subseteq Ids
  BY <1>1, TypedAnswer DEF R!At
<1>3. failed' \in BOOLEAN
  BY <1>1
<1> QED
  BY <1>1, <1>2, <1>3 DEF RuntimeTyped

LEMMA TypedRestart == ASSUME RuntimeTyped, NEW s \in Services, R!Restart(s) PROVE RuntimeTyped'
<1>1. /\ loaded' = [loaded EXCEPT ![s] = FALSE] /\ memory' = [memory EXCEPT ![s] = R!Empty]
      /\ call' = [r \in R!Requests |-> IF R!Service(r) = s THEN R!Resting ELSE call[r]]
      /\ failed' = (failed \/ \E r \in R!Requests : R!Service(r) = s /\ R!At(r, "writing"))
      /\ stateFile' = stateFile /\ calls' = calls /\ acked' = acked /\ overlapped' = overlapped
      /\ current' = current \ {s}
  BY Zenon DEF R!Restart
<1>2. CallsFit(call')
  BY <1>1, WorkIs DEF RuntimeTyped, CallsFit, WorkFits
<1>3. failed' \in BOOLEAN /\ loaded' \in [Services -> BOOLEAN] /\ MemoriesFit(memory')
  BY <1>1, TextIs DEF RuntimeTyped, MemoriesFit
<1> QED
  BY <1>1, <1>2, <1>3 DEF RuntimeTyped

LEMMA TypedNext == RuntimeTyped /\ R!RuntimeNext => RuntimeTyped'
<1> SUFFICES ASSUME RuntimeTyped, R!RuntimeNext PROVE RuntimeTyped'
  OBVIOUS
<1>1. \/ \E s \in Services : R!Restart(s)
      \/ \E r \in R!Requests :
          \/ \E kind \in R!Kinds, i \in Ids \union Plugins : R!Execute(r, kind, i)
          \/ R!LoadState(r) \/ R!Apply(r) \/ R!UnknownTask(r)
          \/ R!OpenFile(r) \/ R!WriteFile(r) \/ R!PersistFails(r)
  BY Zenon DEF R!RuntimeNext
<1> QED
  BY Zenon, <1>1, TypedExecute, TypedLoad, TypedApply, TypedUnknown, TypedOpen, TypedWrite, TypedFails, TypedRestart

LEMMA TypedStutter == RuntimeTyped /\ UNCHANGED runtimeVars => RuntimeTyped'
  BY DEF RuntimeTyped, runtimeVars

LEMMA TypedGives == RuntimeTyped => R!RuntimeTypeOK
<1> SUFFICES ASSUME RuntimeTyped PROVE R!RuntimeTypeOK
  OBVIOUS
<1>1. stateFile \subseteq R!States /\ R!Cardinality(stateFile) <= 1
  <2>1. R!Cardinality(stateFile) = Cardinality(stateFile)
    BY Zenon DEF R!Cardinality, Cardinality
  <2>2. CASE stateFile = {}
    BY <2>1, <2>2, FS_EmptySet
  <2>3. CASE stateFile # {}
    <3>1. PICK x : stateFile = {x} /\ TextFits(x)
      BY <2>3 DEF RuntimeTyped, FileFits
    <3>2. Cardinality({x}) = 1
      BY FS_Singleton
    <3> QED
      BY <2>1, <3>1, <3>2 DEF TextFits
  <2> QED
    BY <2>2, <2>3
<1> QED
  BY <1>1 DEF RuntimeTyped, MemoriesFit, TextFits, CallsFit, R!RuntimeTypeOK

-----------------------------------------------------------------------------
(* A step of one store leaves the others as they are.                      *)
LEMMA StepsAre ==
    ASSUME Next
    PROVE  /\ F!Next \/ UNCHANGED filesVars
           /\ R!RuntimeNext \/ UNCHANGED runtimeVars
           /\ C!ContextNext \/ UNCHANGED contextVars
           /\ P!PagesNext \/ UNCHANGED pagesVars
           /\ O!BuffersNext \/ UNCHANGED bufferVars
           /\ T!TailNext \/ UNCHANGED tailVars
           /\ S!StreamNext \/ UNCHANGED streamVars
           /\ W!RegistryNext \/ UNCHANGED registryVars
           /\ X!CatalogNext \/ UNCHANGED catalogVars
  BY DEF Next, FilesStep, RuntimeStep, ContextStep, PagesStep, StreamStep, TailStep, RegistryStep,
     CatalogStep, BuffersStep, storeVars, lookupVars, logVars

StoresInv ==
    /\ FilesInv /\ StateInv /\ RuntimeTyped /\ ContextInv /\ PagesInv /\ BuffersInv
    /\ TailInv /\ StreamInv /\ RegistryInv /\ CatalogInv

LEMMA StoresInitInv == Init => StoresInv
  BY FilesInitInv, StateInitInv, TypedInit, ContextInitInv, PagesInitInv, BuffersInitInv, TailInitInv, StreamInitInv,
     RegistryInitInv, CatalogInitInv DEF Init, StoresInv

LEMMA StoresNextInv == StoresInv /\ [Next]_<<focus, storeVars, logVars, lookupVars>> => StoresInv'
<1> SUFFICES ASSUME StoresInv, [Next]_<<focus, storeVars, logVars, lookupVars>> PROVE StoresInv'
  OBVIOUS
<1>1. /\ F!Next \/ UNCHANGED filesVars
      /\ R!RuntimeNext \/ UNCHANGED runtimeVars
      /\ C!ContextNext \/ UNCHANGED contextVars
      /\ P!PagesNext \/ UNCHANGED pagesVars
      /\ O!BuffersNext \/ UNCHANGED bufferVars
      /\ T!TailNext \/ UNCHANGED tailVars
      /\ S!StreamNext \/ UNCHANGED streamVars
      /\ W!RegistryNext \/ UNCHANGED registryVars
      /\ X!CatalogNext \/ UNCHANGED catalogVars
  <2>1. CASE Next
    BY <2>1, StepsAre
  <2>2. CASE UNCHANGED <<focus, storeVars, logVars, lookupVars>>
    BY <2>2 DEF storeVars, lookupVars, logVars
  <2> QED
    BY <2>1, <2>2
<1>2. FilesInv' /\ StateInv' /\ RuntimeTyped'
  BY <1>1, FilesNextInv, FilesStutterInv, StateNextInv, TypedNext, TypedStutter DEF StoresInv
<1>3. ContextInv' /\ PagesInv'
  BY <1>1, ContextNextInv, ContextStutterInv, PagesNextInv, PagesStutterInv DEF StoresInv
<1>4. BuffersInv'
  BY <1>1, BuffersNextInv, BuffersStutterInv DEF StoresInv
<1>5. TailInv' /\ StreamInv'
  BY <1>1, TailNextInv, TailStutterInv, StreamNextInv, StreamStutterInv DEF StoresInv
<1>6. RegistryInv' /\ CatalogInv'
  BY <1>1, RegistryStepInv, RegistryInvStutter, CatalogStepInv, CatalogInvStutter DEF StoresInv
<1> QED
  BY <1>2, <1>3, <1>4, <1>5, <1>6 DEF StoresInv

(* What was in a file is still in a file, or in a checkpoint as the text it*)
(* is decoded to, unless it was deleted on request or overwritten by a     *)
(* restore, whatever fails, as long as no two requests meet on a path      *)
(* (file-service.ts 195-310, checkpoint-service.ts 104-116).               *)
THEOREM ContentAlwaysKept == Spec => []ContentKept
<1>1. StoresInv => ContentKept
  BY FilesInvGives DEF StoresInv, ContentKept
<1> QED
  BY <1>1, StoresInitInv, StoresNextInv, PTL DEF Spec

(* A task or checkpoint that was answered is in the file whenever nobody   *)
(* writes it, as long as no two loads or writes overlapped, none was cut   *)
(* short, and no service wrote that had not all the file has; any number of*)
(* services work on it (upgrade-runtime.ts 478-510).                       *)
THEOREM AnsweredStaysStored == Spec => []AnsweredIsStored
<1>1. StoresInv => AnsweredIsStored
  BY StateInvGives DEF StoresInv, AnsweredIsStored
<1> QED
  BY <1>1, StoresInitInv, StoresNextInv, PTL DEF Spec

(* What is read is what there is: a fingerprint in the ledger names what   *)
(* was read for the client, the pages of a collection are all its          *)
(* candidates and each once (context-engine.ts 404-700), the pages of a    *)
(* file are its lines from the first one on (file-page-engine.ts), and who *)
(* follows the output of a process has every piece that came in, in order, *)
(* or has been told that it has not (ring-buffer.ts).                      *)
THEOREM ReadsAlwaysSound == Spec => []ReadsSound
<1>1. StoresInv => ReadsSound
  BY ContextInvGives, PagesInvGives, BuffersInvGives DEF StoresInv, ReadsSound
<1> QED
  BY <1>1, StoresInitInv, StoresNextInv, PTL DEF Spec

(* A page of the live log at rest shows every line that is due to it,      *)
(* unless its buffer is full or a clear took it, and none twice, unless one*)
(* came while the snapshot waited for its render; the hub tells of an event*)
(* once (log-hub.ts, dashboard-ws.ts, log-buffer.ts). The tail of a log    *)
(* file passes on what the file holds from where it began, in order and    *)
(* each piece once, until the file is replaced or cut off (log-hub.ts      *)
(* 166-200).                                                               *)
THEOREM ViewAlwaysSound == Spec => []ViewSound
<1>1. StoresInv => ViewSound
  BY StreamInvGives, TailInvGives DEF StoresInv, ViewSound
<1> QED
  BY <1>1, StoresInitInv, StoresNextInv, PTL DEF Spec

(* A root is registered once, under one identifier; a sync leaves a        *)
(* workspace for every drive of its mode and fails only over a row that    *)
(* came meanwhile or a drive that is another name of a directory (machine- *)
(* root-sync.ts, workspace-service.ts). What is answered for a path is the *)
(* innermost workspace around it and a file inside it, never a secret one, *)
(* wherever the links on the way lead (workspace-path-guard.ts, workspace- *)
(* locator.ts). A list of skills or servers has each once, from the place  *)
(* that counts, all of them if nobody edited meanwhile and only true ones  *)
(* if somebody did; and what is read of a skill is inside its folder       *)
(* (skill-catalog.ts, mcp-config-loader.ts, allowlist.ts).                 *)
THEOREM LookupsAlwaysTrue == Spec => []LookupsTrue
<1>1. StoresInv => LookupsTrue
  BY RegistryInvGives, CatalogInvGives DEF StoresInv, LookupsTrue
<1> QED
  BY <1>1, StoresInitInv, StoresNextInv, PTL DEF Spec

(* The variables of every store keep their types, and the file of the      *)
(* runtime holds one state or none (upgrade-runtime.ts 478-510).           *)
THEOREM StoresTyped == Spec => []StoresTypeOK
<1>1. StoresInv => StoresTypeOK
  BY FilesInvGives, TypedGives, StreamInvGives, TailInvGives, RegistryInvGives DEF StoresInv, StoresTypeOK
<1> QED
  BY <1>1, StoresInitInv, StoresNextInv, PTL DEF Spec
=============================================================================

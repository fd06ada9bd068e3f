------------------------------- MODULE LogTail -------------------------------
(***************************************************************************)
(* LogHub.tailPath (apps/desktop/src/main/log-hub.ts): every half second   *)
(* one file is looked at, and what was added since is cut into lines.  The *)
(* file belongs to another program, which appends to it in pieces, and may *)
(* truncate it, remove it, or put a new file in its place.                 *)
(*                                                                         *)
(* A line is two pieces, the second with the newline.  A piece is known by *)
(* its file, the truncations of the file before it, and its position.      *)
(***************************************************************************)
EXTENDS Selections

CONSTANTS Inodes,     \* the files that may be found under the path
          MaxSize,    \* bound: pieces in a file
          MaxLives,   \* bound: truncations of a file
          Window,     \* pieces in the 256 KiB a tail goes back when it opens
          Chunk,      \* pieces in the 64 KiB it reads at most
          Nothing     \* the JavaScript null

VARIABLES path,     \* the file found under the path, or Nothing
          inode,    \* size and truncations of each file
          tail,     \* fd, offset, pending
          told,     \* the lines passed on since the tail started over
          expected, \* history: where the next line starts, in which file and life
          blurred   \* history: a look saw a larger file where another one was

tailVars == <<path, inode, tail, told, expected, blurred>>

Unopened == [fd |-> Nothing, offset |-> 0, pending |-> <<>>]
Position(f, n) == [file |-> f, life |-> inode[f].life, at |-> n]

TailInit ==
    /\ path = Nothing /\ inode = [f \in Inodes |-> [size |-> 0, life |-> 0]]
    /\ tail = Unopened /\ told = <<>>
    /\ expected = [file |-> Nothing, life |-> 0, at |-> 0] /\ blurred = FALSE

(* The other program.                                                      *)
Grows ==
    /\ path # Nothing /\ inode[path].size < MaxSize
    /\ inode' = [inode EXCEPT ![path].size = @ + 1]
    /\ UNCHANGED <<path, tail, told, expected, blurred>>

Truncates ==
    /\ path # Nothing /\ inode[path].life < MaxLives
    /\ inode' = [inode EXCEPT ![path] = [size |-> 0, life |-> @.life + 1]]
    /\ UNCHANGED <<path, tail, told, expected, blurred>>

Replaces(f) ==
    /\ path # f
    /\ f # Nothing => inode[f] = [size |-> 0, life |-> 0]
    /\ path' = f
    /\ UNCHANGED <<inode, tail, told, expected, blurred>>

-----------------------------------------------------------------------------
(* The look opens the file if it is not open, and starts over if the file  *)
(* has become shorter than what was read.                                  *)
Opened(size) ==
    IF tail.fd # Nothing THEN tail
    ELSE [fd |-> path, offset |-> IF size > Window THEN size - Window ELSE 0, pending |-> <<>>]
Rewound(t, size) == IF size < t.offset THEN [t EXCEPT !.offset = 0, !.pending = <<>>] ELSE t

(* The read is from the open file, which may not be the one under the path.*)
Pieces(f, from, n) ==
    [i \in 1..n |-> [file |-> f, life |-> inode[f].life, at |-> from + i]]
ReadFrom(t, size) ==
    LET available == IF inode[t.fd].size > t.offset THEN inode[t.fd].size - t.offset ELSE 0
        wanted == IF size - t.offset < Chunk THEN size - t.offset ELSE Chunk
    IN  Pieces(t.fd, t.offset, IF available < wanted THEN available ELSE wanted)

(* The text is cut at its newlines; what follows the last one waits.       *)
EndsLine(piece) == piece.at % 2 = 0
Cut(text) ==
    LET upto[i \in 0..Len(text)] ==
          IF i = 0 THEN [lines |-> <<>>, rest |-> <<>>]
          ELSE LET line == Append(upto[i - 1].rest, text[i])
               IN  IF EndsLine(text[i]) THEN [lines |-> Append(upto[i - 1].lines, line), rest |-> <<>>]
                   ELSE [lines |-> upto[i - 1].lines, rest |-> line]
    IN  upto[Len(text)]

Look ==
    IF path = Nothing
    THEN /\ tail' = Unopened /\ UNCHANGED <<path, inode, told, expected, blurred>>
    ELSE LET size == inode[path].size
             t == Rewound(Opened(size), size)
             read == ReadFrom(t, size)
             cut  == Cut(t.pending \o read)
             anew == tail.fd = Nothing \/ size < tail.offset
         IN  /\ tail' = [t EXCEPT !.offset = @ + Len(read), !.pending = cut.rest]
             /\ told' = IF anew THEN cut.lines ELSE told \o cut.lines
             /\ expected' = IF anew THEN Position(t.fd, t.offset) ELSE expected
             /\ blurred' = (blurred \/ (~anew /\ <<path, inode[path].life>> # <<expected.file, expected.life>>)
                                    \/ (anew /\ tail.fd \notin {Nothing, path}))
             /\ UNCHANGED <<path, inode>>

(* stop and start of the hub, or a read that fails: the file is closed.    *)
CloseFd == tail.fd # Nothing /\ tail' = Unopened /\ UNCHANGED <<path, inode, told, expected, blurred>>

TailNext == Grows \/ Truncates \/ (\E f \in Inodes \union {Nothing} : Replaces(f)) \/ Look \/ CloseFd
TailSpec == TailInit /\ [][TailNext]_tailVars

-----------------------------------------------------------------------------
TailTypeOK ==
    /\ path \in Inodes \union {Nothing} /\ tail.fd \in Inodes \union {Nothing}
    /\ tail.offset \in 0..MaxSize /\ Len(tail.pending) <= 1

(* log-hub.test.ts:73: nothing is lost, repeated or mixed between two      *)
(* reads.  As long as the tail stays with one life of one file, the lines  *)
(* passed on since it started over and the text that waits are what the    *)
(* file held from there to the offset; so nothing of a truncated file is   *)
(* put before the first line of what follows.                              *)
TailExact ==
    ~blurred /\ tail.fd # Nothing =>
        Flattened(told) \o tail.pending =
            [i \in 1..(tail.offset - expected.at) |->
                [file |-> expected.file, life |-> expected.life, at |-> expected.at + i]]
=============================================================================

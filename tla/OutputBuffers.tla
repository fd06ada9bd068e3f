----------------------------- MODULE OutputBuffers -----------------------------
(***************************************************************************)
(* What is kept of the output of a child process, and what a client that   *)
(* comes back for more is given: the ring of lines of a managed process    *)
(* (LogRingBuffer, packages/process/src/ring-buffer.ts), which drops the   *)
(* oldest, and the captures of a shell task (OutputCapture in              *)
(* packages/capabilities/src/shell-backend.ts), which keep the beginning.  *)
(*                                                                         *)
(* One child writes, and both are given what it writes.  A piece is a line *)
(* or the part of one that came in one chunk, as the text the chunk was    *)
(* decoded to: each chunk is decoded alone (process-manager.ts:59-60), so  *)
(* a character that comes in two chunks has become U+FFFDs before it gets  *)
(* here, and neither the ring nor `truncated` tells of that.  `split` is   *)
(* the number of bytes of a character whose beginning a cut takes away.    *)
(***************************************************************************)
EXTENDS Integers, Sequences, FiniteSets, SequencesExt, Selections

CONSTANTS Streams,    \* "stdout" and "stderr"
          Pieces,     \* what may be written: its size, and where a cut splits it
          MaxBytes,   \* MAX_PROCESS_LOG_BYTES, request.maxOutputBytes
          TailLines,  \* the limits a client asks for; 0 is none
          MaxPieces   \* bound: pieces the child writes

VARIABLES
    ring,     \* the LogRingBuffer: entries, sequence, bytes, evicted
    capture,  \* an OutputCapture per stream: bytes, truncated
    reader,   \* a client that follows nextSequence: since, got, told
    written,  \* history: bytes written, per stream
    limited   \* history: entries the client left out by its own limit

bufferVars == <<ring, capture, reader, written, limited>>

BuffersInit ==
    /\ ring = [entries |-> <<>>, sequence |-> 0, bytes |-> 0, evicted |-> FALSE]
    /\ capture = [s \in Streams |-> [bytes |-> 0, truncated |-> FALSE]]
    /\ reader = [since |-> 0, got |-> <<>>, told |-> FALSE]
    /\ written = [s \in Streams |-> 0]
    /\ limited = {}

-----------------------------------------------------------------------------
(* appendChunk: a piece too large keeps its end; the oldest entries go     *)
(* until it fits or none is left.                                          *)
Orphans == 0..3   \* a character has at most four bytes
Growth == 6       \* each of its bytes becomes a U+FFFD, which has three
Cut(p) == IF p.size <= MaxBytes THEN p.size ELSE MaxBytes + 2 * p.split
Bytes(entries) == Total([i \in 1..Len(entries) |-> entries[i].size])
After(entries, k) == SubSeq(entries, k + 1, Len(entries))
Removed(entries, size) ==
    CHOOSE k \in 0..Len(entries) :
        /\ k = Len(entries) \/ Bytes(After(entries, k)) + size <= MaxBytes
        /\ \A j \in 0..(k - 1) : Bytes(After(entries, j)) + size > MaxBytes

AppendChunk(b, p) ==
    LET size == Cut(p)
        k == Removed(b.entries, size)
        entry == [sequence |-> b.sequence + 1, size |-> size, whole |-> size = p.size]
    IN  [entries |-> Append(After(b.entries, k), entry),
         sequence |-> b.sequence + 1,
         bytes |-> b.bytes - Bytes(SubSeq(b.entries, 1, k)) + size,
         evicted |-> b.evicted \/ p.size > MaxBytes \/ k > 0]

(* OutputCapture.append: the beginning, then nothing more.                 *)
Captured(c, size) ==
    LET remaining == MaxBytes - c.bytes
    IN  [bytes |-> c.bytes + (IF size < remaining THEN size ELSE remaining),
         truncated |-> c.truncated \/ size > remaining]

(* A chunk of one or two pieces arrives.                                   *)
AppendAll(b, chunk) ==
    LET upto[i \in 0..Len(chunk)] == IF i = 0 THEN b ELSE AppendChunk(upto[i - 1], chunk[i])
    IN  upto[Len(chunk)]
Write(s, chunk) ==
    /\ ring.sequence + Len(chunk) <= MaxPieces
    /\ ring' = AppendAll(ring, chunk)
    /\ capture' = [capture EXCEPT ![s] = Captured(@, Bytes(chunk))]
    /\ written' = [written EXCEPT ![s] = @ + Bytes(chunk)]
    /\ UNCHANGED <<reader, limited>>

-----------------------------------------------------------------------------
(* read, and the client's next cursor.                                     *)
Newer(since) == Selected(ring.entries, {e \in ToSet(ring.entries) : e.sequence > since})
LastOf(s, n) == IF n > 0 /\ Len(s) > n THEN After(s, Len(s) - n) ELSE s
Truncated(since) ==
    ring.evicted \/ (ring.entries # <<>> /\ ring.entries[1].sequence > since + 1)

Follow(n) ==
    LET fresh == Newer(reader.since)
        given == LastOf(fresh, n)
    IN  /\ reader' = [since |-> ring.sequence, got |-> reader.got \o given,
                      told |-> reader.told \/ Truncated(reader.since)]
        /\ limited' = limited \union {e.sequence : e \in ToSet(fresh) \ ToSet(given)}
    /\ UNCHANGED <<ring, capture, written>>

BuffersNext ==
    \/ \E s \in Streams, p \in Pieces : Write(s, <<p>>)
    \/ \E s \in Streams, p, q \in Pieces : Write(s, <<p, q>>)
    \/ \E n \in TailLines : Follow(n)
BuffersSpec == BuffersInit /\ [][BuffersNext]_bufferVars

-----------------------------------------------------------------------------
(* snapshot: the streams that were asked for, and one flag for both.       *)
Snapshot(included) ==
    [bytes |-> [s \in included |-> capture[s].bytes],
     truncated |-> \E s \in Streams : capture[s].truncated]

(* ring-buffer.test.ts: the ring stays within its limit, except for one    *)
(* entry that was cut through a character, which may be six bytes longer;  *)
(* its count is what it holds.                                             *)
RingBounded ==
    /\ ring.bytes = Bytes(ring.entries)
    /\ ring.bytes <= MaxBytes \/ (Len(ring.entries) = 1 /\ ring.bytes <= MaxBytes + Growth)

(* A client that follows nextSequence is given every line once and in      *)
(* order, however much is evicted between two reads; if one is missing     *)
(* and it did not limit the number itself, or one is not whole, it has     *)
(* been told.                                                              *)
FollowedOrTold ==
    /\ \A i, j \in DOMAIN reader.got : i < j => reader.got[i].sequence < reader.got[j].sequence
    /\ \/ reader.told
       \/ /\ 1..reader.since = limited \union {e.sequence : e \in ToSet(reader.got)}
          /\ \A e \in ToSet(reader.got) : e.whole

(* What a task shows of a stream is all of it, but for what is redacted,   *)
(* or it says so.                                                          *)
SnapshotTold ==
    \A included \in SUBSET Streams :
        LET shown == Snapshot(included)
        IN  shown.truncated \/ \A s \in included : shown.bytes[s] = written[s]

BuffersSound == RingBounded /\ FollowedOrTold /\ SnapshotTold
=============================================================================

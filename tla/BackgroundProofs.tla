-------------------------- MODULE BackgroundProofs --------------------------
(***************************************************************************)
(* Proofs about what goes on by itself: the index that follows the files,  *)
(* and the tunnel that comes back.                                         *)
(*                                                                         *)
(* The workspace index and the queue of its watcher: for any paths, workers*)
(* and changes, what the index says is what is on the disk wherever no two *)
(* savers have overlapped, and a stop that is answered has left nothing in *)
(* the queue.                                                              *)
(*                                                                         *)
(* The tunnel controller, for any timing and any number of callers and     *)
(* child processes.  Its timers alone: the pause that should bound the     *)
(* automatic reconnect is never reached, for any delay and window in the   *)
(* relation the code's constants have.  The two views together: what a stop*)
(* holds against the reconnect, whose callback may be half way through.    *)
(***************************************************************************)
EXTENDS WorkspaceIndex, MCTunnel, FiniteSetTheorems, SequenceTheorems, TLAPS

-----------------------------------------------------------------------------
(* THE WORKSPACE INDEX                                                     *)

(* The queue: no more workers than there may be; one frame at most drains, *)
(* for the call that waits; and while a drain goes on nothing is announced.*)
DrainFrames ==
    /\ \A f \in frames : f.drains => drain.at = "flushing"
    /\ \A f, g \in frames : f.drains /\ g.drains => f = g

QueueInv ==
    /\ QueueTypeOK
    /\ Cardinality(Running) <= Concurrency
    /\ DrainFrames
    /\ drain.at # "idle" => ~watching

(* Who works is at a path, except for indexWorkspace(), which neither loads*)
(* nor looks.                                                              *)
WorkersAtPaths ==
    /\ \A j \in Jobs : job[j] # Nobody <=> work[j].at # "idle"
    /\ work[Rebuild].at \notin {"load", "look"}

(* A path that will be looked at again, or that no watcher will announce.  *)
Waits(p) == p \in news \union missed \union ToSet(pending)

(* One saver at a time: the temporary file is its own, from the opening to *)
(* the renaming, and the index is whole.                                   *)
OneSaver ==
    /\ \A v, w \in AtWork : v = w
    /\ stored # Torn
    /\ \A w \in Workers :
          /\ work[w].at = "write" => tmp = Torn /\ work[w].out = "tmp"
          /\ work[w].at = "rename" => tmp = work[w].snap
    /\ (\A w \in Workers : work[w].at \notin {"write", "rename"}) => tmp = Nobody

(* The index is right about every path that does not wait and is not being *)
(* worked at, ...                                                          *)
StoredCurrent ==
    \A p \in Paths : Waits(p) \/ stored[p] = disk[p] \/ \E j \in Jobs : job[j] = p

(* ... and so is what will replace it.                                     *)
SnapsCurrent ==
    \A w \in Workers, p \in Paths :
       work[w].at \in {"look", "open", "write", "rename"} =>
          \/ Waits(p)
          \/ work[w].snap[p] = disk[p]
          \/ work[w].at = "look" /\ job[w] = p

Sound == OneSaver /\ StoredCurrent /\ SnapsCurrent

IndexInv ==
    /\ QueueInv
    /\ IndexTypeOK
    /\ ~watching => news = {}
    /\ WorkersAtPaths
    /\ raced \/ Sound

-----------------------------------------------------------------------------
(* Of a free set that is large enough n names can be chosen.               *)
LEMMA NamesChosen ==
    ASSUME NEW n \in Nat, NEW free, IsFiniteSet(free), n <= Cardinality(free)
    PROVE  Names(n, free) \in Injection(1..n, free)
<1> DEFINE m == Cardinality(free)
<1>1. m \in Nat /\ ExistsBijection(1..m, free)
  BY FS_CardinalityType
<1>2. PICK f \in Bijection(1..m, free) : TRUE
  BY <1>1 DEF ExistsBijection
<1>3. f \in [1..m -> free] /\ IsInjective(f)
  BY <1>2 DEF Bijection, Injection
<1> DEFINE g == [i \in 1..n |-> f[i]]
<1>4. 1..n \subseteq 1..m
  BY <1>1
<1>5. g \in [1..n -> free]
  BY <1>3, <1>4
<1>6. ASSUME NEW a \in 1..n, NEW b \in 1..n, g[a] = g[b] PROVE a = b
  BY <1>3, <1>4, <1>6 DEF IsInjective
<1> HIDE DEF g
<1>7. g \in Injection(1..n, free)
  BY <1>5, <1>6 DEF Injection, IsInjective
<1> QED
  BY <1>7 DEF Names

(* No two of a set of workers are at work when it has no more than one.    *)
LEMMA OneAtMost ==
    ASSUME NEW S \in SUBSET Workers, ~(Cardinality(S) > 1), NEW v \in S, NEW w \in S
    PROVE  v = w
<1>1. IsFiniteSet(Workers)
  BY FS_AddElement, QueueAssumption DEF Workers
<1>2. IsFiniteSet(S) /\ Cardinality(S) \in Nat
  BY <1>1, FS_Subset, FS_CardinalityType
<1>3. IsFiniteSet(S \ {v}) /\ Cardinality(S \ {v}) = Cardinality(S) - 1
  BY <1>2, FS_RemoveElement
<1>4. Cardinality(S \ {v}) \in Nat
  BY <1>3, FS_CardinalityType
<1>5. Cardinality(S \ {v}) = 0
  BY <1>2, <1>3, <1>4
<1>6. S \ {v} = {}
  BY <1>3, <1>5, FS_EmptySet
<1> QED
  BY <1>6

-----------------------------------------------------------------------------
(* The loop of flush() keeps the workers that are busy, starts no more than*)
(* there may be, and gives every pending path to one of them or keeps it.  *)
Keeps(busy) == \A j \in busy : job'[j] = job[j]
HandsOut(busy) ==
    \A p \in ToSet(pending) : p \in ToSet(pending') \/ \E j \in Jobs \ busy : job'[j] = p

LEMMA TakeKeeps ==
    ASSUME QueueTypeOK,
           NEW busy \in SUBSET Running, Cardinality(busy) <= Concurrency,
           NEW others \in SUBSET Frame, NEW drains \in BOOLEAN,
           Take(busy, others, drains)
    PROVE  /\ job' \in [Jobs -> Paths \union {Nobody}]
           /\ pending' \in Seq(Paths) /\ IsInjective(pending')
           /\ \E new \in SUBSET Jobs : frames' = others \union {[awaits |-> new, drains |-> drains]}
           /\ Cardinality(Running') <= Concurrency
           /\ Keeps(busy) /\ HandsOut(busy)
<1> DEFINE n == IF Room(busy) < Len(pending) THEN Room(busy) ELSE Len(pending)
           new == Names(n, Jobs \ busy)
           free == Jobs \ busy
<1>1. /\ pending \in Seq(Paths) /\ IsInjective(pending)
      /\ job \in [Jobs -> Paths \union {Nobody}]
      /\ busy \subseteq Jobs
  BY DEF QueueTypeOK, Running
<1>2. /\ IsFiniteSet(Jobs) /\ Cardinality(Jobs) \in Nat /\ Concurrency \in Nat
      /\ Concurrency < Cardinality(Jobs)
  BY QueueAssumption, FS_CardinalityType
<1>3. IsFiniteSet(busy) /\ Cardinality(busy) \in Nat
  BY <1>1, <1>2, FS_Subset, FS_CardinalityType
<1>4. IsFiniteSet(free) /\ Cardinality(free) = Cardinality(Jobs) - Cardinality(busy)
  <2>1. Jobs \intersect busy = busy
    BY <1>1
  <2>2. IsFiniteSet(Jobs \ busy) /\ Cardinality(Jobs \ busy) = Cardinality(Jobs) - Cardinality(Jobs \intersect busy)
    BY <1>2, FS_Difference
  <2> QED
    BY <2>1, <2>2
<1>5. Len(pending) \in Nat /\ DOMAIN pending = 1..Len(pending)
  BY <1>1, LenProperties
<1>6. n \in Nat /\ n <= Len(pending) /\ n <= Cardinality(free)
      /\ n + Cardinality(busy) <= Concurrency
  BY <1>2, <1>3, <1>4, <1>5 DEF Room
<1>7. new \in Injection(1..n, free)
  BY <1>4, <1>6, NamesChosen
<1>8. new \in [1..n -> free] /\ (\A a, b \in 1..n : new[a] = new[b] => a = b)
  BY <1>7 DEF Injection, IsInjective
<1>9. job' = [j \in Jobs |-> IF j \in busy THEN job[j]
                             ELSE IF \E i \in 1..n : new[i] = j
                                  THEN pending[CHOOSE i \in 1..n : new[i] = j]
                             ELSE Nobody]
  BY DEF Take
<1>10. pending' = SubSeq(pending, n + 1, Len(pending))
  BY DEF Take
<1>11. frames' = others \union {[awaits |-> {new[i] : i \in 1..n}, drains |-> drains]}
  BY DEF Take
<1> HIDE DEF n, new, free
<1>12. \A i \in 1..n : i \in 1..Len(pending) /\ pending[i] \in Paths
  BY <1>1, <1>5, <1>6, ElementOfSeq
<1>13. \A j \in Jobs : (\E i \in 1..n : new[i] = j) => (CHOOSE i \in 1..n : new[i] = j) \in 1..n
  OBVIOUS
<1>14. job' \in [Jobs -> Paths \union {Nobody}]
  BY <1>1, <1>9, <1>12, <1>13
<1>15. Keeps(busy)
  BY <1>1, <1>9 DEF Keeps
<1>16. \A i \in 1..n : new[i] \in Jobs /\ new[i] \notin busy
  BY <1>8 DEF free
<1>17. ASSUME NEW i \in 1..n PROVE job'[new[i]] = pending[i]
  <2>1. (CHOOSE k \in 1..n : new[k] = new[i]) = i
    BY <1>8
  <2> QED
    BY <1>9, <1>16, <2>1
<1>18. /\ pending' \in Seq(Paths)
       /\ Len(pending') = Len(pending) - n
       /\ \A k \in 1..(Len(pending) - n) : pending'[k] = pending[n + k]
  <2>1. SubSeq(pending, n + 1, Len(pending)) \in Seq(Paths)
        /\ Len(SubSeq(pending, n + 1, Len(pending))) = (IF n + 1 <= Len(pending) THEN Len(pending) - (n + 1) + 1 ELSE 0)
        /\ \A k \in 1..(Len(pending) - (n + 1) + 1) : SubSeq(pending, n + 1, Len(pending))[k] = pending[n + 1 + k - 1]
    BY <1>1, <1>5, <1>6, SubSeqProperties
  <2>2. \A k \in 1..(Len(pending) - n) : n + 1 + k - 1 = n + k
    BY <1>5, <1>6
  <2>3. Len(pending) - (n + 1) + 1 = Len(pending) - n
    BY <1>5, <1>6
  <2>4. (IF n + 1 <= Len(pending) THEN Len(pending) - (n + 1) + 1 ELSE 0) = Len(pending) - n
    <3>1. ASSUME NEW l \in Nat, n <= l PROVE (IF n + 1 <= l THEN l - (n + 1) + 1 ELSE 0) = l - n
      BY <1>6, <3>1
    <3> QED
      BY <1>5, <1>6, <3>1
  <2> QED
    BY <1>10, <2>1, <2>2, <2>3, <2>4
<1>19. DOMAIN pending' = 1..(Len(pending) - n)
  BY <1>18, LenProperties
<1>20. IsInjective(pending')
  <2>1. ASSUME NEW a \in DOMAIN pending', NEW b \in DOMAIN pending', pending'[a] = pending'[b]
        PROVE  a = b
    <3>1. n + a \in DOMAIN pending /\ n + b \in DOMAIN pending
      BY <1>5, <1>6, <1>19
    <3>2. pending[n + a] = pending[n + b]
      BY <1>18, <1>19, <2>1
    <3>3. n + a = n + b
      BY <1>1, <3>1, <3>2 DEF IsInjective
    <3> QED
      BY <1>6, <1>19, <3>3
  <2> QED
    BY <2>1 DEF IsInjective
<1>21. HandsOut(busy)
  <2> SUFFICES ASSUME NEW p \in ToSet(pending)
               PROVE  p \in ToSet(pending') \/ \E j \in Jobs \ busy : job'[j] = p
    BY DEF HandsOut
  <2>1. PICK i \in 1..Len(pending) : pending[i] = p
    BY <1>5 DEF ToSet
  <2>2. CASE i <= n
    BY <1>16, <1>17, <2>1, <2>2, <1>6
  <2>3. CASE ~(i <= n)
    <3>1. i - n \in 1..(Len(pending) - n) /\ n + (i - n) = i
      BY <1>5, <1>6, <2>3
    <3>2. pending'[i - n] = p
      BY <1>18, <2>1, <3>1
    <3> QED
      BY <1>19, <3>1, <3>2 DEF ToSet
  <2> QED
    BY <2>2, <2>3
<1>22. Cardinality(Running') <= Concurrency
  <2> DEFINE got == {new[i] : i \in 1..n}
  <2>1. Running' \subseteq busy \union got
    <3>1. ASSUME NEW j \in Jobs, job'[j] # Nobody, j \notin busy PROVE \E i \in 1..n : new[i] = j
      BY <1>9, <3>1
    <3> QED
      BY <3>1 DEF Running
  <2>2. new \in Surjection(1..n, got)
    BY <1>8 DEF Surjection
  <2>3. IsFiniteSet(1..n) /\ Cardinality(1..n) = n
    <3>1. 1 \in Int /\ n \in Int /\ n \in Nat
      BY <1>6
    <3>2. IsFiniteSet(1..n) /\ Cardinality(1..n) = IF 1 > n THEN 0 ELSE n - 1 + 1
      BY <3>1, FS_Interval
    <3> QED
      BY <3>1, <3>2
  <2>4. IsFiniteSet(got) /\ Cardinality(got) <= n
    BY <2>2, <2>3, FS_Surjection
  <2> HIDE DEF got
  <2>5. /\ IsFiniteSet(busy \union got)
        /\ Cardinality(busy \union got) = Cardinality(busy) + Cardinality(got) - Cardinality(busy \intersect got)
    BY <1>3, <2>4, FS_Union
  <2>6. IsFiniteSet(busy \intersect got) /\ Cardinality(busy \intersect got) \in Nat
    BY <1>3, FS_Intersection, FS_CardinalityType
  <2>7. Cardinality(got) \in Nat
    BY <2>4, FS_CardinalityType
  <2>8. Cardinality(Running') <= Cardinality(busy \union got)
    BY <2>1, <2>5, FS_Subset
  <2>9. IsFiniteSet(Running') /\ Cardinality(Running') \in Nat
    BY <2>1, <2>5, FS_Subset, FS_CardinalityType
  <2> QED
    BY <1>2, <1>3, <1>6, <2>4, <2>5, <2>6, <2>7, <2>8, <2>9
<1>23. {new[i] : i \in 1..n} \in SUBSET Jobs
  BY <1>16
<1> QED
  BY <1>11, <1>14, <1>15, <1>18, <1>20, <1>21, <1>22, <1>23

-----------------------------------------------------------------------------
(* What the parts of a flush() do to the calls that wait for it.           *)
StopAnswered ==
    answer' = "stopped" /\ (answer # "stopped" \/ drain.at # "idle") /\ drain'.at = "idle"

(* A stop is answered over an empty queue, and no watcher is left.         *)
StopsEmpty == StopAnswered => pending' = <<>> /\ Running' = {} /\ ~watching'

(* A watcher that closes has been closed already, or is the same.          *)
NoNewSilence == watching' = watching \/ ~watching

Hands(w) ==
    /\ \A j \in Jobs : j # w /\ job[j] # Nobody => job'[j] = job[j]
    /\ \A p \in ToSet(pending) :
          p \in ToSet(pending') \/ \E j \in Jobs : job'[j] = p /\ (job[j] = Nobody \/ j = w)

Drains == [at : {"idle", "flushing", "waiting"}, goal : {"stop", "start"}]
Answers == {"none", "stopped", "watching", "refused", "failed"}

LEMMA AnsweredTyped ==
    ASSUME NEW goal, Answered(goal)
    PROVE  /\ drain' \in Drains /\ drain'.at = "idle"
           /\ answer' \in Answers /\ watching' \in BOOLEAN
           /\ answer' = "stopped" => ~watching'
<1>1. drain' = Idle
  BY DEF Answered
<1>2. drain' \in Drains /\ drain'.at = "idle"
  BY <1>1 DEF Idle, Drains
<1>3. \/ answer' = "stopped" /\ watching' = FALSE
      \/ answer' = "watching" /\ watching' = TRUE
      \/ answer' = "refused" /\ watching' = FALSE
  BY DEF Answered
<1> QED
  BY <1>2, <1>3 DEF Answers

(* A step that leaves queue and workers alone.                             *)
LEMMA HandsNothing ==
    ASSUME pending' = pending, job' = job
    PROVE  \A w : Hands(w)
BY DEF Hands

LEMMA EnqueueKeeps ==
    ASSUME QueueInv, NEW p \in Paths, Enqueue(p)
    PROVE  /\ QueueInv'
           /\ watching /\ watching' = watching /\ job' = job
           /\ ToSet(pending') = ToSet(pending) \union {p}
           /\ drain' = drain /\ answer' = answer
<1>1. /\ watching
      /\ pending' = IF p \in ToSet(pending) THEN pending ELSE Append(pending, p)
      /\ armed' = TRUE /\ job' = job /\ frames' = frames /\ watching' = watching
      /\ drain' = drain /\ answer' = answer
  BY DEF Enqueue
<1>2. pending \in Seq(Paths) /\ IsInjective(pending)
  BY DEF QueueInv, QueueTypeOK
<1>3. pending' \in Seq(Paths) /\ IsInjective(pending') /\ ToSet(pending') = ToSet(pending) \union {p}
  <2>1. CASE p \in ToSet(pending)
    BY <1>1, <1>2, <2>1
  <2>2. CASE p \notin ToSet(pending)
    <3>1. pending' = Append(pending, p)
      BY <1>1, <2>2
    <3>2. /\ Append(pending, p) \in Seq(Paths)
          /\ Len(Append(pending, p)) = Len(pending) + 1
          /\ \A i \in 1..Len(pending) : Append(pending, p)[i] = pending[i]
          /\ Append(pending, p)[Len(pending) + 1] = p
      BY <1>2, AppendProperties
    <3>3. Len(pending) \in Nat /\ DOMAIN pending = 1..Len(pending)
          /\ DOMAIN pending' = 1..(Len(pending) + 1)
      BY <1>2, <3>1, <3>2, LenProperties
    <3>4. \A i \in 1..Len(pending) : pending[i] # p
      BY <2>2, <3>3 DEF ToSet
    <3>5. ASSUME NEW a \in DOMAIN pending', NEW b \in DOMAIN pending', pending'[a] = pending'[b]
          PROVE  a = b
      <4>1. a \in 1..Len(pending) \/ a = Len(pending) + 1
        BY <3>3
      <4>2. b \in 1..Len(pending) \/ b = Len(pending) + 1
        BY <3>3
      <4>3. a \in 1..Len(pending) /\ b \in 1..Len(pending) => pending[a] = pending[b]
        BY <3>1, <3>2, <3>5
      <4>4. a \in 1..Len(pending) /\ b \in 1..Len(pending) => a = b
        BY <1>2, <3>3, <4>3 DEF IsInjective
      <4> QED
        BY <3>1, <3>2, <3>4, <3>5, <4>1, <4>2, <4>4
    <3>6. ToSet(pending') \subseteq ToSet(pending) \union {p}
      BY <3>1, <3>2, <3>3 DEF ToSet
    <3>7. ToSet(pending) \subseteq ToSet(pending')
      <4> SUFFICES ASSUME NEW i \in 1..Len(pending) PROVE pending[i] \in ToSet(pending')
        BY <3>3 DEF ToSet
      <4>1. i \in 1..(Len(pending) + 1) /\ pending'[i] = pending[i]
        BY <3>1, <3>2, <3>3
      <4> QED
        BY <3>3, <4>1 DEF ToSet
    <3>8. p \in ToSet(pending')
      <4>1. Len(pending) + 1 \in DOMAIN pending' /\ pending'[Len(pending) + 1] = p
        BY <3>1, <3>2, <3>3
      <4> QED
        BY <4>1 DEF ToSet
    <3> QED
      BY <3>1, <3>2, <3>5, <3>6, <3>7, <3>8 DEF IsInjective
  <2> QED
    BY <2>1, <2>2
<1>4. QueueTypeOK'
  BY <1>1, <1>3 DEF QueueInv, QueueTypeOK
<1>5. Running' = Running
  BY <1>1 DEF Running
<1> QED
  BY <1>1, <1>3, <1>4, <1>5 DEF QueueInv, DrainFrames

(* A flush() of the debounce timer, in its three cases.                    *)
LEMMA TimerKeeps ==
    ASSUME QueueInv, TimerFlushes \/ TimerOverflows \/ TimerFindsNothing
    PROVE  QueueInv' /\ Hands(Nobody) /\ StopsEmpty /\ NoNewSilence
<1>1. QueueTypeOK /\ Cardinality(Running) <= Concurrency /\ DrainFrames /\ (drain.at # "idle" => ~watching)
  BY DEF QueueInv
<1>2. CASE TimerFlushes
  <2>1. armed' = FALSE /\ watching' = watching /\ drain' = drain /\ answer' = answer
    BY <1>2 DEF TimerFlushes
  <2>2. Running \in SUBSET Running /\ frames \in SUBSET Frame /\ FALSE \in BOOLEAN
    BY <1>1 DEF QueueTypeOK
  <2>3. Take(Running, frames, FALSE)
    BY <1>2 DEF TimerFlushes
  <2>4. /\ job' \in [Jobs -> Paths \union {Nobody}]
        /\ pending' \in Seq(Paths) /\ IsInjective(pending')
        /\ \E new \in SUBSET Jobs : frames' = frames \union {[awaits |-> new, drains |-> FALSE]}
        /\ Cardinality(Running') <= Concurrency
        /\ Keeps(Running) /\ HandsOut(Running)
    BY <1>1, <2>2, <2>3, TakeKeeps
  <2>5. PICK new \in SUBSET Jobs : frames' = frames \union {[awaits |-> new, drains |-> FALSE]}
    BY <2>4
  <2>6. frames' \subseteq Frame
    <3>1. [awaits |-> new, drains |-> FALSE] \in Frame
      BY DEF Frame
    <3> QED
      BY <2>2, <2>5, <3>1
  <2>7. QueueTypeOK'
    BY <1>1, <2>1, <2>4, <2>6 DEF QueueTypeOK
  <2>8. DrainFrames'
    BY <1>1, <2>1, <2>5 DEF DrainFrames
  <2>9. Hands(Nobody)
    BY <2>4 DEF Hands, Keeps, HandsOut, Running
  <2> QED
    BY <1>1, <2>1, <2>4, <2>7, <2>8, <2>9 DEF QueueInv, StopsEmpty, StopAnswered, NoNewSilence
<1>3. CASE TimerOverflows
  <2>1. /\ armed' = FALSE /\ pending' = pending /\ job' = job /\ frames' = frames
        /\ watching' = watching /\ drain' = drain /\ answer' = answer
    BY <1>3 DEF TimerOverflows
  <2>2. QueueTypeOK'
    BY <1>1, <2>1 DEF QueueTypeOK
  <2>3. Running' = Running
    BY <2>1 DEF Running
  <2> QED
    BY <1>1, <2>1, <2>2, <2>3, HandsNothing
       DEF QueueInv, DrainFrames, StopsEmpty, StopAnswered, NoNewSilence
<1>4. CASE TimerFindsNothing
  <2>1. /\ armed' = FALSE /\ pending = <<>> /\ pending' = pending /\ job' = job /\ frames' = frames
    BY <1>4 DEF TimerFindsNothing
  <2>2. Running' = Running
    BY <2>1 DEF Running
  <2>3. CASE drain.at = "waiting" /\ Running = {}
    <3>1. Answered(drain.goal)
      BY <1>4, <2>3 DEF TimerFindsNothing
    <3>2. /\ drain' \in Drains /\ drain'.at = "idle"
          /\ answer' \in Answers /\ watching' \in BOOLEAN
          /\ answer' = "stopped" => ~watching'
      BY <3>1, AnsweredTyped
    <3>3. QueueTypeOK'
      BY <1>1, <2>1, <3>2 DEF QueueTypeOK, Drains, Answers
    <3>4. \A fr \in frames' : ~fr.drains
      BY <1>1, <2>1, <2>3 DEF DrainFrames
    <3>5. DrainFrames'
      BY <3>4 DEF DrainFrames
    <3>6. StopsEmpty
      BY <2>1, <2>2, <2>3, <3>2 DEF StopsEmpty, StopAnswered
    <3>7. NoNewSilence
      BY <1>1, <2>3 DEF NoNewSilence
    <3> QED
      BY <1>1, <2>1, <2>2, <3>2, <3>3, <3>5, <3>6, <3>7, HandsNothing DEF QueueInv
  <2>4. CASE ~(drain.at = "waiting" /\ Running = {})
    <3>1. watching' = watching /\ drain' = drain /\ answer' = answer
      BY <1>4, <2>4 DEF TimerFindsNothing
    <3>2. QueueTypeOK'
      BY <1>1, <2>1, <3>1 DEF QueueTypeOK
    <3> QED
      BY <1>1, <2>1, <2>2, <3>1, <3>2, HandsNothing
         DEF QueueInv, DrainFrames, StopsEmpty, StopAnswered, NoNewSilence
  <2> QED
    BY <2>3, <2>4
<1> QED
  BY <1>2, <1>3, <1>4

(* A drain: nothing to wait for, only workers to wait for, something to    *)
(* flush, or no room to flush it into.                                     *)
LEMMA DrainKeeps ==
    ASSUME QueueInv, NEW goal \in {"stop", "start"}, DrainCall(goal)
    PROVE  QueueInv' /\ Hands(Nobody) /\ StopsEmpty
<1>1. QueueTypeOK /\ Cardinality(Running) <= Concurrency /\ DrainFrames /\ (drain.at # "idle" => ~watching)
  BY DEF QueueInv
<1>2. drain.at = "idle" /\ armed' = FALSE
  BY DEF DrainCall
<1>3. \A fr \in frames : ~fr.drains
  BY <1>1, <1>2 DEF DrainFrames
<1>4. CASE pending = <<>> /\ Running = {}
  <2>1. Answered(goal) /\ pending' = pending /\ job' = job /\ frames' = frames
    BY <1>4 DEF DrainCall
  <2>2. /\ drain' \in Drains /\ drain'.at = "idle"
        /\ answer' \in Answers /\ watching' \in BOOLEAN
        /\ answer' = "stopped" => ~watching'
    BY <2>1, AnsweredTyped
  <2>3. QueueTypeOK'
    BY <1>1, <1>2, <2>1, <2>2 DEF QueueTypeOK, Drains, Answers
  <2>4. Running' = Running
    BY <2>1 DEF Running
  <2>5. DrainFrames'
    BY <1>3, <2>1 DEF DrainFrames
  <2>6. StopsEmpty
    BY <1>4, <2>1, <2>2, <2>4 DEF StopsEmpty, StopAnswered
  <2> QED
    BY <1>1, <2>1, <2>2, <2>3, <2>4, <2>5, <2>6, HandsNothing DEF QueueInv
<1>5. CASE ~(pending = <<>> /\ Running = {})
  <2>1. watching' = FALSE
    BY <1>5 DEF DrainCall
  <2>2. ASSUME pending' = pending, job' = job, frames' = frames,
               drain' \in Drains, answer' \in Answers,
               answer' = answer \/ answer' = "failed", drain'.at # "idle" \/ answer' = "failed"
        PROVE  QueueInv' /\ Hands(Nobody) /\ StopsEmpty
    <3>1. QueueTypeOK'
      BY <1>1, <1>2, <2>1, <2>2 DEF QueueTypeOK, Drains, Answers
    <3>2. Running' = Running
      BY <2>2 DEF Running
    <3>3. DrainFrames'
      BY <1>3, <2>2 DEF DrainFrames
    <3>4. StopsEmpty
      BY <2>2 DEF StopsEmpty, StopAnswered
    <3> QED
      BY <1>1, <2>1, <2>2, <3>1, <3>2, <3>3, <3>4, HandsNothing DEF QueueInv
  <2>3. CASE pending = <<>> /\ drain' = [at |-> "waiting", goal |-> goal]
             /\ UNCHANGED <<pending, job, frames, answer>>
    <3>1. drain' \in Drains /\ drain'.at # "idle"
      BY <2>3 DEF Drains
    <3>2. answer' \in Answers /\ answer' = answer
      BY <1>1, <2>3 DEF QueueTypeOK, Answers
    <3> QED
      BY <2>2, <2>3, <3>1, <3>2
  <2>4. CASE /\ Take(Running, frames, TRUE)
             /\ drain' = [at |-> "flushing", goal |-> goal] /\ answer' = answer
    <3>1. Running \in SUBSET Running /\ frames \in SUBSET Frame /\ TRUE \in BOOLEAN
      BY <1>1 DEF QueueTypeOK
    <3>2. /\ job' \in [Jobs -> Paths \union {Nobody}]
          /\ pending' \in Seq(Paths) /\ IsInjective(pending')
          /\ \E new \in SUBSET Jobs : frames' = frames \union {[awaits |-> new, drains |-> TRUE]}
          /\ Cardinality(Running') <= Concurrency
          /\ Keeps(Running) /\ HandsOut(Running)
      BY <1>1, <2>4, <3>1, TakeKeeps
    <3>3. PICK new \in SUBSET Jobs : frames' = frames \union {[awaits |-> new, drains |-> TRUE]}
      BY <3>2
    <3>4. frames' \subseteq Frame
      <4>1. [awaits |-> new, drains |-> TRUE] \in Frame
        BY DEF Frame
      <4> QED
        BY <3>1, <3>3, <4>1
    <3>5. drain' \in Drains /\ drain'.at = "flushing"
      BY <2>4 DEF Drains
    <3>6. QueueTypeOK'
      BY <1>1, <1>2, <2>1, <2>4, <3>2, <3>4, <3>5 DEF QueueTypeOK, Drains
    <3>7. DrainFrames'
      BY <1>3, <3>3, <3>5 DEF DrainFrames
    <3>8. Hands(Nobody)
      BY <3>2 DEF Hands, Keeps, HandsOut, Running
    <3>9. StopsEmpty
      BY <3>5 DEF StopsEmpty, StopAnswered
    <3> QED
      BY <2>1, <3>2, <3>6, <3>7, <3>8, <3>9 DEF QueueInv
  <2>5. CASE answer' = "failed" /\ UNCHANGED <<pending, job, frames, drain>>
    <3>1. drain' \in Drains /\ answer' \in Answers
      BY <1>1, <2>5 DEF QueueTypeOK, Answers, Drains
    <3> QED
      BY <2>2, <2>5, <3>1
  <2> QED
    BY <1>5, <2>3, <2>4, <2>5 DEF DrainCall
<1> QED
  BY <1>4, <1>5

(* A worker that ends: others of its frame are still out, its flush() goes *)
(* on, or its flush() ends.                                                *)
LEMMA WorkerEndsKeeps ==
    ASSUME QueueInv, NEW j \in Jobs, WorkerEnds(j)
    PROVE  QueueInv' /\ Hands(j) /\ StopsEmpty /\ NoNewSilence /\ job[j] # Nobody
<1> DEFINE busy == Running \ {j}
<1>1. QueueTypeOK /\ Cardinality(Running) <= Concurrency /\ DrainFrames /\ (drain.at # "idle" => ~watching)
  BY DEF QueueInv
<1>2. PICK f \in frames :
          /\ j \in f.awaits
          /\ \/ /\ f.awaits # {j}
                /\ job' = [job EXCEPT ![j] = Nobody]
                /\ frames' = (frames \ {f}) \union {[f EXCEPT !.awaits = f.awaits \ {j}]}
                /\ UNCHANGED <<pending, armed, watching, drain, answer>>
             \/ /\ f.awaits = {j} /\ pending # <<>>
                /\ Take(busy, frames \ {f}, f.drains)
                /\ UNCHANGED <<armed, watching, drain, answer>>
             \/ /\ f.awaits = {j} /\ pending = <<>>
                /\ job' = [job EXCEPT ![j] = Nobody]
                /\ frames' = frames \ {f}
                /\ IF f.drains THEN DrainEnds(busy) ELSE FlushEnds(busy)
                /\ UNCHANGED pending
  BY DEF WorkerEnds
<1>3. job[j] # Nobody
  BY DEF WorkerEnds
<1>4. f \in Frame /\ f.awaits \in SUBSET Jobs /\ f.drains \in BOOLEAN
  BY <1>1 DEF QueueTypeOK, Frame
<1>5. busy \in SUBSET Running /\ Cardinality(busy) <= Concurrency
  <2>1. IsFiniteSet(Running)
    BY QueueAssumption, FS_Subset DEF Running
  <2>2. Cardinality(busy) <= Cardinality(Running) /\ IsFiniteSet(busy)
    BY <2>1, FS_Subset
  <2>3. Cardinality(busy) \in Nat /\ Cardinality(Running) \in Nat /\ Concurrency \in Nat
    BY <2>1, <2>2, FS_CardinalityType, QueueAssumption
  <2> QED
    BY <1>1, <2>2, <2>3
<1>6. ASSUME job' = [job EXCEPT ![j] = Nobody], pending' = pending
      PROVE  Hands(j) /\ Running' = busy /\ job' \in [Jobs -> Paths \union {Nobody}]
  <2>1. job \in [Jobs -> Paths \union {Nobody}]
    BY <1>1 DEF QueueTypeOK
  <2>2. \A i \in Jobs : job'[i] = IF i = j THEN Nobody ELSE job[i]
    BY <1>6, <2>1
  <2>3. Hands(j)
    BY <1>6, <2>2 DEF Hands
  <2>4. Running' = busy
    BY <2>2 DEF Running
  <2> QED
    BY <1>6, <2>1, <2>3, <2>4
<1>7. CASE /\ f.awaits # {j}
           /\ job' = [job EXCEPT ![j] = Nobody]
           /\ frames' = (frames \ {f}) \union {[f EXCEPT !.awaits = f.awaits \ {j}]}
           /\ UNCHANGED <<pending, armed, watching, drain, answer>>
  <2> DEFINE g == [f EXCEPT !.awaits = f.awaits \ {j}]
  <2>1. g \in Frame /\ g.drains = f.drains
    BY <1>4 DEF Frame
  <2>2. frames' \subseteq Frame
    BY <1>1, <1>7, <2>1 DEF QueueTypeOK
  <2>3. QueueTypeOK'
    BY <1>1, <1>6, <1>7, <2>2 DEF QueueTypeOK
  <2>4. DrainFrames'
    <3>1. frames' = (frames \ {f}) \union {g} /\ drain' = drain
      BY <1>7
    <3> HIDE DEF g
    <3> QED
      BY <1>1, <1>2, <2>1, <3>1 DEF DrainFrames
  <2> HIDE DEF busy
  <2> QED
    BY <1>1, <1>3, <1>5, <1>6, <1>7, <2>3, <2>4 DEF QueueInv, StopsEmpty, StopAnswered, NoNewSilence
<1>8. CASE /\ f.awaits = {j} /\ pending # <<>>
           /\ Take(busy, frames \ {f}, f.drains)
           /\ UNCHANGED <<armed, watching, drain, answer>>
  <2>1. frames \ {f} \in SUBSET Frame
    BY <1>1 DEF QueueTypeOK
  <2>2. /\ job' \in [Jobs -> Paths \union {Nobody}]
        /\ pending' \in Seq(Paths) /\ IsInjective(pending')
        /\ \E new \in SUBSET Jobs : frames' = (frames \ {f}) \union {[awaits |-> new, drains |-> f.drains]}
        /\ Cardinality(Running') <= Concurrency
        /\ Keeps(busy) /\ HandsOut(busy)
    <3> HIDE DEF busy
    <3> QED
      BY <1>1, <1>4, <1>5, <1>8, <2>1, TakeKeeps
  <2>3. PICK new \in SUBSET Jobs : frames' = (frames \ {f}) \union {[awaits |-> new, drains |-> f.drains]}
    BY <2>2
  <2> DEFINE g == [awaits |-> new, drains |-> f.drains]
  <2>4. g \in Frame /\ g.drains = f.drains
    BY <1>4 DEF Frame
  <2>5. frames' = (frames \ {f}) \union {g}
    BY <2>3
  <2> HIDE DEF g
  <2>6. frames' \subseteq Frame
    BY <2>1, <2>4, <2>5
  <2>7. QueueTypeOK'
    BY <1>1, <1>8, <2>2, <2>6 DEF QueueTypeOK
  <2>8. DrainFrames'
    BY <1>1, <1>2, <1>8, <2>4, <2>5 DEF DrainFrames
  <2>9. Hands(j)
    BY <2>2 DEF Hands, Keeps, HandsOut, Running
  <2> QED
    BY <1>1, <1>3, <1>8, <2>2, <2>7, <2>8, <2>9 DEF QueueInv, StopsEmpty, StopAnswered, NoNewSilence
<1>9. CASE /\ f.awaits = {j} /\ pending = <<>>
           /\ job' = [job EXCEPT ![j] = Nobody]
           /\ frames' = frames \ {f}
           /\ IF f.drains THEN DrainEnds(busy) ELSE FlushEnds(busy)
           /\ UNCHANGED pending
  <2>1. Hands(j) /\ Running' = busy /\ job' \in [Jobs -> Paths \union {Nobody}]
    BY <1>6, <1>9
  <2>2. pending' = <<>> /\ pending' = pending
    BY <1>9
  <2> HIDE DEF busy
  <2>3. f.drains => drain.at = "flushing" /\ ~watching /\ \A fr \in frames' : ~fr.drains
    <3>1. ASSUME f.drains, NEW fr \in frames', fr.drains PROVE FALSE
      BY <1>1, <1>2, <1>9, <3>1 DEF DrainFrames
    <3> QED
      BY <1>1, <1>2, <3>1 DEF DrainFrames
  <2>4. \/ /\ busy = {} /\ Answered(drain.goal) /\ armed' \in BOOLEAN
           /\ ~watching /\ \A fr \in frames' : ~fr.drains
        \/ /\ f.drains /\ drain' = [drain EXCEPT !.at = "waiting"]
           /\ UNCHANGED <<armed, answer, watching>>
        \/ UNCHANGED <<armed, drain, answer, watching>>
    <3>1. CASE f.drains
      <4>1. DrainEnds(busy)
        BY <1>9, <3>1
      <4> QED
        BY <1>1, <2>3, <3>1, <4>1 DEF DrainEnds, QueueTypeOK
    <3>2. CASE ~f.drains
      <4>1. FlushEnds(busy)
        BY <1>9, <3>2
      <4>2. drain.at = "waiting" => ~watching /\ \A fr \in frames' : ~fr.drains
        BY <1>1, <1>9 DEF DrainFrames
      <4> QED
        BY <4>1, <4>2 DEF FlushEnds
    <3> QED
      BY <1>4, <3>1, <3>2
  <2>5. frames' \subseteq Frame
    BY <1>1, <1>9 DEF QueueTypeOK
  <2>6. Cardinality(Running') <= Concurrency
    BY <1>5, <2>1
  <2>7. CASE /\ busy = {} /\ Answered(drain.goal) /\ armed' \in BOOLEAN
             /\ ~watching /\ \A fr \in frames' : ~fr.drains
    <3>1. /\ drain' \in Drains /\ drain'.at = "idle"
          /\ answer' \in Answers /\ watching' \in BOOLEAN
          /\ answer' = "stopped" => ~watching'
      BY <2>7, AnsweredTyped
    <3>2. QueueTypeOK'
      BY <1>1, <2>1, <2>2, <2>5, <2>7, <3>1 DEF QueueTypeOK, Drains, Answers
    <3>3. DrainFrames'
      BY <2>7 DEF DrainFrames
    <3>4. StopsEmpty
      BY <2>1, <2>2, <2>7, <3>1 DEF StopsEmpty, StopAnswered
    <3> QED
      BY <1>3, <2>1, <2>6, <2>7, <3>1, <3>2, <3>3, <3>4 DEF QueueInv, NoNewSilence
  <2>8. CASE /\ f.drains /\ drain' = [drain EXCEPT !.at = "waiting"]
             /\ UNCHANGED <<armed, answer, watching>>
    <3>1. drain \in Drains
      BY <1>1 DEF QueueTypeOK, Drains
    <3>2. drain' \in Drains /\ drain'.at = "waiting"
      BY <2>8, <3>1 DEF Drains
    <3>3. QueueTypeOK'
      BY <1>1, <2>1, <2>2, <2>5, <2>8, <3>2 DEF QueueTypeOK, Drains
    <3>4. DrainFrames'
      BY <2>3, <2>8 DEF DrainFrames
    <3>5. StopsEmpty
      BY <3>2 DEF StopsEmpty, StopAnswered
    <3> QED
      BY <1>3, <2>1, <2>3, <2>6, <2>8, <3>3, <3>4, <3>5 DEF QueueInv, NoNewSilence
  <2>9. CASE UNCHANGED <<armed, drain, answer, watching>>
    <3>1. QueueTypeOK'
      BY <1>1, <2>1, <2>2, <2>5, <2>9 DEF QueueTypeOK
    <3>2. DrainFrames'
      BY <1>1, <1>9, <2>9 DEF DrainFrames
    <3> QED
      BY <1>1, <1>3, <2>1, <2>6, <2>9, <3>1, <3>2 DEF QueueInv, StopsEmpty, StopAnswered, NoNewSilence
  <2> QED
    BY <2>4, <2>7, <2>8, <2>9
<1> QED
  BY <1>2, <1>7, <1>8, <1>9

-----------------------------------------------------------------------------
(* The index and who works at it.                                          *)
Work == [at : {"idle", "load", "look", "open", "write", "rename"},
         snap : Snapshot, retried : BOOLEAN, out : {"tmp", "stored", "gone"}]
OneAtWork == \A v, w \in AtWork : v = w

LEMMA RacesKept ==
    ASSUME Races, raced \in BOOLEAN
    PROVE  raced' \in BOOLEAN /\ (raced' \/ (~raced /\ OneAtWork'))
<1>1. raced' = (raced \/ Cardinality(AtWork') > 1)
  BY DEF Races
<1>2. AtWork' \in SUBSET Workers
  BY DEF AtWork
<1>3. ASSUME ~(Cardinality(AtWork') > 1) PROVE OneAtWork'
  BY <1>2, <1>3, OneAtMost DEF OneAtWork
<1> QED
  BY <1>1, <1>3

(* What a snapshot is not, and the record of one who does not work.        *)
LEMMA NotSnapshots ==
    /\ Torn \notin Snapshot /\ Nobody \notin Snapshot /\ Torn # Nobody
    /\ Nobody \notin Paths /\ Nobody \notin Workers
    /\ Rebuild \in Workers /\ Rebuild \notin Jobs /\ Jobs \subseteq Workers
BY IndexAssumption, QueueAssumption DEF Workers

LEMMA NoWorkTyped ==
    /\ NoWork \in Work /\ NoWork.at = "idle" /\ NoWork.snap \in Snapshot
    /\ [NoWork EXCEPT !.at = "load"] \in Work
    /\ [NoWork EXCEPT !.at = "load"].at = "load"
<1>1. 0 \in 0..MaxVersion
  BY IndexAssumption
<1>2. [p \in Paths |-> 0] \in Snapshot
  BY <1>1 DEF Snapshot
<1> QED
  BY <1>2 DEF NoWork, Work

LEMMA FollowTyped ==
    ASSUME work \in [Workers -> Work]
    PROVE  /\ Follow \in [Workers -> Work]
           /\ \A v \in Workers : Follow[v].at = work[v].at
<1>1. ASSUME NEW v \in Workers
      PROVE  /\ [work[v] EXCEPT !.out = IF work[v].out = "tmp" THEN "stored" ELSE "gone"] \in Work
             /\ [work[v] EXCEPT !.out = IF work[v].out = "tmp" THEN "stored" ELSE "gone"].at = work[v].at
  BY DEF Work
<1> QED
  BY <1>1 DEF Follow

(* Those that a flush() starts load, the one that has ended does nothing   *)
(* unless it is started again.                                             *)
Starts(w, v) == v \in Jobs /\ job'[v] # Nobody /\ (job[v] = Nobody \/ v = w)

LEMMA BeginMaps ==
    ASSUME NEW w, NEW now \in [Workers -> Work], Begin(w, now)
    PROVE  /\ work' \in [Workers -> Work]
           /\ \A v \in Workers :
                 /\ Starts(w, v) => work'[v].at = "load"
                 /\ ~Starts(w, v) /\ v = w => work'[v].at = "idle"
                 /\ ~Starts(w, v) /\ v # w => work'[v] = now[v]
<1> DEFINE loading == [NoWork EXCEPT !.at = "load"]
<1>1. loading \in Work /\ loading.at = "load" /\ NoWork \in Work /\ NoWork.at = "idle"
  BY NoWorkTyped
<1> HIDE DEF loading
<1>2. work' = [v \in Workers |-> IF Starts(w, v) THEN loading ELSE IF v = w THEN NoWork ELSE now[v]]
  BY DEF Begin, Starts, loading
<1>3. work' \in [Workers -> Work]
  BY <1>1, <1>2
<1>4. \A v \in Workers : work'[v] = IF Starts(w, v) THEN loading ELSE IF v = w THEN NoWork ELSE now[v]
  BY <1>2
<1> QED
  BY <1>1, <1>3, <1>4

(* After a flush(), whoever works is at a path.                            *)
LEMMA AtPathsAfter ==
    ASSUME WorkersAtPaths, job' \in [Jobs -> Paths \union {Nobody}],
           NEW w, w = Nobody \/ w \in Jobs, Hands(w),
           NEW now \in [Workers -> Work], \A v \in Workers : now[v].at = work[v].at,
           Begin(w, now)
    PROVE  WorkersAtPaths'
<1>1. \A v \in Workers :
         /\ Starts(w, v) => work'[v].at = "load"
         /\ ~Starts(w, v) /\ v = w => work'[v].at = "idle"
         /\ ~Starts(w, v) /\ v # w => work'[v] = now[v]
  BY BeginMaps
<1>2. ASSUME NEW j \in Jobs PROVE job'[j] # Nobody <=> work'[j].at # "idle"
  <2>1. j \in Workers
    BY NotSnapshots
  <2>2. CASE Starts(w, j)
    BY <1>1, <2>1, <2>2 DEF Starts
  <2>3. CASE ~Starts(w, j) /\ j = w
    BY <1>1, <2>1, <2>3 DEF Starts
  <2>4. CASE ~Starts(w, j) /\ j # w
    <3>1. work'[j].at = work[j].at
      BY <1>1, <2>1, <2>4
    <3>2. job[j] # Nobody <=> work[j].at # "idle"
      BY DEF WorkersAtPaths
    <3>3. job[j] # Nobody => job'[j] = job[j]
      BY <2>4 DEF Hands
    <3>4. job[j] = Nobody => job'[j] = Nobody
      BY <2>4 DEF Starts
    <3> QED
      BY <3>1, <3>2, <3>3, <3>4
  <2> QED
    BY <2>2, <2>3, <2>4
<1>3. work'[Rebuild].at \notin {"load", "look"}
  <2>1. Rebuild \in Workers /\ ~Starts(w, Rebuild) /\ Rebuild # w
    BY NotSnapshots DEF Starts
  <2>2. work'[Rebuild].at = work[Rebuild].at
    BY <1>1, <2>1
  <2> QED
    BY <2>2 DEF WorkersAtPaths
<1> QED
  BY <1>2, <1>3 DEF WorkersAtPaths

(* A flush() that takes pending paths: each of them is kept, or is being   *)
(* worked at by the only one who works.                                    *)
LEMMA SoundAfterFlush ==
    ASSUME Sound, WorkersAtPaths, work \in [Workers -> Work],
           Hands(Nobody), Begin(Nobody, work), OneAtWork', WorkersAtPaths',
           disk' = disk, stored' = stored, tmp' = tmp,
           news' \union missed' = news \union missed
    PROVE  Sound'
<1>1. \A v \in Workers :
         /\ Starts(Nobody, v) => work'[v].at = "load"
         /\ ~Starts(Nobody, v) => work'[v] = work[v]
  BY BeginMaps, NotSnapshots
<1>2. \A v \in Workers : Starts(Nobody, v) => work[v].at = "idle"
  BY NotSnapshots DEF Starts, WorkersAtPaths
<1>3. \A v \in Workers : work'[v].at \in {"look", "open", "write", "rename"} => work'[v] = work[v]
  BY <1>1
<1>4. \A v \in Workers : work[v].at # "idle" => work'[v] = work[v]
  BY <1>1, <1>2
<1>5. ASSUME NEW p \in Paths, ~Waits(p)'
      PROVE  ~Waits(p) \/ \E j \in Jobs : job'[j] = p /\ job[j] = Nobody
  <2>1. p \notin news \union missed /\ p \notin ToSet(pending')
    BY <1>5 DEF Waits
  <2>2. CASE p \in ToSet(pending)
    BY <2>1, <2>2, NotSnapshots DEF Hands
  <2>3. CASE p \notin ToSet(pending)
    BY <2>1, <2>3 DEF Waits
  <2> QED
    BY <2>2, <2>3
<1>6. OneSaver'
  <2>1. \A w \in Workers :
           /\ work'[w].at = "write" => tmp' = Torn /\ work'[w].out = "tmp"
           /\ work'[w].at = "rename" => tmp' = work'[w].snap
    BY <1>3 DEF Sound, OneSaver
  <2>2. (\A w \in Workers : work'[w].at \notin {"write", "rename"}) => tmp' = Nobody
    <3>1. ASSUME \A w \in Workers : work'[w].at \notin {"write", "rename"}
          PROVE  \A w \in Workers : work[w].at \notin {"write", "rename"}
      BY <1>4, <3>1
    <3> QED
      BY <3>1 DEF Sound, OneSaver
  <2> QED
    BY <2>1, <2>2 DEF Sound, OneSaver, OneAtWork
<1>7. StoredCurrent'
  <2> SUFFICES ASSUME NEW p \in Paths, ~Waits(p)'
               PROVE  stored'[p] = disk'[p] \/ \E j \in Jobs : job'[j] = p
    BY DEF StoredCurrent
  <2>1. CASE \E j \in Jobs : job'[j] = p /\ job[j] = Nobody
    BY <2>1
  <2>2. CASE ~Waits(p)
    <3>1. stored[p] = disk[p] \/ \E j \in Jobs : job[j] = p
      BY <2>2 DEF Sound, StoredCurrent
    <3>2. \A j \in Jobs : job[j] = p => job'[j] = p
      BY NotSnapshots DEF Hands
    <3> QED
      BY <3>1, <3>2
  <2> QED
    BY <1>5, <2>1, <2>2
<1>8. SnapsCurrent'
  <2> SUFFICES ASSUME NEW w \in Workers, NEW p \in Paths,
                      work'[w].at \in {"look", "open", "write", "rename"}, ~Waits(p)'
               PROVE  work'[w].snap[p] = disk'[p] \/ (work'[w].at = "look" /\ job'[w] = p)
    BY DEF SnapsCurrent
  <2>1. work'[w] = work[w]
    BY <1>3
  <2>2. CASE ~Waits(p)
    <3>1. work[w].snap[p] = disk[p] \/ (work[w].at = "look" /\ job[w] = p)
      BY <2>1, <2>2 DEF Sound, SnapsCurrent
    <3>2. work[w].at = "look" => w \in Jobs
      BY DEF WorkersAtPaths, Workers
    <3>3. w \in Jobs /\ job[w] = p => job'[w] = p
      BY NotSnapshots DEF Hands
    <3> QED
      BY <2>1, <3>1, <3>2, <3>3
  <2>3. CASE \E j \in Jobs : job'[j] = p /\ job[j] = Nobody
    <3>1. PICK j \in Jobs : job'[j] = p /\ job[j] = Nobody
      BY <2>3
    <3>2. j \in Workers /\ work'[j].at = "load"
      BY <1>1, <3>1, NotSnapshots DEF Starts
    <3>3. w = j
      BY <3>2 DEF OneAtWork, AtWork
    <3> QED
      BY <3>2, <3>3
  <2> QED
    BY <1>5, <2>2, <2>3
<1> QED
  BY <1>6, <1>7, <1>8 DEF Sound

-----------------------------------------------------------------------------
(* The parts of the invariant, and how a step puts them together again.    *)
Typed ==
    /\ disk \in Snapshot /\ news \subseteq Paths /\ missed \subseteq Paths
    /\ stored \in Snapshot \union {Torn}
    /\ tmp \in Snapshot \union {Torn, Nobody}
    /\ work \in [Workers -> Work]
    /\ events \in 0..MaxEvents

LEMMA Parts ==
    ASSUME IndexInv
    PROVE  /\ QueueInv /\ Typed /\ raced \in BOOLEAN
           /\ ~watching => news = {}
           /\ WorkersAtPaths
           /\ ~raced => Sound
           /\ job \in [Jobs -> Paths \union {Nobody}]
BY DEF IndexInv, IndexTypeOK, Typed, Work, QueueInv, QueueTypeOK

LEMMA Whole ==
    ASSUME IndexInv, Races, QueueInv', Typed',
           ~watching' => news' = {},
           WorkersAtPaths',
           ASSUME Sound, OneAtWork' PROVE Sound'
    PROVE  IndexInv'
<1>1. raced' \in BOOLEAN /\ (raced' \/ (~raced /\ OneAtWork'))
  BY RacesKept, Parts
<1>2. raced' \/ Sound'
  BY <1>1, Parts
<1>3. ended' \in BOOLEAN
  BY DEF Races, IndexInv, IndexTypeOK
<1>4. IndexTypeOK'
  BY <1>1, <1>3 DEF QueueInv, IndexTypeOK, Typed, Work
<1> QED
  BY <1>2, <1>4 DEF IndexInv

LEMMA QueueRests ==
    ASSUME QueueInv, UNCHANGED qvars
    PROVE  QueueInv' /\ watching' = watching /\ job' = job /\ pending' = pending
<1>1. /\ pending' = pending /\ armed' = armed /\ job' = job /\ frames' = frames
      /\ watching' = watching /\ drain' = drain /\ answer' = answer
  BY DEF qvars
<1>2. Running' = Running
  BY <1>1 DEF Running
<1> QED
  BY <1>1, <1>2 DEF QueueInv, QueueTypeOK, DrainFrames

(* A change waits to be announced.                                         *)
LEMMA ChangeKeeps ==
    ASSUME IndexInv, NEW p \in Paths, Change(p), Races
    PROVE  IndexInv'
<1>1. QueueInv /\ Typed /\ WorkersAtPaths /\ job \in [Jobs -> Paths \union {Nobody}]
  BY Parts
<1>2. PICK v \in 0..MaxVersion : disk' = [disk EXCEPT ![p] = v]
  BY DEF Change
<1>3. /\ news' = news \union {p} /\ missed' = missed /\ stored' = stored /\ tmp' = tmp /\ work' = work
      /\ events < MaxEvents /\ events' = events + 1 /\ watching /\ UNCHANGED qvars
  BY DEF Change
<1>4. QueueInv' /\ watching' = watching /\ job' = job /\ pending' = pending
  BY <1>1, <1>3, QueueRests
<1>5. disk' \in Snapshot /\ \A q \in Paths : q # p => disk'[q] = disk[q]
  BY <1>1, <1>2 DEF Typed, Snapshot
<1>6. Typed'
  BY <1>1, <1>3, <1>5, IndexAssumption DEF Typed
<1>7. WorkersAtPaths'
  BY <1>1, <1>3, <1>4 DEF WorkersAtPaths
<1>8. ASSUME Sound PROVE Sound'
  <2>1. \A q \in Paths : ~Waits(q)' => ~Waits(q) /\ q # p
    BY <1>3, <1>4 DEF Waits
  <2>2. AtWork' = AtWork
    BY <1>3 DEF AtWork
  <2>3. OneSaver'
    BY <1>3, <1>8, <2>2 DEF Sound, OneSaver
  <2>4. StoredCurrent'
    BY <1>3, <1>4, <1>5, <1>8, <2>1 DEF Sound, StoredCurrent
  <2>5. SnapsCurrent'
    BY <1>3, <1>4, <1>5, <1>8, <2>1 DEF Sound, SnapsCurrent
  <2> QED
    BY <2>3, <2>4, <2>5 DEF Sound
<1> QED
  BY <1>3, <1>4, <1>6, <1>7, <1>8, Whole

(* What is announced waits in the queue.                                   *)
LEMMA AnnounceKeeps ==
    ASSUME IndexInv, NEW p \in Paths, Announce(p), Races
    PROVE  IndexInv'
<1>1. QueueInv /\ Typed /\ WorkersAtPaths /\ job \in [Jobs -> Paths \union {Nobody}]
  BY Parts
<1>2. /\ news' = news \ {p} /\ missed' = missed \ {p} /\ Enqueue(p)
      /\ disk' = disk /\ stored' = stored /\ tmp' = tmp /\ work' = work /\ events' = events
  BY DEF Announce
<1>3. /\ QueueInv'
      /\ watching /\ watching' = watching /\ job' = job
      /\ ToSet(pending') = ToSet(pending) \union {p}
  BY <1>1, <1>2, EnqueueKeeps
<1>4. Typed'
  BY <1>1, <1>2 DEF Typed
<1>5. WorkersAtPaths'
  BY <1>1, <1>2, <1>3 DEF WorkersAtPaths
<1>6. ASSUME Sound PROVE Sound'
  <2>1. \A q \in Paths : ~Waits(q)' => ~Waits(q)
    BY <1>2, <1>3 DEF Waits
  <2>2. AtWork' = AtWork
    BY <1>2 DEF AtWork
  <2>3. OneSaver'
    BY <1>2, <1>6, <2>2 DEF Sound, OneSaver
  <2>4. StoredCurrent'
    BY <1>2, <1>3, <1>6, <2>1 DEF Sound, StoredCurrent
  <2>5. SnapsCurrent'
    BY <1>2, <1>3, <1>6, <2>1 DEF Sound, SnapsCurrent
  <2> QED
    BY <2>3, <2>4, <2>5 DEF Sound
<1> QED
  BY <1>3, <1>4, <1>5, <1>6, Whole

(* The debounce timer, and a call that drains.                             *)
LEMMA FlushKeeps ==
    ASSUME IndexInv, QueueInv', Hands(Nobody), Begin(Nobody, work), Races,
           disk' = disk, stored' = stored, tmp' = tmp, events' = events,
           news' \union missed' = news \union missed,
           ~watching' => news' = {}
    PROVE  IndexInv'
<1>1. QueueInv /\ Typed /\ WorkersAtPaths
  BY Parts
<1>2. work \in [Workers -> Work] /\ job' \in [Jobs -> Paths \union {Nobody}]
  BY <1>1 DEF Typed, QueueInv, QueueTypeOK
<1>3. work' \in [Workers -> Work]
  BY <1>2, BeginMaps
<1>4. news' \subseteq Paths /\ missed' \subseteq Paths
  BY <1>1 DEF Typed
<1>5. Typed'
  BY <1>1, <1>3, <1>4 DEF Typed
<1>6. WorkersAtPaths'
  BY <1>1, <1>2, AtPathsAfter
<1>7. ASSUME Sound, OneAtWork' PROVE Sound'
  BY <1>1, <1>2, <1>6, <1>7, SoundAfterFlush
<1> QED
  BY <1>5, <1>6, <1>7, Whole

LEMMA TimerStep ==
    ASSUME IndexInv, Timer, Races
    PROVE  IndexInv'
<1>1. QueueInv /\ (~watching => news = {})
  BY Parts
<1>2. QueueInv' /\ Hands(Nobody) /\ NoNewSilence
  BY <1>1, TimerKeeps DEF Timer
<1>3. /\ Begin(Nobody, work) /\ disk' = disk /\ news' = news /\ missed' = missed
      /\ stored' = stored /\ tmp' = tmp /\ events' = events
  BY DEF Timer
<1>4. ~watching' => news' = {}
  BY <1>1, <1>2, <1>3 DEF NoNewSilence
<1> QED
  BY <1>2, <1>3, <1>4, FlushKeeps

LEMMA ControlStep ==
    ASSUME IndexInv, NEW goal \in {"stop", "start"}, Control(goal), Races
    PROVE  IndexInv'
<1>1. QueueInv
  BY Parts
<1>2. QueueInv' /\ Hands(Nobody)
  BY <1>1, DrainKeeps DEF Control
<1>3. /\ Begin(Nobody, work) /\ disk' = disk /\ missed' = missed \union news /\ news' = {}
      /\ stored' = stored /\ tmp' = tmp /\ events' = events
  BY DEF Control
<1> QED
  BY <1>2, <1>3, FlushKeeps

-----------------------------------------------------------------------------
(* The steps of a saver that leave the queue alone: nothing changes but    *)
(* its own record, ...                                                     *)
Only(w) == work' = [work EXCEPT ![w] = work'[w]]

LEMMA SaverRests ==
    ASSUME IndexInv, UNCHANGED <<qvars, disk, news, missed>>, Races,
           NEW w \in Workers, Only(w), work'[w] \in Work,
           w \in Jobs => work[w].at # "idle" /\ work'[w].at # "idle",
           w = Rebuild => work'[w].at \notin {"load", "look"},
           stored' \in Snapshot \union {Torn}, tmp' \in Snapshot \union {Torn, Nobody},
           events' \in 0..MaxEvents,
           ASSUME Sound, OneAtWork' PROVE Sound'
    PROVE  IndexInv'
<1>1. QueueInv /\ Typed /\ WorkersAtPaths /\ (~watching => news = {})
  BY Parts
<1>2. /\ QueueInv' /\ watching' = watching /\ job' = job /\ pending' = pending
      /\ disk' = disk /\ news' = news /\ missed' = missed
  BY <1>1, QueueRests
<1>3. work' \in [Workers -> Work] /\ \A v \in Workers : v # w => work'[v] = work[v]
  BY <1>1 DEF Typed, Only
<1>4. Typed'
  BY <1>1, <1>2, <1>3 DEF Typed
<1>5. WorkersAtPaths'
  BY <1>1, <1>2, <1>3, NotSnapshots DEF WorkersAtPaths
<1> QED
  BY <1>1, <1>2, <1>4, <1>5, Whole

(* ... and where it is the only one, what it has done decides.             *)
LEMMA SaverSound ==
    ASSUME Sound, OneAtWork', UNCHANGED <<qvars, disk, news, missed>>,
           NEW w \in Workers, work \in [Workers -> Work], Only(w), work'[w].at # "idle",
           stored' = stored,
           work'[w].at = "write" => tmp' = Torn /\ work'[w].out = "tmp",
           work'[w].at = "rename" => tmp' = work'[w].snap,
           work'[w].at \notin {"write", "rename"} => tmp' = Nobody,
           \A p \in Paths : work'[w].at # "load" =>
               Waits(p) \/ work'[w].snap[p] = disk[p] \/ (work'[w].at = "look" /\ job[w] = p)
    PROVE  Sound'
<1>1. /\ job' = job /\ pending' = pending /\ disk' = disk /\ news' = news /\ missed' = missed
  BY DEF qvars
<1>2. \A v \in Workers : v # w => work'[v].at = "idle"
  BY DEF OneAtWork, AtWork
<1>3. OneSaver'
  <2>1. \A v, u \in AtWork' : v = u
    BY DEF OneAtWork
  <2>2. stored' # Torn
    BY DEF Sound, OneSaver
  <2>3. \A v \in Workers :
           /\ work'[v].at = "write" => tmp' = Torn /\ work'[v].out = "tmp"
           /\ work'[v].at = "rename" => tmp' = work'[v].snap
    BY <1>2
  <2>4. (\A v \in Workers : work'[v].at \notin {"write", "rename"}) => tmp' = Nobody
    OBVIOUS
  <2> QED
    BY <2>1, <2>2, <2>3, <2>4 DEF OneSaver
<1>4. \A p \in Paths : Waits(p)' <=> Waits(p)
  BY <1>1 DEF Waits
<1>5. StoredCurrent'
  BY <1>1, <1>4 DEF Sound, StoredCurrent
<1>6. SnapsCurrent'
  BY <1>1, <1>2, <1>4 DEF SnapsCurrent
<1> QED
  BY <1>3, <1>5, <1>6 DEF Sound

(* Where it is the only one, the temporary file is there to be renamed.    *)
LEMMA RenamesOwn ==
    ASSUME Sound, Typed, NEW w \in Workers, work[w].at = "rename"
    PROVE  tmp # Nobody /\ tmp = work[w].snap /\ tmp \in Snapshot
<1>1. tmp = work[w].snap
  BY DEF Sound, OneSaver
<1>2. work[w].snap \in Snapshot
  BY DEF Typed, Work
<1> QED
  BY <1>1, <1>2, NotSnapshots

(* Nobody is at the temporary file while the only one is not.              *)
LEMMA NoneBetween ==
    ASSUME Sound, OneAtWork', NEW w \in Workers, Only(w), work \in [Workers -> Work],
           work'[w].at # "idle", work[w].at \notin {"write", "rename"}
    PROVE  tmp = Nobody
<1>1. \A v \in Workers : v # w => work'[v] = work[v]
  BY DEF Only
<1>2. \A v \in Workers : v # w => work'[v].at = "idle"
  BY DEF OneAtWork, AtWork
<1>3. \A v \in Workers : work[v].at \notin {"write", "rename"}
  BY <1>1, <1>2
<1> QED
  BY <1>3 DEF Sound, OneSaver

LEMMA LoadStep ==
    ASSUME IndexInv, NEW j \in Jobs, Load(j), Races
    PROVE  IndexInv'
<1>1. QueueInv /\ Typed /\ WorkersAtPaths /\ j \in Workers /\ job \in [Jobs -> Paths \union {Nobody}]
  BY Parts, NotSnapshots
<1> DEFINE loaded == IF stored = Torn THEN NoWork.snap ELSE stored
           new == [work[j] EXCEPT !.at = "look", !.snap = loaded]
<1>2. /\ work[j].at = "load" /\ UNCHANGED <<qvars, disk, news, missed>>
      /\ stored' = stored /\ tmp' = tmp /\ events' = events
  BY DEF Load
<1>3. work[j] \in Work /\ work \in [Workers -> Work]
  BY <1>1 DEF Typed
<1>4. work' = [work EXCEPT ![j] = new]
  BY <1>3 DEF Load
<1>5. loaded \in Snapshot
  BY <1>1, NoWorkTyped DEF Typed
<1> HIDE DEF loaded
<1>6. new \in Work /\ new.at = "look" /\ new.snap = loaded
  BY <1>3, <1>5 DEF Work
<1> HIDE DEF new
<1>7. work'[j] = new /\ Only(j)
  BY <1>1, <1>3, <1>4 DEF Only
<1>8. ASSUME Sound, OneAtWork' PROVE Sound'
  <2>1. tmp' = Nobody
    BY <1>1, <1>2, <1>3, <1>6, <1>7, <1>8, NoneBetween
  <2>2. loaded = stored
    BY <1>8 DEF loaded, Sound, OneSaver
  <2>3. ASSUME NEW p \in Paths, ~Waits(p) PROVE loaded[p] = disk[p] \/ job[j] = p
    <3>1. stored[p] = disk[p] \/ \E i \in Jobs : job[i] = p
      BY <1>8, <2>3 DEF Sound, StoredCurrent
    <3>2. ASSUME NEW i \in Jobs, job[i] = p PROVE i = j
      <4>1. i \in AtWork /\ j \in AtWork
        BY <1>1, <1>2, <3>2, NotSnapshots DEF WorkersAtPaths, AtWork
      <4> QED
        BY <1>8, <4>1 DEF Sound, OneSaver
    <3> QED
      BY <2>2, <3>1, <3>2
  <2>4. \A p \in Paths : Waits(p) \/ work'[j].snap[p] = disk[p] \/ (work'[j].at = "look" /\ job[j] = p)
    BY <1>6, <1>7, <2>3
  <2> QED
    BY <1>1, <1>2, <1>3, <1>6, <1>7, <1>8, <2>1, <2>4, SaverSound
<1>9. stored' \in Snapshot \union {Torn} /\ tmp' \in Snapshot \union {Torn, Nobody} /\ events' \in 0..MaxEvents
  BY <1>1, <1>2 DEF Typed
<1> QED
  BY <1>1, <1>2, <1>6, <1>7, <1>8, <1>9, NotSnapshots, SaverRests

LEMMA LookStep ==
    ASSUME IndexInv, NEW j \in Jobs, Look(j), Races
    PROVE  IndexInv'
<1>1. QueueInv /\ Typed /\ WorkersAtPaths /\ j \in Workers /\ job \in [Jobs -> Paths \union {Nobody}]
  BY Parts, NotSnapshots
<1> DEFINE looked == [work[j].snap EXCEPT ![job[j]] = disk[job[j]]]
           new == [work[j] EXCEPT !.at = "open", !.snap = looked, !.retried = (disk[job[j]] = 0)]
<1>2. /\ work[j].at = "look" /\ UNCHANGED <<qvars, disk, news, missed>>
      /\ stored' = stored /\ tmp' = tmp /\ events' = events
  BY DEF Look
<1>3. work[j] \in Work /\ work \in [Workers -> Work]
  BY <1>1 DEF Typed
<1>4. work' = [work EXCEPT ![j] = new]
  BY <1>3 DEF Look
<1>5. job[j] \in Paths
  BY <1>1, <1>2 DEF WorkersAtPaths
<1>6. looked \in Snapshot /\ looked[job[j]] = disk[job[j]]
      /\ \A p \in Paths : p # job[j] => looked[p] = work[j].snap[p]
  BY <1>1, <1>3, <1>5 DEF Typed, Work, Snapshot
<1> HIDE DEF looked
<1>7. new \in Work /\ new.at = "open" /\ new.snap = looked
  BY <1>3, <1>6 DEF Work
<1> HIDE DEF new
<1>8. work'[j] = new /\ Only(j)
  BY <1>1, <1>3, <1>4 DEF Only
<1>9. ASSUME Sound, OneAtWork' PROVE Sound'
  <2>1. tmp' = Nobody
    BY <1>1, <1>2, <1>3, <1>7, <1>8, <1>9, NoneBetween
  <2>2. \A p \in Paths : Waits(p) \/ work[j].snap[p] = disk[p] \/ job[j] = p
    BY <1>1, <1>2, <1>9 DEF Sound, SnapsCurrent
  <2>3. \A p \in Paths : Waits(p) \/ work'[j].snap[p] = disk[p]
    BY <1>6, <1>7, <1>8, <2>2
  <2> QED
    BY <1>1, <1>2, <1>3, <1>7, <1>8, <1>9, <2>1, <2>3, SaverSound
<1>10. stored' \in Snapshot \union {Torn} /\ tmp' \in Snapshot \union {Torn, Nobody} /\ events' \in 0..MaxEvents
  BY <1>1, <1>2 DEF Typed
<1> QED
  BY <1>1, <1>2, <1>7, <1>8, <1>9, <1>10, NotSnapshots, SaverRests

LEMMA ScanStep ==
    ASSUME IndexInv, Scan, Races
    PROVE  IndexInv'
<1>1. QueueInv /\ Typed /\ WorkersAtPaths /\ Rebuild \in Workers /\ Rebuild \notin Jobs
  BY Parts, NotSnapshots
<1> DEFINE new == [NoWork EXCEPT !.at = "open", !.snap = disk]
<1>2. /\ work[Rebuild].at = "idle" /\ UNCHANGED <<qvars, disk, news, missed>>
      /\ stored' = stored /\ tmp' = tmp /\ events < MaxEvents /\ events' = events + 1
      /\ work' = [work EXCEPT ![Rebuild] = new]
  BY DEF Scan
<1>3. work \in [Workers -> Work] /\ disk \in Snapshot /\ NoWork \in Work
  BY <1>1, NoWorkTyped DEF Typed
<1>4. new \in Work /\ new.at = "open" /\ new.snap = disk
  BY <1>3 DEF Work
<1> HIDE DEF new
<1>5. work'[Rebuild] = new /\ Only(Rebuild)
  BY <1>1, <1>2, <1>3 DEF Only
<1>6. ASSUME Sound, OneAtWork' PROVE Sound'
  <2>1. tmp' = Nobody
    BY <1>1, <1>2, <1>3, <1>4, <1>5, <1>6, NoneBetween
  <2> QED
    BY <1>1, <1>2, <1>3, <1>4, <1>5, <1>6, <2>1, SaverSound
<1>7. stored' \in Snapshot \union {Torn} /\ tmp' \in Snapshot \union {Torn, Nobody} /\ events' \in 0..MaxEvents
  BY <1>1, <1>2, IndexAssumption DEF Typed
<1> QED
  BY <1>1, <1>2, <1>4, <1>5, <1>6, <1>7, SaverRests

LEMMA OpenStep ==
    ASSUME IndexInv, NEW w \in Workers, Open(w), Races
    PROVE  IndexInv'
<1>1. QueueInv /\ Typed /\ WorkersAtPaths
  BY Parts
<1> DEFINE new == [work[w] EXCEPT !.at = "write", !.out = "tmp"]
<1>2. /\ work[w].at = "open" /\ UNCHANGED <<qvars, disk, news, missed>>
      /\ stored' = stored /\ tmp' = Torn /\ events' = events
  BY DEF Open
<1>3. work[w] \in Work /\ work \in [Workers -> Work]
  BY <1>1 DEF Typed
<1>4. work' = [work EXCEPT ![w] = new]
  BY <1>3 DEF Open
<1>5. new \in Work /\ new.at = "write" /\ new.out = "tmp" /\ new.snap = work[w].snap
  BY <1>3 DEF Work
<1> HIDE DEF new
<1>6. work'[w] = new /\ Only(w)
  BY <1>1, <1>3, <1>4 DEF Only
<1>7. ASSUME Sound, OneAtWork' PROVE Sound'
  <2>1. \A p \in Paths : Waits(p) \/ work'[w].snap[p] = disk[p]
    BY <1>2, <1>5, <1>6, <1>7 DEF Sound, SnapsCurrent
  <2> QED
    BY <1>2, <1>3, <1>5, <1>6, <1>7, <2>1, SaverSound
<1>8. stored' \in Snapshot \union {Torn} /\ tmp' \in Snapshot \union {Torn, Nobody} /\ events' \in 0..MaxEvents
  BY <1>1, <1>2 DEF Typed
<1> QED
  BY <1>1, <1>2, <1>5, <1>6, <1>7, <1>8, SaverRests

LEMMA WriteStep ==
    ASSUME IndexInv, NEW w \in Workers, Write(w), Races
    PROVE  IndexInv'
<1>1. QueueInv /\ Typed /\ WorkersAtPaths
  BY Parts
<1> DEFINE new == [work[w] EXCEPT !.at = "rename"]
<1>2. /\ work[w].at = "write" /\ UNCHANGED <<qvars, disk, news, missed>> /\ events' = events
      /\ tmp' \in IF work[w].out = "tmp" THEN Written(tmp, work[w].snap) ELSE {tmp}
      /\ stored' \in IF work[w].out = "stored" THEN Written(stored, work[w].snap) ELSE {stored}
  BY DEF Write
<1>3. work[w] \in Work /\ work \in [Workers -> Work] /\ work[w].snap \in Snapshot
  BY <1>1 DEF Typed, Work
<1>4. work' = [work EXCEPT ![w] = new]
  BY <1>3 DEF Write
<1>5. new \in Work /\ new.at = "rename" /\ new.snap = work[w].snap
  BY <1>3 DEF Work
<1> HIDE DEF new
<1>6. work'[w] = new /\ Only(w)
  BY <1>1, <1>3, <1>4 DEF Only
<1>7. ASSUME Sound, OneAtWork' PROVE Sound'
  <2>1. tmp = Torn /\ work[w].out = "tmp"
    BY <1>2, <1>7 DEF Sound, OneSaver
  <2>2. tmp' = work[w].snap /\ stored' = stored
    BY <1>2, <2>1 DEF Written
  <2>3. \A p \in Paths : Waits(p) \/ work'[w].snap[p] = disk[p]
    BY <1>2, <1>5, <1>6, <1>7 DEF Sound, SnapsCurrent
  <2> QED
    BY <1>2, <1>3, <1>5, <1>6, <1>7, <2>2, <2>3, SaverSound
<1>8. stored' \in Snapshot \union {Torn} /\ tmp' \in Snapshot \union {Torn, Nobody} /\ events' \in 0..MaxEvents
  BY <1>1, <1>2, <1>3 DEF Typed, Written
<1> QED
  BY <1>1, <1>2, <1>5, <1>6, <1>7, <1>8, SaverRests

LEMMA MisledStep ==
    ASSUME IndexInv, NEW j \in Jobs, RenameMisled(j), Races
    PROVE  IndexInv'
<1>1. QueueInv /\ Typed /\ WorkersAtPaths /\ j \in Workers /\ job \in [Jobs -> Paths \union {Nobody}]
  BY Parts, NotSnapshots
<1> DEFINE without == [work[j].snap EXCEPT ![job[j]] = 0]
           new == [work[j] EXCEPT !.at = "open", !.retried = TRUE, !.out = "gone", !.snap = without]
<1>2. /\ work[j].at = "rename" /\ tmp = Nobody /\ UNCHANGED <<qvars, disk, news, missed>>
      /\ stored' = stored /\ tmp' = tmp /\ events' = events
  BY DEF RenameMisled
<1>3. work[j] \in Work /\ work \in [Workers -> Work]
  BY <1>1 DEF Typed
<1>4. work' = [work EXCEPT ![j] = new]
  BY <1>3 DEF RenameMisled
<1>5. without \in Snapshot
  <2>1. work[j].snap \in Snapshot /\ 0 \in 0..MaxVersion
    BY <1>3, IndexAssumption DEF Work
  <2> QED
    BY <2>1 DEF Snapshot
<1> HIDE DEF without
<1>6. new \in Work /\ new.at = "open"
  BY <1>3, <1>5 DEF Work
<1> HIDE DEF new
<1>7. work'[j] = new /\ Only(j)
  BY <1>1, <1>3, <1>4 DEF Only
<1>8. ASSUME Sound, OneAtWork' PROVE Sound'
  BY <1>1, <1>2, <1>8, RenamesOwn
<1>9. stored' \in Snapshot \union {Torn} /\ tmp' \in Snapshot \union {Torn, Nobody} /\ events' \in 0..MaxEvents
  BY <1>1, <1>2 DEF Typed
<1> QED
  BY <1>1, <1>2, <1>6, <1>7, <1>8, <1>9, NotSnapshots, SaverRests

LEMMA RebuildFailsStep ==
    ASSUME IndexInv, RebuildFails, Races
    PROVE  IndexInv'
<1>1. QueueInv /\ Typed /\ WorkersAtPaths /\ Rebuild \in Workers /\ Rebuild \notin Jobs
  BY Parts, NotSnapshots
<1>2. /\ work[Rebuild].at = "rename" /\ tmp = Nobody /\ UNCHANGED <<qvars, disk, news, missed>>
      /\ stored' = stored /\ tmp' = tmp /\ events' = events
      /\ work' = [work EXCEPT ![Rebuild] = NoWork]
  BY DEF RebuildFails
<1>3. work'[Rebuild] = NoWork /\ Only(Rebuild) /\ NoWork \in Work /\ NoWork.at = "idle"
  BY <1>1, <1>2, NoWorkTyped DEF Typed, Only
<1>4. ASSUME Sound, OneAtWork' PROVE Sound'
  BY <1>1, <1>2, <1>4, RenamesOwn
<1>5. stored' \in Snapshot \union {Torn} /\ tmp' \in Snapshot \union {Torn, Nobody} /\ events' \in 0..MaxEvents
  BY <1>1, <1>2 DEF Typed
<1> QED
  BY <1>1, <1>2, <1>3, <1>4, <1>5, SaverRests

-----------------------------------------------------------------------------
(* The steps that end a saver.  When the only one publishes, what it knew  *)
(* of every path is in the index; whoever works from now on still loads.   *)
LEMMA SoundAfterRename ==
    ASSUME Sound, WorkersAtPaths, Typed, NEW w \in Workers, Published(w),
           disk' = disk, news' = news, missed' = missed,
           \A v \in Workers : v # w /\ work[v].at = "idle" => work'[v].at \in {"idle", "load"},
           work'[w].at \in {"idle", "load"},
           OneAtWork',
           \A p \in ToSet(pending) : p \in ToSet(pending') \/ \E j \in Jobs : job'[j] = p
    PROVE  Sound'
<1>1. /\ work[w].at = "rename" /\ stored' = tmp /\ tmp' = Nobody
  BY DEF Published
<1>2. tmp = work[w].snap /\ tmp \in Snapshot
  BY <1>1, RenamesOwn
<1>3. \A v \in Workers : v # w => work[v].at = "idle"
  BY <1>1 DEF Sound, OneSaver, AtWork
<1>4. \A v \in Workers : work'[v].at \in {"idle", "load"}
  BY <1>3
<1>5. OneSaver'
  <2>1. stored' # Torn
    BY <1>1, <1>2, NotSnapshots
  <2> QED
    BY <1>1, <1>4, <2>1 DEF OneSaver, OneAtWork
<1>6. StoredCurrent'
  <2> SUFFICES ASSUME NEW p \in Paths, ~Waits(p)'
               PROVE  stored'[p] = disk'[p] \/ \E j \in Jobs : job'[j] = p
    BY DEF StoredCurrent
  <2>1. p \notin news \union missed /\ p \notin ToSet(pending')
    BY DEF Waits
  <2>2. CASE p \in ToSet(pending)
    BY <2>1, <2>2
  <2>3. CASE p \notin ToSet(pending)
    <3>1. work[w].snap[p] = disk[p]
      BY <1>1, <2>1, <2>3 DEF Sound, SnapsCurrent, Waits
    <3> QED
      BY <1>1, <1>2, <3>1
  <2> QED
    BY <2>2, <2>3
<1>7. SnapsCurrent'
  BY <1>4 DEF SnapsCurrent
<1> QED
  BY <1>5, <1>6, <1>7 DEF Sound

LEMMA RenameEndsStep ==
    ASSUME IndexInv, NEW j \in Jobs, RenameEnds(j), Races
    PROVE  IndexInv'
<1>1. /\ QueueInv /\ Typed /\ WorkersAtPaths /\ j \in Workers
      /\ ~watching => news = {}
  BY Parts, NotSnapshots
<1>2. /\ Published(j) /\ WorkerEnds(j) /\ Begin(j, Follow)
      /\ disk' = disk /\ news' = news /\ missed' = missed /\ events' = events
  BY DEF RenameEnds
<1>3. QueueInv' /\ Hands(j) /\ NoNewSilence
  BY <1>1, <1>2, WorkerEndsKeeps
<1>4. work \in [Workers -> Work] /\ job' \in [Jobs -> Paths \union {Nobody}]
  BY <1>1, <1>3 DEF Typed, QueueInv, QueueTypeOK
<1>5. Follow \in [Workers -> Work] /\ \A v \in Workers : Follow[v].at = work[v].at
  BY <1>4, FollowTyped
<1>6. /\ work' \in [Workers -> Work]
      /\ \A v \in Workers :
            /\ Starts(j, v) => work'[v].at = "load"
            /\ ~Starts(j, v) /\ v = j => work'[v].at = "idle"
            /\ ~Starts(j, v) /\ v # j => work'[v] = Follow[v]
  BY <1>2, <1>5, BeginMaps
<1>7. stored' = tmp /\ tmp' = Nobody /\ tmp # Nobody
  BY <1>2 DEF Published
<1>8. Typed'
  BY <1>1, <1>2, <1>6, <1>7 DEF Typed
<1>9. WorkersAtPaths'
  BY <1>1, <1>2, <1>3, <1>4, <1>5, AtPathsAfter
<1>10. ASSUME Sound, OneAtWork' PROVE Sound'
  <2>1. \A v \in Workers : v # j /\ work[v].at = "idle" => work'[v].at \in {"idle", "load"}
    BY <1>5, <1>6
  <2>2. work'[j].at \in {"idle", "load"}
    BY <1>1, <1>6
  <2>3. \A p \in ToSet(pending) : p \in ToSet(pending') \/ \E i \in Jobs : job'[i] = p
    BY <1>3 DEF Hands
  <2> QED
    BY <1>1, <1>2, <1>10, <2>1, <2>2, <2>3, SoundAfterRename
<1>11. ~watching' => news' = {}
  BY <1>1, <1>2, <1>3 DEF NoNewSilence
<1> QED
  BY <1>3, <1>8, <1>9, <1>10, <1>11, Whole

LEMMA RebuildEndsStep ==
    ASSUME IndexInv, RebuildEnds, Races
    PROVE  IndexInv'
<1>1. /\ QueueInv /\ Typed /\ WorkersAtPaths /\ Rebuild \in Workers /\ Rebuild \notin Jobs
      /\ ~watching => news = {}
  BY Parts, NotSnapshots
<1>2. /\ Published(Rebuild) /\ UNCHANGED qvars
      /\ disk' = disk /\ news' = news /\ missed' = missed /\ events' = events
      /\ work' = [Follow EXCEPT ![Rebuild] = NoWork]
  BY DEF RebuildEnds
<1>3. QueueInv' /\ watching' = watching /\ job' = job /\ pending' = pending
  BY <1>1, <1>2, QueueRests
<1>4. work \in [Workers -> Work]
  BY <1>1 DEF Typed
<1>5. Follow \in [Workers -> Work] /\ \A v \in Workers : Follow[v].at = work[v].at
  BY <1>4, FollowTyped
<1>6. /\ work' \in [Workers -> Work] /\ work'[Rebuild].at = "idle"
      /\ \A v \in Workers : v # Rebuild => work'[v].at = work[v].at
  BY <1>1, <1>2, <1>5, NoWorkTyped
<1>7. stored' = tmp /\ tmp' = Nobody /\ tmp # Nobody
  BY <1>2 DEF Published
<1>8. Typed'
  BY <1>1, <1>2, <1>6, <1>7 DEF Typed
<1>9. WorkersAtPaths'
  BY <1>1, <1>3, <1>6, NotSnapshots DEF WorkersAtPaths
<1>10. ASSUME Sound, OneAtWork' PROVE Sound'
  <2>1. \A p \in ToSet(pending) : p \in ToSet(pending')
    BY <1>3
  <2> QED
    BY <1>1, <1>2, <1>6, <1>10, <2>1, SoundAfterRename
<1> QED
  BY <1>1, <1>2, <1>3, <1>8, <1>9, <1>10, Whole

LEMMA RenameFailsStep ==
    ASSUME IndexInv, NEW j \in Jobs, RenameFails(j), Races
    PROVE  IndexInv'
<1>1. /\ QueueInv /\ Typed /\ WorkersAtPaths /\ j \in Workers
      /\ ~watching => news = {}
  BY Parts, NotSnapshots
<1>2. /\ work[j].at = "rename" /\ tmp = Nobody /\ WorkerEnds(j) /\ Begin(j, work)
      /\ disk' = disk /\ news' = news /\ missed' = missed /\ events' = events
      /\ stored' = stored /\ tmp' = tmp
  BY DEF RenameFails
<1>3. QueueInv' /\ Hands(j) /\ NoNewSilence
  BY <1>1, <1>2, WorkerEndsKeeps
<1>4. work \in [Workers -> Work] /\ job' \in [Jobs -> Paths \union {Nobody}]
  BY <1>1, <1>3 DEF Typed, QueueInv, QueueTypeOK
<1>5. work' \in [Workers -> Work]
  BY <1>2, <1>4, BeginMaps
<1>6. Typed'
  BY <1>1, <1>2, <1>5 DEF Typed
<1>7. WorkersAtPaths'
  BY <1>1, <1>2, <1>3, <1>4, AtPathsAfter
<1>8. ASSUME Sound, OneAtWork' PROVE Sound'
  BY <1>1, <1>2, <1>8, RenamesOwn
<1>9. ~watching' => news' = {}
  BY <1>1, <1>2, <1>3 DEF NoNewSilence
<1> QED
  BY <1>3, <1>6, <1>7, <1>8, <1>9, Whole

-----------------------------------------------------------------------------
LEMMA IndexInitInv == IndexInit => IndexInv
<1> SUFFICES ASSUME IndexInit PROVE IndexInv
  OBVIOUS
<1>1. /\ pending = <<>> /\ armed = FALSE /\ job = [j \in Jobs |-> Nobody]
      /\ frames = {} /\ watching = TRUE /\ drain = Idle /\ answer = "none"
  BY DEF IndexInit, QueueInit
<1>2. /\ disk = [p \in Paths |-> 1] /\ news = {} /\ missed = {}
      /\ stored = disk /\ tmp = Nobody
      /\ work = [w \in Workers |-> NoWork]
      /\ events = 0 /\ raced = FALSE /\ ended = FALSE
  BY DEF IndexInit
<1>3. pending \in Seq(Paths) /\ IsInjective(pending) /\ ToSet(pending) = {}
  BY <1>1 DEF IsInjective, ToSet
<1>4. Running = {}
  BY <1>1 DEF Running
<1>5. QueueTypeOK
  BY <1>1, <1>3 DEF QueueTypeOK, Idle
<1>6. Cardinality(Running) <= Concurrency
  BY <1>4, FS_EmptySet, QueueAssumption
<1>7. QueueInv
  BY <1>1, <1>5, <1>6 DEF QueueInv, DrainFrames, Idle
<1>8. disk \in Snapshot
  <2>1. 1 \in 0..MaxVersion
    BY IndexAssumption
  <2> QED
    BY <1>2, <2>1 DEF Snapshot
<1>9. work \in [Workers -> Work] /\ \A w \in Workers : work[w].at = "idle"
  BY <1>2, NoWorkTyped
<1>10. IndexTypeOK
  <2>1. events \in 0..MaxEvents
    BY <1>2, IndexAssumption
  <2>2. work \in [Workers -> [at : {"idle", "load", "look", "open", "write", "rename"},
                             snap : Snapshot, retried : BOOLEAN,
                             out : {"tmp", "stored", "gone"}]]
    BY <1>9 DEF Work
  <2>3. disk \in Snapshot /\ stored \in Snapshot \union {Torn} /\ tmp \in Snapshot \union {Torn, Nobody}
    BY <1>2, <1>8
  <2>4. news \subseteq Paths /\ missed \subseteq Paths /\ raced \in BOOLEAN /\ ended \in BOOLEAN
    BY <1>2
  <2> QED
    BY <1>5, <2>1, <2>2, <2>3, <2>4 DEF IndexTypeOK
<1>11. WorkersAtPaths
  BY <1>1, <1>9, NotSnapshots DEF WorkersAtPaths
<1>12. AtWork = {}
  BY <1>9 DEF AtWork
<1>13. OneSaver
  BY <1>2, <1>8, <1>9, <1>12, NotSnapshots DEF OneSaver
<1>14. StoredCurrent
  BY <1>2 DEF StoredCurrent
<1>15. SnapsCurrent
  BY <1>9 DEF SnapsCurrent
<1> QED
  BY <1>1, <1>7, <1>10, <1>11, <1>13, <1>14, <1>15 DEF IndexInv, Sound

LEMMA IndexNextInv == IndexInv /\ [IndexNext]_indexVars => IndexInv'
<1> SUFFICES ASSUME IndexInv, [IndexNext]_indexVars PROVE IndexInv'
  OBVIOUS
<1>1. CASE \E p \in Paths : (Change(p) \/ Announce(p)) /\ Races
  BY <1>1, ChangeKeeps, AnnounceKeeps
<1>2. CASE (Timer \/ Scan) /\ Races
  BY <1>2, TimerStep, ScanStep
<1>3. CASE \E goal \in {"stop", "start"} : Control(goal) /\ Races
  BY <1>3, ControlStep
<1>4. CASE \E w \in Workers : WorkSteps(w) /\ Races
  <2>1. PICK w \in Workers : WorkSteps(w) /\ Races
    BY <1>4
  <2> QED
    BY <2>1, LoadStep, LookStep, RenameEndsStep, MisledStep, RenameFailsStep,
       RebuildEndsStep, RebuildFailsStep, OpenStep, WriteStep DEF WorkSteps
<1>5. CASE Dies \/ UNCHANGED indexVars
  <2>1. /\ UNCHANGED qvars /\ disk' = disk /\ news' = news /\ missed' = missed /\ stored' = stored
        /\ tmp' = tmp /\ work' = work /\ events' = events /\ raced' = raced
        /\ ended' \in BOOLEAN
    BY <1>5 DEF indexVars, Dies, IndexInv, IndexTypeOK
  <2>2. QueueInv' /\ watching' = watching /\ job' = job /\ pending' = pending
    BY <2>1, Parts, QueueRests
  <2>3. IndexTypeOK'
    BY <2>1, <2>2 DEF IndexInv, IndexTypeOK, QueueInv
  <2>4. WorkersAtPaths' <=> WorkersAtPaths
    BY <2>1, <2>2 DEF WorkersAtPaths
  <2>5. \A p : Waits(p)' <=> Waits(p)
    BY <2>1, <2>2 DEF Waits
  <2>6. AtWork' = AtWork
    BY <2>1 DEF AtWork
  <2>7. Sound => Sound'
    BY <2>1, <2>2, <2>5, <2>6 DEF Sound, OneSaver, StoredCurrent, SnapsCurrent
  <2> QED
    BY <2>1, <2>2, <2>3, <2>4, <2>7 DEF IndexInv
<1> QED
  BY <1>1, <1>2, <1>3, <1>4, <1>5 DEF IndexNext

LEMMA IndexAlways == IndexSpec => []IndexInv
BY IndexInitInv, IndexNextInv, PTL DEF IndexSpec

(* The types of the queue and of the index, for any paths and workers.     *)
THEOREM IndexTyped == IndexSpec => []IndexTypeOK
<1>1. IndexInv => IndexTypeOK
  BY DEF IndexInv
<1> QED
  BY <1>1, IndexAlways, PTL

(* A path that does not wait, when nobody is at work.                      *)
LEMMA CurrentAtRest ==
    ASSUME Sound, Typed, Running = {}, NEW p \in Paths, ~Waits(p)
    PROVE  stored # Torn /\ stored[p] = disk[p]
<1>1. \A j \in Jobs : job[j] # p
  BY NotSnapshots DEF Running
<1> QED
  BY <1>1 DEF Sound, OneSaver, StoredCurrent

(* Once nothing is pending and nobody is at work, the index says what is on*)
(* the disk, for every path but those no watcher has announced or will, and*)
(* unless two savers have ever overlapped.                                 *)
THEOREM IndexStaysCurrent == IndexSpec => []IndexCurrentAlone
<1>1. IndexInv => IndexCurrentAlone
  <2> SUFFICES ASSUME IndexInv, ~raced, Quiet, NEW p \in Paths \ (news \union missed)
               PROVE  Agrees(stored, p)
    BY DEF IndexCurrentAlone, IndexCurrent
  <2>1. Sound /\ Typed
    BY Parts
  <2>2. pending = <<>> /\ Running = {}
    BY DEF Quiet
  <2>3. ~Waits(p)
    BY <2>2 DEF Waits, ToSet
  <2> QED
    BY <2>1, <2>2, <2>3, CurrentAtRest DEF Agrees
<1> QED
  BY <1>1, IndexAlways, PTL

(* A stop is answered by a flush that ends, by a timer, or at once.        *)
LEMMA StopsAnsweredEmpty ==
    ASSUME IndexInv, [IndexNext]_indexVars
    PROVE  StopsEmpty
<1>1. QueueInv
  BY Parts
<1>2. ASSUME drain' = drain, answer' = answer PROVE StopsEmpty
  BY <1>2 DEF StopsEmpty, StopAnswered
<1>3. ASSUME UNCHANGED qvars PROVE StopsEmpty
  BY <1>2, <1>3 DEF qvars
<1>4. CASE \E p \in Paths : (Change(p) \/ Announce(p)) /\ Races
  <2>1. PICK p \in Paths : Change(p) \/ Announce(p)
    BY <1>4
  <2>2. CASE Change(p)
    BY <1>3, <2>2 DEF Change
  <2>3. CASE Announce(p)
    BY <1>2, <2>3 DEF Announce, Enqueue
  <2> QED
    BY <2>1, <2>2, <2>3
<1>5. CASE (Timer \/ Scan) /\ Races
  <2>1. CASE Timer
    BY <1>1, <2>1, TimerKeeps DEF Timer
  <2>2. CASE Scan
    BY <1>3, <2>2 DEF Scan
  <2> QED
    BY <1>5, <2>1, <2>2
<1>6. CASE \E goal \in {"stop", "start"} : Control(goal) /\ Races
  BY <1>1, <1>6, DrainKeeps DEF Control
<1>7. CASE \E w \in Workers : WorkSteps(w) /\ Races
  <2>1. PICK w \in Workers : WorkSteps(w)
    BY <1>7
  <2>2. CASE w \in Jobs /\ (RenameEnds(w) \/ RenameFails(w))
    BY <1>1, <2>2, WorkerEndsKeeps DEF RenameEnds, RenameFails
  <2>3. CASE ~(w \in Jobs /\ (RenameEnds(w) \/ RenameFails(w)))
    <3>1. UNCHANGED qvars
      BY <2>1, <2>3 DEF WorkSteps, Load, Look, RenameMisled, RebuildEnds, RebuildFails, Open, Write
    <3> QED
      BY <1>3, <3>1
  <2> QED
    BY <2>2, <2>3
<1>8. CASE Dies \/ UNCHANGED indexVars
  BY <1>3, <1>8 DEF indexVars, Dies
<1> QED
  BY <1>4, <1>5, <1>6, <1>7, <1>8 DEF IndexNext

(* When a stop is answered as done, every update the queue had taken is in *)
(* the index, where no savers have overlapped.                             *)
THEOREM StopsDrain == IndexSpec => StopDrains
<1>1. IndexInv /\ [IndexNext]_indexVars => StopAfterAll
  <2> SUFFICES ASSUME IndexInv, [IndexNext]_indexVars, StopAnswered, ~raced', NEW p \in Paths \ missed'
               PROVE  stored' # Torn /\ stored'[p] = disk'[p]
    BY DEF StopAfterAll, StopAnswered
  <2>1. pending' = <<>> /\ Running' = {} /\ ~watching'
    BY StopsAnsweredEmpty DEF StopsEmpty
  <2>2. IndexInv'
    BY IndexNextInv
  <2>3. news' = {} /\ Sound'
    BY <2>1, <2>2 DEF IndexInv
  <2>4. p \notin (news \union missed \union ToSet(pending))'
    BY <2>1, <2>3 DEF ToSet
  <2>5. \A j \in Jobs : job'[j] # p
    BY <2>1, NotSnapshots DEF Running
  <2> QED
    BY <2>3, <2>4, <2>5 DEF Sound, OneSaver, StoredCurrent, Waits
<1> QED
  BY <1>1, IndexAlways, PTL DEF IndexSpec, StopDrains

-----------------------------------------------------------------------------
(* THE TUNNEL                                                              *)

(* The delays spent before the restart that follows the k-th exit.         *)
Spent(k) == CASE k = 1 -> Delay [] k = 2 -> 3 * Delay [] k = 3 -> 7 * Delay
              [] OTHER -> 15 * Delay

Wait == IF restartIn = Off THEN 0 ELSE restartIn

(* While a child is up or about to be, the window has been open for all the*)
(* delays since its first exit, or is over.                                *)
WindowHoldsDelays ==
    attempts > 0 /\ (restartIn # Off \/ childAge # Off) =>
        /\ windowAge # Off
        /\ windowAge > Window \/ windowAge + Wait >= Spent(attempts)

ErrorRetries == state = "error" => restartIn # Off \/ chain = 0

(* A child that is up, and a user's stop, leave no restart timer armed.    *)
NoTimerWhileUp == childAge # Off \/ state = "stopped" => restartIn = Off

IInv == TypeOK /\ attempts <= 4 /\ WindowHoldsDelays /\ ErrorRetries /\ NoTimerWhileUp

-----------------------------------------------------------------------------
LEMMA BackoffRange == \A k \in Nat : Backoff(k) \in 0..MaxDelay
  BY TimingAssumption DEF Backoff

(* Below the cap the k-th delay is what Spent adds for k.                  *)
LEMMA BackoffSpent ==
    ASSUME BackoffOutlastsWindow
    PROVE  /\ Backoff(1) = Spent(1)
           /\ Spent(1) + Backoff(2) = Spent(2)
           /\ Spent(2) + Backoff(3) = Spent(3)
           /\ Spent(3) + Backoff(4) = Spent(4)
           /\ Spent(4) > Window
  BY TimingAssumption DEF BackoffOutlastsWindow, Backoff, Spent

LEMMA InitInv == Init => IInv
  BY TimingAssumption
  DEF Init, IInv, TypeOK, WindowHoldsDelays, ErrorRetries, NoTimerWhileUp, Off, ChainBound

(* An unexpected exit opens a window or adds the next delay to it.         *)
LEMMA ExitInv ==
    ASSUME BackoffOutlastsWindow, IInv, UnexpectedExit
    PROVE  IInv'
<1> USE TimingAssumption DEF IInv, Off
<1>1. attempts \in 0..4 /\ attempts' \in 1..5 /\ restartIn' \in {Off} \union 0..MaxDelay
  BY BackoffRange DEF UnexpectedExit, TypeOK
<1>2. windowAge' \in 0..Window
  BY DEF UnexpectedExit, WindowOver, TypeOK
<1>3. attempts' \in 1..4 /\ windowAge' + Backoff(attempts') >= Spent(attempts')
  <2>1. CASE WindowOver \/ attempts = 0
    <3>1. attempts' = 1
      BY <2>1, <1>1 DEF UnexpectedExit
    <3>2. Backoff(1) = Spent(1) /\ Backoff(1) \in Nat
      BY BackoffSpent, BackoffRange
    <3> QED
      BY <3>1, <3>2, <1>2
  <2>2. CASE ~WindowOver /\ attempts # 0
    <3>1. attempts' = attempts + 1 /\ windowAge' = windowAge
      BY <2>2 DEF UnexpectedExit
    <3>2. childAge # Off /\ windowAge <= Window /\ windowAge \in Nat
      BY <2>2 DEF UnexpectedExit, WindowOver, TypeOK
    <3>3. windowAge + Wait >= Spent(attempts) /\ Wait \in Nat
      BY <2>2, <3>2, <1>1 DEF WindowHoldsDelays, TypeOK, Wait
    <3>4. Wait = 0
      BY <2>2 DEF UnexpectedExit, NoTimerWhileUp, Wait
    <3> QED
      BY <3>1, <3>2, <3>3, <3>4, <1>1, BackoffSpent, BackoffRange DEF Spent
  <2> QED
    BY <2>1, <2>2
<1>4. restartIn' = Backoff(attempts') /\ restartIn' # Off
  BY <1>3, BackoffRange DEF UnexpectedExit, BackoffOutlastsWindow
<1>5. TypeOK'
  BY <1>1, <1>2, <1>3 DEF UnexpectedExit, TypeOK
<1>6. WindowHoldsDelays'
  BY <1>2, <1>3, <1>4 DEF WindowHoldsDelays, Wait
<1> QED
  BY <1>3, <1>4, <1>5, <1>6 DEF UnexpectedExit, ErrorRetries, NoTimerWhileUp

(* A start or stop puts the count back to zero.                            *)
LEMMA ResetInv ==
    ASSUME IInv, Start \/ StartAgain \/ Stop
    PROVE  IInv'
<1> USE TimingAssumption DEF IInv, Off
<1>1. attempts' = 0 /\ chain' = 0
  BY DEF Start, StartAgain, Stop
<1>2. Backoff(attempts') \in 0..MaxDelay
  BY <1>1, BackoffRange
<1>3. TypeOK'
  BY <1>1, <1>2 DEF Start, StartAgain, Stop, SpawnRun, TypeOK, ChainBound
<1>4. NoTimerWhileUp'
  BY <1>2 DEF Start, StartAgain, Stop, SpawnRun, NoTimerWhileUp
<1> QED
  BY <1>1, <1>3, <1>4 DEF WindowHoldsDelays, ErrorRetries

(* A restart spends no time: the delay that led to it is over.  A launch   *)
(* that fails only adds to the wait.                                       *)
LEMMA RestartInv ==
    ASSUME IInv, RestartFires
    PROVE  IInv'
<1> USE TimingAssumption DEF IInv, Off
<1>1. attempts' = attempts /\ attempts \in 0..4 /\ windowAge' = windowAge
  BY DEF RestartFires, TypeOK
<1>2. Backoff(attempts') \in 0..MaxDelay
  BY <1>1, BackoffRange
<1>3. TypeOK'
  BY <1>1, <1>2 DEF RestartFires, SpawnRun, TypeOK, ChainBound
<1>4. NoTimerWhileUp' /\ ErrorRetries'
  BY <1>2 DEF RestartFires, SpawnRun, NoTimerWhileUp, ErrorRetries
<1>5. WindowHoldsDelays'
  <2>1. SUFFICES ASSUME attempts > 0
                 PROVE  /\ windowAge # Off
                        /\ windowAge > Window \/ windowAge + Wait' >= Spent(attempts)
    BY <1>1 DEF WindowHoldsDelays
  <2>2. windowAge # Off /\ (windowAge > Window \/ windowAge + Wait >= Spent(attempts))
    BY <2>1 DEF WindowHoldsDelays, RestartFires
  <2>3. Wait = 0 /\ Wait' \in Nat
    BY <1>2 DEF RestartFires, SpawnRun, Wait
  <2>4. Spent(attempts) \in Nat /\ windowAge \in Int
    BY DEF Spent, TypeOK
  <2> QED
    BY <2>2, <2>3, <2>4
<1> QED
  BY <1>1, <1>3, <1>4, <1>5

(* A tick moves one unit from the wait to the age of the window.           *)
LEMMA TickInv ==
    ASSUME IInv, Tick
    PROVE  IInv'
<1> USE TimingAssumption DEF IInv, Off
<1>1. attempts' = attempts /\ attempts \in 0..4 /\ state' = state
  BY DEF Tick, TypeOK
<1>2. TypeOK'
  BY <1>1 DEF Tick, Down, Up, TypeOK, ChainBound
<1>3. /\ restartIn' = Off <=> restartIn = Off
      /\ childAge' = Off <=> childAge = Off
      /\ windowAge' = Off <=> windowAge = Off
  BY DEF Tick, Down, Up, TypeOK
<1>4. NoTimerWhileUp'
  BY <1>1, <1>3 DEF NoTimerWhileUp
<1>5. ErrorRetries'
  BY <1>1, <1>3 DEF ErrorRetries, Tick
<1>6. WindowHoldsDelays'
  <2>1. SUFFICES ASSUME attempts > 0, restartIn # Off \/ childAge # Off
                 PROVE  /\ windowAge' # Off
                        /\ windowAge' > Window \/ windowAge' + Wait' >= Spent(attempts)
    BY <1>1, <1>3 DEF WindowHoldsDelays
  <2>2. windowAge # Off /\ (windowAge > Window \/ windowAge + Wait >= Spent(attempts))
    BY <2>1 DEF WindowHoldsDelays
  <2>3. Spent(attempts) \in Nat
    BY DEF Spent
  <2>4. CASE windowAge > Window
    BY <2>2, <2>4 DEF Tick, Up, TypeOK
  <2>5. CASE ~(windowAge > Window)
    <3>1. windowAge' = windowAge + 1 /\ windowAge \in Nat
      BY <2>2, <2>5 DEF Tick, Up, TypeOK
    <3>2. Wait \in Nat /\ (Wait' = 0 \/ Wait' = Wait - 1) /\ (Wait = 0 => Wait' = 0)
      BY DEF Tick, Down, Wait, TypeOK
    <3>3. windowAge + Wait >= Spent(attempts)
      BY <2>2, <2>5
    <3>4. CASE Wait = 0
      BY <2>3, <3>1, <3>2, <3>3, <3>4
    <3>5. CASE Wait # 0
      <4>1. Wait' = Wait - 1
        BY <3>2, <3>5 DEF Tick, Down, Wait, TypeOK
      <4> QED
        BY <2>3, <3>1, <3>2, <3>3, <4>1
    <3> QED
      BY <3>4, <3>5
  <2> QED
    BY <2>4, <2>5
<1> QED
  BY <1>1, <1>2, <1>4, <1>5, <1>6

LEMMA NextInv ==
    ASSUME BackoffOutlastsWindow, IInv, [Next]_vars
    PROVE  IInv'
<1>1. CASE Start \/ StartAgain \/ Stop
  BY <1>1, ResetInv
<1>2. CASE UnexpectedExit
  BY <1>2, ExitInv
<1>3. CASE RestartFires
  BY <1>3, RestartInv
<1>4. CASE StableFires
  BY <1>4, TimingAssumption
  DEF StableFires, IInv, TypeOK, WindowHoldsDelays, ErrorRetries, NoTimerWhileUp, Off
<1>5. CASE Tick
  BY <1>5, TickInv
<1>6. CASE UNCHANGED vars
  BY <1>6 DEF vars, IInv, TypeOK, WindowHoldsDelays, Wait, ErrorRetries, NoTimerWhileUp
<1> QED
  BY <1>1, <1>2, <1>3, <1>4, <1>5, <1>6 DEF Next

LEMMA AlwaysInv ==
    ASSUME BackoffOutlastsWindow
    PROVE  Spec => []IInv
<1>1. IInv /\ [Next]_vars => IInv'
  BY NextInv
<1> QED
  BY <1>1, InitInv, PTL DEF Spec

-----------------------------------------------------------------------------
(* PauseNeverReached holds whenever the backoff outlasts the window, as 3 s*)
(* doubled three times outlasts 30 s: the count of applyUnexpectedExit     *)
(* never gets past four and a restart is always pending after an exit.     *)
THEOREM PauseUnreachable ==
    ASSUME BackoffOutlastsWindow
    PROVE  Spec => []PauseNeverReached
<1>1. IInv => PauseNeverReached
  BY DEF IInv, TypeOK, ErrorRetries, PauseNeverReached, ChainBound
<1> QED
  BY <1>1, AlwaysInv, PTL

(* StopCancelsReconnect: no timer survives a stop, whatever the delays.    *)
THEOREM StopIsFinal == Spec => []StopCancelsReconnect
<1> DEFINE TInv == TypeOK /\ NoTimerWhileUp
<1>1. Init => TInv
  BY InitInv DEF IInv
<1>2. TInv /\ [Next]_vars => TInv'
  <2> SUFFICES ASSUME TInv, [Next]_vars PROVE TInv'
    OBVIOUS
  <2> USE TimingAssumption DEF Off
  <2>1. attempts' \in Nat
    BY DEF Next, vars, TypeOK, Start, StartAgain, Stop, UnexpectedExit, RestartFires,
           StableFires, Tick
  <2>2. Backoff(attempts') \in 0..MaxDelay
    BY <2>1, BackoffRange
  <2>3. CASE Start \/ StartAgain \/ Stop
    BY <2>1, <2>2, <2>3
    DEF Start, StartAgain, Stop, SpawnRun, TypeOK, NoTimerWhileUp, ChainBound
  <2>4. CASE UnexpectedExit
    BY <2>1, <2>2, <2>4 DEF UnexpectedExit, WindowOver, TypeOK, NoTimerWhileUp
  <2>5. CASE RestartFires
    BY <2>1, <2>2, <2>5 DEF RestartFires, SpawnRun, TypeOK, NoTimerWhileUp, ChainBound
  <2>6. CASE StableFires
    BY <2>6 DEF StableFires, TypeOK, NoTimerWhileUp
  <2>7. CASE Tick
    BY <2>7 DEF Tick, Down, Up, TypeOK, NoTimerWhileUp, ChainBound
  <2>8. CASE UNCHANGED vars
    BY <2>8 DEF vars, TypeOK, NoTimerWhileUp
  <2> QED
    BY <2>3, <2>4, <2>5, <2>6, <2>7, <2>8 DEF Next
<1>3. TInv => StopCancelsReconnect
  BY DEF NoTimerWhileUp, StopCancelsReconnect
<1> QED
  BY <1>1, <1>2, <1>3, PTL DEF Spec

(* ReconnectUntilStopped: both, where the backoff outlasts the window.     *)
THEOREM ReconnectsUntilStopped ==
    ASSUME BackoffOutlastsWindow
    PROVE  Spec => []ReconnectUntilStopped
  BY PauseUnreachable, StopIsFinal, PTL DEF ReconnectUntilStopped

-----------------------------------------------------------------------------
(* The two views together.                                                 *)
BenchNext == TimersStep(Next) \/ CallsStep(C!Next)

(* A step of the timers, or none, keeps their types.                       *)
LEMMA TimersTyped == TypeOK /\ [Next]_vars => TypeOK'
<1> SUFFICES ASSUME TypeOK, [Next]_vars PROVE TypeOK'
  OBVIOUS
<1> USE TimingAssumption DEF Off, TypeOK
<1>1. attempts' \in Nat
  BY DEF Next, vars, Start, StartAgain, Stop, UnexpectedExit, RestartFires, StableFires, Tick
<1>2. Backoff(attempts') \in 0..MaxDelay
  BY <1>1, BackoffRange
<1>3. CASE Start \/ StartAgain \/ Stop
  BY <1>1, <1>2, <1>3 DEF Start, StartAgain, Stop, SpawnRun, ChainBound
<1>4. CASE UnexpectedExit
  BY <1>1, <1>2, <1>4 DEF UnexpectedExit, WindowOver
<1>5. CASE RestartFires
  BY <1>1, <1>2, <1>5 DEF RestartFires, SpawnRun, ChainBound
<1>6. CASE StableFires
  BY <1>6 DEF StableFires
<1>7. CASE Tick
  BY <1>7 DEF Tick, Down, Up, ChainBound
<1>8. CASE UNCHANGED vars
  BY <1>8 DEF vars
<1> QED
  BY <1>3, <1>4, <1>5, <1>6, <1>7, <1>8 DEF Next

-----------------------------------------------------------------------------
(* The overlapping calls.                                                  *)
LEMMA CallsStart == C!Init => C!TypeOK /\ C!StopDisarms
  BY DEF C!Init, C!TypeOK, C!StopDisarms

Awaits == {"idle", "probing", "checking", "preparing", "rejected", "statusProbe", "stopping"}
States == {"stopped", "starting", "running", "error"}

(* What status() and what a spawn leave is typed.                          *)
LEMMA StatusTyped ==
  ASSUME C!TypeOK, NEW c \in Calls, NEW st \in States, C!StatusFrom(c, st)
  PROVE  ctlState' \in States /\ call' \in [Calls -> Awaits]
  BY DEF C!TypeOK, C!StatusFrom, C!Waits, States, Awaits

(* What is told to a caller: where a call may come to wait.                *)
LEMMA WaitTyped ==
  ASSUME C!TypeOK, NEW c \in Calls, NEW at \in Awaits, C!Waits(c, at)
  PROVE  call' \in [Calls -> Awaits]
  BY DEF C!TypeOK, C!Waits, Awaits

(* A step of a call keeps the types, and arms no timer under a stop.       *)
LEMMA CallKept ==
  ASSUME C!TypeOK, C!StopDisarms, NEW c \in Calls,
         C!StatusCall(c) \/ C!StartCall(c) \/ C!StopCall(c) \/ C!CallSteps(c)
  PROVE  C!TypeOK' /\ C!StopDisarms'
<1>s. ctlState \in States /\ {"running", "error", "stopped"} \subseteq States
  BY DEF C!TypeOK, States
<1>a. {"idle", "probing", "checking", "preparing", "rejected", "stopping"} \subseteq Awaits
  BY DEF Awaits
<1>t. /\ ctlState' \in States
      /\ call' \in [Calls -> Awaits]
      /\ UNCHANGED <<child, intentional, timer, resuming, os>>
      /\ key' \in BOOLEAN
      => C!TypeOK' /\ C!StopDisarms'
  BY DEF C!TypeOK, C!StopDisarms, States, Awaits
<1>1. CASE C!StatusCall(c)
  BY <1>1, <1>s, <1>t, StatusTyped DEF C!StatusCall, C!TypeOK
<1>2. CASE C!StartCall(c)
  <2>1. ctlState' \in States /\ call' \in [Calls -> Awaits]
    BY <1>2, <1>s, <1>a, StatusTyped, WaitTyped DEF C!StartCall
  <2>2. intentional' = FALSE /\ timer' = FALSE /\ UNCHANGED <<child, resuming, key, os>>
    BY <1>2 DEF C!StartCall
  <2> QED
    BY <2>1, <2>2 DEF C!TypeOK, C!StopDisarms, States, Awaits
<1>3. CASE C!StopCall(c)
  <2>1. call' \in [Calls -> Awaits]
    BY <1>3, <1>a, WaitTyped DEF C!StopCall
  <2>2. /\ intentional' = TRUE /\ timer' = FALSE /\ child' = None
        /\ UNCHANGED <<ctlState, resuming, key>>
    BY <1>3 DEF C!StopCall, C!KillOwnedChild
  <2>3. os' \in [Children -> {"free", "up", "refused", "exiting", "hint"}]
    BY <1>3 DEF C!StopCall, C!KillOwnedChild, C!TypeOK
  <2> QED
    BY <2>1, <2>2, <2>3 DEF C!TypeOK, C!StopDisarms, Awaits
<1>4. CASE C!StatusProbed(c)
  <2>1. ctlState' \in States
    BY <1>4, <1>s DEF C!StatusProbed
  <2> QED
    BY <1>4, <1>a, <1>t, <2>1, WaitTyped DEF C!StatusProbed, C!TypeOK
<1>5. CASE C!StartProbed(c)
  <2>1. ctlState' \in States /\ call' \in [Calls -> Awaits]
    BY <1>5, <1>s, <1>a, StatusTyped, WaitTyped DEF C!StartProbed
  <2> QED
    BY <1>5, <1>t, <2>1 DEF C!StartProbed, C!TypeOK
<1>6. CASE C!StartChecked(c)
  <2>1. ctlState' \in States /\ call' \in [Calls -> Awaits]
    <3>1. "starting" \in States
      BY DEF States
    <3> QED
      BY <1>6, <1>s, <1>a, <3>1, StatusTyped, WaitTyped DEF C!StartChecked
  <2>2. key' \in BOOLEAN
    <3>1. key' = key \/ key' = TRUE
      BY <1>6 DEF C!StartChecked
    <3> QED
      BY <3>1 DEF C!TypeOK
  <2> QED
    BY <1>6, <1>t, <2>1, <2>2 DEF C!StartChecked
<1>7. CASE C!PrepareFails(c)
  <2>1. ctlState' \in States /\ call' \in [Calls -> Awaits]
    BY <1>7, <1>s, <1>a, StatusTyped, WaitTyped DEF C!PrepareFails
  <2> QED
    BY <1>7, <1>t, <2>1 DEF C!PrepareFails, C!TypeOK
<1>8. CASE C!StopEnds(c)
  <2>1. ctlState' \in States /\ call' \in [Calls -> Awaits]
    BY <1>8, <1>s, StatusTyped DEF C!StopEnds
  <2>2. os' \in [Children -> {"free", "up", "refused", "exiting", "hint"}]
    BY <1>8 DEF C!StopEnds, C!TypeOK
  <2>3. key' = FALSE /\ UNCHANGED <<child, intentional, timer, resuming>>
    BY <1>8 DEF C!StopEnds
  <2> QED
    BY <2>1, <2>2, <2>3 DEF C!TypeOK, C!StopDisarms, States, Awaits
<1>9. CASE C!Rejected(c)
  BY <1>9, <1>s, <1>a, <1>t, WaitTyped DEF C!Rejected, C!TypeOK
<1>10. ASSUME NEW k \in Children, C!StartSpawns(c, k) PROVE C!TypeOK' /\ C!StopDisarms'
  <2>1. call' \in [Calls -> Awaits]
    BY <1>10, <1>a, WaitTyped DEF C!StartSpawns
  <2>2. os' \in [Children -> {"free", "up", "refused", "exiting", "hint"}] /\ child' = k
        /\ ctlState' = "running"
    BY <1>10 DEF C!StartSpawns, C!SpawnRun, C!TypeOK
  <2>3. UNCHANGED <<intentional, timer, resuming, key>>
    BY <1>10 DEF C!StartSpawns
  <2> QED
    BY <2>1, <2>2, <2>3 DEF C!TypeOK, C!StopDisarms, Awaits
<1> QED
  BY <1>1, <1>2, <1>3, <1>4, <1>5, <1>6, <1>7, <1>8, <1>9, <1>10 DEF C!CallSteps

(* So does an event of a child, and the restart callback.                  *)
LEMMA EventKept ==
  ASSUME C!TypeOK, C!StopDisarms,
         \/ \E k \in Children : \/ C!ChildExits(k) \/ C!ExitEvent(k) \/ C!UnexpectedExit(k)
                                \/ C!ErrorEvent(k) \/ C!ResumeSpawns(k)
         \/ C!RestartFires \/ C!ResumeDropped
  PROVE  C!TypeOK' /\ C!StopDisarms'
<1>1. ASSUME NEW k \in Children, C!ChildExits(k) PROVE C!TypeOK' /\ C!StopDisarms'
  BY <1>1 DEF C!ChildExits, C!TypeOK, C!StopDisarms
<1>2. ASSUME NEW k \in Children, C!ExitEvent(k) PROVE C!TypeOK' /\ C!StopDisarms'
  <2>1. /\ ctlState' \in States /\ child' \in {child, None}
        /\ os' \in [Children -> {"free", "up", "refused", "exiting", "hint"}]
    BY <1>2 DEF C!ExitEvent, C!Disown, C!TypeOK, States
  <2> QED
    BY <1>2, <2>1 DEF C!ExitEvent, C!TypeOK, C!StopDisarms, States
<1>3. ASSUME NEW k \in Children, C!UnexpectedExit(k) \/ C!ErrorEvent(k)
      PROVE  C!TypeOK' /\ C!StopDisarms'
  <2>1. /\ ctlState' = "error" /\ child' \in {child, None}
        /\ os' \in [Children -> {"free", "up", "refused", "exiting", "hint"}]
        /\ UNCHANGED <<intentional, resuming, key, call>>
    BY <1>3 DEF C!UnexpectedExit, C!ErrorEvent, C!Disown, C!TypeOK
  <2>2. timer' = (timer \/ ~intentional) \/ timer' = timer
    BY <1>3 DEF C!UnexpectedExit, C!ErrorEvent, C!ScheduleRestart
  <2>3. C!StopDisarms'
    BY <2>1, <2>2 DEF C!StopDisarms
  <2>4. timer' \in BOOLEAN
    BY <2>2 DEF C!TypeOK
  <2> QED
    BY <2>1, <2>3, <2>4 DEF C!TypeOK
<1>4. ASSUME NEW k \in Children, C!ResumeSpawns(k) PROVE C!TypeOK' /\ C!StopDisarms'
  BY <1>4 DEF C!ResumeSpawns, C!SpawnRun, C!TypeOK, C!StopDisarms
<1>5. CASE C!RestartFires
  BY <1>5 DEF C!RestartFires, C!TypeOK, C!StopDisarms
<1>6. CASE C!ResumeDropped
  BY <1>6 DEF C!ResumeDropped, C!TypeOK, C!StopDisarms
<1> QED
  BY <1>1, <1>2, <1>3, <1>4, <1>5, <1>6

(* No step but the end of a start() brings a child up while a stop stands. *)
LEMMA SpawnsByStart == C!TypeOK /\ C!Next => C!SpawnedByStart
<1> SUFFICES ASSUME C!TypeOK, C!Next, intentional, C!Up # C!Up', C!Up \subseteq C!Up'
             PROVE  \E c \in Calls : call[c] = "preparing" /\ call'[c] = "idle"
  BY DEF C!SpawnedByStart
<1>1. PICK k \in Children : os[k] # "up" /\ os'[k] = "up"
  BY DEF C!Up
<1>2. ASSUME NEW c \in Calls, NEW j \in Children, C!StartSpawns(c, j)
      PROVE  call[c] = "preparing" /\ call'[c] = "idle"
  BY <1>2 DEF C!StartSpawns, C!Waits, C!TypeOK
<1>3. ASSUME NEW c \in Calls, C!StatusCall(c) \/ C!StartCall(c) \/ C!StatusProbed(c)
                              \/ C!StartProbed(c) \/ C!StartChecked(c) \/ C!PrepareFails(c)
                              \/ C!Rejected(c)
      PROVE  FALSE
  BY <1>1, <1>3 DEF C!StatusCall, C!StartCall, C!StatusProbed, C!StartProbed, C!StartChecked,
     C!PrepareFails, C!Rejected
<1>4. ASSUME NEW c \in Calls, C!StopCall(c) \/ C!StopEnds(c) PROVE FALSE
  BY <1>1, <1>4 DEF C!StopCall, C!KillOwnedChild, C!StopEnds, C!TypeOK
<1>5. ASSUME NEW j \in Children, C!ChildExits(j) \/ C!ExitEvent(j) \/ C!UnexpectedExit(j)
                                 \/ C!ErrorEvent(j)
      PROVE  FALSE
  BY <1>1, <1>5 DEF C!ChildExits, C!ExitEvent, C!UnexpectedExit, C!ErrorEvent, C!TypeOK
<1>6. ASSUME NEW j \in Children, C!ResumeSpawns(j) PROVE FALSE
  BY <1>6 DEF C!ResumeSpawns
<1>7. ASSUME C!RestartFires \/ C!ResumeDropped PROVE FALSE
  BY <1>1, <1>7 DEF C!RestartFires, C!ResumeDropped
<1> QED
  BY <1>2, <1>3, <1>4, <1>5, <1>6, <1>7 DEF C!Next, C!CallSteps

-----------------------------------------------------------------------------
(* Both views keep what was kept, whichever is in focus.                   *)
LEMMA BenchKeeps ==
  TunnelTypeOK /\ C!StopDisarms /\ [BenchNext]_bvars
    => TunnelTypeOK' /\ C!StopDisarms' /\ [C!SpawnedByStart]_bvars
<1> SUFFICES ASSUME TunnelTypeOK, C!StopDisarms, [BenchNext]_bvars
             PROVE  TunnelTypeOK' /\ C!StopDisarms' /\ [C!SpawnedByStart]_bvars
  OBVIOUS
<1>u. UNCHANGED ctlVars => (C!TypeOK' <=> C!TypeOK) /\ (C!StopDisarms' <=> C!StopDisarms)
                           /\ C!SpawnedByStart
  BY DEF ctlVars, C!TypeOK, C!StopDisarms, C!SpawnedByStart, C!Up
<1>1. CASE TimersStep(Next)
  BY <1>1, <1>u, TimersTyped DEF TimersStep, TunnelTypeOK
<1>2. CASE CallsStep(C!Next)
  <2>1. TypeOK'
    BY <1>2, TimersTyped DEF CallsStep, TunnelTypeOK
  <2>2. C!TypeOK' /\ C!StopDisarms'
    BY <1>2, CallKept, EventKept DEF CallsStep, TunnelTypeOK, C!Next
  <2> QED
    BY <1>2, <2>1, <2>2, SpawnsByStart DEF CallsStep, TunnelTypeOK
<1>3. CASE UNCHANGED bvars
  BY <1>3, <1>u, TimersTyped DEF bvars, TunnelTypeOK
<1> QED
  BY <1>1, <1>2, <1>3 DEF BenchNext

LEMMA BenchStarts == BenchInit => TunnelTypeOK /\ C!StopDisarms
  BY InitInv, CallsStart DEF BenchInit, TunnelTypeOK, IInv

(* Both views keep their variables in their types.                         *)
THEOREM TunnelTyped == BenchSpec => []TunnelTypeOK
  BY BenchStarts, BenchKeeps, PTL DEF BenchSpec, BenchNext

(* While a stop stands no reconnect timer is armed, whatever exit of before *)
(* the stop is still on its way to scheduleRestart (lines 305-327).        *)
THEOREM StopAlwaysDisarms == BenchSpec => []C!StopDisarms
  BY BenchStarts, BenchKeeps, PTL DEF BenchSpec, BenchNext

(* A reconnect that had begun does not bring a stopped child back: only a  *)
(* start() that was under way can spawn (lines 290-302).                   *)
THEOREM StopOutlives == BenchSpec => StopOutlivesReconnect
  BY BenchStarts, BenchKeeps, PTL DEF BenchSpec, BenchNext, StopOutlivesReconnect
=============================================================================

---------------------------- MODULE MCReadsProofs -----------------------------
(***************************************************************************)
(* Proofs about what clients are told, for any contents, requests and      *)
(* bounds: each component of MCReads has an inductive invariant of its own,*)
(* which MCStoresProofs joins.                                             *)
(***************************************************************************)
EXTENDS MCReads, SequenceLemmas, FiniteSetTheorems

-----------------------------------------------------------------------------
(* OutputBuffers: what is counted, and how a ring grows and shrinks.       *)
Sizes(a) == [i \in 1..Len(a) |-> a[i].size]
Sized(V) == \A e \in V : e.size \in Nat

LEMMA SizesAre ==
  ASSUME NEW V, Sized(V), NEW a \in Seq(V)
  PROVE  Sizes(a) \in Seq(Nat) /\ Len(Sizes(a)) = Len(a) /\ O!Bytes(a) = Total(Sizes(a)) /\ O!Bytes(a) \in Nat
<1>1. Len(a) \in Nat /\ \A i \in 1..Len(a) : a[i].size \in Nat
  BY ElementOfSeq DEF Sized
<1>2. Sizes(a) \in [1..Len(a) -> Nat]
  BY <1>1 DEF Sizes
<1>3. Sizes(a) \in Seq(Nat) /\ Len(Sizes(a)) = Len(a)
  BY <1>1, <1>2
<1>4. O!Bytes(a) = Total(Sizes(a))
  BY Zenon DEF O!Bytes, O!Total, Total, Sizes
<1> QED
  BY <1>3, <1>4, TotalNat

LEMMA BytesConcat ==
  ASSUME NEW V, Sized(V), NEW a \in Seq(V), NEW b \in Seq(V)
  PROVE  O!Bytes(a \o b) = O!Bytes(a) + O!Bytes(b)
<1>1. a \o b \in Seq(V)
  OBVIOUS
<1>2. /\ Sizes(a) \in Seq(Nat) /\ Len(Sizes(a)) = Len(a) /\ O!Bytes(a) = Total(Sizes(a))
      /\ Sizes(b) \in Seq(Nat) /\ Len(Sizes(b)) = Len(b) /\ O!Bytes(b) = Total(Sizes(b))
      /\ Sizes(a \o b) \in Seq(Nat) /\ Len(Sizes(a \o b)) = Len(a \o b)
      /\ O!Bytes(a \o b) = Total(Sizes(a \o b))
  BY <1>1, SizesAre
<1>3. Sizes(a \o b) = Sizes(a) \o Sizes(b)
  <2>1. Sizes(a) \o Sizes(b) \in Seq(Nat) /\ Len(Sizes(a) \o Sizes(b)) = Len(a) + Len(b)
        /\ Len(a \o b) = Len(a) + Len(b) /\ Len(a) \in Nat /\ Len(b) \in Nat
        /\ \A i \in 1..(Len(a) + Len(b)) : /\ (a \o b)[i] = IF i <= Len(a) THEN a[i] ELSE b[i - Len(a)]
                /\ (Sizes(a) \o Sizes(b))[i] = IF i <= Len(a) THEN Sizes(a)[i] ELSE Sizes(b)[i - Len(a)]
    <3> DEFINE c == Sizes(a)
               d == Sizes(b)
    <3>1. c \in Seq(Nat) /\ d \in Seq(Nat) /\ Len(c) = Len(a) /\ Len(d) = Len(b)
      BY <1>2
    <3> HIDE DEF c, d
    <3>2. /\ c \o d \in Seq(Nat) /\ Len(c \o d) = Len(c) + Len(d)
          /\ \A i \in 1..(Len(c) + Len(d)) : (c \o d)[i] = IF i <= Len(c) THEN c[i] ELSE d[i - Len(c)]
      BY <3>1, ConcatProperties
    <3>3. /\ Len(a \o b) = Len(a) + Len(b) /\ Len(a) \in Nat /\ Len(b) \in Nat
          /\ \A i \in 1..(Len(a) + Len(b)) : (a \o b)[i] = IF i <= Len(a) THEN a[i] ELSE b[i - Len(a)]
      BY ConcatProperties, LenProperties
    <3> QED
      BY <3>1, <3>2, <3>3 DEF c, d
  <2>2. ASSUME NEW i \in 1..(Len(a) + Len(b))
        PROVE  Sizes(a \o b)[i] = (Sizes(a) \o Sizes(b))[i]
    <3>1. (a \o b)[i] = IF i <= Len(a) THEN a[i] ELSE b[i - Len(a)]
      BY <2>1
    <3>2. (Sizes(a) \o Sizes(b))[i] = IF i <= Len(a) THEN Sizes(a)[i] ELSE Sizes(b)[i - Len(a)]
      BY <2>1
    <3>3. Sizes(a \o b)[i] = (a \o b)[i].size
      BY <2>1 DEF Sizes
    <3>4. i <= Len(a) => Sizes(a)[i] = a[i].size
      BY <2>1 DEF Sizes
    <3>5. ~(i <= Len(a)) => Sizes(b)[i - Len(a)] = b[i - Len(a)].size
      <4>1. ~(i <= Len(a)) => i - Len(a) \in 1..Len(b)
        BY <2>1
      <4> QED
        BY <4>1 DEF Sizes
    <3> QED
      BY <3>1, <3>2, <3>3, <3>4, <3>5
  <2> QED
    BY <1>2, <2>1, <2>2, SeqEqual
<1> QED
  BY <1>2, <1>3, TotalConcat

LEMMA BytesOne ==
  ASSUME NEW V, Sized(V), NEW e \in V
  PROVE  O!Bytes(<<e>>) = e.size /\ O!Bytes(<< >>) = 0
<1>1. <<e>> \in Seq(V) /\ Len(<<e>>) = 1 /\ <<e>>[1] = e /\ Len(<< >>) = 0
  OBVIOUS
<1>2. e.size \in Nat
  BY DEF Sized
<1>3. Sizes(<<e>>) = <<e.size>>
  BY <1>1 DEF Sizes
<1>4. Sizes(<< >>) = << >>
  BY <1>1 DEF Sizes
<1> QED
  BY <1>1, <1>2, <1>3, <1>4, SizesAre, TotalOne, EmptySeq

RingEntry == [sequence : Nat, size : Nat, whole : BOOLEAN]
Rings == [entries : Seq(RingEntry), sequence : Nat, bytes : Nat, evicted : BOOLEAN]
BufferPieces == [size : {1, 2}, split : {0}] \union [size : {MaxBytes + 1}, split : {1, 3}]

(* The entries have consecutive numbers up to the last one; until something*)
(* is evicted they are all there, and whole.                               *)
RingFits(b) ==
    /\ b \in Rings /\ b.bytes = O!Bytes(b.entries)
    /\ b.bytes <= MaxBytes \/ (Len(b.entries) = 1 /\ b.bytes <= MaxBytes + O!Growth)
    /\ Len(b.entries) <= b.sequence
    /\ \A i \in 1..Len(b.entries) : b.entries[i].sequence = (b.sequence - Len(b.entries)) + i
    /\ ~b.evicted => Len(b.entries) = b.sequence /\ \A i \in 1..Len(b.entries) : b.entries[i].whole

LEMMA PiecesAre == \A p \in BufferPieces : p.size \in Nat /\ p.split \in O!Orphans
                        /\ O!Cut(p) \in Nat /\ O!Cut(p) <= MaxBytes + O!Growth
<1> SUFFICES ASSUME NEW p \in BufferPieces
             PROVE  p.size \in Nat /\ p.split \in O!Orphans /\ O!Cut(p) \in Nat /\ O!Cut(p) <= MaxBytes + O!Growth
  OBVIOUS
<1>1. p.size \in Nat /\ p.split \in 0..3 /\ (p.size <= MaxBytes \/ p.size > MaxBytes)
  <2>1. CASE p \in [size : {1, 2}, split : {0}]
    BY <2>1, ReadsAssumption
  <2>2. CASE p \in [size : {MaxBytes + 1}, split : {1, 3}]
    BY <2>2, ReadsAssumption
  <2> QED
    BY <2>1, <2>2 DEF BufferPieces
<1>2. CASE p.size <= MaxBytes
  BY <1>1, <1>2, ReadsAssumption DEF O!Cut, O!Growth, O!Orphans
<1>3. CASE ~(p.size <= MaxBytes)
  <2>1. O!Cut(p) = MaxBytes + 2 * p.split
    BY <1>3 DEF O!Cut
  <2> QED
    BY <1>1, <2>1, ReadsAssumption DEF O!Growth, O!Orphans
<1> QED
  BY <1>2, <1>3

LEMMA EntriesSized == Sized(RingEntry)
  BY DEF Sized, RingEntry

LEMMA Shifted ==
  \A q, l, x, i \in Nat : \A q1, l1 : q1 = q + 1 /\ l1 = (l - x) + 1 => (q - l) + (x + i) = (q1 - l1) + i
  OBVIOUS

LEMMA RemovedIs ==
    ASSUME NEW a \in Seq(RingEntry), NEW n \in Nat
    PROVE  /\ O!Removed(a, n) \in 0..Len(a)
           /\ O!Removed(a, n) = Len(a) \/ O!Bytes(O!After(a, O!Removed(a, n))) + n <= MaxBytes
<1> DEFINE Fits(x) == x = Len(a) \/ O!Bytes(O!After(a, x)) + n <= MaxBytes
           Ok == {x \in 0..Len(a) : Fits(x)}
<1>1. Len(a) \in Nat
  OBVIOUS
<1>2. Len(a) \in Ok
  BY <1>1
<1>3. PICK x \in Ok : \A y \in Ok : x <= y
  <2>1. Ok \in SUBSET Nat /\ Ok # {}
    BY <1>1, <1>2
  <2> HIDE DEF Ok
  <2> QED
    BY <2>1, LeastNat
<1>4. x \in 0..Len(a) /\ Fits(x) /\ \A y \in 0..(x - 1) : ~Fits(y)
  <2>1. ASSUME NEW y \in 0..(x - 1) PROVE y \in 0..Len(a) /\ ~(x <= y)
    BY <1>1
  <2> QED
    BY <1>3, <2>1
<1>5. ASSUME NEW y \in 0..(x - 1) PROVE O!Bytes(O!After(a, y)) + n > MaxBytes
  <2>1. y \in 0..Len(a) /\ ~(O!Bytes(O!After(a, y)) + n <= MaxBytes)
    BY <1>1, <1>4
  <2>2. O!Bytes(O!After(a, y)) \in Nat
    BY <2>1, AfterIs, EntriesSized, SizesAre DEF O!After
  <2> QED
    BY <2>1, <2>2, ReadsAssumption
<1> DEFINE Right(j) == /\ j = Len(a) \/ O!Bytes(O!After(a, j)) + n <= MaxBytes
                       /\ \A y \in 0..(j - 1) : O!Bytes(O!After(a, y)) + n > MaxBytes
<1>6. x \in 0..Len(a) /\ Right(x)
  BY <1>4, <1>5
<1>7. O!Removed(a, n) = CHOOSE j \in 0..Len(a) : Right(j)
  BY DEF O!Removed
<1> HIDE DEF Right
<1>8. O!Removed(a, n) \in 0..Len(a) /\ Right(O!Removed(a, n))
  BY <1>6, <1>7
<1> QED
  BY <1>8 DEF Right

LEMMA AppendFits ==
  ASSUME NEW b, RingFits(b), NEW p \in BufferPieces
  PROVE  RingFits(O!AppendChunk(b, p)) /\ O!AppendChunk(b, p).sequence = b.sequence + 1
<1> DEFINE n == O!Cut(p)
           m == O!Removed(b.entries, n)
           kept == O!After(b.entries, m)
           e == [sequence |-> b.sequence + 1, size |-> n, whole |-> n = p.size]
           c == O!AppendChunk(b, p)
<1>1. p.size \in Nat /\ p.split \in O!Orphans /\ n \in Nat /\ n <= MaxBytes + O!Growth
  BY PiecesAre
<1>2. b.entries \in Seq(RingEntry) /\ b.sequence \in Nat /\ b.bytes \in Nat /\ b.evicted \in BOOLEAN
  BY DEF RingFits, Rings
<1>3. m \in 0..Len(b.entries) /\ (m = Len(b.entries) \/ O!Bytes(kept) + n <= MaxBytes)
  BY <1>1, <1>2, RemovedIs
<1>4. c = [entries |-> Append(kept, e), sequence |-> b.sequence + 1,
           bytes |-> (b.bytes - O!Bytes(SubSeq(b.entries, 1, m))) + n,
           evicted |-> b.evicted \/ p.size > MaxBytes \/ m > 0]
  BY DEF O!AppendChunk
<1>5. n = p.size \/ p.size > MaxBytes
  BY <1>1, ReadsAssumption DEF O!Cut
<1> HIDE DEF n, m, c
<1>6. /\ SubSeq(b.entries, 1, m) \in Seq(RingEntry) /\ kept \in Seq(RingEntry)
      /\ Len(kept) = Len(b.entries) - m
      /\ \A i \in 1..(Len(b.entries) - m) : kept[i] = b.entries[m + i]
      /\ SubSeq(b.entries, 1, m) \o kept = b.entries
  <2> DEFINE s == b.entries
  <2>1. s \in Seq(RingEntry) /\ m \in 0..Len(s)
    BY <1>2, <1>3
  <2>2. kept = SubSeq(s, m + 1, Len(s))
    BY DEF kept, O!After
  <2> HIDE DEF s, kept
  <2>3. /\ SubSeq(s, 1, m) \in Seq(RingEntry) /\ kept \in Seq(RingEntry)
        /\ Len(kept) = Len(s) - m
        /\ \A i \in 1..(Len(s) - m) : kept[i] = s[m + i]
        /\ SubSeq(s, 1, m) \o kept = s
    BY <2>1, <2>2, AfterIs
  <2> QED
    BY <2>3 DEF s
<1>7. e \in RingEntry /\ e.size = n /\ e.sequence = b.sequence + 1 /\ (e.whole <=> n = p.size)
  <2>1. b.sequence + 1 \in Nat /\ (n = p.size) \in BOOLEAN
    BY <1>2
  <2>2. e \in RingEntry
    BY <1>1, <2>1 DEF RingEntry
  <2> QED
    BY <2>2
<1> HIDE DEF kept, e
<1>8. /\ O!Bytes(b.entries) = O!Bytes(SubSeq(b.entries, 1, m)) + O!Bytes(kept)
      /\ O!Bytes(kept) \in Nat /\ O!Bytes(SubSeq(b.entries, 1, m)) \in Nat
  BY <1>6, EntriesSized, BytesConcat, SizesAre
<1>9. Append(kept, e) = kept \o <<e>> /\ <<e>> \in Seq(RingEntry)
  BY <1>6, <1>7, AppendIsConcat
<1>10. O!Bytes(Append(kept, e)) = O!Bytes(kept) + n
  <2>1. O!Bytes(kept \o <<e>>) = O!Bytes(kept) + O!Bytes(<<e>>)
    BY <1>6, <1>9, EntriesSized, BytesConcat
  <2>2. O!Bytes(<<e>>) = n
    BY <1>7, EntriesSized, BytesOne
  <2> QED
    BY <1>9, <2>1, <2>2
<1>11. /\ Append(kept, e) \in Seq(RingEntry) /\ Len(Append(kept, e)) = Len(kept) + 1
       /\ \A i \in 1..Len(kept) : Append(kept, e)[i] = kept[i]
       /\ Append(kept, e)[Len(kept) + 1] = e
  BY <1>6, <1>7, AppendProperties
<1>12. /\ c.entries = Append(kept, e) /\ c.sequence = b.sequence + 1
       /\ c.bytes = (b.bytes - O!Bytes(SubSeq(b.entries, 1, m))) + n
       /\ c.evicted = (b.evicted \/ p.size > MaxBytes \/ m > 0)
  BY <1>4
<1> DEFINE s == Append(kept, e)
<1> HIDE DEF s
<1>13. /\ s \in Seq(RingEntry) /\ Len(s) = Len(kept) + 1 /\ O!Bytes(s) = O!Bytes(kept) + n
       /\ \A i \in 1..Len(kept) : s[i] = kept[i]
       /\ s[Len(kept) + 1] = e /\ c.entries = s
  BY <1>10, <1>11, <1>12 DEF s
<1>14. c.bytes = O!Bytes(kept) + n
  BY <1>1, <1>2, <1>8, <1>12 DEF RingFits
<1>15. c \in Rings
  <2>1. c.bytes \in Nat
    BY <1>1, <1>8, <1>14
  <2> QED
    BY <1>2, <1>4, <1>12, <1>13, <2>1 DEF Rings
<1>16. c.bytes <= MaxBytes \/ (Len(s) = 1 /\ c.bytes <= MaxBytes + O!Growth)
  <2>1. CASE O!Bytes(kept) + n <= MaxBytes
    BY <1>14, <2>1
  <2>2. CASE m = Len(b.entries)
    <3>1. Len(kept) = 0 /\ kept = << >>
      BY <1>2, <1>6, <2>2, EmptySeq
    <3>2. O!Bytes(kept) = 0
      BY <3>1, <1>7, EntriesSized, BytesOne
    <3> QED
      BY <1>1, <1>13, <1>14, <3>1, <3>2
  <2>3. m = Len(b.entries) \/ O!Bytes(kept) + n <= MaxBytes
    BY <1>3
  <2> QED
    BY <2>1, <2>2, <2>3
<1>17. Len(s) <= c.sequence
  <2>1. Len(b.entries) <= b.sequence /\ Len(b.entries) \in Nat /\ m \in Nat
    BY <1>2, <1>3 DEF RingFits
  <2>2. Len(kept) = Len(b.entries) - m
    BY <1>6
  <2>3. Len(s) = Len(kept) + 1 /\ c.sequence = b.sequence + 1
    BY <1>12, <1>13
  <2> QED
    BY <1>2, <2>1, <2>2, <2>3
<1>18. ASSUME NEW i \in 1..Len(s) PROVE s[i].sequence = (c.sequence - Len(s)) + i
  <2>0. Len(b.entries) \in Nat /\ Len(kept) \in Nat
    BY <1>2, <1>6
  <2>1. CASE i = Len(kept) + 1
    BY <1>2, <1>7, <1>12, <1>13, <2>0, <2>1
  <2>2. CASE i \in 1..Len(kept)
    <3>1. m + i \in 1..Len(b.entries) /\ i \in 1..(Len(b.entries) - m)
      BY <1>3, <1>6, <2>0, <2>2
    <3>2. s[i] = b.entries[m + i]
      BY <1>6, <1>13, <2>2, <3>1
    <3>3. b.entries[m + i].sequence = (b.sequence - Len(b.entries)) + (m + i)
      BY <3>1 DEF RingFits
    <3>4. Len(s) = (Len(b.entries) - m) + 1 /\ i \in Nat /\ m \in Nat
      BY <1>3, <1>6, <1>13, <2>0, <2>2
    <3>5. c.sequence = b.sequence + 1 /\ b.sequence \in Nat
      BY <1>2, <1>12
    <3>6. (b.sequence - Len(b.entries)) + (m + i) = (c.sequence - Len(s)) + i
      <4> DEFINE x == b.sequence
                 y == Len(b.entries)
                 z == c.sequence
                 w == Len(s)
      <4>1. x \in Nat /\ y \in Nat /\ z = x + 1 /\ w = (y - m) + 1 /\ i \in Nat /\ m \in Nat
        BY <2>0, <3>4, <3>5
      <4> HIDE DEF x, y, z, w
      <4>2. (x - y) + (m + i) = (z - w) + i
        BY <4>1
      <4> QED
        BY <4>2 DEF x, y, z, w
    <3> QED
      BY <3>2, <3>3, <3>6
  <2> QED
    BY <1>13, <2>0, <2>1, <2>2
<1>19. ASSUME ~c.evicted PROVE Len(s) = c.sequence /\ \A i \in 1..Len(s) : s[i].whole
  <2>1. ~b.evicted /\ ~(p.size > MaxBytes) /\ m = 0
    <3>1. ~b.evicted /\ ~(p.size > MaxBytes) /\ ~(m > 0)
      BY Zenon, <1>12, <1>19
    <3>2. m \in Nat
      BY <1>2, <1>3
    <3> QED
      BY <3>1, <3>2
  <2>2. Len(kept) = b.sequence /\ Len(b.entries) = b.sequence
    BY <1>2, <1>6, <2>1 DEF RingFits
  <2>3. e.whole
    BY <1>5, <1>7, <2>1
  <2>4. \A i \in 1..Len(kept) : s[i] = b.entries[i]
    <3> SUFFICES ASSUME NEW i \in 1..Len(kept) PROVE s[i] = b.entries[i]
      OBVIOUS
    <3>1. m + i = i /\ i \in 1..(Len(b.entries) - m)
      BY <1>2, <2>1, <2>2
    <3> QED
      BY <1>6, <1>13, <3>1
  <2>5. \A i \in 1..Len(kept) : s[i].whole
    BY <2>1, <2>2, <2>4 DEF RingFits
  <2>6. \A i \in 1..Len(s) : i \in 1..Len(kept) \/ i = Len(kept) + 1
    BY <1>2, <1>13, <2>2
  <2> QED
    BY <1>12, <1>13, <2>2, <2>3, <2>5, <2>6
<1> QED
  BY <1>12, <1>13, <1>14, <1>15, <1>16, <1>17, <1>18, <1>19 DEF RingFits, c

(* A chunk appended piece by piece.                                        *)
Appends(f, b, chunk) ==
    f = [i \in 0..Len(chunk) |-> IF i = 0 THEN b ELSE O!AppendChunk(f[i - 1], chunk[i])]
GrownFrom(b) == {c \in Rings : RingFits(c) /\ b.sequence <= c.sequence}

LEMMA AppendAllFits ==
  ASSUME NEW b, RingFits(b), NEW chunk \in Seq(BufferPieces)
  PROVE  O!AppendAll(b, chunk) \in GrownFrom(b)
<1> DEFINE A == GrownFrom(b)
           step == [x \in A \X (1..Len(chunk)) |-> O!AppendChunk(x[1], chunk[x[2]])]
<1>1. b \in A
  BY DEF GrownFrom, RingFits, Rings
<1>2. Len(chunk) \in Nat /\ \A i \in 1..Len(chunk) : chunk[i] \in BufferPieces
  OBVIOUS
<1>3. \A c \in A, i \in 1..Len(chunk) : O!AppendChunk(c, chunk[i]) \in A
  <2> SUFFICES ASSUME NEW c \in A, NEW i \in 1..Len(chunk) PROVE O!AppendChunk(c, chunk[i]) \in A
    OBVIOUS
  <2>1. RingFits(c) /\ b.sequence <= c.sequence /\ c.sequence \in Nat /\ b.sequence \in Nat
    BY DEF GrownFrom, RingFits, Rings
  <2>2. RingFits(O!AppendChunk(c, chunk[i])) /\ O!AppendChunk(c, chunk[i]).sequence = c.sequence + 1
    BY <1>2, <2>1, AppendFits
  <2> QED
    BY <2>1, <2>2 DEF GrownFrom, RingFits
<1> HIDE DEF A
<1>4. step \in [A \X (1..Len(chunk)) -> A] /\ \A c \in A, i \in 1..Len(chunk) : step[<<c, i>>] = O!AppendChunk(c, chunk[i])
  <2>1. \A x \in A \X (1..Len(chunk)) : O!AppendChunk(x[1], chunk[x[2]]) \in A
    BY <1>3
  <2>2. \A x \in A \X (1..Len(chunk)) : step[x] = O!AppendChunk(x[1], chunk[x[2]])
    OBVIOUS
  <2>3. step \in [A \X (1..Len(chunk)) -> A]
    BY <2>1
  <2> HIDE DEF step
  <2> QED
    BY <2>2, <2>3
<1> HIDE DEF step
<1>5. PICK g : Recurses(g, A, b, Len(chunk), step)
  BY <1>1, <1>2, <1>4, RecursionExists
<1>6. g = [i \in 0..Len(chunk) |-> IF i = 0 THEN b ELSE O!AppendChunk(g[i - 1], chunk[i])]
  <2>1. ASSUME NEW i \in 0..Len(chunk) PROVE g[i] = IF i = 0 THEN b ELSE O!AppendChunk(g[i - 1], chunk[i])
    <3>1. CASE i = 0
      BY <1>5, <3>1 DEF Recurses
    <3>2. CASE i # 0
      <4>1. i \in 1..Len(chunk) /\ i - 1 \in 0..Len(chunk)
        BY <1>2, <3>2
      <4>2. g[i] = step[<<g[i - 1], i>>] /\ g[i - 1] \in A
        BY <1>5, <4>1 DEF Recurses
      <4> QED
        BY <1>4, <3>2, <4>1, <4>2
    <3> QED
      BY <3>1, <3>2
  <2>2. g = [i \in 0..Len(chunk) |-> g[i]]
    BY <1>5 DEF Recurses
  <2> QED
    BY <2>1, <2>2
<1>7. Appends(g, b, chunk)
  BY <1>6 DEF Appends
<1>8. Appends(CHOOSE f : Appends(f, b, chunk), b, chunk)
  BY <1>7
<1>9. O!AppendAll(b, chunk) = (CHOOSE f : Appends(f, b, chunk))[Len(chunk)]
  BY Zenon DEF O!AppendAll, Appends
<1> DEFINE f == CHOOSE f : Appends(f, b, chunk)
<1>10. Appends(f, b, chunk) /\ O!AppendAll(b, chunk) = f[Len(chunk)]
  BY <1>8, <1>9
<1> HIDE DEF f
<1>11. f[0] = b /\ \A i \in 1..Len(chunk) : f[i] = O!AppendChunk(f[i - 1], chunk[i])
  <2>1. \A i \in 0..Len(chunk) : f[i] = IF i = 0 THEN b ELSE O!AppendChunk(f[i - 1], chunk[i])
    BY Zenon, <1>10 DEF Appends
  <2>2. 0 \in 0..Len(chunk) /\ \A i \in 1..Len(chunk) : i \in 0..Len(chunk) /\ i # 0
    BY <1>2
  <2> QED
    BY <2>1, <2>2
<1>12. \A i \in 1..Len(chunk) : f[i - 1] \in A => f[i] \in A
  BY <1>3, <1>11
<1>13. \A i \in 0..Len(chunk) : f[i] \in A
  BY <1>1, <1>2, <1>11, <1>12, RecursionKeeps
<1> QED
  BY <1>2, <1>10, <1>13 DEF A

Outputs == {"stdout", "stderr"}
Entries(a) == {a[i] : i \in 1..Len(a)}
Readers == [since : Nat, got : Seq(RingEntry), told : BOOLEAN]

(* What a follower with entries a, up to number n, has been given.         *)
Rising(a, n) ==
    /\ \A i, j \in 1..Len(a) : i < j => a[i].sequence < a[j].sequence
    /\ \A i \in 1..Len(a) : a[i].sequence <= n
Complete(a, n, left) ==
    1..n = left \union {e.sequence : e \in Entries(a)} /\ \A e \in Entries(a) : e.whole
CapturesFit ==
    /\ capture \in [Outputs -> [bytes : 0..MaxBytes, truncated : BOOLEAN]] /\ written \in [Outputs -> Nat]
    /\ \A s \in Outputs : capture[s].truncated \/ capture[s].bytes = written[s]
ReaderFits ==
    /\ reader \in Readers /\ reader.since <= ring.sequence
    /\ Rising(reader.got, reader.since)
    /\ reader.told \/ Complete(reader.got, reader.since, limited)
BuffersInv == RingFits(ring) /\ CapturesFit /\ ReaderFits

LEMMA BuffersInitInv == O!BuffersInit => BuffersInv
<1> SUFFICES ASSUME O!BuffersInit PROVE BuffersInv
  OBVIOUS
<1>1. /\ ring = [entries |-> << >>, sequence |-> 0, bytes |-> 0, evicted |-> FALSE]
      /\ capture = [s \in Outputs |-> [bytes |-> 0, truncated |-> FALSE]]
      /\ reader = [since |-> 0, got |-> << >>, told |-> FALSE]
      /\ written = [s \in Outputs |-> 0] /\ limited = {}
  BY DEF O!BuffersInit, Outputs
<1>2. << >> \in Seq(RingEntry) /\ Len(<< >>) = 0
  OBVIOUS
<1>3. O!Bytes(<< >>) = 0
  <2>1. [sequence |-> 0, size |-> 0, whole |-> FALSE] \in RingEntry
    BY DEF RingEntry
  <2> QED
    BY <2>1, EntriesSized, BytesOne
<1>4. RingFits(ring)
  <2>1. ring \in Rings
    BY <1>1, <1>2 DEF Rings
  <2>2. ring.entries = << >> /\ ring.sequence = 0 /\ ring.bytes = 0
    BY <1>1
  <2> QED
    BY <1>2, <1>3, <2>1, <2>2, ReadsAssumption DEF RingFits
<1>5. CapturesFit
  BY <1>1, ReadsAssumption DEF CapturesFit
<1>6. ReaderFits
  <2>1. reader \in Readers /\ reader.since = 0 /\ reader.got = << >> /\ ring.sequence = 0
    BY <1>1, <1>2 DEF Readers
  <2>2. Entries(<< >>) = {} /\ 1..0 = {}
    BY <1>2 DEF Entries
  <2> QED
    BY <1>1, <1>2, <2>1, <2>2 DEF ReaderFits, Rising, Complete
<1> QED
  BY <1>4, <1>5, <1>6 DEF BuffersInv

LEMMA PiecesSized == Sized(BufferPieces)
  BY PiecesAre DEF Sized

LEMMA BufferWriteInv ==
  ASSUME BuffersInv, NEW s \in Outputs, NEW chunk \in Seq(BufferPieces), O!Write(s, chunk)
  PROVE  BuffersInv'
<1> DEFINE n == O!Bytes(chunk)
<1>1. n \in Nat
  BY PiecesSized, SizesAre
<1>2. /\ ring' = O!AppendAll(ring, chunk) /\ capture' = [capture EXCEPT ![s] = O!Captured(capture[s], n)]
      /\ written' = [written EXCEPT ![s] = written[s] + n] /\ UNCHANGED <<reader, limited>>
  BY DEF O!Write
<1> HIDE DEF n
<1>3. RingFits(ring') /\ ring.sequence <= ring'.sequence /\ ring'.sequence \in Nat /\ ring.sequence \in Nat
  <2>1. RingFits(ring)
    BY DEF BuffersInv
  <2>2. ring' \in GrownFrom(ring)
    BY <1>2, <2>1, AppendAllFits
  <2>3. RingFits(ring') /\ ring.sequence <= ring'.sequence
    BY <2>2 DEF GrownFrom
  <2> QED
    BY <2>1, <2>3 DEF RingFits, Rings
<1>4. ReaderFits'
  <2>1. reader.since \in Nat
    BY DEF BuffersInv, ReaderFits, Readers
  <2> QED
    BY <1>2, <1>3, <2>1 DEF BuffersInv, ReaderFits
<1>5. CapturesFit'
  <2> DEFINE c == capture[s]
             d == O!Captured(c, n)
  <2>1. /\ c \in [bytes : 0..MaxBytes, truncated : BOOLEAN] /\ written[s] \in Nat
        /\ c.truncated \/ c.bytes = written[s]
    BY DEF BuffersInv, CapturesFit
  <2> HIDE DEF c
  <2>2. /\ d = [bytes |-> c.bytes + (IF n < MaxBytes - c.bytes THEN n ELSE MaxBytes - c.bytes),
                truncated |-> c.truncated \/ n > MaxBytes - c.bytes]
    BY DEF O!Captured
  <2>3. c.bytes + (IF n < MaxBytes - c.bytes THEN n ELSE MaxBytes - c.bytes) \in 0..MaxBytes
    BY <1>1, <2>1, ReadsAssumption
  <2>4. (c.truncated \/ n > MaxBytes - c.bytes) \in BOOLEAN
    BY Zenon
  <2>5. d \in [bytes : 0..MaxBytes, truncated : BOOLEAN]
    BY <2>2, <2>3, <2>4
  <2>6. d.truncated \/ d.bytes = written[s] + n
    <3>1. d.bytes = c.bytes + (IF n < MaxBytes - c.bytes THEN n ELSE MaxBytes - c.bytes)
      BY <2>2
    <3>2. d.truncated = (c.truncated \/ n > MaxBytes - c.bytes)
      BY <2>2
    <3>3. c.truncated \/ n > MaxBytes - c.bytes => d.truncated
      BY Zenon, <3>2
    <3>4. ~(n > MaxBytes - c.bytes) => d.bytes = c.bytes + n
      BY <1>1, <2>1, <3>1, ReadsAssumption
    <3> QED
      BY <2>1, <3>3, <3>4
  <2> HIDE DEF d
  <2>7. capture' = [capture EXCEPT ![s] = d]
    BY <1>2 DEF c, d
  <2>8. written[s] + n \in Nat
    BY <1>1, <2>1
  <2>9. ASSUME NEW o \in Outputs PROVE capture'[o].truncated \/ capture'[o].bytes = written'[o]
    BY <1>2, <2>6, <2>7 DEF BuffersInv, CapturesFit
  <2> QED
    BY <1>2, <2>5, <2>7, <2>8, <2>9 DEF BuffersInv, CapturesFit
<1> QED
  BY <1>3, <1>4, <1>5 DEF BuffersInv

LEMMA FollowInv ==
  ASSUME BuffersInv, NEW n \in TailLines, O!Follow(n)
  PROVE  BuffersInv'
<1> DEFINE a == ring.entries
           since == reader.since
           newer == {e \in Entries(a) : e.sequence > since}
           behind == O!Newer(since)
           given == O!LastOf(behind, n)
           got == reader.got
           left == {e.sequence : e \in O!ToSet(behind) \ O!ToSet(given)}
<1>1. /\ reader' = [since |-> ring.sequence, got |-> got \o given,
                    told |-> reader.told \/ O!Truncated(since)]
      /\ limited' = limited \union left /\ UNCHANGED <<ring, capture, written>>
  BY DEF O!Follow
<1>2. /\ a \in Seq(RingEntry) /\ Len(a) \in Nat /\ ring.sequence \in Nat /\ Len(a) <= ring.sequence
      /\ \A i \in 1..Len(a) : a[i].sequence = (ring.sequence - Len(a)) + i
  BY DEF BuffersInv, RingFits, Rings
<1>3. since \in Nat /\ got \in Seq(RingEntry) /\ since <= ring.sequence /\ Rising(got, since) /\ n \in Nat
  BY ReadsAssumption DEF BuffersInv, ReaderFits, Readers
<1>4. behind = Selected(a, newer)
  <2>1. O!ToSet(a) = Entries(a)
    BY <1>2, LenProperties DEF O!ToSet, Entries
  <2>2. O!Newer(since) = O!Selected(a, {e \in O!ToSet(a) : e.sequence > since})
    BY DEF O!Newer
  <2> QED
    BY <2>1, <2>2 DEF O!Selected, Selected
<1> HIDE DEF behind
<1>5. behind \in Seq(RingEntry)
  BY <1>2, <1>4, SelectedOrder
<1>6. PICK e : Order(e, a, behind, newer)
  BY <1>2, <1>4, SelectedOrder
<1>7. Len(behind) \in Nat /\ \A i \in 1..Len(behind) : behind[i].sequence > since /\ behind[i] \in Entries(a)
  BY <1>5, <1>6 DEF Order
<1>8. \A i, j \in 1..Len(behind) : i < j => behind[i].sequence < behind[j].sequence
  <2> SUFFICES ASSUME NEW i \in 1..Len(behind), NEW j \in 1..Len(behind), i < j
               PROVE  behind[i].sequence < behind[j].sequence
    OBVIOUS
  <2>1. e[i] \in 1..Len(a) /\ e[j] \in 1..Len(a) /\ e[i] < e[j] /\ behind[i] = a[e[i]] /\ behind[j] = a[e[j]]
    BY <1>6 DEF Order
  <2>2. a[e[i]].sequence = (ring.sequence - Len(a)) + e[i] /\ a[e[j]].sequence = (ring.sequence - Len(a)) + e[j]
    BY <1>2, <2>1
  <2> QED
    BY <1>2, <2>1, <2>2
<1>9. \A x \in newer : x \in Entries(behind)
  <2> SUFFICES ASSUME NEW x \in newer PROVE x \in Entries(behind)
    OBVIOUS
  <2>1. PICK i \in 1..Len(a) : a[i] = x
    BY DEF Entries
  <2>2. PICK j \in 1..Len(behind) : e[j] = i
    BY <1>6, <2>1 DEF Order
  <2>3. behind[j] = x
    BY <1>6, <2>1, <2>2 DEF Order
  <2> QED
    BY <2>3 DEF Entries
<1> DEFINE k == IF n > 0 /\ Len(behind) > n THEN Len(behind) - n ELSE 0
<1>10. k \in 0..Len(behind) /\ given = SubSeq(behind, k + 1, Len(behind))
  <2>1. CASE n > 0 /\ Len(behind) > n
    <3>1. k = Len(behind) - n
      BY <2>1
    <3>2. given = SubSeq(behind, (Len(behind) - n) + 1, Len(behind))
      BY <2>1 DEF O!LastOf, O!After
    <3> HIDE DEF k, given
    <3>3. k \in 0..Len(behind)
      BY <1>3, <1>7, <2>1, <3>1
    <3> QED
      BY <3>1, <3>2, <3>3
  <2>2. CASE ~(n > 0 /\ Len(behind) > n)
    <3>1. k = 0 /\ given = behind
      BY <2>2 DEF O!LastOf
    <3>2. SubSeq(behind, 1, Len(behind)) = behind
      BY <1>5, SubSeqFull
    <3>3. 0 + 1 = 1 /\ 0 \in 0..Len(behind)
      BY <1>7
    <3> HIDE DEF k, given
    <3> QED
      BY <3>1, <3>2, <3>3
  <2> QED
    BY <2>1, <2>2
<1> HIDE DEF k, given
<1>11. /\ given \in Seq(RingEntry) /\ Len(given) = Len(behind) - k /\ Len(given) \in Nat
       /\ \A i \in 1..Len(given) : given[i] = behind[k + i] /\ k + i \in 1..Len(behind)
  <2>1. given \in Seq(RingEntry) /\ Len(given) = Len(behind) - k
        /\ \A i \in 1..(Len(behind) - k) : given[i] = behind[k + i]
    BY <1>5, <1>10, AfterIs
  <2> QED
    BY <1>7, <1>10, <2>1
<1>12. \A i \in 1..Len(given) : given[i].sequence > since /\ given[i].sequence <= ring.sequence
                                  /\ given[i].sequence \in Nat
  <2> SUFFICES ASSUME NEW i \in 1..Len(given)
               PROVE  given[i].sequence > since /\ given[i].sequence <= ring.sequence /\ given[i].sequence \in Nat
    OBVIOUS
  <2>1. given[i].sequence > since /\ given[i] \in Entries(a)
    BY <1>7, <1>11
  <2>2. PICK j \in 1..Len(a) : given[i] = a[j]
    BY <2>1 DEF Entries
  <2>3. given[i].sequence = (ring.sequence - Len(a)) + j
    BY <1>2, <2>2
  <2> QED
    BY <1>2, <2>1, <2>3
<1>13. \A i, j \in 1..Len(given) : i < j => given[i].sequence < given[j].sequence
  <2> SUFFICES ASSUME NEW i \in 1..Len(given), NEW j \in 1..Len(given), i < j
               PROVE  given[i].sequence < given[j].sequence
    OBVIOUS
  <2>1. k + i \in 1..Len(behind) /\ k + j \in 1..Len(behind) /\ k + i < k + j
    BY <1>10, <1>11
  <2> QED
    BY <1>8, <1>11, <2>1
<1> DEFINE more == got \o given
<1>24. Joined(more, RingEntry, got, given)
  BY <1>3, <1>11, JoinIs
<1> HIDE DEF more, got
<1>14. /\ more \in Seq(RingEntry) /\ Len(more) = Len(got) + Len(given) /\ Len(got) \in Nat /\ Len(given) \in Nat
       /\ \A i \in 1..Len(got) : i \in 1..Len(more) /\ more[i] = got[i]
       /\ \A i \in 1..Len(given) : Len(got) + i \in 1..Len(more) /\ more[Len(got) + i] = given[i]
       /\ \A i \in 1..Len(more) : i \in 1..Len(got) \/ \E j \in 1..Len(given) : i = Len(got) + j
  BY Zenon, <1>24 DEF Joined
<1>15. Rising(more, ring.sequence)
  <2>1. \A i \in 1..Len(got) : got[i].sequence <= since /\ got[i].sequence \in Nat
    <3>1. \A i \in 1..Len(got) : got[i] \in RingEntry
      BY <1>3, ElementOfSeq
    <3>2. \A i \in 1..Len(got) : got[i].sequence <= since
      BY <1>3 DEF Rising
    <3> HIDE DEF since
    <3> QED
      BY <3>1, <3>2 DEF RingEntry
  <2> HIDE DEF since
  <2>2. \A i \in 1..Len(got) : got[i].sequence <= ring.sequence
    BY <1>2, <1>3, <2>1
  <2>3. ASSUME NEW i \in 1..Len(more) PROVE more[i].sequence <= ring.sequence
    BY <1>12, <1>14, <2>2
  <2>4. ASSUME NEW i \in 1..Len(more), NEW j \in 1..Len(more), i < j
        PROVE  more[i].sequence < more[j].sequence
    <3>1. CASE j \in 1..Len(got)
      <4>1. i \in 1..Len(got)
        BY <1>14, <2>4, <3>1
      <4>2. more[i] = got[i] /\ more[j] = got[j]
        BY <1>14, <3>1, <4>1
      <4>3. got[i].sequence < got[j].sequence
        BY <1>3, <2>4, <3>1, <4>1 DEF Rising
      <4> QED
        BY <4>2, <4>3
    <3>2. CASE i \in 1..Len(got) /\ j \notin 1..Len(got)
      <4>1. PICK h \in 1..Len(given) : j = Len(got) + h
        BY <1>14, <3>2
      <4>2. more[i] = got[i] /\ more[j] = given[h]
        BY <1>14, <3>2, <4>1
      <4>3. got[i].sequence <= since /\ got[i].sequence \in Nat /\ given[h].sequence > since /\ given[h].sequence \in Nat
        BY <1>12, <2>1, <3>2
      <4> QED
        BY <1>3, <4>2, <4>3
    <3>3. CASE i \notin 1..Len(got) /\ j \notin 1..Len(got)
      <4>1. PICK g \in 1..Len(given) : i = Len(got) + g
        BY <1>14, <3>3
      <4>2. PICK h \in 1..Len(given) : j = Len(got) + h
        BY <1>14, <3>3
      <4>3. g < h
        BY <1>14, <2>4, <4>1, <4>2
      <4>4. more[i] = given[g] /\ more[j] = given[h]
        BY <1>14, <4>1, <4>2
      <4> QED
        BY <1>13, <4>3, <4>4
    <3>4. CASE i \notin 1..Len(got) /\ j \in 1..Len(got)
      BY <1>14, <2>4, <3>4
    <3> QED
      BY <3>1, <3>2, <3>3, <3>4
  <2> QED
    BY <2>3, <2>4 DEF Rising
<1>16. Entries(more) = Entries(got) \union Entries(given)
  <2>1. ASSUME NEW x \in Entries(more) PROVE x \in Entries(got) \union Entries(given)
    <3>1. PICK i \in 1..Len(more) : x = more[i]
      BY DEF Entries
    <3>2. CASE i \in 1..Len(got)
      BY <1>14, <3>1, <3>2 DEF Entries
    <3>3. CASE \E j \in 1..Len(given) : i = Len(got) + j
      <4>1. PICK j \in 1..Len(given) : i = Len(got) + j
        BY <3>3
      <4>2. x = given[j]
        BY <1>14, <3>1, <4>1
      <4> QED
        BY <4>2 DEF Entries
    <3> QED
      BY <1>14, <3>2, <3>3
  <2>2. ASSUME NEW x \in Entries(got) \union Entries(given) PROVE x \in Entries(more)
    <3>1. CASE x \in Entries(got)
      <4>1. PICK i \in 1..Len(got) : x = got[i]
        BY <3>1 DEF Entries
      <4>2. i \in 1..Len(more) /\ x = more[i]
        BY <1>14, <4>1
      <4> QED
        BY <4>2 DEF Entries
    <3>2. CASE x \in Entries(given)
      <4>1. PICK i \in 1..Len(given) : x = given[i]
        BY <3>2 DEF Entries
      <4>2. Len(got) + i \in 1..Len(more) /\ x = more[Len(got) + i]
        BY <1>14, <4>1
      <4> QED
        BY <4>2 DEF Entries
    <3> QED
      BY <3>1, <3>2
  <2> QED
    BY <2>1, <2>2
<1>17. O!ToSet(behind) = Entries(behind) /\ O!ToSet(given) = Entries(given)
  BY <1>5, <1>11, LenProperties DEF O!ToSet, Entries
<1>18. Entries(given) \subseteq Entries(behind)
  BY <1>11 DEF Entries
<1> HIDE DEF left
<1>19. left = {x.sequence : x \in Entries(behind) \ Entries(given)}
  BY <1>17 DEF left
<1>20. ASSUME ~reader.told, ~O!Truncated(since) PROVE Complete(more, ring.sequence, limited \union left)
  <2>1. ~ring.evicted
    BY <1>20 DEF O!Truncated
  <2>2. Len(a) = ring.sequence /\ \A i \in 1..Len(a) : a[i].whole /\ a[i].sequence = i
    BY <1>2, <2>1 DEF BuffersInv, RingFits
  <2>3. Complete(got, since, limited)
    BY <1>20 DEF BuffersInv, ReaderFits, got
  <2>4. \A x \in Entries(behind) : x.whole /\ x.sequence \in (since + 1)..ring.sequence
    <3> SUFFICES ASSUME NEW i \in 1..Len(behind)
                 PROVE  behind[i].whole /\ behind[i].sequence \in (since + 1)..ring.sequence
      BY DEF Entries
    <3>1. PICK j \in 1..Len(a) : behind[i] = a[j]
      BY <1>7 DEF Entries
    <3>2. behind[i].sequence = j /\ behind[i].whole /\ j > since
      BY <1>7, <2>2, <3>1
    <3> QED
      BY <1>2, <1>3, <2>2, <3>2
  <2>5. \A m \in (since + 1)..ring.sequence : \E x \in Entries(behind) : x.sequence = m
    <3> SUFFICES ASSUME NEW m \in (since + 1)..ring.sequence PROVE \E x \in Entries(behind) : x.sequence = m
      OBVIOUS
    <3>1. m \in 1..Len(a) /\ m > since
      BY <1>2, <1>3, <2>2
    <3>2. a[m] \in newer /\ a[m].sequence = m
      BY <2>2, <3>1 DEF Entries
    <3> QED
      BY <1>9, <3>2
  <2>6. 1..ring.sequence = 1..since \union (since + 1)..ring.sequence
    BY <1>2, <1>3
  <2>7. {x.sequence : x \in Entries(behind)} = (since + 1)..ring.sequence
    BY <2>4, <2>5
  <2>8. left \union {x.sequence : x \in Entries(given)} = (since + 1)..ring.sequence
    BY <1>18, <1>19, <2>7
  <2>9. {x.sequence : x \in Entries(more)} = {x.sequence : x \in Entries(got)} \union {x.sequence : x \in Entries(given)}
    BY <1>16
  <2>10. 1..ring.sequence = (limited \union left) \union {x.sequence : x \in Entries(more)}
    BY <2>3, <2>6, <2>8, <2>9 DEF Complete
  <2>11. \A x \in Entries(more) : x.whole
    BY <1>16, <1>18, <2>3, <2>4 DEF Complete
  <2> QED
    BY <2>10, <2>11 DEF Complete
<1>21. ReaderFits'
  <2>1. (reader.told \/ O!Truncated(since)) \in BOOLEAN
    BY Zenon
  <2>2. reader' = [since |-> ring.sequence, got |-> more, told |-> reader.told \/ O!Truncated(since)]
    BY <1>1 DEF more
  <2>3. reader' \in Readers
    BY <1>2, <1>14, <2>1, <2>2 DEF Readers
  <2>4. reader'.since = ring.sequence /\ reader'.got = more /\ ring' = ring
    BY <1>1, <2>2
  <2>5. reader'.told \/ (~reader.told /\ ~O!Truncated(since))
    <3>1. reader'.told = (reader.told \/ O!Truncated(since))
      BY <2>2
    <3> QED
      BY Zenon, <3>1
  <2>6. ring.sequence <= ring.sequence
    BY <1>2
  <2>7. limited' = limited \union left
    BY <1>1 DEF left
  <2> QED
    BY <1>15, <1>20, <2>3, <2>4, <2>5, <2>6, <2>7 DEF ReaderFits
<1>22. RingFits(ring') /\ CapturesFit'
  BY <1>1 DEF BuffersInv, CapturesFit
<1> QED
  BY <1>21, <1>22 DEF BuffersInv

LEMMA BuffersNextInv == BuffersInv /\ O!BuffersNext => BuffersInv'
<1> SUFFICES ASSUME BuffersInv, O!BuffersNext PROVE BuffersInv'
  OBVIOUS
<1>1. ASSUME NEW s \in Outputs, NEW p \in BufferPieces, O!Write(s, <<p>>) PROVE BuffersInv'
  <2>1. <<p>> \in Seq(BufferPieces)
    OBVIOUS
  <2> QED
    BY <1>1, <2>1, BufferWriteInv
<1>2. ASSUME NEW s \in Outputs, NEW p \in BufferPieces, NEW q \in BufferPieces, O!Write(s, <<p, q>>) PROVE BuffersInv'
  <2>1. <<p, q>> \in Seq(BufferPieces)
    OBVIOUS
  <2> QED
    BY <1>2, <2>1, BufferWriteInv
<1>3. ASSUME NEW n \in TailLines, O!Follow(n) PROVE BuffersInv'
  BY <1>3, FollowInv
<1>4. \/ \E s \in Outputs, p \in BufferPieces : O!Write(s, <<p>>)
      \/ \E s \in Outputs, p, q \in BufferPieces : O!Write(s, <<p, q>>)
      \/ \E n \in TailLines : O!Follow(n)
  BY Zenon DEF O!BuffersNext, Outputs, BufferPieces
<1> QED
  BY <1>1, <1>2, <1>3, <1>4

LEMMA BuffersInvGives == BuffersInv => O!BuffersSound
<1> SUFFICES ASSUME BuffersInv PROVE O!BuffersSound
  OBVIOUS
<1>1. O!RingBounded
  BY DEF BuffersInv, RingFits, O!RingBounded
<1>2. O!FollowedOrTold
  <2> DEFINE got == reader.got
  <2>1. got \in Seq(RingEntry) /\ Rising(got, reader.since) /\ (reader.told \/ Complete(got, reader.since, limited))
    BY DEF BuffersInv, ReaderFits, Readers
  <2>2. DOMAIN got = 1..Len(got) /\ O!ToSet(got) = Entries(got)
    BY <2>1, LenProperties DEF O!ToSet, Entries
  <2> QED
    BY <2>1, <2>2 DEF O!FollowedOrTold, Rising, Complete
<1>3. O!SnapshotTold
  <2> SUFFICES ASSUME NEW included \in SUBSET Outputs,
                      \A s \in Outputs : ~capture[s].truncated
               PROVE  \A s \in included : capture[s].bytes = written[s]
    BY DEF O!SnapshotTold, O!Snapshot, Outputs
  <2> QED
    BY DEF BuffersInv, CapturesFit
<1> QED
  BY <1>1, <1>2, <1>3 DEF O!BuffersSound

-----------------------------------------------------------------------------
(* ContextEngine: the ledger of what clients have, and the pages of a chain.*)
ContextPaths == {code, metadata}
ContextTexts == {short, long}
SizeOf == [x \in {short, long} |-> IF x = short THEN 1 ELSE 2]
LedgerEntry == [path : ContextPaths, print : ContextTexts, bytes : Nat, kept : BOOLEAN]

(* The entry that a fingerprint names is the present one of its path, and  *)
(* no entry of that path says anything else.                               *)
Named(known, l) ==
    /\ \A x \in DOMAIN known : \E i \in 1..Len(l) : l[i].path = known[x]
    /\ \A x \in DOMAIN known, i \in 1..Len(l) : l[i].path = known[x] => l[i].print = x /\ l[i].kept
LedgerInv ==
    /\ ledger \in Seq(LedgerEntry) /\ Len(ledger) <= MaxEntries
    /\ storedBytes = C!Sum(ledger) /\ C!Sum(ledger) <= MaxStoredBytes
    /\ Named(prints, ledger)

LEMMA NothingStored == C!Sum(<< >>) = 0
<1>1. [i \in 1..Len(<< >>) |-> IF << >>[i].kept THEN << >>[i].bytes ELSE 0] = << >>
  OBVIOUS
<1>2. C!Sum(<< >>) = C!Total(<< >>)
  BY <1>1 DEF C!Sum
<1>3. C!Total(<< >>) = Total(<< >>)
  BY Zenon DEF C!Total, Total
<1> QED
  BY <1>2, <1>3, TotalOne

LEMMA RememberInv ==
  ASSUME LedgerInv, NEW p \in ContextPaths, NEW c \in ContextTexts, C!Remember(p, c)
  PROVE  LedgerInv'
<1> DEFINE others == C!Selected(ledger, {e \in C!Range(ledger) : e.path # p})
           new == [path |-> p, print |-> c, bytes |-> SizeOf[c], kept |-> SizeOf[c] <= MaxStoredBytes]
           added == Append(others, new)
           Fits(m) == Len(added) - m <= MaxEntries /\ C!Sum(SubSeq(added, m + 1, Len(added))) <= MaxStoredBytes
           n == CHOOSE k \in 0..Len(added) : Fits(k) /\ \A j \in 0..(k - 1) : ~Fits(j)
           kept == SubSeq(added, n + 1, Len(added))
           free == C!Restrict(prints, {x \in DOMAIN prints : prints[x] # p})
           known == IF SizeOf[c] > MaxStoredBytes \/ c \in DOMAIN free THEN free
                    ELSE [x \in DOMAIN free \union {c} |-> IF x = c THEN p ELSE free[x]]
           named == {x \in DOMAIN known : \E i \in DOMAIN kept : kept[i].path = known[x]}
<1>1. /\ ledger' = kept /\ storedBytes' = C!Sum(kept) /\ prints' = C!Restrict(known, named)
  BY Zenon DEF C!Remember, SizeOf
<1>2. SizeOf[c] \in Nat
  BY DEF SizeOf, ContextTexts
<1>3. ledger \in Seq(LedgerEntry) /\ Named(prints, ledger)
  BY DEF LedgerInv
<1>4. new \in LedgerEntry /\ new.path = p /\ new.print = c /\ (SizeOf[c] <= MaxStoredBytes => new.kept)
  <2>1. (SizeOf[c] <= MaxStoredBytes) \in BOOLEAN
    BY SMT, <1>2, ReadsAssumption
  <2>2. new \in LedgerEntry
    BY <1>2, <2>1 DEF LedgerEntry
  <2> QED
    BY <2>2
<1> HIDE DEF new
<1>5. others \in Seq(LedgerEntry) /\ \A i \in 1..Len(others) : others[i].path # p /\ \E m \in 1..Len(ledger) : others[i] = ledger[m]
  <2> DEFINE those == {e \in C!Range(ledger) : e.path # p}
  <2>1. others = Selected(ledger, those)
    BY Zenon DEF C!Selected, Selected
  <2> HIDE DEF those, others
  <2>2. others \in Seq(LedgerEntry)
    BY <1>3, <2>1, SelectedOrder
  <2>3. PICK f : Order(f, ledger, others, those)
    BY <1>3, <2>1, SelectedOrder
  <2>4. ASSUME NEW i \in 1..Len(others) PROVE f[i] \in 1..Len(ledger) /\ others[i] = ledger[f[i]] /\ ledger[f[i]] \in those
    BY <2>3 DEF Order
  <2>5. ASSUME NEW i \in 1..Len(others) PROVE others[i].path # p
    BY <2>4 DEF those
  <2> QED
    BY <2>2, <2>4, <2>5
<1> HIDE DEF others
<1>6. /\ added \in Seq(LedgerEntry) /\ Len(added) \in Nat
      /\ \A i \in 1..Len(added) : added[i] = new \/ (added[i].path # p /\ \E m \in 1..Len(ledger) : added[i] = ledger[m])
  <2>1. /\ added \in Seq(LedgerEntry) /\ Len(added) = Len(others) + 1 /\ Len(others) \in Nat
        /\ \A i \in 1..Len(others) : added[i] = others[i]
        /\ added[Len(others) + 1] = new
    BY <1>4, <1>5, AppendProperties, LenProperties
  <2> HIDE DEF added
  <2>2. \A i \in 1..Len(added) : i \in 1..Len(others) \/ i = Len(others) + 1
    BY <2>1
  <2> QED
    BY <1>5, <2>1, <2>2
<1> HIDE DEF added
<1>7. n \in 0..Len(added) /\ Fits(n)
  <2> DEFINE Good == {k \in 0..Len(added) : Fits(k)}
  <2>1. Fits(Len(added))
    <3>1. SubSeq(added, Len(added) + 1, Len(added)) = << >>
      <4>1. Len(added) \in 0..Len(added)
        BY <1>6
      <4>2. SubSeq(added, Len(added) + 1, Len(added)) \in Seq(LedgerEntry)
            /\ Len(SubSeq(added, Len(added) + 1, Len(added))) = Len(added) - Len(added)
        BY <1>6, <4>1, AfterIs
      <4>3. Len(added) - Len(added) = 0
        BY <1>6
      <4> QED
        BY <4>2, <4>3, EmptySeq
    <3>2. Len(added) - Len(added) <= MaxEntries
      BY <1>6, ReadsAssumption
    <3>3. C!Sum(SubSeq(added, Len(added) + 1, Len(added))) = 0
      BY Zenon, <3>1, NothingStored
    <3>4. 0 <= MaxStoredBytes
      BY ReadsAssumption
    <3> QED
      BY <3>2, <3>3, <3>4
  <2>2. Len(added) \in Good
    BY <1>6, <2>1
  <2> DEFINE Right(k) == Fits(k) /\ \A j \in 0..(k - 1) : ~Fits(j)
  <2>3. \E k \in 0..Len(added) : Right(k)
    <3> HIDE DEF Good
    <3>1. PICK k \in 0..Len(added) : k \in Good /\ \A j \in 0..(k - 1) : j \notin Good
      BY <1>6, <2>2, FirstOf
    <3>2. \A j \in 0..(k - 1) : j \in 0..Len(added)
      BY <1>6
    <3>3. Fits(k)
      BY <3>1 DEF Good
    <3>4. \A j \in 0..(k - 1) : ~Fits(j)
      BY <3>1, <3>2 DEF Good
    <3> QED
      BY <3>3, <3>4
  <2>4. n = CHOOSE k \in 0..Len(added) : Right(k)
    OBVIOUS
  <2> HIDE DEF Right, n
  <2>5. n \in 0..Len(added) /\ Right(n)
    BY <2>3, <2>4
  <2> QED
    BY <2>5 DEF Right
<1> HIDE DEF n
<1>8. /\ kept \in Seq(LedgerEntry) /\ Len(kept) = Len(added) - n /\ Len(kept) \in Nat
      /\ \A i \in 1..Len(kept) : kept[i] = new \/ (kept[i].path # p /\ \E m \in 1..Len(ledger) : kept[i] = ledger[m])
  <2>1. /\ kept \in Seq(LedgerEntry) /\ Len(kept) = Len(added) - n
        /\ \A i \in 1..(Len(added) - n) : kept[i] = added[n + i]
    BY <1>6, <1>7, AfterIs
  <2> HIDE DEF kept
  <2>2. \A i \in 1..(Len(added) - n) : n + i \in 1..Len(added)
    BY <1>6, <1>7
  <2>3. Len(added) - n \in Nat
    BY <1>6, <1>7
  <2> QED
    BY <1>6, <2>1, <2>2, <2>3
<1>9. Len(kept) <= MaxEntries /\ C!Sum(kept) <= MaxStoredBytes
  BY <1>7, <1>8
<1> HIDE DEF kept
<1>10. DOMAIN kept = 1..Len(kept)
  BY <1>8
<1>11. DOMAIN free = {x \in DOMAIN prints : prints[x] # p} /\ \A x \in DOMAIN free : free[x] = prints[x]
  BY DEF C!Restrict
<1>12. \A x \in DOMAIN free : x \in DOMAIN prints /\ free[x] = prints[x] /\ prints[x] # p
  BY <1>11
<1> HIDE DEF free
<1>13. \A x \in DOMAIN known : \/ x \in DOMAIN prints /\ known[x] = prints[x] /\ prints[x] # p
                               \/ x = c /\ known[x] = p /\ SizeOf[c] <= MaxStoredBytes
  <2>1. CASE SizeOf[c] > MaxStoredBytes \/ c \in DOMAIN free
    <3>1. known = free
      BY <2>1
    <3> HIDE DEF known
    <3> QED
      BY <1>12, <3>1
  <2>2. CASE ~(SizeOf[c] > MaxStoredBytes \/ c \in DOMAIN free)
    <3>1. SizeOf[c] <= MaxStoredBytes
      BY <1>2, <2>2, ReadsAssumption
    <3>2. known = [x \in DOMAIN free \union {c} |-> IF x = c THEN p ELSE free[x]]
      BY <2>2
    <3> HIDE DEF known
    <3>3. DOMAIN known = DOMAIN free \union {c}
      BY <3>2
    <3>4. \A x \in DOMAIN known : known[x] = IF x = c THEN p ELSE free[x]
      BY <3>2
    <3>5. \A x \in DOMAIN free : x # c => known[x] = free[x]
      BY <3>3, <3>4
    <3> QED
      BY <1>12, <3>1, <3>3, <3>4, <3>5
  <2> QED
    BY <2>1, <2>2
<1> HIDE DEF known
<1>14. DOMAIN prints' = named /\ \A x \in named : prints'[x] = known[x]
  BY <1>1 DEF C!Restrict
<1>15. \A x \in named : x \in DOMAIN known /\ \E i \in 1..Len(kept) : kept[i].path = known[x]
  BY <1>10
<1> HIDE DEF named
<1>16. ASSUME NEW x \in DOMAIN prints' PROVE \E i \in 1..Len(kept) : kept[i].path = prints'[x]
  BY <1>14, <1>15
<1>17. ASSUME NEW x \in DOMAIN prints', NEW i \in 1..Len(kept), kept[i].path = prints'[x]
       PROVE  kept[i].print = x /\ kept[i].kept
  <2>1. x \in DOMAIN known /\ prints'[x] = known[x]
    BY <1>14, <1>15
  <2>2. CASE kept[i] = new
    <3>1. x = c /\ SizeOf[c] <= MaxStoredBytes
      BY <1>4, <1>13, <1>17, <2>1, <2>2
    <3> QED
      BY <1>4, <2>2, <3>1
  <2>3. CASE kept[i].path # p /\ \E m \in 1..Len(ledger) : kept[i] = ledger[m]
    <3>1. x \in DOMAIN prints /\ known[x] = prints[x]
      BY <1>13, <1>17, <2>1, <2>3
    <3>2. PICK m \in 1..Len(ledger) : kept[i] = ledger[m]
      BY <2>3
    <3> QED
      BY <1>3, <1>17, <2>1, <3>1, <3>2 DEF Named
  <2> QED
    BY <1>8, <2>2, <2>3
<1>18. Named(prints', kept)
  BY <1>16, <1>17 DEF Named
<1> QED
  BY <1>1, <1>8, <1>9, <1>18 DEF LedgerInv

Deliveries == {"metadata", "unchanged", "reference", "diff", "content"}
Readings == {<< >>, <<"error">>} \union (ContextTexts \X Deliveries)
PathLists == Seq(ContextPaths)
PageRecords == [at : {"idle", "reading", "paused"}, kind : {"none", "context", "scan"}, explicit : BOOLEAN,
                changed : SUBSET ContextPaths, selected : PathLists, got : Seq(Readings),
                rest : PathLists, given : PathLists, all : PathLists]

(* What is being read is the beginning of what is left; what is given and  *)
(* what is left are all.                                                   *)
Begins(a, b) == Len(a) <= Len(b) /\ \A i \in 1..Len(a) : a[i] = b[i]
Tiled(c) ==
    /\ c \in PageRecords /\ c.given \o c.rest = c.all /\ Begins(c.selected, c.rest)
    /\ c.at # "reading" => c.selected = << >>
TiledPages == {c \in PageRecords : Tiled(c)}
ContextInv ==
    /\ LedgerInv
    /\ content \in [ContextPaths -> ContextTexts \union {C!Missing}]
    /\ chain \in [Clients -> TiledPages]

LEMMA SmallerIs ==
  ASSUME NEW V, NEW b \in Seq(V), NEW size \in Nat
  PROVE  (IF size < Len(b) THEN size ELSE Len(b)) \in 0..Len(b)
<1>1. Len(b) \in Nat
  OBVIOUS
<1> QED
  BY <1>1

LEMMA EmptyPage == C!Quiet \in TiledPages /\ << >> \in PathLists
<1>1. << >> \in PathLists /\ << >> \in Seq(Readings) /\ Len(<< >>) = 0 /\ << >> \o << >> = << >>
  BY DEF PathLists
<1>2. Begins(<< >>, << >>)
  BY <1>1 DEF Begins
<1>3. C!Quiet \in PageRecords
  BY <1>1 DEF C!Quiet, PageRecords
<1>4. C!Quiet.given = << >> /\ C!Quiet.rest = << >> /\ C!Quiet.all = << >> /\ C!Quiet.selected = << >>
  BY DEF C!Quiet
<1> QED
  BY <1>1, <1>2, <1>3, <1>4 DEF Tiled, TiledPages

LEMMA ContextInitInv == C!ContextInit => ContextInv
<1> SUFFICES ASSUME C!ContextInit PROVE ContextInv
  OBVIOUS
<1>1. /\ content \in [ContextPaths -> ContextTexts] /\ ledger = << >> /\ prints = << >> /\ storedBytes = 0
      /\ chain = [r \in Clients |-> C!Quiet]
  BY DEF C!ContextInit, ContextPaths, ContextTexts
<1>2. Len(<< >>) = 0 /\ << >> \in Seq(LedgerEntry) /\ DOMAIN << >> = {}
  BY EmptySeq
<1>3. Named(prints, ledger)
  BY <1>1, <1>2 DEF Named
<1>4. LedgerInv
  BY <1>1, <1>2, <1>3, NothingStored, ReadsAssumption DEF LedgerInv
<1> QED
  BY <1>1, <1>4, EmptyPage DEF ContextInv

LEMMA SelectInv ==
  ASSUME chain \in [Clients -> TiledPages], NEW r \in Clients, NEW size \in Nat,
         NEW rest \in PathLists, NEW leaf \in PageRecords, leaf.given \o rest = leaf.all,
         C!Select(r, rest, size, leaf)
  PROVE  chain' \in [Clients -> TiledPages]
<1> DEFINE n == IF size < Len(rest) THEN size ELSE Len(rest)
           nothing == [i \in 1..n |-> << >>]
           next == [leaf EXCEPT !.at = "reading", !.selected = SubSeq(rest, 1, n), !.got = nothing, !.rest = rest]
<1>1. chain' = [chain EXCEPT ![r] = next]
  BY DEF C!Select
<1>2. n \in 0..Len(rest) /\ n \in Nat
  <2>1. n \in 0..Len(rest)
    BY SmallerIs DEF PathLists
  <2> QED
    BY <2>1 DEF PathLists
<1> HIDE DEF n
<1>3. /\ SubSeq(rest, 1, n) \in PathLists /\ Len(SubSeq(rest, 1, n)) = n
      /\ \A i \in 1..n : SubSeq(rest, 1, n)[i] = rest[i]
  BY <1>2, AfterIs DEF PathLists
<1>4. nothing \in Seq(Readings)
  BY <1>2 DEF Readings
<1> HIDE DEF nothing
<1>5. next \in PageRecords
  BY <1>3, <1>4 DEF PageRecords
<1>6. next.at = "reading" /\ next.given = leaf.given /\ next.rest = rest /\ next.all = leaf.all /\ next.selected = SubSeq(rest, 1, n)
  BY DEF PageRecords
<1> HIDE DEF next
<1>7. Begins(next.selected, next.rest)
  BY <1>2, <1>3, <1>6 DEF Begins
<1>8. next \in TiledPages
  BY <1>5, <1>6, <1>7 DEF TiledPages, Tiled
<1> QED
  BY <1>1, <1>8

LEMMA OrdersAre ==
  ASSUME NEW Whole \in SUBSET ContextPaths, NEW s \in C!Orders(Whole)
  PROVE  s \in PathLists
<1>1. IsFiniteSet(ContextPaths)
  <2>1. ContextPaths = {code} \union {metadata}
    BY DEF ContextPaths
  <2> QED
    BY <2>1, FS_Singleton, FS_Union
<1>2. IsFiniteSet(Whole)
  BY <1>1, FS_Subset
<1>3. Cardinality(Whole) \in Nat
  BY <1>2, FS_CardinalityType
<1>4. C!Cardinality(Whole) = Cardinality(Whole)
  BY Zenon DEF C!Cardinality, Cardinality
<1>5. s \in [1..C!Cardinality(Whole) -> Whole]
  BY DEF C!Orders, C!Bijection, C!Injection
<1> QED
  BY <1>3, <1>4, <1>5 DEF PathLists

LEMMA CollectInv ==
  ASSUME ContextInv, NEW r \in Clients, NEW size \in Nat, NEW hits \in [ContextPaths -> C!Finds],
         NEW explicit \in BOOLEAN, C!Collect(r, hits, explicit, size)
  PROVE  ContextInv'
<1>1. PICK all \in C!Rankings(hits, explicit) :
         C!Select(r, all, size, [C!Quiet EXCEPT !.kind = "context", !.explicit = explicit, !.all = all,
                                    !.changed = {p \in ContextPaths : hits[p].changed}])
  BY DEF C!Collect, ContextPaths
<1>2. UNCHANGED <<content, ledger, prints, storedBytes>>
  BY DEF C!Collect
<1>3. all \in PathLists
  <2>1. DOMAIN hits = ContextPaths
    OBVIOUS
  <2> DEFINE Whole == {p \in DOMAIN hits : explicit \/ hits[p].changed \/ C!Discoverable(p)}
  <2>2. Whole \in SUBSET ContextPaths
    BY <2>1
  <2>3. all \in C!Orders(Whole)
    BY DEF C!Rankings
  <2> HIDE DEF Whole
  <2> QED
    BY <2>2, <2>3, OrdersAre
<1> DEFINE changed == {p \in ContextPaths : hits[p].changed}
           leaf == [C!Quiet EXCEPT !.kind = "context", !.explicit = explicit, !.all = all, !.changed = changed]
<1>4. changed \in SUBSET ContextPaths
  OBVIOUS
<1>5. C!Select(r, all, size, leaf)
  BY <1>1
<1> HIDE DEF changed
<1>6. C!Quiet \in PageRecords /\ C!Quiet.given = << >>
  BY EmptyPage DEF TiledPages, C!Quiet
<1>7. "context" \in {"none", "context", "scan"}
  OBVIOUS
<1> DEFINE q == C!Quiet
<1>11. q \in PageRecords /\ q.given = << >> /\ leaf = [q EXCEPT !.kind = "context", !.explicit = explicit, !.all = all, !.changed = changed]
  BY <1>6
<1> HIDE DEF q, leaf
<1>8. leaf \in PageRecords /\ leaf.given = << >> /\ leaf.all = all
  BY <1>3, <1>4, <1>7, <1>11 DEF PageRecords
<1> HIDE DEF leaf
<1>9. leaf.given \o all = leaf.all
  BY <1>3, <1>8, ConcatEmptySeq DEF PathLists
<1>10. chain' \in [Clients -> TiledPages]
  BY <1>3, <1>5, <1>8, <1>9, SelectInv DEF ContextInv
<1> QED
  BY <1>2, <1>10 DEF ContextInv, LedgerInv

LEMMA ContinueInv ==
  ASSUME ContextInv, NEW r \in Clients, NEW size \in Nat, C!Continue(r, size)
  PROVE  ContextInv'
<1> DEFINE leaf == chain[r]
           rest == chain[r].rest
<1>1. C!Select(r, rest, size, leaf) /\ UNCHANGED <<content, ledger, prints, storedBytes>>
  BY DEF C!Continue
<1>2. leaf \in PageRecords /\ leaf.given \o rest = leaf.all
  BY DEF ContextInv, TiledPages, Tiled
<1>3. rest \in PathLists
  BY <1>2 DEF PageRecords
<1> HIDE DEF leaf, rest
<1>4. chain' \in [Clients -> TiledPages]
  BY <1>1, <1>2, <1>3, SelectInv DEF ContextInv
<1> QED
  BY <1>1, <1>4 DEF ContextInv, LedgerInv

LEMMA GotInv ==
  ASSUME chain \in [Clients -> TiledPages], NEW r \in Clients, NEW i, NEW v \in Readings, C!Got(r, i, v)
  PROVE  chain' \in [Clients -> TiledPages]
<1> DEFINE leaf == chain[r]
           next == [leaf EXCEPT !.got = [leaf.got EXCEPT ![i] = v]]
<1>1. chain' = [chain EXCEPT ![r] = next]
  BY DEF C!Got
<1>2. leaf \in PageRecords /\ Tiled(leaf)
  BY DEF TiledPages
<1> HIDE DEF leaf
<1>3. [leaf.got EXCEPT ![i] = v] \in Seq(Readings)
  <2>1. leaf.got \in Seq(Readings)
    BY <1>2 DEF PageRecords
  <2>2. Len(leaf.got) \in Nat /\ leaf.got \in [1..Len(leaf.got) -> Readings]
    BY <2>1
  <2>3. [leaf.got EXCEPT ![i] = v] \in [1..Len(leaf.got) -> Readings]
    BY <2>2
  <2> QED
    BY <2>2, <2>3
<1>4. next \in PageRecords
  BY <1>2, <1>3 DEF PageRecords
<1>5. next.at = leaf.at /\ next.given = leaf.given /\ next.rest = leaf.rest /\ next.all = leaf.all /\ next.selected = leaf.selected
  BY <1>2 DEF PageRecords
<1>6. next \in TiledPages
  BY <1>2, <1>4, <1>5 DEF TiledPages, Tiled
<1> HIDE DEF next
<1> QED
  BY <1>1, <1>6

LEMMA ReadCandidateInv ==
  ASSUME ContextInv, NEW r \in Clients, NEW i \in Nat, C!ReadCandidate(r, i)
  PROVE  ContextInv'
<1> DEFINE p == chain[r].selected[i]
           c == content[p]
<1>1. /\ i \in DOMAIN chain[r].selected /\ UNCHANGED <<content, asked>>
      /\ \/ /\ c # C!Missing
            /\ C!Got(r, i, <<c, C!Delivery(p, c, chain[r].explicit \/ p \in chain[r].changed)>>)
            /\ C!Remember(p, c)
         \/ /\ c = C!Missing /\ C!Got(r, i, <<"error">>) /\ UNCHANGED <<ledger, prints, storedBytes>>
  BY DEF C!ReadCandidate
<1>2. p \in ContextPaths
  <2>1. chain[r] \in PageRecords
    BY DEF ContextInv, TiledPages
  <2>2. chain[r].selected \in Seq(ContextPaths)
    BY <2>1 DEF PageRecords, PathLists
  <2> QED
    BY <1>1, <2>2
<1> HIDE DEF p
<1>3. c \in ContextTexts \union {C!Missing}
  BY <1>2 DEF ContextInv
<1> HIDE DEF c
<1>4. CASE c = C!Missing
  <2>1. <<"error">> \in Readings
    BY DEF Readings
  <2>2. C!Got(r, i, <<"error">>) /\ UNCHANGED <<ledger, prints, storedBytes>>
    BY <1>1, <1>4
  <2>3. chain' \in [Clients -> TiledPages]
    BY <2>1, <2>2, GotInv DEF ContextInv
  <2> QED
    BY <1>1, <2>2, <2>3 DEF ContextInv, LedgerInv
<1>5. CASE c # C!Missing
  <2> DEFINE d == C!Delivery(p, c, chain[r].explicit \/ p \in chain[r].changed)
  <2>1. d \in Deliveries
    BY DEF C!Delivery, Deliveries
  <2>2. C!Got(r, i, <<c, d>>) /\ C!Remember(p, c)
    BY <1>1, <1>5
  <2> HIDE DEF d
  <2>3. <<c, d>> \in Readings /\ c \in ContextTexts
    BY <1>3, <1>5, <2>1 DEF Readings
  <2>4. chain' \in [Clients -> TiledPages]
    BY <2>2, <2>3, GotInv DEF ContextInv
  <2>5. LedgerInv'
    BY <1>2, <2>2, <2>3, RememberInv DEF ContextInv
  <2> QED
    BY <1>1, <2>4, <2>5 DEF ContextInv
<1> QED
  BY <1>4, <1>5

LEMMA AnswerInv ==
  ASSUME ContextInv, NEW r \in Clients, NEW keep \in Nat, C!Answer(r, keep)
  PROVE  ContextInv'
<1> DEFINE leaf == chain[r]
           rest == SubSeq(leaf.rest, keep + 1, Len(leaf.rest))
           given == leaf.given \o SubSeq(leaf.selected, 1, keep)
           at == IF rest = << >> THEN "idle" ELSE "paused"
           next == [leaf EXCEPT !.at = at, !.rest = rest, !.given = given, !.selected = << >>, !.got = << >>]
<1>1. /\ keep <= Len(leaf.selected) /\ chain' = [chain EXCEPT ![r] = next]
      /\ UNCHANGED <<content, ledger, prints, storedBytes>>
  BY DEF C!Answer
<1>2. leaf \in PageRecords /\ leaf.given \o leaf.rest = leaf.all /\ Begins(leaf.selected, leaf.rest)
  BY DEF ContextInv, TiledPages, Tiled
<1> HIDE DEF leaf
<1>3. leaf.given \in Seq(ContextPaths) /\ leaf.rest \in Seq(ContextPaths) /\ leaf.selected \in Seq(ContextPaths)
  BY <1>2 DEF PageRecords, PathLists
<1>4. /\ keep \in 0..Len(leaf.rest) /\ keep \in 0..Len(leaf.selected)
      /\ \A i \in 1..keep : i \in 1..Len(leaf.selected) /\ leaf.selected[i] = leaf.rest[i]
  BY <1>1, <1>2, <1>3 DEF Begins
<1>5. SubSeq(leaf.selected, 1, keep) = SubSeq(leaf.rest, 1, keep)
  <2> DEFINE s == SubSeq(leaf.selected, 1, keep)
             t == SubSeq(leaf.rest, 1, keep)
  <2>1. s \in Seq(ContextPaths) /\ Len(s) = keep /\ \A i \in 1..keep : s[i] = leaf.selected[i]
    BY <1>3, <1>4, AfterIs
  <2>2. t \in Seq(ContextPaths) /\ Len(t) = keep /\ \A i \in 1..keep : t[i] = leaf.rest[i]
    BY <1>3, <1>4, AfterIs
  <2> HIDE DEF s, t
  <2>3. Len(s) = Len(t) /\ \A i \in 1..Len(s) : s[i] = t[i]
    BY <1>4, <2>1, <2>2
  <2>4. s = t
    BY <2>1, <2>2, <2>3, SeqEqual
  <2> QED
    BY <2>4 DEF s, t
<1>6. given \o rest = leaf.given \o leaf.rest /\ given \in Seq(ContextPaths) /\ rest \in Seq(ContextPaths)
  <2> DEFINE g == leaf.given
             h == leaf.rest
  <2>1. g \in Seq(ContextPaths) /\ h \in Seq(ContextPaths) /\ keep \in 0..Len(h)
    BY <1>3, <1>4
  <2> HIDE DEF g, h
  <2>4. CutBehind(ContextPaths, g, h, keep)
    BY <2>1, CutIs
  <2>2. /\ (g \o SubSeq(h, 1, keep)) \o SubSeq(h, keep + 1, Len(h)) = g \o h
        /\ g \o SubSeq(h, 1, keep) \in Seq(ContextPaths) /\ SubSeq(h, keep + 1, Len(h)) \in Seq(ContextPaths)
    BY Zenon, <2>4 DEF CutBehind
  <2>3. given = g \o SubSeq(h, 1, keep) /\ rest = SubSeq(h, keep + 1, Len(h))
    BY Zenon, <1>5 DEF g, h
  <2> HIDE DEF given, rest
  <2> QED
    BY <2>2, <2>3 DEF g, h
<1> HIDE DEF rest, given
<1>7. at \in {"idle", "reading", "paused"} /\ << >> \in PathLists /\ << >> \in Seq(Readings)
  BY DEF PathLists
<1> HIDE DEF at
<1>8. next \in PageRecords
  BY <1>2, <1>6, <1>7 DEF PageRecords, PathLists
<1>9. next.given = given /\ next.rest = rest /\ next.all = leaf.all /\ next.selected = << >>
  BY <1>2 DEF PageRecords
<1> HIDE DEF next
<1>10. Begins(<< >>, rest)
  BY <1>6 DEF Begins
<1>11. next \in TiledPages
  BY <1>2, <1>6, <1>8, <1>9, <1>10 DEF TiledPages, Tiled
<1> QED
  BY <1>1, <1>11 DEF ContextInv, LedgerInv

LEMMA FullScanInv ==
  ASSUME ContextInv, NEW r \in Clients, NEW files \in PathLists, NEW size \in Nat, C!FullScan(r, files, size)
  PROVE  ContextInv'
<1> DEFINE n == IF size < Len(files) THEN size ELSE Len(files)
           at == IF n < Len(files) THEN "paused" ELSE "idle"
           given == SubSeq(files, 1, n)
           rest == SubSeq(files, n + 1, Len(files))
           q == C!Quiet
           next == [q EXCEPT !.kind = "scan", !.all = files, !.given = given, !.rest = rest, !.at = at]
<1>1. chain' = [chain EXCEPT ![r] = next] /\ UNCHANGED <<content, ledger, prints, storedBytes>>
  BY DEF C!FullScan
<1>2. n \in 0..Len(files)
  BY SmallerIs DEF PathLists
<1> HIDE DEF n
<1>3. given \o rest = files /\ given \in Seq(ContextPaths) /\ rest \in Seq(ContextPaths)
  BY <1>2, AfterIs DEF PathLists
<1>4. at \in {"idle", "reading", "paused"} /\ "scan" \in {"none", "context", "scan"}
  OBVIOUS
<1> HIDE DEF at, given, rest
<1>5. q \in PageRecords /\ q.selected = << >>
  BY EmptyPage DEF TiledPages, C!Quiet
<1> HIDE DEF q
<1>6. next \in PageRecords
  BY <1>3, <1>4, <1>5 DEF PageRecords, PathLists
<1>7. next.given = given /\ next.rest = rest /\ next.all = files /\ next.selected = << >>
  BY <1>5 DEF PageRecords
<1> HIDE DEF next
<1>8. Begins(<< >>, rest)
  BY <1>3 DEF Begins
<1>9. next \in TiledPages
  BY <1>3, <1>6, <1>7, <1>8 DEF TiledPages, Tiled
<1> QED
  BY <1>1, <1>9 DEF ContextInv, LedgerInv

LEMMA ContinueFullScanInv ==
  ASSUME ContextInv, NEW r \in Clients, NEW size \in Nat, C!ContinueFullScan(r, size)
  PROVE  ContextInv'
<1> DEFINE leaf == chain[r]
           n == IF size < Len(leaf.rest) THEN size ELSE Len(leaf.rest)
           at == IF n < Len(leaf.rest) THEN "paused" ELSE "idle"
           given == leaf.given \o SubSeq(leaf.rest, 1, n)
           rest == SubSeq(leaf.rest, n + 1, Len(leaf.rest))
           next == [leaf EXCEPT !.given = given, !.rest = rest, !.at = at]
<1>1. /\ chain' = [chain EXCEPT ![r] = next] /\ leaf.kind = "scan" /\ leaf.at = "paused"
      /\ UNCHANGED <<content, ledger, prints, storedBytes>>
  BY DEF C!ContinueFullScan
<1>2. leaf \in PageRecords /\ leaf.given \o leaf.rest = leaf.all /\ leaf.selected = << >>
  BY <1>1 DEF ContextInv, TiledPages, Tiled
<1> HIDE DEF leaf
<1>3. leaf.given \in Seq(ContextPaths) /\ leaf.rest \in Seq(ContextPaths)
  BY <1>2 DEF PageRecords, PathLists
<1>4. n \in 0..Len(leaf.rest)
  BY <1>3, SmallerIs
<1> HIDE DEF n
<1>5. given \o rest = leaf.given \o leaf.rest /\ given \in Seq(ContextPaths) /\ rest \in Seq(ContextPaths)
  <2> DEFINE g == leaf.given
             h == leaf.rest
  <2>1. g \in Seq(ContextPaths) /\ h \in Seq(ContextPaths) /\ n \in 0..Len(h)
    BY <1>3, <1>4
  <2> HIDE DEF g, h
  <2>4. CutBehind(ContextPaths, g, h, n)
    BY <2>1, CutIs
  <2>2. /\ (g \o SubSeq(h, 1, n)) \o SubSeq(h, n + 1, Len(h)) = g \o h
        /\ g \o SubSeq(h, 1, n) \in Seq(ContextPaths) /\ SubSeq(h, n + 1, Len(h)) \in Seq(ContextPaths)
    BY Zenon, <2>4 DEF CutBehind
  <2>3. given = g \o SubSeq(h, 1, n) /\ rest = SubSeq(h, n + 1, Len(h))
    BY Zenon DEF g, h
  <2> HIDE DEF given, rest
  <2> QED
    BY <2>2, <2>3 DEF g, h
<1>6. at \in {"idle", "reading", "paused"}
  OBVIOUS
<1> HIDE DEF at, given, rest
<1>7. next \in PageRecords
  BY <1>2, <1>5, <1>6 DEF PageRecords, PathLists
<1>8. next.given = given /\ next.rest = rest /\ next.all = leaf.all /\ next.selected = << >>
  BY <1>2 DEF PageRecords
<1> HIDE DEF next
<1>9. Begins(<< >>, rest)
  BY <1>5 DEF Begins
<1>10. next \in TiledPages
  BY <1>2, <1>5, <1>7, <1>8, <1>9 DEF TiledPages, Tiled
<1> QED
  BY <1>1, <1>10 DEF ContextInv, LedgerInv

LEMMA FileChangesInv ==
  ASSUME ContextInv, NEW p \in ContextPaths, C!FileChanges(p)
  PROVE  ContextInv'
<1>1. PICK c \in ContextTexts \union {C!Missing} : content' = [content EXCEPT ![p] = c]
  BY DEF C!FileChanges, ContextTexts
<1>2. UNCHANGED <<ledger, prints, storedBytes, chain>>
  BY DEF C!FileChanges
<1>3. content' \in [ContextPaths -> ContextTexts \union {C!Missing}]
  BY <1>1 DEF ContextInv
<1> QED
  BY <1>2, <1>3 DEF ContextInv, LedgerInv

LEMMA ContextNextInv == ContextInv /\ C!ContextNext => ContextInv'
<1> SUFFICES ASSUME ContextInv, C!ContextNext PROVE ContextInv'
  OBVIOUS
<1>1. \A m : 1..m \subseteq Nat /\ 0..m \subseteq Nat
  OBVIOUS
<1>2. ASSUME NEW r \in Clients, NEW size \in 1..Cardinality(ContextPaths), NEW hits \in [ContextPaths -> C!Finds],
             NEW explicit \in BOOLEAN, C!Collect(r, hits, explicit, size)
      PROVE  ContextInv'
  BY <1>1, <1>2, CollectInv
<1>3. ASSUME NEW r \in Clients, NEW size \in 1..Cardinality(ContextPaths), NEW files \in C!Orders(ContextPaths),
             C!FullScan(r, files, size)
      PROVE  ContextInv'
  <2>1. files \in PathLists
    BY OrdersAre
  <2> QED
    BY <1>1, <1>3, <2>1, FullScanInv
<1>4. ASSUME NEW r \in Clients, NEW size \in 1..Cardinality(ContextPaths), C!Continue(r, size) PROVE ContextInv'
  BY <1>1, <1>4, ContinueInv
<1>5. ASSUME NEW r \in Clients, NEW size \in 1..Cardinality(ContextPaths), C!ContinueFullScan(r, size) PROVE ContextInv'
  BY <1>1, <1>5, ContinueFullScanInv
<1>6. ASSUME NEW r \in Clients, NEW i \in 1..Cardinality(ContextPaths), C!ReadCandidate(r, i) PROVE ContextInv'
  BY <1>1, <1>6, ReadCandidateInv
<1>7. ASSUME NEW r \in Clients, NEW keep \in 0..Cardinality(ContextPaths), C!Answer(r, keep) PROVE ContextInv'
  BY <1>1, <1>7, AnswerInv
<1>8. ASSUME NEW p \in ContextPaths, C!FileChanges(p) PROVE ContextInv'
  BY <1>8, FileChangesInv
<1>9. \/ \E r \in Clients, size \in 1..Cardinality(ContextPaths) :
            \/ \E hits \in [ContextPaths -> C!Finds], explicit \in BOOLEAN : C!Collect(r, hits, explicit, size)
            \/ \E files \in C!Orders(ContextPaths) : C!FullScan(r, files, size)
            \/ C!Continue(r, size) \/ C!ContinueFullScan(r, size)
      \/ \E r \in Clients, i \in 1..Cardinality(ContextPaths) : C!ReadCandidate(r, i)
      \/ \E r \in Clients, keep \in 0..Cardinality(ContextPaths) : C!Answer(r, keep)
      \/ \E p \in ContextPaths : C!FileChanges(p)
  <2>1. C!Cardinality(ContextPaths) = Cardinality(ContextPaths)
    BY Zenon DEF C!Cardinality, Cardinality
  <2> DEFINE m == C!Cardinality(ContextPaths)
  <2>2. \/ \E r \in Clients, size \in 1..m :
             \/ \E hits \in [ContextPaths -> C!Finds], explicit \in BOOLEAN : C!Collect(r, hits, explicit, size)
             \/ \E files \in C!Orders(ContextPaths) : C!FullScan(r, files, size)
             \/ C!Continue(r, size) \/ C!ContinueFullScan(r, size)
        \/ \E r \in Clients, i \in 1..m : C!ReadCandidate(r, i)
        \/ \E r \in Clients, keep \in 0..m : C!Answer(r, keep)
        \/ \E p \in ContextPaths : C!FileChanges(p)
    BY Zenon DEF C!ContextNext, ContextPaths
  <2>3. m = Cardinality(ContextPaths)
    BY <2>1
  <2> HIDE DEF m
  <2> QED
    BY Zenon, <2>2, <2>3
<1> QED
  BY <1>2, <1>3, <1>4, <1>5, <1>6, <1>7, <1>8, <1>9

LEMMA ContextInvGives == ContextInv => C!LedgerSound /\ C!PagesTile
<1> SUFFICES ASSUME ContextInv PROVE C!LedgerSound /\ C!PagesTile
  OBVIOUS
<1>1. LedgerInv /\ ledger \in Seq(LedgerEntry) /\ DOMAIN ledger = 1..Len(ledger)
  <2>1. LedgerInv
    BY DEF ContextInv
  <2>2. ledger \in Seq(LedgerEntry)
    BY <2>1 DEF LedgerInv
  <2> QED
    BY <2>1, <2>2, LenProperties
<1>2. \A x \in DOMAIN prints : \E i \in DOMAIN ledger : ledger[i].path = prints[x] /\ ledger[i].print = x /\ ledger[i].kept
  BY <1>1 DEF LedgerInv, Named
<1>3. C!LedgerSound
  BY <1>1, <1>2 DEF LedgerInv, C!LedgerSound
<1>4. C!PagesTile
  BY DEF ContextInv, TiledPages, Tiled, C!PagesTile
<1> QED
  BY <1>3, <1>4

-----------------------------------------------------------------------------
(* FilePages: the pages of a chain are the lines one after the other.      *)
Text == Seq(Nat)
TakenLines == [text : Text, count : Nat, done : BOOLEAN]
NoLine == [text |-> <<0>>, count |-> 0, done |-> FALSE]
NextText(taken, line) == IF taken.text = <<0>> THEN <<line>> ELSE Append(taken.text, line)
Taken(taken, line, target) ==
    IF taken.done \/ (taken.count > 0 /\ P!Bytes(NextText(taken, line)) > target)
    THEN [taken EXCEPT !.done = TRUE]
    ELSE [text |-> NextText(taken, line), count |-> taken.count + 1, done |-> P!Bytes(NextText(taken, line)) >= target]
Takes(f, text, target) ==
    f = [i \in 0..Len(text) |-> IF i = 0 THEN NoLine ELSE Taken(f[i - 1], text[i], target)]

LEMMA TextBytes == ASSUME NEW text \in Text PROVE P!Bytes(text) \in Int
<1> DEFINE those == P!Range(text) \ {0}
<1>1. P!Selected(text, those) = Selected(text, those)
  BY Zenon DEF P!Selected, Selected
<1>2. Selected(text, those) \in Seq(Nat)
  BY SelectedOrder DEF Text
<1> HIDE DEF those
<1>3. Len(P!Selected(text, those)) \in Nat /\ Len(text) \in Nat
  BY <1>1, <1>2 DEF Text
<1>4. P!Bytes(text) = Len(P!Selected(text, those)) + Len(text) - 1
  BY Zenon DEF P!Bytes, those
<1> QED
  BY <1>3, <1>4

LEMMA TakenKeeps ==
  ASSUME NEW taken \in TakenLines, NEW line \in Nat, NEW target \in Nat
  PROVE  /\ NextText(taken, line) \in Text
         /\ Taken(taken, line, target) \in TakenLines
<1> DEFINE next == NextText(taken, line)
<1>1. next \in Text
  <2>1. <<line>> \in Text /\ Append(taken.text, line) \in Text
    BY DEF TakenLines, Text
  <2> QED
    BY <2>1 DEF NextText
<1>2. P!Bytes(next) \in Int
  BY <1>1, TextBytes
<1> HIDE DEF next
<1>3. (P!Bytes(next) >= target) \in BOOLEAN /\ taken.count + 1 \in Nat
  BY SMT, <1>2 DEF TakenLines
<1>4. [text |-> next, count |-> taken.count + 1, done |-> P!Bytes(next) >= target] \in TakenLines
  BY <1>1, <1>3 DEF TakenLines
<1>5. [taken EXCEPT !.done = TRUE] \in TakenLines
  BY DEF TakenLines
<1> QED
  BY <1>1, <1>4, <1>5 DEF Taken, next

(* The steps of takeLinesToBytes.                                          *)
TakesAll(f, text, target) ==
    /\ f \in [0..Len(text) -> TakenLines] /\ f[0] = NoLine
    /\ \A i \in 1..Len(text) : f[i] = Taken(f[i - 1], text[i], target)
    /\ P!TakeLinesToBytes(text, target) = f[Len(text)]

LEMMA TakesExist ==
  ASSUME NEW text \in Text, NEW target \in Nat
  PROVE  \E f : TakesAll(f, text, target)
<1> DEFINE A == TakenLines
           N == Len(text)
           step == [x \in A \X (1..N) |-> Taken(x[1], text[x[2]], target)]
<1>1. N \in Nat /\ \A i \in 1..N : text[i] \in Nat
  BY DEF Text
<1>2. NoLine \in A
  BY DEF NoLine, TakenLines, Text
<1>3. \A a \in A, b \in Nat : Taken(a, b, target) \in A
  BY TakenKeeps
<1> HIDE DEF A, N
<1>4. \A a \in A, i \in 1..N : step[<<a, i>>] = Taken(a, text[i], target) /\ step[<<a, i>>] \in A
  <2> SUFFICES ASSUME NEW a \in A, NEW i \in 1..N PROVE step[<<a, i>>] = Taken(a, text[i], target) /\ step[<<a, i>>] \in A
    OBVIOUS
  <2>1. step[<<a, i>>] = Taken(a, text[i], target)
    OBVIOUS
  <2> QED
    BY <1>1, <1>3, <2>1
<1>5. step \in [A \X (1..N) -> A]
  <2>1. \A x \in A \X (1..N) : Taken(x[1], text[x[2]], target) \in A
    BY <1>1, <1>3
  <2> QED
    BY <2>1
<1> HIDE DEF step
<1>6. PICK g : Recurses(g, A, NoLine, N, step)
  BY <1>1, <1>2, <1>5, RecursionExists
<1>7. g \in [0..N -> A] /\ g[0] = NoLine /\ \A i \in 1..N : g[i] = step[<<g[i - 1], i>>]
  BY <1>6 DEF Recurses
<1>8. \A i \in 0..N : g[i] = IF i = 0 THEN NoLine ELSE Taken(g[i - 1], text[i], target)
  <2> SUFFICES ASSUME NEW i \in 0..N, i # 0 PROVE g[i] = Taken(g[i - 1], text[i], target)
    BY <1>7
  <2>1. i \in 1..N /\ i - 1 \in 0..N
    BY <1>1
  <2>2. g[i - 1] \in A
    BY <1>7, <2>1
  <2> QED
    BY <1>4, <1>7, <2>1, <2>2
<1>9. Takes(g, text, target)
  <2>1. g = [i \in 0..N |-> g[i]]
    BY <1>7
  <2>2. g = [i \in 0..N |-> IF i = 0 THEN NoLine ELSE Taken(g[i - 1], text[i], target)]
    BY <1>8, <2>1
  <2> QED
    BY Zenon, <2>2 DEF Takes, N
<1>10. Takes(CHOOSE h : Takes(h, text, target), text, target)
  BY <1>9
<1>11. P!TakeLinesToBytes(text, target) = (CHOOSE h : Takes(h, text, target))[Len(text)]
  BY Zenon DEF P!TakeLinesToBytes, Takes, Taken, NextText, NoLine
<1> DEFINE f == CHOOSE h : Takes(h, text, target)
<1>12. Takes(f, text, target) /\ P!TakeLinesToBytes(text, target) = f[Len(text)]
  BY <1>10, <1>11
<1> HIDE DEF f
<1>13. \A i \in 0..N : f[i] = IF i = 0 THEN NoLine ELSE Taken(f[i - 1], text[i], target)
  BY Zenon, <1>12 DEF Takes, N
<1>14. f[0] = NoLine /\ \A i \in 1..N : f[i] = Taken(f[i - 1], text[i], target)
  <2>1. 0 \in 0..N /\ \A i \in 1..N : i \in 0..N /\ i # 0
    BY <1>1
  <2> QED
    BY <1>13, <2>1
<1>15. \A i \in 1..N : f[i - 1] \in A => f[i] \in A
  BY <1>1, <1>3, <1>14
<1>16. \A i \in 0..N : f[i] \in A
  BY <1>1, <1>2, <1>14, <1>15, RecursionKeeps
<1>17. f \in [0..N -> A]
  <2>1. f = [i \in 0..N |-> IF i = 0 THEN NoLine ELSE Taken(f[i - 1], text[i], target)]
    BY Zenon, <1>12 DEF Takes, N
  <2>2. f = [i \in 0..N |-> f[i]]
    BY <1>13, <2>1
  <2> QED
    BY <1>16, <2>2
<1>18. TakesAll(f, text, target)
  BY <1>12, <1>14, <1>17 DEF TakesAll, A, N
<1> QED
  BY <1>18

(* From a text that does not begin with an empty line the first lines are  *)
(* taken, one at least.                                                    *)
LEMMA TakeIs ==
  ASSUME NEW text \in Text, text # << >>, text[1] # 0, NEW target \in Nat
  PROVE  \E n \in 1..Len(text) : /\ P!TakeLinesToBytes(text, target).count = n
                                 /\ P!TakeLinesToBytes(text, target).text = SubSeq(text, 1, n)
<1> DEFINE N == Len(text)
           upto(n) == SubSeq(text, 1, n)
<1>1. N \in Nat /\ N >= 1 /\ \A i \in 1..N : text[i] \in Nat
  BY DEF Text
<1>2. \A n \in 0..N : /\ upto(n) \in Text /\ Len(upto(n)) = n /\ \A i \in 1..n : upto(n)[i] = text[i]
  BY AfterIs DEF Text
<1>3. \A n \in 1..N : upto(n)[1] = text[1] /\ upto(n) # <<0>>
  <2> SUFFICES ASSUME NEW n \in 1..N PROVE upto(n)[1] = text[1] /\ upto(n) # <<0>>
    OBVIOUS
  <2>1. 1 \in 1..n /\ n \in 0..N
    BY <1>1
  <2>2. upto(n)[1] = text[1]
    BY <1>2, <2>1
  <2> HIDE DEF upto
  <2> QED
    BY <2>2
<1>4. upto(1) = <<text[1]>>
  <2>1. 1 \in 0..N /\ 1 \in 1..1
    BY <1>1
  <2>2. upto(1) \in Seq(Nat) /\ Len(upto(1)) = 1 /\ upto(1)[1] = text[1]
    BY <1>2, <2>1 DEF Text
  <2>3. <<text[1]>> \in Seq(Nat) /\ Len(<<text[1]>>) = 1 /\ <<text[1]>>[1] = text[1]
    BY <1>1
  <2> DEFINE a == upto(1)
             b == <<text[1]>>
  <2>4. a \in Seq(Nat) /\ b \in Seq(Nat) /\ Len(a) = Len(b) /\ \A i \in 1..Len(a) : a[i] = b[i]
    BY <2>2, <2>3
  <2> HIDE DEF a, b
  <2>5. a = b
    BY <2>4, SeqEqual
  <2> QED
    BY <2>5 DEF a, b
<1>5. ASSUME NEW n \in 1..(N - 1) PROVE Append(upto(n), text[n + 1]) = upto(n + 1)
  <2>1. n \in 0..N /\ n + 1 \in 0..N /\ n + 1 \in 1..N
    BY <1>1
  <2> DEFINE a == Append(upto(n), text[n + 1])
             b == upto(n + 1)
  <2>2. /\ a \in Seq(Nat) /\ Len(a) = n + 1 /\ a[n + 1] = text[n + 1]
        /\ \A i \in 1..n : a[i] = upto(n)[i]
    <3> DEFINE u == upto(n)
               v == text[n + 1]
    <3>1. u \in Seq(Nat) /\ Len(u) = n /\ v \in Nat
      BY <1>1, <1>2, <2>1 DEF Text
    <3> HIDE DEF u, v
    <3>2. /\ Append(u, v) \in Seq(Nat) /\ Len(Append(u, v)) = n + 1 /\ Append(u, v)[n + 1] = v
          /\ \A i \in 1..n : Append(u, v)[i] = u[i]
      BY <3>1, AppendProperties
    <3> QED
      BY Zenon, <3>2 DEF u, v
  <2>3. b \in Seq(Nat) /\ Len(b) = n + 1 /\ \A i \in 1..(n + 1) : b[i] = text[i]
    BY <1>2, <2>1 DEF Text
  <2>4. \A i \in 1..n : upto(n)[i] = text[i]
    BY <1>2, <2>1
  <2>5. \A i \in 1..(n + 1) : i \in 1..n \/ i = n + 1
    OBVIOUS
  <2> HIDE DEF a, b, upto
  <2>6. \A i \in 1..Len(a) : a[i] = b[i]
    BY <2>2, <2>3, <2>4, <2>5
  <2>7. a = b
    BY <2>2, <2>3, <2>6, SeqEqual
  <2> QED
    BY <2>7 DEF a, b
<1> HIDE DEF upto
<1>6. PICK f : TakesAll(f, text, target)
  BY TakesExist
<1>7. /\ f \in [0..N -> TakenLines] /\ f[0] = NoLine /\ \A i \in 1..N : f[i] = Taken(f[i - 1], text[i], target)
      /\ P!TakeLinesToBytes(text, target) = f[N]
  BY <1>6 DEF TakesAll
<1> DEFINE Good == {i \in 0..N : i >= 1 => /\ f[i].count \in 1..i /\ f[i].text = upto(f[i].count)
                                           /\ f[i].done \/ f[i].count = i}
<1>8. 0 \in Good
  BY <1>1
<1>9. ASSUME NEW i \in 1..N, i - 1 \in Good PROVE i \in Good
  <2>1. i - 1 \in 0..N /\ i \in 0..N /\ f[i - 1] \in TakenLines
    <3> HIDE DEF N, Good
    <3>1. i - 1 \in 0..N /\ i \in 0..N
      BY <1>1
    <3>2. f \in [0..N -> TakenLines]
      BY <1>7
    <3> QED
      BY <3>1, <3>2
  <2>2. f[i] = Taken(f[i - 1], text[i], target)
    BY <1>7
  <2>3. CASE i = 1
    <3>1. f[i - 1] = NoLine
      BY <1>7, <2>3
    <3>2. ~NoLine.done /\ NoLine.count = 0 /\ NoLine.text = <<0>>
      BY DEF NoLine
    <3>3. f[i].text = <<text[1]>> /\ f[i].count = 1
      BY <2>2, <2>3, <3>1, <3>2 DEF Taken, NextText
    <3> QED
      BY <1>4, <2>1, <2>3, <3>3
  <2>4. CASE i # 1
    <3> DEFINE taken == f[i - 1]
    <3>1. taken.count \in 1..(i - 1) /\ taken.text = upto(taken.count) /\ (taken.done \/ taken.count = i - 1)
      BY <1>9, <2>1, <2>4
    <3>2. taken.text # <<0>>
      BY <1>1, <1>3, <3>1
    <3>3. NextText(taken, text[i]) = Append(taken.text, text[i])
      BY <3>2 DEF NextText
    <3> HIDE DEF taken
    <3>4. CASE taken.done \/ (taken.count > 0 /\ P!Bytes(NextText(taken, text[i])) > target)
      <4>1. f[i] = [taken EXCEPT !.done = TRUE] /\ taken \in TakenLines
        BY <2>1, <2>2, <3>4 DEF Taken, taken
      <4>2. f[i].count = taken.count /\ f[i].text = taken.text /\ f[i].done
        BY <4>1 DEF TakenLines
      <4>3. taken.count \in 1..i
        BY <3>1
      <4> QED
        BY <2>1, <3>1, <4>2, <4>3
    <3>5. CASE ~(taken.done \/ (taken.count > 0 /\ P!Bytes(NextText(taken, text[i])) > target))
      <4>1. f[i].text = NextText(taken, text[i]) /\ f[i].count = taken.count + 1
        BY <2>2, <3>5 DEF Taken, taken
      <4>2. taken.count = i - 1 /\ i - 1 \in 1..(N - 1) /\ (i - 1) + 1 = i
        BY <1>1, <2>4, <3>1, <3>5
      <4>3. f[i].text = upto(i) /\ f[i].count = i
        BY <1>5, <3>1, <3>3, <4>1, <4>2
      <4> QED
        BY <2>1, <4>3
    <3> QED
      BY <3>4, <3>5
  <2> QED
    BY <2>3, <2>4
<1>10. N \in Good
  <2> HIDE DEF Good
  <2>1. \A i \in 0..N : i \in Good
    BY <1>1, <1>8, <1>9, UptoAll
  <2> QED
    BY <1>1, <2>1
<1> QED
  BY <1>1, <1>7, <1>10 DEF upto

FileStates == [lines : Text, ended : BOOLEAN, large : BOOLEAN, trusted : BOOLEAN]

(* Where a page that starts at line `start` and has n lines of text ends,  *)
(* without the line that only stands for the last newline.                 *)
EndsAt(start, n) == IF start + n - 1 > Len(file.lines) THEN Len(file.lines) ELSE start + n - 1
PageOf(leaf, n, start, size, target) ==
    /\ leaf.startLine = start /\ leaf.target = target /\ n \in Nat \ {0} /\ n <= size
    /\ pages' = Append(pages, leaf)
    /\ P!Body(leaf) = SubSeq(file.lines, start, EndsAt(start, n))
    /\ token' = IF P!LastLine(start + size) > start + n - 1 THEN <<start + n, size, target>> ELSE << >>

LEMMA PageIs ==
  ASSUME file \in FileStates, ~file.large, NEW start \in 1..Len(file.lines), NEW size \in Nat \ {0}, NEW target \in Nat,
         target = 0 \/ \A i \in 1..Len(file.lines) : file.lines[i] # 0, P!ReadAt(start, size, target)
  PROVE  \E leaf, n : PageOf(leaf, n, start, size, target)
<1> DEFINE L == file.lines
           N == Len(L)
           last == P!LastLine(start + size)
           m == last - start + 1
           t == P!Text(start, last)
           cut == IF P!CountLines(t) > size THEN SubSeq(t, 1, size) ELSE t
           fits == target = 0 \/ P!Bytes(cut) <= target
           shown == IF fits THEN cut ELSE P!TakeLinesToBytes(cut, target).text
           count == IF fits THEN P!CountLines(cut) ELSE P!TakeLinesToBytes(cut, target).count
           endLine == IF count = 0 THEN start ELSE start + count - 1
           leaf == [startLine |-> start, endLine |-> endLine, text |-> shown, target |-> target]
<1>1. /\ pages' = Append(pages, leaf)
      /\ token' = IF last > endLine THEN <<endLine + 1, size, target>> ELSE << >>
  <2>1. P!InRange(start)
    BY DEF P!InRange
  <2>2. P!Content(start, start + size) = [text |-> t, endLine |-> last]
    BY <2>1 DEF P!Content
  <2>3. P!Content(start, start + size).text = t /\ P!Content(start, start + size).endLine = last
    BY <2>2
  <2>4. P!None = << >>
    BY DEF P!None
  <2> QED
    BY Zenon, <2>3, <2>4 DEF P!ReadAt
<1>2. L \in Seq(Nat) /\ N \in Nat /\ start \in Nat /\ 1 <= start /\ start <= N /\ \A i \in 1..N : L[i] \in Nat
  BY DEF FileStates, Text
<1>3. last = IF start + size < N THEN start + size ELSE N
  BY DEF P!LastLine
<1> HIDE DEF L, N, last
<1>4. last \in start..N /\ m \in Nat \ {0} /\ last = start + m - 1
  <2>1. N \in Nat /\ start \in Nat /\ 1 <= start /\ start <= N /\ size \in Nat \ {0}
    BY <1>2
  <2>2. last \in start..N
    BY <1>3, <2>1
  <2> QED
    BY <2>1, <2>2
<1> HIDE DEF m
<1>5. /\ t \in Seq(Nat) /\ Len(t) \in {m, m + 1} /\ \A i \in 1..m : t[i] = L[start + i - 1]
  <2> DEFINE lines == SubSeq(L, start, last)
  <2>1. lines \in Seq(Nat) /\ Len(lines) = m /\ \A i \in 1..m : lines[i] = L[start + i - 1]
    <3>1. \A i \in start..last : L[i] \in Nat
      BY <1>2, <1>4
    <3>2. start \in Int /\ last \in Int /\ start <= last /\ last - start + 1 = m
      BY <1>2, <1>4
    <3>3. /\ lines \in Seq(Nat)
          /\ Len(lines) = IF start <= last THEN last - start + 1 ELSE 0
          /\ \A i \in 1..(last - start + 1) : lines[i] = L[start + i - 1]
      BY <3>1, <3>2, SubSeqProperties
    <3> QED
      BY <3>2, <3>3
  <2>2. t = lines \/ t = Append(lines, 0)
    BY Zenon DEF P!Text, L, N
  <2> HIDE DEF lines, t
  <2>3. CASE t = lines
    BY <2>1, <2>3
  <2>4. CASE t = Append(lines, 0)
    <3>1. /\ t \in Seq(Nat) /\ Len(t) = m + 1 /\ \A i \in 1..m : t[i] = lines[i]
      BY <2>1, <2>4, AppendProperties
    <3> QED
      BY <2>1, <3>1
  <2> QED
    BY <2>2, <2>3, <2>4
<1> HIDE DEF t
<1>6. Len(t) \in Nat \ {0} /\ t[1] = L[start] /\ t # << >>
  <2>1. 1 \in 1..m /\ start + 1 - 1 = start
    BY <1>2, <1>4
  <2> QED
    BY <1>4, <1>5, <2>1
<1>7. \E c \in 1..Len(t) : cut = SubSeq(t, 1, c) /\ c <= size /\ (c = Len(t) \/ c = size)
  <2>1. CASE P!CountLines(t) > size
    <3>1. size \in 1..Len(t)
      BY <1>6, <2>1 DEF P!CountLines
    <3> QED
      BY <2>1, <3>1
  <2>2. CASE ~(P!CountLines(t) > size)
    <3>1. Len(t) <= size
      <4>1. CASE t = <<0>>
        BY <4>1
      <4>2. CASE t # <<0>>
        BY <1>6, <2>2, <4>2 DEF P!CountLines
      <4> QED
        BY <4>1, <4>2
    <3>2. SubSeq(t, 1, Len(t)) = t
      BY <1>5, SubSeqFull
    <3>3. cut = SubSeq(t, 1, Len(t)) /\ Len(t) \in 1..Len(t)
      BY <1>6, <2>2, <3>2
    <3> HIDE DEF cut
    <3> QED
      BY <3>1, <3>3
  <2> QED
    BY <2>1, <2>2
<1>8. PICK c \in 1..Len(t) : cut = SubSeq(t, 1, c) /\ c <= size /\ (c = Len(t) \/ c = size)
  BY <1>7
<1> HIDE DEF cut
<1>9. \A j \in 1..Len(t) : SubSeq(t, 1, j) \in Seq(Nat) /\ Len(SubSeq(t, 1, j)) = j /\ \A i \in 1..j : SubSeq(t, 1, j)[i] = t[i]
  <2>1. t \in Seq(Nat)
    BY <1>5
  <2>2. \A j \in 1..Len(t) : j \in 0..Len(t)
    BY <1>6
  <2> HIDE DEF t
  <2> SUFFICES ASSUME NEW j \in 1..Len(t)
               PROVE  SubSeq(t, 1, j) \in Seq(Nat) /\ Len(SubSeq(t, 1, j)) = j /\ \A i \in 1..j : SubSeq(t, 1, j)[i] = t[i]
    OBVIOUS
  <2>3. j \in 0..Len(t)
    BY <2>2
  <2> QED
    BY <2>1, <2>3, AfterIs
<1>10. cut \in Seq(Nat) /\ Len(cut) = c /\ (\A i \in 1..c : cut[i] = t[i]) /\ c \in Nat \ {0}
  BY <1>6, <1>8, <1>9
<1>11. \E n \in 1..c : shown = SubSeq(t, 1, n) /\ endLine = start + n - 1 /\ (n = c \/ target # 0)
  <2>1. CASE fits
    <3>1. shown = cut /\ count = P!CountLines(cut)
      BY <2>1
    <3> HIDE DEF shown, count
    <3>2. CASE cut = <<0>>
      <4>1. c = 1 /\ count = 0
        BY <1>10, <3>1, <3>2 DEF P!CountLines
      <4> QED
        BY <1>2, <1>8, <3>1, <4>1
    <3>3. CASE cut # <<0>>
      <4>1. count = c
        BY <1>10, <3>1, <3>3 DEF P!CountLines
      <4>2. c \in 1..c
        BY <1>10
      <4> QED
        BY <1>8, <1>10, <3>1, <4>1, <4>2
    <3> QED
      BY <3>2, <3>3
  <2>2. CASE ~fits
    <3>1. target # 0 /\ shown = P!TakeLinesToBytes(cut, target).text /\ count = P!TakeLinesToBytes(cut, target).count
      BY <2>2
    <3>2. cut \in Text /\ cut # << >> /\ cut[1] # 0
      <4>1. start \in 1..N /\ 1 \in 1..c
        BY <1>2, <1>10
      <4>2. L[start] # 0
        BY <3>1, <4>1 DEF L, N
      <4> QED
        BY <1>6, <1>10, <4>1, <4>2 DEF Text
    <3> HIDE DEF shown, count
    <3>3. PICK n \in 1..Len(cut) : count = n /\ shown = SubSeq(cut, 1, n)
      BY <3>1, <3>2, TakeIs
    <3>4. n \in 1..c /\ n \in 1..Len(t) /\ n \in Nat \ {0}
      BY <1>6, <1>8, <1>10, <3>3
    <3>5. SubSeq(cut, 1, n) = SubSeq(t, 1, n)
      <4> DEFINE a == SubSeq(cut, 1, n)
                 b == SubSeq(t, 1, n)
      <4>1. n \in 0..Len(cut)
        BY <3>3, <3>4
      <4>2. a \in Seq(Nat) /\ Len(a) = n /\ \A i \in 1..n : a[i] = cut[i]
        BY <1>10, <4>1, AfterIs
      <4>3. b \in Seq(Nat) /\ Len(b) = n /\ \A i \in 1..n : b[i] = t[i]
        BY <1>9, <3>4
      <4>4. \A i \in 1..n : cut[i] = t[i]
        BY <1>10, <3>4
      <4> HIDE DEF a, b
      <4>5. \A i \in 1..n : a[i] = b[i]
        BY <4>2, <4>3, <4>4
      <4>6. a \in Seq(Nat) /\ b \in Seq(Nat) /\ Len(a) = Len(b) /\ \A i \in 1..Len(a) : a[i] = b[i]
        BY <4>2, <4>3, <4>5
      <4>7. a = b
        BY <4>6, SeqEqual
      <4> QED
        BY <4>7 DEF a, b
    <3>6. endLine = start + n - 1
      BY <3>3, <3>4
    <3> QED
      BY <3>1, <3>3, <3>4, <3>5, <3>6
  <2> QED
    BY <2>1, <2>2
<1> HIDE DEF shown, endLine
<1>12. PICK n \in 1..c : shown = SubSeq(t, 1, n) /\ endLine = start + n - 1 /\ (n = c \/ target # 0)
  BY <1>11
<1> HIDE DEF t
<1>13. n \in 1..Len(t) /\ n <= size /\ n \in Nat \ {0} /\ n <= m + 1
  <2>1. Len(t) \in Nat /\ m \in Nat /\ Len(t) <= m + 1
    BY <1>4, <1>5
  <2>2. c \in Nat /\ c <= Len(t) /\ c <= size
    BY <1>8, <2>1
  <2> QED
    BY <1>12, <2>1, <2>2
<1>14. shown \in Seq(Nat) /\ Len(shown) = n /\ \A i \in 1..n : shown[i] = t[i]
  BY <1>9, <1>12, <1>13
<1>15. P!Body(leaf) = SubSeq(L, start, EndsAt(start, n))
  <2> DEFINE e == EndsAt(start, n)
             b == SubSeq(L, start, e)
             k == e - start + 1
  <2>1. e = IF start + n - 1 > N THEN N ELSE start + n - 1
    BY DEF EndsAt, L, N
  <2>2. P!Body(leaf) = IF start + n - 1 > N THEN SubSeq(shown, 1, n - 1) ELSE shown
    <3>1. leaf.text = shown /\ leaf.startLine = start
      OBVIOUS
    <3> HIDE DEF leaf
    <3> QED
      BY <1>14, <3>1 DEF P!Body, L, N
  <2> HIDE DEF leaf, e
  <2>3. e \in start..N /\ k \in 1..n /\ k <= m /\ (k = n \/ k = n - 1) /\ (k = n - 1 <=> start + n - 1 > N)
    BY <1>2, <1>3, <1>4, <1>13, <2>1
  <2>4. b \in Seq(Nat) /\ Len(b) = k /\ \A i \in 1..k : b[i] = L[start + i - 1]
    <3>1. \A i \in start..e : L[i] \in Nat
      BY <1>2, <2>3
    <3>2. start \in Int /\ e \in Int /\ start <= e /\ e - start + 1 = k
      BY <1>2, <2>3
    <3>3. /\ b \in Seq(Nat)
          /\ Len(b) = IF start <= e THEN e - start + 1 ELSE 0
          /\ \A i \in 1..(e - start + 1) : b[i] = L[start + i - 1]
      BY <3>1, <3>2, SubSeqProperties
    <3> QED
      BY <3>2, <3>3
  <2> DEFINE body == P!Body(leaf)
  <2> HIDE DEF k, b
  <2>5. body \in Seq(Nat) /\ Len(body) = k /\ \A i \in 1..k : body[i] = shown[i]
    <3>1. CASE start + n - 1 > N
      <4>1. n - 1 \in 0..Len(shown) /\ n - 1 = k
        BY <1>13, <1>14, <2>3, <3>1
      <4>2. /\ SubSeq(shown, 1, n - 1) \in Seq(Nat) /\ Len(SubSeq(shown, 1, n - 1)) = n - 1
            /\ \A i \in 1..(n - 1) : SubSeq(shown, 1, n - 1)[i] = shown[i]
        BY <1>14, <4>1, AfterIs
      <4>3. body = SubSeq(shown, 1, n - 1)
        BY <2>2, <3>1
      <4> HIDE DEF body
      <4> QED
        BY <4>1, <4>2, <4>3
    <3>2. CASE ~(start + n - 1 > N)
      <4>1. body = shown /\ n = k
        BY <2>2, <2>3, <3>2
      <4> HIDE DEF body
      <4> QED
        BY <1>14, <4>1
    <3> QED
      BY <3>1, <3>2
  <2> HIDE DEF body
  <2>6. ASSUME NEW i \in 1..k PROVE body[i] = b[i]
    <3>1. i \in 1..n /\ i \in 1..m
      BY <1>4, <1>13, <2>3
    <3> QED
      BY <1>5, <1>14, <2>4, <2>5, <3>1
  <2>7. body = b
    BY <2>4, <2>5, <2>6, SeqEqual
  <2> QED
    BY <2>7 DEF body, b, e
<1>16. leaf.startLine = start /\ leaf.target = target
  OBVIOUS
<1>17. token' = IF last > start + n - 1 THEN <<start + n, size, target>> ELSE << >>
  <2>1. (start + n - 1) + 1 = start + n
    BY <1>2, <1>13
  <2> QED
    BY <1>1, <1>12, <2>1
<1> HIDE DEF leaf
<1>18. PageOf(leaf, n, start, size, target)
  BY <1>1, <1>13, <1>15, <1>16, <1>17 DEF PageOf, L, last
<1> QED
  BY <1>18

(* The pages of a chain of a file that the text reader takes, unless empty *)
(* lines meet a byte target: they are the lines up to some line e, and the *)
(* token goes on behind it, or there is none and e is the last one.        *)
FirstPage == pages[1]
ChainCovered ==
    /\ ~file.large /\ FirstPage.startLine <= Len(file.lines)
    /\ FirstPage.target = 0 \/ \A i \in 1..Len(file.lines) : file.lines[i] # 0
ChainAt(e) ==
    /\ e \in FirstPage.startLine..Len(file.lines)
    /\ P!Delivered = SubSeq(file.lines, FirstPage.startLine, e)
    /\ \/ token = << >> /\ e = Len(file.lines)
       \/ e < Len(file.lines) /\ \E size \in PageSizes : token = <<e + 1, size, FirstPage.target>>
Given == [i \in 1..Len(pages) |-> P!Body(pages[i])]
ChainFits ==
    /\ FirstPage.startLine \in Nat \ {0} /\ FirstPage.target \in Nat
    /\ ChainCovered => Given \in Seq(Text) /\ \E e \in Nat : ChainAt(e)
PagesInv ==
    /\ file \in FileStates /\ pages \in Seq(Entries(pages))
    /\ pages = << >> => token = << >>
    /\ pages # << >> => ChainFits

LEMMA OneMore ==
  ASSUME NEW a, a \in Seq(Entries(a)), NEW v
  PROVE  /\ Append(a, v) \in Seq(Entries(Append(a, v))) /\ Append(a, v) # << >> /\ Len(Append(a, v)) = Len(a) + 1
         /\ Len(a) \in Nat /\ Append(a, v)[Len(a) + 1] = v
         /\ \A i \in 1..Len(a) : Append(a, v)[i] = a[i]
<1> DEFINE Whole == Entries(a) \union {v}
           b == Append(a, v)
<1>1. a \in Seq(Whole)
  <2>1. Len(a) \in Nat /\ a \in [1..Len(a) -> Entries(a)]
    OBVIOUS
  <2>2. a \in [1..Len(a) -> Whole]
    BY <2>1
  <2> HIDE DEF Whole
  <2> QED
    BY <2>1, <2>2
<1>2. v \in Whole
  OBVIOUS
<1> HIDE DEF Whole
<1>3. /\ b \in Seq(Whole) /\ Len(b) = Len(a) + 1 /\ Len(a) \in Nat /\ b[Len(a) + 1] = v
      /\ \A i \in 1..Len(a) : b[i] = a[i]
  BY <1>1, <1>2, AppendProperties, LenProperties
<1> HIDE DEF b
<1>4. b \in Seq(Entries(b))
  <2>1. Len(b) \in Nat /\ b = [i \in 1..Len(b) |-> b[i]]
    BY <1>3
  <2>2. \A i \in 1..Len(b) : b[i] \in Entries(b)
    BY DEF Entries
  <2>3. b \in [1..Len(b) -> Entries(b)]
    BY <2>1, <2>2
  <2> QED
    BY <2>1, <2>3
<1>5. b # << >>
  BY <1>3
<1> QED
  BY <1>3, <1>4, <1>5 DEF b

LEMMA PagesInitInv == P!PagesInit => PagesInv
<1> SUFFICES ASSUME P!PagesInit PROVE PagesInv
  OBVIOUS
<1>1. /\ file \in [lines : P!SeqOf(LineKinds, MaxLines), ended : BOOLEAN, large : BOOLEAN, trusted : BOOLEAN]
      /\ token = << >> /\ pages = << >>
  BY DEF P!PagesInit, P!None
<1>2. P!SeqOf(LineKinds, MaxLines) \subseteq Text
  <2> SUFFICES ASSUME NEW n \in 0..MaxLines, NEW s \in [1..n -> LineKinds] PROVE s \in Text
    BY DEF P!SeqOf
  <2>1. n \in Nat
    BY ReadsAssumption
  <2>2. s \in [1..n -> Nat]
    BY Zenon, ReadsAssumption
  <2> QED
    BY <2>1, <2>2 DEF Text
<1>3. file \in FileStates
  BY <1>1, <1>2 DEF FileStates
<1>4. << >> \in Seq(Entries(<< >>))
  OBVIOUS
<1> QED
  BY <1>1, <1>3, <1>4 DEF PagesInv

(* A chain that is covered goes on with one more page.                     *)
LEMMA ReadAtInv ==
  ASSUME PagesInv, file' = file, NEW start \in Nat \ {0}, NEW size \in PageSizes, NEW target \in Nat,
         P!ReadAt(start, size, target),
         pages # << >> => target = FirstPage.target /\ (ChainCovered => \E e \in Nat : ChainAt(e) /\ start = e + 1 /\ e < Len(file.lines))
  PROVE  PagesInv'
<1> DEFINE L == file.lines
           N == Len(L)
<1>1. size \in Nat \ {0} /\ file \in FileStates /\ L \in Seq(Nat) /\ N \in Nat
  BY ReadsAssumption DEF PagesInv, FileStates, Text
<1>2. PICK v : pages' = Append(pages, v) /\ v.startLine = start /\ v.target = target
  <2>1. \E text, endLine : pages' = Append(pages, [startLine |-> start, endLine |-> endLine, text |-> text, target |-> target])
    BY Zenon DEF P!ReadAt
  <2>2. PICK text, endLine : pages' = Append(pages, [startLine |-> start, endLine |-> endLine, text |-> text, target |-> target])
    BY <2>1
  <2> DEFINE w == [startLine |-> start, endLine |-> endLine, text |-> text, target |-> target]
  <2>3. w.startLine = start /\ w.target = target
    OBVIOUS
  <2>4. pages' = Append(pages, w)
    BY <2>2
  <2> HIDE DEF w
  <2> QED
    BY <2>3, <2>4
<1>3. /\ pages' \in Seq(Entries(pages')) /\ pages' # << >> /\ Len(pages') = Len(pages) + 1 /\ Len(pages) \in Nat
      /\ pages'[Len(pages) + 1] = v /\ \A i \in 1..Len(pages) : pages'[i] = pages[i]
  BY <1>2, OneMore DEF PagesInv
<1>4. CASE pages # << >>
  <2>1. Len(pages) \in Nat \ {0} /\ 1 \in 1..Len(pages)
    BY <1>3, <1>4, EmptySeq DEF PagesInv
  <2>2. pages'[1] = pages[1] /\ ChainFits
    BY <1>3, <1>4, <2>1 DEF PagesInv
  <2>3. ASSUME ChainCovered PROVE Given' \in Seq(Text) /\ \E e \in Nat : ChainAt(e)'
    <3>1. PICK e \in Nat : ChainAt(e) /\ start = e + 1 /\ e < N
      BY <1>4, <2>3
    <3>2. start \in 1..N /\ target = FirstPage.target
      BY <1>1, <1>4, <3>1
    <3>3. ~file.large /\ (target = 0 \/ \A i \in 1..Len(file.lines) : file.lines[i] # 0)
      BY <2>3, <3>2 DEF ChainCovered
    <3>4. PICK leaf, n : PageOf(leaf, n, start, size, target)
      BY <1>1, <3>2, <3>3, PageIs
    <3> DEFINE to == EndsAt(start, n)
               body == SubSeq(L, start, to)
               first == FirstPage.startLine
    <3>5. n \in Nat \ {0} /\ n <= size /\ pages' = Append(pages, leaf) /\ P!Body(leaf) = body
      BY <3>4 DEF PageOf
    <3>6. to = IF start + n - 1 > N THEN N ELSE start + n - 1
      BY DEF EndsAt
    <3> HIDE DEF to
    <3>7. to \in start..N /\ to \in Nat
      BY <1>1, <3>2, <3>5, <3>6
    <3>8. first \in Nat \ {0} /\ first <= e /\ P!Delivered = SubSeq(L, first, e)
      BY <2>2, <3>1 DEF ChainFits, ChainAt
    <3>9. body \in Text
      <4>1. \A i \in start..to : L[i] \in Nat
        BY <1>1, <3>2, <3>7
      <4>2. start \in Int /\ to \in Int
        BY <3>7
      <4> QED
        BY <4>1, <4>2, SubSeqProperties DEF Text
    <3>10. SubSeq(L, first, e) \o body = SubSeq(L, first, to)
      <4>1. first \in 1..(N + 1) /\ e \in (first - 1)..N /\ to \in e..N
        <5> HIDE DEF N, first
        <5>1. N \in Nat /\ e \in Nat /\ e < N /\ start = e + 1 /\ first \in Nat \ {0} /\ first <= e /\ to \in start..N
          BY <1>1, <3>1, <3>7, <3>8
        <5> QED
          BY <5>1
      <4> DEFINE M == L
      <4>2. M \in Seq(Nat) /\ Len(M) = N
        BY <1>1
      <4> HIDE DEF M, N
      <4>3. SubSeq(M, first, e) \o SubSeq(M, e + 1, to) = SubSeq(M, first, to)
        BY <4>1, <4>2, ConcatAdjacentSubSeq
      <4> QED
        BY Zenon, <3>1, <4>3 DEF M
    <3> HIDE DEF body
    <3>11. Given' = Append(Given, body)
      <4> DEFINE a == Given
                 b == Given'
                 c == Append(Given, body)
      <4>1. a \in Seq(Text) /\ Len(a) = Len(pages) /\ \A i \in 1..Len(pages) : a[i] = P!Body(pages[i])
        <5>1. a \in Seq(Text)
          BY <2>2, <2>3 DEF ChainFits
        <5> QED
          BY <1>3, <5>1 DEF Given
      <4>2. c \in Seq(Text) /\ Len(c) = Len(pages) + 1 /\ (\A i \in 1..Len(pages) : c[i] = a[i]) /\ c[Len(pages) + 1] = body
        <5> HIDE DEF a
        <5>1. c = Append(a, body)
          BY DEF a
        <5> HIDE DEF c
        <5> QED
          BY <3>9, <4>1, <5>1, AppendProperties
      <4>3. b = [i \in 1..(Len(pages) + 1) |-> P!Body(pages'[i])]
        BY <1>3 DEF Given, P!Body
      <4>4. leaf = v
        <5>1. pages'[Len(pages) + 1] = leaf
          BY <3>5, OneMore DEF PagesInv
        <5> QED
          BY <1>3, <5>1
      <4>5. \A i \in 1..Len(pages) : P!Body(pages'[i]) = c[i]
        BY <1>3, <4>1, <4>2
      <4>6. P!Body(pages'[Len(pages) + 1]) = c[Len(pages) + 1]
        BY <1>3, <3>5, <4>2, <4>4
      <4>7. \A i \in 1..(Len(pages) + 1) : i \in 1..Len(pages) \/ i = Len(pages) + 1
        BY <1>3
      <4>8. \A i \in 1..(Len(pages) + 1) : P!Body(pages'[i]) = c[i]
        BY <4>5, <4>6, <4>7
      <4>9. c = [i \in 1..(Len(pages) + 1) |-> c[i]]
        <5> HIDE DEF c
        <5> QED
          BY <1>3, <4>2
      <4> HIDE DEF a, c
      <4>10. b = c
        BY <4>3, <4>8, <4>9
      <4> QED
        BY <4>10 DEF c
    <3>12. P!Delivered' = SubSeq(L, first, to) /\ Given' \in Seq(Text)
      <4>1. P!Delivered = Flattened(Given)
        BY Zenon DEF P!Delivered, P!Flattened, Flattened, Given
      <4>2. P!Delivered' = Flattened(Given')
        BY Zenon DEF P!Delivered, P!Flattened, Flattened, Given
      <4>3. Given \in Seq(Seq(Nat)) /\ body \in Seq(Nat)
        BY <2>2, <2>3, <3>9 DEF ChainFits, Text
      <4>4. Flattened(Append(Given, body)) = Flattened(Given) \o body /\ Append(Given, body) \in Seq(Seq(Nat))
        BY <4>3, FlattenedAppend
      <4>5. P!Delivered' = P!Delivered \o body
        BY Zenon, <3>11, <4>1, <4>2, <4>4
      <4> QED
        BY Zenon, <3>8, <3>10, <3>11, <4>4, <4>5 DEF Text
    <3>13. (token' = << >> /\ to = N) \/ (to < N /\ token' = <<to + 1, size, target>>)
      <4>1. token' = IF P!LastLine(start + size) > start + n - 1 THEN <<start + n, size, target>> ELSE << >>
        BY <3>4 DEF PageOf
      <4>2. P!LastLine(start + size) = IF start + size < N THEN start + size ELSE N
        BY DEF P!LastLine
      <4>5. N \in Nat /\ start \in Nat /\ size \in Nat /\ n \in Nat /\ n <= size
        BY <1>1, <3>2, <3>5
      <4> HIDE DEF N
      <4>3. CASE P!LastLine(start + size) > start + n - 1
        <5>1. start + n - 1 < N
          BY <4>2, <4>3, <4>5
        <5>2. to < N /\ to + 1 = start + n
          BY <3>6, <4>5, <5>1
        <5> QED
          BY <4>1, <4>3, <5>2
      <4>4. CASE ~(P!LastLine(start + size) > start + n - 1)
        <5>1. start + n - 1 >= N
          BY <4>2, <4>4, <4>5
        <5>2. to = N
          BY <3>6, <4>5, <5>1
        <5> QED
          BY <4>1, <4>4, <5>2
      <4> QED
        BY <4>3, <4>4
    <3>14. to \in first..N
      BY <1>1, <3>1, <3>7, <3>8
    <3>15. FirstPage' = FirstPage
      BY <2>2 DEF FirstPage
    <3>16. ASSUME NEW z \in Nat, z = to PROVE ChainAt(z)'
      <4>1. FirstPage.startLine' = first /\ FirstPage.target' = target /\ file.lines' = L
        BY <3>2, <3>15
      <4> QED
        BY <3>12, <3>13, <3>14, <3>16, <4>1 DEF ChainAt
    <3>17. \E z \in Nat : z = to
      BY <3>7
    <3> QED
      BY <3>12, <3>16, <3>17
  <2>4. ChainFits'
    <3>1. FirstPage' = FirstPage
      BY <2>2 DEF FirstPage
    <3>2. ChainCovered' => ChainCovered
      BY <3>1 DEF ChainCovered
    <3> QED
      BY <2>2, <2>3, <3>1, <3>2 DEF ChainFits
  <2> QED
    BY <1>1, <1>3, <2>4 DEF PagesInv
<1>5. CASE pages = << >>
  <2>1. Len(pages) = 0 /\ FirstPage' = v
    BY <1>3, <1>5 DEF FirstPage
  <2>2. ASSUME ChainCovered' PROVE Given' \in Seq(Text) /\ \E e \in Nat : ChainAt(e)'
    <3>1. start \in 1..N /\ ~file.large /\ (target = 0 \/ \A i \in 1..Len(file.lines) : file.lines[i] # 0)
      BY <1>1, <1>2, <2>1, <2>2 DEF ChainCovered
    <3>2. PICK leaf, n : PageOf(leaf, n, start, size, target)
      BY <1>1, <3>1, PageIs
    <3> DEFINE to == EndsAt(start, n)
               body == SubSeq(L, start, to)
    <3>3. n \in Nat \ {0} /\ n <= size /\ pages' = Append(pages, leaf) /\ P!Body(leaf) = body
      BY <3>2 DEF PageOf
    <3>4. to = IF start + n - 1 > N THEN N ELSE start + n - 1
      BY DEF EndsAt
    <3> HIDE DEF to
    <3>5. to \in start..N /\ to \in Nat
      BY <1>1, <3>1, <3>3, <3>4
    <3>6. body \in Seq(Nat)
      <4>1. \A i \in start..to : L[i] \in Nat
        BY <1>1, <3>1, <3>5
      <4>2. start \in Int /\ to \in Int
        BY <3>5
      <4> QED
        BY <4>1, <4>2, SubSeqProperties
    <3> HIDE DEF body
    <3>7. leaf = v
      <4>1. pages'[Len(pages) + 1] = leaf
        BY <3>3, OneMore DEF PagesInv
      <4> QED
        BY <1>3, <4>1
    <3>8. Len(pages') = 1 /\ pages'[1] = v
      BY <1>3, <2>1
    <3>9. Given' = <<body>>
      <4>1. Given' = [i \in 1..1 |-> P!Body(pages'[i])]
        BY <3>8 DEF Given, P!Body
      <4>2. \A i \in 1..1 : P!Body(pages'[i]) = body
        BY <3>3, <3>7, <3>8
      <4>3. Given' = [i \in 1..1 |-> body]
        BY <4>1, <4>2
      <4> QED
        BY <4>3
    <3>10. P!Delivered' = SubSeq(L, start, to) /\ Given' \in Seq(Text)
      <4>1. P!Delivered' = Flattened(Given')
        BY Zenon DEF P!Delivered, P!Flattened, Flattened, Given
      <4>2. << >> \in Seq(Seq(Nat)) /\ Append(<< >>, body) = <<body>> /\ << >> \o body = body
        BY <3>6
      <4>3. Flattened(Append(<< >>, body)) = Flattened(<< >>) \o body /\ Flattened(<< >>) = << >>
            /\ Append(<< >>, body) \in Seq(Seq(Nat))
        BY <3>6, <4>2, FlattenedAppend
      <4>4. Flattened(<<body>>) = body /\ <<body>> \in Seq(Seq(Nat))
        BY Zenon, <4>2, <4>3
      <4>5. P!Delivered' = body
        BY Zenon, <3>9, <4>1, <4>4
      <4> QED
        BY Zenon, <3>9, <4>4, <4>5 DEF Text, body
    <3>11. (token' = << >> /\ to = N) \/ (to < N /\ token' = <<to + 1, size, target>>)
      <4>1. token' = IF P!LastLine(start + size) > start + n - 1 THEN <<start + n, size, target>> ELSE << >>
        BY <3>2 DEF PageOf
      <4>2. P!LastLine(start + size) = IF start + size < N THEN start + size ELSE N
        BY DEF P!LastLine
      <4>3. CASE P!LastLine(start + size) > start + n - 1
        <5>1. start + n - 1 < N
          BY <1>1, <3>1, <3>3, <4>2, <4>3
        <5>2. to < N /\ to + 1 = start + n
          BY <1>1, <3>1, <3>3, <3>4, <5>1
        <5> QED
          BY <4>1, <4>3, <5>2
      <4>4. CASE ~(P!LastLine(start + size) > start + n - 1)
        <5>1. start + n - 1 >= N
          BY <1>1, <3>1, <3>3, <4>2, <4>4
        <5>2. to = N
          <6> HIDE DEF N
          <6> QED
            BY <1>1, <3>1, <3>3, <3>4, <5>1
        <5> QED
          BY <4>1, <4>4, <5>2
      <4> QED
        BY <4>3, <4>4
    <3>12. ASSUME NEW z \in Nat, z = to PROVE ChainAt(z)'
      <4>1. FirstPage.startLine' = start /\ FirstPage.target' = target /\ file.lines' = L
        BY <1>2, <2>1
      <4> QED
        BY <3>5, <3>10, <3>11, <3>12, <4>1 DEF ChainAt
    <3>13. \E z \in Nat : z = to
      BY <3>5
    <3> QED
      BY <3>10, <3>12, <3>13
  <2>3. ChainFits'
    BY <1>2, <2>1, <2>2 DEF ChainFits
  <2> QED
    BY <1>1, <1>3, <2>3 DEF PagesInv
<1> QED
  BY <1>4, <1>5

LEMMA PagesNextInv == PagesInv /\ P!PagesNext => PagesInv'
<1> SUFFICES ASSUME PagesInv, P!PagesNext PROVE PagesInv'
  OBVIOUS
<1>1. CASE P!ReadPage
  <2>1. PICK start \in 1..(Len(file.lines) + 1), size \in PageSizes, target \in Targets : P!ReadAt(start, size, target)
    BY <1>1 DEF P!ReadPage
  <2>2. start \in Nat \ {0} /\ target \in Nat
    BY ReadsAssumption
  <2>3. pages = << >> /\ file' = file
    BY <1>1 DEF P!ReadPage
  <2> QED
    BY <2>1, <2>2, <2>3, ReadAtInv
<1>2. CASE P!ContinuePage
  <2>1. PICK size \in PageSizes : P!ReadAt(token[1], size, token[3])
    BY <1>2 DEF P!ContinuePage
  <2>2. token # << >> /\ file' = file
    BY <1>2 DEF P!ContinuePage, P!None
  <2>3. pages # << >> /\ ChainFits /\ pages \in Seq(Entries(pages)) /\ file \in FileStates
    BY <2>2 DEF PagesInv
  <2>4. CASE ChainCovered
    <3>1. PICK e \in Nat : ChainAt(e)
      BY <2>3, <2>4 DEF ChainFits
    <3>2. PICK asked_size \in PageSizes : token = <<e + 1, asked_size, FirstPage.target>> /\ e < Len(file.lines)
      BY <2>2, <3>1 DEF ChainAt
    <3>3. token[1] = e + 1 /\ token[3] = FirstPage.target /\ e + 1 \in Nat \ {0} /\ FirstPage.target \in Nat
      BY <2>3, <3>2 DEF ChainFits
    <3>4. P!ReadAt(e + 1, size, FirstPage.target)
      BY <2>1, <3>3
    <3> QED
      BY <2>2, <3>1, <3>2, <3>3, <3>4, ReadAtInv
  <2>5. CASE ~ChainCovered
    <3>1. \E v : pages' = Append(pages, v)
      BY <2>1 DEF P!ReadAt
    <3>2. PICK v : pages' = Append(pages, v)
      BY <3>1
    <3>3. /\ pages' \in Seq(Entries(pages')) /\ pages' # << >> /\ Len(pages) \in Nat
          /\ \A i \in 1..Len(pages) : pages'[i] = pages[i]
      BY <2>3, <3>2, OneMore
    <3>4. 1 \in 1..Len(pages)
      BY <2>3, <3>3, EmptySeq
    <3>5. FirstPage' = FirstPage
      BY <3>3, <3>4 DEF FirstPage
    <3>6. ~ChainCovered'
      BY <2>2, <2>5, <3>5 DEF ChainCovered
    <3>7. ChainFits'
      BY <2>3, <3>5, <3>6 DEF ChainFits
    <3> QED
      BY <2>2, <2>3, <3>3, <3>7 DEF PagesInv
  <2> QED
    BY <2>4, <2>5
<1> QED
  BY <1>1, <1>2 DEF P!PagesNext

LEMMA PagesInvGives == PagesInv => P!PagesLossless
<1> SUFFICES ASSUME PagesInv, ~file.large, pages # << >> => pages[1].target = 0 \/ 0 \notin P!Range(file.lines),
                    pages # << >>, pages[1].startLine <= Len(file.lines)
             PROVE  P!IsPrefix(P!Delivered, P!Wanted) /\ (token = P!None => P!Delivered = P!Wanted)
  BY DEF P!PagesLossless, P!LosslessChain
<1> DEFINE L == file.lines
           N == Len(L)
           first == FirstPage.startLine
<1>1. L \in Seq(Nat) /\ N \in Nat /\ ChainFits
  BY DEF PagesInv, FileStates, Text
<1>2. ChainCovered
  <2>1. CASE pages[1].target = 0
    BY <2>1 DEF ChainCovered, FirstPage
  <2>2. CASE 0 \notin P!Range(L)
    <3>1. \A i \in 1..N : L[i] # 0
      BY <1>1, <2>2 DEF P!Range
    <3> QED
      BY <3>1 DEF ChainCovered, FirstPage
  <2> QED
    BY <2>1, <2>2
<1>3. PICK e \in Nat : ChainAt(e)
  BY <1>1, <1>2 DEF ChainFits
<1>4. e \in first..N /\ P!Delivered = SubSeq(L, first, e) /\ first \in Nat \ {0} /\ (token = << >> => e = N)
  <2>1. first \in Nat \ {0}
    BY <1>1 DEF ChainFits, FirstPage
  <2>2. P!Delivered = SubSeq(L, first, e) /\ e \in first..N
    BY <1>3 DEF ChainAt
  <2>3. token = << >> => e = N
    BY <1>1, <1>3 DEF ChainAt
  <2> QED
    BY <2>1, <2>2, <2>3
<1>5. P!Wanted = SubSeq(L, first, N)
  BY DEF P!Wanted, FirstPage
<1>6. token = P!None => P!Delivered = P!Wanted
  BY Zenon, <1>4, <1>5 DEF P!None
<1> HIDE DEF L, N, first
<1>7. P!IsPrefix(P!Delivered, P!Wanted)
  <2> DEFINE a == SubSeq(L, first, e)
             b == SubSeq(L, first, N)
             k == e - first + 1
             m == N - first + 1
  <2>1. N \in Nat /\ N = Len(L) /\ L \in Seq(Nat) /\ \A i \in 1..N : L[i] \in Nat
    BY <1>1 DEF N
  <2>2. first \in Int /\ e \in Int /\ N \in Int /\ first <= e /\ first <= N /\ k \in 1..m /\ m \in Nat
        /\ (\A i \in first..e : i \in 1..N) /\ \A i \in first..N : i \in 1..N
    BY <1>4, <2>1
  <2>3. a \in Seq(Nat) /\ Len(a) = k /\ \A i \in 1..k : a[i] = L[first + i - 1]
    <3>1. \A i \in first..e : L[i] \in Nat
      BY <2>1, <2>2
    <3>2. /\ a \in Seq(Nat) /\ Len(a) = IF first <= e THEN e - first + 1 ELSE 0
          /\ \A i \in 1..(e - first + 1) : a[i] = L[first + i - 1]
      BY <2>2, <3>1, SubSeqProperties
    <3> QED
      BY <2>2, <3>2
  <2>4. b \in Seq(Nat) /\ Len(b) = m /\ \A i \in 1..m : b[i] = L[first + i - 1]
    <3>1. \A i \in first..N : L[i] \in Nat
      BY <2>1, <2>2
    <3>2. /\ b \in Seq(Nat) /\ Len(b) = IF first <= N THEN N - first + 1 ELSE 0
          /\ \A i \in 1..(N - first + 1) : b[i] = L[first + i - 1]
      BY <2>2, <3>1, SubSeqProperties
    <3> QED
      BY <2>2, <3>2
  <2> HIDE DEF a, b, k, m
  <2>5. k \in 0..Len(b) /\ k \in Nat /\ k <= m
    BY <2>2, <2>4
  <2>6. SubSeq(a, 1, Len(a)) = a
    BY <2>3, SubSeqFull
  <2>7. SubSeq(b, 1, k) = a
    <3> DEFINE c == SubSeq(b, 1, k)
    <3>1. c \in Seq(Nat) /\ Len(c) = k /\ \A i \in 1..k : c[i] = b[i]
      BY <2>4, <2>5, AfterIs
    <3> HIDE DEF c
    <3>2. \A i \in 1..k : i \in 1..m
      BY <2>2
    <3>3. \A i \in 1..k : c[i] = a[i]
      BY <2>3, <2>4, <3>1, <3>2
    <3>4. c = a
      BY <2>3, <3>1, <3>3, SeqEqual
    <3> QED
      BY <3>4 DEF c
  <2>8. Len(a) <= Len(b) /\ SubSeq(a, 1, Len(a)) = SubSeq(b, 1, Len(a))
    BY <2>3, <2>4, <2>5, <2>6, <2>7
  <2>9. P!Delivered = a /\ P!Wanted = b
    BY Zenon, <1>4, <1>5 DEF a, b
  <2> QED
    BY Zenon, <2>8, <2>9 DEF P!IsPrefix
<1> QED
  BY <1>6, <1>7

-----------------------------------------------------------------------------
(* A step of another component leaves what these invariants speak of.      *)
LEMMA ContextStutterInv == ContextInv /\ UNCHANGED contextVars => ContextInv'
<1> SUFFICES ASSUME ContextInv, UNCHANGED contextVars PROVE ContextInv'
  OBVIOUS
<1>1. content' = content /\ ledger' = ledger /\ prints' = prints /\ storedBytes' = storedBytes /\ chain' = chain
  BY DEF contextVars
<1> QED
  BY <1>1 DEF ContextInv, LedgerInv

LEMMA PagesStutterInv == PagesInv /\ UNCHANGED pagesVars => PagesInv'
<1> SUFFICES ASSUME PagesInv, UNCHANGED pagesVars PROVE PagesInv'
  OBVIOUS
<1>1. file' = file /\ token' = token /\ pages' = pages
  BY DEF pagesVars
<1>2. P!Delivered' = P!Delivered /\ FirstPage' = FirstPage /\ Given' = Given
  BY <1>1 DEF P!Delivered, P!Body, P!LastLine, FirstPage, Given
<1>3. ChainCovered' = ChainCovered /\ \A e : ChainAt(e)' = ChainAt(e)
  BY <1>1, <1>2 DEF ChainCovered, ChainAt
<1>4. ChainFits' = ChainFits
  BY <1>2, <1>3 DEF ChainFits
<1> QED
  BY <1>1, <1>4 DEF PagesInv

LEMMA BuffersStutterInv == BuffersInv /\ UNCHANGED bufferVars => BuffersInv'
<1> SUFFICES ASSUME BuffersInv, UNCHANGED bufferVars PROVE BuffersInv'
  OBVIOUS
<1>1. ring' = ring /\ capture' = capture /\ reader' = reader /\ written' = written /\ limited' = limited
  BY DEF bufferVars
<1> QED
  BY <1>1 DEF BuffersInv, CapturesFit, ReaderFits

-----------------------------------------------------------------------------
(* The steps of the cut of a text into lines.                              *)
CutOff == [lines |-> << >>, rest |-> << >>]
CutStep(c, piece) ==
    LET line == Append(c.rest, piece)
    IN  IF T!EndsLine(piece) THEN [lines |-> Append(c.lines, line), rest |-> << >>]
        ELSE [lines |-> c.lines, rest |-> line]
Cuts(f, text) == f = [i \in 0..Len(text) |-> IF i = 0 THEN CutOff ELSE CutStep(f[i - 1], text[i])]
CutsAlong(f, text, A) ==
    /\ f \in [0..Len(text) -> A] /\ f[0] = CutOff /\ \A i \in 1..Len(text) : f[i] = CutStep(f[i - 1], text[i])
    /\ T!Cut(text) = f[Len(text)]
LEMMA CutsExist ==
  ASSUME NEW text, NEW A, Len(text) \in Nat, CutOff \in A, \A a \in A, i \in 1..Len(text) : CutStep(a, text[i]) \in A
  PROVE  \E f : CutsAlong(f, text, A)
<1> DEFINE N == Len(text)
           base == CutOff
           step == [x \in A \X (1..N) |-> CutStep(x[1], text[x[2]])]
<1>1. N \in Nat /\ base \in A
  OBVIOUS
<1>2. \A a \in A, i \in 1..N : CutStep(a, text[i]) \in A
  OBVIOUS
<1> HIDE DEF N, base
<1>3. \A a \in A, i \in 1..N : step[<<a, i>>] = CutStep(a, text[i])
  OBVIOUS
<1>4. step \in [A \X (1..N) -> A]
  <2>1. ASSUME NEW x \in A \X (1..N) PROVE CutStep(x[1], text[x[2]]) \in A
    <3>1. x[1] \in A /\ x[2] \in 1..N
      OBVIOUS
    <3> QED
      BY <1>2, <3>1
  <2> QED
    BY <2>1
<1> HIDE DEF step
<1>5. PICK g : Recurses(g, A, base, N, step)
  BY <1>1, <1>4, RecursionExists
<1>6. g \in [0..N -> A] /\ g[0] = base /\ \A i \in 1..N : g[i] = step[<<g[i - 1], i>>]
  BY <1>5 DEF Recurses
<1>7. \A i \in 0..N : g[i] = IF i = 0 THEN base ELSE CutStep(g[i - 1], text[i])
  <2> SUFFICES ASSUME NEW i \in 0..N, i # 0 PROVE g[i] = CutStep(g[i - 1], text[i])
    BY <1>6
  <2>1. i \in 1..N /\ i - 1 \in 0..N
    BY <1>1
  <2>2. g[i - 1] \in A
    BY <1>6, <2>1
  <2> QED
    BY <1>3, <1>6, <2>1, <2>2
<1>8. Cuts(g, text)
  <2>1. g = [i \in 0..N |-> g[i]]
    BY <1>6
  <2>2. g = [i \in 0..N |-> IF i = 0 THEN base ELSE CutStep(g[i - 1], text[i])]
    BY <1>7, <2>1
  <2> QED
    BY Zenon, <2>2 DEF Cuts, N, base
<1>9. Cuts(CHOOSE h : Cuts(h, text), text)
  BY <1>8
<1>10. T!Cut(text) = (CHOOSE h : Cuts(h, text))[Len(text)]
  BY Zenon DEF T!Cut, CutOff, CutStep, Cuts
<1> DEFINE f == CHOOSE h : Cuts(h, text)
<1>11. Cuts(f, text) /\ T!Cut(text) = f[Len(text)]
  BY <1>9, <1>10
<1> HIDE DEF f
<1>12. f = [i \in 0..N |-> IF i = 0 THEN base ELSE CutStep(f[i - 1], text[i])]
  BY Zenon, <1>11 DEF Cuts, N, base
<1>13. f[0] = base /\ \A i \in 1..N : f[i] = CutStep(f[i - 1], text[i])
  <2>1. 0 \in 0..N /\ \A i \in 1..N : i \in 0..N /\ i # 0
    BY <1>1
  <2>2. \A i \in 0..N : f[i] = IF i = 0 THEN base ELSE CutStep(f[i - 1], text[i])
    BY <1>12
  <2> QED
    BY <2>1, <2>2
<1>14. \A i \in 1..N : f[i - 1] \in A => f[i] \in A
  BY <1>2, <1>13
<1>15. \A i \in 0..N : f[i] \in A
  BY <1>1, <1>13, <1>14, RecursionKeeps
<1>16. f \in [0..N -> A]
  <2>1. f = [i \in 0..N |-> f[i]]
    BY Zenon, <1>12
  <2> QED
    BY <1>15, <2>1
<1>17. CutsAlong(f, text, A)
  BY <1>11, <1>13, <1>16 DEF CutsAlong, N, base
<1> QED
  BY <1>17

TailPieces == [file : Inodes \union {Nothing}, life : Nat, at : Nat]

(* A stretch of one life of a file: n pieces behind one position.          *)
HeldText(f, l, from, n) == [i \in 1..n |-> [file |-> f, life |-> l, at |-> from + i]]

LEMMA HeldIs ==
  ASSUME NEW f \in Inodes \union {Nothing}, NEW l \in Nat, NEW from \in Nat, NEW n \in Nat
  PROVE  /\ HeldText(f, l, from, n) \in Seq(TailPieces) /\ Len(HeldText(f, l, from, n)) = n
         /\ \A i \in 1..n : HeldText(f, l, from, n)[i] = [file |-> f, life |-> l, at |-> from + i]
<1> DEFINE h == HeldText(f, l, from, n)
<1>1. \A i \in 1..n : [file |-> f, life |-> l, at |-> from + i] \in TailPieces
  <2> SUFFICES ASSUME NEW i \in 1..n PROVE [file |-> f, life |-> l, at |-> from + i] \in TailPieces
    OBVIOUS
  <2>1. from + i \in Nat
    OBVIOUS
  <2> HIDE DEF h
  <2> QED
    BY <2>1 DEF TailPieces
<1>2. h \in [1..n -> TailPieces]
  BY <1>1 DEF HeldText
<1>3. h \in Seq(TailPieces) /\ Len(h) = n
  BY <1>2
<1> QED
  BY <1>3 DEF HeldText

HeldJoin(f, l, from, n, m) == HeldText(f, l, from, n) \o HeldText(f, l, from + n, m) = HeldText(f, l, from, n + m)
LEMMA HeldOn ==
  ASSUME NEW f \in Inodes \union {Nothing}, NEW l \in Nat, NEW from \in Nat, NEW n \in Nat, NEW m \in Nat
  PROVE  HeldJoin(f, l, from, n, m)
<1> DEFINE a == HeldText(f, l, from, n)
           b == HeldText(f, l, from + n, m)
           c == HeldText(f, l, from, n + m)
           V == TailPieces
<1>0. from + n \in Nat /\ n + m \in Nat
  OBVIOUS
<1>1. a \in Seq(V) /\ Len(a) = n /\ \A i \in 1..n : a[i] = [file |-> f, life |-> l, at |-> from + i]
  BY HeldIs
<1>2. b \in Seq(V) /\ Len(b) = m /\ \A i \in 1..m : b[i] = [file |-> f, life |-> l, at |-> (from + n) + i]
  BY <1>0, HeldIs
<1>3. c \in Seq(V) /\ Len(c) = n + m /\ \A i \in 1..(n + m) : c[i] = [file |-> f, life |-> l, at |-> from + i]
  BY <1>0, HeldIs
<1> HIDE DEF a, b, c, V
<1>4. /\ a \o b \in Seq(V) /\ Len(a \o b) = n + m
      /\ \A i \in 1..(n + m) : (a \o b)[i] = IF i <= n THEN a[i] ELSE b[i - n]
  BY <1>1, <1>2, ConcatProperties
<1>5. ASSUME NEW i \in 1..(n + m) PROVE (a \o b)[i] = c[i]
  <2>1. CASE i <= n
    BY <1>1, <1>3, <1>4, <2>1
  <2>2. CASE ~(i <= n)
    <3>1. i - n \in 1..m /\ (from + n) + (i - n) = from + i
      BY <2>2
    <3>2. b[i - n] = [file |-> f, life |-> l, at |-> from + i]
      BY <1>2, <3>1
    <3> QED
      BY <1>3, <1>4, <2>2, <3>2
  <2> QED
    BY <2>1, <2>2
<1>6. a \o b = c
  <2> DEFINE d == a \o b
  <2>1. d \in Seq(V) /\ Len(d) = Len(c) /\ \A i \in 1..Len(d) : d[i] = c[i]
    BY <1>3, <1>4, <1>5
  <2> HIDE DEF d
  <2>2. d = c
    BY <1>3, <2>1, SeqEqual
  <2> QED
    BY <2>2 DEF d
<1> QED
  BY Zenon, <1>6 DEF a, b, c, HeldJoin

LEMMA OddEven == \A n \in Nat : ((n + 1) % 2 = 0) <=> ~(n % 2 = 0)
  OBVIOUS

(* What a cut gives: the lines and the rest are the text, and the rest is  *)
(* the first half of a line or nothing, if the text is a stretch.          *)
CutGives(text) ==
    /\ T!Cut(text).lines \in Seq(Seq(TailPieces)) /\ T!Cut(text).rest \in Seq(TailPieces)
    /\ Flattened(T!Cut(text).lines) \o T!Cut(text).rest = text
    /\ \/ T!Cut(text).rest = << >>
       \/ /\ Len(text) > 0 /\ T!Cut(text).rest = <<text[Len(text)]>>
          /\ ~T!EndsLine(text[Len(text)])
LEMMA CutKeeps ==
  ASSUME NEW text \in Seq(TailPieces), \A i \in 1..Len(text) : i # 1 => text[i].at = text[i - 1].at + 1
  PROVE  CutGives(text)
<1> DEFINE V == TailPieces
           A == [lines : Seq(Seq(V)), rest : Seq(V)]
           N == Len(text)
           Parts(c, i) == /\ Flattened(c.lines) \o c.rest = SubSeq(text, 1, i)
                          /\ c.rest = IF i = 0 THEN << >> ELSE IF T!EndsLine(text[i]) THEN << >> ELSE <<text[i]>>
<1>1. N \in Nat /\ text \in Seq(V) /\ \A i \in 1..N : text[i] \in V /\ text[i].at \in Nat
  <2>1. N \in Nat /\ text \in Seq(V) /\ \A i \in 1..N : text[i] \in V
    OBVIOUS
  <2> QED
    BY <2>1 DEF TailPieces
<1>2. << >> \in Seq(Seq(V)) /\ << >> \in Seq(V)
  OBVIOUS
<1> HIDE DEF V
<1>3. CutOff \in A
  BY <1>2 DEF CutOff
<1>4. ASSUME NEW a \in A, NEW x \in V PROVE CutStep(a, x) \in A
  <2>1. a.lines \in Seq(Seq(V)) /\ a.rest \in Seq(V)
    OBVIOUS
  <2>2. Append(a.rest, x) \in Seq(V)
    BY <2>1
  <2>3. Append(a.lines, Append(a.rest, x)) \in Seq(Seq(V))
    BY <2>1, <2>2
  <2> QED
    BY <1>2, <2>1, <2>2, <2>3 DEF CutStep
<1>5. \A a \in A, i \in 1..Len(text) : CutStep(a, text[i]) \in A
  BY <1>1, <1>4
<1>6. PICK f : CutsAlong(f, text, A)
  BY <1>1, <1>3, <1>5, CutsExist
<1>7. /\ f \in [0..N -> A] /\ f[0] = CutOff /\ \A i \in 1..N : f[i] = CutStep(f[i - 1], text[i])
      /\ T!Cut(text) = f[N]
  BY <1>6 DEF CutsAlong
<1> DEFINE Good == {i \in 0..N : Parts(f[i], i)}
<1>8. 0 \in Good
  <2>1. SubSeq(text, 1, 0) = << >> /\ CutOff.lines = << >> /\ CutOff.rest = << >>
    BY SubSeqEmpty DEF CutOff
  <2>2. Flattened(<< >>) = << >>
    BY <1>2, FlattenedAppend
  <2>3. << >> \o << >> = << >>
    BY <1>2, ConcatEmptySeq
  <2>4. Parts(f[0], 0)
    BY <1>7, <2>1, <2>2, <2>3
  <2> HIDE DEF Parts
  <2> QED
    BY <1>1, <2>4
<1>9. ASSUME NEW i \in 1..N, i - 1 \in Good PROVE i \in Good
  <2> DEFINE a == f[i - 1]
             x == text[i]
             line == Append(a.rest, x)
             upto == SubSeq(text, 1, i - 1)
  <2>0. i - 1 \in 0..N /\ i \in 0..N /\ i # 0 /\ (i # 1 => i - 1 \in 1..N)
    BY <1>1
  <2>1. a \in A /\ x \in V /\ f[i] = CutStep(a, x)
    BY <1>1, <1>7, <2>0
  <2>2. a.lines \in Seq(Seq(V)) /\ a.rest \in Seq(V)
    BY <2>1
  <2>3. Parts(a, i - 1)
    BY <1>9
  <2>4. Flattened(a.lines) \o a.rest = upto
    BY <2>3
  <2>5. a.rest = IF i - 1 = 0 THEN << >> ELSE IF T!EndsLine(text[i - 1]) THEN << >> ELSE <<text[i - 1]>>
    BY <2>3
  <2>6. SubSeq(text, 1, i) = Append(upto, x)
    BY <1>1, FirstOnes
  <2>7. CutStep(a, x) = IF T!EndsLine(x) THEN [lines |-> Append(a.lines, line), rest |-> << >>]
                        ELSE [lines |-> a.lines, rest |-> line]
    BY Zenon DEF CutStep
  <2> HIDE DEF a, x, upto, Parts
  <2>8. Flattened(a.lines) \in Seq(V)
    BY <2>2, FlattenedAppend
  <2>9. Flattened(a.lines) \o line = Append(upto, x) /\ line \in Seq(V)
    <3>1. Flattened(a.lines) \o Append(a.rest, x) = Append(Flattened(a.lines) \o a.rest, x) /\ Append(a.rest, x) \in Seq(V)
      BY <2>1, <2>2, <2>8, JoinAppend
    <3> QED
      BY Zenon, <2>4, <3>1
  <2>10. CASE T!EndsLine(x)
    <3> DEFINE c == [lines |-> Append(a.lines, line), rest |-> << >>]
    <3>1. f[i] = c
      BY <2>1, <2>7, <2>10
    <3>a. \A y \in Seq(V) : Flattened(Append(a.lines, y)) = Flattened(a.lines) \o y
      BY <2>2, FlattenedAppend
    <3>2. Flattened(Append(a.lines, line)) = Flattened(a.lines) \o line
      BY Zenon, <2>9, <3>a
    <3>3. (Flattened(a.lines) \o line) \o << >> = Flattened(a.lines) \o line
      <4> DEFINE y == Flattened(a.lines) \o line
      <4>1. y \in Seq(V)
        BY <2>8, <2>9, ConcatProperties
      <4> HIDE DEF y
      <4>2. y \o << >> = y
        BY <4>1, ConcatEmptySeq
      <4> QED
        BY <4>2 DEF y
    <3>4. c.lines = Append(a.lines, line) /\ c.rest = << >>
      OBVIOUS
    <3> HIDE DEF c, line
    <3>5. Flattened(c.lines) \o c.rest = SubSeq(text, 1, i)
      BY Zenon, <2>6, <2>9, <3>2, <3>3, <3>4
    <3>6. Parts(f[i], i)
      BY <2>0, <2>10, <3>1, <3>4, <3>5 DEF Parts, x
    <3> QED
      BY <2>0, <3>6
  <2>11. CASE ~T!EndsLine(x)
    <3> DEFINE c == [lines |-> a.lines, rest |-> line]
    <3>1. f[i] = c
      BY <2>1, <2>7, <2>11
    <3>2. a.rest = << >>
      <4>1. CASE i = 1
        BY <2>5, <4>1
      <4>2. CASE i # 1
        <5>1. x.at = text[i - 1].at + 1 /\ text[i - 1].at \in Nat
          BY <1>1, <2>0, <4>2 DEF x
        <5>2. T!EndsLine(text[i - 1])
          BY <2>11, <5>1, OddEven DEF T!EndsLine
        <5> QED
          BY <2>5, <5>2
      <4> QED
        BY <4>1, <4>2
    <3>3. line = <<x>>
      BY <3>2
    <3>4. c.lines = a.lines /\ c.rest = line
      OBVIOUS
    <3> HIDE DEF c, line
    <3>5. Flattened(c.lines) \o c.rest = SubSeq(text, 1, i)
      BY Zenon, <2>6, <2>9, <3>4
    <3>6. Parts(f[i], i)
      BY <2>0, <2>11, <3>1, <3>3, <3>4, <3>5 DEF Parts, x
    <3> QED
      BY <2>0, <3>6
  <2> QED
    BY <2>10, <2>11
<1> HIDE DEF Good, Parts
<1>10. \A i \in 0..N : i \in Good
  BY <1>1, <1>8, <1>9, UptoAll
<1>11. Parts(f[N], N) /\ f[N] \in A
  <2>1. N \in 0..N
    BY <1>1
  <2> QED
    BY <1>7, <1>10, <2>1 DEF Good
<1>12. SubSeq(text, 1, N) = text
  BY <1>1, SubSeqFull
<1> DEFINE c == f[N]
<1>13. c.lines \in Seq(Seq(V)) /\ c.rest \in Seq(V)
  BY <1>11
<1>14. Flattened(c.lines) \o c.rest = text
  BY <1>11, <1>12 DEF Parts
<1>15. c.rest = << >> \/ (N > 0 /\ c.rest = <<text[N]>> /\ ~T!EndsLine(text[N]))
  <2>1. c.rest = IF N = 0 THEN << >> ELSE IF T!EndsLine(text[N]) THEN << >> ELSE <<text[N]>>
    BY <1>11 DEF Parts
  <2> QED
    BY <1>1, <2>1
<1> HIDE DEF c
<1>16. T!Cut(text) = c
  BY <1>7 DEF c
<1> QED
  BY <1>13, <1>14, <1>15, <1>16 DEF CutGives, V

-----------------------------------------------------------------------------
(* The tail of a log file.                                                 *)
TailFits ==
    /\ path \in Inodes \union {Nothing}
    /\ inode \in [Inodes -> [size : 0..MaxSize, life : Nat]]
    /\ tail \in [fd : Inodes \union {Nothing}, offset : 0..MaxSize, pending : Seq(TailPieces)]
    /\ told \in Seq(Seq(TailPieces))
    /\ expected \in [file : Inodes \union {Nothing}, life : Nat, at : 0..MaxSize]
    /\ blurred \in BOOLEAN

(* What waits is nothing, or the first half of the line the offset is in.  *)
Waits(t) == t.pending = << >> \/ \E x \in TailPieces : t.pending = <<x>> /\ x.at = t.offset /\ ~T!EndsLine(x)

TailHolds ==
    ~blurred /\ tail.fd # Nothing =>
        /\ expected.file = tail.fd /\ expected.at <= tail.offset
        /\ Flattened(told) \o tail.pending
             = HeldText(expected.file, expected.life, expected.at, tail.offset - expected.at)

TailInv == TailFits /\ (tail.fd = Nothing => tail = T!Unopened) /\ Waits(tail) /\ TailHolds

LEMMA TailInitInv == T!TailInit => TailInv
<1> SUFFICES ASSUME T!TailInit PROVE TailInv
  OBVIOUS
<1>1. /\ path = Nothing /\ inode = [f \in Inodes |-> [size |-> 0, life |-> 0]]
      /\ tail = [fd |-> Nothing, offset |-> 0, pending |-> << >>] /\ told = << >>
      /\ expected = [file |-> Nothing, life |-> 0, at |-> 0] /\ blurred = FALSE
  BY Zenon DEF T!TailInit, T!Unopened
<1>2. 0 \in 0..MaxSize /\ << >> \in Seq(TailPieces) /\ << >> \in Seq(Seq(TailPieces)) /\ Nothing \in Inodes \union {Nothing}
  BY ReadsAssumption
<1>3. TailFits
  <2>1. inode \in [Inodes -> [size : 0..MaxSize, life : Nat]]
    BY <1>1, <1>2
  <2>2. tail \in [fd : Inodes \union {Nothing}, offset : 0..MaxSize, pending : Seq(TailPieces)]
    BY <1>1, <1>2
  <2>3. expected \in [file : Inodes \union {Nothing}, life : Nat, at : 0..MaxSize]
    BY <1>1, <1>2
  <2> QED
    BY <1>1, <1>2, <2>1, <2>2, <2>3 DEF TailFits
<1>4. tail.fd = Nothing /\ tail.pending = << >> /\ tail = T!Unopened
  BY <1>1 DEF T!Unopened
<1> QED
  BY <1>3, <1>4 DEF TailInv, Waits, TailHolds

LEMMA TailClosed ==
  ASSUME TailInv, tail' = T!Unopened, UNCHANGED <<path, inode, told, expected, blurred>>
  PROVE  TailInv'
<1>1. tail' = [fd |-> Nothing, offset |-> 0, pending |-> << >>]
  BY Zenon DEF T!Unopened
<1>2. tail'.fd = Nothing /\ tail'.pending = << >>
  BY <1>1
<1>3. << >> \in Seq(TailPieces) /\ 0 \in 0..MaxSize
  BY ReadsAssumption
<1>4. tail' \in [fd : Inodes \union {Nothing}, offset : 0..MaxSize, pending : Seq(TailPieces)]
  BY <1>1, <1>3
<1>5. TailFits'
  BY <1>4 DEF TailInv, TailFits
<1>6. (tail.fd = Nothing => tail = T!Unopened)'
  BY DEF T!Unopened
<1>7. Waits(tail)' /\ TailHolds'
  BY <1>2 DEF Waits, TailHolds
<1> QED
  BY <1>5, <1>6, <1>7 DEF TailInv

(* What is read when the file is looked at.                                *)
LookFinds(size, t, n) ==
    /\ size \in 0..MaxSize /\ n \in Nat
    /\ t \in [fd : Inodes, offset : 0..MaxSize, pending : Seq(TailPieces)]
    /\ t.offset + n <= size /\ Waits(t)
    /\ T!ReadFrom(t, size) = HeldText(t.fd, inode[t.fd].life, t.offset, n)
    /\ IF tail.fd = Nothing \/ size < tail.offset THEN t.pending = << >> ELSE t = tail
    /\ t.fd # Nothing /\ (tail.fd # Nothing => t.fd = tail.fd)
LEMMA LooksAre ==
  ASSUME TailInv, path # Nothing, NEW size, size = inode[path].size,
         NEW t, t = T!Rewound(T!Opened(size), size)
  PROVE  \E n : LookFinds(size, t, n)
<1>1. /\ path \in Inodes /\ inode \in [Inodes -> [size : 0..MaxSize, life : Nat]]
      /\ tail \in [fd : Inodes \union {Nothing}, offset : 0..MaxSize, pending : Seq(TailPieces)]
      /\ Waits(tail) /\ (tail.fd = Nothing => tail = T!Unopened)
  BY DEF TailInv, TailFits
<1>2. size \in 0..MaxSize /\ MaxSize \in Nat /\ Window \in Nat /\ Chunk \in Nat
  BY <1>1, ReadsAssumption
<1> DEFINE o == T!Opened(size)
           OpenFile(x) == x \in [fd : Inodes, offset : 0..MaxSize, pending : Seq(TailPieces)] /\ Waits(x) /\ x.fd # Nothing
<1>3. OpenFile(o) /\ (IF tail.fd # Nothing THEN o = tail ELSE o.fd = path /\ o.offset <= size /\ o.pending = << >>)
  <2>1. CASE tail.fd # Nothing
    <3>1. o = tail
      BY <2>1 DEF T!Opened
    <3>2. tail.fd \in Inodes
      BY <1>1, <2>1
    <3>3. tail \in [fd : Inodes, offset : 0..MaxSize, pending : Seq(TailPieces)]
      BY <1>1, <3>2
    <3> HIDE DEF o
    <3> QED
      BY <1>1, <2>1, <3>1, <3>3
  <2>2. CASE tail.fd = Nothing
    <3> DEFINE from == IF size > Window THEN size - Window ELSE 0
    <3>1. o = [fd |-> path, offset |-> from, pending |-> << >>]
      BY <2>2 DEF T!Opened
    <3>2. from \in 0..MaxSize /\ from <= size /\ << >> \in Seq(TailPieces)
      BY <1>2
    <3> HIDE DEF o, from
    <3>3. o.fd = path /\ o.offset = from /\ o.pending = << >>
      BY <3>1
    <3>4. o \in [fd : Inodes, offset : 0..MaxSize, pending : Seq(TailPieces)]
      BY <1>1, <3>1, <3>2
    <3> QED
      BY <2>2, <3>2, <3>3, <3>4 DEF Waits
  <2> QED
    BY <2>1, <2>2
<1>4. t = IF size < o.offset THEN [o EXCEPT !.offset = 0, !.pending = << >>] ELSE o
  BY Zenon DEF T!Rewound
<1> HIDE DEF o
<1>5. /\ OpenFile(t) /\ t.offset <= size
      /\ IF tail.fd = Nothing \/ size < tail.offset THEN t.pending = << >> ELSE t = tail
      /\ t.fd # Nothing /\ (tail.fd # Nothing => t.fd = tail.fd)
  <2>1. CASE size < o.offset
    <3>1. t = [fd |-> o.fd, offset |-> 0, pending |-> << >>]
      BY <1>3, <1>4, <2>1
    <3>2. t.fd = o.fd /\ t.offset = 0 /\ t.pending = << >> /\ o.fd \in Inodes /\ 0 \in 0..MaxSize /\ 0 <= size
      BY <1>2, <1>3, <3>1
    <3>3. << >> \in Seq(TailPieces)
      OBVIOUS
    <3>4. t \in [fd : Inodes, offset : 0..MaxSize, pending : Seq(TailPieces)]
      BY <3>1, <3>2, <3>3
    <3>5. tail.fd # Nothing /\ o = tail
      BY <1>2, <1>3, <2>1
    <3> QED
      BY <2>1, <3>2, <3>4, <3>5 DEF Waits
  <2>2. CASE ~(size < o.offset)
    <3>1. t = o /\ o.offset \in Nat /\ o.offset <= size
      BY <1>2, <1>3, <1>4, <2>2
    <3> HIDE DEF OpenFile
    <3>2. tail.fd # Nothing => o = tail
      BY <1>3
    <3>3. tail.fd = Nothing => o.pending = << >>
      BY <1>3
    <3>4. OpenFile(t)
      BY <1>3, <3>1
    <3>5. t.fd # Nothing
      BY <3>4 DEF OpenFile
    <3> QED
      BY <2>2, <3>1, <3>2, <3>3, <3>4, <3>5
  <2> QED
    BY <2>1, <2>2
<1> DEFINE held == inode[t.fd].size
           available == IF held > t.offset THEN held - t.offset ELSE 0
           wanted == IF size - t.offset < Chunk THEN size - t.offset ELSE Chunk
           n == IF available < wanted THEN available ELSE wanted
<1>6. t.fd \in Inodes /\ held \in 0..MaxSize /\ t.offset \in 0..MaxSize
  BY <1>1, <1>5
<1>7. n \in Nat /\ t.offset + n <= size
  BY <1>2, <1>5, <1>6
<1>8. T!ReadFrom(t, size) = HeldText(t.fd, inode[t.fd].life, t.offset, n)
  BY Zenon DEF T!ReadFrom, T!Pieces, HeldText
<1> HIDE DEF n, held, available, wanted
<1>9. LookFinds(size, t, n)
  BY <1>2, <1>5, <1>7, <1>8 DEF LookFinds
<1> QED
  BY <1>9

LEMMA LookKeeps == ASSUME TailInv, T!Look PROVE TailInv'
<1>1. CASE path = Nothing
  <2>1. tail' = T!Unopened /\ UNCHANGED <<path, inode, told, expected, blurred>>
    BY <1>1, Zenon DEF T!Look
  <2> QED
    BY <2>1, TailClosed
<1>2. CASE path # Nothing
  <2> DEFINE size == inode[path].size
             t == T!Rewound(T!Opened(size), size)
             read == T!ReadFrom(t, size)
             text == t.pending \o read
             cut  == T!Cut(text)
             anew == tail.fd = Nothing \/ size < tail.offset
             V == TailPieces
             life == inode[t.fd].life
  <2>1. /\ tail' = [t EXCEPT !.offset = @ + Len(read), !.pending = cut.rest]
        /\ told' = IF anew THEN cut.lines ELSE told \o cut.lines
        /\ expected' = IF anew THEN [file |-> t.fd, life |-> life, at |-> t.offset] ELSE expected
        /\ blurred' = (blurred \/ (~anew /\ <<path, inode[path].life>> # <<expected.file, expected.life>>)
                               \/ (anew /\ tail.fd \notin {Nothing, path}))
        /\ path' = path /\ inode' = inode
    BY <1>2, Zenon DEF T!Look, T!Position
  <2>2. PICK n : LookFinds(size, t, n)
    BY <1>2, LooksAre
  <2> HIDE DEF t
  <2> HIDE DEF size
  <2>3. /\ size \in 0..MaxSize /\ n \in Nat
        /\ t \in [fd : Inodes, offset : 0..MaxSize, pending : Seq(V)]
        /\ t.offset + n <= size /\ Waits(t)
        /\ read = HeldText(t.fd, life, t.offset, n)
        /\ (anew => t.pending = << >>) /\ (~anew => t = tail)
        /\ t.fd # Nothing /\ (tail.fd # Nothing => t.fd = tail.fd)
    BY <2>2 DEF LookFinds
  <2>4. TailFits /\ TailHolds /\ MaxSize \in Nat
    BY ReadsAssumption DEF TailInv
  <2>5. t.fd \in Inodes /\ t.offset \in Nat /\ life \in Nat /\ t.pending \in Seq(V)
    BY <2>3, <2>4 DEF TailFits
  <2>6. read \in Seq(V) /\ Len(read) = n /\ \A i \in 1..n : read[i] = [file |-> t.fd, life |-> life, at |-> t.offset + i]
    <3> HIDE DEF read, life
    <3>1. t.fd \in Inodes \union {Nothing}
      BY <2>5
    <3>2. t.offset \in Nat
      BY <2>5
    <3>3. life \in Nat
      BY <2>5
    <3>4. n \in Nat
      BY <2>3
    <3> DEFINE f == t.fd
               k == t.offset
    <3> HIDE DEF f, k
    <3>5. f \in Inodes \union {Nothing} /\ k \in Nat
      BY <3>1, <3>2 DEF f, k
    <3>6. /\ HeldText(f, life, k, n) \in Seq(TailPieces) /\ Len(HeldText(f, life, k, n)) = n
          /\ \A i \in 1..n : HeldText(f, life, k, n)[i] = [file |-> f, life |-> life, at |-> k + i]
      BY <3>3, <3>4, <3>5, HeldIs
    <3> QED
      BY Zenon, <2>3, <3>6 DEF f, k
  <2> HIDE DEF read, life, V
  <2>7. \A i \in 1..n : read[i].at = t.offset + i
    BY <2>6
  (* The text is a stretch that ends at the new offset.                    *)
  <2>8. /\ text \in Seq(V) /\ (\A i \in 1..Len(text) : i # 1 => text[i].at = text[i - 1].at + 1)
        /\ (Len(text) > 0 => text[Len(text)].at = t.offset + n)
    <3>1. CASE t.pending = << >>
      <4>1. text = read
        BY <2>6, <3>1, ConcatEmptySeq
      <4>2. \A i \in 1..n : i # 1 => i - 1 \in 1..n /\ (t.offset + (i - 1)) + 1 = t.offset + i
        BY <2>3, <2>5
      <4> HIDE DEF text
      <4>3. \A i \in 1..n : i # 1 => read[i].at = read[i - 1].at + 1
        BY <2>7, <4>2
      <4>4. n > 0 => n \in 1..n
        BY <2>3
      <4> QED
        BY <2>6, <2>7, <4>1, <4>3, <4>4
    <3>2. CASE t.pending # << >>
      <4>1. PICK x \in V : t.pending = <<x>> /\ x.at = t.offset
        BY <2>3, <3>2 DEF Waits, V
      <4>2. <<x>> \in Seq(V) /\ Len(<<x>>) = 1 /\ <<x>>[1] = x
        BY <4>1
      <4>3. /\ text \in Seq(V) /\ Len(text) = 1 + n
            /\ \A i \in 1..(1 + n) : text[i] = IF i <= 1 THEN <<x>>[i] ELSE read[i - 1]
        BY <2>6, <4>1, <4>2, ConcatProperties
      <4> HIDE DEF text
      <4>4. \A i \in 1..(1 + n) : text[i].at = t.offset + (i - 1)
        <5> SUFFICES ASSUME NEW i \in 1..(1 + n) PROVE text[i].at = t.offset + (i - 1)
          OBVIOUS
        <5>1. CASE i = 1
          BY <2>3, <2>5, <4>1, <4>2, <4>3, <5>1
        <5>2. CASE i # 1
          <6>1. i - 1 \in 1..n /\ ~(i <= 1)
            BY <2>3, <5>2
          <6> QED
            BY <2>7, <4>3, <6>1
        <5> QED
          BY <5>1, <5>2
      <4>5. \A i \in 1..(1 + n) : i # 1 => i - 1 \in 1..(1 + n) /\ (t.offset + ((i - 1) - 1)) + 1 = t.offset + (i - 1)
        BY <2>3, <2>5
      <4>6. \A i \in 1..(1 + n) : i # 1 => text[i].at = text[i - 1].at + 1
        BY <4>4, <4>5
      <4>7. 1 + n \in 1..(1 + n) /\ t.offset + ((1 + n) - 1) = t.offset + n
        BY <2>3, <2>5
      <4> QED
        BY <4>3, <4>4, <4>6, <4>7
    <3> QED
      BY <3>1, <3>2
  <2> HIDE DEF text
  <2>9. CutGives(text)
    BY <2>8, CutKeeps DEF V
  <2>10. /\ cut.lines \in Seq(Seq(V)) /\ cut.rest \in Seq(V) /\ Flattened(cut.lines) \o cut.rest = text
         /\ cut.rest = << >> \/ (Len(text) > 0 /\ cut.rest = <<text[Len(text)]>> /\ ~T!EndsLine(text[Len(text)]))
    BY Zenon, <2>9 DEF CutGives, V
  <2> HIDE DEF cut
  <2>11. tail' = [fd |-> t.fd, offset |-> t.offset + n, pending |-> cut.rest]
    BY <2>1, <2>3, <2>6
  <2>12. tail'.fd = t.fd /\ tail'.offset = t.offset + n /\ tail'.pending = cut.rest
    BY <2>11
  <2>13. t.offset + n \in 0..MaxSize
    BY <2>3, <2>4, <2>5
  <2>14. tail' \in [fd : Inodes \union {Nothing}, offset : 0..MaxSize, pending : Seq(V)]
    BY <2>5, <2>10, <2>11, <2>13
  <2>15. told' \in Seq(Seq(V))
    <3>1. told \in Seq(Seq(V)) /\ cut.lines \in Seq(Seq(V))
      BY <2>4, <2>10 DEF TailFits, V
    <3> DEFINE W == Seq(V)
    <3>2. told \o cut.lines \in Seq(W)
      BY <3>1, ConcatProperties
    <3> QED
      BY <2>1, <3>1, <3>2
  <2>16. expected' \in [file : Inodes \union {Nothing}, life : Nat, at : 0..MaxSize]
    BY <2>1, <2>3, <2>4, <2>5 DEF TailFits
  <2>17. blurred' \in BOOLEAN
    <3>1. (blurred \/ (~anew /\ <<path, inode[path].life>> # <<expected.file, expected.life>>)
                   \/ (anew /\ tail.fd \notin {Nothing, path})) \in BOOLEAN
      BY Zenon
    <3> QED
      BY Zenon, <2>1, <3>1
  <2>18. TailFits'
    BY <2>1, <2>4, <2>14, <2>15, <2>16, <2>17 DEF TailFits, V
  <2>19. Waits(tail)'
    <3>1. CASE cut.rest = << >>
      BY <2>12, <3>1 DEF Waits
    <3>2. CASE Len(text) > 0 /\ cut.rest = <<text[Len(text)]>> /\ ~T!EndsLine(text[Len(text)])
      <4>1. text[Len(text)] \in TailPieces /\ text[Len(text)].at = tail'.offset
        BY <2>8, <2>12, <3>2 DEF V
      <4> QED
        BY <2>12, <3>2, <4>1 DEF Waits, T!EndsLine
    <3> QED
      BY <2>10, <3>1, <3>2
  <2>20. TailHolds'
    <3> SUFFICES ASSUME ~blurred'
                 PROVE  /\ expected'.file = t.fd /\ expected'.at <= t.offset + n
                        /\ Flattened(told') \o cut.rest
                             = HeldText(expected'.file, expected'.life, expected'.at, (t.offset + n) - expected'.at)
      BY <2>12 DEF TailHolds
    <3>0. t.fd \in Inodes \union {Nothing} /\ life \in Nat
      BY <2>5
    <3>1. CASE anew
      <4>1. expected' = [file |-> t.fd, life |-> life, at |-> t.offset] /\ told' = cut.lines /\ t.pending = << >>
        BY <2>1, <2>3, <3>1
      <4>2. expected'.file = t.fd /\ expected'.life = life /\ expected'.at = t.offset
        BY <4>1
      <4>3. t.offset <= t.offset + n /\ (t.offset + n) - t.offset = n
        BY <2>3, <2>5
      <4>4. text = read
        BY <2>6, <4>1, ConcatEmptySeq DEF text
      <4>5. Flattened(told') \o cut.rest = read
        BY Zenon, <2>10, <4>1, <4>4
      <4> QED
        BY <2>3, <4>2, <4>3, <4>5
    <3>2. CASE ~anew
      <4>1. expected' = expected /\ told' = told \o cut.lines /\ t = tail
        BY <2>1, <2>3, <3>2
      <4>2. ~blurred /\ tail.fd # Nothing /\ path = expected.file /\ inode[path].life = expected.life
        <5>1. ~blurred /\ <<path, inode[path].life>> = <<expected.file, expected.life>>
          BY Zenon, <2>1, <3>2
        <5> QED
          BY <3>2, <5>1
      <4>3. /\ expected.file = tail.fd /\ expected.at <= tail.offset
            /\ Flattened(told) \o tail.pending
                 = HeldText(expected.file, expected.life, expected.at, tail.offset - expected.at)
        BY <2>4, <4>2 DEF TailHolds
      <4> DEFINE from == expected.at
                 m == tail.offset - from
                 l == expected.life
                 f == t.fd
      <4>4. from \in Nat /\ m \in Nat /\ l \in Nat /\ from + m = t.offset /\ m + n = (t.offset + n) - from
            /\ from <= t.offset + n /\ f \in Inodes \union {Nothing}
        <5>1. expected.at \in Nat /\ expected.life \in Nat
          BY <2>4 DEF TailFits
        <5>2. t.offset \in Nat /\ tail.offset = t.offset /\ expected.at <= t.offset /\ n \in Nat
          BY <2>3, <2>5, <4>1, <4>3
        <5>3. t.fd \in Inodes \union {Nothing}
          BY <2>5
        <5> HIDE DEF f
        <5>4. f \in Inodes \union {Nothing}
          BY <5>3 DEF f
        <5> QED
          BY <5>1, <5>2, <5>4
      <4>5. life = l /\ expected.file = f
        BY <4>1, <4>2, <4>3 DEF life
      <4> HIDE DEF from, m, l, f
      <4>6. read = HeldText(f, l, from + m, n) /\ Flattened(told) \o tail.pending = HeldText(f, l, from, m)
        BY <2>3, <4>3, <4>4, <4>5 DEF f, m, l, from
      <4>7. HeldText(f, l, from, m) \o HeldText(f, l, from + m, n) = HeldText(f, l, from, m + n)
        <5>1. from \in Nat /\ m \in Nat /\ l \in Nat /\ n \in Nat
          BY <2>3, <4>4
        <5>2. f \in Inodes \union {Nothing}
          BY <4>4
        <5>3. HeldJoin(f, l, from, m, n)
          BY <5>1, <5>2, HeldOn
        <5> QED
          BY Zenon, <5>3 DEF HeldJoin
      <4>8. Flattened(told') \o cut.rest = (Flattened(told) \o tail.pending) \o read
        <5>1. told \in Seq(Seq(V)) /\ cut.lines \in Seq(Seq(V))
          BY <2>4, <2>10 DEF TailFits, V
        <5>2. /\ Flattened(told \o cut.lines) = Flattened(told) \o Flattened(cut.lines)
              /\ Flattened(told) \in Seq(V) /\ Flattened(cut.lines) \in Seq(V)
          BY <5>1, FlattenedConcat
        <5>3. tail.pending \in Seq(V) /\ cut.rest \in Seq(V) /\ read \in Seq(V)
          BY <2>5, <2>6, <2>10, <4>1
        <5>4. Grouped(V)
          BY JoinGrouped
        <5>5. (Flattened(told) \o Flattened(cut.lines)) \o cut.rest = Flattened(told) \o (Flattened(cut.lines) \o cut.rest)
          BY Zenon, <5>2, <5>3, <5>4 DEF Grouped
        <5>6. (Flattened(told) \o tail.pending) \o read = Flattened(told) \o (tail.pending \o read)
          BY Zenon, <5>2, <5>3, <5>4 DEF Grouped
        <5>7. Flattened(cut.lines) \o cut.rest = tail.pending \o read
          BY Zenon, <2>10, <4>1 DEF text
        <5> QED
          BY Zenon, <4>1, <5>2, <5>5, <5>6, <5>7
      <4>9. Flattened(told') \o cut.rest = HeldText(f, l, from, m + n)
        BY Zenon, <4>6, <4>7, <4>8
      <4>10. expected'.file = f /\ expected'.life = l /\ expected'.at = from
        BY <4>1, <4>5 DEF l, from
      <4> QED
        BY <4>4, <4>9, <4>10 DEF f
    <3> QED
      BY <3>1, <3>2
  <2>21. tail'.fd # Nothing
    BY <2>2, <2>12 DEF LookFinds
  <2> QED
    BY <2>18, <2>19, <2>20, <2>21 DEF TailInv
<1> QED
  BY <1>1, <1>2

LEMMA TailNextInv == TailInv /\ T!TailNext => TailInv'
<1> SUFFICES ASSUME TailInv, T!TailNext PROVE TailInv'
  OBVIOUS
<1>0. TailFits /\ MaxSize \in Nat
  BY ReadsAssumption DEF TailInv
(* Only the files change.                                                  *)
<1>1. ASSUME path' \in Inodes \union {Nothing}, inode' \in [Inodes -> [size : 0..MaxSize, life : Nat]],
             UNCHANGED <<tail, told, expected, blurred>>
      PROVE  TailInv'
  <2>1. TailFits'
    BY <1>0, <1>1 DEF TailFits
  <2>2. Waits(tail)' /\ TailHolds' /\ (tail.fd = Nothing => tail = T!Unopened)'
    BY <1>1 DEF TailInv, Waits, TailHolds, T!Unopened, T!EndsLine
  <2> QED
    BY <2>1, <2>2 DEF TailInv
<1>2. CASE T!Grows
  <2>1. /\ path \in Inodes /\ inode[path].size < MaxSize /\ inode \in [Inodes -> [size : 0..MaxSize, life : Nat]]
        /\ inode' = [inode EXCEPT ![path] = [inode[path] EXCEPT !.size = inode[path].size + 1]]
        /\ path' = path /\ UNCHANGED <<tail, told, expected, blurred>>
    BY <1>0, <1>2 DEF T!Grows, TailFits
  <2>2. [inode[path] EXCEPT !.size = inode[path].size + 1] \in [size : 0..MaxSize, life : Nat]
    BY <1>0, <2>1
  <2>3. inode' \in [Inodes -> [size : 0..MaxSize, life : Nat]]
    BY <2>1, <2>2
  <2> QED
    BY <1>1, <2>1, <2>3
<1>3. CASE T!Truncates
  <2>1. /\ path \in Inodes /\ inode \in [Inodes -> [size : 0..MaxSize, life : Nat]]
        /\ inode' = [inode EXCEPT ![path] = [size |-> 0, life |-> inode[path].life + 1]]
        /\ path' = path /\ UNCHANGED <<tail, told, expected, blurred>>
    BY <1>0, <1>3 DEF T!Truncates, TailFits
  <2>2. [size |-> 0, life |-> inode[path].life + 1] \in [size : 0..MaxSize, life : Nat]
    BY <1>0, <2>1
  <2>3. inode' \in [Inodes -> [size : 0..MaxSize, life : Nat]]
    BY <2>1, <2>2
  <2> QED
    BY <1>1, <2>1, <2>3
<1>4. CASE \E f \in Inodes \union {Nothing} : T!Replaces(f)
  BY <1>0, <1>1, <1>4 DEF T!Replaces, TailFits
<1>5. CASE T!Look
  BY <1>5, LookKeeps
<1>6. CASE T!CloseFd
  <2>1. tail' = T!Unopened /\ UNCHANGED <<path, inode, told, expected, blurred>>
    BY <1>6, Zenon DEF T!CloseFd
  <2> QED
    BY <2>1, TailClosed
<1> QED
  BY Zenon, <1>2, <1>3, <1>4, <1>5, <1>6 DEF T!TailNext

LEMMA TailStutterInv == TailInv /\ UNCHANGED tailVars => TailInv'
  BY DEF tailVars, TailInv, TailFits, Waits, TailHolds, T!Unopened, T!EndsLine

LEMMA TailInvGives == TailInv => T!TailTypeOK /\ T!TailExact
<1> SUFFICES ASSUME TailInv PROVE T!TailTypeOK /\ T!TailExact
  OBVIOUS
<1>1. TailFits /\ Waits(tail) /\ TailHolds
  BY DEF TailInv
<1>2. Len(tail.pending) <= 1
  <2>1. CASE tail.pending = << >>
    BY <2>1
  <2>2. CASE tail.pending # << >>
    <3>1. PICK x \in TailPieces : tail.pending = <<x>>
      BY <1>1, <2>2 DEF Waits
    <3> QED
      BY <3>1
  <2> QED
    BY <2>1, <2>2
<1>3. T!TailTypeOK
  BY <1>1, <1>2 DEF TailFits, T!TailTypeOK
<1>4. T!Flattened(told) = Flattened(told)
  BY Zenon DEF T!Flattened, Flattened
<1>5. T!TailExact
  BY Zenon, <1>1, <1>4 DEF T!TailExact, TailHolds, HeldText
<1> QED
  BY <1>3, <1>5

-----------------------------------------------------------------------------
(* The lines of the live log.                                              *)
Line == [id : Nat \ {0}, event : Events]
Apart(lines) == \A i, j \in 1..Len(lines) : lines[i].id = lines[j].id => i = j

LEMMA NumbersAre ==
  ASSUME NEW lines \in Seq(Line)
  PROVE  /\ Len(lines) \in Nat /\ \A i \in 1..Len(lines) : lines[i] \in Line /\ lines[i].id \in Nat \ {0}
         /\ \A n : n \in S!Numbers(lines) <=> \E i \in 1..Len(lines) : lines[i].id = n
         /\ S!Numbers(lines) \subseteq Nat \ {0} /\ S!Numbers(<< >>) = {} /\ << >> \in Seq(Line)
<1>1. DOMAIN lines = 1..Len(lines) /\ Len(lines) \in Nat /\ \A i \in 1..Len(lines) : lines[i] \in Line
  BY LenProperties
<1>2. \A l \in Line : l.id \in Nat \ {0}
  BY DEF Line
<1>3. S!Numbers(lines) = {lines[i].id : i \in 1..Len(lines)}
  BY <1>1 DEF S!Numbers
<1>4. DOMAIN << >> = {} /\ << >> \in Seq(Line)
  OBVIOUS
<1>5. S!Numbers(<< >>) = {}
  BY <1>4 DEF S!Numbers
<1> QED
  BY <1>1, <1>2, <1>3, <1>4, <1>5

LEMMA NumbersJoin ==
  ASSUME NEW a \in Seq(Line), NEW b \in Seq(Line)
  PROVE  a \o b \in Seq(Line) /\ S!Numbers(a \o b) = S!Numbers(a) \union S!Numbers(b)
<1> DEFINE c == a \o b
<1>1. Joined(c, Line, a, b)
  BY JoinIs
<1> HIDE DEF c
<1>2. c \in Seq(Line)
  BY <1>1 DEF Joined
<1>3. \A n : n \in S!Numbers(c) <=> \E i \in 1..Len(c) : c[i].id = n
  BY <1>2, NumbersAre
<1>4. \A n : n \in S!Numbers(a) <=> \E i \in 1..Len(a) : a[i].id = n
  BY NumbersAre
<1>5. \A n : n \in S!Numbers(b) <=> \E i \in 1..Len(b) : b[i].id = n
  BY NumbersAre
<1>6. ASSUME NEW n \in S!Numbers(c) PROVE n \in S!Numbers(a) \union S!Numbers(b)
  <2>1. PICK i \in 1..Len(c) : c[i].id = n
    BY <1>3, <1>6
  <2>2. i \in 1..Len(a) \/ \E j \in 1..Len(b) : i = Len(a) + j
    BY <1>1, <2>1 DEF Joined
  <2>3. CASE i \in 1..Len(a)
    BY <1>1, <1>4, <2>1, <2>3 DEF Joined
  <2>4. CASE \E j \in 1..Len(b) : i = Len(a) + j
    <3>1. PICK j \in 1..Len(b) : i = Len(a) + j
      BY <2>4
    <3>2. c[i] = b[j]
      BY <1>1, <3>1 DEF Joined
    <3> QED
      BY <1>5, <2>1, <3>2
  <2> QED
    BY <2>2, <2>3, <2>4
<1>7. ASSUME NEW n \in S!Numbers(a) PROVE n \in S!Numbers(c)
  <2>1. PICK i \in 1..Len(a) : a[i].id = n
    BY <1>4, <1>7
  <2>2. i \in 1..Len(c) /\ c[i] = a[i]
    BY <1>1 DEF Joined
  <2> QED
    BY <1>3, <2>1, <2>2
<1>8. ASSUME NEW n \in S!Numbers(b) PROVE n \in S!Numbers(c)
  <2>1. PICK i \in 1..Len(b) : b[i].id = n
    BY <1>5, <1>8
  <2>2. Len(a) + i \in 1..Len(c) /\ c[Len(a) + i] = b[i]
    BY <1>1 DEF Joined
  <2> QED
    BY <1>3, <2>1, <2>2
<1> QED
  BY <1>2, <1>6, <1>7, <1>8 DEF c

LEMMA NumbersOne ==
  ASSUME NEW l \in Line
  PROVE  <<l>> \in Seq(Line) /\ S!Numbers(<<l>>) = {l.id}
<1> DEFINE s == <<l>>
<1>1. s \in Seq(Line) /\ Len(s) = 1 /\ s[1] = l
  OBVIOUS
<1> HIDE DEF s
<1>2. \A n : n \in S!Numbers(s) <=> \E i \in 1..Len(s) : s[i].id = n
  BY <1>1, NumbersAre
<1>3. \A n : n \in S!Numbers(s) <=> n = l.id
  BY <1>1, <1>2
<1> QED
  BY <1>1, <1>3 DEF s

LEMMA NumbersAfterFirst ==
  ASSUME NEW s \in Seq(Line), s # << >>
  PROVE  /\ Tail(s) \in Seq(Line) /\ Head(s) \in Line /\ Head(s).id \in S!Numbers(s)
         /\ S!Numbers(s) = {Head(s).id} \union S!Numbers(Tail(s))
<1> DEFINE t == Tail(s)
           h == Head(s)
<1>1. t \in Seq(Line) /\ Len(s) \in Nat \ {0} /\ Len(t) = Len(s) - 1 /\ (\A i \in 1..Len(t) : t[i] = s[i + 1]) /\ h = s[1]
  BY HeadTailProperties, EmptySeq
<1> HIDE DEF t, h
<1>2. \A n : n \in S!Numbers(s) <=> \E i \in 1..Len(s) : s[i].id = n
  BY NumbersAre
<1>3. \A n : n \in S!Numbers(t) <=> \E i \in 1..Len(t) : t[i].id = n
  BY <1>1, NumbersAre
<1>4. h.id \in S!Numbers(s) /\ h \in Line
  <2>1. 1 \in 1..Len(s)
    BY <1>1
  <2> QED
    BY <1>1, <1>2, <2>1
<1>5. ASSUME NEW n \in S!Numbers(t) PROVE n \in S!Numbers(s)
  <2>1. PICK i \in 1..Len(t) : t[i].id = n
    BY <1>3, <1>5
  <2>2. i + 1 \in 1..Len(s) /\ t[i] = s[i + 1]
    BY <1>1
  <2> QED
    BY <1>2, <2>1, <2>2
<1>6. ASSUME NEW n \in S!Numbers(s), n # h.id PROVE n \in S!Numbers(t)
  <2>1. PICK i \in 1..Len(s) : s[i].id = n
    BY <1>2, <1>6
  <2>2. i # 1
    BY <1>1, <1>6, <2>1
  <2>3. i - 1 \in 1..Len(t) /\ (i - 1) + 1 = i
    BY <1>1, <2>2
  <2>4. t[i - 1] = s[i]
    BY <1>1, <2>3
  <2> QED
    BY <1>3, <2>1, <2>3, <2>4
<1> QED
  BY <1>1, <1>4, <1>5, <1>6 DEF t, h

(* The last n elements of a sequence.                                      *)
IsEnd(t, s) ==
    \E d \in 0..Len(s) : /\ Len(t) = Len(s) - d
                         /\ \A i \in 1..(Len(s) - d) : d + i \in 1..Len(s) /\ t[i] = s[d + i]
LEMMA TailOfIs ==
  ASSUME NEW V, NEW s \in Seq(V), NEW n \in Nat
  PROVE  /\ S!TailOf(s, n) \in Seq(V) /\ Len(S!TailOf(s, n)) <= n /\ Len(S!TailOf(s, n)) <= Len(s)
         /\ IsEnd(S!TailOf(s, n), s)
         /\ Len(s) <= n => S!TailOf(s, n) = s
         /\ Len(s) > n => Len(S!TailOf(s, n)) = n
<1> DEFINE t == S!TailOf(s, n)
           d == IF Len(s) > n THEN Len(s) - n ELSE 0
<1>1. Len(s) \in Nat
  OBVIOUS
<1>2. d \in 0..Len(s) /\ (Len(s) <= n => d = 0) /\ (Len(s) > n => d = Len(s) - n) /\ Len(s) - d <= n
  BY <1>1
<1>3. t = SubSeq(s, d + 1, Len(s))
  <2>1. CASE Len(s) > n
    BY <2>1 DEF S!TailOf
  <2>2. CASE ~(Len(s) > n)
    <3>1. t = s /\ d = 0
      BY <2>2 DEF S!TailOf
    <3>2. SubSeq(s, 1, Len(s)) = s
      BY SubSeqFull
    <3> HIDE DEF t, d
    <3>3. d + 1 = 1
      BY <3>1
    <3> QED
      BY <3>1, <3>2, <3>3
  <2> QED
    BY <2>1, <2>2
<1>4. ~(Len(s) > n) => t = s
  BY DEF S!TailOf
<1> HIDE DEF t, d
<1>5. t \in Seq(V) /\ Len(t) = Len(s) - d /\ \A i \in 1..(Len(s) - d) : t[i] = s[d + i]
  BY <1>2, <1>3, AfterIs
<1>6. \A i \in 1..(Len(s) - d) : d + i \in 1..Len(s)
  BY <1>1, <1>2
<1>7. Len(t) <= n /\ Len(t) <= Len(s) /\ (Len(s) > n => Len(t) = n) /\ (Len(s) <= n => t = s)
  BY <1>1, <1>2, <1>4, <1>5
<1>8. IsEnd(t, s)
  BY <1>2, <1>5, <1>6 DEF IsEnd
<1> QED
  BY <1>5, <1>7, <1>8 DEF t

LEMMA LinesBounded ==
  ASSUME NEW lines \in Seq(Line)
  PROVE  \E K \in Nat : \A i \in 1..Len(lines) : lines[i].id <= K
<1> DEFINE N == Len(lines)
           Good == {i \in 0..N : \E K \in Nat : \A j \in 1..i : lines[j].id <= K}
<1>1. N \in Nat /\ \A i \in 1..N : lines[i].id \in Nat
  BY NumbersAre
<1> HIDE DEF N
<1>2. 0 \in Good
  BY <1>1
<1>3. ASSUME NEW i \in 1..N, i - 1 \in Good PROVE i \in Good
  <2>1. PICK K \in Nat : \A j \in 1..(i - 1) : lines[j].id <= K
    BY <1>3
  <2>2. lines[i].id \in Nat
    BY <1>1
  <2> DEFINE M == IF lines[i].id <= K THEN K ELSE lines[i].id
  <2>3. M \in Nat /\ K <= M /\ lines[i].id <= M
    BY <2>2
  <2> HIDE DEF M
  <2>4. \A j \in 1..i : lines[j].id <= M
    <3> SUFFICES ASSUME NEW j \in 1..i PROVE lines[j].id <= M
      OBVIOUS
    <3>1. CASE j = i
      BY <2>3, <3>1
    <3>2. CASE j # i
      <4>1. j \in 1..(i - 1) /\ j \in 1..N
        BY <1>1, <3>2
      <4>2. lines[j].id \in Nat /\ lines[j].id <= K
        BY <1>1, <2>1, <4>1
      <4> QED
        BY <2>3, <4>2
    <3> QED
      BY <3>1, <3>2
  <2>5. i \in 0..N
    BY <1>1
  <2> QED
    BY <2>3, <2>4, <2>5
<1> HIDE DEF Good
<1>4. \A i \in 0..N : i \in Good
  BY <1>1, <1>2, <1>3, UptoAll
<1>5. N \in Good
  BY <1>1, <1>4
<1> QED
  BY <1>5 DEF Good, N

(* The lines of a set, one for every number.                               *)
Sorted(byId, s) ==
    /\ s \in Seq(Line) /\ \A k \in 1..Len(s) : s[k] \in byId
    /\ Apart(s)
    /\ \A l \in byId : \E k \in 1..Len(s) : s[k].id = l.id
LEMMA OrderedIs ==
  ASSUME NEW byId \in SUBSET Line, NEW K \in Nat, \A l \in byId : l.id <= K
  PROVE  Sorted(byId, S!Ordered(byId))
<1> DEFINE is == {l.id : l \in byId}
           last == CHOOSE n \in is \union {0} : \A m \in is : m <= n
           row == [n \in 1..last |-> n]
           order == Selected(row, is)
           s == S!Ordered(byId)
<1>1. is \subseteq Nat \ {0} /\ \A m \in is : m <= K
  BY DEF Line
<1>2. s = [k \in 1..Len(order) |-> CHOOSE l \in byId : l.id = order[k]]
  BY Zenon DEF S!Ordered, S!Selected, Selected
<1>3. \A m \in is : \E l \in byId : l.id = m
  OBVIOUS
<1>4. \A l \in byId : l.id \in is
  OBVIOUS
<1> HIDE DEF is
<1>5. \E n \in is \union {0} : \A m \in is : m <= n
  <2> DEFINE U == {n \in Nat : \A m \in is : m <= n}
  <2>1. K \in U
    BY <1>1
  <2>2. PICK x \in U : \A y \in U : x <= y
    BY <2>1, LeastNat
  <2>3. CASE x \in is \union {0}
    BY <2>2, <2>3
  <2>4. CASE x \notin is \union {0}
    <3>1. x \in Nat /\ x # 0 /\ x - 1 \in Nat /\ ~(x <= x - 1)
      BY <2>4
    <3>2. \A m \in is : m <= x - 1
      BY <1>1, <2>4, <3>1
    <3>3. x - 1 \in U
      BY <3>1, <3>2
    <3> QED
      BY <2>2, <3>1, <3>3
  <2> QED
    BY <2>3, <2>4
<1>6. last \in is \union {0} /\ \A m \in is : m <= last
  BY <1>5
<1> HIDE DEF last
<1>7. last \in Nat /\ \A m \in is : m \in 1..last
  BY <1>1, <1>6
<1>8. row \in Seq(Nat) /\ Len(row) = last /\ \A i \in 1..last : row[i] = i
  BY <1>7
<1> HIDE DEF row
<1>9. order \in Seq(Nat)
  BY <1>8, SelectedOrder
<1>10. PICK e : Order(e, row, order, is)
  BY <1>8, SelectedOrder
<1> HIDE DEF order
<1>11. Len(order) \in Nat /\ \A k \in 1..Len(order) : order[k] \in is /\ order[k] \in Nat
  BY <1>9, <1>10 DEF Order
<1>12. \A i, j \in 1..Len(order) : order[i] = order[j] => i = j
  <2> SUFFICES ASSUME NEW i \in 1..Len(order), NEW j \in 1..Len(order), i < j PROVE order[i] # order[j]
    BY <1>11
  <2>1. e[i] < e[j] /\ e[i] \in 1..last /\ e[j] \in 1..last /\ order[i] = row[e[i]] /\ order[j] = row[e[j]]
    BY <1>8, <1>10 DEF Order
  <2>2. order[i] = e[i] /\ order[j] = e[j]
    BY <1>8, <2>1
  <2> QED
    BY <1>7, <2>1, <2>2
<1>13. \A m \in is : \E k \in 1..Len(order) : order[k] = m
  <2> SUFFICES ASSUME NEW m \in is PROVE \E k \in 1..Len(order) : order[k] = m
    OBVIOUS
  <2>1. m \in 1..Len(row) /\ row[m] = m
    BY <1>7, <1>8
  <2>2. PICK k \in 1..Len(order) : e[k] = m
    BY <1>10, <2>1 DEF Order
  <2> QED
    BY <1>10, <2>1, <2>2 DEF Order
<1>14. \A k \in 1..Len(order) : (CHOOSE l \in byId : l.id = order[k]) \in byId /\ (CHOOSE l \in byId : l.id = order[k]).id = order[k]
  BY <1>3, <1>11
<1>15. \A k \in 1..Len(order) : s[k] \in byId /\ s[k].id = order[k]
  BY <1>2, <1>14
<1>16. s \in Seq(Line) /\ Len(s) = Len(order)
  <2>1. \A k \in 1..Len(order) : (CHOOSE l \in byId : l.id = order[k]) \in Line
    BY <1>14
  <2> HIDE DEF s
  <2>2. s \in [1..Len(order) -> Line]
    BY <1>2, <2>1
  <2> QED
    BY <1>11, <2>2
<1> HIDE DEF s
<1>17. Apart(s)
  BY <1>12, <1>15, <1>16 DEF Apart
<1>18. \A l \in byId : \E k \in 1..Len(s) : s[k].id = l.id
  BY <1>4, <1>13, <1>15, <1>16
<1>19. \A k \in 1..Len(s) : s[k] \in byId
  BY <1>15, <1>16
<1> QED
  BY Zenon, <1>16, <1>17, <1>18, <1>19 DEF s, Sorted

(* No two lines of a sequence have a number in common: it has no more      *)
(* lines than another that has all its numbers.                            *)
LEMMA NoLonger ==
  ASSUME NEW a \in Seq(Line), NEW b \in Seq(Line), Apart(a), S!Numbers(a) \subseteq S!Numbers(b)
  PROVE  Len(a) <= Len(b)
<1>1. Len(a) \in Nat /\ Len(b) \in Nat
  OBVIOUS
<1>2. \A n : n \in S!Numbers(a) <=> \E i \in 1..Len(a) : a[i].id = n
  BY NumbersAre
<1>3. \A n : n \in S!Numbers(b) <=> \E i \in 1..Len(b) : b[i].id = n
  BY NumbersAre
<1>4. \A i \in 1..Len(a) : \E j \in 1..Len(b) : b[j].id = a[i].id
  BY <1>2, <1>3
<1> DEFINE f == [i \in 1..Len(a) |-> CHOOSE j \in 1..Len(b) : b[j].id = a[i].id]
<1>5. f \in [1..Len(a) -> 1..Len(b)] /\ \A i \in 1..Len(a) : b[f[i]].id = a[i].id
  BY <1>4
<1> HIDE DEF f
<1>6. \A i, j \in 1..Len(a) : f[i] = f[j] => i = j
  BY <1>5 DEF Apart
<1>7. f \in Injection(1..Len(a), 1..Len(b))
  <2>1. IsInjective(f)
    BY <1>5, <1>6 DEF IsInjective
  <2> QED
    BY <1>5, <2>1 DEF Injection
<1>8. IsFiniteSet(1..Len(a)) /\ IsFiniteSet(1..Len(b))
  BY <1>1, FS_Interval
<1>9. Cardinality(1..Len(a)) <= Cardinality(1..Len(b))
  BY <1>7, <1>8, FS_Injection
<1>10. Cardinality(1..Len(a)) = Len(a) /\ Cardinality(1..Len(b)) = Len(b)
  <2>1. \A n \in Nat : Cardinality(1..n) = IF 1 > n THEN 0 ELSE n - 1 + 1
    BY FS_Interval
  <2>2. \A n \in Nat : (IF 1 > n THEN 0 ELSE n - 1 + 1) = n
    OBVIOUS
  <2> QED
    BY <1>1, <2>1, <2>2
<1> QED
  BY <1>9, <1>10

(* What a page has and a snapshot, put together.                           *)
MergeGives(lines, more) ==
    /\ S!Merged(lines, more) \in Seq(Line) /\ Apart(S!Merged(lines, more))
    /\ S!Numbers(S!Merged(lines, more)) = S!Numbers(lines) \union S!Numbers(more)
    /\ Apart(lines) => Len(lines) <= Len(S!Merged(lines, more))
LEMMA MergedIs ==
  ASSUME NEW lines \in Seq(Line), NEW more \in Seq(Line)
  PROVE  MergeGives(lines, more)
<1> DEFINE s == S!Merged(lines, more)
           byId == S!ToSet(lines) \union {l \in S!ToSet(more) : l.id \notin S!Numbers(lines)}
<1>1. s = S!Ordered(byId)
  BY Zenon DEF S!Merged
<1>2. S!ToSet(lines) = {lines[i] : i \in 1..Len(lines)} /\ S!ToSet(more) = {more[i] : i \in 1..Len(more)}
  BY LenProperties DEF S!ToSet
<1>3. byId \in SUBSET Line
  BY <1>2, NumbersAre
<1>4. PICK K \in Nat : \A i \in 1..Len(lines) : lines[i].id <= K
  BY LinesBounded
<1>5. PICK M \in Nat : \A i \in 1..Len(more) : more[i].id <= M
  BY LinesBounded
<1>6. (\A i \in 1..Len(lines) : lines[i].id \in Nat) /\ (\A i \in 1..Len(more) : more[i].id \in Nat)
  BY NumbersAre
<1>7. K + M \in Nat /\ \A x \in Nat : (x <= K \/ x <= M) => x <= K + M
  OBVIOUS
<1>8. \A l \in byId : \/ \E i \in 1..Len(lines) : l = lines[i]
                      \/ \E i \in 1..Len(more) : l = more[i]
  BY <1>2
<1>9. \A i \in 1..Len(lines) : lines[i] \in byId
  BY <1>2
<1>10. \A i \in 1..Len(more) : more[i].id \notin S!Numbers(lines) => more[i] \in byId
  BY <1>2
<1> HIDE DEF byId
<1>11. \A l \in byId : l.id <= K + M
  BY <1>4, <1>5, <1>6, <1>7, <1>8
<1>12. Sorted(byId, S!Ordered(byId))
  BY <1>3, <1>7, <1>11, OrderedIs
<1>13. Sorted(byId, s)
  BY Zenon, <1>1, <1>12
<1> HIDE DEF s
<1>14. s \in Seq(Line) /\ Apart(s)
  BY <1>13 DEF Sorted
<1>15. \A n : n \in S!Numbers(s) <=> \E i \in 1..Len(s) : s[i].id = n
  BY <1>14, NumbersAre
<1>16. \A n : n \in S!Numbers(lines) <=> \E i \in 1..Len(lines) : lines[i].id = n
  BY NumbersAre
<1>17. \A n : n \in S!Numbers(more) <=> \E i \in 1..Len(more) : more[i].id = n
  BY NumbersAre
<1>18. \A l \in byId : l.id \in S!Numbers(s)
  BY <1>13, <1>15 DEF Sorted
<1>19. S!Numbers(s) \subseteq S!Numbers(lines) \union S!Numbers(more)
  <2> SUFFICES ASSUME NEW n \in S!Numbers(s) PROVE n \in S!Numbers(lines) \union S!Numbers(more)
    OBVIOUS
  <2>1. PICK k \in 1..Len(s) : s[k].id = n
    BY <1>15
  <2>2. s[k] \in byId
    BY <1>13 DEF Sorted
  <2> QED
    BY <1>8, <1>16, <1>17, <2>1, <2>2
<1>20. S!Numbers(lines) \subseteq S!Numbers(s)
  BY <1>9, <1>16, <1>18
<1>21. S!Numbers(more) \subseteq S!Numbers(s)
  BY <1>10, <1>17, <1>18, <1>20
<1>22. Apart(lines) => Len(lines) <= Len(s)
  BY <1>14, <1>20, NoLonger
<1> QED
  BY <1>14, <1>19, <1>20, <1>21, <1>22 DEF s, MergeGives

-----------------------------------------------------------------------------
(* What a page computes from its updates.                                  *)
Update == [op : {"snapshot", "line", "clear"}, lines : Seq(Line)]
Pages == [ids : SUBSET (Nat \ {0}), lines : Seq(Line), updates : Seq(Update), rendering : BOOLEAN]

LEMMA ComputedIs ==
  ASSUME NEW p \in Pages, NEW u \in Update
  PROVE  /\ S!Computed(p, u) \in Pages
         /\ S!Computed(p, u).updates = p.updates /\ S!Computed(p, u).rendering = p.rendering
         /\ u.op = "snapshot" => /\ S!Computed(p, u).lines = S!Merged(p.lines, u.lines)
                                 /\ S!Computed(p, u).ids = p.ids \union S!Numbers(S!Merged(p.lines, u.lines))
         /\ u.op = "line" => /\ S!Computed(p, u).lines = S!TailOf(p.lines, MaxView - 1) \o u.lines
                             /\ S!Computed(p, u).ids = p.ids
         /\ u.op = "clear" => S!Computed(p, u).lines = << >> /\ S!Computed(p, u).ids = p.ids
<1> DEFINE q == S!Computed(p, u)
<1>1. /\ p = [ids |-> p.ids, lines |-> p.lines, updates |-> p.updates, rendering |-> p.rendering]
      /\ p.ids \in SUBSET (Nat \ {0}) /\ p.lines \in Seq(Line) /\ p.updates \in Seq(Update) /\ p.rendering \in BOOLEAN
  BY DEF Pages
<1>2. u.op \in {"snapshot", "line", "clear"} /\ u.lines \in Seq(Line)
  BY DEF Update
<1>3. CASE u.op = "snapshot"
  <2> DEFINE m == S!Merged(p.lines, u.lines)
  <2>1. MergeGives(p.lines, u.lines)
    BY <1>1, <1>2, MergedIs
  <2>2. m \in Seq(Line)
    BY <2>1 DEF MergeGives
  <2>3. q = [p EXCEPT !.lines = m, !.ids = p.ids \union S!Numbers(m)]
    BY <1>3 DEF S!Computed
  <2> HIDE DEF m, q
  <2>4. S!Numbers(m) \subseteq Nat \ {0}
    BY <2>2, NumbersAre
  <2>5. q = [ids |-> p.ids \union S!Numbers(m), lines |-> m, updates |-> p.updates, rendering |-> p.rendering]
    BY <1>1, <2>3
  <2>6. q \in Pages
    BY <1>1, <2>2, <2>4, <2>5 DEF Pages
  <2>7. q.ids = p.ids \union S!Numbers(m) /\ q.lines = m /\ q.updates = p.updates /\ q.rendering = p.rendering
    BY <2>5
  <2> QED
    BY <1>3, <2>6, <2>7 DEF m, q
<1>4. CASE u.op = "line"
  <2> DEFINE m == S!TailOf(p.lines, MaxView - 1) \o u.lines
  <2>1. MaxView - 1 \in Nat
    BY ReadsAssumption
  <2>2. S!TailOf(p.lines, MaxView - 1) \in Seq(Line)
    BY <1>1, <2>1, TailOfIs
  <2>3. m \in Seq(Line)
    BY <1>2, <2>2, NumbersJoin
  <2>4. q = [p EXCEPT !.lines = m]
    BY <1>4 DEF S!Computed
  <2> HIDE DEF m, q
  <2>5. q = [ids |-> p.ids, lines |-> m, updates |-> p.updates, rendering |-> p.rendering]
    BY <1>1, <2>4
  <2>6. q \in Pages
    BY <1>1, <2>3, <2>5 DEF Pages
  <2>7. q.ids = p.ids /\ q.lines = m /\ q.updates = p.updates /\ q.rendering = p.rendering
    BY <2>5
  <2> QED
    BY <1>4, <2>6, <2>7 DEF m, q
<1>5. CASE u.op = "clear"
  <2>1. q = [p EXCEPT !.lines = << >>]
    BY <1>5 DEF S!Computed
  <2> HIDE DEF q
  <2>2. q = [ids |-> p.ids, lines |-> << >>, updates |-> p.updates, rendering |-> p.rendering]
    BY <1>1, <2>1
  <2>3. << >> \in Seq(Line)
    OBVIOUS
  <2>4. q \in Pages
    BY <1>1, <2>2, <2>3 DEF Pages
  <2>5. q.ids = p.ids /\ q.lines = << >> /\ q.updates = p.updates /\ q.rendering = p.rendering
    BY <2>2
  <2> QED
    BY <1>5, <2>4, <2>5 DEF q
<1> QED
  BY <1>2, <1>3, <1>4, <1>5

(* a has the lines of b, and knows the numbers of X besides.               *)
Like(a, b, X) == a.lines = b.lines /\ a.ids = b.ids \union X
LEMMA ComputedLike ==
  ASSUME NEW p \in Pages, NEW q \in Pages, NEW X, NEW u \in Update, Like(q, p, X)
  PROVE  Like(S!Computed(q, u), S!Computed(p, u), X)
<1> DEFINE a == S!Computed(p, u)
           b == S!Computed(q, u)
<1>1. /\ u.op = "snapshot" => /\ a.lines = S!Merged(p.lines, u.lines)
                              /\ a.ids = p.ids \union S!Numbers(S!Merged(p.lines, u.lines))
      /\ u.op = "line" => a.lines = S!TailOf(p.lines, MaxView - 1) \o u.lines /\ a.ids = p.ids
      /\ u.op = "clear" => a.lines = << >> /\ a.ids = p.ids
  BY ComputedIs
<1>2. /\ u.op = "snapshot" => /\ b.lines = S!Merged(q.lines, u.lines)
                              /\ b.ids = q.ids \union S!Numbers(S!Merged(q.lines, u.lines))
      /\ u.op = "line" => b.lines = S!TailOf(q.lines, MaxView - 1) \o u.lines /\ b.ids = q.ids
      /\ u.op = "clear" => b.lines = << >> /\ b.ids = q.ids
  BY ComputedIs
<1>3. u.op \in {"snapshot", "line", "clear"}
  BY DEF Update
<1>4. q.lines = p.lines /\ q.ids = p.ids \union X
  BY DEF Like
<1> HIDE DEF a, b
<1>5. CASE u.op = "snapshot"
  <2>1. a.lines = b.lines
    BY <1>1, <1>2, <1>4, <1>5
  <2>2. b.ids = (p.ids \union X) \union S!Numbers(S!Merged(p.lines, u.lines))
    BY <1>2, <1>4, <1>5
  <2>3. a.ids = p.ids \union S!Numbers(S!Merged(p.lines, u.lines))
    BY <1>1, <1>5
  <2>4. b.ids = a.ids \union X
    BY <2>2, <2>3
  <2> QED
    BY <2>1, <2>4 DEF Like, a, b
<1>6. CASE u.op = "line"
  <2>1. a.lines = b.lines
    BY <1>1, <1>2, <1>4, <1>6
  <2>2. b.ids = a.ids \union X
    BY <1>1, <1>2, <1>4, <1>6
  <2> QED
    BY <2>1, <2>2 DEF Like, a, b
<1>7. CASE u.op = "clear"
  <2>1. a.lines = b.lines
    BY <1>1, <1>2, <1>7
  <2>2. b.ids = a.ids \union X
    BY <1>1, <1>2, <1>4, <1>7
  <2> QED
    BY <2>1, <2>2 DEF Like, a, b
<1> QED
  BY <1>3, <1>5, <1>6, <1>7

(* f holds what a page is after each of the updates that wait.            *)
Renders(f, p) == f = [i \in 0..Len(p.updates) |-> IF i = 0 THEN p ELSE S!Computed(f[i - 1], p.updates[i])]
RendersAlong(f, p, A) ==
    /\ f \in [0..Len(p.updates) -> A] /\ f[0] = p /\ \A i \in 1..Len(p.updates) : f[i] = S!Computed(f[i - 1], p.updates[i])
    /\ S!Rendered(p) = f[Len(p.updates)]
LEMMA RendersExist ==
  ASSUME NEW p, NEW A, Len(p.updates) \in Nat, p \in A, \A a \in A, i \in 1..Len(p.updates) : S!Computed(a, p.updates[i]) \in A
  PROVE  \E f : RendersAlong(f, p, A)
<1> DEFINE N == Len(p.updates)
           base == p
           step == [x \in A \X (1..N) |-> S!Computed(x[1], p.updates[x[2]])]
<1>1. N \in Nat /\ base \in A
  OBVIOUS
<1>2. \A a \in A, i \in 1..N : S!Computed(a, p.updates[i]) \in A
  OBVIOUS
<1> HIDE DEF N, base
<1>3. \A a \in A, i \in 1..N : step[<<a, i>>] = S!Computed(a, p.updates[i])
  OBVIOUS
<1>4. step \in [A \X (1..N) -> A]
  <2>1. ASSUME NEW x \in A \X (1..N) PROVE S!Computed(x[1], p.updates[x[2]]) \in A
    <3>1. x[1] \in A /\ x[2] \in 1..N
      OBVIOUS
    <3> QED
      BY <1>2, <3>1
  <2> QED
    BY <2>1
<1> HIDE DEF step
<1>5. PICK g : Recurses(g, A, base, N, step)
  BY <1>1, <1>4, RecursionExists
<1>6. g \in [0..N -> A] /\ g[0] = base /\ \A i \in 1..N : g[i] = step[<<g[i - 1], i>>]
  BY <1>5 DEF Recurses
<1>7. \A i \in 0..N : g[i] = IF i = 0 THEN base ELSE S!Computed(g[i - 1], p.updates[i])
  <2> SUFFICES ASSUME NEW i \in 0..N, i # 0 PROVE g[i] = S!Computed(g[i - 1], p.updates[i])
    BY <1>6
  <2>1. i \in 1..N /\ i - 1 \in 0..N
    BY <1>1
  <2>2. g[i - 1] \in A
    BY <1>6, <2>1
  <2> QED
    BY <1>3, <1>6, <2>1, <2>2
<1>8. Renders(g, p)
  <2>1. g = [i \in 0..N |-> g[i]]
    BY <1>6
  <2>2. g = [i \in 0..N |-> IF i = 0 THEN base ELSE S!Computed(g[i - 1], p.updates[i])]
    BY <1>7, <2>1
  <2> QED
    BY Zenon, <2>2 DEF Renders, N, base
<1>9. Renders(CHOOSE h : Renders(h, p), p)
  BY <1>8
<1>10. S!Rendered(p) = (CHOOSE h : Renders(h, p))[Len(p.updates)]
  BY Zenon DEF S!Rendered, S!Computed, Renders
<1> DEFINE f == CHOOSE h : Renders(h, p)
<1>11. Renders(f, p) /\ S!Rendered(p) = f[Len(p.updates)]
  BY <1>9, <1>10
<1> HIDE DEF f
<1>12. f = [i \in 0..N |-> IF i = 0 THEN base ELSE S!Computed(f[i - 1], p.updates[i])]
  BY Zenon, <1>11 DEF Renders, N, base
<1>13. f[0] = base /\ \A i \in 1..N : f[i] = S!Computed(f[i - 1], p.updates[i])
  <2>1. 0 \in 0..N /\ \A i \in 1..N : i \in 0..N /\ i # 0
    BY <1>1
  <2>2. \A i \in 0..N : f[i] = IF i = 0 THEN base ELSE S!Computed(f[i - 1], p.updates[i])
    BY <1>12
  <2> QED
    BY <2>1, <2>2
<1>14. \A i \in 1..N : f[i - 1] \in A => f[i] \in A
  BY <1>2, <1>13
<1>15. \A i \in 0..N : f[i] \in A
  BY <1>1, <1>13, <1>14, RecursionKeeps
<1>16. f \in [0..N -> A]
  <2>1. f = [i \in 0..N |-> f[i]]
    BY Zenon, <1>12
  <2> QED
    BY <1>15, <2>1
<1>17. RendersAlong(f, p, A)
  BY <1>11, <1>13, <1>16 DEF RendersAlong, N, base
<1> QED
  BY <1>17

RenderGives(f, p) ==
    /\ RendersAlong(f, p, Pages)
    /\ S!Rendered(p) \in Pages /\ S!Rendered(p).updates = p.updates /\ S!Rendered(p).rendering = p.rendering
    /\ p.updates = << >> => S!Rendered(p) = p
LEMMA RenderedIs ==
  ASSUME NEW p \in Pages
  PROVE  \E f : RenderGives(f, p)
<1> DEFINE A == {a \in Pages : a.updates = p.updates /\ a.rendering = p.rendering}
           N == Len(p.updates)
<1>1. p.updates \in Seq(Update) /\ N \in Nat /\ \A i \in 1..N : p.updates[i] \in Update
  BY DEF Pages
<1>2. p \in A
  OBVIOUS
<1>3. ASSUME NEW a \in A, NEW i \in 1..N PROVE S!Computed(a, p.updates[i]) \in A
  BY <1>1, ComputedIs
<1> HIDE DEF A
<1>4. \A a \in A, i \in 1..Len(p.updates) : S!Computed(a, p.updates[i]) \in A
  BY <1>3
<1>5. Len(p.updates) \in Nat
  BY <1>1
<1>6. PICK f : RendersAlong(f, p, A)
  BY <1>2, <1>4, <1>5, RendersExist
<1>7. A \subseteq Pages
  BY DEF A
<1>8. f \in [0..N -> A] /\ f[0] = p /\ S!Rendered(p) = f[N]
  BY <1>6 DEF RendersAlong
<1>9. f \in [0..N -> Pages]
  BY <1>7, <1>8
<1>10. RendersAlong(f, p, Pages)
  BY <1>6, <1>9 DEF RendersAlong
<1>11. f[N] \in A
  BY <1>1, <1>8
<1>12. S!Rendered(p) \in Pages /\ S!Rendered(p).updates = p.updates /\ S!Rendered(p).rendering = p.rendering
  BY <1>8, <1>11 DEF A
<1>13. p.updates = << >> => S!Rendered(p) = p
  BY <1>8
<1> QED
  BY <1>10, <1>12, <1>13 DEF RenderGives

(* A page like another one, with updates that go on from the other's.      *)
LEMMA RendersLike ==
  ASSUME NEW p \in Pages, NEW q \in Pages, NEW f, NEW g, NEW X,
         RendersAlong(f, p, Pages), RendersAlong(g, q, Pages), Like(q, p, X), Len(p.updates) <= Len(q.updates),
         \A i \in 1..Len(p.updates) : q.updates[i] = p.updates[i]
  PROVE  \A i \in 0..Len(p.updates) : Like(g[i], f[i], X) /\ f[i] \in Pages /\ g[i] \in Pages
<1> DEFINE N == Len(p.updates)
           M == Len(q.updates)
           Good == {i \in 0..N : Like(g[i], f[i], X)}
<1>1. N \in Nat /\ M \in Nat /\ N <= M /\ \A i \in 1..N : p.updates[i] \in Update
  BY DEF Pages
<1>2. f \in [0..N -> Pages] /\ f[0] = p /\ \A i \in 1..N : f[i] = S!Computed(f[i - 1], p.updates[i])
  BY DEF RendersAlong
<1>3. g \in [0..M -> Pages] /\ g[0] = q /\ \A i \in 1..M : g[i] = S!Computed(g[i - 1], q.updates[i])
  BY DEF RendersAlong
<1> HIDE DEF N, M
<1>4. \A i \in 0..N : f[i] \in Pages /\ g[i] \in Pages
  BY <1>1, <1>2, <1>3
<1>5. 0 \in Good
  BY <1>1, <1>2, <1>3
<1>6. ASSUME NEW i \in 1..N, i - 1 \in Good PROVE i \in Good
  <2>1. i - 1 \in 0..N /\ i \in 0..N /\ i \in 1..M
    BY <1>1
  <2>2. Like(g[i - 1], f[i - 1], X) /\ f[i - 1] \in Pages /\ g[i - 1] \in Pages
    BY <1>4, <1>6, <2>1
  <2>3. q.updates[i] = p.updates[i] /\ p.updates[i] \in Update
    BY <1>1 DEF N
  <2>4. Like(S!Computed(g[i - 1], p.updates[i]), S!Computed(f[i - 1], p.updates[i]), X)
    BY <2>2, <2>3, ComputedLike
  <2>5. f[i] = S!Computed(f[i - 1], p.updates[i]) /\ g[i] = S!Computed(g[i - 1], p.updates[i])
    BY <1>2, <1>3, <2>1, <2>3
  <2> QED
    BY <2>1, <2>4, <2>5
<1> HIDE DEF Good
<1>7. \A i \in 0..N : i \in Good
  BY <1>1, <1>5, <1>6, UptoAll
<1> QED
  BY <1>4, <1>7 DEF Good, N

LEMMA RenderedLike ==
  ASSUME NEW p \in Pages, NEW q \in Pages, NEW X, Like(q, p, X), q.updates = p.updates
  PROVE  Like(S!Rendered(q), S!Rendered(p), X)
<1>1. PICK f : RenderGives(f, p)
  BY RenderedIs
<1>2. PICK g : RenderGives(g, q)
  BY RenderedIs
<1>3. RendersAlong(f, p, Pages) /\ RendersAlong(g, q, Pages)
  BY <1>1, <1>2 DEF RenderGives
<1>4. Len(p.updates) \in Nat
  BY DEF Pages
<1>5. Len(p.updates) <= Len(q.updates) /\ \A i \in 1..Len(p.updates) : q.updates[i] = p.updates[i]
  BY <1>4
<1>6. \A i \in 0..Len(p.updates) : Like(g[i], f[i], X) /\ f[i] \in Pages /\ g[i] \in Pages
  BY <1>3, <1>5, RendersLike
<1>7. S!Rendered(p) = f[Len(p.updates)] /\ S!Rendered(q) = g[Len(p.updates)]
  BY <1>3 DEF RendersAlong
<1> QED
  BY <1>4, <1>6, <1>7

LEMMA RenderedAppend ==
  ASSUME NEW p \in Pages, NEW q \in Pages, NEW u \in Update, Like(q, p, {}), q.updates = Append(p.updates, u)
  PROVE  Like(S!Rendered(q), S!Computed(S!Rendered(p), u), {})
<1> DEFINE N == Len(p.updates)
<1>1. PICK f : RenderGives(f, p)
  BY RenderedIs
<1>2. PICK g : RenderGives(g, q)
  BY RenderedIs
<1>3. RendersAlong(f, p, Pages) /\ RendersAlong(g, q, Pages)
  BY <1>1, <1>2 DEF RenderGives
<1>4. N \in Nat /\ p.updates \in Seq(Update)
  BY DEF Pages
<1>5. Len(q.updates) = N + 1 /\ q.updates[N + 1] = u /\ \A i \in 1..N : q.updates[i] = p.updates[i]
  BY <1>4, AppendProperties
<1>6. \A i \in 0..Len(p.updates) : Like(g[i], f[i], {}) /\ f[i] \in Pages /\ g[i] \in Pages
  <2>1. Len(p.updates) <= Len(q.updates) /\ \A i \in 1..Len(p.updates) : q.updates[i] = p.updates[i]
    BY <1>4, <1>5
  <2> QED
    BY <1>3, <2>1, RendersLike
<1>7. S!Rendered(p) = f[N] /\ S!Rendered(q) = g[N + 1]
  BY <1>3, <1>5 DEF RendersAlong
<1>8. g[N + 1] = S!Computed(g[N], u)
  <2>1. N + 1 \in 1..Len(q.updates) /\ (N + 1) - 1 = N
    BY <1>4, <1>5
  <2>2. g[N + 1] = S!Computed(g[(N + 1) - 1], q.updates[N + 1])
    BY <1>3, <2>1 DEF RendersAlong
  <2> QED
    BY <1>5, <2>1, <2>2
<1>9. Like(g[N], f[N], {}) /\ f[N] \in Pages /\ g[N] \in Pages
  BY <1>4, <1>6
<1>10. Like(S!Computed(g[N], u), S!Computed(f[N], u), {})
  BY <1>9, ComputedLike
<1> QED
  BY <1>7, <1>8, <1>10

(* What setLines makes of a page, seen through the next render.            *)
SetGives(q, p, u) ==
    /\ q \in Pages /\ q.rendering = TRUE
    /\ Like(S!Rendered(q), S!Computed(S!Rendered(p), u), {})
    /\ \/ q.lines = p.lines /\ q.ids = p.ids /\ q.updates = Append(p.updates, u)
       \/ q.lines = S!Rendered(q).lines /\ q.ids = S!Rendered(q).ids /\ q.updates = << >> /\ p.updates = << >>
LEMMA SetLinesIs ==
  ASSUME NEW p \in Pages, NEW u \in Update, p.updates # << >> => p.rendering = TRUE
  PROVE  SetGives(S!SetLines(p, u), p, u)
<1> DEFINE q == S!SetLines(p, u)
<1>1. /\ p = [ids |-> p.ids, lines |-> p.lines, updates |-> p.updates, rendering |-> p.rendering]
      /\ p.ids \in SUBSET (Nat \ {0}) /\ p.lines \in Seq(Line) /\ p.updates \in Seq(Update) /\ p.rendering \in BOOLEAN
  BY DEF Pages
<1>2. CASE p.rendering = TRUE
  <2>1. q = [p EXCEPT !.updates = Append(p.updates, u)]
    BY <1>2 DEF S!SetLines
  <2> DEFINE v == Append(p.updates, u)
  <2>2. v \in Seq(Update)
    BY <1>1
  <2>3. q = [p EXCEPT !.updates = v]
    BY <2>1
  <2> HIDE DEF q, v
  <2>4. q = [ids |-> p.ids, lines |-> p.lines, updates |-> v, rendering |-> p.rendering]
    BY <1>1, <2>3
  <2>5. q \in Pages
    BY <1>1, <2>2, <2>4 DEF Pages
  <2>6. q.ids = p.ids /\ q.lines = p.lines /\ q.updates = v /\ q.rendering = TRUE
    BY <1>2, <2>4
  <2>7. Like(q, p, {})
    BY <2>6 DEF Like
  <2>8. q.updates = Append(p.updates, u)
    BY <2>6 DEF v
  <2>9. Like(S!Rendered(q), S!Computed(S!Rendered(p), u), {})
    BY <2>5, <2>7, <2>8, RenderedAppend
  <2> QED
    BY <2>5, <2>6, <2>8, <2>9 DEF SetGives, q
<1>3. CASE p.rendering # TRUE
  <2> DEFINE c == S!Computed(p, u)
  <2>1. c \in Pages /\ c.updates = p.updates
    BY ComputedIs
  <2>2. p.updates = << >>
    BY <1>3
  <2>3. q = [c EXCEPT !.rendering = TRUE]
    BY <1>1, <1>3 DEF S!SetLines
  <2> HIDE DEF c, q
  <2>4. c = [ids |-> c.ids, lines |-> c.lines, updates |-> c.updates, rendering |-> c.rendering]
    BY <2>1 DEF Pages
  <2>5. q = [ids |-> c.ids, lines |-> c.lines, updates |-> c.updates, rendering |-> TRUE]
    BY <2>3, <2>4
  <2>6. q \in Pages
    BY <2>1, <2>5 DEF Pages
  <2>7. q.ids = c.ids /\ q.lines = c.lines /\ q.updates = << >> /\ q.rendering = TRUE
    BY <2>1, <2>2, <2>5
  <2>8. S!Rendered(q) = q
    BY <2>6, <2>7, RenderedIs DEF RenderGives
  <2>9. S!Rendered(p) = p
    BY <2>2, RenderedIs DEF RenderGives
  <2>10. Like(S!Rendered(q), S!Computed(S!Rendered(p), u), {})
    BY <2>7, <2>8, <2>9 DEF Like, c
  <2> QED
    BY <2>2, <2>6, <2>7, <2>8, <2>10 DEF SetGives, q
<1> QED
  BY <1>2, <1>3

-----------------------------------------------------------------------------
(* What the hub keeps.                                                     *)
Distinct(s) == \A i, j \in 1..Len(s) : s[i] = s[j] => i = j
EventsApart(lines) == \A i, j \in 1..Len(lines) : lines[i].event = lines[j].event => i = j
HubOK(h) ==
    /\ h \in [lines : Seq(Line), seen : Seq(Events), next : Nat \ {0}]
    /\ Len(h.lines) <= MaxKept /\ Len(h.seen) <= Cardinality(Events)
    /\ Distinct(h.seen) /\ EventsApart(h.lines)
    /\ \A i \in 1..Len(h.lines) : h.lines[i].id < h.next /\ \E j \in 1..Len(h.seen) : h.seen[j] = h.lines[i].event

(* What the hub h may have become, and told, by feeding it events.         *)
Fed(h, fed) ==
    /\ HubOK(fed.hub) /\ h.next <= fed.hub.next
    /\ \A n \in S!Numbers(fed.out) : h.next <= n /\ n < fed.hub.next
    /\ \A n \in S!Numbers(fed.hub.lines) : n < h.next => n \in S!Numbers(h.lines)
Hubs == [lines : Seq(Line), seen : Seq(Events), next : Nat \ {0}]
Feds(h) == {fed \in [hub : Hubs, out : Seq(Line)] : Fed(h, fed)}

(* The keys of events are told apart: the hub has room for all of them.    *)
LEMMA KeysFit ==
  ASSUME NEW s \in Seq(Events), Distinct(s)
  PROVE  Len(s) <= Cardinality(Events)
<1>1. Len(s) \in Nat /\ s \in [1..Len(s) -> Events]
  OBVIOUS
<1>2. IsInjective(s)
  BY <1>1 DEF IsInjective, Distinct
<1>3. s \in Injection(1..Len(s), Events)
  BY <1>1, <1>2 DEF Injection
<1>4. Cardinality(1..Len(s)) <= Cardinality(Events)
  BY <1>3, ReadsAssumption, FS_Injection
<1>5. Cardinality(1..Len(s)) = Len(s)
  <2>1. Cardinality(1..Len(s)) = IF 1 > Len(s) THEN 0 ELSE Len(s) - 1 + 1
    BY <1>1, FS_Interval
  <2>2. (IF 1 > Len(s) THEN 0 ELSE Len(s) - 1 + 1) = Len(s)
    BY <1>1
  <2> QED
    BY <2>1, <2>2
<1> QED
  BY <1>4, <1>5

LEMMA UnfedIs ==
  ASSUME HubOK(hub)
  PROVE  S!Unfed \in Feds(hub)
<1> DEFINE fed == [hub |-> hub, out |-> << >>]
<1>1. S!Unfed = fed
  BY Zenon DEF S!Unfed
<1>2. hub \in Hubs /\ hub.next \in Nat \ {0} /\ hub.lines \in Seq(Line)
  BY DEF HubOK, Hubs
<1>3. << >> \in Seq(Line) /\ S!Numbers(<< >>) = {}
  BY <1>2, NumbersAre
<1>4. fed \in [hub : Hubs, out : Seq(Line)] /\ fed.hub = hub /\ fed.out = << >>
  BY <1>2, <1>3
<1> HIDE DEF fed
<1>5. Fed(hub, fed)
  BY <1>2, <1>3, <1>4 DEF Fed
<1> QED
  BY <1>1, <1>4, <1>5 DEF Feds

LEMMA FeedKeeps ==
  ASSUME NEW h, NEW fed \in Feds(h), NEW e \in Events, h.next \in Nat
  PROVE  S!FeedIfNew(fed, e) \in Feds(h)
<1> DEFINE k == fed.hub
           line == [id |-> k.next, event |-> e]
           all == Append(k.lines, line)
           lines == S!TailOf(all, MaxKept)
           keys == Append(k.seen, e)
           seen == S!TailOf(keys, Cardinality(Events))
           out == Append(fed.out, line)
           hub1 == [lines |-> lines, seen |-> keys, next |-> k.next + 1]
           fed1 == [hub |-> hub1, out |-> out]
<1>1. /\ fed = [hub |-> k, out |-> fed.out] /\ k \in Hubs /\ fed.out \in Seq(Line)
      /\ Fed(h, fed) /\ HubOK(k)
  BY DEF Feds, Fed
<1>2. /\ k = [lines |-> k.lines, seen |-> k.seen, next |-> k.next]
      /\ k.lines \in Seq(Line) /\ k.seen \in Seq(Events) /\ k.next \in Nat \ {0}
  BY <1>1 DEF Hubs
<1>3. CASE \E i \in 1..Len(k.seen) : k.seen[i] = e
  <2>1. S!Contains(k.seen, e)
    BY <1>3 DEF S!Contains
  <2>2. S!FeedIfNew(fed, e) = fed
    BY <2>1 DEF S!FeedIfNew
  <2> QED
    BY <2>2
<1>4. CASE \A i \in 1..Len(k.seen) : k.seen[i] # e
  <2>1. ~S!Contains(k.seen, e)
    BY <1>4 DEF S!Contains
  <2>2. S!FeedIfNew(fed, e) = S!Appended([fed EXCEPT !.hub = [fed.hub EXCEPT !.seen = seen]], e)
    BY Zenon, <2>1 DEF S!FeedIfNew
  <2>3. keys \in Seq(Events) /\ Len(keys) = Len(k.seen) + 1 /\ Len(k.seen) \in Nat
        /\ keys[Len(k.seen) + 1] = e /\ \A i \in 1..Len(k.seen) : keys[i] = k.seen[i]
    BY <1>2, AppendProperties
  <2> HIDE DEF keys
  <2>4. Distinct(keys)
    <3> SUFFICES ASSUME NEW i \in 1..Len(keys), NEW j \in 1..Len(keys), i < j, keys[i] = keys[j] PROVE FALSE
      BY <2>3 DEF Distinct
    <3>1. i \in 1..Len(k.seen)
      BY <2>3
    <3>2. CASE j \in 1..Len(k.seen)
      <4>1. Distinct(k.seen)
        BY <1>1 DEF HubOK
      <4>2. k.seen[i] = k.seen[j]
        BY <2>3, <3>1, <3>2
      <4>3. i = j
        BY <3>1, <3>2, <4>1, <4>2 DEF Distinct
      <4> QED
        BY <4>3
    <3>3. CASE j = Len(k.seen) + 1
      BY <1>4, <2>3, <3>1, <3>3
    <3> QED
      BY <2>3, <3>2, <3>3
  <2>5. Len(keys) <= Cardinality(Events) /\ Cardinality(Events) \in Nat
    BY <2>3, <2>4, KeysFit, ReadsAssumption, FS_CardinalityType
  <2>6. seen = keys
    BY <2>3, <2>5, TailOfIs
  <2>7. line \in Line /\ line.id = k.next /\ line.event = e
    BY <1>2 DEF Line
  <2> HIDE DEF line
  <2>8. all \in Seq(Line) /\ out \in Seq(Line) /\ Len(all) = Len(k.lines) + 1 /\ Len(k.lines) \in Nat
        /\ all[Len(k.lines) + 1] = line /\ \A i \in 1..Len(k.lines) : all[i] = k.lines[i]
    BY <1>1, <1>2, <2>7, AppendProperties
  <2> DEFINE was == [lines |-> k.lines, seen |-> keys, next |-> k.next]
  <2>9. [fed EXCEPT !.hub = [fed.hub EXCEPT !.seen = seen]] = [hub |-> was, out |-> fed.out]
    <3>1. [k EXCEPT !.seen = seen] = was
      BY <1>2, <2>6
    <3> HIDE DEF was
    <3>2. [fed EXCEPT !.hub = was] = [hub |-> was, out |-> fed.out]
      BY <1>1
    <3> QED
      BY <3>1, <3>2
  <2>10. S!Appended([hub |-> was, out |-> fed.out], e) = fed1
    <3> DEFINE x == [hub |-> was, out |-> fed.out]
    <3>1. x.hub = was /\ x.out = fed.out /\ was.lines = k.lines /\ was.seen = keys /\ was.next = k.next
      OBVIOUS
    <3> HIDE DEF x, was
    <3>2. S!Appended(x, e) = [hub |-> [x.hub EXCEPT !.lines = S!TailOf(Append(@, [id |-> x.hub.next, event |-> e]), MaxKept), !.next = @ + 1],
                              out |-> Append(x.out, [id |-> x.hub.next, event |-> e])]
      BY Zenon DEF S!Appended
    <3>3. [id |-> x.hub.next, event |-> e] = line
      BY <3>1 DEF line
    <3>4. S!Appended(x, e) = [hub |-> [was EXCEPT !.lines = S!TailOf(Append(was.lines, line), MaxKept), !.next = was.next + 1],
                              out |-> out]
      BY <3>1, <3>2, <3>3
    <3>5. S!TailOf(Append(was.lines, line), MaxKept) = lines
      BY <3>1
    <3> HIDE DEF lines, out
    <3>6. [was EXCEPT !.lines = lines, !.next = k.next + 1] = hub1
      <4> DEFINE next == k.next + 1
      <4>1. hub1 = [lines |-> lines, seen |-> keys, next |-> next]
        OBVIOUS
      <4> HIDE DEF next, hub1
      <4> DEFINE mid == [was EXCEPT !.lines = lines]
      <4>2. mid = [lines |-> lines, seen |-> keys, next |-> k.next]
        BY DEF was
      <4>3. [was EXCEPT !.lines = lines, !.next = next] = [mid EXCEPT !.next = next]
        OBVIOUS
      <4> HIDE DEF mid
      <4>4. [mid EXCEPT !.next = next] = [lines |-> lines, seen |-> keys, next |-> next]
        BY <4>2
      <4> QED
        BY <4>1, <4>3, <4>4 DEF next
    <3>7. S!Appended(x, e) = [hub |-> hub1, out |-> out]
      BY <3>1, <3>4, <3>5, <3>6
    <3> QED
      BY <3>7 DEF x
  <2>11. S!FeedIfNew(fed, e) = fed1
    BY <2>2, <2>9, <2>10
  <2> HIDE DEF was, all, out
  <2>12. MaxKept \in Nat
    BY ReadsAssumption
  <2>13. lines \in Seq(Line) /\ Len(lines) <= MaxKept
    BY <2>8, <2>12, TailOfIs
  <2>14. PICK d \in 0..Len(all) : /\ Len(lines) = Len(all) - d
                                  /\ \A i \in 1..(Len(all) - d) : d + i \in 1..Len(all) /\ lines[i] = all[d + i]
    <3>1. IsEnd(lines, all)
      BY <2>8, <2>12, TailOfIs
    <3> QED
      BY <3>1 DEF IsEnd
  <2> HIDE DEF lines, seen
  <2>15. hub1 \in Hubs /\ hub1.lines = lines /\ hub1.seen = keys /\ hub1.next = k.next + 1
    BY <1>2, <2>3, <2>13 DEF Hubs
  <2>16. fed1 \in [hub : Hubs, out : Seq(Line)] /\ fed1.hub = hub1 /\ fed1.out = out
    BY <2>8, <2>15
  <2> HIDE DEF hub1, fed1
  <2>17. \A i \in 1..Len(k.lines) : /\ k.lines[i].id < k.next /\ k.lines[i].id \in Nat
                                    /\ \E j \in 1..Len(k.seen) : k.seen[j] = k.lines[i].event
    BY <1>1, <1>2, NumbersAre DEF HubOK
  <2>18. \A i \in 1..Len(all) : \/ i \in 1..Len(k.lines) /\ all[i] = k.lines[i]
                                \/ i = Len(k.lines) + 1 /\ all[i] = line
    BY <2>8
  <2>19. EventsApart(all)
    <3> SUFFICES ASSUME NEW i \in 1..Len(all), NEW j \in 1..Len(all), i < j, all[i].event = all[j].event PROVE FALSE
      BY <2>8 DEF EventsApart
    <3>1. i \in 1..Len(k.lines) /\ all[i] = k.lines[i]
      BY <2>8, <2>18
    <3>2. CASE j \in 1..Len(k.lines)
      <4>1. EventsApart(k.lines)
        BY <1>1 DEF HubOK
      <4>2. k.lines[i].event = k.lines[j].event
        BY <2>8, <3>1, <3>2
      <4>3. i = j
        BY <3>1, <3>2, <4>1, <4>2 DEF EventsApart
      <4> QED
        BY <4>3
    <3>3. CASE j = Len(k.lines) + 1
      <4>1. k.lines[i].event = e
        BY <2>7, <2>8, <3>1, <3>3
      <4> QED
        BY <1>4, <2>17, <3>1, <4>1
    <3> QED
      BY <2>18, <3>2, <3>3
  <2>20. \A i \in 1..Len(all) : all[i].id < k.next + 1 /\ \E j \in 1..Len(keys) : keys[j] = all[i].event
    <3> SUFFICES ASSUME NEW i \in 1..Len(all)
                 PROVE  all[i].id < k.next + 1 /\ \E j \in 1..Len(keys) : keys[j] = all[i].event
      OBVIOUS
    <3>1. CASE i \in 1..Len(k.lines) /\ all[i] = k.lines[i]
      <4>1. PICK j \in 1..Len(k.seen) : k.seen[j] = k.lines[i].event
        BY <2>17, <3>1
      <4>2. j \in 1..Len(keys) /\ keys[j] = k.seen[j]
        BY <2>3, <4>1
      <4>3. k.lines[i].id < k.next + 1
        BY <1>2, <2>17, <3>1
      <4> QED
        BY <3>1, <4>1, <4>2, <4>3
    <3>2. CASE i = Len(k.lines) + 1 /\ all[i] = line
      <4>1. Len(k.seen) + 1 \in 1..Len(keys) /\ keys[Len(k.seen) + 1] = line.event
        BY <2>3, <2>7
      <4>2. line.id < k.next + 1
        BY <1>2, <2>7
      <4> QED
        BY <3>2, <4>1, <4>2
    <3> QED
      BY <2>18, <3>1, <3>2
  <2>21. \A i \in 1..Len(lines) : d + i \in 1..Len(all) /\ lines[i] = all[d + i]
    BY <2>14
  <2>22. EventsApart(lines)
    <3> SUFFICES ASSUME NEW i \in 1..Len(lines), NEW j \in 1..Len(lines), lines[i].event = lines[j].event PROVE i = j
      BY DEF EventsApart
    <3>1. d + i \in 1..Len(all) /\ d + j \in 1..Len(all) /\ all[d + i].event = all[d + j].event
      BY <2>21
    <3>2. d + i = d + j
      BY <2>19, <3>1 DEF EventsApart
    <3> QED
      BY <2>14, <3>2
  <2>23. HubOK(hub1)
    <3>1. hub1 \in [lines : Seq(Line), seen : Seq(Events), next : Nat \ {0}]
      BY <2>15 DEF Hubs
    <3>2. \A i \in 1..Len(lines) : lines[i].id < k.next + 1 /\ \E j \in 1..Len(keys) : keys[j] = lines[i].event
      BY <2>20, <2>21
    <3> QED
      BY <2>4, <2>5, <2>13, <2>15, <2>22, <3>1, <3>2 DEF HubOK
  <2>24. \A n : n \in S!Numbers(lines) <=> \E i \in 1..Len(lines) : lines[i].id = n
    BY <2>13, NumbersAre
  <2>25. \A n : n \in S!Numbers(k.lines) <=> \E i \in 1..Len(k.lines) : k.lines[i].id = n
    BY <1>2, NumbersAre
  <2>26. \A n \in S!Numbers(lines) : n \in S!Numbers(k.lines) \/ n = k.next
    <3> SUFFICES ASSUME NEW n \in S!Numbers(lines) PROVE n \in S!Numbers(k.lines) \/ n = k.next
      OBVIOUS
    <3>1. PICK i \in 1..Len(lines) : lines[i].id = n
      BY <2>24
    <3>2. d + i \in 1..Len(all) /\ all[d + i].id = n
      BY <2>21, <3>1
    <3> QED
      BY <2>7, <2>18, <2>25, <3>2
  <2>27. S!Numbers(out) = S!Numbers(fed.out) \union {k.next}
    <3>1. out = fed.out \o <<line>>
      BY <1>1, <2>7 DEF out
    <3>2. <<line>> \in Seq(Line) /\ S!Numbers(<<line>>) = {line.id}
      BY <2>7, NumbersOne
    <3>3. S!Numbers(fed.out \o <<line>>) = S!Numbers(fed.out) \union S!Numbers(<<line>>)
      BY <1>1, <3>2, NumbersJoin
    <3> QED
      BY <2>7, <3>1, <3>2, <3>3
  <2>28. /\ h.next <= k.next /\ k.next \in Nat
         /\ \A n \in S!Numbers(fed.out) : h.next <= n /\ n < k.next /\ n \in Nat
         /\ \A n \in S!Numbers(k.lines) : n < h.next => n \in S!Numbers(h.lines)
    BY <1>1, <1>2, NumbersAre DEF Fed
  <2>29. h.next <= k.next + 1 /\ k.next < k.next + 1 /\ ~(k.next < h.next)
    BY <2>28
  <2>30. \A n \in S!Numbers(fed.out) : n < k.next + 1
    BY <2>28
  <2>31. Fed(h, fed1)
    BY <2>15, <2>16, <2>23, <2>26, <2>27, <2>28, <2>29, <2>30 DEF Fed
  <2> QED
    BY <2>11, <2>16, <2>31 DEF Feds
<1> QED
  BY <1>3, <1>4

(* f holds what the hub is after each of the events that are offered.      *)
Feeds(f) == f = [i \in 0..Len(recorded) |-> IF i = 0 THEN S!Unfed ELSE S!FeedIfNew(f[i - 1], recorded[i])]
FeedsAlong(f, A) ==
    /\ f \in [0..Len(recorded) -> A] /\ f[0] = S!Unfed /\ \A i \in 1..Len(recorded) : f[i] = S!FeedIfNew(f[i - 1], recorded[i])
    /\ S!Synced = f[Len(recorded)]
LEMMA FeedsExist ==
  ASSUME NEW A, Len(recorded) \in Nat, S!Unfed \in A, \A a \in A, i \in 1..Len(recorded) : S!FeedIfNew(a, recorded[i]) \in A
  PROVE  \E f : FeedsAlong(f, A)
<1> DEFINE N == Len(recorded)
           base == S!Unfed
           step == [x \in A \X (1..N) |-> S!FeedIfNew(x[1], recorded[x[2]])]
<1>1. N \in Nat /\ base \in A
  OBVIOUS
<1>2. \A a \in A, i \in 1..N : S!FeedIfNew(a, recorded[i]) \in A
  OBVIOUS
<1> HIDE DEF N, base
<1>3. \A a \in A, i \in 1..N : step[<<a, i>>] = S!FeedIfNew(a, recorded[i])
  OBVIOUS
<1>4. step \in [A \X (1..N) -> A]
  <2>1. ASSUME NEW x \in A \X (1..N) PROVE S!FeedIfNew(x[1], recorded[x[2]]) \in A
    <3>1. x[1] \in A /\ x[2] \in 1..N
      OBVIOUS
    <3> QED
      BY <1>2, <3>1
  <2> QED
    BY <2>1
<1> HIDE DEF step
<1>5. PICK g : Recurses(g, A, base, N, step)
  BY <1>1, <1>4, RecursionExists
<1>6. g \in [0..N -> A] /\ g[0] = base /\ \A i \in 1..N : g[i] = step[<<g[i - 1], i>>]
  BY <1>5 DEF Recurses
<1>7. \A i \in 0..N : g[i] = IF i = 0 THEN base ELSE S!FeedIfNew(g[i - 1], recorded[i])
  <2> SUFFICES ASSUME NEW i \in 0..N, i # 0 PROVE g[i] = S!FeedIfNew(g[i - 1], recorded[i])
    BY <1>6
  <2>1. i \in 1..N /\ i - 1 \in 0..N
    BY <1>1
  <2>2. g[i - 1] \in A
    BY <1>6, <2>1
  <2> QED
    BY <1>3, <1>6, <2>1, <2>2
<1>8. Feeds(g)
  <2>1. g = [i \in 0..N |-> g[i]]
    BY <1>6
  <2>2. g = [i \in 0..N |-> IF i = 0 THEN base ELSE S!FeedIfNew(g[i - 1], recorded[i])]
    BY <1>7, <2>1
  <2> QED
    BY Zenon, <2>2 DEF Feeds, N, base
<1>9. Feeds(CHOOSE h : Feeds(h))
  BY <1>8
<1>10. S!Synced = (CHOOSE h : Feeds(h))[Len(recorded)]
  BY Zenon DEF S!Synced, Feeds
<1> DEFINE f == CHOOSE h : Feeds(h)
<1>11. Feeds(f) /\ S!Synced = f[Len(recorded)]
  BY <1>9, <1>10
<1> HIDE DEF f
<1>12. f = [i \in 0..N |-> IF i = 0 THEN base ELSE S!FeedIfNew(f[i - 1], recorded[i])]
  BY Zenon, <1>11 DEF Feeds, N, base
<1>13. f[0] = base /\ \A i \in 1..N : f[i] = S!FeedIfNew(f[i - 1], recorded[i])
  <2>1. 0 \in 0..N /\ \A i \in 1..N : i \in 0..N /\ i # 0
    BY <1>1
  <2>2. \A i \in 0..N : f[i] = IF i = 0 THEN base ELSE S!FeedIfNew(f[i - 1], recorded[i])
    BY <1>12
  <2> QED
    BY <2>1, <2>2
<1>14. \A i \in 1..N : f[i - 1] \in A => f[i] \in A
  BY <1>2, <1>13
<1>15. \A i \in 0..N : f[i] \in A
  BY <1>1, <1>13, <1>14, RecursionKeeps
<1>16. f \in [0..N -> A]
  <2>1. f = [i \in 0..N |-> f[i]]
    BY Zenon, <1>12
  <2> QED
    BY <1>15, <2>1
<1>17. FeedsAlong(f, A)
  BY <1>11, <1>13, <1>16 DEF FeedsAlong, N, base
<1> QED
  BY <1>17

LEMMA SyncedIs ==
  ASSUME HubOK(hub), recorded \in Seq(Events)
  PROVE  S!Synced \in Feds(hub)
<1> DEFINE A == Feds(hub)
<1>1. hub.next \in Nat
  BY DEF HubOK
<1>2. S!Unfed \in A
  BY UnfedIs
<1>3. Len(recorded) \in Nat /\ \A i \in 1..Len(recorded) : recorded[i] \in Events
  OBVIOUS
<1>4. \A a \in A, i \in 1..Len(recorded) : S!FeedIfNew(a, recorded[i]) \in A
  BY <1>1, <1>3, FeedKeeps
<1> HIDE DEF A
<1>5. PICK f : FeedsAlong(f, A)
  BY <1>2, <1>3, <1>4, FeedsExist
<1>6. f \in [0..Len(recorded) -> A] /\ S!Synced = f[Len(recorded)]
  BY <1>5 DEF FeedsAlong
<1>7. S!Synced \in A
  BY <1>3, <1>6
<1> QED
  BY <1>7 DEF A

-----------------------------------------------------------------------------
(* What is certain of the live log.                                        *)
Pending(p) == {p.updates[i].op : i \in 1..Len(p.updates)}
Below(lines, to) == \A n \in S!Numbers(lines) : n < to

StreamFits ==
    /\ recorded \in Seq(Events) /\ tailed \in 0..Len(recorded)
    /\ HubOK(hub)
    /\ socket \in [at : {"connecting", "open", "closed"}, wire : Seq(Line)]
    /\ fetch \in [at : {"asked", "sent", "done"}, lines : Seq(Line)]
    /\ page \in Pages
    /\ due \in SUBSET (Nat \ {0}) /\ late \in BOOLEAN
    /\ socket.at # "open" => socket.wire = << >>
    /\ page.updates # << >> => page.rendering = TRUE
    /\ fetch.at # "sent" => fetch.lines = << >>

(* The page p knows the numbers of its lines, and so will it (v) after the *)
(* next render; only a snapshot that waits can bring numbers it knows not. *)
Known(p, v) ==
    /\ S!Numbers(v.lines) \subseteq v.ids /\ S!Numbers(p.lines) \subseteq p.ids /\ p.ids \subseteq v.ids
    /\ "snapshot" \notin Pending(p) => v.ids = p.ids

(* A line that is due is shown by the next render or on its way, and a     *)
(* line that is due and whose number the page knows does not wait for the  *)
(* socket, which would bring it in vain.                                   *)
StillShown(v, d, wire, sent) ==
    \/ Len(v.lines) >= MaxView
    \/ /\ d \subseteq (S!Numbers(v.lines) \union S!Numbers(wire)) \union S!Numbers(sent)
       /\ v.ids \intersect d \subseteq S!Numbers(v.lines) \union S!Numbers(sent)

SnapshotOnce(f, l, p) == f.at # "done" => l = FALSE /\ "snapshot" \notin Pending(p)
BothApart(l, p, v) == l = FALSE => Apart(v.lines) /\ Apart(p.lines)
IdsBelow(v, to) == \A n \in v.ids : n < to

StreamInv ==
    /\ StreamFits
    /\ Below(socket.wire, hub.next) /\ Below(fetch.lines, hub.next) /\ IdsBelow(S!Rendered(page), hub.next)
    /\ Known(page, S!Rendered(page))
    /\ SnapshotOnce(fetch, late, page)
    /\ BothApart(late, page, S!Rendered(page))
    /\ clearing \in BOOLEAN
    /\ StillShown(S!Rendered(page), due, socket.wire, fetch.lines)

LEMMA StreamInitInv == S!StreamInit => StreamInv
<1> SUFFICES ASSUME S!StreamInit PROVE StreamInv
  OBVIOUS
<1>1. /\ recorded = << >> /\ tailed = 0
      /\ hub = [lines |-> << >>, seen |-> << >>, next |-> 1]
      /\ socket = [at |-> "connecting", wire |-> << >>]
      /\ fetch = [at |-> "asked", lines |-> << >>]
      /\ page = [ids |-> {}, lines |-> << >>, updates |-> << >>, rendering |-> FALSE]
      /\ clearing = FALSE /\ due = {} /\ late = FALSE
  BY Zenon DEF S!StreamInit
<1>2. /\ << >> \in Seq(Line) /\ << >> \in Seq(Events) /\ << >> \in Seq(Update) /\ Len(<< >>) = 0
      /\ MaxKept \in Nat /\ Cardinality(Events) \in Nat
  BY ReadsAssumption, FS_CardinalityType
<1>3. hub \in [lines : Seq(Line), seen : Seq(Events), next : Nat \ {0}] /\ hub.lines = << >> /\ hub.seen = << >> /\ hub.next = 1
  BY <1>1, <1>2
<1>4. HubOK(hub)
  BY <1>2, <1>3 DEF HubOK, Distinct, EventsApart
<1>5. socket \in [at : {"connecting", "open", "closed"}, wire : Seq(Line)] /\ socket.wire = << >>
  BY <1>1, <1>2
<1>6. fetch \in [at : {"asked", "sent", "done"}, lines : Seq(Line)] /\ fetch.lines = << >>
  BY <1>1, <1>2
<1>7. page \in Pages /\ page.updates = << >> /\ page.lines = << >> /\ page.ids = {}
  BY <1>1, <1>2 DEF Pages
<1>8. S!Rendered(page) = page
  BY <1>7, RenderedIs DEF RenderGives
<1>9. recorded \in Seq(Events) /\ tailed \in 0..Len(recorded)
  BY <1>1, <1>2
<1>10. due \in SUBSET (Nat \ {0}) /\ late \in BOOLEAN
  BY <1>1
<1>11. StreamFits
  BY <1>4, <1>5, <1>6, <1>7, <1>9, <1>10 DEF StreamFits
<1>12. S!Numbers(<< >>) = {}
  BY <1>2, NumbersAre
<1>13. Below(socket.wire, hub.next) /\ Below(fetch.lines, hub.next) /\ IdsBelow(page, hub.next)
  BY <1>5, <1>6, <1>7, <1>12 DEF Below, IdsBelow
<1>14. Pending(page) = {}
  BY <1>2, <1>7 DEF Pending
<1>15. Known(page, page) /\ SnapshotOnce(fetch, late, page)
  BY <1>1, <1>7, <1>12, <1>14 DEF Known, SnapshotOnce
<1>16. BothApart(late, page, page)
  BY <1>2, <1>7 DEF BothApart, Apart
<1>17. StillShown(page, due, socket.wire, fetch.lines)
  BY <1>1, <1>3, <1>7, <1>12 DEF StillShown
<1> QED
  BY <1>1, <1>8, <1>11, <1>13, <1>15, <1>16, <1>17 DEF StreamInv

(* The parts of the invariant, for the variables of the next state.        *)
LEMMA StreamInvNext ==
  ASSUME StreamFits', clearing' \in BOOLEAN,
         Below(socket'.wire, hub'.next), Below(fetch'.lines, hub'.next), IdsBelow(S!Rendered(page'), hub'.next),
         Known(page', S!Rendered(page')), SnapshotOnce(fetch', late', page'), BothApart(late', page', S!Rendered(page')),
         StillShown(S!Rendered(page'), due', socket'.wire, fetch'.lines)
  PROVE  StreamInv'
<1>1. (S!Rendered(page))' = S!Rendered(page')
  OBVIOUS
<1> QED
  BY <1>1 DEF StreamInv

LEMMA StreamHas ==
  ASSUME StreamInv
  PROVE  /\ page \in Pages /\ S!Rendered(page) \in Pages /\ S!Rendered(page).lines \in Seq(Line)
         /\ hub.lines \in Seq(Line) /\ hub.next \in Nat /\ socket.wire \in Seq(Line) /\ fetch.lines \in Seq(Line)
         /\ S!Rendered(page).updates = page.updates /\ S!Rendered(page).rendering = page.rendering
<1>1. page \in Pages /\ HubOK(hub) /\ socket.wire \in Seq(Line) /\ fetch.lines \in Seq(Line)
  BY DEF StreamInv, StreamFits
<1>2. S!Rendered(page) \in Pages /\ S!Rendered(page).updates = page.updates /\ S!Rendered(page).rendering = page.rendering
  BY <1>1, RenderedIs DEF RenderGives
<1> DEFINE v == S!Rendered(page)
<1> HIDE DEF v
<1>3. v \in Pages => v.lines \in Seq(Line)
  BY DEF Pages
<1> QED
  BY <1>1, <1>2, <1>3 DEF v, HubOK

(* A step that leaves the page and the hub as they are, and loses lines on *)
(* their way: they are not due any more.                                   *)
Loses ==
    /\ UNCHANGED <<hub, page, clearing, late>> /\ recorded' \in Seq(Events) /\ tailed' \in 0..Len(recorded')
    /\ socket' \in [at : {"connecting", "open", "closed"}, wire : Seq(Line)]
    /\ fetch' \in [at : {"asked", "sent", "done"}, lines : Seq(Line)]
    /\ socket'.wire = socket.wire \/ (socket'.wire = << >> /\ due' \intersect S!Numbers(socket.wire) = {})
    /\ fetch'.lines = fetch.lines \/ (fetch'.lines = << >> /\ due' \intersect S!Numbers(fetch.lines) = {})
    /\ fetch'.at = fetch.at \/ (fetch'.at = "done" /\ fetch'.lines = << >>)
    /\ socket'.at = "open" \/ socket'.wire = << >>
    /\ due' \subseteq due
LEMMA LinesLost ==
  ASSUME StreamInv, Loses
  PROVE  StreamInv'
<1> DEFINE v == S!Rendered(page)
<1>1. /\ StreamFits /\ Below(socket.wire, hub.next) /\ Below(fetch.lines, hub.next) /\ IdsBelow(v, hub.next)
      /\ Known(page, v) /\ SnapshotOnce(fetch, late, page) /\ BothApart(late, page, v)
      /\ StillShown(v, due, socket.wire, fetch.lines)
  BY DEF StreamInv
<1> HIDE DEF v
<1>2. S!Numbers(<< >>) = {}
  BY StreamHas, NumbersAre
<1>0. /\ UNCHANGED <<hub, page, clearing, late>> /\ recorded' \in Seq(Events) /\ tailed' \in 0..Len(recorded')
      /\ socket' \in [at : {"connecting", "open", "closed"}, wire : Seq(Line)]
      /\ fetch' \in [at : {"asked", "sent", "done"}, lines : Seq(Line)]
      /\ socket'.wire = socket.wire \/ (socket'.wire = << >> /\ due' \intersect S!Numbers(socket.wire) = {})
      /\ fetch'.lines = fetch.lines \/ (fetch'.lines = << >> /\ due' \intersect S!Numbers(fetch.lines) = {})
      /\ fetch'.at = fetch.at \/ (fetch'.at = "done" /\ fetch'.lines = << >>)
      /\ socket'.at = "open" \/ socket'.wire = << >>
      /\ due' \subseteq due
  BY DEF Loses
<1>3. due' \in SUBSET (Nat \ {0})
  BY <1>0, <1>1 DEF StreamFits
<1>4. StreamFits'
  <2>1. (HubOK(hub))'
    BY <1>0, <1>1 DEF StreamFits, HubOK, Distinct, EventsApart
  <2>2. (page \in Pages)' /\ (page.updates # << >> => page.rendering = TRUE)' /\ late' \in BOOLEAN
    BY <1>0, <1>1 DEF StreamFits, Pages, Update, Line
  <2>3. fetch'.at # "sent" => fetch'.lines = << >>
    BY <1>0, <1>1 DEF StreamFits
  <2> QED
    BY <1>0, <1>3, <2>1, <2>2, <2>3 DEF StreamFits, Line
<1>5. Below(socket'.wire, hub'.next) /\ Below(fetch'.lines, hub'.next)
  BY <1>0, <1>1, <1>2 DEF Below
<1>6. S!Rendered(page') = v
  BY <1>0 DEF v
<1>7. SnapshotOnce(fetch', late', page')
  BY <1>0, <1>1 DEF SnapshotOnce
<1>8. StillShown(v, due', socket'.wire, fetch'.lines)
  BY <1>0, <1>1, <1>2 DEF StillShown
<1>9. IdsBelow(v, hub'.next) /\ Known(page', v) /\ BothApart(late', page', v) /\ StillShown(v, due', socket'.wire, fetch'.lines)
  BY <1>0, <1>1, <1>8
<1>10. clearing' \in BOOLEAN
  BY <1>0 DEF StreamInv
<1> QED
  BY <1>4, <1>5, <1>6, <1>7, <1>9, <1>10, StreamInvNext

(* What is sent is put behind what is on its way.                          *)
Sends(out) ==
    /\ socket' \in [at : {"connecting", "open", "closed"}, wire : Seq(Line)]
    /\ socket'.at = socket.at /\ socket'.wire = socket.wire \o out
LEMMA SendsLines ==
  ASSUME socket \in [at : {"connecting", "open", "closed"}, wire : Seq(Line)], NEW out \in Seq(Line),
         socket' = [socket EXCEPT !.wire = socket.wire \o out]
  PROVE  Sends(out)
<1> DEFINE w == socket.wire \o out
<1>1. w \in Seq(Line)
  BY NumbersJoin
<1>2. socket' = [socket EXCEPT !.wire = w]
  OBVIOUS
<1> HIDE DEF w
<1>3. socket' \in [at : {"connecting", "open", "closed"}, wire : Seq(Line)] /\ socket'.at = socket.at /\ socket'.wire = w
  BY <1>1, <1>2
<1> QED
  BY <1>3 DEF w, Sends

(* A step in which the hub tells of events: what it sends and what it      *)
(* gives for a snapshot is due.                                            *)
LEMMA HubTells ==
  ASSUME StreamInv, NEW fed \in Feds(hub), UNCHANGED <<recorded, page, clearing, late>>, tailed' \in 0..Len(recorded'),
         hub' = fed.hub, Sends(S!Reaching(fed.out)),
         \/ fetch' = fetch /\ due' = due \union S!Numbers(S!Reaching(fed.out))
         \/ /\ fetch.at = "asked" /\ fetch' = [at |-> "sent", lines |-> fed.hub.lines]
            /\ due' = (due \union S!Numbers(fed.hub.lines)) \union S!Numbers(S!Reaching(fed.out))
  PROVE  StreamInv'
<1> DEFINE v == S!Rendered(page)
           out == S!Reaching(fed.out)
           h == fed.hub
           wire == socket.wire
<1>1. /\ StreamFits /\ Below(wire, hub.next) /\ Below(fetch.lines, hub.next) /\ IdsBelow(v, hub.next)
      /\ Known(page, v) /\ SnapshotOnce(fetch, late, page) /\ BothApart(late, page, v)
      /\ StillShown(v, due, wire, fetch.lines)
  BY DEF StreamInv
<1>2. h \in Hubs /\ fed.out \in Seq(Line) /\ Fed(hub, fed)
  BY DEF Feds
<1>3. out = (IF socket.at = "open" THEN fed.out ELSE << >>)
  BY DEF S!Reaching
<1> HIDE DEF v, out, h
<1>4. /\ HubOK(h) /\ hub.next <= h.next
      /\ \A n \in S!Numbers(fed.out) : hub.next <= n /\ n < h.next
      /\ \A n \in S!Numbers(h.lines) : n < hub.next => n \in S!Numbers(hub.lines)
  BY <1>2 DEF Fed, h
<1>5. h.lines \in Seq(Line) /\ h.next \in Nat /\ hub.next \in Nat /\ \A i \in 1..Len(h.lines) : h.lines[i].id < h.next
  BY <1>4, StreamHas DEF HubOK
<1>6. S!Numbers(<< >>) = {} /\ << >> \in Seq(Line) /\ wire \in Seq(Line)
  BY StreamHas, NumbersAre
<1>7. out \in Seq(Line) /\ \A n \in S!Numbers(out) : hub.next <= n /\ n < h.next
  BY <1>2, <1>3, <1>4, <1>6
<1> DEFINE w == wire \o out
<1>8. w \in Seq(Line) /\ S!Numbers(w) = S!Numbers(wire) \union S!Numbers(out)
  BY <1>6, <1>7, NumbersJoin
<1>9. wire = << >> /\ out = << >> => w = << >>
  <2>1. << >> \o << >> = << >>
    OBVIOUS
  <2> QED
    BY <2>1
<1> HIDE DEF w
<1>11. socket' \in [at : {"connecting", "open", "closed"}, wire : Seq(Line)] /\ socket'.wire = w /\ socket'.at = socket.at
  BY DEF Sends, w, out
<1>12. socket'.at # "open" => socket'.wire = << >>
  BY <1>1, <1>3, <1>9, <1>11 DEF StreamFits
<1>13. S!Numbers(h.lines) \subseteq Nat /\ Below(h.lines, h.next)
  BY <1>5, NumbersAre DEF Below
<1>14. S!Numbers(wire) \subseteq Nat /\ S!Numbers(out) \subseteq Nat \ {0} /\ S!Numbers(h.lines) \subseteq Nat \ {0} /\ S!Numbers(fetch.lines) \subseteq Nat
  BY <1>5, <1>6, <1>7, StreamHas, NumbersAre
<1>15. Below(w, h.next) /\ Below(fetch.lines, h.next)
  BY <1>1, <1>4, <1>5, <1>7, <1>8, <1>14 DEF Below
<1>16. \/ fetch' = fetch /\ due' = due \union S!Numbers(out)
       \/ /\ fetch.at = "asked" /\ fetch' = [at |-> "sent", lines |-> h.lines]
          /\ due' = (due \union S!Numbers(h.lines)) \union S!Numbers(out)
  BY DEF out, h
<1>17. /\ fetch' \in [at : {"asked", "sent", "done"}, lines : Seq(Line)]
       /\ fetch'.at # "sent" => fetch'.lines = << >>
       /\ \/ fetch'.at = fetch.at /\ fetch'.lines = fetch.lines /\ due' = due \union S!Numbers(out)
          \/ /\ fetch.at = "asked" /\ fetch.lines = << >> /\ fetch'.at = "sent" /\ fetch'.lines = h.lines
             /\ due' = (due \union S!Numbers(h.lines)) \union S!Numbers(out)
  BY <1>1, <1>5, <1>16 DEF StreamFits
<1>18. due' \in SUBSET (Nat \ {0})
  BY <1>1, <1>14, <1>17 DEF StreamFits
<1>19. StreamFits'
  <2>1. (HubOK(hub))'
    BY <1>4 DEF h, HubOK, Distinct, EventsApart
  <2>2. (page \in Pages)' /\ (page.updates # << >> => page.rendering = TRUE)' /\ late' \in BOOLEAN /\ recorded' \in Seq(Events)
    BY <1>1 DEF StreamFits, Pages, Update, Line
  <2> QED
    BY <1>11, <1>12, <1>17, <1>18, <2>1, <2>2 DEF StreamFits, Line
<1>20. S!Rendered(page') = v
  BY DEF v
<1>21. hub' = h
  BY DEF h
<1>22. v.ids \subseteq Nat
  BY StreamHas DEF v, Pages
<1>23. IdsBelow(v, h.next)
  BY <1>1, <1>4, <1>5, <1>22 DEF IdsBelow
<1>24. StillShown(v, due', w, fetch'.lines)
  <2>1. CASE Len(v.lines) >= MaxView
    BY <2>1 DEF StillShown
  <2>2. CASE ~(Len(v.lines) >= MaxView)
    <3>1. /\ due \subseteq (S!Numbers(v.lines) \union S!Numbers(wire)) \union S!Numbers(fetch.lines)
          /\ v.ids \intersect due \subseteq S!Numbers(v.lines) \union S!Numbers(fetch.lines)
      BY <1>1, <2>2 DEF StillShown
    <3>2. due' \subseteq (S!Numbers(v.lines) \union S!Numbers(w)) \union S!Numbers(fetch'.lines)
      BY <1>6, <1>8, <1>17, <3>1
    <3>3. \A n \in v.ids : n \in Nat /\ n < hub.next
      BY <1>1, <1>22 DEF IdsBelow
    <3>4. v.ids \intersect S!Numbers(out) = {}
      BY <1>5, <1>7, <1>14, <3>3
    <3>5. v.ids \intersect due' \subseteq S!Numbers(v.lines) \union S!Numbers(fetch'.lines)
      BY <1>6, <1>17, <3>1, <3>4
    <3> QED
      BY <3>2, <3>5 DEF StillShown
  <2> QED
    BY <2>1, <2>2
<1>25. SnapshotOnce(fetch', late', page')
  BY <1>1, <1>17 DEF SnapshotOnce
<1>26. Below(fetch'.lines, h.next)
  BY <1>13, <1>15, <1>17
<1>27. Known(page', v) /\ BothApart(late', page', v)
  BY <1>1
<1>28. clearing' \in BOOLEAN
  BY DEF StreamInv
<1> QED
  BY <1>11, <1>15, <1>19, <1>20, <1>21, <1>23, <1>24, <1>25, <1>26, <1>27, <1>28, StreamInvNext

LEMMA PendingNone == ASSUME NEW p \in Pages, p.updates = << >> PROVE Pending(p) = {}
<1>1. Len(p.updates) = 0
  OBVIOUS
<1> QED
  BY <1>1 DEF Pending

LEMMA PendingMore ==
  ASSUME NEW p \in Pages, NEW q \in Pages, NEW u \in Update, q.updates = Append(p.updates, u)
  PROVE  Pending(q) = Pending(p) \union {u.op}
<1> DEFINE N == Len(p.updates)
<1>1. p.updates \in Seq(Update) /\ N \in Nat
  BY DEF Pages
<1>2. Len(q.updates) = N + 1 /\ q.updates[N + 1] = u /\ \A i \in 1..N : q.updates[i] = p.updates[i]
  BY <1>1, AppendProperties
<1>3. \A i \in 1..(N + 1) : i \in 1..N \/ i = N + 1
  BY <1>1
<1>4. N + 1 \in 1..(N + 1) /\ \A i \in 1..N : i \in 1..(N + 1)
  BY <1>1
<1> HIDE DEF N
<1>5. Pending(p) = {p.updates[i].op : i \in 1..N} /\ Pending(q) = {q.updates[i].op : i \in 1..(N + 1)}
  BY <1>2 DEF Pending, N
<1> QED
  BY <1>2, <1>3, <1>4, <1>5

(* What setLines makes of a page p whose next render shows v: q, whose     *)
(* next render shows w.                                                    *)
PageSet(q, w, p, v, u) ==
    /\ q \in Pages /\ q.rendering = TRUE /\ w \in Pages
    /\ w.lines = S!Computed(v, u).lines
    /\ w.ids = v.ids \union (IF u.op = "snapshot" THEN S!Numbers(u.lines) ELSE {})
    /\ Known(q, w)
    /\ Apart(p.lines) /\ Apart(w.lines) => Apart(q.lines)
    /\ Pending(q) \subseteq Pending(p) \union {u.op}
LEMMA PageSets ==
  ASSUME NEW p \in Pages, NEW u \in Update, p.updates # << >> => p.rendering = TRUE,
         Known(p, S!Rendered(p)), u.op = "line" => S!Numbers(u.lines) \subseteq S!Rendered(p).ids
  PROVE  PageSet(S!SetLines(p, u), S!Rendered(S!SetLines(p, u)), p, S!Rendered(p), u)
<1> DEFINE q == S!SetLines(p, u)
           w == S!Rendered(q)
           v == S!Rendered(p)
           c == S!Computed(v, u)
<1>1. SetGives(q, p, u)
  BY SetLinesIs
<1>2. v \in Pages
  BY RenderedIs DEF RenderGives
<1>3. /\ q \in Pages /\ q.rendering = TRUE /\ Like(w, c, {})
      /\ \/ q.lines = p.lines /\ q.ids = p.ids /\ q.updates = Append(p.updates, u)
         \/ q.lines = w.lines /\ q.ids = w.ids /\ q.updates = << >> /\ p.updates = << >>
  BY <1>1 DEF SetGives
<1> HIDE DEF q
<1>4. w \in Pages
  BY <1>3, RenderedIs DEF RenderGives
<1> HIDE DEF w, v
<1>5. /\ u.op = "snapshot" => c.lines = S!Merged(v.lines, u.lines) /\ c.ids = v.ids \union S!Numbers(S!Merged(v.lines, u.lines))
      /\ u.op = "line" => c.lines = S!TailOf(v.lines, MaxView - 1) \o u.lines /\ c.ids = v.ids
      /\ u.op = "clear" => c.lines = << >> /\ c.ids = v.ids
  BY <1>2, ComputedIs
<1> HIDE DEF c
<1>6. w.lines = c.lines /\ w.ids = c.ids
  BY <1>3 DEF Like
<1>7. v.lines \in Seq(Line) /\ u.lines \in Seq(Line) /\ u.op \in {"snapshot", "line", "clear"}
  BY <1>2 DEF Pages, Update
<1>8. S!Numbers(v.lines) \subseteq v.ids /\ S!Numbers(p.lines) \subseteq p.ids /\ p.ids \subseteq v.ids
      /\ ("snapshot" \notin Pending(p) => v.ids = p.ids)
  BY DEF Known, v
<1>9. /\ w.ids = v.ids \union (IF u.op = "snapshot" THEN S!Numbers(u.lines) ELSE {})
      /\ S!Numbers(w.lines) \subseteq w.ids
  <2>1. CASE u.op = "snapshot"
    <3>1. MergeGives(v.lines, u.lines)
      BY <1>7, MergedIs
    <3>2. S!Numbers(S!Merged(v.lines, u.lines)) = S!Numbers(v.lines) \union S!Numbers(u.lines)
      BY <3>1 DEF MergeGives
    <3>3. w.ids = v.ids \union (S!Numbers(v.lines) \union S!Numbers(u.lines)) /\ S!Numbers(w.lines) = S!Numbers(v.lines) \union S!Numbers(u.lines)
      BY <1>5, <1>6, <2>1, <3>2
    <3>4. w.ids = v.ids \union S!Numbers(u.lines) /\ S!Numbers(w.lines) \subseteq w.ids
      BY <1>8, <3>3
    <3> QED
      BY <2>1, <3>4
  <2>2. CASE u.op = "line"
    <3> DEFINE t == S!TailOf(v.lines, MaxView - 1)
    <3>1. MaxView - 1 \in Nat
      BY ReadsAssumption
    <3>2. t \in Seq(Line) /\ IsEnd(t, v.lines)
      BY <1>7, <3>1, TailOfIs
    <3> HIDE DEF t
    <3>3. PICK d \in 0..Len(v.lines) : /\ Len(t) = Len(v.lines) - d
                                       /\ \A i \in 1..(Len(v.lines) - d) : d + i \in 1..Len(v.lines) /\ t[i] = v.lines[d + i]
      BY <3>2 DEF IsEnd
    <3>4. \A n : n \in S!Numbers(t) <=> \E i \in 1..Len(t) : t[i].id = n
      BY <3>2, NumbersAre
    <3>5. \A n : n \in S!Numbers(v.lines) <=> \E i \in 1..Len(v.lines) : v.lines[i].id = n
      BY <1>7, NumbersAre
    <3>6. S!Numbers(t) \subseteq S!Numbers(v.lines)
      <4> SUFFICES ASSUME NEW n \in S!Numbers(t) PROVE n \in S!Numbers(v.lines)
        OBVIOUS
      <4>1. PICK i \in 1..Len(t) : t[i].id = n
        BY <3>4
      <4>2. d + i \in 1..Len(v.lines) /\ v.lines[d + i].id = n
        BY <3>3, <4>1
      <4> QED
        BY <3>5, <4>2
    <3>7. S!Numbers(t \o u.lines) = S!Numbers(t) \union S!Numbers(u.lines)
      BY <1>7, <3>2, NumbersJoin
    <3>8. w.lines = t \o u.lines /\ w.ids = v.ids
      BY <1>5, <1>6, <2>2 DEF t
    <3>9. S!Numbers(u.lines) \subseteq v.ids
      BY <2>2 DEF v
    <3>10. S!Numbers(w.lines) \subseteq w.ids
      BY <1>8, <3>6, <3>7, <3>8, <3>9
    <3> QED
      BY <2>2, <3>8, <3>10
  <2>3. CASE u.op = "clear"
    <3>1. S!Numbers(<< >>) = {}
      BY <1>7, NumbersAre
    <3> QED
      BY <1>5, <1>6, <2>3, <3>1
  <2> QED
    BY <1>7, <2>1, <2>2, <2>3
<1>10. CASE q.lines = p.lines /\ q.ids = p.ids /\ q.updates = Append(p.updates, u)
  <2>1. Pending(q) = Pending(p) \union {u.op}
    BY <1>3, <1>10, PendingMore
  <2>2. p.ids \subseteq w.ids
    BY <1>8, <1>9
  <2>3. "snapshot" \notin Pending(q) => w.ids = q.ids
    BY <1>8, <1>9, <1>10, <2>1
  <2>4. Known(q, w)
    BY <1>8, <1>9, <1>10, <2>2, <2>3 DEF Known
  <2> QED
    BY <1>3, <1>4, <1>6, <1>9, <1>10, <2>1, <2>4 DEF PageSet, q, w, v, c
<1>11. CASE q.lines = w.lines /\ q.ids = w.ids /\ q.updates = << >> /\ p.updates = << >>
  <2>1. Pending(q) = {}
    BY <1>3, <1>11, PendingNone
  <2>2. Known(q, w)
    BY <1>9, <1>11, <2>1 DEF Known
  <2> QED
    BY <1>3, <1>4, <1>6, <1>9, <1>11, <2>1, <2>2 DEF PageSet, q, w, v, c
<1> QED
  BY <1>3, <1>10, <1>11

(* A step of the page.                                                     *)
LEMMA PageFits ==
  ASSUME StreamInv, page' \in Pages, page'.updates # << >> => page'.rendering = TRUE, UNCHANGED <<recorded, tailed>>,
         socket' \in [at : {"connecting", "open", "closed"}, wire : Seq(Line)], socket'.at # "open" => socket'.wire = << >>,
         fetch' \in [at : {"asked", "sent", "done"}, lines : Seq(Line)], fetch'.at # "sent" => fetch'.lines = << >>,
         HubOK(hub'), due' \in SUBSET due, late' \in BOOLEAN
  PROVE  StreamFits'
<1>1. recorded' \in Seq(Events) /\ tailed' \in 0..Len(recorded') /\ due' \in SUBSET (Nat \ {0})
  BY DEF StreamInv, StreamFits
<1>2. (HubOK(hub))'
  BY DEF HubOK, Distinct, EventsApart, Line
<1>3. (page \in Pages)'
  BY DEF Pages, Update, Line
<1> QED
  BY <1>1, <1>2, <1>3 DEF StreamFits, Line

LEMMA StreamRender == ASSUME StreamInv, S!Render PROVE StreamInv'
<1> DEFINE v == S!Rendered(page)
<1>1. page.rendering /\ page' = [v EXCEPT !.updates = << >>, !.rendering = FALSE]
      /\ UNCHANGED <<recorded, tailed, hub, socket, fetch, clearing, due, late>>
  BY Zenon DEF S!Render
<1>2. v \in Pages
  BY StreamHas
<1>3. /\ StreamFits /\ Below(socket.wire, hub.next) /\ Below(fetch.lines, hub.next) /\ IdsBelow(v, hub.next)
      /\ Known(page, v) /\ SnapshotOnce(fetch, late, page) /\ BothApart(late, page, v)
      /\ StillShown(v, due, socket.wire, fetch.lines)
  BY DEF StreamInv
<1> HIDE DEF v
<1>4. v = [ids |-> v.ids, lines |-> v.lines, updates |-> v.updates, rendering |-> v.rendering]
      /\ v.ids \in SUBSET (Nat \ {0}) /\ v.lines \in Seq(Line)
  BY <1>2 DEF Pages
<1>5. page' = [ids |-> v.ids, lines |-> v.lines, updates |-> << >>, rendering |-> FALSE]
  BY <1>1, <1>4
<1>6. page' \in Pages /\ page'.ids = v.ids /\ page'.lines = v.lines /\ page'.updates = << >>
  <2>1. << >> \in Seq(Update)
    OBVIOUS
  <2> QED
    BY <1>4, <1>5, <2>1 DEF Pages
<1>7. S!Rendered(page') = page'
  BY <1>6, RenderedIs DEF RenderGives
<1>8. Pending(page') = {}
  BY <1>6, PendingNone
<1>9. StreamFits'
  <2>1. /\ HubOK(hub') /\ late' \in BOOLEAN /\ due' \in SUBSET due
        /\ socket' \in [at : {"connecting", "open", "closed"}, wire : Seq(Line)] /\ (socket'.at # "open" => socket'.wire = << >>)
        /\ fetch' \in [at : {"asked", "sent", "done"}, lines : Seq(Line)] /\ (fetch'.at # "sent" => fetch'.lines = << >>)
    BY <1>1, <1>3 DEF StreamFits
  <2> QED
    BY <1>1, <1>6, <2>1, PageFits
<1>10. Known(page', page') /\ IdsBelow(page', hub'.next) /\ BothApart(late', page', page')
  BY <1>1, <1>3, <1>6, <1>8 DEF Known, IdsBelow, BothApart
<1>11. SnapshotOnce(fetch', late', page')
  BY <1>1, <1>3, <1>8 DEF SnapshotOnce
<1>12. StillShown(page', due', socket'.wire, fetch'.lines)
  BY <1>1, <1>3, <1>6 DEF StillShown
<1>13. Below(socket'.wire, hub'.next) /\ Below(fetch'.lines, hub'.next)
  BY <1>1, <1>3
<1>14. clearing' \in BOOLEAN
  BY <1>1 DEF StreamInv
<1> QED
  BY <1>7, <1>9, <1>10, <1>11, <1>12, <1>13, <1>14, StreamInvNext

LEMMA StreamClearHub == ASSUME StreamInv, NEW done \in BOOLEAN, S!ClearHub(done) PROVE StreamInv'
<1> DEFINE v == S!Rendered(page)
<1>1. /\ clearing' = TRUE /\ UNCHANGED <<recorded, tailed, socket, fetch, page, late>>
      /\ \/ hub' = [hub EXCEPT !.lines = << >>, !.seen = << >>] /\ due' = {}
         \/ hub' = hub /\ due' = due
  BY Zenon DEF S!ClearHub
<1>2. /\ StreamFits /\ Below(socket.wire, hub.next) /\ Below(fetch.lines, hub.next) /\ IdsBelow(v, hub.next)
      /\ Known(page, v) /\ SnapshotOnce(fetch, late, page) /\ BothApart(late, page, v)
      /\ StillShown(v, due, socket.wire, fetch.lines)
  BY DEF StreamInv
<1> HIDE DEF v
<1>3. << >> \in Seq(Line) /\ << >> \in Seq(Events) /\ Len(<< >>) = 0 /\ MaxKept \in Nat /\ Cardinality(Events) \in Nat
  BY ReadsAssumption, FS_CardinalityType
<1>4. hub'.next = hub.next /\ HubOK(hub')
  <2>1. CASE hub' = [hub EXCEPT !.lines = << >>, !.seen = << >>]
    <3>1. hub \in [lines : Seq(Line), seen : Seq(Events), next : Nat \ {0}]
      BY <1>2 DEF StreamFits, HubOK
    <3>2. hub' \in [lines : Seq(Line), seen : Seq(Events), next : Nat \ {0}] /\ hub'.next = hub.next /\ hub'.lines = << >> /\ hub'.seen = << >>
      BY <1>3, <2>1, <3>1
    <3> QED
      BY <1>3, <3>2 DEF HubOK, Distinct, EventsApart
  <2>2. CASE hub' = hub
    <3>1. HubOK(hub)
      BY <1>2 DEF StreamFits
    <3> QED
      BY <2>2, <3>1
  <2> QED
    BY <1>1, <2>1, <2>2
<1>5. StreamFits'
  <2>1. /\ late' \in BOOLEAN /\ due' \in SUBSET due
        /\ socket' \in [at : {"connecting", "open", "closed"}, wire : Seq(Line)] /\ (socket'.at # "open" => socket'.wire = << >>)
        /\ fetch' \in [at : {"asked", "sent", "done"}, lines : Seq(Line)] /\ (fetch'.at # "sent" => fetch'.lines = << >>)
        /\ page' \in Pages /\ (page'.updates # << >> => page'.rendering = TRUE)
    BY <1>1, <1>2 DEF StreamFits
  <2> QED
    BY <1>1, <1>4, <2>1, PageFits
<1>6. S!Rendered(page') = v
  BY <1>1 DEF v
<1>7. StillShown(v, due', socket'.wire, fetch'.lines)
  BY <1>1, <1>2 DEF StillShown
<1>8. /\ SnapshotOnce(fetch', late', page') /\ BothApart(late', page', v) /\ Known(page', v)
      /\ Below(socket'.wire, hub'.next) /\ Below(fetch'.lines, hub'.next) /\ IdsBelow(v, hub'.next)
  BY <1>1, <1>2, <1>4
<1>9. clearing' \in BOOLEAN
  BY <1>1
<1> QED
  BY <1>5, <1>6, <1>7, <1>8, <1>9, StreamInvNext

LEMMA StreamClearPage == ASSUME StreamInv, S!ClearPage PROVE StreamInv'
<1> DEFINE v == S!Rendered(page)
           u == [op |-> "clear", lines |-> << >>]
           w == S!Rendered(page')
<1>1. /\ clearing' = FALSE /\ page' = S!SetLines(page, u) /\ due' = due \intersect S!Ahead
      /\ UNCHANGED <<recorded, tailed, hub, socket, fetch, late>>
  BY Zenon DEF S!ClearPage
<1>0. S!Ahead = (S!Numbers(socket.wire) \ v.ids) \union S!Numbers(fetch.lines)
  BY Zenon DEF S!Ahead
<1>2. /\ StreamFits /\ Below(socket.wire, hub.next) /\ Below(fetch.lines, hub.next) /\ IdsBelow(v, hub.next)
      /\ Known(page, v) /\ SnapshotOnce(fetch, late, page) /\ BothApart(late, page, v)
  BY DEF StreamInv
<1>3. << >> \in Seq(Line) /\ << >> \in Seq(Events) /\ Len(<< >>) = 0 /\ MaxKept \in Nat /\ Cardinality(Events) \in Nat
  BY ReadsAssumption, FS_CardinalityType
<1>4. u \in Update /\ u.op = "clear"
  BY <1>3 DEF Update
<1> HIDE DEF u
<1>5. page \in Pages /\ (page.updates # << >> => page.rendering = TRUE) /\ v \in Pages
  BY <1>2, StreamHas DEF StreamFits
<1>6. PageSet(page', w, page, v, u)
  <2>1. PageSet(S!SetLines(page, u), S!Rendered(S!SetLines(page, u)), page, S!Rendered(page), u)
    BY <1>2, <1>4, <1>5, PageSets
  <2> QED
    BY <1>1, <2>1
<1>7. S!Computed(v, u).lines = << >>
  BY <1>4, <1>5, ComputedIs
<1> HIDE DEF v, w
<1>8. /\ page' \in Pages /\ page'.rendering = TRUE /\ w.lines = << >> /\ w.ids = v.ids
      /\ Known(page', w) /\ (Apart(page.lines) /\ Apart(w.lines) => Apart(page'.lines)) /\ Pending(page') \subseteq Pending(page) \union {"clear"}
  BY <1>4, <1>6, <1>7 DEF PageSet
<1>9. HubOK(hub')
  <2>1. HubOK(hub)
    BY <1>2 DEF StreamFits
  <2> QED
    BY <1>1, <2>1
<1>10. StreamFits'
  <2>1. /\ late' \in BOOLEAN /\ due' \in SUBSET due
        /\ socket' \in [at : {"connecting", "open", "closed"}, wire : Seq(Line)] /\ (socket'.at # "open" => socket'.wire = << >>)
        /\ fetch' \in [at : {"asked", "sent", "done"}, lines : Seq(Line)] /\ (fetch'.at # "sent" => fetch'.lines = << >>)
    BY <1>1, <1>2 DEF StreamFits
  <2> QED
    BY <1>1, <1>8, <1>9, <2>1, PageFits
<1>11. S!Numbers(<< >>) = {}
  BY <1>3, NumbersAre
<1>12. StillShown(w, due', socket'.wire, fetch'.lines)
  <2>1. due' \subseteq (S!Numbers(socket'.wire) \ w.ids) \union S!Numbers(fetch'.lines)
    BY <1>0, <1>1, <1>8
  <2> QED
    BY <2>1, <1>8, <1>11 DEF StillShown
<1>13. SnapshotOnce(fetch', late', page')
  BY <1>1, <1>2, <1>8 DEF SnapshotOnce
<1>14. BothApart(late', page', w)
  <2>1. Apart(w.lines)
    BY <1>3, <1>8 DEF Apart
  <2> QED
    BY <1>1, <1>2, <1>8, <2>1 DEF BothApart
<1>15. Below(socket'.wire, hub'.next) /\ Below(fetch'.lines, hub'.next) /\ IdsBelow(w, hub'.next)
  BY <1>1, <1>2, <1>8 DEF IdsBelow
<1> QED
  BY <1>1, <1>8, <1>10, <1>12, <1>13, <1>14, <1>15, StreamInvNext DEF w

LEMMA StreamSnapshotArrives == ASSUME StreamInv, S!SnapshotArrives PROVE StreamInv'
<1> DEFINE v == S!Rendered(page)
           u == [op |-> "snapshot", lines |-> fetch.lines]
           w == S!Rendered(page')
           f == fetch.lines
<1>1. /\ fetch.at = "sent" /\ page' = S!SetLines(page, u) /\ fetch' = [at |-> "done", lines |-> << >>]
      /\ UNCHANGED <<recorded, tailed, hub, socket, clearing, due, late>>
  BY Zenon DEF S!SnapshotArrives
<1>2. /\ StreamFits /\ Below(socket.wire, hub.next) /\ Below(f, hub.next) /\ IdsBelow(v, hub.next)
      /\ Known(page, v) /\ SnapshotOnce(fetch, late, page) /\ BothApart(late, page, v)
      /\ StillShown(v, due, socket.wire, f)
  BY DEF StreamInv
<1>3. << >> \in Seq(Line) /\ f \in Seq(Line) /\ hub.next \in Nat
  BY StreamHas
<1>4. u \in Update /\ u.op = "snapshot" /\ u.lines = f
  BY <1>3 DEF Update
<1> HIDE DEF u
<1>5. page \in Pages /\ (page.updates # << >> => page.rendering = TRUE) /\ v \in Pages /\ v.lines \in Seq(Line)
  BY <1>2, StreamHas DEF StreamFits
<1>6. PageSet(page', w, page, v, u)
  <2>1. u.op # "line"
    BY <1>4
  <2>2. PageSet(S!SetLines(page, u), S!Rendered(S!SetLines(page, u)), page, S!Rendered(page), u)
    BY <1>2, <1>4, <1>5, <2>1, PageSets
  <2> QED
    BY <1>1, <2>2
<1>7. S!Computed(v, u).lines = S!Merged(v.lines, f)
  <2> HIDE DEF v, f
  <2>1. S!Computed(v, u).lines = S!Merged(v.lines, u.lines)
    BY <1>4, <1>5, ComputedIs
  <2> QED
    BY <1>4, <2>1
<1>8. MergeGives(v.lines, f)
  BY <1>3, <1>5, MergedIs
<1> HIDE DEF v, w, f
<1>9. /\ page' \in Pages /\ page'.rendering = TRUE /\ w.lines = S!Merged(v.lines, f) /\ w.ids = v.ids \union S!Numbers(f)
      /\ Known(page', w) /\ (Apart(page.lines) /\ Apart(w.lines) => Apart(page'.lines))
  BY <1>4, <1>6, <1>7 DEF PageSet
<1>10. /\ w.lines \in Seq(Line) /\ Apart(w.lines) /\ S!Numbers(w.lines) = S!Numbers(v.lines) \union S!Numbers(f)
       /\ (Apart(v.lines) => Len(v.lines) <= Len(w.lines))
  BY <1>8, <1>9 DEF MergeGives
<1>11. late = FALSE /\ Apart(v.lines) /\ Apart(page.lines)
  BY <1>1, <1>2 DEF SnapshotOnce, BothApart
<1>12. fetch' \in [at : {"asked", "sent", "done"}, lines : Seq(Line)] /\ fetch'.at = "done" /\ fetch'.lines = << >>
  BY <1>1, <1>3
<1>13. StreamFits'
  <2>1. /\ HubOK(hub') /\ late' \in BOOLEAN /\ due' \in SUBSET due
        /\ socket' \in [at : {"connecting", "open", "closed"}, wire : Seq(Line)] /\ (socket'.at # "open" => socket'.wire = << >>)
    BY <1>1, <1>2 DEF StreamFits
  <2> QED
    BY <1>1, <1>9, <1>12, <2>1, PageFits
<1>14. S!Numbers(<< >>) = {}
  BY <1>3, NumbersAre
<1>15. StillShown(w, due', socket'.wire, fetch'.lines)
  <2>1. CASE Len(v.lines) >= MaxView
    <3>1. Len(v.lines) \in Nat /\ Len(w.lines) \in Nat /\ MaxView \in Nat
      BY <1>5, <1>10, ReadsAssumption
    <3>2. Len(w.lines) >= MaxView
      BY <1>10, <1>11, <2>1, <3>1
    <3> QED
      BY <3>2 DEF StillShown
  <2>2. CASE ~(Len(v.lines) >= MaxView)
    <3>1. /\ due \subseteq (S!Numbers(v.lines) \union S!Numbers(socket.wire)) \union S!Numbers(f)
          /\ v.ids \intersect due \subseteq S!Numbers(v.lines) \union S!Numbers(f)
      BY <1>2, <2>2 DEF StillShown
    <3>2. due' \subseteq (S!Numbers(w.lines) \union S!Numbers(socket'.wire)) \union S!Numbers(fetch'.lines)
      BY <1>1, <1>10, <3>1
    <3>3. w.ids \intersect due' \subseteq S!Numbers(w.lines) \union S!Numbers(fetch'.lines)
      BY <1>1, <1>9, <1>10, <3>1
    <3> QED
      BY <3>2, <3>3 DEF StillShown
  <2> QED
    BY <2>1, <2>2
<1>16. SnapshotOnce(fetch', late', page')
  BY <1>12 DEF SnapshotOnce
<1>17. BothApart(late', page', w)
  BY <1>9, <1>10, <1>11 DEF BothApart
<1>18. Below(socket'.wire, hub'.next) /\ Below(fetch'.lines, hub'.next) /\ IdsBelow(w, hub'.next)
  <2>1. IdsBelow(w, hub.next)
    BY <1>2, <1>9 DEF IdsBelow, Below
  <2>2. Below(fetch'.lines, hub.next)
    BY <1>12, <1>14 DEF Below
  <2> QED
    BY <1>1, <1>2, <2>1, <2>2
<1>19. clearing' \in BOOLEAN
  BY <1>1 DEF StreamInv
<1> QED
  BY <1>9, <1>13, <1>15, <1>16, <1>17, <1>18, <1>19, StreamInvNext DEF w

(* A line is put behind the others; the oldest go if there are too many.   *)
LEMMA LinePut ==
  ASSUME NEW s \in Seq(Line), NEW l \in Line, NEW r, r = S!TailOf(s, MaxView - 1) \o <<l>>
  PROVE  /\ r \in Seq(Line) /\ l.id \in S!Numbers(r)
         /\ Len(s) >= MaxView => Len(r) >= MaxView
         /\ ~(Len(r) >= MaxView) => S!Numbers(r) = S!Numbers(s) \union {l.id}
         /\ Apart(s) /\ l.id \notin S!Numbers(s) => Apart(r)
<1> DEFINE t == S!TailOf(s, MaxView - 1)
           b == <<l>>
<1>1. MaxView - 1 \in Nat /\ MaxView \in Nat
  BY ReadsAssumption
<1>2. t \in Seq(Line) /\ IsEnd(t, s) /\ (Len(s) <= MaxView - 1 => t = s) /\ (Len(s) > MaxView - 1 => Len(t) = MaxView - 1)
  BY <1>1, TailOfIs
<1>3. b \in Seq(Line) /\ S!Numbers(b) = {l.id} /\ Len(b) = 1 /\ b[1] = l
  BY NumbersOne
<1> HIDE DEF t, b
<1>4. r = t \o b
  BY DEF t, b
<1>5. r \in Seq(Line) /\ S!Numbers(r) = S!Numbers(t) \union {l.id}
  BY <1>2, <1>3, <1>4, NumbersJoin
<1>6. Joined(t \o b, Line, t, b)
  BY <1>2, <1>3, JoinIs
<1>7. Joined(r, Line, t, b)
  BY <1>4, <1>6
<1>8. Len(r) = Len(t) + 1 /\ Len(t) \in Nat /\ Len(s) \in Nat
  BY <1>3, <1>7 DEF Joined
<1>9. Len(s) >= MaxView => Len(r) >= MaxView
  BY <1>1, <1>2, <1>8
<1>10. ~(Len(r) >= MaxView) => t = s
  BY <1>1, <1>2, <1>8
<1>11. ASSUME Apart(s), l.id \notin S!Numbers(s) PROVE Apart(r)
  <2>1. PICK d \in 0..Len(s) : /\ Len(t) = Len(s) - d
                               /\ \A i \in 1..(Len(s) - d) : d + i \in 1..Len(s) /\ t[i] = s[d + i]
    BY <1>2 DEF IsEnd
  <2>2. \A i \in 1..Len(t) : d + i \in 1..Len(s) /\ t[i] = s[d + i] /\ r[i] = t[i]
    BY <1>7, <2>1 DEF Joined
  <2>3. r[Len(t) + 1] = l
    <3>1. 1 \in 1..Len(b)
      BY <1>3
    <3>2. r[Len(t) + 1] = b[1]
      BY <1>7, <3>1 DEF Joined
    <3> QED
      BY <1>3, <3>2
  <2>4. \A n : n \in S!Numbers(s) <=> \E i \in 1..Len(s) : s[i].id = n
    BY NumbersAre
  <2>5. \A i \in 1..Len(t) : r[i].id # l.id
    BY <1>11, <2>2, <2>4
  <2>6. \A i, j \in 1..Len(t) : r[i].id = r[j].id => i = j
    <3> SUFFICES ASSUME NEW i \in 1..Len(t), NEW j \in 1..Len(t), r[i].id = r[j].id PROVE i = j
      OBVIOUS
    <3>1. d + i \in 1..Len(s) /\ d + j \in 1..Len(s) /\ s[d + i].id = s[d + j].id
      BY <2>2
    <3>2. d + i = d + j
      BY <1>11, <3>1 DEF Apart
    <3> QED
      BY <2>1, <3>2
  <2>7. \A i \in 1..Len(r) : i \in 1..Len(t) \/ i = Len(t) + 1
    BY <1>8
  <2> QED
    BY <2>3, <2>5, <2>6, <2>7 DEF Apart
<1>12. l.id \in S!Numbers(r) /\ (~(Len(r) >= MaxView) => S!Numbers(r) = S!Numbers(s) \union {l.id})
  BY <1>5, <1>10
<1> QED
  BY <1>5, <1>9, <1>11, <1>12

LEMMA StreamMessageArrives == ASSUME StreamInv, S!MessageArrives PROVE StreamInv'
<1> DEFINE v == S!Rendered(page)
           l == Head(socket.wire)
           wire == Tail(socket.wire)
           w == S!Rendered(page')
<1>1. /\ socket.wire # << >> /\ socket' = [socket EXCEPT !.wire = wire] /\ page' = S!AppendLine(page, l)
      /\ late' = (late \/ \E i \in DOMAIN page.updates : page.updates[i].op = "snapshot")
      /\ UNCHANGED <<recorded, tailed, hub, fetch, clearing, due>>
  BY Zenon DEF S!MessageArrives
<1>2. /\ StreamFits /\ Below(socket.wire, hub.next) /\ Below(fetch.lines, hub.next) /\ IdsBelow(v, hub.next)
      /\ Known(page, v) /\ SnapshotOnce(fetch, late, page) /\ BothApart(late, page, v)
      /\ StillShown(v, due, socket.wire, fetch.lines)
  BY DEF StreamInv
<1>3. socket.wire \in Seq(Line) /\ hub.next \in Nat
  BY StreamHas
<1>4. wire \in Seq(Line) /\ l \in Line /\ S!Numbers(socket.wire) = {l.id} \union S!Numbers(wire)
  BY <1>1, <1>3, NumbersAfterFirst
<1>5. page \in Pages /\ (page.updates # << >> => page.rendering = TRUE) /\ v \in Pages /\ v.lines \in Seq(Line)
  BY <1>2, StreamHas DEF StreamFits
<1>6. socket \in [at : {"connecting", "open", "closed"}, wire : Seq(Line)] /\ (socket.at # "open" => socket.wire = << >>)
  BY <1>2 DEF StreamFits
<1> HIDE DEF v, l, wire, w
<1>7. socket' \in [at : {"connecting", "open", "closed"}, wire : Seq(Line)] /\ socket'.at = socket.at /\ socket'.wire = wire
  BY <1>1, <1>4, <1>6
<1>8. late' = (late \/ "snapshot" \in Pending(page)) /\ late' \in BOOLEAN
  <2>1. late \in BOOLEAN
    BY <1>2 DEF StreamFits
  <2>2. DOMAIN page.updates = 1..Len(page.updates)
    BY <1>5 DEF Pages
  <2>3. (\E i \in DOMAIN page.updates : page.updates[i].op = "snapshot") <=> "snapshot" \in Pending(page)
    BY Zenon, <2>2 DEF Pending
  <2> QED
    BY Zenon, <1>1, <2>1, <2>3
<1>9. late' = FALSE => late = FALSE /\ "snapshot" \notin Pending(page)
  BY Zenon, <1>2, <1>8 DEF StreamFits
<1>10. S!Numbers(v.lines) \subseteq v.ids /\ page.ids \subseteq v.ids /\ S!Numbers(page.lines) \subseteq page.ids
       /\ ("snapshot" \notin Pending(page) => v.ids = page.ids)
  BY <1>2 DEF Known
<1>11. l.id \in Nat \ {0} /\ l.id < hub.next
  BY <1>2, <1>4 DEF Below, Line
<1>12. /\ page' \in Pages /\ (page'.updates # << >> => page'.rendering = TRUE) => StreamFits'
       /\ Below(socket'.wire, hub'.next) /\ Below(fetch'.lines, hub'.next)
  <2>1. Below(wire, hub.next)
    BY <1>2, <1>4 DEF Below
  <2>2. /\ HubOK(hub') /\ due' \in SUBSET due
        /\ fetch' \in [at : {"asked", "sent", "done"}, lines : Seq(Line)] /\ (fetch'.at # "sent" => fetch'.lines = << >>)
    BY <1>1, <1>2 DEF StreamFits
  <2>3. socket'.at # "open" => socket'.wire = << >>
    BY <1>1, <1>6, <1>7
  <2>4. (page' \in Pages /\ (page'.updates # << >> => page'.rendering = TRUE)) => StreamFits'
    BY <1>1, <1>7, <1>8, <2>2, <2>3, PageFits
  <2> QED
    BY <1>1, <1>2, <1>7, <2>1, <2>4
<1>0. clearing' \in BOOLEAN
  BY <1>1 DEF StreamInv
<1>13. fetch'.at # "done" => "snapshot" \notin Pending(page) /\ late' = FALSE
  BY Zenon, <1>1, <1>2, <1>8 DEF SnapshotOnce, StreamFits
<1>14. CASE l.id \in page.ids
  <2>1. page' = page
    BY <1>1, <1>14 DEF S!AppendLine
  <2>2. w = v
    BY <2>1 DEF w, v
  <2>3. StillShown(v, due', wire, fetch'.lines)
    <3>1. CASE Len(v.lines) >= MaxView
      BY <3>1 DEF StillShown
    <3>2. CASE ~(Len(v.lines) >= MaxView)
      <4>1. /\ due \subseteq (S!Numbers(v.lines) \union S!Numbers(socket.wire)) \union S!Numbers(fetch.lines)
            /\ v.ids \intersect due \subseteq S!Numbers(v.lines) \union S!Numbers(fetch.lines)
        BY <1>2, <3>2 DEF StillShown
      <4>2. l.id \in v.ids
        BY <1>10, <1>14
      <4>3. due \subseteq (S!Numbers(v.lines) \union S!Numbers(wire)) \union S!Numbers(fetch.lines)
        BY <1>4, <4>1, <4>2
      <4> QED
        BY <1>1, <4>1, <4>3 DEF StillShown
    <3> QED
      BY <3>1, <3>2
  <2>4. SnapshotOnce(fetch', late', page')
    BY <1>13, <2>1 DEF SnapshotOnce
  <2>5. BothApart(late', page', v)
    BY <1>2, <1>9, <2>1 DEF BothApart
  <2>6. IdsBelow(v, hub'.next) /\ Known(page', v)
    BY <1>1, <1>2, <2>1
  <2>7. StreamFits'
    BY <1>5, <1>12, <2>1
  <2> QED
    BY <1>0, <1>7, <1>12, <2>2, <2>3, <2>4, <2>5, <2>6, <2>7, StreamInvNext DEF w
<1>15. CASE l.id \notin page.ids
  <2> DEFINE p == [page EXCEPT !.ids = page.ids \union {l.id}]
             b == <<l>>
             u == [op |-> "line", lines |-> b]
             vp == S!Rendered(p)
  <2>1. page' = S!SetLines(p, u)
    BY <1>1, <1>15 DEF S!AppendLine
  <2>2. p \in Pages /\ p.ids = page.ids \union {l.id} /\ p.lines = page.lines /\ p.updates = page.updates /\ p.rendering = page.rendering
    <3>1. page.ids \union {l.id} \in SUBSET (Nat \ {0})
      BY <1>5, <1>11 DEF Pages
    <3> QED
      BY <1>5, <3>1 DEF Pages
  <2>3. b \in Seq(Line) /\ S!Numbers(b) = {l.id}
    BY <1>4, NumbersOne
  <2> HIDE DEF p, b
  <2>4. u \in Update /\ u.op = "line" /\ u.lines = b
    BY <2>3 DEF Update
  <2> HIDE DEF u
  <2>5. Like(p, page, {l.id})
    BY <2>2 DEF Like
  <2>6. Like(vp, v, {l.id})
    BY <1>5, <2>2, <2>5, RenderedLike DEF v
  <2>7. vp \in Pages
    BY <2>2, RenderedIs DEF RenderGives
  <2> HIDE DEF vp
  <2>8. vp.lines = v.lines /\ vp.ids = v.ids \union {l.id}
    BY <2>6 DEF Like
  <2>9. Pending(p) = Pending(page)
    BY <2>2 DEF Pending
  <2>10. Known(p, vp)
    BY <1>10, <2>2, <2>8, <2>9 DEF Known
  <2>11. S!Numbers(u.lines) \subseteq vp.ids
    BY <2>3, <2>4, <2>8
  <2>12. p.updates # << >> => p.rendering = TRUE
    BY <1>5, <2>2
  <2>13. PageSet(page', w, p, vp, u)
    <3>1. PageSet(S!SetLines(p, u), S!Rendered(S!SetLines(p, u)), p, S!Rendered(p), u)
      BY <2>2, <2>4, <2>10, <2>11, <2>12, PageSets DEF vp
    <3> QED
      BY <2>1, <3>1 DEF vp, w
  <2>14. S!Computed(vp, u).lines = S!TailOf(v.lines, MaxView - 1) \o b
    <3>1. S!Computed(vp, u).lines = S!TailOf(vp.lines, MaxView - 1) \o u.lines
      BY <2>4, <2>7, ComputedIs
    <3> QED
      BY <2>4, <2>8, <3>1
  <2>15. /\ page' \in Pages /\ page'.rendering = TRUE /\ w.lines = S!TailOf(v.lines, MaxView - 1) \o b /\ w.ids = v.ids \union {l.id}
         /\ Known(page', w) /\ (Apart(page.lines) /\ Apart(w.lines) => Apart(page'.lines))
         /\ Pending(page') \subseteq Pending(page) \union {"line"}
    BY <2>2, <2>4, <2>8, <2>9, <2>13, <2>14 DEF PageSet
  <2>16. w.lines = S!TailOf(v.lines, MaxView - 1) \o <<l>>
    BY <2>15 DEF b
  <2>17. /\ w.lines \in Seq(Line) /\ l.id \in S!Numbers(w.lines)
         /\ Len(v.lines) >= MaxView => Len(w.lines) >= MaxView
         /\ ~(Len(w.lines) >= MaxView) => S!Numbers(w.lines) = S!Numbers(v.lines) \union {l.id}
         /\ Apart(v.lines) /\ l.id \notin S!Numbers(v.lines) => Apart(w.lines)
    BY <1>4, <1>5, <2>16, LinePut
  <2>18. StillShown(w, due', wire, fetch'.lines)
    <3>1. CASE Len(w.lines) >= MaxView
      BY <3>1 DEF StillShown
    <3>2. CASE ~(Len(w.lines) >= MaxView)
      <4>1. /\ due \subseteq (S!Numbers(v.lines) \union S!Numbers(socket.wire)) \union S!Numbers(fetch.lines)
            /\ v.ids \intersect due \subseteq S!Numbers(v.lines) \union S!Numbers(fetch.lines)
        BY <1>2, <2>17, <3>2 DEF StillShown
      <4>2. S!Numbers(w.lines) = S!Numbers(v.lines) \union {l.id}
        BY <2>17, <3>2
      <4>3. due \subseteq (S!Numbers(w.lines) \union S!Numbers(wire)) \union S!Numbers(fetch.lines)
        BY <1>4, <4>1, <4>2
      <4>4. w.ids \intersect due \subseteq S!Numbers(w.lines) \union S!Numbers(fetch.lines)
        BY <2>15, <4>1, <4>2
      <4> QED
        BY <1>1, <4>3, <4>4 DEF StillShown
    <3> QED
      BY <3>1, <3>2
  <2>19. SnapshotOnce(fetch', late', page')
    BY <1>13, <2>15 DEF SnapshotOnce
  <2>20. BothApart(late', page', w)
    <3> SUFFICES ASSUME late' = FALSE PROVE Apart(w.lines) /\ Apart(page'.lines)
      BY DEF BothApart
    <3>1. Apart(v.lines) /\ Apart(page.lines) /\ v.ids = page.ids
      BY <1>2, <1>9, <1>10 DEF BothApart
    <3>2. l.id \notin S!Numbers(v.lines)
      BY <1>10, <1>15, <3>1
    <3> QED
      BY <2>15, <2>17, <3>1, <3>2
  <2>21. IdsBelow(w, hub'.next)
    BY <1>1, <1>2, <1>11, <2>15 DEF IdsBelow
  <2>22. StreamFits'
    BY <1>12, <2>15
  <2> QED
    BY <1>0, <1>7, <1>12, <2>15, <2>18, <2>19, <2>20, <2>21, <2>22, StreamInvNext DEF w
<1> QED
  BY <1>14, <1>15

-----------------------------------------------------------------------------
LEMMA StreamTells ==
  ASSUME StreamInv, S!TailReads \/ S!PollDashboard \/ S!TakeSnapshot
  PROVE  StreamInv'
<1>1. /\ recorded \in Seq(Events) /\ tailed \in 0..Len(recorded) /\ HubOK(hub)
      /\ socket \in [at : {"connecting", "open", "closed"}, wire : Seq(Line)]
  BY DEF StreamInv, StreamFits
<1>2. Len(recorded) \in Nat /\ hub.next \in Nat
  BY <1>1 DEF HubOK
<1>3. S!Unfed \in Feds(hub) /\ S!Synced \in Feds(hub)
  BY <1>1, UnfedIs, SyncedIs
<1>4. ASSUME NEW fed \in Feds(hub), socket' = [socket EXCEPT !.wire = socket.wire \o S!Reaching(fed.out)]
      PROVE  Sends(S!Reaching(fed.out))
  <2> DEFINE out == S!Reaching(fed.out)
  <2>1. fed.out \in Seq(Line) /\ << >> \in Seq(Line)
    BY DEF Feds
  <2>2. out \in Seq(Line)
    BY <2>1 DEF S!Reaching
  <2>3. socket' = [socket EXCEPT !.wire = socket.wire \o out]
    BY <1>4
  <2> HIDE DEF out
  <2>4. Sends(out)
    BY <1>1, <2>2, <2>3, SendsLines
  <2> QED
    BY <2>4 DEF out
<1>5. CASE S!TailReads
  <2> DEFINE e == recorded[tailed + 1]
             fed == S!FeedIfNew(S!Unfed, e)
  <2>1. /\ tailed < Len(recorded) /\ tailed' = tailed + 1 /\ hub' = fed.hub
        /\ socket' = [socket EXCEPT !.wire = socket.wire \o S!Reaching(fed.out)] /\ due' = due \union S!Numbers(S!Reaching(fed.out))
        /\ UNCHANGED <<recorded, fetch, page, clearing, late>>
    BY Zenon, <1>5 DEF S!TailReads, S!Broadcast
  <2>2. e \in Events /\ tailed' \in 0..Len(recorded')
    <3>1. tailed + 1 \in 1..Len(recorded) /\ tailed + 1 \in 0..Len(recorded)
      BY <1>1, <1>2, <2>1
    <3> QED
      BY <1>1, <2>1, <3>1
  <2>3. fed \in Feds(hub)
    BY <1>2, <1>3, <2>2, FeedKeeps
  <2> HIDE DEF fed
  <2>4. Sends(S!Reaching(fed.out))
    BY <1>4, <2>1, <2>3
  <2>5. fetch' = fetch /\ due' = due \union S!Numbers(S!Reaching(fed.out))
    BY <2>1
  <2> QED
    BY <2>1, <2>2, <2>3, <2>4, <2>5, HubTells
<1>6. CASE S!PollDashboard
  <2> DEFINE fed == S!Synced
  <2>1. /\ hub' = fed.hub
        /\ socket' = [socket EXCEPT !.wire = socket.wire \o S!Reaching(fed.out)] /\ due' = due \union S!Numbers(S!Reaching(fed.out))
        /\ UNCHANGED <<recorded, tailed, fetch, page, clearing, late>>
    BY Zenon, <1>6 DEF S!PollDashboard, S!Broadcast
  <2>2. tailed' \in 0..Len(recorded') /\ fed \in Feds(hub)
    BY <1>1, <1>3, <2>1
  <2> HIDE DEF fed
  <2>3. Sends(S!Reaching(fed.out))
    BY <1>4, <2>1, <2>2
  <2>4. fetch' = fetch /\ due' = due \union S!Numbers(S!Reaching(fed.out))
    BY <2>1
  <2> QED
    BY <2>1, <2>2, <2>3, <2>4, HubTells
<1>7. CASE S!TakeSnapshot
  <2> DEFINE fed == S!Synced
  <2>1. /\ fetch.at = "asked" /\ hub' = fed.hub /\ fetch' = [at |-> "sent", lines |-> fed.hub.lines]
        /\ socket' = [socket EXCEPT !.wire = socket.wire \o S!Reaching(fed.out)]
        /\ due' = (due \union S!Numbers(fed.hub.lines)) \union S!Numbers(S!Reaching(fed.out))
        /\ UNCHANGED <<recorded, tailed, page, clearing, late>>
    BY Zenon, <1>7 DEF S!TakeSnapshot
  <2>2. tailed' \in 0..Len(recorded') /\ fed \in Feds(hub)
    BY <1>1, <1>3, <2>1
  <2> HIDE DEF fed
  <2>3. Sends(S!Reaching(fed.out))
    BY <1>4, <2>1, <2>2
  <2>4. /\ fetch.at = "asked" /\ fetch' = [at |-> "sent", lines |-> fed.hub.lines]
        /\ due' = (due \union S!Numbers(fed.hub.lines)) \union S!Numbers(S!Reaching(fed.out))
    BY <2>1
  <2> QED
    BY <2>1, <2>2, <2>3, <2>4, HubTells
<1> QED
  BY <1>5, <1>6, <1>7

LEMMA StreamLoses ==
  ASSUME StreamInv,
         (\E e \in Events : S!RecordEvent(e)) \/ S!SnapshotFails \/ S!SocketOpens \/ S!SocketCloses \/ S!Reconnect
  PROVE  StreamInv'
<1>1. /\ recorded \in Seq(Events) /\ tailed \in 0..Len(recorded) /\ due \in SUBSET (Nat \ {0})
      /\ socket \in [at : {"connecting", "open", "closed"}, wire : Seq(Line)]
      /\ fetch \in [at : {"asked", "sent", "done"}, lines : Seq(Line)]
      /\ socket.at # "open" => socket.wire = << >>
  BY DEF StreamInv, StreamFits
<1>2. << >> \in Seq(Line)
  OBVIOUS
<1>3. CASE \E e \in Events : S!RecordEvent(e)
  <2>1. PICK e \in Events : S!RecordEvent(e)
    BY <1>3
  <2>2. recorded' = Append(recorded, e) /\ UNCHANGED <<tailed, hub, socket, fetch, page, clearing, due, late>>
    BY <2>1 DEF S!RecordEvent
  <2>3. recorded' \in Seq(Events) /\ Len(recorded') = Len(recorded) + 1 /\ Len(recorded) \in Nat
    BY <1>1, <2>2, AppendProperties
  <2>4. tailed' \in 0..Len(recorded')
    BY <1>1, <2>2, <2>3
  <2>9. Loses
    BY <1>1, <2>2, <2>3, <2>4 DEF Loses
  <2> QED
    BY <2>9, LinesLost
<1>4. CASE S!SnapshotFails
  <2>1. /\ fetch' = [at |-> "done", lines |-> << >>] /\ due' = due \ S!Numbers(fetch.lines)
        /\ UNCHANGED <<recorded, tailed, hub, socket, page, clearing, late>>
    BY <1>4 DEF S!SnapshotFails
  <2>2. fetch' \in [at : {"asked", "sent", "done"}, lines : Seq(Line)] /\ fetch'.at = "done" /\ fetch'.lines = << >>
    BY <1>2, <2>1
  <2>3. due' \intersect S!Numbers(fetch.lines) = {} /\ due' \subseteq due
    BY <2>1
  <2>9. Loses
    BY <1>1, <2>1, <2>2, <2>3 DEF Loses
  <2> QED
    BY <2>9, LinesLost
<1>5. CASE S!SocketOpens
  <2>1. /\ socket.at = "connecting" /\ socket' = [socket EXCEPT !.at = "open"]
        /\ UNCHANGED <<recorded, tailed, hub, fetch, page, clearing, due, late>>
    BY <1>5 DEF S!SocketOpens
  <2>2. socket' \in [at : {"connecting", "open", "closed"}, wire : Seq(Line)] /\ socket'.at = "open" /\ socket'.wire = socket.wire
    BY <1>1, <2>1
  <2>9. Loses
    BY <1>1, <2>1, <2>2 DEF Loses
  <2> QED
    BY <2>9, LinesLost
<1>6. CASE S!SocketCloses
  <2>1. /\ socket' = [at |-> "closed", wire |-> << >>] /\ due' = due \ S!Numbers(socket.wire)
        /\ UNCHANGED <<recorded, tailed, hub, fetch, page, clearing, late>>
    BY <1>6 DEF S!SocketCloses
  <2>2. socket' \in [at : {"connecting", "open", "closed"}, wire : Seq(Line)] /\ socket'.wire = << >>
    BY <1>2, <2>1
  <2>3. due' \intersect S!Numbers(socket.wire) = {} /\ due' \subseteq due
    BY <2>1
  <2>9. Loses
    BY <1>1, <2>1, <2>2, <2>3 DEF Loses
  <2> QED
    BY <2>9, LinesLost
<1>7. CASE S!Reconnect
  <2>1. /\ socket.at = "closed" /\ socket' = [socket EXCEPT !.at = "connecting"]
        /\ UNCHANGED <<recorded, tailed, hub, fetch, page, clearing, due, late>>
    BY <1>7 DEF S!Reconnect
  <2>2. socket' \in [at : {"connecting", "open", "closed"}, wire : Seq(Line)] /\ socket'.wire = << >> /\ socket'.wire = socket.wire
    BY <1>1, <2>1
  <2>9. Loses
    BY <1>1, <2>1, <2>2 DEF Loses
  <2> QED
    BY <2>9, LinesLost
<1> QED
  BY <1>3, <1>4, <1>5, <1>6, <1>7

LEMMA StreamNextInv == ASSUME StreamInv, S!StreamNext PROVE StreamInv'
<1>1. CASE S!TailReads \/ S!PollDashboard \/ S!TakeSnapshot
  BY <1>1, StreamTells
<1>2. CASE (\E e \in Events : S!RecordEvent(e)) \/ S!SnapshotFails \/ S!SocketOpens \/ S!SocketCloses \/ S!Reconnect
  BY <1>2, StreamLoses
<1>3. CASE S!SnapshotArrives
  BY <1>3, StreamSnapshotArrives
<1>4. CASE S!MessageArrives
  BY <1>4, StreamMessageArrives
<1>5. CASE S!Render
  BY <1>5, StreamRender
<1>6. CASE \E done \in BOOLEAN : S!ClearHub(done)
  BY <1>6, StreamClearHub
<1>7. CASE S!ClearPage
  BY <1>7, StreamClearPage
<1> QED
  BY Zenon, <1>1, <1>2, <1>3, <1>4, <1>5, <1>6, <1>7 DEF S!StreamNext

LEMMA StreamStutterInv == ASSUME StreamInv, UNCHANGED streamVars PROVE StreamInv'
<1>1. UNCHANGED <<recorded, tailed, hub, socket, fetch, page, clearing, due, late>>
  BY DEF streamVars
<1>2. /\ recorded \in Seq(Events) /\ tailed \in 0..Len(recorded) /\ due \in SUBSET (Nat \ {0})
      /\ socket \in [at : {"connecting", "open", "closed"}, wire : Seq(Line)]
      /\ fetch \in [at : {"asked", "sent", "done"}, lines : Seq(Line)]
      /\ socket.at # "open" => socket.wire = << >>
  BY DEF StreamInv, StreamFits
<1>3. Loses
  BY <1>1, <1>2 DEF Loses
<1> QED
  BY <1>3, LinesLost

(* What the invariant says of a page at rest.                              *)
LEMMA StreamInvGives == ASSUME StreamInv PROVE S!StreamTypeOK /\ S!ViewSound
<1> DEFINE v == S!Rendered(page)
<1>1. /\ StreamFits /\ Known(page, v) /\ BothApart(late, page, v)
      /\ StillShown(v, due, socket.wire, fetch.lines)
  BY DEF StreamInv
<1>2. /\ recorded \in Seq(Events) /\ tailed \in 0..Len(recorded) /\ HubOK(hub)
      /\ socket \in [at : {"connecting", "open", "closed"}, wire : Seq(Line)]
      /\ fetch \in [at : {"asked", "sent", "done"}, lines : Seq(Line)]
      /\ page \in Pages /\ late \in BOOLEAN
      /\ socket.at # "open" => socket.wire = << >>
      /\ page.updates # << >> => page.rendering = TRUE
      /\ fetch.at # "sent" => fetch.lines = << >>
  BY <1>1 DEF StreamFits
<1>3. S!StreamTypeOK
  <2>1. S!ToSet(recorded) \subseteq Events
    BY <1>2 DEF S!ToSet
  <2>2. Len(hub.lines) <= MaxKept /\ Len(hub.seen) <= Cardinality(Events)
    BY <1>2 DEF HubOK
  <2>3. socket.at \in {"connecting", "open", "closed"} /\ fetch.at \in {"asked", "sent", "done"}
    BY <1>2
  <2>4. clearing \in BOOLEAN
    BY DEF StreamInv
  <2> QED
    BY Zenon, <1>2, <2>1, <2>2, <2>3, <2>4 DEF S!StreamTypeOK
<1>4. S!NothingMissed
  <2> SUFFICES ASSUME S!Quiet, Len(page.lines) < MaxView PROVE due \subseteq S!Numbers(page.lines)
    BY DEF S!NothingMissed
  <2>1. socket.wire = << >> /\ fetch.at = "done" /\ ~page.rendering
    BY Zenon DEF S!Quiet
  <2>2. page.updates = << >> /\ fetch.lines = << >>
    BY <1>2, <2>1
  <2>3. v = page
    BY <1>2, <2>2, RenderedIs DEF RenderGives
  <2>4. S!Numbers(<< >>) = {}
    BY StreamHas, NumbersAre
  <2>5. ~(Len(page.lines) >= MaxView)
    <3>1. Len(page.lines) \in Nat /\ MaxView \in Nat
      BY <1>2, ReadsAssumption DEF Pages
    <3> QED
      BY <3>1
  <2>6. due \subseteq (S!Numbers(page.lines) \union S!Numbers(socket.wire)) \union S!Numbers(fetch.lines)
    BY <1>1, <2>3, <2>5 DEF StillShown
  <2> QED
    BY <2>1, <2>2, <2>4, <2>6
<1>5. S!ShownOnce
  <2> SUFFICES ASSUME late = FALSE PROVE S!IsInjective([i \in DOMAIN page.lines |-> page.lines[i].id])
    BY Zenon, <1>2 DEF S!ShownOnce
  <2>1. Apart(page.lines)
    BY <1>1 DEF BothApart
  <2>2. DOMAIN page.lines = 1..Len(page.lines)
    BY <1>2 DEF Pages
  <2> QED
    BY <2>1, <2>2 DEF S!IsInjective, Apart
<1>6. S!ToldOnce
  <2>1. EventsApart(hub.lines) /\ DOMAIN hub.lines = 1..Len(hub.lines)
    BY <1>2 DEF HubOK
  <2>2. S!IsInjective([i \in DOMAIN hub.lines |-> hub.lines[i].event])
    BY <2>1 DEF S!IsInjective, EventsApart
  <2> QED
    BY <2>2 DEF S!ToldOnce
<1> QED
  BY <1>3, <1>4, <1>5, <1>6 DEF S!ViewSound
=============================================================================

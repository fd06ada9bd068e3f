--------------------------- MODULE MCLookupsProofs ---------------------------
(***************************************************************************)
(* Proofs about what is looked up, for any disk, drives, tables, roots and *)
(* configuration files: the guard of the paths, the registry of the        *)
(* workspaces while several runtimes change it, and the catalog of skills  *)
(* and child servers while files are edited.  MCStoresProofs has the       *)
(* theorem about Spec.                                                     *)
(***************************************************************************)
EXTENDS MCLookups, SequenceLemmas, FiniteSetTheorems

-----------------------------------------------------------------------------
(* A path followed through the links of the disk.                          *)
AnyPath == Seq(Names)
Linked(q) == q \in DOMAIN Disk /\ Disk[q].kind = "link"
LEMMA DiskIs ==
  /\ MaxLinks \in Nat /\ DOMAIN Disk \subseteq AnyPath
  /\ \A q \in DOMAIN Disk : Disk[q].kind = "link" => Disk[q].to \in AnyPath /\ Disk[q].to # << >>
<1>1. /\ MaxLinks \in Nat /\ DOMAIN Disk \subseteq Paths
      /\ \A q \in DOMAIN Disk : Disk[q] \in [kind : {"dir", "file"}] \union [kind : {"link"}, to : Paths]
  BY LookupsAssumption
<1>2. ASSUME NEW q \in DOMAIN Disk, Disk[q].kind = "link" PROVE Disk[q].to \in Paths
  BY <1>1, <1>2
<1> QED
  BY <1>1, <1>2 DEF Paths, AnyPath

LEMMA StopsAre ==
  ASSUME NEW p \in AnyPath
  PROVE  /\ \A n : n \in W!Stops(Disk, p) <=> n \in 1..Len(p) /\ (SubSeq(p, 1, n) \notin DOMAIN Disk \/ Linked(SubSeq(p, 1, n)))
         /\ W!Stops(Disk, p) \subseteq 1..Len(p) /\ Len(p) \in Nat
<1>1. Len(p) \in Nat
  BY DEF AnyPath
<1>2. \A q : q \notin DOMAIN Disk \/ Linked(q) <=> q \notin DOMAIN Disk \/ Disk[q].kind = "link"
  BY DEF Linked
<1>3. \A n : n \in W!Stops(Disk, p) <=> n \in 1..Len(p) /\ (SubSeq(p, 1, n) \notin DOMAIN Disk \/ Linked(SubSeq(p, 1, n)))
  BY <1>2 DEF W!Stops
<1> QED
  BY <1>1, <1>3

(* The first link on the way of p, or the first place where nothing is.    *)
StopsFirst(p, n) == n \in W!Stops(Disk, p) /\ \A m \in W!Stops(Disk, p) : n <= m
Onward(p, n) ==
    IF SubSeq(p, 1, n) \notin DOMAIN Disk THEN << >> ELSE Disk[SubSeq(p, 1, n)].to \o SubSeq(p, n + 1, Len(p))
LEMMA StopsSome ==
  ASSUME NEW p \in AnyPath, W!Stops(Disk, p) # {}
  PROVE  \E n : StopsFirst(p, n)
<1>1. W!Stops(Disk, p) \in SUBSET Nat
  BY StopsAre
<1> QED
  BY <1>1, LeastNat DEF StopsFirst

LEMMA FollowFrom ==
  ASSUME NEW p \in AnyPath, NEW n, StopsFirst(p, n)
  PROVE  W!Follow(Disk, p) = Onward(p, n) /\ Onward(p, n) \in AnyPath
<1> DEFINE k == CHOOSE m \in W!Stops(Disk, p) : \A j \in W!Stops(Disk, p) : m <= j
<1>1. W!Stops(Disk, p) \subseteq 1..Len(p) /\ Len(p) \in Nat /\ W!Stops(Disk, p) # {} /\ n \in W!Stops(Disk, p)
  BY StopsAre DEF StopsFirst
<1>2. k \in W!Stops(Disk, p) /\ \A j \in W!Stops(Disk, p) : k <= j
  BY DEF StopsFirst
<1>3. W!Follow(Disk, p) = Onward(p, k)
  BY <1>1, Zenon DEF W!Follow, Onward, W!Nowhere
<1> HIDE DEF k
<1>4. k = n
  BY <1>1, <1>2 DEF StopsFirst
<1>5. Onward(p, n) \in AnyPath
  <2>1. CASE SubSeq(p, 1, n) \notin DOMAIN Disk
    BY <2>1 DEF Onward, AnyPath
  <2>2. CASE SubSeq(p, 1, n) \in DOMAIN Disk
    <3>1. Disk[SubSeq(p, 1, n)].kind = "link" /\ n \in 1..Len(p)
      BY <1>1, <2>2, StopsAre DEF Linked
    <3>2. Disk[SubSeq(p, 1, n)].to \in Seq(Names)
      BY <2>2, <3>1, DiskIs DEF AnyPath
    <3>3. SubSeq(p, n + 1, Len(p)) \in Seq(Names)
      BY <1>1, <3>1, AfterIs DEF AnyPath
    <3>4. Onward(p, n) = Disk[SubSeq(p, 1, n)].to \o SubSeq(p, n + 1, Len(p))
      BY <2>2 DEF Onward
    <3> QED
      BY <3>2, <3>3, <3>4, ConcatProperties DEF AnyPath
  <2> QED
    BY <2>1, <2>2
<1> QED
  BY <1>3, <1>4, <1>5

LEMMA FollowIs ==
  ASSUME NEW p \in AnyPath
  PROVE  /\ W!Follow(Disk, p) \in AnyPath
         /\ W!Stops(Disk, p) = {} => W!Follow(Disk, p) = p
<1>1. W!Stops(Disk, p) = {} => W!Follow(Disk, p) = p
  BY Zenon DEF W!Follow
<1>2. CASE W!Stops(Disk, p) # {}
  BY <1>2, StopsSome, FollowFrom
<1> QED
  BY <1>1, <1>2

(* Where a path comes to after the links that are followed.                *)
Settled(p) == IF W!Stops(Disk, p) = {} THEN p ELSE << >>
(* The ways it takes.                                                      *)
LinksOf(f, p) == f = [i \in 0..MaxLinks |-> IF i = 0 THEN p ELSE W!Follow(Disk, f[i - 1])]
AlongLinks(f, p, A) ==
    /\ f \in [0..MaxLinks -> A] /\ f[0] = p /\ \A i \in 1..MaxLinks : f[i] = W!Follow(Disk, f[i - 1])
    /\ W!Realpath(Disk, p) = Settled(f[MaxLinks])
LEMMA LinksExist ==
  ASSUME NEW p, NEW A, MaxLinks \in Nat, p \in A, \A a \in A, i \in 1..MaxLinks : W!Follow(Disk, a) \in A
  PROVE  \E f : AlongLinks(f, p, A)
<1> DEFINE N == MaxLinks
           base == p
           step == [x \in A \X (1..N) |-> W!Follow(Disk, x[1])]
<1>1. N \in Nat /\ base \in A
  OBVIOUS
<1>2. \A a \in A, i \in 1..N : W!Follow(Disk, a) \in A
  OBVIOUS
<1> HIDE DEF N, base
<1>3. \A a \in A, i \in 1..N : step[<<a, i>>] = W!Follow(Disk, a)
  OBVIOUS
<1>4. step \in [A \X (1..N) -> A]
  <2>1. ASSUME NEW x \in A \X (1..N) PROVE W!Follow(Disk, x[1]) \in A
    <3>1. x[1] \in A /\ x[2] \in 1..N
      OBVIOUS
    <3> QED
      BY <1>2, <3>1
  <2> QED
    BY <2>1
<1> HIDE DEF step
<1>5. PICK g : Recurses(g, A, base, N, step)
  BY <1>1, <1>4, RecursionExists
<1>6. g \in [0..N -> A] /\ g[0] = base /\ \A i \in 1..N : g[i] = step[<<g[i - 1], i>>]
  BY <1>5 DEF Recurses
<1>7. \A i \in 0..N : g[i] = IF i = 0 THEN base ELSE W!Follow(Disk, g[i - 1])
  <2> SUFFICES ASSUME NEW i \in 0..N, i # 0 PROVE g[i] = W!Follow(Disk, g[i - 1])
    BY <1>6
  <2>1. i \in 1..N /\ i - 1 \in 0..N
    BY <1>1
  <2>2. g[i - 1] \in A
    BY <1>6, <2>1
  <2> QED
    BY <1>3, <1>6, <2>1, <2>2
<1>8. LinksOf(g, p)
  <2>1. g = [i \in 0..N |-> g[i]]
    BY <1>6
  <2>2. g = [i \in 0..N |-> IF i = 0 THEN base ELSE W!Follow(Disk, g[i - 1])]
    BY <1>7, <2>1
  <2> QED
    BY Zenon, <2>2 DEF LinksOf, N, base
<1>9. LinksOf(CHOOSE h : LinksOf(h, p), p)
  BY <1>8
<1>10. W!Realpath(Disk, p) = Settled((CHOOSE h : LinksOf(h, p))[MaxLinks])
  BY Zenon DEF W!Realpath, Settled, W!Nowhere, LinksOf
<1> DEFINE f == CHOOSE h : LinksOf(h, p)
<1>11. LinksOf(f, p) /\ W!Realpath(Disk, p) = Settled(f[MaxLinks])
  BY <1>9, <1>10
<1> HIDE DEF f
<1>12. f = [i \in 0..N |-> IF i = 0 THEN base ELSE W!Follow(Disk, f[i - 1])]
  BY Zenon, <1>11 DEF LinksOf, N, base
<1>13. f[0] = base /\ \A i \in 1..N : f[i] = W!Follow(Disk, f[i - 1])
  <2>1. 0 \in 0..N /\ \A i \in 1..N : i \in 0..N /\ i # 0
    BY <1>1
  <2>2. \A i \in 0..N : f[i] = IF i = 0 THEN base ELSE W!Follow(Disk, f[i - 1])
    BY <1>12
  <2> QED
    BY <2>1, <2>2
<1>14. \A i \in 1..N : f[i - 1] \in A => f[i] \in A
  BY <1>2, <1>13
<1>15. \A i \in 0..N : f[i] \in A
  BY <1>1, <1>13, <1>14, RecursionKeeps
<1>16. f \in [0..N -> A]
  <2>1. f = [i \in 0..N |-> f[i]]
    BY Zenon, <1>12
  <2> QED
    BY <1>15, <2>1
<1>17. AlongLinks(f, p, A)
  BY <1>11, <1>13, <1>16 DEF AlongLinks, N, base
<1> QED
  BY <1>17

LEMMA RealpathIs ==
  ASSUME NEW p \in AnyPath
  PROVE  /\ W!Realpath(Disk, p) \in AnyPath /\ W!Stops(Disk, W!Realpath(Disk, p)) = {}
         /\ W!Stops(Disk, p) = {} => W!Realpath(Disk, p) = p
<1>0. MaxLinks \in Nat /\ \A a \in AnyPath, i \in 1..MaxLinks : W!Follow(Disk, a) \in AnyPath
  BY DiskIs, FollowIs
<1>1. PICK f : AlongLinks(f, p, AnyPath)
  BY <1>0, LinksExist
<1>2. f[0] = p /\ (\A i \in 1..MaxLinks : f[i] = W!Follow(Disk, f[i - 1])) /\ f[MaxLinks] \in AnyPath
      /\ W!Realpath(Disk, p) = Settled(f[MaxLinks])
  BY <1>0, <1>1 DEF AlongLinks
<1>3. << >> \in AnyPath /\ W!Stops(Disk, << >>) = {}
  <2>1. << >> \in AnyPath /\ Len(<< >>) = 0
    BY DEF AnyPath
  <2>2. 1..0 = {}
    OBVIOUS
  <2> QED
    BY <2>1, <2>2, StopsAre
<1>4. W!Realpath(Disk, p) \in AnyPath /\ W!Stops(Disk, W!Realpath(Disk, p)) = {}
  BY <1>2, <1>3 DEF Settled
<1>5. ASSUME W!Stops(Disk, p) = {} PROVE W!Realpath(Disk, p) = p
  <2> DEFINE A == {p}
  <2>1. f[0] \in A
    BY <1>2
  <2>2. \A i \in 1..MaxLinks : f[i - 1] \in A => f[i] \in A
    BY <1>2, <1>5, FollowIs
  <2> HIDE DEF A
  <2>3. f[MaxLinks] \in A
    BY <1>0, <2>1, <2>2, RecursionKeeps
  <2> QED
    BY <1>2, <1>5, <2>3 DEF A, Settled
<1> QED
  BY <1>4, <1>5

(* Where a path stops nowhere, everything on it is there.                  *)
LEMMA SettledIs ==
  ASSUME NEW p \in AnyPath, W!Stops(Disk, p) = {}
  PROVE  /\ \A n \in 1..Len(p) : SubSeq(p, 1, n) \in DOMAIN Disk /\ Disk[SubSeq(p, 1, n)].kind # "link"
         /\ p # << >> => p \in DOMAIN Disk
<1>1. \A n \in 1..Len(p) : SubSeq(p, 1, n) \in DOMAIN Disk /\ Disk[SubSeq(p, 1, n)].kind # "link"
  BY StopsAre DEF Linked
<1>2. p # << >> => Len(p) \in 1..Len(p) /\ SubSeq(p, 1, Len(p)) = p
  BY EmptySeq, SubSeqProperties DEF AnyPath
<1> QED
  BY <1>1, <1>2

LEMMA AppendParts ==
  ASSUME NEW u \in AnyPath, NEW x \in Names
  PROVE  /\ Append(u, x) \in AnyPath /\ Len(Append(u, x)) = Len(u) + 1 /\ Append(u, x)[Len(u) + 1] = x
         /\ \A n \in 0..Len(u) : SubSeq(Append(u, x), 1, n) = SubSeq(u, 1, n)
         /\ \A n \in 0..Len(u) : SubSeq(Append(u, x), n + 1, Len(u) + 1) = Append(SubSeq(u, n + 1, Len(u)), x)
         /\ \A n \in 0..Len(u) : SubSeq(u, n + 1, Len(u)) \in AnyPath
<1> DEFINE a == Append(u, x)
<1>0. u \in Seq(Names) /\ Len(u) \in Nat
  BY DEF AnyPath
<1>1. a \in Seq(Names) /\ Len(a) = Len(u) + 1 /\ a[Len(u) + 1] = x /\ Len(u) \in Nat /\ \A i \in 1..Len(u) : a[i] = u[i]
  BY <1>0, AppendProperties
<1> HIDE DEF a
<1>2. ASSUME NEW n \in 0..Len(u) PROVE SubSeq(a, 1, n) = SubSeq(u, 1, n)
  <2>1. n \in 0..Len(a)
    BY <1>1
  <2>2. SubSeq(a, 1, n) \in Seq(Names) /\ Len(SubSeq(a, 1, n)) = n /\ \A i \in 1..n : SubSeq(a, 1, n)[i] = a[i]
    BY <1>1, <2>1, AfterIs
  <2>3. SubSeq(u, 1, n) \in Seq(Names) /\ Len(SubSeq(u, 1, n)) = n /\ \A i \in 1..n : SubSeq(u, 1, n)[i] = u[i]
    BY <1>0, AfterIs
  <2>4. \A i \in 1..n : SubSeq(a, 1, n)[i] = SubSeq(u, 1, n)[i]
    BY <1>1, <2>2, <2>3
  <2> QED
    BY <2>2, <2>3, <2>4, SeqEqual
<1>3. ASSUME NEW n \in 0..Len(u)
      PROVE  SubSeq(a, n + 1, Len(u) + 1) = Append(SubSeq(u, n + 1, Len(u)), x) /\ SubSeq(u, n + 1, Len(u)) \in AnyPath
  <2> DEFINE l == SubSeq(a, n + 1, Len(u) + 1)
             m == SubSeq(u, n + 1, Len(u))
             k == Len(u) - n
  <2>1. n \in 0..Len(a) /\ Len(a) = Len(u) + 1 /\ k \in Nat /\ Len(a) - n = k + 1
    BY <1>1
  <2>2. l \in Seq(Names) /\ Len(l) = k + 1 /\ \A i \in 1..(k + 1) : l[i] = a[n + i]
    BY <1>1, <2>1, AfterIs
  <2>3. m \in Seq(Names) /\ Len(m) = k /\ \A i \in 1..k : m[i] = u[n + i]
    BY <1>0, AfterIs
  <2> HIDE DEF l, m
  <2>4. Append(m, x) \in Seq(Names) /\ Len(Append(m, x)) = k + 1 /\ Append(m, x)[k + 1] = x
        /\ \A i \in 1..k : Append(m, x)[i] = m[i]
    BY <2>3, AppendProperties
  <2>5. \A i \in 1..k : n + i \in 1..Len(u)
    BY <1>1
  <2>6. l[k + 1] = x
    <3>1. n + (k + 1) = Len(u) + 1 /\ k + 1 \in 1..(k + 1)
      BY <1>1, <2>1
    <3> QED
      BY <1>1, <2>2, <3>1
  <2>7. \A i \in 1..k : l[i] = Append(m, x)[i]
    <3>1. \A i \in 1..k : i \in 1..(k + 1)
      BY <2>1
    <3> QED
      BY <1>1, <2>2, <2>3, <2>4, <2>5, <3>1
  <2>8. \A i \in 1..(k + 1) : i \in 1..k \/ i = k + 1
    BY <2>1
  <2>9. \A i \in 1..(k + 1) : l[i] = Append(m, x)[i]
    BY <2>4, <2>6, <2>7, <2>8
  <2>10. l = Append(m, x)
    BY <2>2, <2>4, <2>9, SeqEqual
  <2> QED
    BY <2>3, <2>10 DEF l, m, AnyPath
<1> QED
  BY <1>1, <1>2, <1>3 DEF a, AnyPath

(* The first link or gap of a longer path is that of the shorter one, if   *)
(* there is any.                                                           *)
LEMMA StopsLonger ==
  ASSUME NEW u \in AnyPath, NEW x \in Names
  PROVE  /\ \A n \in 1..Len(u) : n \in W!Stops(Disk, Append(u, x)) <=> n \in W!Stops(Disk, u)
         /\ Len(u) + 1 \in W!Stops(Disk, Append(u, x)) <=> Append(u, x) \notin DOMAIN Disk \/ Linked(Append(u, x))
         /\ W!Stops(Disk, Append(u, x)) \subseteq 1..(Len(u) + 1)
<1> DEFINE a == Append(u, x)
<1>1. a \in AnyPath /\ Len(a) = Len(u) + 1 /\ \A n \in 0..Len(u) : SubSeq(a, 1, n) = SubSeq(u, 1, n)
  BY AppendParts
<1>2. Len(u) \in Nat
  BY DEF AnyPath
<1>3. SubSeq(a, 1, Len(u) + 1) = a
  BY <1>1, <1>2, SubSeqFull DEF AnyPath
<1> HIDE DEF a
<1>4. ASSUME NEW n \in 1..Len(u) PROVE n \in W!Stops(Disk, a) <=> n \in W!Stops(Disk, u)
  <2>1. n \in 1..Len(a) /\ SubSeq(a, 1, n) = SubSeq(u, 1, n)
    BY <1>1, <1>2
  <2> QED
    BY <1>1, <2>1, StopsAre
<1>5. Len(u) + 1 \in W!Stops(Disk, a) <=> a \notin DOMAIN Disk \/ Linked(a)
  <2>1. Len(u) + 1 \in 1..Len(a)
    BY <1>1, <1>2
  <2> QED
    BY <1>1, <1>3, <2>1, StopsAre
<1>6. W!Stops(Disk, a) \subseteq 1..(Len(u) + 1)
  BY <1>1, StopsAre
<1> QED
  BY <1>4, <1>5, <1>6 DEF a

(* What following does to the way to a name, it does to the name.          *)
LEMMA FollowAppend ==
  ASSUME NEW u \in AnyPath, u # << >>, NEW x \in Names
  PROVE  /\ W!Stops(Disk, u) = {} => Append(u, x) \in DOMAIN Disk \/ W!Follow(Disk, Append(u, x)) = << >>
         /\ W!Stops(Disk, u) # {} =>
              \/ W!Follow(Disk, Append(u, x)) = << >>
              \/ W!Follow(Disk, Append(u, x)) = Append(W!Follow(Disk, u), x) /\ W!Follow(Disk, u) # << >>
<1> DEFINE a == Append(u, x)
<1>1. /\ a \in AnyPath /\ Len(a) = Len(u) + 1
      /\ \A n \in 0..Len(u) : SubSeq(a, 1, n) = SubSeq(u, 1, n)
      /\ \A n \in 0..Len(u) : SubSeq(a, n + 1, Len(u) + 1) = Append(SubSeq(u, n + 1, Len(u)), x)
      /\ \A n \in 0..Len(u) : SubSeq(u, n + 1, Len(u)) \in AnyPath
  BY AppendParts
<1>2. /\ \A n \in 1..Len(u) : n \in W!Stops(Disk, a) <=> n \in W!Stops(Disk, u)
      /\ Len(u) + 1 \in W!Stops(Disk, a) <=> a \notin DOMAIN Disk \/ Linked(a)
      /\ W!Stops(Disk, a) \subseteq 1..(Len(u) + 1)
  BY StopsLonger
<1>3. Len(u) \in Nat /\ SubSeq(a, 1, Len(u) + 1) = a
  BY <1>1, SubSeqFull DEF AnyPath
<1> HIDE DEF a
<1>4. ASSUME W!Stops(Disk, u) = {}, a \notin DOMAIN Disk PROVE W!Follow(Disk, a) = << >>
  <2>1. StopsFirst(a, Len(u) + 1)
    <3>1. \A n \in W!Stops(Disk, a) : n = Len(u) + 1
      BY <1>2, <1>3, <1>4
    <3> QED
      BY <1>2, <1>3, <1>4, <3>1 DEF StopsFirst
  <2> QED
    BY <1>1, <1>3, <1>4, <2>1, FollowFrom DEF Onward
<1>5. ASSUME W!Stops(Disk, u) # {}
      PROVE  \/ W!Follow(Disk, a) = << >>
             \/ W!Follow(Disk, a) = Append(W!Follow(Disk, u), x) /\ W!Follow(Disk, u) # << >>
  <2>1. PICK n : StopsFirst(u, n)
    BY <1>5, StopsSome
  <2>2. n \in 1..Len(u) /\ n \in W!Stops(Disk, u)
    BY <2>1, StopsAre DEF StopsFirst
  <2>3. StopsFirst(a, n)
    <3>1. ASSUME NEW m \in W!Stops(Disk, a) PROVE n <= m
      <4>1. CASE m \in 1..Len(u)
        BY <1>2, <2>1, <4>1 DEF StopsFirst
      <4>2. CASE m \notin 1..Len(u)
        BY <1>2, <1>3, <2>2, <4>2
      <4> QED
        BY <4>1, <4>2
    <3> QED
      BY <1>2, <2>2, <3>1 DEF StopsFirst
  <2>4. W!Follow(Disk, a) = Onward(a, n) /\ W!Follow(Disk, u) = Onward(u, n)
    BY <1>1, <2>1, <2>3, FollowFrom
  <2>5. SubSeq(a, 1, n) = SubSeq(u, 1, n) /\ SubSeq(a, n + 1, Len(a)) = Append(SubSeq(u, n + 1, Len(u)), x)
        /\ SubSeq(u, n + 1, Len(u)) \in Seq(Names)
    <3>1. n \in 0..Len(u)
      BY <1>3, <2>2
    <3> QED
      BY <1>1, <3>1 DEF AnyPath
  <2> DEFINE q == SubSeq(u, 1, n)
             l == SubSeq(u, n + 1, Len(u))
  <2>6. CASE q \notin DOMAIN Disk
    BY <2>4, <2>5, <2>6 DEF Onward
  <2>7. CASE q \in DOMAIN Disk
    <3> DEFINE d == Disk[q].to
    <3>1. Linked(q)
      BY <2>2, <2>7, StopsAre
    <3>2. d \in Seq(Names) /\ d # << >>
      BY <3>1, DiskIs DEF Linked, AnyPath
    <3>3. Onward(a, n) = d \o Append(l, x) /\ Onward(u, n) = d \o l
      BY <2>5, <2>7 DEF Onward
    <3>0. l \in Seq(Names)
      BY <2>5
    <3> HIDE DEF d, l
    <3>4. d \o Append(l, x) = Append(d \o l, x)
      BY <3>0, <3>2, JoinAppend
    <3>5. d \o l # << >>
      <4>0. Len(l) \in Nat /\ Len(d) \in Nat /\ Len(d) # 0
        BY <3>0, <3>2, EmptySeq
      <4>1. Len(d \o l) = Len(d) + Len(l)
        BY <3>0, <3>2, ConcatProperties
      <4>2. Len(d \o l) # 0
        BY <4>0, <4>1
      <4> QED
        BY <4>2
    <3> QED
      BY <2>4, <3>3, <3>4, <3>5
  <2> QED
    BY <2>6, <2>7
<1> QED
  BY <1>4, <1>5 DEF a

LEMMA FrontIs ==
  ASSUME NEW p \in AnyPath, Len(p) > 1
  PROVE  /\ W!Front(p) \in AnyPath /\ W!Front(p) # << >> /\ Len(W!Front(p)) = Len(p) - 1
         /\ W!Last(p) \in Names /\ p = Append(W!Front(p), W!Last(p))
<1>1. Len(p) \in Nat /\ Len(p) \in 1..Len(p) /\ p \in Seq(Names)
  BY DEF AnyPath
<1>2. SubSeq(p, 1, Len(p)) = Append(SubSeq(p, 1, Len(p) - 1), p[Len(p)]) /\ SubSeq(p, 1, Len(p) - 1) \in Seq(Names)
  BY <1>1, FirstOnes
<1>3. SubSeq(p, 1, Len(p)) = p
  BY <1>1, SubSeqFull
<1>4. Len(p) - 1 \in 0..Len(p)
  BY <1>1
<1>5. Len(SubSeq(p, 1, Len(p) - 1)) = Len(p) - 1
  BY <1>1, <1>4, AfterIs
<1>6. p[Len(p)] \in Names
  BY <1>1
<1>7. Len(p) - 1 # 0 /\ Len(<< >>) = 0
  <2>1. Len(<< >>) = 0
    BY EmptySeq
  <2>2. Len(p) \in Nat
    BY <1>1
  <2>3. \A n \in Nat : n > 1 => n - 1 # 0
    OBVIOUS
  <2>4. Len(p) - 1 # 0
    BY <2>2, <2>3
  <2> QED
    BY <2>1, <2>4
<1>8. W!Front(p) = SubSeq(p, 1, Len(p) - 1) /\ W!Last(p) = p[Len(p)]
  BY DEF W!Front, W!Last
<1>9. W!Front(p) # << >>
  BY <1>5, <1>7, <1>8
<1>10. W!Front(p) \in AnyPath
  BY <1>2, <1>8 DEF AnyPath
<1> QED
  BY <1>2, <1>3, <1>5, <1>6, <1>8, <1>9, <1>10

LEMMA FollowNowhere == W!Follow(Disk, << >>) = << >> /\ << >> \in AnyPath /\ W!Stops(Disk, << >>) = {}
<1>1. << >> \in AnyPath /\ Len(<< >>) = 0
  BY DEF AnyPath
<1>2. \A n : n \notin 1..0
  OBVIOUS
<1>3. W!Stops(Disk, << >>) = {}
  BY <1>1, <1>2, StopsAre
<1> QED
  BY <1>1, <1>3, FollowIs

(* u is where the way to a name has come to, and a where the name has: the *)
(* name is still in u, or it is there and has been followed from a settled *)
(* u, or it is lost.                                                       *)
Beside(a, u, x) ==
    \/ u # << >> /\ a = Append(u, x)
    \/ u # << >> /\ W!Stops(Disk, u) = {} /\ Append(u, x) \in DOMAIN Disk
    \/ a = << >>
LEMMA FollowBeside ==
  ASSUME NEW a \in AnyPath, NEW u \in AnyPath, NEW x \in Names, Beside(a, u, x)
  PROVE  Beside(W!Follow(Disk, a), W!Follow(Disk, u), x)
<1>1. CASE u # << >> /\ a = Append(u, x)
  <2>1. CASE W!Stops(Disk, u) = {}
    <3>1. W!Follow(Disk, u) = u
      BY <2>1, FollowIs
    <3>2. a \in DOMAIN Disk \/ W!Follow(Disk, a) = << >>
      BY <1>1, <2>1, FollowAppend
    <3> QED
      BY <1>1, <2>1, <3>1, <3>2 DEF Beside
  <2>2. CASE W!Stops(Disk, u) # {}
    <3>1. \/ W!Follow(Disk, a) = << >>
          \/ W!Follow(Disk, a) = Append(W!Follow(Disk, u), x) /\ W!Follow(Disk, u) # << >>
      BY <1>1, <2>2, FollowAppend
    <3> QED
      BY <3>1 DEF Beside
  <2> QED
    BY <2>1, <2>2
<1>2. CASE u # << >> /\ W!Stops(Disk, u) = {} /\ Append(u, x) \in DOMAIN Disk
  <2>1. W!Follow(Disk, u) = u
    BY <1>2, FollowIs
  <2> QED
    BY <1>2, <2>1 DEF Beside
<1>3. CASE a = << >>
  <2>2. W!Follow(Disk, a) = << >>
    BY <1>3, FollowNowhere
  <2> QED
    BY <2>2 DEF Beside
<1> QED
  BY <1>1, <1>2, <1>3 DEF Beside

(* What has a real path is there.                                          *)
LEMMA LstatIs ==
  ASSUME NEW p \in AnyPath, p # << >>, W!Realpath(Disk, p) # << >>
  PROVE  W!Lstat(Disk, p)
<1>0. MaxLinks \in Nat /\ (\A a \in AnyPath, i \in 1..MaxLinks : W!Follow(Disk, a) \in AnyPath) /\ Len(p) \in Nat
  BY DiskIs, FollowIs DEF AnyPath
<1>1. PICK f : AlongLinks(f, p, AnyPath)
  BY <1>0, LinksExist
<1>2. f \in [0..MaxLinks -> AnyPath] /\ f[0] = p /\ (\A i \in 1..MaxLinks : f[i] = W!Follow(Disk, f[i - 1]))
      /\ W!Realpath(Disk, p) = Settled(f[MaxLinks])
  BY <1>1 DEF AlongLinks
<1>3. f[MaxLinks] \in AnyPath /\ MaxLinks \in 0..MaxLinks /\ W!Stops(Disk, f[MaxLinks]) = {} /\ f[MaxLinks] # << >>
  BY <1>0, <1>2 DEF Settled
<1>4. CASE Len(p) = 1
  <2> SUFFICES ASSUME p \notin DOMAIN Disk PROVE FALSE
    BY <1>4 DEF W!Lstat
  <2>1. SubSeq(p, 1, 1) = p /\ 1 \in 1..Len(p)
    BY <1>4, SubSeqFull DEF AnyPath
  <2>2. 1 \in W!Stops(Disk, p) /\ W!Stops(Disk, p) \subseteq 1..1
    BY <1>4, <2>1, StopsAre
  <2>3. StopsFirst(p, 1)
    BY <2>2 DEF StopsFirst
  <2>4. W!Follow(Disk, p) = << >>
    BY <2>1, <2>3, FollowFrom DEF Onward
  <2>5. W!Follow(Disk, << >>) = << >>
    BY FollowNowhere
  <2> DEFINE A == {p, << >>}
  <2>6. f[0] \in A /\ \A i \in 1..MaxLinks : f[i - 1] \in A => f[i] \in A
    BY <1>2, <2>4, <2>5
  <2> HIDE DEF A
  <2>7. f[MaxLinks] \in A
    <3>1. MaxLinks \in Nat /\ MaxLinks \in 0..MaxLinks
      BY <1>0
    <3>2. \A i \in 0..MaxLinks : f[i] \in A
      BY <2>6, <3>1, RecursionKeeps
    <3> QED
      BY <3>1, <3>2
  <2> QED
    BY <1>3, <2>2, <2>7 DEF A
<1>5. CASE Len(p) # 1
  <2> DEFINE u == W!Front(p)
             x == W!Last(p)
  <2>1. Len(p) > 1
    <3>0. p \in Seq(Names)
      BY DEF AnyPath
    <3>1. Len(p) # 0
      BY <3>0, EmptySeq
    <3>2. \A n \in Nat : n # 0 /\ n # 1 => n > 1
      OBVIOUS
    <3>3. Len(p) \in Nat
      BY <1>0
    <3> QED
      BY <1>5, <3>1, <3>2, <3>3
  <2>2. u \in AnyPath /\ u # << >> /\ x \in Names /\ p = Append(u, x)
    BY <2>1, FrontIs
  <2> HIDE DEF u, x
  <2>3. PICK g : AlongLinks(g, u, AnyPath)
    BY <1>0, <2>2, LinksExist
  <2>4. g \in [0..MaxLinks -> AnyPath] /\ g[0] = u /\ (\A i \in 1..MaxLinks : g[i] = W!Follow(Disk, g[i - 1]))
        /\ W!Realpath(Disk, u) = Settled(g[MaxLinks])
    BY <2>3 DEF AlongLinks
  <2> DEFINE Good == {i \in 0..MaxLinks : Beside(f[i], g[i], x)}
  <2>5. 0 \in Good
    BY <1>0, <1>2, <2>2, <2>4 DEF Beside
  <2>6. ASSUME NEW i \in 1..MaxLinks, i - 1 \in Good PROVE i \in Good
    <3>1. Beside(f[i - 1], g[i - 1], x) /\ i - 1 \in 0..MaxLinks /\ i \in 0..MaxLinks
      BY <1>0, <2>6
    <3>2. f[i - 1] \in AnyPath /\ g[i - 1] \in AnyPath
      BY <1>2, <2>4, <3>1
    <3>3. Beside(W!Follow(Disk, f[i - 1]), W!Follow(Disk, g[i - 1]), x)
      BY <2>2, <3>1, <3>2, FollowBeside
    <3> QED
      BY <1>2, <2>4, <3>1, <3>3
  <2> HIDE DEF Good
  <2>7. MaxLinks \in Good
    BY <1>0, <1>3, <2>5, <2>6, UptoAll
  <2>8. Beside(f[MaxLinks], g[MaxLinks], x) /\ g[MaxLinks] \in AnyPath
    BY <1>3, <2>4, <2>7 DEF Good
  <2> DEFINE v == g[MaxLinks]
  <2>9. v # << >> /\ W!Stops(Disk, v) = {} /\ Append(v, x) \in DOMAIN Disk
    <3>1. CASE v # << >> /\ f[MaxLinks] = Append(v, x)
      <4>1. Append(v, x) \in DOMAIN Disk
        BY <1>3, <3>1, SettledIs
      <4>2. W!Stops(Disk, v) = {}
        BY <1>3, <2>2, <2>8, <3>1, StopsLonger, StopsAre
      <4> QED
        BY <3>1, <4>1, <4>2
    <3> QED
      BY <1>3, <2>8, <3>1 DEF Beside
  <2>10. W!Realpath(Disk, u) = v
    BY <2>4, <2>9 DEF Settled
  <2> QED
    BY <1>5, <2>9, <2>10 DEF W!Lstat, W!Nowhere, u, x
<1> QED
  BY <1>4, <1>5

(* The ancestor that is found is the last one that is there.               *)
There(p, n) == W!Lstat(Disk, SubSeq(p, 1, n))
LEMMA AncestorIs ==
  ASSUME NEW p \in AnyPath
  PROVE  \/ W!Ancestor(Disk, p) = << >> /\ \A n \in 1..Len(p) : ~There(p, n)
         \/ \E n \in 1..Len(p) : /\ W!Ancestor(Disk, p) = SubSeq(p, 1, n) /\ There(p, n)
                                 /\ \A m \in 1..Len(p) : There(p, m) => m <= n
<1> DEFINE seen == {n \in 1..Len(p) : W!Lstat(Disk, SubSeq(p, 1, n))}
           Last(n) == n \in seen /\ \A m \in seen : m <= n
<1>1. CASE seen = {}
  BY <1>1, Zenon DEF W!Ancestor, W!Nowhere, There
<1>2. CASE seen # {}
  <2> DEFINE Image == {i \in 0..Len(p) : Len(p) - i \in seen}
  <2>0. Len(p) \in Nat
    BY DEF AnyPath
  <2>1. Image \in SUBSET Nat
    BY <2>0
  <2>2. Image # {}
    <3>1. PICK n \in seen : TRUE
      BY <1>2
    <3>2. n \in 1..Len(p)
      BY <3>1
    <3>3. Len(p) - n \in 0..Len(p) /\ Len(p) - (Len(p) - n) = n
      BY <2>0, <3>2
    <3> QED
      BY <3>1, <3>3
  <2>3. PICK i \in Image : \A j \in Image : i <= j
    BY <2>1, <2>2, LeastNat
  <2> DEFINE k == Len(p) - i
  <2>4. Last(k)
    <3>1. k \in seen /\ i \in Nat
      BY <2>3
    <3>2. ASSUME NEW m \in seen PROVE m <= k
      <4>1. m \in 1..Len(p)
        OBVIOUS
      <4>2. Len(p) - m \in 0..Len(p) /\ Len(p) - (Len(p) - m) = m
        BY <2>0, <4>1
      <4>3. Len(p) - m \in Image
        BY <4>2
      <4>4. i <= Len(p) - m
        BY <2>3, <4>3
      <4> QED
        BY <2>0, <3>1, <4>1, <4>4
    <3> QED
      BY <3>1, <3>2
  <2> DEFINE n == CHOOSE n \in seen : \A m \in seen : m <= n
  <2>5. n \in seen /\ \A m \in seen : m <= n
    <3>1. \E x \in seen : \A m \in seen : m <= x
      BY <2>4
    <3> QED
      BY <3>1, Zenon
  <2>6. W!Ancestor(Disk, p) = SubSeq(p, 1, n)
    BY <1>2, Zenon DEF W!Ancestor
  <2> HIDE DEF n
  <2>7. n \in 1..Len(p) /\ There(p, n)
    BY <2>5 DEF There
  <2>8. \A m \in 1..Len(p) : There(p, m) => m <= n
    BY <2>5 DEF There
  <2> QED
    BY <2>6, <2>7, <2>8
<1> QED
  BY <1>1, <1>2

-----------------------------------------------------------------------------
(* Which path is asked for.                                                *)
LEMMA WithinIs ==
  ASSUME NEW a \in AnyPath, NEW b \in AnyPath
  PROVE  W!IsWithin(a, b) <=> Len(a) <= Len(b) /\ \A i \in 1..Len(a) : a[i] = b[i]
<1>0. a \in Seq(Names) /\ b \in Seq(Names) /\ Len(a) \in Nat /\ Len(b) \in Nat
  BY DEF AnyPath
<1>1. W!IsWithin(a, b) <=> Len(a) <= Len(b) /\ SubSeq(a, 1, Len(a)) = SubSeq(b, 1, Len(a))
  BY DEF W!IsWithin, W!IsPrefix
<1>2. SubSeq(a, 1, Len(a)) = a
  BY <1>0, SubSeqFull
<1>3. ASSUME Len(a) <= Len(b)
      PROVE  a = SubSeq(b, 1, Len(a)) <=> \A i \in 1..Len(a) : a[i] = b[i]
  <2>1. Len(a) \in 0..Len(b)
    BY <1>0, <1>3
  <2> DEFINE c == SubSeq(b, 1, Len(a))
  <2>2. c \in Seq(Names) /\ Len(c) = Len(a) /\ \A i \in 1..Len(a) : c[i] = b[i]
    BY <1>0, <2>1, AfterIs
  <2> HIDE DEF c
  <2>3. (\A i \in 1..Len(a) : a[i] = b[i]) => a = c
    BY <1>0, <2>2, SeqEqual
  <2>4. a = c => \A i \in 1..Len(a) : a[i] = b[i]
    BY <2>2
  <2> QED
    BY <2>3, <2>4 DEF c
<1> QED
  BY <1>1, <1>2, <1>3

LEMMA EnterIs == ASSUME NEW p \in AnyPath, NEW name \in Names PROVE W!Enter(p, name) \in AnyPath
<1>0. p \in Seq(Names) /\ Len(p) \in Nat
  BY DEF AnyPath
<1>1. CASE name # ".."
  BY <1>0, <1>1 DEF W!Enter, AnyPath
<1>2. CASE name = ".." /\ Len(p) > 1
  BY <1>2, FrontIs DEF W!Enter
<1>3. CASE name = ".." /\ ~(Len(p) > 1)
  BY <1>3 DEF W!Enter
<1> QED
  BY <1>1, <1>2, <1>3
(* The names of a path, entered one after the other.                       *)
EntersOf(f, done, rest) == f = [i \in 0..Len(rest) |-> IF i = 0 THEN done ELSE W!Enter(f[i - 1], rest[i])]
AlongEnters(f, done, rest, A) ==
    /\ f \in [0..Len(rest) -> A] /\ f[0] = done /\ \A i \in 1..Len(rest) : f[i] = W!Enter(f[i - 1], rest[i])
    /\ W!Normal(done, rest) = f[Len(rest)]
LEMMA EntersExist ==
  ASSUME NEW done, NEW rest, NEW A, Len(rest) \in Nat, done \in A, \A a \in A, i \in 1..Len(rest) : W!Enter(a, rest[i]) \in A
  PROVE  \E f : AlongEnters(f, done, rest, A)
<1> DEFINE N == Len(rest)
           base == done
           step == [x \in A \X (1..N) |-> W!Enter(x[1], rest[x[2]])]
<1>1. N \in Nat /\ base \in A
  OBVIOUS
<1>2. \A a \in A, i \in 1..N : W!Enter(a, rest[i]) \in A
  OBVIOUS
<1> HIDE DEF N, base
<1>3. \A a \in A, i \in 1..N : step[<<a, i>>] = W!Enter(a, rest[i])
  OBVIOUS
<1>4. step \in [A \X (1..N) -> A]
  <2>1. ASSUME NEW x \in A \X (1..N) PROVE W!Enter(x[1], rest[x[2]]) \in A
    <3>1. x[1] \in A /\ x[2] \in 1..N
      OBVIOUS
    <3> QED
      BY <1>2, <3>1
  <2> QED
    BY <2>1
<1> HIDE DEF step
<1>5. PICK g : Recurses(g, A, base, N, step)
  BY <1>1, <1>4, RecursionExists
<1>6. g \in [0..N -> A] /\ g[0] = base /\ \A i \in 1..N : g[i] = step[<<g[i - 1], i>>]
  BY <1>5 DEF Recurses
<1>7. \A i \in 0..N : g[i] = IF i = 0 THEN base ELSE W!Enter(g[i - 1], rest[i])
  <2> SUFFICES ASSUME NEW i \in 0..N, i # 0 PROVE g[i] = W!Enter(g[i - 1], rest[i])
    BY <1>6
  <2>1. i \in 1..N /\ i - 1 \in 0..N
    BY <1>1
  <2>2. g[i - 1] \in A
    BY <1>6, <2>1
  <2> QED
    BY <1>3, <1>6, <2>1, <2>2
<1>8. EntersOf(g, done, rest)
  <2>1. g = [i \in 0..N |-> g[i]]
    BY <1>6
  <2>2. g = [i \in 0..N |-> IF i = 0 THEN base ELSE W!Enter(g[i - 1], rest[i])]
    BY <1>7, <2>1
  <2> QED
    BY Zenon, <2>2 DEF EntersOf, N, base
<1>9. EntersOf(CHOOSE h : EntersOf(h, done, rest), done, rest)
  BY <1>8
<1>10. W!Normal(done, rest) = (CHOOSE h : EntersOf(h, done, rest))[Len(rest)]
  BY Zenon DEF W!Normal, EntersOf
<1> DEFINE f == CHOOSE h : EntersOf(h, done, rest)
<1>11. EntersOf(f, done, rest) /\ W!Normal(done, rest) = f[Len(rest)]
  BY <1>9, <1>10
<1> HIDE DEF f
<1>12. f = [i \in 0..N |-> IF i = 0 THEN base ELSE W!Enter(f[i - 1], rest[i])]
  BY Zenon, <1>11 DEF EntersOf, N, base
<1>13. f[0] = base /\ \A i \in 1..N : f[i] = W!Enter(f[i - 1], rest[i])
  <2>1. 0 \in 0..N /\ \A i \in 1..N : i \in 0..N /\ i # 0
    BY <1>1
  <2>2. \A i \in 0..N : f[i] = IF i = 0 THEN base ELSE W!Enter(f[i - 1], rest[i])
    BY <1>12
  <2> QED
    BY <2>1, <2>2
<1>14. \A i \in 1..N : f[i - 1] \in A => f[i] \in A
  BY <1>2, <1>13
<1>15. \A i \in 0..N : f[i] \in A
  BY <1>1, <1>13, <1>14, RecursionKeeps
<1>16. f \in [0..N -> A]
  <2>1. f = [i \in 0..N |-> f[i]]
    BY Zenon, <1>12
  <2> QED
    BY <1>15, <2>1
<1>17. AlongEnters(f, done, rest, A)
  BY <1>11, <1>13, <1>16 DEF AlongEnters, N, base
<1> QED
  BY <1>17

LEMMA NormalIs == ASSUME NEW done \in AnyPath, NEW rest \in AnyPath PROVE W!Normal(done, rest) \in AnyPath
<1>0. Len(rest) \in Nat /\ \A i \in 1..Len(rest) : rest[i] \in Names
  BY DEF AnyPath
<1>1. \A a \in AnyPath, i \in 1..Len(rest) : W!Enter(a, rest[i]) \in AnyPath
  BY <1>0, EnterIs
<1>2. PICK f : AlongEnters(f, done, rest, AnyPath)
  BY <1>0, <1>1, EntersExist
<1>3. Len(rest) \in 0..Len(rest)
  BY <1>0
<1> QED
  BY <1>2, <1>3 DEF AlongEnters

LEMMA ResolvedIs ==
  ASSUME NEW root \in AnyPath, NEW in, in.path \in AnyPath
  PROVE  W!Resolved(root, in) \in AnyPath
<1>1. W!Normal(<< >>, in.path) \in AnyPath /\ W!Normal(root, in.path) \in AnyPath
  BY NormalIs, FollowNowhere
<1> QED
  BY <1>1 DEF W!Resolved

(* What the guard answers, case by case.  Ahead: the nearest parent of p   *)
(* that exists really lies inside.                                         *)
Ahead(root, p) ==
    LET up == W!Ancestor(Disk, p)
    IN  up # << >> /\ W!Realpath(Disk, up) # << >> /\ W!IsWithin(root, W!Realpath(Disk, up))
LEMMA MissingIs ==
  ASSUME NEW root, NEW p, NEW o
  PROVE  IF Ahead(root, p) THEN W!Missing(Disk, root, p, o) = o
         ELSE W!Missing(Disk, root, p, o).code \in {"PATH_OUTSIDE_WORKSPACE", "INTERNAL_ERROR"}
<1> DEFINE up == W!Ancestor(Disk, p)
           ru == W!Realpath(Disk, up)
           m == W!Missing(Disk, root, p, o)
<1>1. CASE up = << >>
  <2>1. m = W!Failed("PATH_OUTSIDE_WORKSPACE")
    BY <1>1, Zenon DEF W!Missing, W!Nowhere
  <2> QED
    BY <1>1, <2>1 DEF W!Failed, Ahead
<1>2. CASE up # << >> /\ ru = << >>
  <2>1. m = W!Failed("INTERNAL_ERROR")
    BY <1>2 DEF W!Missing, W!Nowhere
  <2> QED
    BY <1>2, <2>1 DEF W!Failed, Ahead
<1>3. CASE up # << >> /\ ru # << >> /\ ~W!IsWithin(root, ru)
  <2>1. m = W!Failed("PATH_OUTSIDE_WORKSPACE")
    BY <1>3 DEF W!Missing, W!Nowhere
  <2> QED
    BY <1>3, <2>1 DEF W!Failed, Ahead
<1>4. CASE up # << >> /\ ru # << >> /\ W!IsWithin(root, ru)
  <2>1. m = o
    BY <1>4 DEF W!Missing, W!Nowhere
  <2> QED
    BY <1>4, <2>1 DEF Ahead
<1> QED
  BY <1>1, <1>2, <1>3, <1>4

(* b is the mode.                                                          *)
Barred(b, w, root, p) == W!Secret(b, w, W!Relative(root, p))
LEMMA ReadIs ==
  ASSUME NEW b, NEW w, NEW in, NEW root, root = W!Realpath(Disk, w.root), root # << >>,
         NEW p, p = W!Resolved(root, in), NEW real, real = W!Realpath(Disk, p)
  PROVE  W!ResolveForRead(Disk, b, w, in).code = "OK"
           <=> W!IsWithin(root, p) /\ real # << >> /\ W!IsWithin(root, real) /\ ~Barred(b, w, root, real)
<1> DEFINE read == W!ResolveForRead(Disk, b, w, in)
<1>1. CASE ~W!IsWithin(root, p)
  <2>1. read = W!Failed("PATH_OUTSIDE_WORKSPACE")
    BY <1>1 DEF W!ResolveForRead, W!Nowhere
  <2> QED
    BY <1>1, <2>1 DEF W!Failed
<1>2. CASE W!IsWithin(root, p) /\ real = << >>
  <2>1. read = W!Missing(Disk, root, p, W!Failed("FILE_NOT_FOUND"))
    BY <1>2 DEF W!ResolveForRead, W!Nowhere
  <2>2. W!Failed("FILE_NOT_FOUND").code # "OK"
    BY DEF W!Failed
  <2> QED
    BY <1>2, <2>1, <2>2, MissingIs
<1>3. CASE W!IsWithin(root, p) /\ real # << >> /\ ~W!IsWithin(root, real)
  <2>1. read = W!Failed("PATH_OUTSIDE_WORKSPACE")
    BY <1>3 DEF W!ResolveForRead, W!Nowhere
  <2> QED
    BY <1>3, <2>1 DEF W!Failed
<1>4. CASE W!IsWithin(root, p) /\ real # << >> /\ W!IsWithin(root, real) /\ Barred(b, w, root, real)
  <2>1. read = W!Failed("SECRET_ACCESS_DENIED")
    BY <1>4 DEF W!ResolveForRead, W!Nowhere, Barred
  <2> QED
    BY <1>4, <2>1 DEF W!Failed
<1>5. CASE W!IsWithin(root, p) /\ real # << >> /\ W!IsWithin(root, real) /\ ~Barred(b, w, root, real)
  <2>1. read = W!Found(real)
    BY <1>5 DEF W!ResolveForRead, W!Nowhere, Barred
  <2> QED
    BY <1>5, <2>1 DEF W!Found
<1> QED
  BY <1>1, <1>2, <1>3, <1>4, <1>5

LEMMA WriteIs ==
  ASSUME NEW b, NEW w, NEW in, NEW root, root = W!Realpath(Disk, w.root), root # << >>,
         NEW p, p = W!Resolved(root, in), NEW real, real = W!Realpath(Disk, p)
  PROVE  LET write == W!ResolveForWrite(Disk, b, w, in)
         IN  /\ write.code = "OK" => W!IsWithin(root, p) /\ Ahead(root, p) /\ (real = << >> \/ W!IsWithin(root, real))
             /\ W!IsWithin(root, p) /\ Ahead(root, p) /\ (real = << >> \/ W!IsWithin(root, real))
                  => write.code \in {"OK", "SECRET_ACCESS_DENIED"}
<1> DEFINE write == W!ResolveForWrite(Disk, b, w, in)
           checked == IF real = << >> THEN p ELSE real
           inner == CASE real # << >> /\ ~W!IsWithin(root, real) -> W!Failed("PATH_OUTSIDE_WORKSPACE")
                      [] (real = << >> \/ W!IsWithin(root, real)) /\ W!Secret(b, w, W!Relative(root, checked)) ->
                           W!Failed("SECRET_ACCESS_DENIED")
                      [] OTHER -> W!Found(p)
<1>1. CASE ~W!IsWithin(root, p)
  <2>1. write = W!Failed("PATH_OUTSIDE_WORKSPACE")
    BY <1>1 DEF W!ResolveForWrite, W!Nowhere
  <2> QED
    BY <1>1, <2>1 DEF W!Failed
<1>2. CASE W!IsWithin(root, p)
  <2>1. write = W!Missing(Disk, root, p, inner)
    BY <1>2, Zenon DEF W!ResolveForWrite, W!Nowhere
  <2>2. real # << >> /\ ~W!IsWithin(root, real) => inner.code = "PATH_OUTSIDE_WORKSPACE"
    <3>1. real # << >> /\ ~W!IsWithin(root, real) => inner = W!Failed("PATH_OUTSIDE_WORKSPACE")
      OBVIOUS
    <3> QED
      BY <3>1 DEF W!Failed
  <2>3. real = << >> \/ W!IsWithin(root, real) => inner.code \in {"OK", "SECRET_ACCESS_DENIED"}
    <3>1. real = << >> \/ W!IsWithin(root, real) => inner \in {W!Failed("SECRET_ACCESS_DENIED"), W!Found(p)}
      OBVIOUS
    <3> QED
      BY <3>1 DEF W!Failed, W!Found
  <2> HIDE DEF inner
  <2> QED
    BY <1>2, <2>1, <2>2, <2>3, MissingIs
<1> QED
  BY <1>1, <1>2

LEMMA AppendSame ==
  ASSUME NEW a \in AnyPath, NEW b \in AnyPath, NEW x \in Names, NEW y \in Names, Append(a, x) = Append(b, y)
  PROVE  a = b /\ x = y
<1>0. a \in Seq(Names) /\ b \in Seq(Names) /\ Len(a) \in Nat /\ Len(b) \in Nat
  BY DEF AnyPath
<1> DEFINE s == Append(a, x)
           t == Append(b, y)
<1>1. Len(s) = Len(a) + 1 /\ (\A i \in 1..Len(a) : s[i] = a[i]) /\ s[Len(a) + 1] = x
  BY <1>0, AppendProperties
<1>2. Len(t) = Len(b) + 1 /\ (\A i \in 1..Len(b) : t[i] = b[i]) /\ t[Len(b) + 1] = y
  BY <1>0, AppendProperties
<1>3. s = t
  OBVIOUS
<1> HIDE DEF s, t
<1>4. Len(a) = Len(b)
  BY <1>0, <1>1, <1>2, <1>3
<1>5. \A i \in 1..Len(a) : a[i] = b[i]
  BY <1>1, <1>2, <1>3, <1>4
<1> QED
  BY <1>0, <1>1, <1>2, <1>3, <1>4, <1>5, SeqEqual

(* Where content lands, by the two ways of the code.                       *)
LEMMA LandsIs ==
  ASSUME NEW p, NEW real, real = W!Realpath(Disk, p), NEW up, up = W!Ancestor(Disk, p), NEW ru, ru = W!Realpath(Disk, up)
  PROVE  /\ real # << >> => W!Lands(Disk, p) = real
         /\ real = << >> /\ up # << >> /\ ru # << >> => W!Lands(Disk, p) = ru \o W!Relative(up, p)
         /\ real = << >> /\ ~(up # << >> /\ ru # << >>) => W!Lands(Disk, p) = << >>
<1>1. real # << >> => W!Lands(Disk, p) = real
  BY DEF W!Lands, W!Nowhere
<1>2. real = << >> /\ up # << >> /\ ru # << >> => W!Lands(Disk, p) = ru \o W!Relative(up, p)
  BY DEF W!Lands, W!Nowhere
<1>3. real = << >> /\ ~(up # << >> /\ ru # << >>) => W!Lands(Disk, p) = << >>
  BY DEF W!Lands, W!Nowhere
<1> QED
  BY <1>1, <1>2, <1>3

(* The parts of a path at one of its ancestors.                            *)
LEMMA PartsAt ==
  ASSUME NEW p \in AnyPath, NEW n \in 1..Len(p)
  PROVE  LET up == SubSeq(p, 1, n)
             rest == W!Relative(up, p)
         IN  /\ up \in AnyPath /\ Len(up) = n /\ up # << >>
             /\ rest \in AnyPath /\ Len(rest) = Len(p) - n /\ \A i \in 1..(Len(p) - n) : rest[i] = p[n + i]
<1>1. p \in Seq(Names) /\ Len(p) \in Nat /\ n \in 0..Len(p) /\ n # 0
  BY DEF AnyPath
<1> DEFINE up == SubSeq(p, 1, n)
<1>2. up \in Seq(Names) /\ Len(up) = n
  BY <1>1, AfterIs
<1>3. up # << >>
  BY <1>1, <1>2, EmptySeq
<1>4. W!Relative(up, p) = SubSeq(p, n + 1, Len(p))
  BY <1>2 DEF W!Relative
<1> HIDE DEF up
<1>5. SubSeq(p, n + 1, Len(p)) \in Seq(Names) /\ Len(SubSeq(p, n + 1, Len(p))) = Len(p) - n
      /\ \A i \in 1..(Len(p) - n) : SubSeq(p, n + 1, Len(p))[i] = p[n + i]
  BY <1>1, AfterIs
<1>6. up \in AnyPath /\ W!Relative(up, p) \in AnyPath
  BY <1>2, <1>4, <1>5 DEF AnyPath
<1> QED
  BY <1>2, <1>3, <1>4, <1>5, <1>6 DEF up

LEMMA JoinedWithin ==
  ASSUME NEW root \in AnyPath, NEW a \in AnyPath, NEW b \in AnyPath
  PROVE  /\ a \o b \in AnyPath /\ Len(a \o b) = Len(a) + Len(b)
         /\ \A i \in 1..Len(a) : (a \o b)[i] = a[i]
         /\ \A i \in 1..Len(b) : (a \o b)[Len(a) + i] = b[i]
         /\ W!IsWithin(root, a) => W!IsWithin(root, a \o b)
         /\ W!IsWithin(root, a \o b) /\ Len(root) <= Len(a) => W!IsWithin(root, a)
<1>0. a \in Seq(Names) /\ b \in Seq(Names) /\ Len(a) \in Nat /\ Len(b) \in Nat /\ Len(root) \in Nat
  BY DEF AnyPath
<1> DEFINE c == a \o b
<1>1. /\ c \in Seq(Names) /\ Len(c) = Len(a) + Len(b)
      /\ \A i \in 1..(Len(a) + Len(b)) : c[i] = IF i <= Len(a) THEN a[i] ELSE b[i - Len(a)]
  BY <1>0, ConcatProperties
<1> HIDE DEF c
<1>2. c \in AnyPath
  BY <1>1 DEF AnyPath
<1>3. ASSUME NEW i \in 1..Len(a) PROVE c[i] = a[i]
  <2>1. i \in 1..(Len(a) + Len(b)) /\ i <= Len(a)
    BY <1>0
  <2> QED
    BY <1>1, <2>1
<1>4. ASSUME NEW i \in 1..Len(b) PROVE c[Len(a) + i] = b[i]
  <2>1. Len(a) + i \in 1..(Len(a) + Len(b)) /\ ~(Len(a) + i <= Len(a)) /\ (Len(a) + i) - Len(a) = i
    BY <1>0
  <2> QED
    BY <1>1, <2>1
<1>5. ASSUME W!IsWithin(root, a) PROVE W!IsWithin(root, c)
  <2>1. Len(root) <= Len(a) /\ \A i \in 1..Len(root) : root[i] = a[i]
    BY <1>5, WithinIs
  <2>2. Len(root) <= Len(c) /\ \A i \in 1..Len(root) : i \in 1..Len(a)
    BY <1>0, <1>1, <2>1
  <2>3. \A i \in 1..Len(root) : root[i] = c[i]
    BY <1>3, <2>1, <2>2
  <2> QED
    BY <1>2, <2>2, <2>3, WithinIs
<1>6. ASSUME W!IsWithin(root, c), Len(root) <= Len(a) PROVE W!IsWithin(root, a)
  <2>1. \A i \in 1..Len(root) : root[i] = c[i]
    BY <1>2, <1>6, WithinIs
  <2>2. \A i \in 1..Len(root) : i \in 1..Len(a)
    BY <1>0, <1>6
  <2>3. \A i \in 1..Len(root) : root[i] = a[i]
    BY <1>3, <2>1, <2>2
  <2> QED
    BY <1>6, <2>3, WithinIs
<1> QED
  BY <1>1, <1>2, <1>3, <1>4, <1>5, <1>6 DEF c

(* What lands inside the root had an ancestor inside: otherwise the next   *)
(* name on the way would be on the way of the root, and be there.          *)
LEMMA LandsAhead ==
  ASSUME NEW root \in AnyPath, root # << >>, W!Stops(Disk, root) = {}, NEW p \in AnyPath, W!IsWithin(root, p),
         W!Lands(Disk, p) # << >>, W!IsWithin(root, W!Lands(Disk, p))
  PROVE  Ahead(root, p)
<1> DEFINE real == W!Realpath(Disk, p)
           up == W!Ancestor(Disk, p)
           ru == W!Realpath(Disk, up)
<1>0. root \in Seq(Names) /\ p \in Seq(Names) /\ Len(root) \in Nat /\ Len(p) \in Nat /\ Len(root) # 0 /\ Len(root) <= Len(p)
  <2>1. root \in Seq(Names) /\ p \in Seq(Names)
    BY DEF AnyPath
  <2>2. Len(root) # 0
    BY <2>1, EmptySeq
  <2> QED
    BY <2>1, <2>2, WithinIs
<1>1. CASE real # << >>
  <2>1. p # << >> /\ Len(p) # 0 /\ Len(p) \in 1..Len(p)
    <3>1. \A n, m \in Nat : n # 0 /\ n <= m => m # 0 /\ m \in 1..m
      OBVIOUS
    <3>2. Len(p) # 0 /\ Len(p) \in 1..Len(p)
      BY <1>0, <3>1
    <3> QED
      BY <3>2, EmptySeq
  <2>2. SubSeq(p, 1, Len(p)) = p
    BY <1>0, SubSeqFull
  <2>3. There(p, Len(p))
    BY <1>1, <2>1, <2>2, LstatIs DEF There
  <2>4. PICK n \in 1..Len(p) : up = SubSeq(p, 1, n) /\ \A m \in 1..Len(p) : There(p, m) => m <= n
    BY <2>1, <2>3, AncestorIs
  <2>5. n = Len(p)
    BY <1>0, <2>1, <2>3, <2>4
  <2>6. up = p
    BY <2>2, <2>4, <2>5
  <2>7. W!IsWithin(root, real)
    BY <1>1, LandsIs
  <2> QED
    BY <1>1, <2>1, <2>6, <2>7 DEF Ahead
<1>2. CASE real = << >>
  <2>1. up # << >> /\ ru # << >> /\ W!Lands(Disk, p) = ru \o W!Relative(up, p)
    BY <1>2, LandsIs
  <2>2. PICK n \in 1..Len(p) : up = SubSeq(p, 1, n) /\ \A m \in 1..Len(p) : There(p, m) => m <= n
    BY <2>1, AncestorIs
  <2> DEFINE rest == W!Relative(up, p)
  <2>3. up \in AnyPath /\ rest \in AnyPath /\ Len(rest) = Len(p) - n /\ \A i \in 1..(Len(p) - n) : rest[i] = p[n + i]
    BY <2>2, PartsAt
  <2>4. ru \in AnyPath
    BY <2>3, RealpathIs
  <2> HIDE DEF rest
  <2>5. W!Lands(Disk, p) = ru \o rest
    BY <2>1 DEF rest
  <2> HIDE DEF up, ru
  <2>6. W!IsWithin(root, ru)
    <3> SUFFICES ASSUME ~W!IsWithin(root, ru) PROVE FALSE
      OBVIOUS
    <3>0. ru \in AnyPath /\ rest \in AnyPath /\ root \in AnyPath
      BY <2>3, <2>4
    <3>j. /\ ru \o rest \in AnyPath /\ Len(ru \o rest) = Len(ru) + Len(rest)
          /\ \A i \in 1..Len(ru) : (ru \o rest)[i] = ru[i]
          /\ \A i \in 1..Len(rest) : (ru \o rest)[Len(ru) + i] = rest[i]
          /\ W!IsWithin(root, ru \o rest) /\ Len(root) <= Len(ru) => W!IsWithin(root, ru)
      BY <3>0, JoinedWithin
    <3> DEFINE k == Len(ru)
               all == ru \o rest
    <3>1. /\ all \in AnyPath /\ Len(all) = k + Len(rest)
          /\ \A i \in 1..k : all[i] = ru[i]
          /\ \A i \in 1..Len(rest) : all[k + i] = rest[i]
          /\ W!IsWithin(root, all) /\ Len(root) <= k => W!IsWithin(root, ru)
      BY <3>j
    <3>a. W!Lands(Disk, p) = all
      BY <2>5
    <3> HIDE DEF all
    <3>2. W!IsWithin(root, all)
      BY <3>a
    <3>3. k \in Nat /\ Len(rest) \in Nat
      BY <2>3, <2>4 DEF AnyPath
    <3>4. Len(root) <= Len(all) /\ \A i \in 1..Len(root) : root[i] = all[i]
      BY <3>1, <3>2, WithinIs
    <3>5. ~(Len(root) <= k)
      BY <3>1, <3>2
    <3>6. k + 1 \in 1..Len(root) /\ 1 \in 1..Len(rest) /\ n + 1 \in 1..Len(p) /\ 1 \in 1..(Len(p) - n)
      BY <1>0, <2>3, <3>1, <3>3, <3>4, <3>5
    <3>7. root[k + 1] = p[n + 1]
      BY <2>3, <3>1, <3>4, <3>6
    <3>8. Append(ru, p[n + 1]) = SubSeq(root, 1, k + 1)
      <4> DEFINE s == SubSeq(root, 1, k + 1)
                 a == Append(ru, p[n + 1])
      <4>1. k + 1 \in 0..Len(root) /\ p[n + 1] \in Names /\ ru \in Seq(Names)
        BY <1>0, <2>4, <3>6 DEF AnyPath
      <4>2. s \in Seq(Names) /\ Len(s) = k + 1 /\ \A i \in 1..(k + 1) : s[i] = root[i]
        BY <1>0, <4>1, AfterIs
      <4>3. a \in Seq(Names) /\ Len(a) = k + 1 /\ (\A i \in 1..k : a[i] = ru[i]) /\ a[k + 1] = p[n + 1]
        BY <4>1, AppendProperties
      <4> HIDE DEF s, a
      <4>4. \A i \in 1..(k + 1) : i = k + 1 \/ i \in 1..k
        BY <3>3
      <4>5. \A i \in 1..k : i \in 1..Len(root)
        BY <1>0, <3>3, <3>6
      <4>6. \A i \in 1..(k + 1) : s[i] = a[i]
        BY <3>1, <3>4, <3>7, <4>2, <4>3, <4>4, <4>5
      <4>7. s = a
        BY <4>2, <4>3, <4>6, SeqEqual
      <4> QED
        BY <4>7 DEF s, a
    <3>9. Append(ru, p[n + 1]) \in DOMAIN Disk
      BY <3>6, <3>8, SettledIs
    <3>10. There(p, n + 1)
      <4> DEFINE q == SubSeq(p, 1, n + 1)
      <4>1. q = Append(SubSeq(p, 1, (n + 1) - 1), p[n + 1]) /\ q \in Seq(Names) /\ p[n + 1] \in Names
        BY <1>0, <3>6, FirstOnes
      <4>2. n + 1 \in 0..Len(p) /\ (n + 1) - 1 = n
        BY <3>6
      <4>3. Len(q) = n + 1
        BY <1>0, <4>2, AfterIs
      <4> HIDE DEF q
      <4>4. q = Append(up, p[n + 1])
        BY <2>2, <4>1, <4>2
      <4>5. Len(q) > 1 /\ Len(q) # 1
        BY <2>2, <4>3
      <4>6. q \in AnyPath
        BY <4>1 DEF AnyPath
      <4>7. W!Front(q) \in AnyPath /\ q = Append(W!Front(q), W!Last(q)) /\ W!Last(q) \in Names
        BY <4>5, <4>6, FrontIs
      <4>8. W!Front(q) = up /\ W!Last(q) = p[n + 1]
        BY <2>3, <4>1, <4>4, <4>7, AppendSame
      <4> QED
        BY <2>1, <3>9, <4>5, <4>8 DEF There, W!Lstat, W!Nowhere, q, ru
    <3>11. n + 1 <= n
      BY <2>2, <3>6, <3>10
    <3> QED
      BY <2>2, <3>11
  <2> QED
    BY <2>1, <2>6 DEF Ahead, up, ru
<1> QED
  BY <1>1, <1>2

(* The guard lets a read through exactly to what is inside and not barred, *)
(* a write only to what lands inside, and stops no write that does, except *)
(* for a secret.                                                           *)
LEMMA GuardIs ==
  ASSUME NEW b \in BOOLEAN, NEW w, w.root \in AnyPath, w.real = W!Realpath(Disk, w.root), NEW in, in.path \in AnyPath
  PROVE  W!GuardRight(Disk, b, w, in)
<1> DEFINE root == W!Realpath(Disk, w.root)
           p == W!Resolved(root, in)
           real == W!Realpath(Disk, p)
           lands == W!Lands(Disk, p)
           read == W!ResolveForRead(Disk, b, w, in)
           write == W!ResolveForWrite(Disk, b, w, in)
           Open == b \/ root[1] = "E" \/ w.root[1] = "E" \/ W!Words(W!Relative(root, real)) \intersect Secrets = {}
<1>1. CASE root = << >>
  BY <1>1, Zenon DEF W!GuardRight, W!Nowhere
<1>2. CASE root # << >>
  <2>1. root \in AnyPath /\ W!Stops(Disk, root) = {} /\ p \in AnyPath /\ real \in AnyPath
    <3>1. root \in AnyPath /\ W!Stops(Disk, root) = {}
      BY RealpathIs
    <3>2. p \in AnyPath
      BY <3>1, ResolvedIs
    <3> QED
      BY <3>1, <3>2, RealpathIs
  <2>2. ~Barred(b, w, root, real) <=> Open
    BY DEF Barred, W!Secret
  <2>3. read.code = "OK" <=> W!IsWithin(root, p) /\ real # << >> /\ W!IsWithin(root, real) /\ ~Barred(b, w, root, real)
    BY <1>2, ReadIs
  <2>4. /\ write.code = "OK" => W!IsWithin(root, p) /\ Ahead(root, p) /\ (real = << >> \/ W!IsWithin(root, real))
        /\ W!IsWithin(root, p) /\ Ahead(root, p) /\ (real = << >> \/ W!IsWithin(root, real))
             => write.code \in {"OK", "SECRET_ACCESS_DENIED"}
    BY <1>2, WriteIs
  <2> HIDE DEF read, write
  <2>5. ASSUME Ahead(root, p), real = << >> \/ W!IsWithin(root, real)
        PROVE  lands # << >> /\ W!IsWithin(root, lands)
    <3> DEFINE up == W!Ancestor(Disk, p)
               ru == W!Realpath(Disk, up)
    <3>1. up # << >> /\ ru # << >> /\ W!IsWithin(root, ru)
      BY <2>5 DEF Ahead
    <3>2. CASE real # << >>
      BY <2>5, <3>2, LandsIs
    <3>3. CASE real = << >>
      <4>1. PICK n \in 1..Len(p) : up = SubSeq(p, 1, n)
        BY <2>1, <3>1, AncestorIs
      <4>2. up \in AnyPath /\ W!Relative(up, p) \in AnyPath
        BY <2>1, <4>1, PartsAt
      <4>3. ru \in AnyPath
        BY <4>2, RealpathIs
      <4>4. lands = ru \o W!Relative(up, p)
        <5> HIDE DEF root, p
        <5> QED
          BY <3>1, <3>3, LandsIs, Zenon
      <4> HIDE DEF up, ru, root, lands
      <4>5. W!IsWithin(root, lands) /\ lands \in AnyPath
        BY <2>1, <3>1, <4>2, <4>3, <4>4, JoinedWithin
      <4>6. lands # << >>
        <5>1. Len(root) <= Len(lands) /\ root \in Seq(Names)
          BY <2>1, <4>5, WithinIs DEF AnyPath
        <5>2. Len(root) \in Nat /\ Len(root) # 0
          BY <1>2, <5>1, EmptySeq
        <5>3. Len(<< >>) = 0
          BY EmptySeq
        <5> QED
          BY <5>1, <5>2, <5>3
      <4> QED
        BY <4>5, <4>6
    <3> QED
      BY <3>2, <3>3
  <2>6. ASSUME W!IsWithin(root, p), lands # << >>, W!IsWithin(root, lands)
        PROVE  Ahead(root, p) /\ (real = << >> \/ W!IsWithin(root, real))
    <3>1. Ahead(root, p)
      BY <1>2, <2>1, <2>6, LandsAhead
    <3>2. real # << >> => lands = real
      BY LandsIs
    <3> QED
      BY <2>6, <3>1, <3>2
  <2>7. /\ read.code = "OK" <=> W!IsWithin(root, p) /\ real # << >> /\ W!IsWithin(root, real) /\ Open
        /\ write.code = "OK" => lands # << >> /\ W!IsWithin(root, lands)
        /\ W!IsWithin(root, p) /\ lands # << >> /\ W!IsWithin(root, lands) => write.code \in {"OK", "SECRET_ACCESS_DENIED"}
    BY <2>2, <2>3, <2>4, <2>5, <2>6
  <2> QED
    BY <2>7, Zenon DEF W!GuardRight, W!Nowhere, read, write
<1> QED
  BY <1>1, <1>2

(* A row of the table, and what a selection of rows says.                  *)
Rows == [id : Nat \ {0}, root : Paths, real : Paths]
Resolves(w) == w.real = W!Realpath(Disk, w.root)
TableRows == {w \in Rows : Resolves(w)}
LEMMA PicksSome ==
  ASSUME NEW Image, NEW s \in Seq(Image), NEW All
  PROVE  /\ \A x : x \in W!Words(W!Selected(s, All)) <=> x \in W!Words(s) /\ x \in All
         /\ W!Selected(s, All) = << >> <=> \A x \in W!Words(s) : x \notin All
         /\ W!Selected(s, All) # << >> => W!Selected(s, All)[1] \in W!Words(s) /\ W!Selected(s, All)[1] \in All
         /\ W!Selected(s, All) \in Seq(Image) /\ \A x : x \in W!Words(s) => x \in Image
<1> DEFINE r == W!Selected(s, All)
<1>0. r = Selected(s, All)
  BY Zenon DEF W!Selected, Selected
<1>1. r \in Seq(Image) /\ Len(r) \in Nat /\ DOMAIN r = 1..Len(r) /\ DOMAIN s = 1..Len(s)
  BY <1>0, SelectedOrder
<1>2. PICK e : Order(e, s, r, All)
  BY <1>0, SelectedOrder
<1> HIDE DEF r
<1>3. \A x : x \in W!Words(r) <=> x \in W!Words(s) /\ x \in All
  <2>1. ASSUME NEW x \in W!Words(r) PROVE x \in W!Words(s) /\ x \in All
    <3>1. PICK k \in 1..Len(r) : x = r[k]
      BY <1>1 DEF W!Words
    <3>2. e[k] \in 1..Len(s) /\ r[k] = s[e[k]] /\ s[e[k]] \in All
      BY <1>2 DEF Order
    <3> QED
      BY <1>1, <3>1, <3>2 DEF W!Words
  <2>2. ASSUME NEW x \in W!Words(s), x \in All PROVE x \in W!Words(r)
    <3>1. PICK i \in 1..Len(s) : x = s[i]
      BY <1>1, <2>2 DEF W!Words
    <3>2. PICK k \in 1..Len(r) : e[k] = i
      BY <1>2, <2>2, <3>1 DEF Order
    <3>3. x = r[k]
      BY <1>2, <3>1, <3>2 DEF Order
    <3> QED
      BY <1>1, <3>3 DEF W!Words
  <2> QED
    BY <2>1, <2>2
<1>4. r = << >> <=> Len(r) = 0
  BY <1>1, EmptySeq
<1>5. r # << >> => 1 \in DOMAIN r
  BY <1>1, <1>4
<1>6. r # << >> => r[1] \in W!Words(r)
  BY <1>5 DEF W!Words
<1>7. r = << >> => \A x : x \notin W!Words(r)
  BY <1>1, <1>4 DEF W!Words
<1>8. \A x : x \in W!Words(s) => x \in Image
  BY <1>1 DEF W!Words
<1> QED
  BY <1>1, <1>3, <1>6, <1>7, <1>8 DEF r

LEMMA RowOfIs ==
  ASSUME NEW list \in Seq(Rows), NEW All
  PROVE  /\ W!Row(W!Selected(list, All)) \in Nat
         /\ W!Row(W!Selected(list, All)) = 0 <=> \A w \in W!Words(list) : w \notin All
<1> DEFINE r == W!Selected(list, All)
<1>1. /\ r = << >> <=> \A w \in W!Words(list) : w \notin All
      /\ r # << >> => r[1] \in W!Words(list)
      /\ \A w : w \in W!Words(list) => w \in Rows
  BY PicksSome
<1> HIDE DEF r
<1>2. r = << >> => W!Row(r) = 0
  BY DEF W!Row
<1>3. r # << >> => W!Row(r) \in Nat \ {0}
  BY <1>1 DEF W!Row, Rows
<1> QED
  BY <1>1, <1>2, <1>3 DEF r

LEMMA RealOf ==
  ASSUME NEW list \in Seq(Rows), NEW p
  PROVE  W!RowOf(list, p) \in Nat /\ (W!RowOf(list, p) = 0 <=> \A w \in W!Words(list) : w.real # p)
<1> DEFINE All == {w \in W!Words(list) : w.real = p}
<1>2. W!RowOf(list, p) = W!Row(W!Selected(list, All))
  BY DEF W!RowOf
<1>3. \A w \in W!Words(list) : w \notin All <=> w.real # p
  OBVIOUS
<1>1. /\ W!Row(W!Selected(list, All)) \in Nat
      /\ W!Row(W!Selected(list, All)) = 0 <=> \A w \in W!Words(list) : w \notin All
  BY RowOfIs
<1> QED
  BY <1>1, <1>2, <1>3

(* The row of the innermost workspace around a path.                       *)
Around(rows_, in) == {i \in DOMAIN rows_ : W!WorkspaceContains(rows_[i], in)}
Chosen(rows_, in, i) ==
    \A j \in Around(rows_, in) \ {i} : ~W!Nearer(rows_[j], rows_[i]) /\ (i > j => W!Nearer(rows_[i], rows_[j]))
LEMMA NearerIs ==
  ASSUME NEW v \in Rows, NEW w \in Rows
  PROVE  /\ W!LongestRoot(v) \in Nat /\ (W!Nearer(v, w) <=> W!LongestRoot(v) > W!LongestRoot(w))
         /\ W!LongestRoot(v) >= Len(v.root) /\ (v.real = v.root => W!LongestRoot(v) = Len(v.root))
         /\ v.root \in AnyPath /\ v.real \in AnyPath
<1>1. v.root \in Seq(Names) /\ v.real \in Seq(Names)
  BY DEF Rows, Paths
<1>2. Len(v.root) \in Nat /\ Len(v.real) \in Nat
  BY <1>1
<1>3. w.root \in Seq(Names) /\ w.real \in Seq(Names) /\ Len(w.root) \in Nat /\ Len(w.real) \in Nat
  BY DEF Rows, Paths
<1>4. W!Nearer(v, w) <=> W!LongestRoot(v) > W!LongestRoot(w)
  BY DEF W!Nearer
<1>5. W!LongestRoot(v) = IF Len(v.real) >= Len(v.root) THEN Len(v.real) ELSE Len(v.root)
  BY DEF W!LongestRoot
<1> QED
  BY <1>1, <1>2, <1>4, <1>5 DEF AnyPath

LEMMA ChosenExists ==
  ASSUME NEW list \in Seq(Rows), NEW in, Around(list, in) # {}
  PROVE  \E i \in Around(list, in) : Chosen(list, in, i)
<1> DEFINE M == Around(list, in)
           L(i) == W!LongestRoot(list[i])
           Best(n, i) == /\ i \in M /\ i <= n
                         /\ \A j \in M : j <= n /\ j # i => L(j) <= L(i) /\ (i > j => L(i) > L(j))
           Good == {n \in 0..Len(list) : (\E i : Best(n, i)) \/ \A j \in M : j > n}
<1>1. Len(list) \in Nat /\ M \subseteq 1..Len(list) /\ \A i \in 1..Len(list) : list[i] \in Rows
  BY DEF Around
<1>2. \A i \in 1..Len(list) : L(i) \in Nat
  BY <1>1, NearerIs
<1>3. \A i, j \in 1..Len(list) : W!Nearer(list[i], list[j]) <=> L(i) > L(j)
  BY <1>1, NearerIs
<1>4. M # {} /\ \A i : i \in M => i \in 1..Len(list)
  BY <1>1
<1>5. ASSUME NEW i \in M, \A j \in M : j # i => L(j) <= L(i) /\ (i > j => L(i) > L(j)) PROVE Chosen(list, in, i)
  <2> SUFFICES ASSUME NEW j \in M, j # i PROVE ~W!Nearer(list[j], list[i]) /\ (i > j => W!Nearer(list[i], list[j]))
    BY DEF Chosen
  <2>1. i \in 1..Len(list) /\ j \in 1..Len(list)
    BY <1>4
  <2>2. L(j) <= L(i) /\ (i > j => L(i) > L(j)) /\ L(i) \in Nat /\ L(j) \in Nat
    BY <1>2, <1>5, <2>1
  <2>3. (W!Nearer(list[i], list[j]) <=> L(i) > L(j)) /\ (W!Nearer(list[j], list[i]) <=> L(j) > L(i))
    BY <1>3, <2>1
  <2> HIDE DEF L, M
  <2> QED
    BY <2>2, <2>3
<1> HIDE DEF M, L
<1>6. 0 \in Good
  BY <1>1, <1>4
<1>7. ASSUME NEW n \in 1..Len(list), n - 1 \in Good PROVE n \in Good
  <2>1. n \in Nat /\ n - 1 \in Nat /\ n \in 0..Len(list)
    BY <1>1
  <2>2. \A j \in M : j \in Nat /\ L(j) \in Nat
    BY <1>1, <1>2, <1>4
  <2>3. \A j \in M : j <= n <=> j <= n - 1 \/ j = n
    BY <2>1, <2>2
  <2>4. CASE n \notin M
    BY <1>7, <2>1, <2>2, <2>3, <2>4
  <2>5. CASE n \in M /\ \A j \in M : j > n - 1
    <3>1. Best(n, n)
      BY <2>1, <2>2, <2>3, <2>5
    <3> QED
      BY <2>1, <3>1
  <2>6. CASE n \in M /\ \E i : Best(n - 1, i)
    <3>1. PICK i : Best(n - 1, i)
      BY <2>6
    <3>2. i \in M /\ i <= n - 1 /\ L(i) \in Nat /\ L(n) \in Nat /\ i \in Nat
      BY <2>2, <2>6, <3>1
    <3>3. CASE L(n) > L(i)
      <4>1. ASSUME NEW j \in M, j <= n, j # n PROVE L(j) <= L(n) /\ (n > j => L(n) > L(j))
        <5>1. j <= n - 1 /\ L(j) \in Nat
          BY <2>2, <2>3, <4>1
        <5>2. L(j) <= L(i)
          BY <3>1, <3>2, <5>1
        <5> QED
          BY <3>2, <3>3, <5>1, <5>2
      <4>2. Best(n, n)
        BY <2>1, <2>6, <4>1
      <4> QED
        BY <2>1, <4>2
    <3>4. CASE L(n) <= L(i)
      <4>1. ASSUME NEW j \in M, j <= n, j # i PROVE L(j) <= L(i) /\ (i > j => L(i) > L(j))
        <5>1. CASE j <= n - 1
          BY <3>1, <4>1, <5>1
        <5>2. CASE j = n
          BY <2>1, <3>2, <3>4, <5>2
        <5> QED
          BY <2>3, <4>1, <5>1, <5>2
      <4>2. Best(n, i)
        BY <2>1, <3>2, <4>1
      <4> QED
        BY <2>1, <4>2
    <3> QED
      BY <3>2, <3>3, <3>4
  <2> QED
    BY <1>7, <2>4, <2>5, <2>6
<1>8. \A n \in 0..Len(list) : n \in Good
  <2> HIDE DEF Good
  <2> QED
    BY <1>1, <1>6, <1>7, UptoAll
<1>9. Len(list) \in Good
  BY <1>1, <1>8
<1>10. PICK i : Best(Len(list), i)
  BY <1>1, <1>4, <1>9
<1>11. i \in M /\ \A j \in M : j # i => L(j) <= L(i) /\ (i > j => L(i) > L(j))
  BY <1>1, <1>4, <1>10
<1> QED
  BY <1>5, <1>11 DEF M

LEMMA LocatedIs ==
  ASSUME NEW list \in Seq(Rows), NEW in
  PROVE  \/ W!Located(list, in) = W!NoWorkspace
         \/ \E i \in Around(list, in) : W!Located(list, in) = list[i] /\ Chosen(list, in, i)
<1> DEFINE M == Around(list, in)
           k == CHOOSE i \in M : Chosen(list, in, i)
<1>1. CASE ~in.absolute \/ M = {}
  BY <1>1, Zenon DEF W!Located, Around
<1>2. CASE in.absolute /\ M # {}
  <2>1. k \in M /\ Chosen(list, in, k)
    BY <1>2, ChosenExists
  <2>2. W!Located(list, in) = list[k]
    BY <1>2, Zenon DEF W!Located, Around, Chosen
  <2> QED
    BY <2>1, <2>2
<1> QED
  BY <1>1, <1>2

(* Where a request is sent.                                                *)
ResolvedIn(list, f, b) ==
    (f.is /\ f.workspace.id # 0) =>
        /\ W!GuardRight(Disk, b, f.workspace, f.in)
        /\ (~f.byId /\ \A w \in W!Words(list) : w.real = w.root) =>
              \A w \in W!Words(list) :
                  W!WorkspaceContains(w, f.in) => W!IsWithin(w.root, f.workspace.root)
LEMMA InnermostIs ==
  ASSUME NEW list \in Seq(Rows), NEW in, in.path \in AnyPath, NEW i \in Around(list, in), Chosen(list, in, i),
         \A w \in W!Words(list) : w.real = w.root
  PROVE  \A w \in W!Words(list) : W!WorkspaceContains(w, in) => W!IsWithin(w.root, list[i].root)
<1> SUFFICES ASSUME NEW j \in DOMAIN list, W!WorkspaceContains(list[j], in)
             PROVE  W!IsWithin(list[j].root, list[i].root)
  BY DEF W!Words
<1> DEFINE p == W!Normal(<< >>, in.path)
           a == list[j].root
           b == list[i].root
<1>1. i \in DOMAIN list /\ W!WorkspaceContains(list[i], in) /\ j \in Around(list, in)
  BY DEF Around
<1>2. list[i] \in Rows /\ list[j] \in Rows /\ list[i].real = b /\ list[j].real = a
  BY <1>1 DEF W!Words
<1>3. /\ W!LongestRoot(list[i]) = Len(b) /\ W!LongestRoot(list[j]) = Len(a) /\ a \in AnyPath /\ b \in AnyPath
      /\ W!Nearer(list[j], list[i]) <=> Len(a) > Len(b)
  <2> HIDE DEF a, b
  <2>1. W!LongestRoot(list[i]) = Len(b) /\ b \in AnyPath
    BY <1>2, NearerIs DEF b
  <2>2. W!LongestRoot(list[j]) = Len(a) /\ a \in AnyPath
    BY <1>2, NearerIs DEF a
  <2>3. W!Nearer(list[j], list[i]) <=> W!LongestRoot(list[j]) > W!LongestRoot(list[i])
    BY <1>2, NearerIs
  <2> QED
    BY <2>1, <2>2, <2>3
<1>4. p \in AnyPath
  BY NormalIs, FollowNowhere
<1>5. W!IsWithin(a, p) /\ W!IsWithin(b, p)
  BY <1>1, <1>2 DEF W!WorkspaceContains
<1>6. Len(a) <= Len(b)
  <2>1. j = i \/ ~W!Nearer(list[j], list[i])
    BY <1>1 DEF Chosen
  <2>2. Len(a) \in Nat /\ Len(b) \in Nat
    BY <1>3 DEF AnyPath
  <2> QED
    BY <1>3, <2>1, <2>2
<1> HIDE DEF a, b, p
<1>7. (\A n \in 1..Len(a) : a[n] = p[n]) /\ (\A n \in 1..Len(b) : b[n] = p[n])
  BY <1>3, <1>4, <1>5, WithinIs
<1>8. \A n \in 1..Len(a) : n \in 1..Len(b)
  <2>1. Len(a) \in Nat /\ Len(b) \in Nat
    BY <1>3 DEF AnyPath
  <2> QED
    BY <1>6, <2>1
<1>9. \A n \in 1..Len(a) : a[n] = b[n]
  BY <1>7, <1>8
<1>10. W!IsWithin(a, b)
  BY <1>3, <1>6, <1>9, WithinIs
<1> QED
  BY <1>10 DEF a, b

AskedFor(f, list, in, id) ==
    f = [is |-> TRUE, in |-> in, byId |-> id # 0,
         workspace |-> IF id = 0 THEN W!Located(list, in) ELSE W!LocatedById(list, id, in)]
LEMMA AskedIs ==
  ASSUME NEW list \in Seq(TableRows), NEW in \in Inputs, NEW id, NEW b \in BOOLEAN, NEW f, AskedFor(f, list, in, id)
  PROVE  ResolvedIn(list, f, b)
<1> DEFINE w == IF id = 0 THEN W!Located(list, in) ELSE W!LocatedById(list, id, in)
<1>1. f.is = TRUE /\ f.in = in /\ f.byId = (id # 0) /\ f.workspace = w
  BY DEF AskedFor
<1>2. in.path \in AnyPath
  BY LookupsAssumption DEF AnyPath
<1>3. list \in Seq(Rows)
  BY DEF TableRows
<1>4. \A v \in W!Words(list) : v \in Rows /\ v.root \in AnyPath /\ v.real = W!Realpath(Disk, v.root)
  BY DEF W!Words, TableRows, Rows, Resolves, Paths, AnyPath
<1>5. \A v \in W!Words(list) : W!GuardRight(Disk, b, v, in)
  <2> SUFFICES ASSUME NEW v \in W!Words(list) PROVE W!GuardRight(Disk, b, v, in)
    OBVIOUS
  <2>1. v.root \in AnyPath /\ v.real = W!Realpath(Disk, v.root)
    BY <1>4
  <2> QED
    BY <1>2, <2>1, GuardIs
<1>6. CASE id = 0
  <2>1. CASE W!Located(list, in) = W!NoWorkspace
    <3>1. f.workspace.id = 0
      BY <1>1, <1>6, <2>1 DEF W!NoWorkspace
    <3> QED
      BY <3>1 DEF ResolvedIn
  <2>2. CASE \E i \in Around(list, in) : W!Located(list, in) = list[i] /\ Chosen(list, in, i)
    <3>1. PICK i \in Around(list, in) : W!Located(list, in) = list[i] /\ Chosen(list, in, i)
      BY <2>2
    <3>2. f.workspace = list[i]
      BY <1>1, <1>6, <3>1
    <3>3. list[i] \in W!Words(list)
      BY DEF Around, W!Words
    <3>4. W!GuardRight(Disk, b, f.workspace, f.in)
      BY <1>1, <1>5, <3>2, <3>3
    <3>5. (\A v \in W!Words(list) : v.real = v.root) =>
             \A v \in W!Words(list) : W!WorkspaceContains(v, f.in) => W!IsWithin(v.root, f.workspace.root)
      BY <1>1, <1>2, <1>3, <3>1, <3>2, InnermostIs
    <3> QED
      BY <3>4, <3>5 DEF ResolvedIn
  <2> QED
    BY <1>3, <2>1, <2>2, LocatedIs
<1>7. CASE id # 0
  <2> DEFINE All == {v \in W!Words(list) : v.id = id}
             row == W!Selected(list, All)
  <2>1. w = IF row = << >> \/ (in.absolute /\ ~W!WorkspaceContains(row[1], in)) THEN W!NoWorkspace ELSE row[1]
    BY <1>7 DEF W!LocatedById
  <2>2. row # << >> => row[1] \in W!Words(list)
    BY PicksSome
  <2> HIDE DEF row, w
  <2>3. w = W!NoWorkspace \/ w \in W!Words(list)
    BY <2>1, <2>2
  <2>4. f.byId /\ f.workspace = w /\ f.in = in
    BY <1>1, <1>7
  <2>5. w = W!NoWorkspace => f.workspace.id = 0
    BY <2>4 DEF W!NoWorkspace
  <2>6. w \in W!Words(list) => W!GuardRight(Disk, b, f.workspace, f.in)
    BY <1>5, <2>4
  <2> QED
    BY <2>3, <2>4, <2>5, <2>6 DEF ResolvedIn
<1> QED
  BY <1>6, <1>7

(* What a process is at, field by field.                                    *)
Actor(a, d, s, l, n, c) == [at |-> a, does |-> d, seen |-> s, left |-> l, answer |-> n, cut |-> c]

Acting(x) == x = Actor(x.at, x.does, x.seen, x.left, x.answer, x.cut)
LEMMA RestingIs ==
  /\ Acting(W!Resting) /\ W!Resting.at = "idle" /\ W!Resting.does = "" /\ W!Resting.cut = FALSE
  /\ W!Resting.seen \in Seq(TableRows) /\ W!Resting.answer \in Nat /\ W!Resting.cut \in BOOLEAN
<1>1. /\ W!Resting.cut = FALSE /\ W!Resting.at = "idle" /\ W!Resting.does = ""
      /\ W!Resting.seen = << >> /\ W!Resting.left = << >> /\ W!Resting.answer = 0
  BY DEF W!Resting
<1>5. << >> \in Seq(TableRows) /\ 0 \in Nat
  OBVIOUS
<1>3. W!Resting.seen \in Seq(TableRows) /\ W!Resting.answer \in Nat
  BY <1>1, <1>5
<1>4. W!Resting.cut \in BOOLEAN
  BY DEF W!Resting
<1>2. Acting(W!Resting)
  BY DEF W!Resting, Actor, Acting
<1> QED
  BY <1>1, <1>2, <1>3, <1>4

FivePut(x, a2, d2, s2, l2, n2) == [x EXCEPT !.at = a2, !.does = d2, !.seen = s2, !.left = l2, !.answer = n2]
LEMMA FiveIs ==
  ASSUME NEW x, Acting(x), NEW a2, NEW d2, NEW s2, NEW l2, NEW n2
  PROVE  FivePut(x, a2, d2, s2, l2, n2) = Actor(a2, d2, s2, l2, n2, x.cut)
<1> DEFINE x1 == [x EXCEPT !.at = a2]
           x2 == [x1 EXCEPT !.does = d2]
           x3 == [x2 EXCEPT !.seen = s2]
           x4 == [x3 EXCEPT !.left = l2]
           x5 == [x4 EXCEPT !.answer = n2]
<1>1. FivePut(x, a2, d2, s2, l2, n2) = x5
  BY DEF FivePut
<1> HIDE DEF x1, x2, x3, x4, x5
<1>2. x1 = Actor(a2, x.does, x.seen, x.left, x.answer, x.cut)
  BY DEF Actor, Acting, x1
<1>3. x2 = Actor(a2, d2, x.seen, x.left, x.answer, x.cut)
  BY <1>2 DEF Actor, x2
<1>4. x3 = Actor(a2, d2, s2, x.left, x.answer, x.cut)
  BY <1>3 DEF Actor, x3
<1>5. x4 = Actor(a2, d2, s2, l2, x.answer, x.cut)
  BY <1>4 DEF Actor, x4
<1>6. x5 = Actor(a2, d2, s2, l2, n2, x.cut)
  BY <1>5 DEF Actor, x5
<1> QED
  BY <1>1, <1>6

ThreePut(x, a2, d2, l2) == [x EXCEPT !.at = a2, !.does = d2, !.left = l2]
LEMMA ThreeIs ==
  ASSUME NEW x, Acting(x), NEW a2, NEW d2, NEW l2
  PROVE  ThreePut(x, a2, d2, l2) = Actor(a2, d2, x.seen, l2, x.answer, x.cut)
<1> DEFINE x1 == [x EXCEPT !.at = a2]
           x2 == [x1 EXCEPT !.does = d2]
           x3 == [x2 EXCEPT !.left = l2]
<1>1. ThreePut(x, a2, d2, l2) = x3
  BY DEF ThreePut
<1> HIDE DEF x1, x2, x3
<1>2. x1 = Actor(a2, x.does, x.seen, x.left, x.answer, x.cut)
  BY DEF Actor, Acting, x1
<1>3. x2 = Actor(a2, d2, x.seen, x.left, x.answer, x.cut)
  BY <1>2 DEF Actor, x2
<1>4. x3 = Actor(a2, d2, x.seen, l2, x.answer, x.cut)
  BY <1>3 DEF Actor, x3
<1> QED
  BY <1>1, <1>4

FourPut(x, a2, s2, l2, n2) == [x EXCEPT !.at = a2, !.seen = s2, !.left = l2, !.answer = n2]
LEMMA FourIs ==
  ASSUME NEW x, Acting(x), NEW a2, NEW s2, NEW l2, NEW n2
  PROVE  FourPut(x, a2, s2, l2, n2) = Actor(a2, x.does, s2, l2, n2, x.cut)
<1> DEFINE x1 == [x EXCEPT !.at = a2]
           x2 == [x1 EXCEPT !.seen = s2]
           x3 == [x2 EXCEPT !.left = l2]
           x4 == [x3 EXCEPT !.answer = n2]
<1>1. FourPut(x, a2, s2, l2, n2) = x4
  BY DEF FourPut
<1> HIDE DEF x1, x2, x3, x4
<1>2. x1 = Actor(a2, x.does, x.seen, x.left, x.answer, x.cut)
  BY DEF Actor, Acting, x1
<1>3. x2 = Actor(a2, x.does, s2, x.left, x.answer, x.cut)
  BY <1>2 DEF Actor, x2
<1>4. x3 = Actor(a2, x.does, s2, l2, x.answer, x.cut)
  BY <1>3 DEF Actor, x3
<1>5. x4 = Actor(a2, x.does, s2, l2, n2, x.cut)
  BY <1>4 DEF Actor, x4
<1> QED
  BY <1>1, <1>5

TwoPut(x, a2, l2) == [x EXCEPT !.at = a2, !.left = l2]
LEMMA TwoIs ==
  ASSUME NEW x, Acting(x), NEW a2, NEW l2
  PROVE  TwoPut(x, a2, l2) = Actor(a2, x.does, x.seen, l2, x.answer, x.cut)
<1> DEFINE x1 == [x EXCEPT !.at = a2]
           x2 == [x1 EXCEPT !.left = l2]
<1>1. TwoPut(x, a2, l2) = x2
  BY DEF TwoPut
<1> HIDE DEF x1, x2
<1>2. x1 = Actor(a2, x.does, x.seen, x.left, x.answer, x.cut)
  BY DEF Actor, Acting, x1
<1>3. x2 = Actor(a2, x.does, x.seen, l2, x.answer, x.cut)
  BY <1>2 DEF Actor, x2
<1> QED
  BY <1>1, <1>3

PlacedPut(x, l2, n2, a2) == [x EXCEPT !.left = l2, !.answer = n2, !.at = a2]
LEMMA PlacedIs ==
  ASSUME NEW x, Acting(x), NEW l2, NEW n2, NEW a2
  PROVE  PlacedPut(x, l2, n2, a2) = Actor(a2, x.does, x.seen, l2, n2, x.cut)
<1> DEFINE x1 == [x EXCEPT !.left = l2]
           x2 == [x1 EXCEPT !.answer = n2]
           x3 == [x2 EXCEPT !.at = a2]
<1>1. PlacedPut(x, l2, n2, a2) = x3
  BY DEF PlacedPut
<1> HIDE DEF x1, x2, x3
<1>2. x1 = Actor(x.at, x.does, x.seen, l2, x.answer, x.cut)
  BY DEF Actor, Acting, x1
<1>3. x2 = Actor(x.at, x.does, x.seen, l2, n2, x.cut)
  BY <1>2 DEF Actor, x2
<1>4. x3 = Actor(a2, x.does, x.seen, l2, n2, x.cut)
  BY <1>3 DEF Actor, x3
<1> QED
  BY <1>1, <1>4

-----------------------------------------------------------------------------
(* The registry: its table, and what each process is at.                   *)
Lefts == (Seq(TableRows) \union Seq(Paths)) \union {<<<<"E">>>>}
ActorShape ==
    [at : {"idle", "pruning", "resetting", "adding", "ok", "refused", "failed"},
     does : {"", "sync", "reset", "register", "default", "add", "unready"},
     seen : Seq(TableRows), left : Lefts, answer : Nat, cut : BOOLEAN]
ActorKeeps(a, b) ==
    /\ a.at \in {"pruning", "resetting"} => a.left \in Seq(TableRows)
    /\ a.at = "adding" => a.left \in Seq(Paths)
    /\ a.does = "sync" => a.at \notin {"resetting", "idle"}
    /\ a.at = "pruning" => a.does = "sync" /\ ~b
    /\ a.at = "resetting" => a.does = "reset"
    /\ a.at = "adding" /\ a.does # "add" =>
          \A w \in W!Words(a.seen) : w.root \in W!Words(a.left) => a.does = "sync" /\ W!AnotherName(w.root)
    /\ a.at = "failed" => \/ a.does \in {"add", "unready"}
                          \/ a.does = "sync" /\ W!AnotherName(Head(a.left))
                          \/ \A w \in W!Words(a.seen) : w.root # Head(a.left)
Listed(table, d) == \E w \in W!Words(table) : w.real = d \/ w.root = d
DriveKept(a, d, table) == Listed(table, d) \/ (a.at = "adding" /\ d \in W!Words(a.left))
ActorDrives(a, b, table) ==
    (a.does = "sync" /\ a.at \in {"adding", "ok"} /\ ~a.cut) =>
        \A i \in DOMAIN Drives : (b \/ Drives[i] = <<"E">>) => DriveKept(a, Drives[i], table)
TableKept(table, n) == table \in Seq(TableRows) /\ n \in 0..MaxRows /\ \A w \in W!Words(table) : w.id <= n
Rooted == {"unread", "pruning", "adding", "ok", "refused", "failed"}
ActorsKept(as, b, table) ==
    /\ as \in [Runtimes -> ActorShape]
    /\ \A r \in Runtimes : ActorKeeps(as[r], b) /\ ActorDrives(as[r], b, table)
RegistryInv ==
    /\ unrestricted \in BOOLEAN /\ TableKept(rows, ids)
    /\ ActorsKept(actor, unrestricted, rows)
    /\ roots \in Rooted
    /\ ResolvedIn(rows, found, unrestricted)

(* A drive is there, under its letter or another name.                     *)
LEMMA DriveIs ==
  /\ Drives \in Seq(Paths) /\ DOMAIN Disk \subseteq Paths
  /\ \A i \in DOMAIN Drives : /\ W!Exists(Drives[i]) /\ W!Realpath(Disk, Drives[i]) # << >>
                             /\ Disk[W!Realpath(Disk, Drives[i])].kind = "dir"
<1>1. Drives \in Seq(DOMAIN Disk) /\ DOMAIN Disk \subseteq Paths
  BY LookupsAssumption
<1>2. \A i \in DOMAIN Drives : W!Exists(Drives[i]) /\ Disk[W!Realpath(Disk, Drives[i])].kind = "dir"
  BY LookupsAssumption
<1>3. \A i \in DOMAIN Drives : W!Realpath(Disk, Drives[i]) # << >>
  BY <1>2 DEF W!Exists, W!Nowhere
<1>4. Drives \in Seq(Paths)
  BY <1>1
<1> QED
  BY <1>1, <1>2, <1>3, <1>4

LEMMA TableIs ==
  ASSUME NEW table \in Seq(TableRows)
  PROVE  /\ table \in Seq(Rows)
         /\ \A w \in W!Words(table) : w \in Rows /\ w.id \in Nat \ {0} /\ w.real = W!Realpath(Disk, w.root)
         /\ \A p : W!RowOf(table, p) \in Nat /\ (W!RowOf(table, p) = 0 <=> \A w \in W!Words(table) : w.real # p)
<1>1. table \in Seq(Rows)
  BY DEF TableRows
<1>2. \A w \in W!Words(table) : w \in TableRows
  BY DEF W!Words
<1> QED
  BY <1>1, <1>2, RealOf DEF TableRows, Rows, Resolves

(* A process that goes on.                                                 *)
LEMMA BecomesKept ==
  ASSUME RegistryInv, NEW r \in Runtimes, NEW next \in ActorShape, ActorKeeps(next, unrestricted),
         ActorDrives(next, unrestricted, rows), W!Becomes(r, next), UNCHANGED <<unrestricted, rows, ids, found>>
  PROVE  RegistryInv'
<1>1. actor' = [actor EXCEPT ![r] = next] /\ roots' = IF r = Desktop /\ next.does = "sync" THEN next.at ELSE roots
  BY DEF W!Becomes
<1>2. actor \in [Runtimes -> ActorShape]
  BY DEF RegistryInv, ActorsKept
<1>3. \A s \in Runtimes : actor'[s] = IF s = r THEN next ELSE actor[s]
  BY <1>1, <1>2
<1>4. actor' \in [Runtimes -> ActorShape]
  BY <1>1, <1>2
<1>5. \A s \in Runtimes : ActorKeeps(actor[s], unrestricted) /\ ActorDrives(actor[s], unrestricted, rows)
  BY DEF RegistryInv, ActorsKept
<1>6. \A s \in Runtimes : ActorKeeps(actor'[s], unrestricted) /\ ActorDrives(actor'[s], unrestricted, rows)
  BY <1>3, <1>5
<1>7. ActorsKept(actor', unrestricted, rows)
  BY <1>4, <1>6 DEF ActorsKept
<1>8. next.does = "sync" => next.at \in Rooted
  <2>1. next.does = "sync" => next.at \notin {"resetting", "idle"}
    BY DEF ActorKeeps
  <2>2. next.at \in {"idle", "pruning", "resetting", "adding", "ok", "refused", "failed"}
    BY DEF ActorShape
  <2> QED
    BY <2>1, <2>2 DEF Rooted
<1>9. roots' \in Rooted
  BY <1>1, <1>8 DEF RegistryInv
<1>10. unrestricted' = unrestricted /\ rows' = rows /\ ids' = ids /\ found' = found
  OBVIOUS
<1> QED
  BY <1>7, <1>9, <1>10 DEF RegistryInv

LEMMA RestingKept ==
  ASSUME NEW b, NEW table
  PROVE  W!Resting \in ActorShape /\ ActorKeeps(W!Resting, b) /\ ActorDrives(W!Resting, b, table)
<1>1. << >> \in Seq(TableRows)
  OBVIOUS
<1>2. /\ W!Resting.at = "idle" /\ W!Resting.does = "" /\ W!Resting \in ActorShape
  BY <1>1 DEF W!Resting, ActorShape, Lefts
<1> QED
  BY <1>2 DEF ActorKeeps, ActorDrives

(* A sync begins.                                                          *)
LEMMA BeginSyncKept ==
  ASSUME RegistryInv, NEW r \in Runtimes, W!BeginSync(r)
  PROVE  RegistryInv'
<1> DEFINE absent == {d \in W!Words(Drives) : W!RowOf(rows, d) = 0}
           missing == W!Selected(Drives, absent)
           strange == {w \in W!Words(rows) : W!IsDriveRoot(w.real) /\ w.real # <<"E">>}
           others == W!Selected(rows, strange)
           first == W!Row(W!Selected(rows, {w \in W!Words(rows) : w.real \in W!Words(Drives)}))
           adding == [W!Resting EXCEPT !.at = "adding", !.does = "sync", !.seen = rows, !.left = missing, !.answer = first]
           pruning == [W!Resting EXCEPT !.at = "pruning", !.does = "sync", !.left = others]
<1>1. W!Becomes(r, IF unrestricted THEN adding ELSE pruning) /\ UNCHANGED <<unrestricted, rows, ids, found>>
  BY Zenon DEF W!BeginSync
<1>2. rows \in Seq(TableRows) /\ rows \in Seq(Rows) /\ unrestricted \in BOOLEAN /\ Drives \in Seq(Paths)
  BY TableIs, DriveIs DEF RegistryInv, TableKept
<1>3. missing \in Seq(Paths) /\ \A d : d \in W!Words(missing) <=> d \in W!Words(Drives) /\ d \in absent
  BY <1>2, PicksSome
<1>4. others \in Seq(TableRows)
  BY <1>2, PicksSome
<1>5. first \in Nat
  BY <1>2, RowOfIs
<1>6. \A d : d \in W!Words(missing) <=> d \in W!Words(Drives) /\ W!RowOf(rows, d) = 0
  BY <1>3
<1> HIDE DEF missing, others, first
<1>7. << >> \in Seq(TableRows)
  OBVIOUS
<1>8. CASE unrestricted
  <2> HIDE DEF adding
  <2>0. adding = FivePut(W!Resting, "adding", "sync", rows, missing, first)
    BY DEF adding, FivePut
  <2>a. adding = Actor("adding", "sync", rows, missing, first, W!Resting.cut)
    BY <2>0, RestingIs, FiveIs
  <2>1. adding = [at |-> "adding", does |-> "sync", seen |-> rows, left |-> missing, answer |-> first, cut |-> W!Resting.cut]
    BY <2>a DEF Actor
  <2>2. adding \in ActorShape
    BY <1>2, <1>3, <1>5, <2>1, RestingIs DEF ActorShape, Lefts
  <2>3. \A w \in W!Words(rows) : w.root \in W!Words(missing) => W!AnotherName(w.root)
    <3> SUFFICES ASSUME NEW w \in W!Words(rows), w.root \in W!Words(missing) PROVE W!AnotherName(w.root)
      OBVIOUS
    <3>1. W!RowOf(rows, w.root) = 0
      BY <1>6
    <3>2. w.real = W!Realpath(Disk, w.root) /\ w.real # w.root
      BY <1>2, <3>1, TableIs
    <3> QED
      BY <3>2 DEF W!AnotherName
  <2>4. ActorKeeps(adding, unrestricted)
    BY <1>3, <2>1, <2>3 DEF ActorKeeps
  <2>5. \A i \in DOMAIN Drives : Drives[i] \in W!Words(Drives)
    BY DEF W!Words
  <2>6. ActorDrives(adding, unrestricted, rows)
    <3>1. \A d \in W!Words(Drives) : Listed(rows, d) \/ d \in W!Words(missing)
      BY <1>2, <1>6, TableIs DEF Listed
    <3> QED
      BY <2>1, <2>5, <3>1 DEF ActorDrives, DriveKept
  <2> QED
    BY <1>1, <1>8, <2>2, <2>4, <2>6, BecomesKept
<1>9. CASE ~unrestricted
  <2> HIDE DEF pruning
  <2>0. pruning = ThreePut(W!Resting, "pruning", "sync", others)
    BY DEF pruning, ThreePut
  <2>a. pruning = Actor("pruning", "sync", W!Resting.seen, others, W!Resting.answer, W!Resting.cut)
    BY <2>0, RestingIs, ThreeIs
  <2>1. pruning = [at |-> "pruning", does |-> "sync", seen |-> W!Resting.seen, left |-> others, answer |-> W!Resting.answer, cut |-> W!Resting.cut]
    BY <2>a DEF Actor
  <2>2. pruning \in ActorShape
    <3>1. others \in Lefts
      BY <1>4 DEF Lefts
    <3> QED
      BY <2>1, <3>1, RestingIs DEF ActorShape
  <2>3. ActorKeeps(pruning, unrestricted)
    BY <1>4, <1>9, <2>1 DEF ActorKeeps
  <2>4. ActorDrives(pruning, unrestricted, rows)
    BY <2>1 DEF ActorDrives
  <2> QED
    BY <1>1, <1>9, <2>2, <2>3, <2>4, BecomesKept
<1> QED
  BY <1>8, <1>9

LEMMA BeginResetKept ==
  ASSUME RegistryInv, NEW r \in Runtimes, W!BeginReset(r)
  PROVE  RegistryInv'
<1> DEFINE next == [W!Resting EXCEPT !.at = "resetting", !.does = "reset", !.left = rows]
<1>1. W!Becomes(r, next) /\ UNCHANGED <<unrestricted, rows, ids, found>>
  BY Zenon DEF W!BeginReset
<1>2. rows \in Seq(TableRows) /\ << >> \in Seq(TableRows)
  BY DEF RegistryInv, TableKept
<1> HIDE DEF next
<1>0. next = ThreePut(W!Resting, "resetting", "reset", rows)
  BY DEF next, ThreePut
<1>a. next = Actor("resetting", "reset", W!Resting.seen, rows, W!Resting.answer, W!Resting.cut)
  BY <1>0, RestingIs, ThreeIs
<1>3. next = [at |-> "resetting", does |-> "reset", seen |-> W!Resting.seen, left |-> rows, answer |-> W!Resting.answer, cut |-> W!Resting.cut]
  BY <1>a DEF Actor
<1>4. next \in ActorShape
  <2>1. rows \in Lefts
    BY <1>2 DEF Lefts
  <2> QED
    BY <1>3, <2>1, RestingIs DEF ActorShape
<1>5. ActorKeeps(next, unrestricted) /\ ActorDrives(next, unrestricted, rows)
  BY <1>2, <1>3 DEF ActorKeeps, ActorDrives
<1> QED
  BY <1>1, <1>4, <1>5, BecomesKept

LEMMA ResetEndsKept ==
  ASSUME RegistryInv, NEW r \in Runtimes, W!ResetEnds(r)
  PROVE  RegistryInv'
<1>1. W!Becomes(r, W!Resting) /\ UNCHANGED <<unrestricted, rows, ids, found>>
  BY Zenon DEF W!ResetEnds
<1> QED
  BY <1>1, RestingKept, BecomesKept

LEMMA PruneEndsKept ==
  ASSUME RegistryInv, NEW r \in Runtimes, W!PruneEnds(r)
  PROVE  RegistryInv'
<1> DEFINE known == W!RowOf(rows, <<"E">>)
           a == actor[r]
           at_ == IF known = 0 /\ W!Exists(<<"E">>) THEN "adding" ELSE "ok"
           next == [a EXCEPT !.at = at_, !.seen = rows, !.left = <<<<"E">>>>, !.answer = known]
<1>1. a.at = "pruning" /\ W!Becomes(r, next) /\ UNCHANGED <<unrestricted, rows, ids, found>>
  BY Zenon DEF W!PruneEnds
<1>2. rows \in Seq(TableRows) /\ a \in ActorShape /\ ActorKeeps(a, unrestricted)
  BY DEF RegistryInv, TableKept, ActorsKept
<1>3. known \in Nat /\ (known = 0 <=> \A w \in W!Words(rows) : w.real # <<"E">>)
  BY <1>2, TableIs
<1>4. a.does = "sync" /\ ~unrestricted
  BY <1>1, <1>2 DEF ActorKeeps
<1>5. a = [at |-> "pruning", does |-> "sync", seen |-> a.seen, left |-> a.left, answer |-> a.answer, cut |-> a.cut]
  BY <1>1, <1>2, <1>4 DEF ActorShape
<1>a. Acting(a) /\ a.does = "sync"
  BY <1>1, <1>4, <1>5 DEF Actor, Acting
<1>b. next = Actor(at_, a.does, rows, <<<<"E">>>>, known, a.cut)
  <2> HIDE DEF a, known, at_
  <2>1. next = FourPut(a, at_, rows, <<<<"E">>>>, known)
    BY DEF FourPut
  <2> HIDE DEF next
  <2> QED
    BY <1>a, <2>1, FourIs
<1>6. next = [at |-> at_, does |-> "sync", seen |-> rows, left |-> <<<<"E">>>>, answer |-> known, cut |-> a.cut]
  <2> HIDE DEF next
  <2> QED
    BY <1>a, <1>b DEF Actor
<1>7. a.cut \in BOOLEAN
  BY <1>2 DEF ActorShape
<1>8. <<<<"E">>>> \in Lefts /\ at_ \in {"adding", "ok"}
  BY DEF Lefts
<1>9. at_ = "adding" <=> known = 0 /\ W!Exists(<<"E">>)
  OBVIOUS
<1>10. \A d : d \in W!Words(<<<<"E">>>>) <=> d = <<"E">>
  BY DEF W!Words
<1> HIDE DEF next, a, known, at_
<1>11. next \in ActorShape
  BY <1>2, <1>3, <1>6, <1>7, <1>8 DEF ActorShape
<1>12. at_ = "adding" => <<<<"E">>>> \in Seq(Paths)
  <2>1. at_ = "adding" => <<"E">> \in Paths
    BY <1>9, DriveIs DEF W!Exists
  <2> QED
    BY <2>1
<1>14. at_ = "adding" => \A w \in W!Words(rows) : w.root = <<"E">> => W!AnotherName(w.root)
  <2> SUFFICES ASSUME at_ = "adding", NEW w \in W!Words(rows), w.root = <<"E">> PROVE W!AnotherName(w.root)
    OBVIOUS
  <2>1. w.real # <<"E">> /\ w.real = W!Realpath(Disk, w.root)
    BY <1>2, <1>3, <1>9, TableIs
  <2> QED
    BY <2>1 DEF W!AnotherName
<1>15. ActorKeeps(next, unrestricted)
  BY <1>4, <1>6, <1>8, <1>10, <1>12, <1>14 DEF ActorKeeps
<1>16. ActorDrives(next, unrestricted, rows)
  <2> SUFFICES ASSUME NEW i \in DOMAIN Drives, Drives[i] = <<"E">> PROVE DriveKept(next, Drives[i], rows)
    BY <1>4 DEF ActorDrives
  <2>1. W!Exists(<<"E">>)
    BY DriveIs
  <2>2. CASE known # 0
    <3>1. \E w \in W!Words(rows) : w.real = <<"E">>
      BY <1>3, <2>2
    <3> QED
      BY <3>1 DEF DriveKept, Listed
  <2>3. CASE known = 0
    BY <1>6, <1>9, <1>10, <2>1, <2>3 DEF DriveKept
  <2> QED
    BY <2>2, <2>3
<1> QED
  BY <1>1, <1>11, <1>15, <1>16, BecomesKept

LEMMA ActorIs ==
  ASSUME NEW a \in ActorShape
  PROVE  /\ Acting(a) /\ a.seen \in Seq(TableRows) /\ a.left \in Lefts /\ a.answer \in Nat /\ a.cut \in BOOLEAN
         /\ a.at \in {"idle", "pruning", "resetting", "adding", "ok", "refused", "failed"}
         /\ a.does \in {"", "sync", "reset", "register", "default", "add", "unready"}
  BY DEF ActorShape, Acting, Actor

LEMMA LeftIs ==
  ASSUME NEW V, NEW s \in Seq(V), s # << >>
  PROVE  /\ Head(s) \in V /\ Tail(s) \in Seq(V)
         /\ \A x : x \in W!Words(s) <=> x = Head(s) \/ x \in W!Words(Tail(s))
         /\ \A x : x \in W!Words(Tail(s)) => Tail(s) # << >>
<1>1. /\ Len(s) \in Nat /\ Len(s) # 0 /\ Head(s) = s[1] /\ Tail(s) \in Seq(V) /\ Len(Tail(s)) = Len(s) - 1
      /\ \A i \in 1..(Len(s) - 1) : Tail(s)[i] = s[i + 1]
  BY HeadTailProperties, EmptySeq
<1>2. DOMAIN s = 1..Len(s) /\ DOMAIN Tail(s) = 1..(Len(s) - 1) /\ \A i \in 1..Len(s) : s[i] \in V
  BY <1>1
<1>3. /\ \A i \in 1..Len(s) : i = 1 \/ (i - 1 \in 1..(Len(s) - 1) /\ (i - 1) + 1 = i)
      /\ \A i \in 1..(Len(s) - 1) : i + 1 \in 1..Len(s)
      /\ 1 \in 1..Len(s)
  BY <1>1
<1>4. ASSUME NEW x \in W!Words(s) PROVE x = Head(s) \/ x \in W!Words(Tail(s))
  <2>1. PICK i \in 1..Len(s) : x = s[i]
    BY <1>2, <1>4 DEF W!Words
  <2>2. i # 1 => x = Tail(s)[i - 1] /\ i - 1 \in DOMAIN Tail(s)
    BY <1>1, <1>2, <1>3, <2>1
  <2> QED
    BY <1>1, <2>1, <2>2 DEF W!Words
<1>5. ASSUME NEW x \in W!Words(Tail(s)) PROVE x \in W!Words(s) /\ Tail(s) # << >>
  <2>1. PICK i \in 1..(Len(s) - 1) : x = Tail(s)[i]
    BY <1>2, <1>5 DEF W!Words
  <2>2. x = s[i + 1] /\ i + 1 \in DOMAIN s
    BY <1>1, <1>2, <1>3, <2>1
  <2>3. Len(Tail(s)) # 0
    BY <1>1, <2>1
  <2> QED
    BY <1>1, <2>2, <2>3, EmptySeq DEF W!Words
<1>6. Head(s) \in W!Words(s) /\ Head(s) \in V
  BY <1>1, <1>2, <1>3 DEF W!Words
<1> QED
  BY <1>1, <1>4, <1>5, <1>6

LEMMA GrowsIs ==
  ASSUME NEW table \in Seq(TableRows), NEW w \in TableRows
  PROVE  /\ Append(table, w) \in Seq(TableRows)
         /\ \A x : x \in W!Words(Append(table, w)) <=> x = w \/ x \in W!Words(table)
<1> DEFINE longer == Append(table, w)
<1>1. /\ longer \in Seq(TableRows) /\ Len(longer) = Len(table) + 1 /\ longer[Len(table) + 1] = w
      /\ \A i \in 1..Len(table) : longer[i] = table[i]
  BY AppendProperties
<1>2. Len(table) \in Nat /\ DOMAIN table = 1..Len(table) /\ DOMAIN longer = 1..(Len(table) + 1)
  BY <1>1
<1> HIDE DEF longer
<1>3. \A n \in Nat : (\A i \in 1..(n + 1) : i = n + 1 \/ i \in 1..n) /\ (\A i \in 1..n : i \in 1..(n + 1)) /\ n + 1 \in 1..(n + 1)
  OBVIOUS
<1>4. \A x : x \in W!Words(longer) <=> x = w \/ x \in W!Words(table)
  <2>1. ASSUME NEW i \in DOMAIN longer PROVE longer[i] = w \/ longer[i] \in W!Words(table)
    <3>1. i = Len(table) + 1 \/ i \in 1..Len(table)
      BY <1>2, <1>3
    <3> QED
      BY <1>1, <1>2, <3>1 DEF W!Words
  <2>2. w \in W!Words(longer)
    BY <1>1, <1>2, <1>3 DEF W!Words
  <2>3. ASSUME NEW i \in DOMAIN table PROVE table[i] \in W!Words(longer)
    <3>1. i \in 1..Len(table) /\ i \in DOMAIN longer
      BY <1>2, <1>3
    <3> QED
      BY <1>1, <3>1 DEF W!Words
  <2> QED
    BY <2>1, <2>2, <2>3 DEF W!Words
<1> QED
  BY <1>1, <1>4 DEF longer

(* What another process deletes, the others have lost.                     *)
LEMMA PruneKept ==
  ASSUME RegistryInv, NEW r \in Runtimes, W!Prune(r), ~found.is
  PROVE  RegistryInv'
<1> DEFINE a == actor[r]
           kept == {w \in W!Words(rows) : w.id # Head(a.left).id}
           mine == [a EXCEPT !.left = Tail(@)]
           theirs(s) == [actor[s] EXCEPT !.cut = @ \/ actor[s].at # "idle"]
<1>1. /\ a.at \in {"pruning", "resetting"} /\ a.left # << >> /\ rows' = W!Selected(rows, kept)
      /\ actor' = [s \in Runtimes |-> IF s = r THEN mine ELSE theirs(s)]
      /\ UNCHANGED <<unrestricted, ids, roots, found>>
  BY Zenon DEF W!Prune
<1>2. rows \in Seq(TableRows) /\ ids \in 0..MaxRows /\ \A w \in W!Words(rows) : w.id <= ids
  BY DEF RegistryInv, TableKept
<1>3. \A s \in Runtimes : actor[s] \in ActorShape /\ ActorKeeps(actor[s], unrestricted)
  BY DEF RegistryInv, ActorsKept
<1>4. TableKept(rows', ids)
  <2>1. rows' \in Seq(TableRows) /\ \A w : w \in W!Words(rows') => w \in W!Words(rows)
    BY <1>1, <1>2, PicksSome
  <2> QED
    BY <1>2, <2>1 DEF TableKept
<1>5. a.left \in Seq(TableRows) /\ Tail(a.left) \in Seq(TableRows) /\ Tail(a.left) \in Lefts
  <2>1. a.left \in Seq(TableRows)
    BY <1>1, <1>3 DEF ActorKeeps
  <2>2. Tail(a.left) \in Seq(TableRows)
    BY <1>1, <2>1, LeftIs
  <2> QED
    BY <2>1, <2>2 DEF Lefts
<1>6. mine \in ActorShape /\ ActorKeeps(mine, unrestricted) /\ ActorDrives(mine, unrestricted, rows')
  <2>1. a \in ActorShape
    BY <1>3
  <2> HIDE DEF a
  <2>2. mine \in ActorShape
    BY <1>5, <2>1 DEF ActorShape
  <2>3. mine.at = a.at /\ mine.does = a.does /\ mine.left = Tail(a.left)
    BY <2>1 DEF ActorShape
  <2>4. ActorKeeps(a, unrestricted)
    BY <1>3 DEF a
  <2> HIDE DEF mine
  <2>5. ActorKeeps(mine, unrestricted)
    BY <1>1, <1>5, <2>3, <2>4 DEF ActorKeeps
  <2> QED
    BY <1>1, <2>2, <2>3, <2>5 DEF ActorDrives
<1>7. ASSUME NEW s \in Runtimes
      PROVE  theirs(s) \in ActorShape /\ ActorKeeps(theirs(s), unrestricted) /\ ActorDrives(theirs(s), unrestricted, rows')
  <2> DEFINE b == actor[s]
             c == [b EXCEPT !.cut = @ \/ b.at # "idle"]
  <2>1. b \in ActorShape /\ ActorKeeps(b, unrestricted)
    BY <1>3
  <2> HIDE DEF b
  <2>2. (b.cut \/ b.at # "idle") \in BOOLEAN
    OBVIOUS
  <2>3. c \in ActorShape /\ c.at = b.at /\ c.does = b.does /\ c.left = b.left /\ c.seen = b.seen
    BY <2>1, <2>2 DEF ActorShape
  <2>4. b.at # "idle" => c.cut
    BY <2>1 DEF ActorShape
  <2> HIDE DEF c
  <2>5. ActorKeeps(c, unrestricted)
    BY <2>1, <2>3 DEF ActorKeeps
  <2>6. ActorDrives(c, unrestricted, rows')
    BY <2>3, <2>4 DEF ActorDrives
  <2> QED
    BY <2>3, <2>5, <2>6 DEF b, c
<1> HIDE DEF mine, theirs
<1>8. \A s \in Runtimes : actor'[s] = IF s = r THEN mine ELSE theirs(s)
  BY <1>1
<1>9. actor' \in [Runtimes -> ActorShape]
  BY <1>1, <1>6, <1>7
<1>10. \A s \in Runtimes : ActorKeeps(actor'[s], unrestricted) /\ ActorDrives(actor'[s], unrestricted, rows')
  BY <1>6, <1>7, <1>8
<1>11. ActorsKept(actor', unrestricted, rows')
  BY <1>9, <1>10 DEF ActorsKept
<1>12. ResolvedIn(rows', found, unrestricted)
  BY DEF ResolvedIn
<1>13. unrestricted' = unrestricted /\ ids' = ids /\ roots' = roots /\ found' = found
  BY <1>1
<1> QED
  BY <1>4, <1>11, <1>12, <1>13 DEF RegistryInv

LEMMA AnsweredKept ==
  ASSUME RegistryInv, NEW r \in Runtimes, W!Answered(r)
  PROVE  RegistryInv'
<1>1. actor' = [actor EXCEPT ![r] = W!Resting] /\ UNCHANGED <<unrestricted, rows, ids, roots, found>>
  BY Zenon DEF W!Answered
<1>2. W!Becomes(r, W!Resting)
  BY <1>1, RestingIs DEF W!Becomes
<1> QED
  BY <1>1, <1>2, RestingKept, BecomesKept

LEMMA NothingToAddKept ==
  ASSUME RegistryInv, NEW r \in Runtimes, W!NothingToAdd(r)
  PROVE  RegistryInv'
<1> DEFINE a == actor[r]
           next == [a EXCEPT !.at = "ok"]
<1>1. a.at = "adding" /\ a.left = << >> /\ W!Becomes(r, next) /\ UNCHANGED <<unrestricted, rows, ids, found>>
  BY Zenon DEF W!NothingToAdd
<1>2. a \in ActorShape /\ ActorKeeps(a, unrestricted) /\ ActorDrives(a, unrestricted, rows)
  BY DEF RegistryInv, ActorsKept
<1> HIDE DEF a
<1>3. next \in ActorShape /\ next.at = "ok" /\ next.does = a.does /\ next.cut = a.cut
  BY <1>2 DEF ActorShape
<1> HIDE DEF next
<1>4. ActorKeeps(next, unrestricted)
  BY <1>3 DEF ActorKeeps
<1>5. \A d : d \notin W!Words(<< >>)
  BY DEF W!Words
<1>6. ActorDrives(next, unrestricted, rows)
  BY <1>1, <1>2, <1>3, <1>5 DEF ActorDrives, DriveKept
<1> QED
  BY <1>1, <1>3, <1>4, <1>6, BecomesKept

(* A request: what it finds in the list is never what it then adds.        *)
LEMMA KnownIs ==
  ASSUME rows \in Seq(TableRows), NEW p, NEW does \in {"register", "default", "add"}
  PROVE  /\ W!Known(does, p) \in Nat
         /\ W!Known(does, p) = 0 /\ does # "add" => \A w \in W!Words(rows) : w.root # p
<1>1. /\ W!RowOf(rows, p) \in Nat /\ rows \in Seq(Rows)
      /\ \A w \in W!Words(rows) : w.id \in Nat \ {0}
  BY TableIs
<1>2. rows # << >> => rows[1] \in W!Words(rows)
  <2>1. Len(rows) \in Nat /\ DOMAIN rows = 1..Len(rows)
    BY <1>1
  <2>2. rows # << >> => Len(rows) # 0
    BY <1>1, EmptySeq
  <2>3. rows # << >> => 1 \in DOMAIN rows
    BY <2>1, <2>2
  <2> QED
    BY <2>3 DEF W!Words
<1>3. CASE does = "register"
  <2> DEFINE All == {w \in W!Words(rows) : w.real = p \/ w.root = p}
  <2>1. W!Known(does, p) = W!Row(W!Selected(rows, All))
    BY <1>3 DEF W!Known
  <2>2. /\ W!Row(W!Selected(rows, All)) \in Nat
        /\ W!Row(W!Selected(rows, All)) = 0 <=> \A w \in W!Words(rows) : w \notin All
    BY <1>1, RowOfIs
  <2>3. \A w \in W!Words(rows) : w.root = p => w \in All
    OBVIOUS
  <2> HIDE DEF All
  <2> QED
    BY <2>1, <2>2, <2>3
<1>4. CASE does = "default" /\ W!RowOf(rows, p) = 0 /\ rows # << >>
  <2>1. W!Known(does, p) = rows[1].id
    BY <1>4 DEF W!Known
  <2> QED
    BY <1>1, <1>2, <1>4, <2>1
<1>5. CASE does = "default" /\ (W!RowOf(rows, p) # 0 \/ rows = << >>)
  <2>1. W!Known(does, p) = W!RowOf(rows, p)
    BY <1>5 DEF W!Known
  <2>2. rows = << >> => \A w : w \notin W!Words(rows)
    BY DEF W!Words
  <2> QED
    BY <1>1, <1>5, <2>1, <2>2
<1>6. CASE does = "add"
  BY <1>6 DEF W!Known
<1> QED
  BY <1>3, <1>4, <1>5, <1>6

LEMMA AskKept ==
  ASSUME RegistryInv, NEW r \in Runtimes, NEW does \in {"register", "default", "add"}, NEW p \in Places, W!Ask(r, does, p)
  PROVE  RegistryInv'
<1> DEFINE known == W!Known(does, p)
           unready == does # "register" /\ roots = "failed"
           at_ == CASE does # "register" /\ roots = "failed" -> "failed"
                    [] ~unrestricted /\ p[1] # "E" -> "refused"
                    [] known # 0 -> "ok"
                    [] OTHER -> "adding"
           doing == IF does # "register" /\ roots = "failed" THEN "unready" ELSE does
           next == [W!Resting EXCEPT !.at = at_, !.does = doing, !.seen = rows, !.left = <<p>>, !.answer = known]
<1>1. W!Becomes(r, next) /\ UNCHANGED <<unrestricted, rows, ids, found>>
  BY Zenon DEF W!Ask
<1>2. rows \in Seq(TableRows) /\ p \in Paths
  BY LookupsAssumption DEF RegistryInv, TableKept
<1>3. known \in Nat /\ (known = 0 /\ does # "add" => \A w \in W!Words(rows) : w.root # p)
  BY <1>2, KnownIs
<1>4. <<p>> \in Seq(Paths) /\ <<p>> \in Lefts /\ \A x : x \in W!Words(<<p>>) <=> x = p
  <2>1. <<p>> \in Seq(Paths)
    BY <1>2
  <2> QED
    BY <2>1 DEF Lefts, W!Words
<1> HIDE DEF known
<1>5. /\ at_ \in {"failed", "refused", "ok", "adding"}
      /\ at_ = "failed" => doing = "unready"
      /\ at_ = "adding" => known = 0 /\ doing = does
  OBVIOUS
<1>6. doing \in {"register", "default", "add", "unready"}
  OBVIOUS
<1>7. next = FivePut(W!Resting, at_, doing, rows, <<p>>, known)
  <2> HIDE DEF at_, doing
  <2> QED
    BY DEF FivePut
<1> HIDE DEF next, at_, doing
<1>8. next = Actor(at_, doing, rows, <<p>>, known, W!Resting.cut)
  BY <1>7, RestingIs, FiveIs
<1>9. next = [at |-> at_, does |-> doing, seen |-> rows, left |-> <<p>>, answer |-> known, cut |-> W!Resting.cut]
  BY <1>8 DEF Actor
<1>10. next \in ActorShape
  BY <1>2, <1>3, <1>4, <1>5, <1>6, <1>9, RestingIs DEF ActorShape
<1>11. next.at = at_ /\ next.does = doing /\ next.seen = rows /\ next.left = <<p>>
  BY <1>9
<1>12. ActorKeeps(next, unrestricted)
  <2>1. next.at = "adding" /\ next.does # "add" => \A w \in W!Words(next.seen) : w.root \notin W!Words(next.left)
    BY <1>3, <1>4, <1>5, <1>11
  <2>2. next.at = "adding" => next.left \in Seq(Paths)
    BY <1>4, <1>11
  <2>3. next.at \notin {"pruning", "resetting"} /\ next.does # "sync" /\ (next.at = "failed" => next.does = "unready")
    BY <1>5, <1>6, <1>11
  <2> QED
    BY <2>1, <2>2, <2>3 DEF ActorKeeps
<1>13. ActorDrives(next, unrestricted, rows)
  BY <1>6, <1>11 DEF ActorDrives
<1> QED
  BY <1>1, <1>10, <1>12, <1>13, BecomesKept

(* What is added: nothing there, a root that is taken, or a new row.       *)
LEMMA ActorMakes ==
  ASSUME NEW at_ \in {"idle", "pruning", "resetting", "adding", "ok", "refused", "failed"},
         NEW does \in {"", "sync", "reset", "register", "default", "add", "unready"},
         NEW seen \in Seq(TableRows), NEW left \in Lefts, NEW n \in Nat, NEW cut \in BOOLEAN
  PROVE  Actor(at_, does, seen, left, n, cut) \in ActorShape
  BY DEF Actor, ActorShape

LEMMA MovedIs ==
  ASSUME NEW a \in ActorShape, NEW at_ \in {"adding", "refused", "ok"}, NEW rest \in Lefts,
         NEW next, next = TwoPut(a, at_, rest)
  PROVE  /\ next \in ActorShape
         /\ next.at = at_ /\ next.does = a.does /\ next.seen = a.seen /\ next.left = rest /\ next.cut = a.cut
  BY DEF TwoPut, ActorShape

LEMMA PlacedAs ==
  ASSUME NEW a \in ActorShape, NEW at_ \in {"adding", "refused", "ok"}, NEW rest \in Lefts, NEW n \in Nat,
         NEW next, next = PlacedPut(a, rest, n, at_)
  PROVE  /\ next \in ActorShape
         /\ next.at = at_ /\ next.does = a.does /\ next.seen = a.seen /\ next.left = rest /\ next.cut = a.cut
<1>1. next = Actor(at_, a.does, a.seen, rest, n, a.cut)
  BY ActorIs, PlacedIs
<1>2. a.does \in {"", "sync", "reset", "register", "default", "add", "unready"} /\ a.seen \in Seq(TableRows) /\ a.cut \in BOOLEAN
  BY ActorIs
<1>3. Actor(at_, a.does, a.seen, rest, n, a.cut) \in ActorShape
  BY <1>2, ActorMakes
<1>4. next \in ActorShape
  BY <1>1, <1>3
<1>5. next.at = at_ /\ next.does = a.does /\ next.seen = a.seen /\ next.left = rest /\ next.cut = a.cut
  BY <1>1 DEF Actor
<1> QED
  BY <1>4, <1>5

Absent(p) == W!Realpath(Disk, p) = << >> \/ Disk[W!Realpath(Disk, p)].kind # "dir"
NoDrive(p) == \A i \in DOMAIN Drives : Drives[i] # p
LEMMA DrivesAreThere == ASSUME NEW p, Absent(p) PROVE NoDrive(p)
  BY DriveIs DEF NoDrive, Absent

RestOf(a, rest) ==
    /\ rest \in Seq(Paths) /\ rest \in Lefts
    /\ \A x : x \in W!Words(a.left) <=> x = Head(a.left) \/ x \in W!Words(rest)
    /\ \A x : x \in W!Words(rest) => rest # << >>
LEMMA RestIs ==
  ASSUME NEW a, ActorKeeps(a, unrestricted), a.at = "adding", a.left # << >>
  PROVE  RestOf(a, Tail(a.left)) /\ Head(a.left) \in Paths
<1>1. a.left \in Seq(Paths)
  BY DEF ActorKeeps
<1>2. Tail(a.left) \in Seq(Paths) /\ Head(a.left) \in Paths
  BY <1>1, LeftIs
<1>3. /\ \A x : x \in W!Words(a.left) <=> x = Head(a.left) \/ x \in W!Words(Tail(a.left))
      /\ \A x : x \in W!Words(Tail(a.left)) => Tail(a.left) # << >>
  BY <1>1, LeftIs
<1>4. Tail(a.left) \in Lefts
  BY <1>2 DEF Lefts
<1> QED
  BY <1>2, <1>3, <1>4 DEF RestOf

LEMMA AddNothing ==
  ASSUME RegistryInv, NEW r \in Runtimes, NEW a, a = actor[r], a.at = "adding",
         NEW rest, RestOf(a, rest), NoDrive(Head(a.left)),
         NEW at_, at_ = IF rest # << >> THEN "adding" ELSE "refused",
         NEW next, next = TwoPut(a, at_, rest), W!Becomes(r, next), UNCHANGED <<unrestricted, rows, ids, found>>
  PROVE  RegistryInv'
<1>1. a \in ActorShape /\ ActorKeeps(a, unrestricted) /\ ActorDrives(a, unrestricted, rows)
  BY DEF RegistryInv, ActorsKept
<1>2. at_ \in {"adding", "refused"} /\ rest \in Lefts
  BY DEF RestOf
<1>3. /\ next \in ActorShape /\ next.at = at_ /\ next.does = a.does /\ next.seen = a.seen /\ next.left = rest
      /\ next.cut = a.cut
  BY <1>1, <1>2, MovedIs
<1>4. ActorKeeps(next, unrestricted)
  BY <1>1, <1>2, <1>3 DEF ActorKeeps, RestOf
<1>5. ActorDrives(next, unrestricted, rows)
  <2> SUFFICES ASSUME next.does = "sync", next.at \in {"adding", "ok"}, ~next.cut,
                      NEW i \in DOMAIN Drives, unrestricted \/ Drives[i] = <<"E">>
               PROVE  DriveKept(next, Drives[i], rows)
    BY DEF ActorDrives
  <2>1. DriveKept(a, Drives[i], rows)
    BY <1>1, <1>3 DEF ActorDrives
  <2> QED
    BY <1>3, <2>1 DEF DriveKept, RestOf, NoDrive
<1> QED
  BY <1>3, <1>4, <1>5, BecomesKept

LEMMA AddTaken ==
  ASSUME RegistryInv, NEW r \in Runtimes, NEW a, a = actor[r], a.at = "adding", a.left # << >>,
         NEW next, next = [a EXCEPT !.at = "failed"],
         W!Becomes(r, next), UNCHANGED <<unrestricted, rows, ids, found>>
  PROVE  RegistryInv'
<1>1. a \in ActorShape /\ ActorKeeps(a, unrestricted)
  BY DEF RegistryInv, ActorsKept
<1>2. a.left \in Seq(Paths)
  BY <1>1 DEF ActorKeeps
<1>3. Head(a.left) \in W!Words(a.left)
  BY <1>2, LeftIs
<1>4. next \in ActorShape /\ next.at = "failed" /\ next.does = a.does /\ next.seen = a.seen /\ next.left = a.left
  BY <1>1 DEF ActorShape
<1>5. ActorKeeps(next, unrestricted)
  <2> DEFINE p == Head(a.left)
  <2>1. a.does # "add" => \A w \in W!Words(a.seen) : w.root = p => a.does = "sync" /\ W!AnotherName(p)
    BY <1>1, <1>3 DEF ActorKeeps
  <2>2. a.does = "add" \/ (a.does = "sync" /\ W!AnotherName(p)) \/ \A w \in W!Words(a.seen) : w.root # p
    BY <2>1
  <2> HIDE DEF p
  <2>3. next.at = "failed" /\ next.does = a.does /\ next.seen = a.seen /\ Head(next.left) = p
    BY <1>4 DEF p
  <2> QED
    BY <2>2, <2>3 DEF ActorKeeps
<1>6. ActorDrives(next, unrestricted, rows)
  BY <1>4 DEF ActorDrives
<1> QED
  BY <1>4, <1>5, <1>6, BecomesKept

Grown(w) == rows' = Append(rows, w)
LEMMA AddRow ==
  ASSUME RegistryInv, ~found.is, NEW r \in Runtimes, NEW a, a = actor[r], a.at = "adding",
         NEW rest, RestOf(a, rest), NEW w \in TableRows, w.root = Head(a.left), w.id = ids + 1, ids < MaxRows,
         NEW at_ \in {"adding", "ok"}, rest # << >> => at_ = "adding", NEW n \in Nat,
         NEW next, next = PlacedPut(a, rest, n, at_), W!Becomes(r, next),
         ids' = ids + 1, Grown(w), UNCHANGED <<unrestricted, found>>
  PROVE  RegistryInv'
<1>1. a \in ActorShape /\ ActorKeeps(a, unrestricted) /\ ActorDrives(a, unrestricted, rows)
  BY DEF RegistryInv, ActorsKept
<1>2. rest \in Lefts /\ at_ \in {"adding", "refused", "ok"}
  BY DEF RestOf
<1>3. /\ next \in ActorShape /\ next.at = at_ /\ next.does = a.does /\ next.seen = a.seen /\ next.left = rest
      /\ next.cut = a.cut
  BY <1>1, <1>2, PlacedAs
<1>4. ActorKeeps(next, unrestricted)
  BY <1>1, <1>2, <1>3 DEF ActorKeeps, RestOf
<1>5. rows \in Seq(TableRows) /\ ids \in 0..MaxRows /\ \A v \in W!Words(rows) : v.id <= ids
  BY DEF RegistryInv, TableKept
<1>6. \A v \in W!Words(rows) : v.id \in Nat
  BY <1>5, TableIs
<1> DEFINE longer == Append(rows, w)
<1>7. longer \in Seq(TableRows) /\ \A x : x \in W!Words(longer) <=> x = w \/ x \in W!Words(rows)
  BY <1>5, GrowsIs
<1>8. rows' = longer
  BY DEF Grown
<1> HIDE DEF longer
<1>9. TableKept(rows', ids')
  <2>1. MaxRows \in Nat
    BY LookupsAssumption
  <2>2. ids + 1 \in 0..MaxRows /\ \A v \in W!Words(rows) : v.id <= ids + 1
    BY <1>5, <1>6, <2>1
  <2>3. \A v \in W!Words(longer) : v.id <= ids + 1
    BY <1>5, <1>7, <2>2
  <2> QED
    BY <1>7, <1>8, <2>2, <2>3 DEF TableKept
<1>10. \A b, d : DriveKept(b, d, rows) => DriveKept(b, d, longer)
  BY <1>7 DEF DriveKept, Listed
<1>11. ActorDrives(next, unrestricted, longer)
  <2> SUFFICES ASSUME next.does = "sync", next.at \in {"adding", "ok"}, ~next.cut,
                      NEW i \in DOMAIN Drives, unrestricted \/ Drives[i] = <<"E">>
               PROVE  DriveKept(next, Drives[i], longer)
    BY DEF ActorDrives
  <2>1. DriveKept(a, Drives[i], rows)
    BY <1>1, <1>3 DEF ActorDrives
  <2>2. CASE Listed(rows, Drives[i])
    BY <1>7, <2>2 DEF DriveKept, Listed
  <2>3. CASE Drives[i] = w.root
    BY <1>7, <2>3 DEF DriveKept, Listed
  <2>4. CASE Drives[i] \in W!Words(rest)
    <3>1. rest # << >>
      BY <2>4 DEF RestOf
    <3> QED
      BY <1>2, <1>3, <2>4, <3>1 DEF DriveKept
  <2> QED
    BY <2>1, <2>2, <2>3, <2>4 DEF DriveKept, RestOf
<1>12. actor' = [actor EXCEPT ![r] = next] /\ roots' = IF r = Desktop /\ next.does = "sync" THEN next.at ELSE roots
  BY DEF W!Becomes
<1>13. /\ actor \in [Runtimes -> ActorShape]
       /\ \A s \in Runtimes : ActorKeeps(actor[s], unrestricted) /\ ActorDrives(actor[s], unrestricted, rows)
  BY DEF RegistryInv, ActorsKept
<1>14. \A s \in Runtimes : actor'[s] = IF s = r THEN next ELSE actor[s]
  BY <1>12, <1>13
<1>15. \A s \in Runtimes : ActorDrives(actor[s], unrestricted, longer)
  BY <1>10, <1>13 DEF ActorDrives
<1>16. actor' \in [Runtimes -> ActorShape]
  BY <1>3, <1>12, <1>13
<1>17. \A s \in Runtimes : ActorKeeps(actor'[s], unrestricted) /\ ActorDrives(actor'[s], unrestricted, longer)
  BY <1>4, <1>11, <1>13, <1>14, <1>15
<1>18. ActorsKept(actor', unrestricted, rows')
  BY <1>8, <1>16, <1>17 DEF ActorsKept
<1>19. roots' \in Rooted
  BY <1>2, <1>3, <1>12 DEF RegistryInv, Rooted
<1>20. unrestricted' = unrestricted /\ found' = found /\ unrestricted \in BOOLEAN
  BY DEF RegistryInv
<1>21. ResolvedIn(rows', found, unrestricted)
  BY DEF ResolvedIn
<1> QED
  BY <1>9, <1>18, <1>19, <1>20, <1>21 DEF RegistryInv

LEMMA AddKept ==
  ASSUME RegistryInv, NEW r \in Runtimes, W!Add(r), ~found.is
  PROVE  RegistryInv'
<1> DEFINE a == actor[r]
           p == Head(a.left)
           real == W!Realpath(Disk, p)
           rest == Tail(a.left)
           n == IF a.answer = 0 THEN ids' ELSE a.answer
           row == [id |-> ids', root |-> p, real |-> real]
           gone == IF a.at = "adding" /\ rest # << >> THEN a.at ELSE "refused"
           at_ == IF rest = << >> THEN "ok" ELSE "adding"
<1>1. /\ a.at = "adding" /\ a.left # << >> /\ UNCHANGED <<unrestricted, found>>
      /\ IF real = W!Nowhere \/ Disk[real].kind # "dir"
         THEN W!Becomes(r, [a EXCEPT !.at = gone, !.left = rest]) /\ UNCHANGED <<rows, ids>>
         ELSE IF \E i \in DOMAIN rows : rows[i].root = p
         THEN W!Becomes(r, [a EXCEPT !.at = "failed"]) /\ UNCHANGED <<rows, ids>>
         ELSE /\ ids < MaxRows /\ ids' = ids + 1 /\ rows' = Append(rows, row)
              /\ W!Becomes(r, [a EXCEPT !.left = rest, !.answer = n, !.at = at_])
  BY Zenon DEF W!Add
<1>2. a \in ActorShape /\ ActorKeeps(a, unrestricted) /\ ids \in 0..MaxRows
  BY DEF RegistryInv, ActorsKept, TableKept
<1>3. RestOf(a, rest) /\ p \in Paths
  BY <1>1, <1>2, RestIs
<1>4. CASE real = W!Nowhere \/ Disk[real].kind # "dir"
  <2>1. NoDrive(p)
    BY <1>4, DrivesAreThere DEF Absent, W!Nowhere
  <2> DEFINE next == [a EXCEPT !.at = gone, !.left = rest]
  <2>2. W!Becomes(r, next) /\ UNCHANGED <<unrestricted, rows, ids, found>>
    BY <1>1, <1>4
  <2>3. gone = IF rest # << >> THEN "adding" ELSE "refused"
    BY <1>1
  <2> HIDE DEF rest, gone, a
  <2>4. next = TwoPut(a, gone, rest)
    BY DEF TwoPut
  <2>5. a = actor[r] /\ a.at = "adding" /\ NoDrive(Head(a.left))
    BY <1>1, <2>1 DEF a
  <2> HIDE DEF next, p
  <2> QED
    BY <1>3, <2>2, <2>3, <2>4, <2>5, AddNothing
<1>5. CASE ~(real = W!Nowhere \/ Disk[real].kind # "dir") /\ \E i \in DOMAIN rows : rows[i].root = p
  <2> DEFINE next == [a EXCEPT !.at = "failed"]
  <2>1. W!Becomes(r, next) /\ UNCHANGED <<unrestricted, rows, ids, found>>
    BY <1>1, <1>5
  <2> QED
    BY <1>1, <2>1, AddTaken
<1>6. CASE ~(real = W!Nowhere \/ Disk[real].kind # "dir") /\ ~\E i \in DOMAIN rows : rows[i].root = p
  <2> DEFINE next == [a EXCEPT !.left = rest, !.answer = n, !.at = at_]
  <2>1. /\ ids < MaxRows /\ ids' = ids + 1 /\ rows' = Append(rows, row)
        /\ W!Becomes(r, next) /\ UNCHANGED <<unrestricted, found>>
    BY <1>1, <1>6
  <2>2. n \in Nat
    <3>1. a.answer \in Nat
      BY <1>2, ActorIs
    <3>2. ids' \in Nat
      BY <1>2, <2>1
    <3> QED
      BY <3>1, <3>2
  <2>3. real \in Paths
    <3>1. p \in AnyPath
      BY <1>3 DEF Paths, AnyPath
    <3>2. real \in AnyPath /\ real # << >>
      BY <1>6, <3>1, RealpathIs DEF W!Nowhere
    <3> QED
      BY <3>2 DEF Paths, AnyPath
  <2> HIDE DEF rest, n, at_, a, p, real
  <2>4. row \in TableRows /\ row.root = p /\ row.id = ids + 1
    <3>1. ids + 1 \in Nat \ {0}
      BY <1>2
    <3>2. row \in Rows /\ row.root = p /\ row.real = real /\ row.id = ids + 1
      BY <1>3, <2>1, <2>3, <3>1 DEF Rows
    <3>3. Resolves(row)
      BY <3>2 DEF Resolves, real
    <3> QED
      BY <3>2, <3>3 DEF TableRows
  <2>5. next = PlacedPut(a, rest, n, at_)
    BY DEF PlacedPut
  <2>6. a = actor[r] /\ a.at = "adding" /\ row.root = Head(a.left) /\ at_ \in {"adding", "ok"} /\ (rest # << >> => at_ = "adding")
    BY <1>1, <2>4 DEF a, p, at_
  <2>7. Grown(row)
    BY <2>1 DEF Grown
  <2> HIDE DEF next, row
  <2> QED
    BY <1>3, <2>7, <2>1, <2>2, <2>4, <2>5, <2>6, AddRow
<1> QED
  BY <1>4, <1>5, <1>6

LEMMA AskPathKept ==
  ASSUME RegistryInv, NEW in \in Inputs, NEW id, W!AskPath(in, id)
  PROVE  RegistryInv'
<1>1. /\ found' = [is |-> TRUE, in |-> in, byId |-> id # 0,
                   workspace |-> IF id = 0 THEN W!Located(rows, in) ELSE W!LocatedById(rows, id, in)]
      /\ UNCHANGED <<unrestricted, rows, ids, actor, roots>>
  BY Zenon DEF W!AskPath
<1>2. rows \in Seq(TableRows) /\ unrestricted \in BOOLEAN
  BY DEF RegistryInv, TableKept
<1>5. AskedFor(found', rows, in, id)
  BY <1>1, Zenon DEF AskedFor
<1>3. ResolvedIn(rows, found', unrestricted)
  BY <1>2, <1>5, AskedIs
<1>4. unrestricted' = unrestricted /\ rows' = rows /\ ids' = ids /\ actor' = actor /\ roots' = roots
  BY <1>1
<1> QED
  BY <1>3, <1>4 DEF RegistryInv

LEMMA RegistryInitInv == ASSUME W!RegistryInit PROVE RegistryInv
<1>1. /\ unrestricted \in BOOLEAN /\ rows \in Earlier /\ ids = Len(rows) /\ actor = [r \in Runtimes |-> W!Resting]
      /\ roots = "unread" /\ found = W!NotAsked
  BY DEF W!RegistryInit
<1>2. /\ rows \in Seq([id : 1..MaxRows, root : Paths, real : Paths]) /\ Len(rows) <= MaxRows /\ MaxRows \in Nat
      /\ \A i \in DOMAIN rows : rows[i].id <= Len(rows) /\ rows[i].real = W!Realpath(Disk, rows[i].root)
  BY <1>1, LookupsAssumption
<1> DEFINE V == [id : 1..MaxRows, root : Paths, real : Paths]
<1>9. rows \in Seq(V)
  BY <1>2
<1> HIDE DEF V
<1>3. Len(rows) \in Nat /\ DOMAIN rows = 1..Len(rows) /\ rows \in [1..Len(rows) -> V] /\ \A i \in 1..Len(rows) : rows[i] \in V
  BY <1>9
<1>4. \A i \in DOMAIN rows : rows[i] \in Rows /\ Resolves(rows[i])
  <2> SUFFICES ASSUME NEW i \in DOMAIN rows PROVE rows[i] \in Rows /\ Resolves(rows[i])
    OBVIOUS
  <2>1. rows[i] \in [id : 1..MaxRows, root : Paths, real : Paths]
    BY <1>3 DEF V
  <2>2. \A n \in 1..MaxRows : n \in Nat \ {0}
    BY <1>2
  <2> QED
    BY <1>2, <2>1, <2>2 DEF Rows, Resolves
<1>5. rows \in Seq(TableRows)
  <2>1. \A i \in DOMAIN rows : rows[i] \in TableRows
    BY <1>4 DEF TableRows
  <2>3. rows \in [1..Len(rows) -> TableRows]
    BY <1>3, <2>1
  <2> QED
    BY <1>3, <2>3
<1>6. TableKept(rows, ids)
  BY <1>1, <1>2, <1>3, <1>5 DEF TableKept, W!Words
<1>7. ActorsKept(actor, unrestricted, rows)
  BY <1>1, RestingKept DEF ActorsKept
<1>8. ResolvedIn(rows, found, unrestricted)
  BY <1>1 DEF ResolvedIn, W!NotAsked
<1> QED
  BY <1>1, <1>6, <1>7, <1>8 DEF RegistryInv, Rooted

LEMMA RegistryStepInv == ASSUME RegistryInv, W!RegistryNext PROVE RegistryInv'
<1>1. ASSUME ~found.is, NEW r \in Runtimes,
             W!BeginSync(r) \/ W!BeginReset(r) \/ W!Works(r)
               \/ \E does \in {"register", "default", "add"}, p \in Places : W!Ask(r, does, p)
      PROVE  RegistryInv'
  <2>1. CASE W!BeginSync(r)
    BY <2>1, BeginSyncKept
  <2>2. CASE W!BeginReset(r)
    BY <2>2, BeginResetKept
  <2>3. CASE W!Works(r)
    <3>1. CASE W!Prune(r)
      BY <1>1, <3>1, PruneKept
    <3>2. CASE W!ResetEnds(r)
      BY <3>2, ResetEndsKept
    <3>3. CASE W!PruneEnds(r)
      BY <3>3, PruneEndsKept
    <3>4. CASE W!Add(r)
      BY <1>1, <3>4, AddKept
    <3>5. CASE W!NothingToAdd(r)
      BY <3>5, NothingToAddKept
    <3>6. CASE W!Answered(r)
      BY <3>6, AnsweredKept
    <3> QED
      BY <2>3, <3>1, <3>2, <3>3, <3>4, <3>5, <3>6 DEF W!Works
  <2>4. CASE \E does \in {"register", "default", "add"}, p \in Places : W!Ask(r, does, p)
    BY <2>4, AskKept
  <2> QED
    BY <1>1, <2>1, <2>2, <2>3, <2>4
<1>2. ASSUME NEW in \in Inputs, NEW id, W!AskPath(in, id) PROVE RegistryInv'
  BY <1>2, AskPathKept
<1>3. CASE W!Forget
  <2>1. found' = W!NotAsked /\ UNCHANGED <<unrestricted, rows, ids, actor, roots>>
    BY <1>3 DEF W!Forget
  <2>2. ResolvedIn(rows, found', unrestricted)
    BY <2>1 DEF ResolvedIn, W!NotAsked
  <2>3. unrestricted' = unrestricted /\ rows' = rows /\ ids' = ids /\ actor' = actor /\ roots' = roots
    BY <2>1
  <2> QED
    BY <2>2, <2>3 DEF RegistryInv
<1> QED
  BY <1>1, <1>2, <1>3, Zenon DEF W!RegistryNext

LEMMA RegistryInvStutter == ASSUME RegistryInv, UNCHANGED registryVars PROVE RegistryInv'
<1>1. unrestricted' = unrestricted /\ rows' = rows /\ ids' = ids /\ actor' = actor /\ roots' = roots /\ found' = found
  BY DEF registryVars
<1> QED
  BY <1>1 DEF RegistryInv

LEMMA RegistryInvGives == ASSUME RegistryInv PROVE W!RegistrySound /\ W!RegistryTypeOK
<1>1. /\ rows \in Seq(TableRows) /\ ids \in 0..MaxRows /\ (\A w \in W!Words(rows) : w.id <= ids) /\ roots \in Rooted
      /\ \A r \in Runtimes : actor[r] \in ActorShape /\ ActorKeeps(actor[r], unrestricted)
                             /\ ActorDrives(actor[r], unrestricted, rows)
      /\ ResolvedIn(rows, found, unrestricted)
  BY DEF RegistryInv, TableKept, ActorsKept
<1>2. W!FailsOnlyByRace
  BY <1>1 DEF W!FailsOnlyByRace, ActorKeeps
<1>3. W!DrivesRegistered
  BY <1>1 DEF W!DrivesRegistered, ActorDrives, DriveKept, Listed
<1>4. W!PathsResolved
  BY <1>1, Zenon DEF W!PathsResolved, ResolvedIn
<1>5. \A w \in W!Words(rows) : w.id \in 1..ids /\ w.real \in DOMAIN Disk
  <2> SUFFICES ASSUME NEW w \in W!Words(rows) PROVE w.id \in 1..ids /\ w.real \in DOMAIN Disk
    OBVIOUS
  <2>1. w \in Rows /\ w.id \in Nat \ {0} /\ w.real = W!Realpath(Disk, w.root) /\ w.id <= ids
    BY <1>1, TableIs
  <2>2. w.root \in AnyPath /\ w.real # << >>
    BY <2>1 DEF Rows, Paths, AnyPath
  <2>3. w.real \in AnyPath /\ W!Stops(Disk, w.real) = {}
    BY <2>1, <2>2, RealpathIs
  <2>4. w.real \in DOMAIN Disk
    BY <2>2, <2>3, SettledIs
  <2>5. w.id \in 1..ids
    BY <1>1, <2>1
  <2> QED
    BY <2>4, <2>5
<1>6. \A i \in DOMAIN rows : rows[i].id \in 1..ids /\ rows[i].real \in DOMAIN Disk
  BY <1>5 DEF W!Words
<1>7. \A r \in Runtimes : actor[r].at \in {"idle", "pruning", "resetting", "adding", "ok", "refused", "failed"}
  BY <1>1, ActorIs
<1>8. roots \in {"unread", "pruning", "adding", "ok", "refused", "failed"}
  BY <1>1 DEF Rooted
<1>9. W!RegistryTypeOK
  BY <1>1, <1>6, <1>7, <1>8, Zenon DEF W!RegistryTypeOK
<1> QED
  BY <1>2, <1>3, <1>4, <1>9 DEF W!RegistrySound

-----------------------------------------------------------------------------
(* The catalog: what is found in a place.                                  *)
SkillEntries == [id : Seq(Names), root : Names, path : Paths]
ServerEntries == [id : Names, source : Names, excluded : BOOLEAN, enabled : BOOLEAN]
AllEntries == SkillEntries \union ServerEntries
FoldersKept == folders \in [X!Range(Roots) -> Folders] /\ configs \in [X!Range(Configs) -> Servers]

LEMMA RangeIs ==
  ASSUME NEW Image, NEW s \in Seq(Image)
  PROVE  /\ \A p : p \in X!Range(s) <=> \E i \in 1..Len(s) : p = s[i]
         /\ X!Range(s) \subseteq Image /\ Len(s) \in Nat
<1>1. DOMAIN s = 1..Len(s) /\ Len(s) \in Nat /\ \A i \in 1..Len(s) : s[i] \in Image
  OBVIOUS
<1>2. \A p : p \in X!Range(s) <=> \E i \in 1..Len(s) : p = s[i]
  BY <1>1 DEF X!Range
<1> QED
  BY <1>1, <1>2

LEMMA ImageFinite ==
  ASSUME NEW All, IsFiniteSet(All), NEW Image, NEW f \in [All -> Image], \A t \in Image : \E s \in All : f[s] = t
  PROVE  IsFiniteSet(Image)
<1>1. f \in Surjection(All, Image)
  BY DEF Surjection
<1> QED
  BY <1>1, FS_Surjection

SkillFound(e, root) ==
    /\ e \in SkillEntries /\ e.root = root /\ X!PlaceOf(e) = root
    /\ \E f \in folders[root] : "path" \in DOMAIN f /\ f.path = e.path /\ Len(f.path) <= 3
    /\ \A g \in folders[root] : ~X!IsStrictPrefix(g.path, e.path)
ServerFound(e, conf) ==
    /\ e \in ServerEntries /\ e.source = conf /\ X!PlaceOf(e) = conf
    /\ \E s \in configs[conf] : "own" \in DOMAIN s /\ s.name = e.id /\ s.own = e.excluded
    /\ e.enabled => ~e.excluded /\ X!IsServerEnabled(e.id)

LEMMA SkillsAre ==
  ASSUME FoldersKept, NEW root \in X!Range(Roots)
  PROVE  /\ \A e \in X!Found(root) : SkillFound(e, root)
         /\ IsFiniteSet(X!Found(root))
<1>1. /\ Roots \in Seq(Names) /\ folders[root] \in Folders
      /\ folders[root] \subseteq [path : Paths, named : Names] /\ IsFiniteSet(folders[root])
  BY LookupsAssumption DEF FoldersKept
<1>2. root \in Names
  BY <1>1, RangeIs
<1>3. CASE root \in Off
  <2>1. X!Found(root) = {}
    BY <1>3 DEF X!Found, X!SkillsOf
  <2> QED
    BY <2>1, FS_EmptySet
<1>4. CASE root \notin Off
  <2> DEFINE All == X!SkillFiles(root)
             entry(f) == [id |-> <<root, X!NameOf(f)>>, root |-> root, path |-> f.path]
             Image == {entry(f) : f \in All}
  <2>1. X!Found(root) = Image
    BY <1>4, Zenon DEF X!Found, X!SkillsOf
  <2>2. /\ All \subseteq folders[root]
        /\ \A f \in All : Len(f.path) <= 3 /\ \A g \in folders[root] : ~X!IsStrictPrefix(g.path, f.path)
    BY DEF X!SkillFiles
  <2> HIDE DEF All
  <2>3. IsFiniteSet(All)
    BY <1>1, <2>2, FS_Subset
  <2>4. ASSUME NEW f \in All PROVE SkillFound(entry(f), root)
    <3>1. f \in [path : Paths, named : Names] /\ f \in folders[root]
      BY <1>1, <2>2
    <3>2. f.path \in Seq(Names) /\ Len(f.path) \in Nat /\ Len(f.path) # 0 /\ f.named \in Names /\ f.path \in Paths
      BY <3>1, EmptySeq DEF Paths
    <3>3. f.path[Len(f.path)] \in Names
      BY <3>2
    <3>4. X!NameOf(f) \in Names
      BY <3>2, <3>3 DEF X!NameOf, X!Last
    <3>5. <<root, X!NameOf(f)>> \in Seq(Names)
      BY <1>2, <3>4
    <3>6. entry(f) \in SkillEntries /\ entry(f).root = root /\ entry(f).path = f.path
      BY <1>2, <3>2, <3>5 DEF SkillEntries
    <3>7. X!PlaceOf(entry(f)) = root
      BY DEF X!PlaceOf
    <3>8. "path" \in DOMAIN f
      BY <3>1
    <3> HIDE DEF entry
    <3> QED
      BY <2>2, <3>1, <3>6, <3>7, <3>8 DEF SkillFound
  <2>5. IsFiniteSet(Image)
    <3> DEFINE Fam == [f \in All |-> entry(f)]
    <3>1. Fam \in [All -> Image] /\ \A t \in Image : \E f \in All : Fam[f] = t
      OBVIOUS
    <3> HIDE DEF Fam, Image
    <3> QED
      BY <2>3, <3>1, ImageFinite
  <2> QED
    BY <2>1, <2>4, <2>5
<1> QED
  BY <1>3, <1>4

LEMMA ServersAre ==
  ASSUME FoldersKept, NEW conf \in X!Range(Configs)
  PROVE  /\ \A e \in X!Found(conf) : ServerFound(e, conf)
         /\ IsFiniteSet(X!Found(conf))
<1>1. /\ Roots \in Seq(Names) /\ Configs \in Seq(Names) /\ configs[conf] \in Servers
      /\ configs[conf] \subseteq [name : Names, own : BOOLEAN] /\ IsFiniteSet(configs[conf])
      /\ \A i \in DOMAIN Roots, j \in DOMAIN Configs : Roots[i] # Configs[j]
  BY LookupsAssumption DEF FoldersKept
<1>2. conf \in Names /\ conf \notin X!Range(Roots)
  <2>1. DOMAIN Roots = 1..Len(Roots) /\ DOMAIN Configs = 1..Len(Configs)
    BY <1>1
  <2> QED
    BY <1>1, <2>1, RangeIs
<1> DEFINE All == configs[conf]
           entry(s) == [id |-> s.name, source |-> conf, excluded |-> X!Excluded(s),
                        enabled |-> ~X!Excluded(s) /\ X!IsServerEnabled(s.name)]
           Image == {entry(s) : s \in All}
<1>3. X!Found(conf) = Image
  BY <1>2, Zenon DEF X!Found, X!ServersOf
<1> HIDE DEF All
<1>4. ASSUME NEW s \in All PROVE ServerFound(entry(s), conf)
  <2>1. s \in [name : Names, own : BOOLEAN] /\ s \in configs[conf]
    BY <1>1, <1>4 DEF All
  <2>2. X!Excluded(s) = s.own /\ X!Excluded(s) \in BOOLEAN /\ s.name \in Names
    BY <2>1 DEF X!Excluded
  <2>3. (~X!Excluded(s) /\ X!IsServerEnabled(s.name)) \in BOOLEAN
    OBVIOUS
  <2> DEFINE e == entry(s)
  <2>4. /\ e.id = s.name /\ e.source = conf /\ e.excluded = X!Excluded(s)
        /\ e.enabled = (~X!Excluded(s) /\ X!IsServerEnabled(s.name))
    OBVIOUS
  <2>5. e \in ServerEntries
    BY <1>2, <2>2, <2>3 DEF ServerEntries
  <2>6. X!PlaceOf(e) = conf
    BY DEF X!PlaceOf
  <2>7. "own" \in DOMAIN s
    BY <2>1
  <2> HIDE DEF e
  <2>8. \E t \in configs[conf] : "own" \in DOMAIN t /\ t.name = e.id /\ t.own = e.excluded
    BY <2>1, <2>2, <2>4, <2>7
  <2>9. e.enabled => ~e.excluded /\ X!IsServerEnabled(e.id)
    BY <2>4
  <2>10. ServerFound(e, conf)
    BY <2>4, <2>5, <2>6, <2>8, <2>9 DEF ServerFound
  <2> QED
    BY <2>10 DEF e
<1>5. IsFiniteSet(Image)
  <2> DEFINE Fam == [s \in All |-> entry(s)]
  <2>1. Fam \in [All -> Image] /\ \A t \in Image : \E s \in All : Fam[s] = t
    OBVIOUS
  <2>2. IsFiniteSet(All)
    BY <1>1 DEF All
  <2> HIDE DEF Fam, Image
  <2> QED
    BY <2>1, <2>2, ImageFinite
<1> QED
  BY <1>3, <1>4, <1>5

(* The places a search reads, and what it has found.                       *)
PlacesOf(kind) == IF kind = "mcp" THEN Configs ELSE Roots
EntryTrue(kind, e, d) ==
    /\ kind = "mcp" =>
          /\ e \in ServerEntries /\ \E s \in d : "own" \in DOMAIN s /\ s.name = e.id /\ s.own = e.excluded
          /\ e.enabled => ~e.excluded /\ X!IsServerEnabled(e.id)
    /\ kind # "mcp" =>
          e \in SkillEntries /\ \E f \in d : "path" \in DOMAIN f /\ f.path = e.path /\ Len(f.path) <= 3
FoundIn(kind, m) == X!Found(PlacesOf(kind)[m])
AllRead(kind, got, k) ==
    /\ \A i \in 1..Len(got) : \E m \in 1..k : got[i] \in FoundIn(kind, m)
    /\ \A m \in 1..k : \A e \in FoundIn(kind, m) : \E i \in 1..Len(got) : got[i] = e
    /\ \A i, j \in 1..Len(got) : \A m, n \in 1..Len(PlacesOf(kind)) :
          i < j /\ got[i] \in FoundIn(kind, m) /\ got[j] \in FoundIn(kind, n) => m <= n
Searching(x) == x = [kind |-> x.kind, ask |-> x.ask, got |-> x.got, left |-> x.left]
ReadUpto(kind, got, left, n, k) ==
    k \in 0..Len(PlacesOf(kind)) /\ left = SubSeq(PlacesOf(kind), k + 1, Len(PlacesOf(kind))) /\ (n = 0 => AllRead(kind, got, k))
GotTrue(kind, got, d) == got \in Seq(AllEntries) /\ \A i \in 1..Len(got) : EntryTrue(kind, got[i], d)
SearchKept(x, d, n) ==
    /\ Searching(x) /\ GotTrue(x.kind, x.got, d) /\ X!Present(folders, configs) \subseteq d
    /\ \E k : ReadUpto(x.kind, x.got, x.left, n, k)
CatalogInv ==
    /\ FoldersKept /\ edits \in Nat
    /\ search # X!None => SearchKept(search, during, edits) /\ answer = X!None
    /\ X!CatalogAnswersTrue

LEMMA PlacesAre ==
  ASSUME NEW kind
  PROVE  /\ PlacesOf(kind) \in Seq(Names) /\ Len(PlacesOf(kind)) \in Nat
         /\ \A i, j \in 1..Len(PlacesOf(kind)) : PlacesOf(kind)[i] = PlacesOf(kind)[j] => i = j
         /\ kind = "mcp" => \A i \in 1..Len(PlacesOf(kind)) : PlacesOf(kind)[i] \in X!Range(Configs)
         /\ kind # "mcp" => \A i \in 1..Len(PlacesOf(kind)) : PlacesOf(kind)[i] \in X!Range(Roots)
<1>1. /\ Roots \in Seq(Names) /\ Configs \in Seq(Names)
      /\ \A i, j \in DOMAIN Roots : Roots[i] = Roots[j] => i = j
      /\ \A i, j \in DOMAIN Configs : Configs[i] = Configs[j] => i = j
  BY LookupsAssumption
<1>2. DOMAIN Roots = 1..Len(Roots) /\ DOMAIN Configs = 1..Len(Configs) /\ Len(Roots) \in Nat /\ Len(Configs) \in Nat
  BY <1>1
<1>3. (\A i \in 1..Len(Roots) : Roots[i] \in X!Range(Roots)) /\ (\A i \in 1..Len(Configs) : Configs[i] \in X!Range(Configs))
  BY <1>1, RangeIs
<1>4. CASE kind = "mcp"
  <2>1. PlacesOf(kind) = Configs
    BY <1>4 DEF PlacesOf
  <2> QED
    BY <1>1, <1>2, <1>3, <1>4, <2>1
<1>5. CASE kind # "mcp"
  <2>1. PlacesOf(kind) = Roots
    BY <1>5 DEF PlacesOf
  <2> QED
    BY <1>1, <1>2, <1>3, <1>5, <2>1
<1> QED
  BY <1>4, <1>5

LEMMA PresentHas ==
  ASSUME NEW fs, NEW cs
  PROVE  /\ \A r \in X!Range(Roots) : \A f : f \in fs[r] => f \in X!Present(fs, cs)
         /\ \A c \in X!Range(Configs) : \A s : s \in cs[c] => s \in X!Present(fs, cs)
  BY DEF X!Present

LEMMA FoundTrue ==
  ASSUME FoldersKept, NEW kind, NEW m \in 1..Len(PlacesOf(kind)), NEW d, X!Present(folders, configs) \subseteq d
  PROVE  /\ \A e \in FoundIn(kind, m) : EntryTrue(kind, e, d) /\ e \in AllEntries /\ X!PlaceOf(e) = PlacesOf(kind)[m]
         /\ IsFiniteSet(FoundIn(kind, m))
<1> DEFINE place == PlacesOf(kind)[m]
<1>1. CASE kind = "mcp"
  <2>1. place \in X!Range(Configs)
    BY <1>1, PlacesAre
  <2> HIDE DEF place
  <2>2. IsFiniteSet(X!Found(place)) /\ \A e \in X!Found(place) : ServerFound(e, place)
    BY <2>1, ServersAre
  <2>3. ASSUME NEW e \in X!Found(place) PROVE EntryTrue(kind, e, d) /\ e \in AllEntries /\ X!PlaceOf(e) = place
    <3>1. ServerFound(e, place)
      BY <2>2
    <3>2. \A s : s \in configs[place] => s \in d
      BY <2>1, PresentHas
    <3> QED
      BY <1>1, <3>1, <3>2 DEF ServerFound, EntryTrue, AllEntries
  <2> QED
    BY <2>2, <2>3 DEF place, FoundIn
<1>2. CASE kind # "mcp"
  <2>1. place \in X!Range(Roots)
    BY <1>2, PlacesAre
  <2> HIDE DEF place
  <2>2. IsFiniteSet(X!Found(place)) /\ \A e \in X!Found(place) : SkillFound(e, place)
    BY <2>1, SkillsAre
  <2>3. ASSUME NEW e \in X!Found(place) PROVE EntryTrue(kind, e, d) /\ e \in AllEntries /\ X!PlaceOf(e) = place
    <3>1. SkillFound(e, place)
      BY <2>2
    <3>2. \A f : f \in folders[place] => f \in d
      BY <2>1, PresentHas
    <3> QED
      BY <1>2, <3>1, <3>2 DEF SkillFound, EntryTrue, AllEntries
  <2> QED
    BY <2>2, <2>3 DEF place, FoundIn
<1> QED
  BY <1>1, <1>2

LEMMA FoundOnce ==
  ASSUME FoldersKept, NEW kind, NEW m \in 1..Len(PlacesOf(kind)), NEW n \in 1..Len(PlacesOf(kind)),
         NEW e, e \in FoundIn(kind, m), e \in FoundIn(kind, n)
  PROVE  m = n
<1>0. X!Present(folders, configs) \subseteq X!Present(folders, configs)
  OBVIOUS
<1>1. X!PlaceOf(e) = PlacesOf(kind)[m]
  BY <1>0, FoundTrue
<1>2. X!PlaceOf(e) = PlacesOf(kind)[n]
  BY <1>0, FoundTrue
<1>3. PlacesOf(kind)[m] = PlacesOf(kind)[n]
  BY <1>1, <1>2
<1> QED
  BY <1>3, PlacesAre

LEMMA OrderHas ==
  ASSUME NEW All, IsFiniteSet(All), NEW order \in X!Orders(All)
  PROVE  order \in Seq(All) /\ \A e \in All : \E i \in 1..Len(order) : order[i] = e
<1>1. Cardinality(All) \in Nat
  BY FS_CardinalityType
<1>6. X!Cardinality(All) = Cardinality(All)
  BY Zenon DEF X!Cardinality, Cardinality
<1>7. order \in [1..X!Cardinality(All) -> All] /\ X!Range(order) = All
  BY DEF X!Orders
<1>2. order \in [1..Cardinality(All) -> All] /\ X!Range(order) = All
  BY <1>6, <1>7
<1>3. order \in Seq(All)
  BY <1>1, <1>2
<1>4. \A p : p \in X!Range(order) <=> \E i \in 1..Len(order) : p = order[i]
  BY <1>3, RangeIs
<1>5. ASSUME NEW e \in All PROVE \E i \in 1..Len(order) : order[i] = e
  <2>1. e \in X!Range(order)
    BY <1>2
  <2> QED
    BY <1>4, <2>1
<1> QED
  BY <1>3, <1>5

(* One more place is read.                                                 *)
LEMMA ReadOneMore ==
  ASSUME FoldersKept, NEW kind, NEW got \in Seq(AllEntries), NEW k \in 0..Len(PlacesOf(kind)), k < Len(PlacesOf(kind)),
         NEW order \in X!Orders(FoundIn(kind, k + 1)), AllRead(kind, got, k)
  PROVE  AllRead(kind, got \o order, k + 1)
<1> DEFINE All == FoundIn(kind, k + 1)
           N == Len(PlacesOf(kind))
           all == got \o order
           g == Len(got)
           h == Len(order)
<1>1. N \in Nat /\ k + 1 \in 1..N
  BY PlacesAre
<1>2. IsFiniteSet(All) /\ All \subseteq AllEntries
  BY <1>1, FoundTrue
<1>3. order \in Seq(All) /\ \A e \in All : \E i \in 1..h : order[i] = e
  <2> HIDE DEF All
  <2> QED
    BY <1>2, OrderHas DEF All
<1> HIDE DEF All
<1>4. order \in Seq(AllEntries)
  BY <1>2, <1>3
<1>5. g \in Nat /\ h \in Nat /\ (\A i \in 1..h : order[i] \in All)
  BY <1>3
<1>6. Len(all) = g + h /\ \A i \in 1..(g + h) : all[i] = IF i <= g THEN got[i] ELSE order[i - g]
  BY <1>4, ConcatProperties
<1> HIDE DEF all, g, h, N
<1>7. /\ \A i \in 1..(g + h) : (i <= g => i \in 1..g) /\ (~(i <= g) => i - g \in 1..h)
      /\ \A i \in 1..g : i \in 1..(g + h) /\ i <= g
      /\ \A i \in 1..h : g + i \in 1..(g + h) /\ ~(g + i <= g) /\ (g + i) - g = i
  BY <1>5
<1>8. /\ \A i \in 1..g : \E m \in 1..k : got[i] \in FoundIn(kind, m)
      /\ \A m \in 1..k : \A e \in FoundIn(kind, m) : \E i \in 1..g : got[i] = e
      /\ \A i, j \in 1..g : \A m, n \in 1..N :
            i < j /\ got[i] \in FoundIn(kind, m) /\ got[j] \in FoundIn(kind, n) => m <= n
  BY DEF AllRead, g, N
<1>9. \A i \in 1..(g + h) : (i <= g => all[i] = got[i]) /\ (~(i <= g) => all[i] = order[i - g])
  BY <1>6
<1>10. k \in Nat /\ (\A m \in 1..(k + 1) : m = k + 1 \/ m \in 1..k) /\ (\A m \in 1..k : m \in 1..(k + 1) /\ m \in 1..N /\ m <= k + 1) /\ k + 1 \in 1..(k + 1)
  BY <1>1 DEF N
<1>11. ASSUME NEW i \in 1..(g + h) PROVE \E m \in 1..(k + 1) : all[i] \in FoundIn(kind, m)
  <2>1. CASE i <= g
    BY <1>7, <1>8, <1>9, <1>10, <2>1
  <2>2. CASE ~(i <= g)
    BY <1>5, <1>7, <1>9, <1>10, <2>2 DEF All
  <2> QED
    BY <2>1, <2>2
<1>12. ASSUME NEW m \in 1..(k + 1), NEW e \in FoundIn(kind, m) PROVE \E i \in 1..(g + h) : all[i] = e
  <2>1. CASE m \in 1..k
    <3>1. PICK i \in 1..g : got[i] = e
      BY <1>8, <2>1
    <3> QED
      BY <1>7, <1>9, <3>1
  <2>2. CASE m = k + 1
    <3>1. PICK i \in 1..h : order[i] = e
      BY <1>3, <2>2 DEF All, h
    <3>2. all[g + i] = e /\ g + i \in 1..(g + h)
      BY <1>7, <1>9, <3>1
    <3> QED
      BY <3>2
  <2> QED
    BY <1>10, <2>1, <2>2
<1>13. ASSUME NEW i \in 1..(g + h), NEW j \in 1..(g + h), NEW m \in 1..N, NEW n \in 1..N,
              i < j, all[i] \in FoundIn(kind, m), all[j] \in FoundIn(kind, n)
       PROVE  m <= n
  <2>1. CASE j <= g
    <3>1. i <= g /\ i \in 1..g /\ j \in 1..g
      BY <1>5, <1>7, <1>13, <2>1
    <3> QED
      BY <1>8, <1>9, <1>13, <2>1, <3>1
  <2>2. CASE ~(j <= g)
    <3>1. all[j] \in FoundIn(kind, k + 1)
      BY <1>5, <1>7, <1>9, <2>2 DEF All
    <3>2. n = k + 1
      BY <1>1, <1>13, <3>1, FoundOnce DEF N
    <3>3. PICK o \in 1..(k + 1) : all[i] \in FoundIn(kind, o)
      BY <1>11
    <3>4. o \in 1..N /\ o <= k + 1
      BY <1>1, <1>10, <3>3
    <3>5. m = o
      BY <1>13, <3>3, <3>4, FoundOnce DEF N
    <3> QED
      BY <3>2, <3>4, <3>5
  <2> QED
    BY <2>1, <2>2
<1>14. Len(all) = g + h /\ N = Len(PlacesOf(kind))
  BY <1>6 DEF N
<1>15. AllRead(kind, all, k + 1)
  BY <1>11, <1>12, <1>13, <1>14 DEF AllRead
<1> QED
  BY <1>15 DEF all

(* Of the entries of one name the one that counts is kept.                 *)
KeptAt(kind, got, i) ==
    \A j \in 1..Len(got) : got[j].id = got[i].id => IF kind = "mcp" THEN j <= i ELSE i <= j
LEMMA DedupedIs ==
  ASSUME NEW kind, NEW got \in Seq(AllEntries)
  PROVE  \A e : e \in X!Deduped(kind, got) <=> \E i \in 1..Len(got) : KeptAt(kind, got, i) /\ e = got[i]
<1>1. DOMAIN got = 1..Len(got)
  OBVIOUS
<1>2. CASE kind = "mcp"
  <2>1. X!Deduped(kind, got) = X!DedupeServers(got)
    BY <1>2 DEF X!Deduped
  <2> QED
    BY <1>1, <1>2, <2>1 DEF X!DedupeServers, KeptAt
<1>3. CASE kind # "mcp"
  <2>1. X!Deduped(kind, got) = X!DedupeById(got)
    BY <1>3 DEF X!Deduped
  <2> QED
    BY <1>1, <1>3, <2>1 DEF X!DedupeById, KeptAt
<1> QED
  BY <1>2, <1>3

LEMMA KeptSome ==
  ASSUME NEW kind, NEW got \in Seq(AllEntries), NEW j \in 1..Len(got)
  PROVE  \E i \in 1..Len(got) : KeptAt(kind, got, i) /\ got[i].id = got[j].id
<1> DEFINE N == Len(got)
           same == {i \in 1..N : got[i].id = got[j].id}
           back == {N - i : i \in same}
<1>1. N \in Nat /\ j \in same
  OBVIOUS
<1>2. CASE kind # "mcp"
  <2>1. same \in SUBSET Nat /\ same # {}
    BY <1>1
  <2> HIDE DEF same
  <2>2. PICK i \in same : \A k \in same : i <= k
    BY <2>1, LeastNat
  <2>3. i \in 1..N /\ got[i].id = got[j].id
    BY <2>2 DEF same
  <2>4. \A k \in 1..N : got[k].id = got[i].id => i <= k
    BY <2>2, <2>3 DEF same
  <2> QED
    BY <1>2, <2>3, <2>4 DEF KeptAt
<1>3. CASE kind = "mcp"
  <2>1. back \in SUBSET Nat /\ back # {}
    BY <1>1
  <2> HIDE DEF back
  <2>2. PICK x \in back : \A y \in back : x <= y
    BY <2>1, LeastNat
  <2>3. PICK i \in same : x = N - i
    BY <2>2 DEF back
  <2>4. i \in 1..N /\ got[i].id = got[j].id
    BY <2>3
  <2>5. \A k \in same : N - i <= N - k
    BY <2>2, <2>3 DEF back
  <2>6. \A k \in 1..N : got[k].id = got[i].id => k \in same
    BY <2>4
  <2>7. \A k \in 1..N : N - i <= N - k => k <= i
    BY <1>1, <2>4
  <2>8. \A k \in 1..N : got[k].id = got[i].id => k <= i
    BY <2>5, <2>6, <2>7
  <2> HIDE DEF same, N
  <2> QED
    BY <1>3, <2>4, <2>8 DEF KeptAt, N
<1> QED
  BY <1>2, <1>3

LEMMA RankIs ==
  ASSUME NEW kind, NEW m \in 1..Len(PlacesOf(kind))
  PROVE  X!Rank(kind, PlacesOf(kind)[m]) = IF kind = "mcp" THEN Len(PlacesOf(kind)) - m ELSE m
<1> DEFINE places == PlacesOf(kind)
           i == CHOOSE j \in DOMAIN places : places[j] = places[m]
<1>1. DOMAIN places = 1..Len(places) /\ \A j \in 1..Len(places) : places[j] = places[m] => j = m
  BY PlacesAre
<1>2. i = m
  <2>1. i \in DOMAIN places /\ places[i] = places[m]
    <3>1. m \in DOMAIN places /\ places[m] = places[m]
      BY <1>1
    <3> HIDE DEF places
    <3> QED
      BY <3>1
  <2> HIDE DEF i, places
  <2> QED
    BY <1>1, <2>1
<1>3. X!Rank(kind, places[m]) = IF kind = "mcp" THEN Len(places) - i ELSE i
  BY Zenon DEF X!Rank, PlacesOf
<1> QED
  BY <1>2, <1>3

LEMMA EntriesAre ==
  ASSUME NEW kind
  PROVE  \A e : e \in X!Entries(kind) <=> \E m \in 1..Len(PlacesOf(kind)) : e \in FoundIn(kind, m)
<1>1. PlacesOf(kind) \in Seq(Names)
  BY PlacesAre
<1>2. \A p : p \in X!Range(PlacesOf(kind)) <=> \E i \in 1..Len(PlacesOf(kind)) : p = PlacesOf(kind)[i]
  BY <1>1, RangeIs
<1>3. X!Entries(kind) = UNION {X!Found(p) : p \in X!Range(PlacesOf(kind))}
  BY Zenon DEF X!Entries, PlacesOf
<1> QED
  BY <1>2, <1>3 DEF FoundIn

(* The answer of a search during which nobody edited.                      *)
LEMMA ListComplete ==
  ASSUME FoldersKept, NEW kind, NEW got \in Seq(AllEntries), AllRead(kind, got, Len(PlacesOf(kind)))
  PROVE  LET list == X!Deduped(kind, got)
         IN  /\ \A e \in list : X!Counts(kind, e)
             /\ kind # "mcp" => \A e \in list : \A f \in folders[e.root] : ~X!IsStrictPrefix(f.path, e.path)
             /\ {e.id : e \in list} = {e.id : e \in X!Entries(kind)}
<1> DEFINE list == X!Deduped(kind, got)
           N == Len(PlacesOf(kind))
<1>1. \A e : e \in list <=> \E i \in 1..Len(got) : KeptAt(kind, got, i) /\ e = got[i]
  BY DedupedIs
<1>2. \A e : e \in X!Entries(kind) <=> \E m \in 1..N : e \in FoundIn(kind, m)
  BY EntriesAre
<1> HIDE DEF list, N
<1>3. /\ \A i \in 1..Len(got) : \E m \in 1..N : got[i] \in FoundIn(kind, m)
      /\ \A m \in 1..N : \A e \in FoundIn(kind, m) : \E i \in 1..Len(got) : got[i] = e
      /\ \A i, j \in 1..Len(got) : \A m, n \in 1..N :
            i < j /\ got[i] \in FoundIn(kind, m) /\ got[j] \in FoundIn(kind, n) => m <= n
  BY DEF AllRead, N
<1>4. X!Present(folders, configs) \subseteq X!Present(folders, configs)
  OBVIOUS
<1>5. \A m \in 1..N : \A e \in FoundIn(kind, m) : X!PlaceOf(e) = PlacesOf(kind)[m]
  BY <1>4, FoundTrue DEF N
<1>6. N \in Nat /\ Len(got) \in Nat
  BY PlacesAre DEF N
<1>7. \A m \in 1..N : X!Rank(kind, PlacesOf(kind)[m]) = IF kind = "mcp" THEN N - m ELSE m
  BY RankIs DEF N
<1>8. ASSUME NEW e \in list, NEW f \in X!Entries(kind), f.id = e.id
      PROVE  X!Rank(kind, X!PlaceOf(e)) <= X!Rank(kind, X!PlaceOf(f))
  <2>1. PICK i \in 1..Len(got) : KeptAt(kind, got, i) /\ e = got[i]
    BY <1>1
  <2>2. PICK n \in 1..N : f \in FoundIn(kind, n)
    BY <1>2
  <2>3. PICK j \in 1..Len(got) : got[j] = f
    BY <1>3, <2>2
  <2>4. PICK m \in 1..N : got[i] \in FoundIn(kind, m)
    BY <1>3
  <2>5. IF kind = "mcp" THEN j <= i ELSE i <= j
    BY <1>8, <2>1, <2>3 DEF KeptAt
  <2>6. X!Rank(kind, X!PlaceOf(e)) = (IF kind = "mcp" THEN N - m ELSE m)
    BY <1>5, <1>7, <2>1, <2>4
  <2>7. X!Rank(kind, X!PlaceOf(f)) = (IF kind = "mcp" THEN N - n ELSE n)
    BY <1>5, <1>7, <2>2
  <2>8. i < j => m <= n
    BY <1>3, <2>2, <2>3, <2>4
  <2>9. j < i => n <= m
    BY <1>3, <2>2, <2>3, <2>4
  <2>10. i = j => m = n
    BY <2>2, <2>3, <2>4, FoundOnce DEF N
  <2> QED
    BY <1>6, <2>5, <2>6, <2>7, <2>8, <2>9, <2>10
<1>9. \A e \in list : X!Counts(kind, e)
  BY <1>8 DEF X!Counts
<1>10. ASSUME kind # "mcp", NEW e \in list PROVE \A f \in folders[e.root] : ~X!IsStrictPrefix(f.path, e.path)
  <2>1. PICK i \in 1..Len(got) : e = got[i]
    BY <1>1
  <2>2. PICK m \in 1..N : e \in FoundIn(kind, m)
    BY <1>3, <2>1
  <2>3. PlacesOf(kind)[m] \in X!Range(Roots)
    BY <1>10, PlacesAre DEF N
  <2>4. SkillFound(e, PlacesOf(kind)[m])
    BY <2>2, <2>3, SkillsAre DEF FoundIn
  <2> QED
    BY <2>4 DEF SkillFound
<1>11. ASSUME NEW e \in list PROVE e \in X!Entries(kind)
  BY <1>1, <1>2, <1>3
<1>12. ASSUME NEW f \in X!Entries(kind) PROVE \E e \in list : e.id = f.id
  <2>1. PICK j \in 1..Len(got) : got[j] = f
    BY <1>2, <1>3
  <2>2. PICK i \in 1..Len(got) : KeptAt(kind, got, i) /\ got[i].id = got[j].id
    BY KeptSome
  <2>3. got[i] \in list /\ got[i].id = f.id
    BY <1>1, <2>1, <2>2
  <2> QED
    BY <2>3
<1>13. {e.id : e \in list} = {e.id : e \in X!Entries(kind)}
  BY <1>11, <1>12
<1> QED
  BY <1>9, <1>10, <1>13 DEF list

(* The answer of any search.                                               *)
LEMMA ListTrue ==
  ASSUME NEW kind, NEW got, NEW d, GotTrue(kind, got, d)
  PROVE  LET list == X!Deduped(kind, got)
         IN  /\ \A e, f \in list : e.id = f.id => e = f
             /\ \A e \in list : EntryTrue(kind, e, d)
<1> DEFINE list == X!Deduped(kind, got)
<1>1. got \in Seq(AllEntries) /\ \A i \in 1..Len(got) : EntryTrue(kind, got[i], d)
  BY DEF GotTrue
<1>2. \A e : e \in list <=> \E i \in 1..Len(got) : KeptAt(kind, got, i) /\ e = got[i]
  BY <1>1, DedupedIs
<1> HIDE DEF list
<1>3. ASSUME NEW e \in list, NEW f \in list, e.id = f.id PROVE e = f
  <2>1. PICK i \in 1..Len(got) : KeptAt(kind, got, i) /\ e = got[i]
    BY <1>2
  <2>2. PICK j \in 1..Len(got) : KeptAt(kind, got, j) /\ f = got[j]
    BY <1>2
  <2>3. (IF kind = "mcp" THEN j <= i ELSE i <= j) /\ (IF kind = "mcp" THEN i <= j ELSE j <= i)
    BY <1>3, <2>1, <2>2 DEF KeptAt
  <2>4. i = j
    BY <2>3
  <2> QED
    BY <2>1, <2>2, <2>4
<1>4. \A e \in list : EntryTrue(kind, e, d)
  BY <1>1, <1>2
<1> QED
  BY <1>3, <1>4 DEF list

(* What a step of the catalog leaves true.                                 *)
LEMMA EntryStays ==
  ASSUME NEW kind, NEW e, NEW d, NEW d2, d \subseteq d2, EntryTrue(kind, e, d)
  PROVE  EntryTrue(kind, e, d2)
  BY DEF EntryTrue

LEMMA NothingAnswered ==
  ASSUME FoldersKept, edits \in Nat, answer = X!None, search # X!None => SearchKept(search, during, edits)
  PROVE  CatalogInv
  BY Zenon DEF CatalogInv, X!CatalogAnswersTrue, X!CatalogComplete, X!CatalogTrue

LEMMA CatalogInitInv == X!CatalogInit => CatalogInv
<1> SUFFICES ASSUME X!CatalogInit PROVE CatalogInv
  OBVIOUS
<1>1. FoldersKept /\ search = X!None /\ answer = X!None /\ edits = 0
  BY Zenon DEF X!CatalogInit, FoldersKept
<1>2. edits \in Nat
  BY <1>1
<1> QED
  BY Zenon, <1>1, <1>2, NothingAnswered

LEMMA EditedInv == CatalogInv /\ X!Edited /\ FoldersKept' => CatalogInv'
<1> SUFFICES ASSUME CatalogInv, X!Edited, FoldersKept' PROVE CatalogInv'
  OBVIOUS
<1>1. edits \in Nat /\ (search # X!None => SearchKept(search, during, edits))
  BY Zenon DEF CatalogInv
<1>2. answer' = X!None /\ search' = search
  BY Zenon DEF X!Edited
<1>3. search = X!None => edits' = 0
  BY Zenon DEF X!Edited
<1>4. search # X!None => edits' = edits + 1 /\ during' = during \union X!Present(folders', configs')
  BY Zenon DEF X!Edited
<1>5. edits' \in Nat
  BY <1>1, <1>3, <1>4
<1>6. ASSUME search # X!None PROVE SearchKept(search, during, edits)'
  <2>1. SearchKept(search, during, edits)
    BY <1>1, <1>6
  <2>2. Searching(search) /\ GotTrue(search.kind, search.got, during)
    BY <2>1 DEF SearchKept
  <2>3. PICK k : ReadUpto(search.kind, search.got, search.left, edits, k)
    BY <2>1 DEF SearchKept
  <2>4. during \subseteq during' /\ X!Present(folders', configs') \subseteq during'
    BY <1>4, <1>6
  <2>5. edits' # 0
    BY <1>1, <1>4, <1>6
  <2>6. search.got \in Seq(AllEntries) /\ \A i \in 1..Len(search.got) : EntryTrue(search.kind, search.got[i], during')
    BY <2>2, <2>4, EntryStays DEF GotTrue
  <2>7. GotTrue(search.kind, search.got, during)'
    BY <1>2, <2>6 DEF GotTrue
  <2>8. ReadUpto(search.kind, search.got, search.left, edits, k)'
    BY <1>2, <2>3, <2>5 DEF ReadUpto
  <2>9. Searching(search)'
    BY <1>2, <2>2
  <2> QED
    BY <2>4, <2>7, <2>8, <2>9 DEF SearchKept
<1>7. (search # X!None => SearchKept(search, during, edits))'
  BY <1>2, <1>6
<1> QED
  BY Zenon, <1>2, <1>5, <1>7 DEF CatalogInv, X!CatalogAnswersTrue, X!CatalogComplete, X!CatalogTrue

LEMMA EditFoldersInv == CatalogInv /\ X!EditFolders => CatalogInv'
<1> SUFFICES ASSUME CatalogInv, X!EditFolders PROVE CatalogInv'
  OBVIOUS
<1>1. FoldersKept
  BY Zenon DEF CatalogInv
<1>2. configs' = configs /\ X!Edited
  BY Zenon DEF X!EditFolders
<1>3. PICK r \in X!Range(Roots), skills \in Folders : folders' = [folders EXCEPT ![r] = skills]
  BY Zenon DEF X!EditFolders
<1>4. FoldersKept'
  BY <1>1, <1>2, <1>3 DEF FoldersKept
<1> QED
  BY <1>2, <1>4, EditedInv

LEMMA EditConfigInv == CatalogInv /\ X!EditConfig => CatalogInv'
<1> SUFFICES ASSUME CatalogInv, X!EditConfig PROVE CatalogInv'
  OBVIOUS
<1>1. FoldersKept
  BY Zenon DEF CatalogInv
<1>2. folders' = folders /\ X!Edited
  BY Zenon DEF X!EditConfig
<1>3. PICK c \in X!Range(Configs), children \in Servers : configs' = [configs EXCEPT ![c] = children]
  BY Zenon DEF X!EditConfig
<1>4. FoldersKept'
  BY <1>1, <1>2, <1>3 DEF FoldersKept
<1> QED
  BY <1>2, <1>4, EditedInv

LEMMA BeginInv == ASSUME NEW ask, CatalogInv, X!Begin(ask) PROVE CatalogInv'
<1>1. FoldersKept
  BY Zenon DEF CatalogInv
<1>2. /\ folders' = folders /\ configs' = configs /\ answer' = X!None /\ edits' = 0
      /\ during' = X!Present(folders, configs)
      /\ search' = [kind |-> ask.kind, ask |-> ask, got |-> <<>>, left |-> PlacesOf(ask.kind)]
  BY Zenon DEF X!Begin, PlacesOf
<1>3. Searching(search') /\ search'.kind = ask.kind /\ search'.got = <<>> /\ search'.left = PlacesOf(ask.kind)
  BY <1>2 DEF Searching
<1>4. FoldersKept'
  BY <1>1, <1>2 DEF FoldersKept
<1>5. X!Present(folders', configs') \subseteq during'
  BY <1>2
<1>6. GotTrue(search.kind, search.got, during)'
  BY <1>3 DEF GotTrue
<1>7. PlacesOf(ask.kind) = SubSeq(PlacesOf(ask.kind), 0 + 1, Len(PlacesOf(ask.kind))) /\ 0 \in 0..Len(PlacesOf(ask.kind))
  BY PlacesAre
<1>8. AllRead(search.kind, search.got, 0)'
  BY <1>3 DEF AllRead
<1>9. ReadUpto(search.kind, search.got, search.left, edits, 0)'
  BY <1>3, <1>7, <1>8 DEF ReadUpto
<1>10. SearchKept(search, during, edits)'
  BY <1>3, <1>5, <1>6, <1>9 DEF SearchKept
<1>11. edits' \in Nat
  BY <1>2
<1> QED
  BY Zenon, <1>2, <1>4, <1>10, <1>11 DEF CatalogInv, X!CatalogAnswersTrue, X!CatalogComplete, X!CatalogTrue

(* What is left of a sequence after its next element.                      *)
LEMMA NextOfSuffix ==
  ASSUME NEW T0, NEW s \in Seq(T0), NEW k \in 0..Len(s), SubSeq(s, k + 1, Len(s)) # << >>
  PROVE  /\ k < Len(s) /\ Head(SubSeq(s, k + 1, Len(s))) = s[k + 1]
         /\ Tail(SubSeq(s, k + 1, Len(s))) = SubSeq(s, (k + 1) + 1, Len(s))
<1> DEFINE n == Len(s)
           r == SubSeq(s, k + 1, n)
<1>1. n \in Nat /\ k \in Nat /\ k <= n
  OBVIOUS
<1>2. k + 1 \in 1..(n + 1) /\ n \in 0..n
  BY <1>1
<1>3. /\ r \in Seq(T0) /\ Len(r) = IF k + 1 <= n THEN n - (k + 1) + 1 ELSE 0
      /\ \A i \in 1..(n - (k + 1) + 1) : r[i] = s[(k + 1) + i - 1]
  BY <1>2, SubSeqProperties
<1> HIDE DEF n, r
<1>4. r # << >>
  BY DEF r, n
<1>5. k < n
  <2>1. Len(r) # 0
    BY <1>3, <1>4
  <2> QED
    BY <1>1, <1>3, <2>1
<1>6. Len(r) = n - k /\ 1 \in 1..(n - (k + 1) + 1)
  BY <1>1, <1>3, <1>5
<1>7. Head(r) = s[k + 1]
  <2>1. Head(r) = r[1]
    BY <1>3
  <2>2. (k + 1) + 1 - 1 = k + 1
    BY <1>1
  <2> QED
    BY <1>3, <1>6, <2>1, <2>2
<1>8. Tail(r) = SubSeq(s, (k + 1) + 1, n)
  BY <1>1, <1>5, SMTT(30) DEF r, n
<1> QED
  BY <1>5, <1>7, <1>8 DEF r, n

SearchPut(x, order) == [x EXCEPT !.got = @ \o order, !.left = Tail(@)]
LEMMA SearchPutIs ==
  ASSUME NEW x, Searching(x), NEW order
  PROVE  /\ Searching(SearchPut(x, order)) /\ SearchPut(x, order).kind = x.kind
         /\ SearchPut(x, order).got = x.got \o order /\ SearchPut(x, order).left = Tail(x.left)
<1> DEFINE g == x.got \o order
           rest == Tail(x.left)
           x1 == [x EXCEPT !.got = g]
           x2 == [x1 EXCEPT !.left = rest]
<1>1. SearchPut(x, order) = x2
  BY DEF SearchPut
<1>2. g = x.got \o order /\ rest = Tail(x.left)
  OBVIOUS
<1> HIDE DEF x1, x2, g, rest
<1>3. x1 = [kind |-> x.kind, ask |-> x.ask, got |-> g, left |-> x.left]
  BY DEF Searching, x1
<1>4. x2 = [kind |-> x.kind, ask |-> x.ask, got |-> g, left |-> rest]
  BY <1>3 DEF x2
<1>5. Searching(x2) /\ x2.kind = x.kind /\ x2.got = g /\ x2.left = rest
  BY <1>4 DEF Searching
<1> QED
  BY <1>1, <1>2, <1>5

LEMMA FoundSame == UNCHANGED <<folders, configs>> => \A place : X!Found(place)' = X!Found(place)
  BY Zenon DEF X!Found, X!SkillsOf, X!SkillFiles, X!ServersOf

LEMMA ReadPlaceInv == CatalogInv /\ X!ReadPlace => CatalogInv'
<1> SUFFICES ASSUME CatalogInv, X!ReadPlace PROVE CatalogInv'
  OBVIOUS
<1>1. search # X!None /\ search.left # <<>>
  BY Zenon DEF X!ReadPlace
<1>2. FoldersKept /\ edits \in Nat /\ SearchKept(search, during, edits) /\ answer = X!None
  BY Zenon, <1>1 DEF CatalogInv
<1>3. PICK order \in X!Orders(X!Found(Head(search.left))) : search' = SearchPut(search, order)
  BY Zenon DEF X!ReadPlace, SearchPut
<1>4. folders' = folders /\ configs' = configs /\ answer' = answer /\ during' = during /\ edits' = edits
  BY Zenon DEF X!ReadPlace
<1> DEFINE kind == search.kind
           got == search.got
           left == search.left
           P0 == PlacesOf(kind)
           n == Len(P0)
<1>5. Searching(search) /\ got \in Seq(AllEntries) /\ (\A i \in 1..Len(got) : EntryTrue(kind, got[i], during))
      /\ X!Present(folders, configs) \subseteq during
  BY <1>2 DEF SearchKept, GotTrue
<1>6. PICK k : k \in 0..n /\ left = SubSeq(P0, k + 1, n) /\ (edits = 0 => AllRead(kind, got, k))
  BY <1>2 DEF SearchKept, ReadUpto
<1>7. Searching(search') /\ search'.kind = kind /\ search'.got = got \o order /\ search'.left = Tail(left)
  BY <1>3, <1>5, SearchPutIs
<1>8. P0 \in Seq(Names) /\ n \in Nat
  BY PlacesAre
<1> HIDE DEF kind, got, left, P0
<1>9. k < n /\ k + 1 \in 1..n /\ k + 1 \in 0..n /\ Head(left) = P0[k + 1] /\ Tail(left) = SubSeq(P0, (k + 1) + 1, n)
  <2>1. SubSeq(P0, k + 1, n) # <<>>
    BY <1>1, <1>6 DEF left
  <2>2. k < n /\ Head(left) = P0[k + 1] /\ Tail(left) = SubSeq(P0, (k + 1) + 1, n)
    BY <1>6, <1>8, <2>1, NextOfSuffix
  <2> QED
    BY <1>6, <1>8, <2>2
<1>10. X!Found(Head(left)) = FoundIn(kind, k + 1)
  BY <1>9 DEF FoundIn, P0
<1>11. order \in X!Orders(FoundIn(kind, k + 1))
  BY <1>3, <1>10 DEF left
<1>12. /\ IsFiniteSet(FoundIn(kind, k + 1))
       /\ \A e \in FoundIn(kind, k + 1) : e \in AllEntries /\ EntryTrue(kind, e, during)
  BY <1>2, <1>5, <1>9, FoundTrue DEF P0
<1>13. order \in Seq(FoundIn(kind, k + 1))
  BY <1>11, <1>12, OrderHas
<1>14. order \in Seq(AllEntries) /\ \A i \in 1..Len(order) : EntryTrue(kind, order[i], during)
  BY <1>12, <1>13
<1>15. got \o order \in Seq(AllEntries) /\ \A i \in 1..Len(got \o order) : EntryTrue(kind, (got \o order)[i], during)
  <2>1. /\ Len(got \o order) = Len(got) + Len(order) /\ got \o order \in Seq(AllEntries)
        /\ \A i \in 1..(Len(got) + Len(order)) : (got \o order)[i] = IF i <= Len(got) THEN got[i] ELSE order[i - Len(got)]
    BY <1>5, <1>14, ConcatProperties
  <2>2. Len(got) \in Nat /\ Len(order) \in Nat
    BY <1>5, <1>14
  <2> DEFINE g == Len(got)
             h == Len(order)
             all == got \o order
  <2> HIDE DEF g, h, all
  <2>3. ASSUME NEW i \in 1..(g + h) PROVE EntryTrue(kind, all[i], during)
    <3>1. CASE i <= g
      <4>1. i \in 1..g
        BY <2>2, <3>1 DEF g
      <4>2. all[i] = got[i]
        BY <2>1, <3>1 DEF all, g, h
      <4> QED
        BY <1>5, <4>1, <4>2 DEF g, got, kind
    <3>2. CASE ~(i <= g)
      <4>1. i - g \in 1..h
        BY <2>2, <3>2 DEF g, h
      <4>2. all[i] = order[i - g]
        BY <2>1, <3>2 DEF all, g, h
      <4> QED
        BY <1>14, <4>1, <4>2 DEF h
    <3> QED
      BY <3>1, <3>2
  <2> QED
    BY <2>1, <2>3 DEF g, h, all
<1>16. edits = 0 => AllRead(kind, got \o order, k + 1)
  <2>1. k \in 0..Len(PlacesOf(kind)) /\ k < Len(PlacesOf(kind)) /\ got \in Seq(AllEntries)
    BY <1>5, <1>6, <1>9 DEF P0, got
  <2> QED
    BY <1>2, <1>6, <1>11, <2>1, ReadOneMore
<1>17. \A place : X!Found(place)' = X!Found(place)
  BY Zenon, <1>4, FoundSame
<1>18. edits' = 0 => AllRead(search.kind, search.got, k + 1)'
  <2>1. \A c, m : FoundIn(c, m)' = FoundIn(c, m)
    BY Zenon, <1>17 DEF FoundIn
  <2> DEFINE more == got \o order
  <2> HIDE DEF more
  <2>2. edits' = 0 => AllRead(kind, more, k + 1)
    BY <1>4, <1>16 DEF more
  <2>3. search'.kind = kind /\ search'.got = more
    BY <1>7 DEF more, kind
  <2> QED
    BY <2>1, <2>2, <2>3 DEF AllRead
<1>19. ReadUpto(search.kind, search.got, search.left, edits, k + 1)'
  <2>1. search'.kind = kind /\ search'.left = SubSeq(P0, (k + 1) + 1, n) /\ k + 1 \in 0..n
    BY <1>7, <1>9 DEF kind, left
  <2> QED
    BY <1>18, <2>1 DEF ReadUpto, P0
<1>20. GotTrue(search.kind, search.got, during)'
  BY <1>4, <1>7, <1>15 DEF GotTrue, kind, got
<1>21. X!Present(folders', configs') \subseteq during'
  BY <1>4, <1>5
<1>22. SearchKept(search, during, edits)'
  BY <1>7, <1>19, <1>20, <1>21 DEF SearchKept
<1>23. FoldersKept' /\ edits' \in Nat /\ answer' = X!None
  BY <1>2, <1>4 DEF FoldersKept
<1> QED
  BY Zenon, <1>22, <1>23 DEF CatalogInv, X!CatalogAnswersTrue, X!CatalogComplete, X!CatalogTrue

LEMMA SkillFileIs ==
  ASSUME NEW skill, NEW words, X!SkillFile(skill, words).code = "OK"
  PROVE  X!SkillFile(skill, words).root = skill.root /\ X!IsPrefix(skill.path, X!SkillFile(skill, words).at)
<1> DEFINE at == X!Below(skill.path, words)
           got == X!SkillFile(skill, words)
<1>1. got = IF ~X!IsPrefix(skill.path, at) THEN [code |-> "PATH_OUTSIDE_WORKSPACE"]
            ELSE IF \A f \in folders[skill.root] : f.path # skill.path THEN [code |-> "FILE_NOT_FOUND"]
            ELSE [code |-> "OK", root |-> skill.root, at |-> at]
  BY Zenon DEF X!SkillFile
<1> HIDE DEF at, got
<1>2. got.code = "OK"
  BY DEF got
<1>3. X!IsPrefix(skill.path, at) /\ got = [code |-> "OK", root |-> skill.root, at |-> at]
  BY <1>1, <1>2
<1> QED
  BY <1>3 DEF got

(* What is read of a skill.                                                *)
ReadOf(kind, list, ask) ==
    LET hit == {e \in list : e.id = ask.id}
    IN  IF kind # "read" THEN X!None
        ELSE IF hit = {} THEN [code |-> "FILE_NOT_FOUND"]
        ELSE X!SkillFile(CHOOSE e \in hit : TRUE, ask.words)
LEMMA ReadInside ==
  ASSUME NEW list, NEW ask, ReadOf("read", list, ask).code = "OK"
  PROVE  \E e \in list : /\ e.id = ask.id /\ e.root = ReadOf("read", list, ask).root
                         /\ X!IsPrefix(e.path, ReadOf("read", list, ask).at)
<1> DEFINE hit == {e \in list : e.id = ask.id}
           skill == CHOOSE e \in hit : TRUE
<1>1. ReadOf("read", list, ask) = IF hit = {} THEN [code |-> "FILE_NOT_FOUND"] ELSE X!SkillFile(skill, ask.words)
  BY Zenon DEF ReadOf
<1>2. hit # {}
  <2> SUFFICES ASSUME hit = {} PROVE FALSE
    OBVIOUS
  <2>1. ReadOf("read", list, ask) = [code |-> "FILE_NOT_FOUND"]
    BY <1>1
  <2> HIDE DEF hit
  <2> QED
    BY <2>1
<1>3. skill \in hit
  BY <1>2
<1>4. skill \in list /\ skill.id = ask.id
  BY <1>3
<1>5. ReadOf("read", list, ask) = X!SkillFile(skill, ask.words)
  BY <1>1, <1>2
<1> HIDE DEF skill, hit
<1>6. X!SkillFile(skill, ask.words).code = "OK"
  BY <1>5
<1> QED
  BY <1>4, <1>5, <1>6, SkillFileIs

LEMMA CountsSame ==
  UNCHANGED <<folders, configs>> => \A kind, e : X!Counts(kind, e)' = X!Counts(kind, e) /\ X!Entries(kind)' = X!Entries(kind)
<1> SUFFICES ASSUME UNCHANGED <<folders, configs>>
             PROVE  \A kind, e : X!Counts(kind, e)' = X!Counts(kind, e) /\ X!Entries(kind)' = X!Entries(kind)
  OBVIOUS
<1>1. \A place : X!Found(place)' = X!Found(place)
  BY Zenon, FoundSame
<1>2. \A kind : X!Entries(kind)' = X!Entries(kind)
  BY Zenon, <1>1 DEF X!Entries
<1>3. \A kind, e : X!Counts(kind, e)' = X!Counts(kind, e)
  BY <1>2 DEF X!Counts
<1> QED
  BY <1>2, <1>3

LEMMA AnswerSearchInv == CatalogInv /\ X!AnswerSearch => CatalogInv'
<1> SUFFICES ASSUME CatalogInv, X!AnswerSearch PROVE CatalogInv'
  OBVIOUS
<1>1. search # X!None /\ search.left = <<>>
  BY Zenon DEF X!AnswerSearch
<1>2. FoldersKept /\ edits \in Nat /\ SearchKept(search, during, edits)
  BY Zenon, <1>1 DEF CatalogInv
<1> DEFINE kind == search.kind
           got == search.got
           list == X!Deduped(kind, got)
           places == PlacesOf(kind)
<1>3. answer' = [kind |-> kind, list |-> list, ask |-> search.ask, read |-> ReadOf(kind, list, search.ask)]
  BY Zenon DEF X!AnswerSearch, ReadOf
<1>4. search' = X!None /\ folders' = folders /\ configs' = configs /\ during' = during /\ edits' = edits
  BY Zenon DEF X!AnswerSearch
<1>5. GotTrue(kind, got, during) /\ got \in Seq(AllEntries)
  BY <1>2 DEF SearchKept, GotTrue
<1>6. PICK k : ReadUpto(kind, got, search.left, edits, k)
  BY <1>2 DEF SearchKept
<1>7. k = Len(places)
  <2>1. k \in 0..Len(places) /\ SubSeq(places, k + 1, Len(places)) = <<>> /\ places \in Seq(Names)
    BY <1>1, <1>6, PlacesAre DEF ReadUpto
  <2> HIDE DEF places
  <2>2. CASE k < Len(places)
    <3>1. k + 1 \in 1..(Len(places) + 1) /\ Len(places) \in 0..Len(places) /\ Len(places) \in Nat
      BY <2>1, <2>2
    <3>2. Len(SubSeq(places, k + 1, Len(places))) = IF k + 1 <= Len(places) THEN Len(places) - (k + 1) + 1 ELSE 0
      BY <2>1, <3>1, SubSeqProperties
    <3>3. Len(<<>>) = 0
      OBVIOUS
    <3> HIDE <2>1
    <3>4. Len(SubSeq(places, k + 1, Len(places))) = 0 /\ k \in Nat
      BY <2>1, <3>3
    <3> QED
      BY <2>2, <3>1, <3>2, <3>4
  <2> QED
    BY <2>1, <2>2
<1>8. edits = 0 => AllRead(kind, got, Len(places))
  BY <1>6, <1>7 DEF ReadUpto
<1>9. (\A e, f \in list : e.id = f.id => e = f) /\ (\A e \in list : EntryTrue(kind, e, during))
  BY <1>5, ListTrue
<1>10. edits = 0 => /\ \A e \in list : X!Counts(kind, e)
                    /\ kind # "mcp" => \A e \in list : \A f \in folders[e.root] : ~X!IsStrictPrefix(f.path, e.path)
                    /\ {e.id : e \in list} = {e.id : e \in X!Entries(kind)}
  <2> SUFFICES ASSUME edits = 0
               PROVE  /\ \A e \in list : X!Counts(kind, e)
                      /\ kind # "mcp" => \A e \in list : \A f \in folders[e.root] : ~X!IsStrictPrefix(f.path, e.path)
                      /\ {e.id : e \in list} = {e.id : e \in X!Entries(kind)}
    OBVIOUS
  <2>1. AllRead(kind, got, Len(PlacesOf(kind)))
    BY <1>8
  <2> QED
    BY <1>2, <1>5, <2>1, ListComplete
<1> HIDE DEF kind, got, list, places
<1>15. (kind = "read" /\ ReadOf(kind, list, search.ask).code = "OK") =>
           \E e \in list : /\ e.id = search.ask.id /\ e.root = ReadOf(kind, list, search.ask).root
                           /\ X!IsPrefix(e.path, ReadOf(kind, list, search.ask).at)
  BY ReadInside
<1> DEFINE read == ReadOf(kind, list, search.ask)
<1> HIDE DEF read
<1>11. answer'.kind = kind /\ answer'.list = list /\ answer'.ask = search.ask /\ answer'.read = read
  BY <1>3 DEF read
<1>12. X!CatalogComplete'
  <2>1. \A c, e : X!Counts(c, e)' = X!Counts(c, e) /\ X!Entries(c)' = X!Entries(c)
    BY Zenon, <1>4, CountsSame
  <2>2. edits' = 0 => \A e \in answer'.list : X!Counts(answer.kind, e)'
    BY <1>4, <1>10, <1>11, <2>1
  <2>3. edits' = 0 /\ answer'.kind # "mcp" =>
                        \A e \in answer'.list : \A f \in folders'[e.root] : ~X!IsStrictPrefix(f.path, e.path)
    BY <1>4, <1>10, <1>11
  <2>4. edits' = 0 => {e.id : e \in answer'.list} = {e.id : e \in X!Entries(answer.kind)'}
    BY <1>4, <1>10, <1>11, <2>1
  <2> QED
    BY Zenon, <2>2, <2>3, <2>4 DEF X!CatalogComplete
<1>13. X!CatalogTrue'
  <2>1. answer'.kind = "mcp" => \A e \in answer'.list :
              /\ \E s \in during' : "own" \in DOMAIN s /\ s.name = e.id /\ s.own = e.excluded
              /\ e.enabled => ~e.excluded /\ X!IsServerEnabled(e.id)
    BY <1>4, <1>9, <1>11 DEF EntryTrue
  <2>2. answer'.kind # "mcp" => \A e \in answer'.list :
              \E f \in during' : "path" \in DOMAIN f /\ f.path = e.path /\ Len(f.path) <= 3
    BY <1>4, <1>9, <1>11 DEF EntryTrue
  <2>3. (answer'.kind = "read" /\ answer'.read.code = "OK") =>
              \E e \in answer'.list : /\ e.id = answer'.ask.id /\ e.root = answer'.read.root
                                      /\ X!IsPrefix(e.path, answer'.read.at)
    BY <1>11, <1>15 DEF read
  <2>4. \A d, e \in answer'.list : d.id = e.id => d = e
    BY <1>9, <1>11
  <2> QED
    BY Zenon, <2>1, <2>2, <2>3, <2>4 DEF X!CatalogTrue
<1>14. FoldersKept' /\ edits' \in Nat
  BY <1>2, <1>4 DEF FoldersKept
<1> QED
  BY Zenon, <1>4, <1>12, <1>13, <1>14 DEF CatalogInv, X!CatalogAnswersTrue

LEMMA CatalogStepInv == CatalogInv /\ X!CatalogNext => CatalogInv'
<1> SUFFICES ASSUME CatalogInv, X!CatalogNext PROVE CatalogInv'
  OBVIOUS
<1>1. CASE X!EditFolders
  BY <1>1, EditFoldersInv
<1>2. CASE X!EditConfig
  BY <1>2, EditConfigInv
<1>3. CASE X!ReadPlace
  BY <1>3, ReadPlaceInv
<1>4. CASE X!AnswerSearch
  BY <1>4, AnswerSearchInv
<1>5. CASE \E ask \in Asks : X!Begin(ask)
  BY <1>5, BeginInv
<1> QED
  BY Zenon, <1>1, <1>2, <1>3, <1>4, <1>5 DEF X!CatalogNext

LEMMA CatalogInvStutter == CatalogInv /\ UNCHANGED catalogVars => CatalogInv'
<1> SUFFICES ASSUME CatalogInv, UNCHANGED catalogVars PROVE CatalogInv'
  OBVIOUS
<1>1. /\ folders' = folders /\ configs' = configs /\ search' = search
      /\ answer' = answer /\ during' = during /\ edits' = edits
  BY DEF catalogVars
<1>2. FoldersKept'
  BY <1>1 DEF CatalogInv, FoldersKept
<1>3. edits' \in Nat
  BY <1>1 DEF CatalogInv
<1>4. \A place : X!Found(place)' = X!Found(place)
  BY Zenon, <1>1, FoundSame
<1>5. \A kind, e : X!Counts(kind, e)' = X!Counts(kind, e) /\ X!Entries(kind)' = X!Entries(kind)
  BY Zenon, <1>1, CountsSame
<1>6. ASSUME search # X!None PROVE SearchKept(search, during, edits)'
  <2>1. SearchKept(search, during, edits)
    BY <1>6 DEF CatalogInv
  <2>2. PICK k : ReadUpto(search.kind, search.got, search.left, edits, k)
    BY <2>1 DEF SearchKept
  <2>3. AllRead(search.kind, search.got, k)' <=> AllRead(search.kind, search.got, k)
    <3>1. \A c, m : FoundIn(c, m)' = FoundIn(c, m)
      BY Zenon, <1>4 DEF FoundIn
    <3> QED
      BY <1>1, <3>1 DEF AllRead
  <2>4. ReadUpto(search.kind, search.got, search.left, edits, k)'
    BY <1>1, <2>2, <2>3 DEF ReadUpto
  <2>5. Searching(search)' /\ GotTrue(search.kind, search.got, during)' /\ X!Present(folders', configs') \subseteq during'
    BY <1>1, <2>1 DEF SearchKept, GotTrue
  <2> QED
    BY <2>4, <2>5 DEF SearchKept
<1>7. (search # X!None => SearchKept(search, during, edits) /\ answer = X!None)'
  BY <1>1, <1>6 DEF CatalogInv
<1>8. X!CatalogComplete /\ X!CatalogTrue
  BY Zenon DEF CatalogInv, X!CatalogAnswersTrue
<1>9. X!CatalogComplete'
  BY <1>1, <1>5, <1>8 DEF X!CatalogComplete
<1>10. X!CatalogTrue'
  BY Zenon, <1>1, <1>8 DEF X!CatalogTrue
<1> QED
  BY Zenon, <1>2, <1>3, <1>7, <1>9, <1>10 DEF CatalogInv, X!CatalogAnswersTrue

LEMMA CatalogInvGives == CatalogInv => X!CatalogAnswersTrue
  BY DEF CatalogInv
=============================================================================

---------------------------- MODULE SequenceLemmas ----------------------------
(***************************************************************************)
(* Facts about sequences that the proofs of several components need.  The  *)
(* provers cannot use an induction theorem that takes a predicate; a set   *)
(* of naturals in the place of the predicate does as well.                 *)
(***************************************************************************)
EXTENDS Selections, WellFoundedInduction, SequenceTheorems, TLAPS

(* Every set of naturals that is not empty has a least element.            *)
LEMMA LeastNat ==
    ASSUME NEW T \in SUBSET Nat, T # {}
    PROVE  \E x \in T : \A y \in T : x <= y
<1> DEFINE R == OpToRel(<, Nat)
<1>1. IsWellFoundedOn(R, Nat)
  BY NatLessThanWellFounded
<1>2. \A x, y \in Nat : y < x => <<y, x>> \in R
  BY Zenon DEF OpToRel
<1> HIDE DEF R
<1>3. PICK x \in T : \A y \in T : <<y, x>> \notin R
  BY <1>1, WFMin
<1>4. ASSUME NEW y \in T PROVE x <= y
  <2>1. ~(y < x)
    BY <1>2, <1>3
  <2> QED
    BY <2>1
<1> QED
  BY <1>4

(* Induction, over a set.                                                  *)
LEMMA NatSetInduction ==
  ASSUME NEW S, 0 \in S, \A n \in Nat : n \in S => n + 1 \in S
  PROVE  Nat \subseteq S
<1> SUFFICES ASSUME Nat \ S # {} PROVE FALSE
  OBVIOUS
<1>1. PICK x \in Nat \ S : \A y \in Nat \ S : x <= y
  BY LeastNat
<1>2. x # 0 /\ x - 1 \in Nat
  BY <1>1
<1>3. x - 1 \in S
  BY <1>1, <1>2
<1> QED
  BY <1>1, <1>2, <1>3

-----------------------------------------------------------------------------
(* f holds what is selected of every prefix of s up to n.                  *)
Filters(f, n, s, S) ==
    f = [i \in 0..n |-> IF i = 0 THEN << >>
                        ELSE IF s[i] \in S THEN Append(f[i - 1], s[i]) ELSE f[i - 1]]

LEMMA FiltersExist ==
    ASSUME NEW s, NEW S
    PROVE  \A n \in Nat : \E f : Filters(f, n, s, S)
<1> DEFINE G == {n \in Nat : \E f : Filters(f, n, s, S)}
<1>1. 0 \in G
  <2> DEFINE f == [i \in 0..0 |-> << >>]
  <2>1. Filters(f, 0, s, S)
    BY DEF Filters
  <2> QED
    BY <2>1
<1>2. ASSUME NEW n \in Nat, n \in G PROVE n + 1 \in G
  <2>1. PICK f : Filters(f, n, s, S)
    BY <1>2
  <2> DEFINE g == [i \in 0..(n + 1) |->
                     IF i <= n THEN f[i]
                     ELSE IF s[n + 1] \in S THEN Append(f[n], s[n + 1]) ELSE f[n]]
  <2>2. ASSUME NEW i \in 0..(n + 1)
        PROVE  g[i] = IF i = 0 THEN << >>
                      ELSE IF s[i] \in S THEN Append(g[i - 1], s[i]) ELSE g[i - 1]
    <3>1. CASE i <= n
      <4>1. i \in 0..n /\ g[i] = f[i] /\ (i # 0 => g[i - 1] = f[i - 1])
        BY <3>1
      <4> QED
        BY <2>1, <4>1 DEF Filters
    <3>2. CASE i = n + 1
      <4>1. g[i] = IF s[n + 1] \in S THEN Append(f[n], s[n + 1]) ELSE f[n]
        BY <3>2
      <4>2. g[i - 1] = f[n] /\ i # 0
        BY <3>2
      <4> HIDE DEF g
      <4> QED
        BY <3>2, <4>1, <4>2
    <3> QED
      BY <3>1, <3>2
  <2>3. Filters(g, n + 1, s, S)
    BY <2>2 DEF Filters
  <2> QED
    BY <2>3
<1> HIDE DEF G
<1>3. Nat \subseteq G
  BY <1>1, <1>2, NatSetInduction
<1> QED
  BY <1>3 DEF G

(* The recursion of Selected has a solution, and Selected is its last value.*)
LEMMA SelectedIs ==
    ASSUME NEW s, Len(s) \in Nat, NEW S
    PROVE  \E f : Filters(f, Len(s), s, S) /\ Selected(s, S) = f[Len(s)]
<1>1. PICK g : Filters(g, Len(s), s, S)
  BY FiltersExist
<1>2. Filters(CHOOSE f : Filters(f, Len(s), s, S), Len(s), s, S)
  BY <1>1
<1>3. Selected(s, S) = (CHOOSE f : Filters(f, Len(s), s, S))[Len(s)]
  BY Zenon DEF Selected, Filters
<1> QED
  BY <1>2, <1>3

(* e places every element of r in s: all the members of S, in their order. *)
Order(e, s, r, S) ==
  /\ e \in [1..Len(r) -> 1..Len(s)]
  /\ \A k \in 1..Len(r) : r[k] = s[e[k]] /\ s[e[k]] \in S
  /\ \A j, k \in 1..Len(r) : j < k => e[j] < e[k]
  /\ \A i \in 1..Len(s) : s[i] \in S => \E k \in 1..Len(r) : e[k] = i

(* Selected keeps the members of S, and their order.                       *)
LEMMA SelectedOrder ==
  ASSUME NEW T, NEW s \in Seq(T), NEW S
  PROVE  Selected(s, S) \in Seq(T) /\ \E e : Order(e, s, Selected(s, S), S)
<1>1. PICK f : Filters(f, Len(s), s, S) /\ Selected(s, S) = f[Len(s)]
  BY SelectedIs
<1> DEFINE Upto(e, i) ==
             /\ f[i] \in Seq(T)
             /\ e \in [1..Len(f[i]) -> 1..i]
             /\ \A k \in 1..Len(f[i]) : f[i][k] = s[e[k]] /\ s[e[k]] \in S
             /\ \A j, k \in 1..Len(f[i]) : j < k => e[j] < e[k]
             /\ \A m \in 1..i : s[m] \in S => \E k \in 1..Len(f[i]) : e[k] = m
           G == {i \in Nat : i <= Len(s) => \E e : Upto(e, i)}
<1>2. 0 \in G
  <2>1. f[0] = << >>
    BY <1>1 DEF Filters
  <2>2. Upto(<< >>, 0)
    BY <2>1
  <2> QED
    BY <2>2
<1>3. ASSUME NEW i \in Nat, i \in G PROVE i + 1 \in G
  <2> SUFFICES ASSUME i + 1 <= Len(s) PROVE \E e : Upto(e, i + 1)
    OBVIOUS
  <2>0. Len(s) \in Nat /\ i <= Len(s)
    OBVIOUS
  <2>1. PICK e : Upto(e, i)
    BY <1>3, <2>0
  <2>2. f[i + 1] = IF s[i + 1] \in S THEN Append(f[i], s[i + 1]) ELSE f[i]
    <3>1. i + 1 \in 0..Len(s) /\ i + 1 # 0 /\ (i + 1) - 1 = i
      BY <2>0
    <3>2. f[i + 1] = IF i + 1 = 0 THEN << >>
                     ELSE IF s[i + 1] \in S THEN Append(f[(i + 1) - 1], s[i + 1]) ELSE f[(i + 1) - 1]
      BY <1>1, <3>1, Zenon DEF Filters
    <3> QED
      BY <3>1, <3>2
  <2>3. CASE s[i + 1] \notin S
    <3>1. f[i + 1] = f[i]
      BY <2>2, <2>3
    <3>2. Upto(e, i + 1)
      BY <2>1, <2>3, <3>1
    <3> QED
      BY <3>2
  <2>4. CASE s[i + 1] \in S
    <3> DEFINE n == Len(f[i])
               d == [k \in 1..(n + 1) |-> IF k = n + 1 THEN i + 1 ELSE e[k]]
    <3>1. /\ f[i + 1] \in Seq(T) /\ Len(f[i + 1]) = n + 1 /\ n \in Nat
          /\ f[i + 1][n + 1] = s[i + 1] /\ \A k \in 1..n : f[i + 1][k] = f[i][k]
      BY <2>1, <2>2, <2>4
    <3>e. /\ e \in [1..n -> 1..i]
          /\ \A k \in 1..n : f[i][k] = s[e[k]] /\ s[e[k]] \in S
          /\ \A j, k \in 1..n : j < k => e[j] < e[k]
          /\ \A m \in 1..i : s[m] \in S => \E k \in 1..n : e[k] = m
      BY <2>1
    <3> HIDE DEF n
    <3>2. /\ d \in [1..(n + 1) -> 1..(i + 1)] /\ d[n + 1] = i + 1
          /\ \A k \in 1..n : d[k] = e[k] /\ d[k] \in 1..i
      BY <3>1, <3>e
    <3> HIDE DEF d
    <3>4. \A k \in 1..(n + 1) : f[i + 1][k] = s[d[k]] /\ s[d[k]] \in S
      <4> SUFFICES ASSUME NEW k \in 1..(n + 1) PROVE f[i + 1][k] = s[d[k]] /\ s[d[k]] \in S
        OBVIOUS
      <4>1. CASE k = n + 1
        BY <2>4, <3>1, <3>2, <4>1
      <4>2. CASE k \in 1..n
        BY <3>1, <3>2, <3>e, <4>2
      <4> QED
        BY <3>1, <4>1, <4>2
    <3>n. n \in Nat
      BY <3>1
    <3>5. ASSUME NEW j \in 1..(n + 1), NEW k \in 1..(n + 1), j < k PROVE d[j] < d[k]
      <4>1. j \in 1..n
        BY <3>n, <3>5
      <4>2. CASE k = n + 1
        BY <3>2, <4>1, <4>2
      <4>3. CASE k \in 1..n
        <5>1. e[j] < e[k]
          BY <3>5, <3>e, <4>1, <4>3
        <5> QED
          BY <3>2, <4>1, <4>3, <5>1
      <4> QED
        BY <3>n, <4>2, <4>3
    <3>6. ASSUME NEW m \in 1..(i + 1), s[m] \in S PROVE \E k \in 1..(n + 1) : d[k] = m
      <4>1. CASE m = i + 1
        BY <3>n, <3>2, <4>1
      <4>2. CASE m \in 1..i
        <5>1. PICK k \in 1..n : e[k] = m
          BY <3>6, <3>e, <4>2
        <5> QED
          BY <3>n, <3>2, <5>1
      <4> QED
        BY <4>1, <4>2
    <3>3. Upto(d, i + 1)
      BY <3>1, <3>2, <3>4, <3>5, <3>6
    <3> QED
      BY <3>3
  <2> QED
    BY <2>3, <2>4
<1> HIDE DEF G, Upto
<1>4. Len(s) \in G
  BY <1>2, <1>3, NatSetInduction
<1>5. PICK e : Upto(e, Len(s))
  BY <1>4 DEF G
<1> QED
  BY <1>1, <1>5 DEF Order, Upto

(* A sequence of two or more has a tail that is not empty.                 *)
LEMMA TailProper ==
  ASSUME NEW S, NEW s \in Seq(S), s # << >>, Len(s) # 1
  PROVE  Tail(s) \in Seq(S) /\ Tail(s) # << >>
<1>1. Tail(s) \in Seq(S) /\ Len(Tail(s)) = Len(s) - 1
  BY HeadTailProperties
<1>2. Len(s) \in Nat /\ Len(s) # 0
  BY EmptySeq
<1>3. Len(Tail(s)) # 0
  BY <1>1, <1>2
<1> QED
  BY <1>1, <1>3, EmptySeq

(* A recursion along a sequence of length N has a solution.                *)
Recurses(f, A, base, N, step) ==
  f \in [0..N -> A] /\ f[0] = base /\ \A i \in 1..N : f[i] = step[<<f[i - 1], i>>]

LEMMA RecursionExists ==
  ASSUME NEW A, NEW base \in A, NEW N \in Nat, NEW step \in [A \X (1..N) -> A]
  PROVE  \E f : Recurses(f, A, base, N, step)
<1> DEFINE Upto(f, n) == f \in [0..n -> A] /\ f[0] = base /\ \A i \in 1..n : f[i] = step[<<f[i - 1], i>>]
           G == {n \in Nat : n <= N => \E f : Upto(f, n)}
<1>1. 0 \in G
  <2>1. Upto([i \in 0..0 |-> base], 0)
    OBVIOUS
  <2> QED
    BY <2>1
<1>2. ASSUME NEW n \in Nat, n \in G PROVE n + 1 \in G
  <2> SUFFICES ASSUME n + 1 <= N PROVE \E f : Upto(f, n + 1)
    OBVIOUS
  <2>1. PICK f : Upto(f, n)
    BY <1>2
  <2> DEFINE g == [i \in 0..(n + 1) |-> IF i = n + 1 THEN step[<<f[n], n + 1>>] ELSE f[i]]
  <2>2. f[n] \in A /\ n + 1 \in 1..N
    BY <2>1
  <2>3. g[n + 1] = step[<<f[n], n + 1>>] /\ \A i \in 0..n : g[i] = f[i]
    OBVIOUS
  <2>4. g \in [0..(n + 1) -> A]
    BY <2>1, <2>2
  <2> HIDE DEF g
  <2>5. ASSUME NEW i \in 1..(n + 1) PROVE g[i] = step[<<g[i - 1], i>>]
    <3>1. CASE i = n + 1
      BY <2>3, <3>1
    <3>2. CASE i # n + 1
      <4>1. i \in 1..n /\ i \in 0..n /\ i - 1 \in 0..n
        BY <3>2
      <4>2. f[i] = step[<<f[i - 1], i>>]
        BY <2>1, <4>1
      <4> QED
        BY <2>3, <4>1, <4>2
    <3> QED
      BY <3>1, <3>2
  <2>6. g[0] = base
    BY <2>1, <2>3
  <2>7. Upto(g, n + 1)
    BY <2>4, <2>5, <2>6
  <2> QED
    BY <2>7
<1> HIDE DEF G
<1>3. N \in G
  BY <1>1, <1>2, NatSetInduction
<1> QED
  BY <1>3 DEF G, Recurses

(* What every step of a recursion keeps holds all along.                   *)
LEMMA RecursionKeeps ==
  ASSUME NEW A, NEW N \in Nat, NEW f, f[0] \in A, \A i \in 1..N : f[i - 1] \in A => f[i] \in A
  PROVE  \A i \in 0..N : f[i] \in A
<1> DEFINE G == {n \in Nat : n <= N => f[n] \in A}
<1>1. 0 \in G
  OBVIOUS
<1>2. ASSUME NEW n \in Nat, n \in G PROVE n + 1 \in G
  <2>1. n + 1 <= N => n + 1 \in 1..N /\ (n + 1) - 1 = n
    OBVIOUS
  <2> QED
    BY <1>2, <2>1
<1> HIDE DEF G
<1>3. Nat \subseteq G
  BY <1>1, <1>2, NatSetInduction
<1> QED
  BY <1>3 DEF G

-----------------------------------------------------------------------------
Sums(f, s) == f = [i \in 0..Len(s) |-> IF i = 0 THEN 0 ELSE f[i - 1] + s[i]]

LEMMA SumsExist ==
  ASSUME NEW s \in Seq(Nat)
  PROVE  \E f \in [0..Len(s) -> Nat] : /\ Sums(f, s) /\ Total(s) = f[Len(s)]
                                       /\ f[0] = 0 /\ \A i \in 1..Len(s) : f[i] = f[i - 1] + s[i]
<1> DEFINE step == [x \in Nat \X (1..Len(s)) |-> x[1] + s[x[2]]]
<1>1. \A a \in Nat, i \in 1..Len(s) : step[<<a, i>>] = a + s[i] /\ step[<<a, i>>] \in Nat
  <2> SUFFICES ASSUME NEW a \in Nat, NEW i \in 1..Len(s)
               PROVE  step[<<a, i>>] = a + s[i] /\ step[<<a, i>>] \in Nat
    OBVIOUS
  <2>1. step[<<a, i>>] = a + s[i]
    OBVIOUS
  <2>2. s[i] \in Nat
    OBVIOUS
  <2> QED
    BY <2>1, <2>2
<1>n. Len(s) \in Nat /\ 0 \in Nat
  OBVIOUS
<1>s. step \in [Nat \X (1..Len(s)) -> Nat]
  OBVIOUS
<1> HIDE DEF step
<1>2. PICK g \in [0..Len(s) -> Nat] : g[0] = 0 /\ \A i \in 1..Len(s) : g[i] = step[<<g[i - 1], i>>]
  <2>1. \E g : Recurses(g, Nat, 0, Len(s), step)
    BY <1>s, <1>n, RecursionExists
  <2> QED
    BY <2>1 DEF Recurses
<1>3. \A i \in 0..Len(s) : g[i] = IF i = 0 THEN 0 ELSE g[i - 1] + s[i]
  <2> SUFFICES ASSUME NEW i \in 0..Len(s), i # 0 PROVE g[i] = g[i - 1] + s[i]
    BY <1>2
  <2>1. i \in 1..Len(s) /\ i - 1 \in 0..Len(s)
    BY <1>n
  <2> QED
    BY <1>1, <1>2, <2>1
<1>4. Sums(g, s)
  BY <1>2, <1>3 DEF Sums
<1>h. Sums(CHOOSE h : Sums(h, s), s)
  BY <1>4
<1>6. Total(s) = (CHOOSE h : Sums(h, s))[Len(s)]
  BY Zenon DEF Total, Sums
<1> DEFINE f == CHOOSE h : Sums(h, s)
<1>5. Sums(f, s) /\ Total(s) = f[Len(s)]
  BY <1>h, <1>6
<1> HIDE DEF f
<1>7. f[0] = 0 /\ \A i \in 1..Len(s) : f[i] = f[i - 1] + s[i]
  <2>1. f[0] = 0
    BY <1>5, <1>n DEF Sums
  <2>2. ASSUME NEW i \in 1..Len(s) PROVE f[i] = f[i - 1] + s[i]
    <3>1. i \in 0..Len(s) /\ i # 0
      BY <1>n
    <3>2. f[i] = IF i = 0 THEN 0 ELSE f[i - 1] + s[i]
      BY Zenon, <1>5, <3>1 DEF Sums
    <3> QED
      BY <3>1, <3>2
  <2> QED
    BY <2>1, <2>2
<1>8. \A i \in 1..Len(s) : f[i - 1] \in Nat => f[i] \in Nat
  <2>1. \A i \in 1..Len(s) : s[i] \in Nat
    OBVIOUS
  <2> QED
    BY <1>7, <2>1
<1>9. \A i \in 0..Len(s) : f[i] \in Nat
  BY <1>7, <1>8, <1>n, RecursionKeeps, Zenon
<1>10. f \in [0..Len(s) -> Nat]
  BY <1>5, <1>9 DEF Sums
<1> QED
  BY <1>5, <1>7, <1>10

(* The sum of two sequences one after the other.                           *)
LEMMA TotalConcat ==
  ASSUME NEW s \in Seq(Nat), NEW t \in Seq(Nat)
  PROVE  Total(s \o t) = Total(s) + Total(t)
<1>1. PICK f \in [0..Len(s) -> Nat] :
        Total(s) = f[Len(s)] /\ f[0] = 0 /\ \A i \in 1..Len(s) : f[i] = f[i - 1] + s[i]
  BY SumsExist
<1>2. PICK g \in [0..Len(t) -> Nat] :
        Total(t) = g[Len(t)] /\ g[0] = 0 /\ \A i \in 1..Len(t) : g[i] = g[i - 1] + t[i]
  BY SumsExist
<1> DEFINE u == s \o t
<1>3. u \in Seq(Nat) /\ Len(u) = Len(s) + Len(t) /\ Len(s) \in Nat /\ Len(t) \in Nat
  OBVIOUS
<1>4. /\ \A i \in 1..Len(s) : u[i] = s[i]
      /\ \A i \in 1..Len(t) : u[Len(s) + i] = t[i]
  OBVIOUS
<1> HIDE DEF u
<1>5. PICK h \in [0..Len(u) -> Nat] :
        Total(u) = h[Len(u)] /\ h[0] = 0 /\ \A i \in 1..Len(u) : h[i] = h[i - 1] + u[i]
  BY <1>3, SumsExist
<1> DEFINE A == {i \in Nat : i <= Len(s) => h[i] = f[i]}
           B == {i \in Nat : i <= Len(t) => h[Len(s) + i] = f[Len(s)] + g[i]}
<1>6. ASSUME NEW i \in Nat, i \in A PROVE i + 1 \in A
  <2> SUFFICES ASSUME i + 1 <= Len(s) PROVE h[i + 1] = f[i + 1]
    OBVIOUS
  <2>1. i + 1 \in 1..Len(s) /\ i + 1 \in 1..Len(u) /\ (i + 1) - 1 = i /\ i <= Len(s)
    BY <1>3
  <2> QED
    <3>1. h[i + 1] = h[i] + s[i + 1] /\ f[i + 1] = f[i] + s[i + 1]
      BY <1>1, <1>4, <1>5, <2>1
    <3>2. h[i] = f[i]
      BY <1>6, <2>1
    <3> QED
      BY <3>1, <3>2
<1>7. 0 \in A
  BY <1>1, <1>5
<1>8. Len(s) \in A
  <2> HIDE DEF A
  <2> QED
    BY <1>3, <1>6, <1>7, NatSetInduction
<1>9. 0 \in B
  <2>1. h[Len(s)] = f[Len(s)] /\ g[0] = 0 /\ f[Len(s)] \in Nat
    BY <1>1, <1>2, <1>3, <1>8
  <2> QED
    BY <1>3, <2>1
<1>10. ASSUME NEW i \in Nat, i \in B PROVE i + 1 \in B
  <2> SUFFICES ASSUME i + 1 <= Len(t) PROVE h[Len(s) + (i + 1)] = f[Len(s)] + g[i + 1]
    OBVIOUS
  <2>1. i + 1 \in 1..Len(t) /\ (i + 1) - 1 = i /\ Len(s) + (i + 1) \in 1..Len(u)
        /\ (Len(s) + (i + 1)) - 1 = Len(s) + i /\ i <= Len(t)
    BY <1>3
  <2>2. h[Len(s) + (i + 1)] = h[Len(s) + i] + t[i + 1]
    BY <1>4, <1>5, <2>1
  <2>3. g[i + 1] = g[i] + t[i + 1] /\ g[i] \in Nat /\ t[i + 1] \in Nat /\ f[Len(s)] \in Nat
    <3> HIDE DEF A, B
    <3>1. i \in 0..Len(t) /\ Len(s) \in 0..Len(s)
      BY <1>3, <2>1
    <3>2. g[i] \in Nat /\ f[Len(s)] \in Nat
      BY <1>1, <1>2, <3>1
    <3> QED
      BY <1>2, <2>1, <3>2
  <2>4. h[Len(s) + i] = f[Len(s)] + g[i]
    BY <1>10, <2>1
  <2> QED
    BY <2>2, <2>3, <2>4
<1>11. Len(t) \in B
  <2> HIDE DEF B
  <2> QED
    BY <1>3, <1>9, <1>10, NatSetInduction
<1>12. h[Len(s) + Len(t)] = f[Len(s)] + g[Len(t)]
  BY <1>3, <1>11
<1> QED
  BY <1>1, <1>2, <1>3, <1>5, <1>12 DEF u

LEMMA TotalOne == ASSUME NEW n \in Nat PROVE Total(<<n>>) = n /\ Total(<< >>) = 0
<1>1. <<n>> \in Seq(Nat) /\ << >> \in Seq(Nat) /\ Len(<<n>>) = 1 /\ Len(<< >>) = 0 /\ <<n>>[1] = n
  OBVIOUS
<1>2. PICK f \in [0..Len(<<n>>) -> Nat] : Total(<<n>>) = f[Len(<<n>>)] /\ f[0] = 0
         /\ \A i \in 1..Len(<<n>>) : f[i] = f[i - 1] + <<n>>[i]
  BY <1>1, SumsExist
<1>3. PICK g \in [0..Len(<< >>) -> Nat] : Total(<< >>) = g[Len(<< >>)] /\ g[0] = 0
  BY <1>1, SumsExist
<1>4. f[1] = f[0] + n
  BY <1>1, <1>2
<1> QED
  BY <1>1, <1>2, <1>3, <1>4

LEMMA TotalNat == ASSUME NEW s \in Seq(Nat) PROVE Total(s) \in Nat
  BY SumsExist

(* What is left of a sequence after its first elements.                    *)
LEMMA AfterIs ==
  ASSUME NEW V, NEW a \in Seq(V), NEW m \in 0..Len(a)
  PROVE  /\ SubSeq(a, 1, m) \in Seq(V) /\ SubSeq(a, m + 1, Len(a)) \in Seq(V)
         /\ Len(SubSeq(a, 1, m)) = m /\ Len(SubSeq(a, m + 1, Len(a))) = Len(a) - m
         /\ \A i \in 1..m : SubSeq(a, 1, m)[i] = a[i]
         /\ \A i \in 1..(Len(a) - m) : SubSeq(a, m + 1, Len(a))[i] = a[m + i]
         /\ SubSeq(a, 1, m) \o SubSeq(a, m + 1, Len(a)) = a
<1>1. Len(a) \in Nat /\ m \in Nat /\ m <= Len(a) /\ \A i \in 1..Len(a) : a[i] \in V
  OBVIOUS
<1>2. SubSeq(a, 1, m) \in Seq(V) /\ Len(SubSeq(a, 1, m)) = m /\ \A i \in 1..m : SubSeq(a, 1, m)[i] = a[i]
  <2>1. \A i \in 1..m : a[i] \in V
    BY <1>1
  <2>2. 1 \in Int /\ m \in Int /\ m - 1 + 1 = m /\ (1 <= m => m - 1 + 1 = m) /\ (~(1 <= m) => m = 0)
    BY <1>1
  <2>3. /\ SubSeq(a, 1, m) \in Seq(V)
        /\ Len(SubSeq(a, 1, m)) = IF 1 <= m THEN m - 1 + 1 ELSE 0
        /\ \A i \in 1..(m - 1 + 1) : SubSeq(a, 1, m)[i] = a[1 + i - 1]
    BY <2>1, <2>2, SubSeqProperties
  <2> QED
    BY <2>2, <2>3
<1>3. /\ SubSeq(a, m + 1, Len(a)) \in Seq(V) /\ Len(SubSeq(a, m + 1, Len(a))) = Len(a) - m
      /\ \A i \in 1..(Len(a) - m) : SubSeq(a, m + 1, Len(a))[i] = a[m + i]
  <2>1. \A i \in (m + 1)..Len(a) : a[i] \in V
    BY <1>1
  <2>2. m + 1 \in Int /\ Len(a) \in Int
    BY <1>1
  <2>3. /\ SubSeq(a, m + 1, Len(a)) \in Seq(V)
        /\ Len(SubSeq(a, m + 1, Len(a))) = IF m + 1 <= Len(a) THEN Len(a) - (m + 1) + 1 ELSE 0
        /\ \A i \in 1..(Len(a) - (m + 1) + 1) : SubSeq(a, m + 1, Len(a))[i] = a[(m + 1) + i - 1]
    BY <2>1, <2>2, SubSeqProperties
  <2>4. \A i \in 1..(Len(a) - m) : i \in 1..(Len(a) - (m + 1) + 1) /\ (m + 1) + i - 1 = m + i
    BY <1>1
  <2> QED
    BY <1>1, <2>3, <2>4
<1>4. SubSeq(a, 1, m) \o SubSeq(a, m + 1, Len(a)) = SubSeq(a, 1, Len(a))
  <2>1. 1 \in 1..(Len(a) + 1) /\ m \in (1 - 1)..Len(a) /\ Len(a) \in m..Len(a)
    BY <1>1
  <2> QED
    BY <2>1, ConcatAdjacentSubSeq
<1>5. SubSeq(a, 1, Len(a)) = a
  BY SubSeqFull
<1> QED
  BY <1>2, <1>3, <1>4, <1>5

(* One sequence put after another.                                         *)
Joined(c, V, a, b) ==
    /\ c \in Seq(V) /\ Len(c) = Len(a) + Len(b) /\ Len(a) \in Nat /\ Len(b) \in Nat
    /\ \A i \in 1..Len(a) : i \in 1..Len(c) /\ c[i] = a[i]
    /\ \A i \in 1..Len(b) : Len(a) + i \in 1..Len(c) /\ c[Len(a) + i] = b[i]
    /\ \A i \in 1..Len(c) : i \in 1..Len(a) \/ \E j \in 1..Len(b) : i = Len(a) + j

LEMMA JoinIs ==
  ASSUME NEW V, NEW a \in Seq(V), NEW b \in Seq(V)
  PROVE  Joined(a \o b, V, a, b)
<1>1. /\ a \o b \in Seq(V) /\ Len(a \o b) = Len(a) + Len(b) /\ Len(a) \in Nat /\ Len(b) \in Nat
      /\ \A i \in 1..(Len(a) + Len(b)) : (a \o b)[i] = IF i <= Len(a) THEN a[i] ELSE b[i - Len(a)]
  BY ConcatProperties, LenProperties
<1>2. ASSUME NEW n \in Nat, NEW m \in Nat
      PROVE  /\ \A i \in 1..n : i \in 1..(n + m) /\ i <= n
             /\ \A i \in 1..m : n + i \in 1..(n + m) /\ ~(n + i <= n) /\ (n + i) - n = i
             /\ \A i \in 1..(n + m) : i \in 1..n \/ (i - n \in 1..m /\ i = n + (i - n))
  OBVIOUS
<1> DEFINE c == a \o b
<1> HIDE DEF c
<1>3. /\ \A i \in 1..Len(a) : i \in 1..(Len(a) + Len(b)) /\ i <= Len(a)
      /\ \A i \in 1..Len(b) : /\ Len(a) + i \in 1..(Len(a) + Len(b)) /\ ~(Len(a) + i <= Len(a))
                               /\ (Len(a) + i) - Len(a) = i
      /\ \A i \in 1..(Len(a) + Len(b)) : i \in 1..Len(a) \/ (i - Len(a) \in 1..Len(b) /\ i = Len(a) + (i - Len(a)))
  BY <1>1, <1>2
<1>4. \A i \in 1..(Len(a) + Len(b)) : c[i] = IF i <= Len(a) THEN a[i] ELSE b[i - Len(a)]
  BY <1>1 DEF c
<1>5. \A i \in 1..Len(a) : c[i] = a[i]
  BY <1>3, <1>4
<1>6. \A i \in 1..Len(b) : c[Len(a) + i] = b[i]
  BY <1>3, <1>4
<1> QED
  BY <1>1, <1>3, <1>5, <1>6 DEF c, Joined

(* A sequence cut in two, behind another one.                              *)
CutBehind(V, a, b, m) ==
    /\ (a \o SubSeq(b, 1, m)) \o SubSeq(b, m + 1, Len(b)) = a \o b
    /\ a \o SubSeq(b, 1, m) \in Seq(V) /\ SubSeq(b, 1, m) \in Seq(V) /\ SubSeq(b, m + 1, Len(b)) \in Seq(V)

LEMMA CutIs ==
  ASSUME NEW V, NEW a \in Seq(V), NEW b \in Seq(V), NEW m \in 0..Len(b)
  PROVE  CutBehind(V, a, b, m)
<1> DEFINE s == SubSeq(b, 1, m)
           t == SubSeq(b, m + 1, Len(b))
<1>0. s \in Seq(V) /\ t \in Seq(V)
  BY AfterIs
<1>1. s \o t = b
  BY AfterIs
<1> HIDE DEF s, t
<1>2. (a \o s) \o t = a \o (s \o t)
  BY <1>0, ConcatAssociative
<1>3. a \o s \in Seq(V)
  BY <1>0, ConcatProperties
<1>4. (a \o s) \o t = a \o b
  BY <1>1, <1>2
<1> QED
  BY <1>0, <1>3, <1>4 DEF s, t, CutBehind

(* What holds at the start and is kept from each number to the next one.   *)
LEMMA UptoAll ==
  ASSUME NEW N \in Nat, NEW Good, 0 \in Good, \A i \in 1..N : i - 1 \in Good => i \in Good
  PROVE  \A i \in 0..N : i \in Good
<1> DEFINE G == {n \in Nat : n <= N => n \in Good}
<1>1. 0 \in G
  OBVIOUS
<1>2. ASSUME NEW n \in Nat, n \in G PROVE n + 1 \in G
  <2>1. n + 1 <= N => n + 1 \in 1..N /\ (n + 1) - 1 = n
    OBVIOUS
  <2> QED
    BY <1>2, <2>1
<1> HIDE DEF G
<1>3. Nat \subseteq G
  BY <1>1, <1>2, NatSetInduction
<1> QED
  BY <1>3 DEF G

(* The first number up to n for which a test holds that n passes.          *)
LEMMA FirstOf ==
  ASSUME NEW n \in Nat, NEW Good, n \in Good
  PROVE  \E k \in 0..n : k \in Good /\ \A j \in 0..(k - 1) : j \notin Good
<1> DEFINE Ok == {x \in 0..n : x \in Good}
<1>1. Ok \in SUBSET Nat /\ Ok # {}
  <2>1. n \in 0..n /\ 0..n \subseteq Nat
    OBVIOUS
  <2> QED
    BY <2>1
<1> HIDE DEF Ok
<1>2. PICK x \in Ok : \A y \in Ok : x <= y
  BY <1>1, LeastNat
<1>3. x \in 0..n /\ x \in Good
  BY <1>2 DEF Ok
<1>4. ASSUME NEW j \in 0..(x - 1) PROVE j \notin Good
  <2>1. j \in 0..n /\ ~(x <= j)
    BY <1>3
  <2> QED
    BY <1>2, <2>1 DEF Ok
<1> QED
  BY <1>3, <1>4

Flats(f, s) == f = [i \in 0..Len(s) |-> IF i = 0 THEN << >> ELSE f[i - 1] \o s[i]]
Follows(f, s, V) ==
    /\ f \in [0..Len(s) -> Seq(V)] /\ f[0] = << >> /\ \A i \in 1..Len(s) : f[i] = f[i - 1] \o s[i]
    /\ Flattened(s) = f[Len(s)]

LEMMA FlatsExist ==
  ASSUME NEW V, NEW s \in Seq(Seq(V))
  PROVE  \E f : Follows(f, s, V)
<1> DEFINE A == Seq(V)
           N == Len(s)
           step == [x \in A \X (1..N) |-> x[1] \o s[x[2]]]
<1>1. N \in Nat /\ << >> \in A /\ \A i \in 1..N : s[i] \in A
  OBVIOUS
<1>2. \A a \in A, b \in A : a \o b \in A
  BY ConcatProperties
<1> HIDE DEF A, N
<1>3. \A a \in A, i \in 1..N : step[<<a, i>>] = a \o s[i] /\ step[<<a, i>>] \in A
  <2> SUFFICES ASSUME NEW a \in A, NEW i \in 1..N PROVE step[<<a, i>>] = a \o s[i] /\ step[<<a, i>>] \in A
    OBVIOUS
  <2>1. step[<<a, i>>] = a \o s[i]
    OBVIOUS
  <2>2. a \o s[i] \in A
    BY <1>1, <1>2
  <2> QED
    BY <2>1, <2>2
<1>4. step \in [A \X (1..N) -> A]
  <2>1. \A x \in A \X (1..N) : x[1] \o s[x[2]] \in A
    <3> SUFFICES ASSUME NEW x \in A \X (1..N) PROVE x[1] \o s[x[2]] \in A
      OBVIOUS
    <3>1. x[1] \in A /\ s[x[2]] \in A
      BY <1>1
    <3> QED
      BY <1>2, <3>1
  <2> QED
    BY <2>1
<1> HIDE DEF step
<1>5. PICK g : Recurses(g, A, << >>, N, step)
  BY <1>1, <1>4, RecursionExists
<1>6. g \in [0..N -> A] /\ g[0] = << >> /\ \A i \in 1..N : g[i] = step[<<g[i - 1], i>>]
  BY <1>5 DEF Recurses
<1>7. \A i \in 0..N : g[i] = IF i = 0 THEN << >> ELSE g[i - 1] \o s[i]
  <2> SUFFICES ASSUME NEW i \in 0..N, i # 0 PROVE g[i] = g[i - 1] \o s[i]
    BY <1>6
  <2>1. i \in 1..N /\ i - 1 \in 0..N
    BY <1>1
  <2>2. g[i - 1] \in A
    BY <1>6, <2>1
  <2> QED
    BY <1>3, <1>6, <2>1, <2>2
<1>8. Flats(g, s)
  <2>1. g = [i \in 0..N |-> g[i]]
    BY <1>6
  <2>2. g = [i \in 0..N |-> IF i = 0 THEN << >> ELSE g[i - 1] \o s[i]]
    BY <1>7, <2>1
  <2> QED
    BY Zenon, <2>2 DEF Flats, N
<1>9. Flats(CHOOSE h : Flats(h, s), s)
  BY <1>8
<1>10. Flattened(s) = (CHOOSE h : Flats(h, s))[Len(s)]
  BY Zenon DEF Flattened, Flats
<1> DEFINE f == CHOOSE h : Flats(h, s)
<1>11. Flats(f, s) /\ Flattened(s) = f[Len(s)]
  BY <1>9, <1>10
<1> HIDE DEF f
<1>12. \A i \in 0..N : f[i] = IF i = 0 THEN << >> ELSE f[i - 1] \o s[i]
  BY Zenon, <1>11 DEF Flats, N
<1>13. f[0] = << >> /\ \A i \in 1..N : f[i] = f[i - 1] \o s[i]
  <2>1. 0 \in 0..N /\ \A i \in 1..N : i \in 0..N /\ i # 0
    BY <1>1
  <2> QED
    BY <1>12, <2>1
<1>14. \A i \in 1..N : f[i - 1] \in A => f[i] \in A
  BY <1>1, <1>2, <1>13
<1>15. \A i \in 0..N : f[i] \in A
  BY <1>1, <1>13, <1>14, RecursionKeeps
<1>16. f \in [0..N -> A]
  <2>1. DOMAIN f = 0..N /\ f = [i \in 0..N |-> IF i = 0 THEN << >> ELSE f[i - 1] \o s[i]]
    BY <1>11 DEF Flats, N
  <2>2. f = [i \in 0..N |-> f[i]]
    BY <1>12, <2>1
  <2> QED
    BY <1>15, <2>2
<1>17. Follows(f, s, V)
  BY <1>11, <1>13, <1>16 DEF Follows, A, N
<1> QED
  BY <1>17

(* One more sequence goes behind what was there.                           *)
LEMMA FlattenedAppend ==
  ASSUME NEW V, NEW s \in Seq(Seq(V)), NEW x \in Seq(V)
  PROVE  /\ Flattened(Append(s, x)) = Flattened(s) \o x /\ Flattened(s) \in Seq(V) /\ Append(s, x) \in Seq(Seq(V))
         /\ Flattened(<< >>) = << >>
<1> DEFINE t == Append(s, x)
           n == Len(s)
<1>1. /\ t \in Seq(Seq(V)) /\ Len(t) = n + 1 /\ n \in Nat /\ t[n + 1] = x /\ \A i \in 1..n : t[i] = s[i]
  BY AppendProperties, LenProperties
<1> HIDE DEF t, n
<1>2. PICK f : Follows(f, s, V)
  BY FlatsExist
<1>3. PICK g : Follows(g, t, V)
  BY <1>1, FlatsExist
<1>4. /\ f[0] = << >> /\ (\A i \in 1..n : f[i] = f[i - 1] \o s[i]) /\ Flattened(s) = f[n] /\ f[n] \in Seq(V)
  BY <1>1, <1>2 DEF Follows, n
<1>5. /\ g[0] = << >> /\ (\A i \in 1..(n + 1) : g[i] = g[i - 1] \o t[i]) /\ Flattened(t) = g[n + 1]
  BY <1>1, <1>3 DEF Follows
<1> DEFINE Good == {i \in 0..n : g[i] = f[i]}
<1>6. 0 \in Good
  BY <1>1, <1>4, <1>5
<1>7. ASSUME NEW i \in 1..n, i - 1 \in Good PROVE i \in Good
  <2>1. i \in 1..(n + 1) /\ i \in 0..n
    BY <1>1
  <2> QED
    BY <1>1, <1>4, <1>5, <1>7, <2>1
<1>8. n \in Good
  <2> HIDE DEF Good
  <2>1. \A i \in 0..n : i \in Good
    BY <1>1, <1>6, <1>7, UptoAll
  <2> QED
    BY <1>1, <2>1
<1>9. g[n + 1] = f[n] \o x
  <2>1. n + 1 \in 1..(n + 1) /\ (n + 1) - 1 = n
    BY <1>1
  <2> QED
    BY <1>1, <1>5, <1>8, <2>1
<1>10. Flattened(<< >>) = << >>
  <2>1. << >> \in Seq(Seq(V)) /\ Len(<< >>) = 0
    OBVIOUS
  <2>2. PICK h : Follows(h, << >>, V)
    BY <2>1, FlatsExist
  <2> QED
    BY <2>1, <2>2 DEF Follows
<1> QED
  BY <1>1, <1>4, <1>5, <1>9, <1>10 DEF t

(* Joining three sequences, as a fact about all sequences over a set.      *)
Grouped(V) == \A p, q, r \in Seq(V) : (p \o q) \o r = p \o (q \o r)
LEMMA JoinGrouped == ASSUME NEW V PROVE Grouped(V)
<1> SUFFICES ASSUME NEW p \in Seq(V), NEW q \in Seq(V), NEW r \in Seq(V)
             PROVE  (p \o q) \o r = p \o (q \o r)
  BY Zenon DEF Grouped
<1> QED
  BY ConcatAssociative

(* What is appended to the second of two joined sequences is appended to   *)
(* the whole.                                                              *)
LEMMA JoinAppend ==
  ASSUME NEW V, NEW s \in Seq(V), NEW t \in Seq(V), NEW x \in V
  PROVE  /\ s \o Append(t, x) = Append(s \o t, x) /\ Append(t, x) \in Seq(V)
         /\ s \o t \in Seq(V) /\ s \o << >> = s /\ << >> \o s = s
<1>1. <<x>> \in Seq(V) /\ Append(t, x) = t \o <<x>> /\ Append(t, x) \in Seq(V)
  OBVIOUS
<1>2. s \o t \in Seq(V)
  BY ConcatProperties
<1>3. Append(s \o t, x) = (s \o t) \o <<x>>
  BY <1>2
<1>4. (s \o t) \o <<x>> = s \o (t \o <<x>>)
  BY <1>1, ConcatAssociative
<1>5. s \o << >> = s /\ << >> \o s = s
  BY ConcatEmptySeq
<1> QED
  BY <1>1, <1>2, <1>3, <1>4, <1>5, Zenon

(* The first elements of a sequence, one more at a time.                   *)
LEMMA FirstOnes ==
  ASSUME NEW V, NEW s \in Seq(V), NEW i \in 1..Len(s)
  PROVE  /\ SubSeq(s, 1, i) = Append(SubSeq(s, 1, i - 1), s[i])
         /\ SubSeq(s, 1, i - 1) \in Seq(V) /\ SubSeq(s, 1, i) \in Seq(V) /\ s[i] \in V
<1>1. Len(s) \in Nat /\ i \in Nat /\ i >= 1 /\ i <= Len(s) /\ s[i] \in V
  OBVIOUS
<1>2. i \in 0..Len(s) /\ i - 1 \in 0..Len(s)
  BY <1>1
<1>3. /\ SubSeq(s, 1, i) \in Seq(V) /\ Len(SubSeq(s, 1, i)) = i
      /\ \A k \in 1..i : SubSeq(s, 1, i)[k] = s[k]
  BY <1>2, AfterIs
<1>4. /\ SubSeq(s, 1, i - 1) \in Seq(V) /\ Len(SubSeq(s, 1, i - 1)) = i - 1
      /\ \A k \in 1..(i - 1) : SubSeq(s, 1, i - 1)[k] = s[k]
  BY <1>2, AfterIs
<1> DEFINE a == SubSeq(s, 1, i - 1)
           b == SubSeq(s, 1, i)
<1> HIDE DEF a, b
<1>5. a \in Seq(V) /\ Len(a) = i - 1 /\ \A k \in 1..(i - 1) : a[k] = s[k]
  BY <1>4 DEF a
<1>6. /\ Append(a, s[i]) \in Seq(V) /\ Len(Append(a, s[i])) = i
      /\ \A k \in 1..(i - 1) : Append(a, s[i])[k] = a[k]
      /\ Append(a, s[i])[i] = s[i]
  BY <1>1, <1>5
<1>7. b \in Seq(V) /\ Len(b) = i /\ \A k \in 1..i : b[k] = s[k]
  BY <1>3 DEF b
<1>8. \A k \in 1..i : b[k] = Append(a, s[i])[k]
  BY <1>1, <1>5, <1>6, <1>7
<1>9. b = Append(a, s[i])
  <2> DEFINE c == Append(a, s[i])
  <2>1. c \in Seq(V) /\ Len(b) = Len(c) /\ \A k \in 1..Len(b) : b[k] = c[k]
    BY <1>6, <1>7, <1>8
  <2> HIDE DEF c
  <2>2. b = c
    BY <1>7, <2>1, SeqEqual
  <2> QED
    BY <2>2 DEF c
<1> QED
  BY <1>1, <1>3, <1>4, <1>9 DEF a, b

(* Array.flat of two joined lists.                                         *)
LEMMA FlattenedConcat ==
  ASSUME NEW V, NEW s \in Seq(Seq(V)), NEW t \in Seq(Seq(V))
  PROVE  /\ Flattened(s \o t) = Flattened(s) \o Flattened(t)
         /\ Flattened(s) \in Seq(V) /\ Flattened(t) \in Seq(V) /\ s \o t \in Seq(Seq(V))
<1> DEFINE To(i) == SubSeq(t, 1, i)
           Good == {i \in 0..Len(t) : Flattened(s \o To(i)) = Flattened(s) \o Flattened(To(i))}
           W == Seq(V)
<1>0. Len(t) \in Nat /\ s \in Seq(W) /\ t \in Seq(W)
  OBVIOUS
<1>1. << >> \in Seq(V) /\ Flattened(s) \in Seq(V) /\ Flattened(t) \in Seq(V) /\ Flattened(<< >>) = << >>
  BY FlattenedAppend
<1>2. 0 \in Good
  <2>1. To(0) = << >>
    BY SubSeqEmpty
  <2>2. s \o << >> = s /\ Flattened(s) \o << >> = Flattened(s)
    BY <1>0, <1>1, ConcatEmptySeq
  <2>3. Flattened(s \o To(0)) = Flattened(s) \o Flattened(To(0))
    BY <1>1, <2>1, <2>2, Zenon
  <2> QED
    BY <1>0, <2>3
<1>3. ASSUME NEW i \in 1..Len(t), i - 1 \in Good PROVE i \in Good
  <2> DEFINE a == To(i - 1)
  <2>1. To(i) = Append(a, t[i]) /\ a \in Seq(W) /\ t[i] \in W
    BY <1>0, FirstOnes
  <2>2. Flattened(s \o a) = Flattened(s) \o Flattened(a)
    BY <1>3
  <2> HIDE DEF To, W
  <2>3. s \o Append(a, t[i]) = Append(s \o a, t[i]) /\ s \o a \in Seq(W)
    BY <1>0, <2>1, JoinAppend
  <2>4. Flattened(Append(s \o a, t[i])) = Flattened(s \o a) \o t[i]
    BY <2>1, <2>3, FlattenedAppend DEF W
  <2>5. Flattened(Append(a, t[i])) = Flattened(a) \o t[i] /\ Flattened(a) \in Seq(V)
    BY <2>1, FlattenedAppend DEF W
  <2> DEFINE p == Flattened(s)
             q == Flattened(a)
             r == t[i]
  <2>a. p \in Seq(V) /\ q \in Seq(V) /\ r \in Seq(V)
    BY <1>1, <2>1, <2>5 DEF W
  <2> HIDE DEF p, q, r
  <2>c. Grouped(V)
    BY JoinGrouped
  <2>b. (p \o q) \o r = p \o (q \o r)
    BY Zenon, <2>a, <2>c DEF Grouped
  <2>6. (Flattened(s) \o Flattened(a)) \o t[i] = Flattened(s) \o (Flattened(a) \o t[i])
    BY <2>b DEF p, q, r
  <2>7. Flattened(s \o To(i)) = Flattened(s) \o Flattened(To(i))
    BY <2>1, <2>2, <2>3, <2>4, <2>5, <2>6, Zenon
  <2>8. i \in 0..Len(t)
    BY <1>0
  <2> QED
    BY <2>7, <2>8
<1> HIDE DEF Good
<1>4. \A i \in 0..Len(t) : i \in Good
  BY <1>0, <1>2, <1>3, UptoAll
<1>5. Flattened(s \o To(Len(t))) = Flattened(s) \o Flattened(To(Len(t)))
  BY <1>0, <1>4 DEF Good
<1>6. To(Len(t)) = t
  BY <1>0, SubSeqFull
<1>7. s \o t \in Seq(W)
  BY <1>0, ConcatProperties
<1> QED
  BY <1>1, <1>5, <1>6, <1>7, Zenon
===============================================================================

----------------------------- MODULE CommonLemmas -----------------------------
(***************************************************************************)
(* Facts about loops over the numbers 0 .. n, stated with sets in place of *)
(* predicates: induction over the iterations, and the function a loop      *)
(* defines when each iteration computes its value from the one before.     *)
(* Facts about counting what a loop has met, about ranks, about sorting,   *)
(* and about what touching words makes of a cache.                         *)
(***************************************************************************)
EXTENDS LruCache, SequencesExt, WellFoundedInduction, FiniteSetTheorems, SequenceTheorems,
        TLAPS

\* Every nonempty set of naturals has a least member.
LEMMA LeastMember ==
  ASSUME NEW T \in SUBSET Nat, T # {}
  PROVE  \E x \in T : \A y \in T : x <= y
<1> DEFINE R == OpToRel(<, Nat)
<1>1. IsWellFoundedOn(R, Nat)
  BY NatLessThanWellFounded
<1>2. \A x, y \in Nat : <<y, x>> \in R <=> y < x
  BY DEF OpToRel
<1> HIDE DEF R
<1>3. \E x \in T : \A y \in T : ~(<<y, x>> \in R)
  BY <1>1, WFMin
<1>4. PICK x \in T : \A y \in T : ~(<<y, x>> \in R)
  BY <1>3
<1>5. \A y \in T : ~(y < x) /\ x \in Nat /\ y \in Nat
  BY <1>2, <1>4
<1>6. \A y \in T : x <= y
  BY <1>5
<1> QED
  BY <1>6

\* What holds before a loop and is kept by each iteration up to the n-th
\* holds after it.
LEMMA LoopInduction ==
  ASSUME NEW n \in Nat, NEW S, 0 \in S, \A k \in 0 .. n - 1 : k \in S => k + 1 \in S
  PROVE  \A k \in 0 .. n : k \in S
<1> SUFFICES ASSUME NEW k \in 0 .. n, k \notin S PROVE FALSE
  OBVIOUS
<1> DEFINE T == {j \in 0 .. n : j \notin S}
<1>1. PICK x \in T : \A y \in T : x <= y
  <2>1. T \in SUBSET Nat /\ T # {}
    OBVIOUS
  <2> HIDE DEF T
  <2> QED
    BY <2>1, LeastMember
<1>2. x - 1 \in 0 .. n - 1 /\ x - 1 \notin T
  BY <1>1
<1>3. x - 1 \in S /\ (x - 1) + 1 = x
  BY <1>2
<1> QED
  BY <1>1, <1>2, <1>3

\* The trace of m iterations of a loop that computes each value, a member of
\* D, from the one before.
IsTrace(g, m, D, base, step) ==
  /\ g \in [0 .. m -> D]
  /\ g[0] = base
  /\ \A k \in 1 .. m : g[k] = step[<<k, g[k - 1]>>]

\* Such a loop has a trace.
LEMMA LoopExists ==
  ASSUME NEW n \in Nat, NEW D, NEW base \in D, NEW step \in [(1 .. n) \X D -> D]
  PROVE  \E g : IsTrace(g, n, D, base, step)
<1> DEFINE Trace(m, g) == IsTrace(g, m, D, base, step)
           S == {m \in 0 .. n : \E g : Trace(m, g)}
<1> USE DEF IsTrace
<1>1. 0 \in S
  <2>1. Trace(0, [k \in 0 .. 0 |-> base])
    OBVIOUS
  <2> HIDE DEF Trace
  <2> QED
    BY <2>1
<1>2. ASSUME NEW m \in 0 .. n - 1, m \in S PROVE m + 1 \in S
  <2>1. PICK g : Trace(m, g)
    BY <1>2
  <2> DEFINE h == [k \in 0 .. m + 1 |-> IF k = m + 1 THEN step[<<m + 1, g[m]>>] ELSE g[k]]
  <2>2. <<m + 1, g[m]>> \in (1 .. n) \X D
    BY <2>1
  <2>3. h \in [0 .. m + 1 -> D]
    BY <2>1, <2>2
  <2>4. h[0] = base /\ h[m + 1] = step[<<m + 1, g[m]>>] /\ \A k \in 0 .. m : h[k] = g[k]
    BY <2>1
  <2> HIDE DEF h
  <2>5. ASSUME NEW k \in 1 .. m + 1 PROVE h[k] = step[<<k, h[k - 1]>>]
    <3>1. CASE k = m + 1
      <4>1. h[k - 1] = g[m]
        BY <2>4, <3>1
      <4> QED
        BY <2>4, <3>1, <4>1
    <3>2. CASE k \in 1 .. m
      <4>1. h[k] = g[k] /\ h[k - 1] = g[k - 1]
        BY <2>4, <3>2
      <4> QED
        BY <2>1, <3>2, <4>1
    <3> QED
      BY <3>1, <3>2
  <2>6. Trace(m + 1, h)
    BY <2>3, <2>4, <2>5
  <2> HIDE DEF Trace
  <2> QED
    BY <2>6
<1> HIDE DEF S
<1>3. n \in S
  BY <1>1, <1>2, LoopInduction
<1> QED
  BY <1>3 DEF S

-----------------------------------------------------------------------------
(* Sequences put one after the other.                                      *)

\* What FlattenSeq() computes: flat[i] are the first i parts.
FirstParts(flat, n, D, parts) ==
  /\ flat \in [0 .. n -> Seq(D)]
  /\ flat[0] = <<>>
  /\ \A i \in 1 .. n : flat[i] = flat[i - 1] \o parts[i]
  /\ FlattenSeq(parts) = flat[n]

LEMMA FlattenedOf ==
  ASSUME NEW n \in Nat, NEW D, NEW parts \in [1 .. n -> Seq(D)]
  PROVE  \E flat : FirstParts(flat, n, D, parts)
<1> USE DEF FirstParts
<1>1. Len(parts) = n /\ parts \in Seq(Seq(D))
  OBVIOUS
<1>2. CASE n = 0
  <2>1. FlattenSeq(parts) = <<>>
    BY <1>1, <1>2 DEF FlattenSeq
  <2> DEFINE flat == [i \in 0 .. n |-> <<>>]
  <2>2. flat \in [0 .. n -> Seq(D)]
    OBVIOUS
  <2>3. /\ flat[0] = <<>> /\ flat[n] = <<>>
        /\ \A i \in 1 .. n : flat[i] = flat[i - 1] \o parts[i]
    BY <1>2
  <2> HIDE DEF flat
  <2> QED
    BY <2>1, <2>2, <2>3, Zenon
<1>3. CASE n > 0
  <2> DEFINE step == [is \in (1 .. n) \X Seq(D) |-> is[2] \o parts[is[1]]]
  <2>1. step \in [(1 .. n) \X Seq(D) -> Seq(D)] /\ <<>> \in Seq(D)
    OBVIOUS
  <2>2. PICK g : IsTrace(g, n, Seq(D), <<>>, step)
    <3> HIDE DEF step
    <3> QED
      BY <2>1, LoopExists
  <2>3. /\ g \in [0 .. n -> Seq(D)] /\ g[0] = <<>>
        /\ \A i \in 1 .. n : g[i] = g[i - 1] \o parts[i]
    <3>1. /\ g \in [0 .. n -> Seq(D)] /\ g[0] = <<>>
          /\ \A i \in 1 .. n : g[i] = step[<<i, g[i - 1]>>]
      <4> HIDE DEF step
      <4> QED
        BY <2>2 DEF IsTrace
    <3>2. ASSUME NEW i \in 1 .. n PROVE g[i] = g[i - 1] \o parts[i]
      <4>1. g[i - 1] \in Seq(D)
        <5> DEFINE Q == Seq(D)
        <5> HIDE DEF Q, step
        <5> QED
          BY <3>1 DEF Q
      <4>2. <<i, g[i - 1]>> \in (1 .. n) \X Seq(D)
        BY <4>1
      <4> QED
        BY <3>1, <4>2
    <3> QED
      BY <3>1, <3>2
  <2>g. g[1] = parts[1]
    <3>0. 1 \in 1 .. n /\ 1 - 1 = 0
      BY <1>3
    <3>1. g[1] = g[0] \o parts[1] /\ g[0] = <<>> /\ parts[1] \in Seq(D)
      BY <2>3, <3>0
    <3> QED
      BY <3>1
  <2> HIDE DEF step
  <2> DEFINE Flatten(f, i) == IF i = 1 THEN parts[i] ELSE f[i - 1] \o parts[i]
             h == [i \in 1 .. n |-> g[i]]
             f == CHOOSE f : f = [i \in 1 .. n |-> Flatten(f, i)]
  <2>4. \A i \in 1 .. n : h[i] = Flatten(h, i)
    <3>1. ASSUME NEW i \in 1 .. n, i = 1 PROVE h[i] = Flatten(h, i)
      BY <2>g, <3>1
    <3>2. ASSUME NEW i \in 1 .. n, i # 1 PROVE h[i] = Flatten(h, i)
      <4>1. i - 1 \in 1 .. n
        BY <3>2
      <4> QED
        BY <2>3, <3>2, <4>1
    <3> QED
      BY <3>1, <3>2
  <2>5. h = [i \in 1 .. n |-> Flatten(h, i)]
    <3> HIDE DEF Flatten
    <3> QED
      BY <2>4
  <2> HIDE DEF h
  <2>6. f = [i \in 1 .. n |-> Flatten(f, i)]
    BY <2>5, Zenon
  <2>7. FlattenSeq(parts) = f[n]
    BY <1>1, <1>3 DEF FlattenSeq
  <2> HIDE DEF f
  <2>8. \A i \in 0 .. n : i >= 1 => f[i] = g[i]
    <3> DEFINE S == {i \in 0 .. n : i >= 1 => f[i] = g[i]}
    <3>1. 0 \in S
      OBVIOUS
    <3>2. \A i \in 0 .. n - 1 : i \in S => i + 1 \in S
      <4> SUFFICES ASSUME NEW i \in 0 .. n - 1, i \in S PROVE i + 1 \in S
        OBVIOUS
      <4>1. f[i + 1] = Flatten(f, i + 1) /\ g[i + 1] = g[i] \o parts[i + 1]
        <5>1. i + 1 \in 1 .. n /\ (i + 1) - 1 = i
          OBVIOUS
        <5>2. f[i + 1] = Flatten(f, i + 1)
          <6> HIDE DEF Flatten
          <6> QED
            BY <2>6, <5>1
        <5>3. g[i + 1] = g[i] \o parts[i + 1]
          BY <2>3, <5>1
        <5> QED
          BY <5>2, <5>3
      <4>2. CASE i = 0
        BY <2>g, <4>1, <4>2
      <4>3. CASE i > 0
        <5>1. f[i] = g[i] /\ i + 1 # 1 /\ (i + 1) - 1 = i
          BY <4>3
        <5>2. f[i + 1] = f[i] \o parts[i + 1]
          BY <4>1, <5>1
        <5>3. g[i + 1] = f[i + 1]
          BY <4>1, <5>1, <5>2, Zenon
        <5> QED
          BY <5>3
      <4> QED
        BY <4>2, <4>3
    <3> HIDE DEF S
    <3>3. \A i \in 0 .. n : i \in S
      BY <3>1, <3>2, LoopInduction
    <3> QED
      BY <3>3 DEF S
  <2>9. n \in 0 .. n /\ n >= 1 /\ n # 0
    BY <1>3
  <2>10. FlattenSeq(parts) = g[n] /\ n # 0
    BY <2>7, <2>8, <2>9, Zenon
  <2> QED
    BY <2>3, <2>10, Zenon
<1>4. n = 0 \/ n > 0
  OBVIOUS
<1> QED
  BY <1>2, <1>3, <1>4, Zenon

-----------------------------------------------------------------------------
(* Counting what a loop has met.                                           *)

\* The members of K up to the k-th: going one further counts one more exactly
\* when it is a member; the count only grows, and is that of the whole set at
\* the end.
LEMMA Counting ==
  ASSUME NEW n \in Nat, NEW K \in SUBSET (1 .. n)
  PROVE  /\ Cardinality(K \cap (1 .. 0)) = 0
         /\ K \cap (1 .. n) = K
         /\ \A k \in 0 .. n : Cardinality(K \cap (1 .. k)) \in Nat
         /\ \A k \in 1 .. n :
              Cardinality(K \cap (1 .. k)) = Cardinality(K \cap (1 .. k - 1)) + (IF k \in K THEN 1 ELSE 0)
         /\ \A k \in 0 .. n : \A j \in 0 .. k : Cardinality(K \cap (1 .. j)) <= Cardinality(K \cap (1 .. k))
         /\ \A k \in K : Cardinality(K \cap (1 .. k)) >= 1
<1>a. \A j \in K : j \in Int /\ 1 <= j /\ j <= n
  OBVIOUS
<1>b. IsFiniteSet(K)
  <2>1. IsFiniteSet(1 .. n)
    BY FS_Interval
  <2> QED
    BY <2>1, FS_Subset
<1>1. \A k \in 0 .. n : IsFiniteSet(K \cap (1 .. k))
  BY <1>b, FS_Subset
<1>2. Cardinality(K \cap (1 .. 0)) = 0
  <2>1. K \cap (1 .. 0) = {}
    OBVIOUS
  <2> QED
    BY <2>1, FS_EmptySet
<1>3. K \cap (1 .. n) = K
  BY <1>a
<1>4. \A k \in 0 .. n : Cardinality(K \cap (1 .. k)) \in Nat
  BY <1>1, FS_CardinalityType
<1>5. ASSUME NEW k \in 1 .. n
      PROVE  Cardinality(K \cap (1 .. k)) = Cardinality(K \cap (1 .. k - 1)) + (IF k \in K THEN 1 ELSE 0)
  <2>1. IsFiniteSet(K \cap (1 .. k - 1)) /\ k \notin K \cap (1 .. k - 1)
    BY <1>1
  <2>2. CASE k \in K
    <3>1. K \cap (1 .. k) = (K \cap (1 .. k - 1)) \cup {k}
      BY <2>2
    <3> QED
      BY <2>1, <2>2, <3>1, FS_AddElement
  <2>3. CASE k \notin K
    <3>1. K \cap (1 .. k) = K \cap (1 .. k - 1)
      BY <2>3
    <3>2. Cardinality(K \cap (1 .. k - 1)) \in Nat
      BY <1>4
    <3> QED
      BY <2>3, <3>1, <3>2
  <2> QED
    BY <2>2, <2>3
<1>6. ASSUME NEW k \in 0 .. n, NEW j \in 0 .. k
      PROVE  Cardinality(K \cap (1 .. j)) <= Cardinality(K \cap (1 .. k))
  <2>1. K \cap (1 .. j) \in SUBSET K \cap (1 .. k)
    BY <1>a
  <2> QED
    BY <1>1, <2>1, FS_Subset
<1>7. ASSUME NEW k \in K PROVE Cardinality(K \cap (1 .. k)) >= 1
  <2>1. k \in K \cap (1 .. k) /\ k \in 0 .. n
    BY <1>a
  <2>2. Cardinality(K \cap (1 .. k)) # 0
    BY <1>1, <2>1, FS_EmptySet
  <2> QED
    BY <1>4, <2>1, <2>2
<1> QED
  BY <1>2, <1>3, <1>4, <1>5, <1>6, <1>7

-----------------------------------------------------------------------------
(* The members of a finite set of numbers in order.                        *)

\* Ranks count from 1 and grow with the numbers.
LEMMA Ranks ==
  ASSUME NEW S \in SUBSET Int, IsFiniteSet(S)
  PROVE  /\ Cardinality(S) \in Nat
         /\ \A x \in S : Rank(S, x) \in 1 .. Cardinality(S)
         /\ \A x, y \in S : x < y => Rank(S, x) < Rank(S, y)
<1> DEFINE Upto(x) == {y \in S : y <= x}
<1>1. \A x \in S : IsFiniteSet(Upto(x)) /\ Cardinality(Upto(x)) <= Cardinality(S)
  BY FS_Subset
<1>2. \A x \in S : Cardinality(Upto(x)) \in Nat /\ Cardinality(Upto(x)) # 0
  <2> SUFFICES ASSUME NEW x \in S PROVE Cardinality(Upto(x)) \in Nat /\ Cardinality(Upto(x)) # 0
    OBVIOUS
  <2>1. x \in Upto(x)
    OBVIOUS
  <2> HIDE DEF Upto
  <2> QED
    BY <1>1, <2>1, FS_CardinalityType, FS_EmptySet
<1>3. ASSUME NEW x \in S, NEW y \in S, x < y PROVE Cardinality(Upto(x)) < Cardinality(Upto(y))
  <2>0. x \in Int /\ y \in Int
    OBVIOUS
  <2>1. Upto(x) \in SUBSET Upto(y) /\ y \in Upto(y) /\ y \notin Upto(x)
    <3>1. \A z \in S : z \in Int /\ (z <= x => z <= y)
      BY <1>3, <2>0
    <3>2. y \in Upto(y) /\ y \notin Upto(x)
      BY <1>3, <2>0
    <3>3. \A z \in Upto(x) : z \in Upto(y)
      BY <3>1, Zenon
    <3> HIDE DEF Upto
    <3> QED
      BY <3>2, <3>3
  <2> HIDE DEF Upto
  <2>2. Upto(x) # Upto(y)
    BY <2>1
  <2>3. Cardinality(Upto(x)) <= Cardinality(Upto(y)) /\ Cardinality(Upto(x)) # Cardinality(Upto(y))
    BY <1>1, <2>1, <2>2, FS_Subset
  <2> QED
    BY <1>2, <2>3
<1>4. Cardinality(S) \in Nat
  BY FS_CardinalityType
<1>5. \A x : Rank(S, x) = Cardinality(Upto(x))
  BY DEF Rank
<1> HIDE DEF Upto
<1> QED
  BY <1>1, <1>2, <1>3, <1>4, <1>5

\* So there is a member of every rank, and only one.
LEMMA NthOf ==
  ASSUME NEW S \in SUBSET Int, IsFiniteSet(S)
  PROVE  /\ \A n \in 1 .. Cardinality(S) : Nth(S, n) \in S /\ Rank(S, Nth(S, n)) = n
         /\ \A x \in S : Nth(S, Rank(S, x)) = x
<1> DEFINE c == Cardinality(S)
           rank == [x \in S |-> Rank(S, x)]
<1>1. /\ c \in Nat
      /\ \A x \in S : Rank(S, x) \in 1 .. c
      /\ \A x, y \in S : x < y => Rank(S, x) < Rank(S, y)
  BY Ranks
<1>2. rank \in [S -> 1 .. c] /\ \A x, y \in S : rank[x] = rank[y] => x = y
  BY <1>1
<1>3. IsFiniteSet(1 .. c) /\ Cardinality(1 .. c) = c
  BY <1>1, FS_Interval
<1>4. rank \in Injection(S, 1 .. c)
  <2> HIDE DEF rank, c
  <2> QED
    BY <1>2 DEF Injection, IsInjective
<1>5. rank \in Surjection(S, 1 .. c)
  BY <1>3, <1>4, FS_Injection
<1>6. \A n \in 1 .. c : \E x \in S : Rank(S, x) = n
  BY <1>5 DEF Surjection
<1>7. \A x, y \in S : Rank(S, x) = Rank(S, y) => x = y
  BY <1>2
<1> QED
  BY <1>1, <1>6, <1>7 DEF Nth

-----------------------------------------------------------------------------
(* A cache with least-recently-used replacement.                           *)

\* The places of a cache that hold something outside W.
Outside(c, W) == {k \in DOMAIN c : c[k] \notin W}

LEMMA OutsideIs ==
  ASSUME NEW c \in Seq(Int), NEW W
  PROVE  /\ Outside(c, W) \in SUBSET Int /\ IsFiniteSet(Outside(c, W))
         /\ Cardinality(Outside(c, W)) \in Nat
         /\ \A n \in 1 .. Cardinality(Outside(c, W)) :
              Nth(Outside(c, W), n) \in Outside(c, W) /\ Rank(Outside(c, W), Nth(Outside(c, W), n)) = n
         /\ \A i \in Outside(c, W) :
              /\ Rank(Outside(c, W), i) \in 1 .. Cardinality(Outside(c, W))
              /\ Nth(Outside(c, W), Rank(Outside(c, W), i)) = i
         /\ \A i, j \in Outside(c, W) : i < j => Rank(Outside(c, W), i) < Rank(Outside(c, W), j)
<1> DEFINE ks == Outside(c, W)
<1>1. ks \in SUBSET Int /\ IsFiniteSet(ks)
  <2>1. IsFiniteSet(1 .. Len(c)) /\ DOMAIN c = 1 .. Len(c)
    BY FS_Interval
  <2>2. ks \in SUBSET (1 .. Len(c))
    BY <2>1 DEF Outside
  <2> HIDE DEF ks
  <2>3. IsFiniteSet(ks)
    BY <2>1, <2>2, FS_Subset
  <2>4. ks \in SUBSET Int
    BY <2>2
  <2> QED
    BY <2>3, <2>4
<1> HIDE DEF ks
<1>2. /\ Cardinality(ks) \in Nat
      /\ \A n \in 1 .. Cardinality(ks) : Nth(ks, n) \in ks /\ Rank(ks, Nth(ks, n)) = n
      /\ \A i \in ks : Rank(ks, i) \in 1 .. Cardinality(ks) /\ Nth(ks, Rank(ks, i)) = i
      /\ \A i, j \in ks : i < j => Rank(ks, i) < Rank(ks, j)
  BY <1>1, Ranks, NthOf
<1> QED
  BY <1>1, <1>2 DEF ks

\* What Without() keeps.
LEMMA WithoutIs ==
  ASSUME NEW c \in Seq(Int), NEW W
  PROVE  /\ Without(c, W) \in Seq(Int)
         /\ Len(Without(c, W)) = Cardinality(Outside(c, W))
         /\ \A n \in 1 .. Cardinality(Outside(c, W)) : Without(c, W)[n] = c[Nth(Outside(c, W), n)]
<1> DEFINE ks == Outside(c, W)
           rest == [n \in 1 .. Cardinality(ks) |-> c[Nth(ks, n)]]
<1>1. Without(c, W) = rest
  BY DEF Without, Outside
<1>2. \A i \in ks : c[i] \in Int
  BY DEF Outside
<1>3. Cardinality(ks) \in Nat /\ \A n \in 1 .. Cardinality(ks) : c[Nth(ks, n)] \in Int
  BY <1>2, OutsideIs
<1> HIDE DEF ks
<1>4. rest \in Seq(Int) /\ Len(rest) = Cardinality(ks)
      /\ \A n \in 1 .. Cardinality(ks) : rest[n] = c[Nth(ks, n)]
  BY <1>3
<1> QED
  BY <1>1, <1>4 DEF ks

\* What touching words leaves in a cache: the words, what was in it besides
\* them, and no more than there is room for.
IsTouched(u, c, room, words, W) ==
  /\ u \in Seq(Int)
  /\ Len(u) = IF Len(words) + Cardinality(Outside(c, W)) < room
              THEN Len(words) + Cardinality(Outside(c, W)) ELSE room
  /\ \A p \in 1 .. Len(u) :
       u[p] = IF p <= Len(words) THEN words[p] ELSE c[Nth(Outside(c, W), p - Len(words))]

LEMMA TouchedIs ==
  ASSUME NEW c \in Seq(Int), NEW room \in Nat, NEW words \in Seq(Int)
  PROVE  IsTouched(AfterTouching(c, room, words), c, room, words, {words[k] : k \in DOMAIN words})
<1> DEFINE W == {words[k] : k \in DOMAIN words}
           u == AfterTouching(c, room, words)
           n == Cardinality(Outside(c, W))
           rest == Without(c, W)
           whole == words \o rest
           m == Len(words)
<1>1. rest \in Seq(Int) /\ Len(rest) = n /\ n \in Nat
      /\ \A k \in 1 .. n : rest[k] = c[Nth(Outside(c, W), k)]
  <2> HIDE DEF W
  <2> QED
    BY WithoutIs, OutsideIs
<1> HIDE DEF n, rest
<1>2. m \in Nat /\ DOMAIN words = 1 .. m
  OBVIOUS
<1>3. /\ whole \in Seq(Int) /\ Len(whole) = m + n
      /\ \A p \in 1 .. m + n : whole[p] = IF p <= m THEN words[p] ELSE rest[p - m]
  BY <1>1, ConcatProperties
<1>4. u = Capped(whole, room)
  BY DEF AfterTouching, rest
<1> HIDE DEF whole, m, u, W
<1>5. /\ u \in Seq(Int)
      /\ Len(u) = IF m + n < room THEN m + n ELSE room
      /\ \A p \in 1 .. Len(u) : u[p] = whole[p]
  BY <1>1, <1>2, <1>3, <1>4 DEF Capped
<1>6. ASSUME NEW p \in 1 .. Len(u)
      PROVE  u[p] = IF p <= m THEN words[p] ELSE c[Nth(Outside(c, W), p - m)]
  <2>1. p \in 1 .. m + n
    BY <1>1, <1>2, <1>5
  <2>2. u[p] = IF p <= m THEN words[p] ELSE rest[p - m]
    BY <1>3, <1>5, <2>1
  <2>3. ~(p <= m) => p - m \in 1 .. n
    BY <1>1, <1>2, <2>1
  <2> QED
    BY <1>1, <2>2, <2>3
<1>7. IsTouched(u, c, room, words, W)
  BY <1>5, <1>6 DEF m, n, IsTouched
<1> QED
  BY <1>7 DEF u, W

\* The words come first, and what stays of the others stays in its order.
OnTop(u, c, room, words) ==
  /\ u \in Seq(Int)
  /\ Len(u) <= room
  /\ Len(words) <= room => Len(words) <= Len(u)
  /\ \A p \in DOMAIN u : p <= Len(words) => u[p] = words[p]
  /\ \A p \in DOMAIN u : p > Len(words) =>
       \E i \in DOMAIN c :
         /\ c[i] = u[p]
         /\ \A k \in DOMAIN words : words[k] # u[p]
         /\ \A j \in 1 .. i - 1 :
              (\A k \in DOMAIN words : words[k] # c[j]) => \E q \in 1 .. p - 1 : u[q] = c[j]

LEMMA UsedIs ==
  ASSUME NEW c \in Seq(Int), NEW room \in Nat, NEW words \in Seq(Int)
  PROVE  OnTop(AfterTouching(c, room, words), c, room, words)
<1> DEFINE W == {words[k] : k \in DOMAIN words}
           ks == Outside(c, W)
           n == Cardinality(ks)
           m == Len(words)
           u == AfterTouching(c, room, words)
<1>0. W = {words[k] : k \in DOMAIN words}
  OBVIOUS
<1> HIDE DEF W, u
<1>1. /\ n \in Nat
      /\ \A k \in 1 .. n : Nth(ks, k) \in ks /\ Rank(ks, Nth(ks, k)) = k
      /\ \A i \in ks : Rank(ks, i) \in 1 .. n /\ Nth(ks, Rank(ks, i)) = i
      /\ \A i, j \in ks : i < j => Rank(ks, i) < Rank(ks, j)
  BY OutsideIs
<1>2. /\ u \in Seq(Int) /\ Len(u) = IF m + n < room THEN m + n ELSE room
      /\ \A p \in 1 .. Len(u) : u[p] = IF p <= m THEN words[p] ELSE c[Nth(ks, p - m)]
  <2>1. IsTouched(u, c, room, words, W)
    BY <1>0, TouchedIs DEF u
  <2> QED
    BY <2>1 DEF IsTouched
<1>3. \A i \in ks : i \in DOMAIN c /\ c[i] \notin W
  BY DEF Outside
<1>4. \A i \in DOMAIN c : c[i] \notin W => i \in ks
  BY DEF Outside
<1>5. m \in Nat /\ DOMAIN words = 1 .. m /\ DOMAIN c = 1 .. Len(c) /\ Len(c) \in Nat
  OBVIOUS
<1> HIDE DEF ks, n, m
<1>6. /\ DOMAIN u = 1 .. Len(u) /\ Len(u) \in Nat /\ Len(u) <= room /\ Len(u) <= m + n
      /\ m <= room => m <= Len(u)
  BY <1>1, <1>2, <1>5
<1>7. \A p \in DOMAIN u : p <= m => u[p] = words[p]
  BY <1>2, <1>6
<1>8. ASSUME NEW p \in DOMAIN u, p > m
      PROVE  \E i \in DOMAIN c :
               /\ c[i] = u[p]
               /\ \A k \in DOMAIN words : words[k] # u[p]
               /\ \A j \in 1 .. i - 1 :
                    (\A k \in DOMAIN words : words[k] # c[j]) => \E q \in 1 .. p - 1 : u[q] = c[j]
  <2> DEFINE l == p - m
             i == Nth(ks, l)
  <2>1. l \in 1 .. n /\ p = m + l
    <3>1. n \in Nat /\ m \in Nat /\ p \in Nat /\ p <= m + n
      BY <1>1, <1>5, <1>6
    <3> QED
      BY <1>8, <3>1
  <2>2. i \in ks /\ Rank(ks, i) = l
    BY <1>1, <2>1
  <2>3. u[p] = c[i] /\ i \in DOMAIN c /\ c[i] \notin W
    <3>1. p \in 1 .. Len(u) /\ ~(p <= m)
      BY <1>5, <1>6, <1>8
    <3> QED
      BY <1>2, <1>3, <2>2, <3>1
  <2> HIDE DEF l, i
  <2>4. ASSUME NEW j \in 1 .. i - 1, \A k \in DOMAIN words : words[k] # c[j]
        PROVE  \E q \in 1 .. p - 1 : u[q] = c[j]
    <3>1. j \in DOMAIN c /\ j < i
      BY <1>5, <2>3
    <3>2. c[j] \notin W
      BY <1>0, <2>4
    <3>3. j \in ks
      BY <1>4, <3>1, <3>2
    <3> DEFINE r == Rank(ks, j)
    <3>4. r \in 1 .. n /\ Nth(ks, r) = j /\ r < l
      BY <1>1, <2>2, <3>1, <3>3
    <3> HIDE DEF r
    <3>5. m + r \in 1 .. p - 1 /\ m + r \in 1 .. Len(u) /\ ~(m + r <= m) /\ (m + r) - m = r
      BY <1>1, <1>5, <1>6, <2>1, <3>4
    <3>6. u[m + r] = c[j]
      BY <1>2, <3>4, <3>5
    <3> QED
      BY <3>5, <3>6
  <2>5. \A k \in DOMAIN words : words[k] # u[p]
    BY <1>0, <2>3
  <2> QED
    BY <2>3, <2>4, <2>5
<1>9. \A p \in DOMAIN u : p > m =>
        \E i \in DOMAIN c :
          /\ c[i] = u[p]
          /\ \A k \in DOMAIN words : words[k] # u[p]
          /\ \A j \in 1 .. i - 1 :
               (\A k \in DOMAIN words : words[k] # c[j]) => \E q \in 1 .. p - 1 : u[q] = c[j]
  BY <1>8
<1>10. OnTop(u, c, room, words)
  BY <1>2, <1>6, <1>7, <1>9 DEF OnTop, m
<1> QED
  BY <1>10 DEF u

\* Whatever fits in between the front of a cache and its p-th line, together
\* with a set that is touched before it, is no more than the places.
LEMMA Distance ==
  ASSUME NEW c \in Seq(Int), NEW p \in DOMAIN c, NEW U, NEW V, IsFiniteSet(V),
         U \subseteq {c[q] : q \in 1 .. p - 1} \cup V
  PROVE  /\ Cardinality(V \ {c[q] : q \in 1 .. p - 1}) \in Nat
         /\ Cardinality(U) <= p - 1 + Cardinality(V \ {c[q] : q \in 1 .. p - 1})
<1> DEFINE B == {c[q] : q \in 1 .. p - 1}
           f == [q \in 1 .. p - 1 |-> c[q]]
<1>1. p \in Nat \ {0} /\ IsFiniteSet(1 .. p - 1) /\ Cardinality(1 .. p - 1) = p - 1
  <2>1. p \in Nat \ {0}
    OBVIOUS
  <2>2. 1 \in Int /\ p - 1 \in Int
    BY <2>1
  <2>3. IsFiniteSet(1 .. p - 1) /\ Cardinality(1 .. p - 1) = IF 1 > p - 1 THEN 0 ELSE (p - 1) - 1 + 1
    BY <2>2, FS_Interval
  <2> QED
    BY <2>1, <2>3
<1>2. f \in Surjection(1 .. p - 1, B)
  BY DEF Surjection
<1>3. IsFiniteSet(B) /\ Cardinality(B) <= p - 1
  BY <1>1, <1>2, FS_Surjection
<1> HIDE DEF B, f
<1> DEFINE M == V \ B
<1>4. IsFiniteSet(M)
  BY FS_Difference
<1>5. U \in SUBSET (B \cup M)
  BY DEF B
<1> HIDE DEF M
<1>6. IsFiniteSet(B \cup M) /\ Cardinality(B \cup M) = Cardinality(B) + Cardinality(M) - Cardinality(B \cap M)
  BY <1>3, <1>4, FS_Union
<1>7. IsFiniteSet(B \cap M)
  BY <1>3, FS_Intersection
<1>8. Cardinality(B) \in Nat /\ Cardinality(M) \in Nat /\ Cardinality(B \cap M) \in Nat
  BY <1>3, <1>4, <1>7, FS_CardinalityType
<1>9. IsFiniteSet(U) /\ Cardinality(U) <= Cardinality(B \cup M)
  BY <1>5, <1>6, FS_Subset
<1>10. Cardinality(U) \in Nat
  BY <1>9, FS_CardinalityType
<1>11. Cardinality(U) <= p - 1 + Cardinality(M)
  BY <1>1, <1>3, <1>6, <1>8, <1>9, <1>10
<1> QED
  BY <1>8, <1>11 DEF M, B

-----------------------------------------------------------------------------
(* Sorting.                                                                *)

LEMMA FirstNumbers ==
  ASSUME NEW n \in Nat
  PROVE  IsFiniteSet(1 .. n) /\ Cardinality(1 .. n) = n
  <1>1. 1 \in Int /\ n \in Int /\ (IF 1 > n THEN 0 ELSE n - 1 + 1) = n
    OBVIOUS
  <1>2. IsFiniteSet(1 .. n) /\ Cardinality(1 .. n) = IF 1 > n THEN 0 ELSE n - 1 + 1
    BY <1>1, FS_Interval
  <1> QED
    BY <1>1, <1>2

\* r is s in another order, smallest first; p says where its elements come from.
SortedBy(r, s, p) ==
  /\ r \in Seq(Int) /\ Len(r) = Len(s)
  /\ p \in Bijection(1 .. Len(s), 1 .. Len(s))
  /\ \A k \in 1 .. Len(s) : r[k] = s[p[k]]
  /\ \A k, l \in 1 .. Len(s) : k <= l => r[k] <= r[l]

\* Every place is taken by one element, smaller ones before larger ones.
LEMMA Places ==
  ASSUME NEW s \in Seq(Int)
  PROVE  /\ \A a \in 1 .. Len(s) : Place(s, a) \in 1 .. Len(s)
         /\ \A a, b \in 1 .. Len(s) :
              s[a] < s[b] \/ (s[a] = s[b] /\ a < b) => Place(s, a) < Place(s, b)
  <1> DEFINE Before(a) == {m \in DOMAIN s : s[m] < s[a] \/ (s[m] = s[a] /\ m <= a)}
  <1>1. DOMAIN s = 1 .. Len(s) /\ Len(s) \in Nat /\ \A m \in 1 .. Len(s) : s[m] \in Int /\ m \in Int
    BY LenProperties, ElementOfSeq
  <1>2. IsFiniteSet(1 .. Len(s)) /\ Cardinality(1 .. Len(s)) = Len(s)
    BY <1>1, FirstNumbers
  <1>3. ASSUME NEW a \in 1 .. Len(s)
        PROVE  /\ IsFiniteSet(Before(a)) /\ Cardinality(Before(a)) \in Nat
               /\ Cardinality(Before(a)) <= Len(s) /\ Cardinality(Before(a)) # 0
    <2>1. Before(a) \subseteq 1 .. Len(s) /\ a \in Before(a)
      BY <1>1
    <2> HIDE DEF Before
    <2> QED
      BY <1>2, <2>1, FS_Subset, FS_EmptySet, FS_CardinalityType
  <1>4. ASSUME NEW a \in 1 .. Len(s), NEW b \in 1 .. Len(s),
               s[a] < s[b] \/ (s[a] = s[b] /\ a < b)
        PROVE  Cardinality(Before(a)) < Cardinality(Before(b))
    <2>1. \A m \in DOMAIN s : m \in Before(a) => m \in Before(b)
      BY <1>1, <1>4
    <2>2. b \in Before(b) /\ b \notin Before(a)
      BY <1>1, <1>4
    <2>3. Before(a) \subseteq Before(b) /\ Before(a) # Before(b)
      BY <2>1, <2>2
    <2> HIDE DEF Before
    <2>4. Cardinality(Before(a)) <= Cardinality(Before(b))
          /\ (Cardinality(Before(a)) = Cardinality(Before(b)) => Before(a) = Before(b))
      BY <1>3, <2>3, FS_Subset
    <2> QED
      BY <1>3, <2>3, <2>4
  <1>5. \A a : Place(s, a) = Cardinality(Before(a))
    BY DEF Place
  <1> HIDE DEF Before
  <1> QED
    BY <1>1, <1>3, <1>4, <1>5

LEMMA AscendingIs ==
  ASSUME NEW s \in Seq(Int)
  PROVE  \E p : SortedBy(Ascending(s), s, p)
  <1> DEFINE n == Len(s)
             K == 1 .. n
             place == [a \in K |-> Place(s, a)]
             p == [c \in K |-> CHOOSE a \in K : Place(s, a) = c]
             u == [c \in DOMAIN s |-> s[CHOOSE a \in DOMAIN s : Place(s, a) = c]]
  <1>1. n \in Nat /\ DOMAIN s = K /\ \A m \in K : s[m] \in Int /\ m \in Int
    BY LenProperties, ElementOfSeq
  <1>2. /\ \A a \in K : Place(s, a) \in K
        /\ \A a, b \in K : s[a] < s[b] \/ (s[a] = s[b] /\ a < b) => Place(s, a) < Place(s, b)
    BY Places
  <1>3. \A a, b \in K : Place(s, a) = Place(s, b) => a = b
    <2> SUFFICES ASSUME NEW a \in K, NEW b \in K, Place(s, a) = Place(s, b), a # b PROVE FALSE
      OBVIOUS
    <2>1. \/ s[a] < s[b] \/ (s[a] = s[b] /\ a < b)
          \/ s[b] < s[a] \/ (s[b] = s[a] /\ b < a)
      BY <1>1
    <2>2. Place(s, a) \in Int
      BY <1>1, <1>2
    <2> HIDE DEF K
    <2> QED
      BY <1>2, <2>1, <2>2
  <1>4. IsFiniteSet(K) /\ Cardinality(K) = n
    BY <1>1, FirstNumbers
  <1>5. place \in Injection(K, K)
    <2>1. place \in [K -> K] /\ \A a, b \in K : place[a] = place[b] => a = b
      BY <1>2, <1>3
    <2> HIDE DEF place, K
    <2> QED
      BY <2>1 DEF Injection, IsInjective
  <1>6. place \in Surjection(K, K)
    <2> HIDE DEF place, K
    <2> QED
      BY <1>4, <1>5, FS_Injection
  <1>7. \A c \in K : \E a \in K : Place(s, a) = c
    <2>1. \A c \in K : \E a \in K : place[a] = c
      <3> HIDE DEF place, K
      <3> QED
        BY <1>6 DEF Surjection
    <2> QED
      BY <2>1
  <1>8. ASSUME NEW c \in K PROVE p[c] \in K /\ Place(s, p[c]) = c
    BY <1>7
  <1>9. p \in Bijection(K, K)
    <2>1. p \in [K -> K] /\ \A c, d \in K : p[c] = p[d] => c = d
      <3>1. \A c \in K : p[c] \in K
        BY <1>8
      <3>2. \A c, d \in K : p[c] = p[d] => c = d
        <4> HIDE DEF p, K
        <4> QED
          BY <1>8
      <3> QED
        BY <3>1, <3>2
    <2>2. \A a \in K : \E c \in K : p[c] = a
      <3> SUFFICES ASSUME NEW a \in K PROVE p[Place(s, a)] = a /\ Place(s, a) \in K
        OBVIOUS
      <3>1. Place(s, a) \in K
        BY <1>2
      <3>2. p[Place(s, a)] \in K /\ Place(s, p[Place(s, a)]) = Place(s, a)
        BY <1>8, <3>1
      <3> HIDE DEF p, K
      <3> QED
        BY <1>3, <3>1, <3>2
    <2> HIDE DEF p, K
    <2>3. p \in Injection(K, K)
      BY <2>1 DEF Injection, IsInjective
    <2>4. p \in Surjection(K, K)
      BY <2>1, <2>2 DEF Surjection
    <2> QED
      BY <2>3, <2>4 DEF Bijection
  <1>10. \A c \in K : u[c] = s[p[c]] /\ u[c] \in Int
    <2> SUFFICES ASSUME NEW c \in K PROVE u[c] = s[p[c]] /\ u[c] \in Int
      OBVIOUS
    <2>1. u[c] = s[p[c]]
      BY <1>1
    <2>2. p[c] \in K
      BY <1>8
    <2> HIDE DEF u, p, K
    <2> QED
      BY <1>1, <2>1, <2>2
  <1>11. u \in Seq(Int) /\ Len(u) = n
    <2>1. u = [c \in 1 .. n |-> u[c]]
      BY <1>1
    <2> HIDE DEF u, p
    <2> QED
      BY <1>1, <1>10, <2>1
  <1>12. Ascending(s) = SubSeq(u, 1, n)
    BY DEF Ascending
  <1>13. SubSeq(u, 1, n) = u
    <2> HIDE DEF u, p
    <2>1. SubSeq(u, 1, Len(u)) = u
      BY <1>11, SubSeqFull
    <2> QED
      BY <1>11, <2>1
  <1>14. ASSUME NEW c \in K, NEW d \in K, c <= d PROVE u[c] <= u[d]
    <2> SUFFICES ASSUME u[d] < u[c] PROVE FALSE
      <3> HIDE DEF u
      <3> QED
        BY <1>10
    <2>1. s[p[d]] < s[p[c]]
      <3> HIDE DEF u, p
      <3> QED
        BY <1>10
    <2>2. Place(s, p[d]) < Place(s, p[c])
      <3> HIDE DEF p
      <3> QED
        BY <1>2, <1>8, <2>1
    <2>3. d < c
      <3> HIDE DEF p
      <3> QED
        BY <1>8, <2>2
    <2> QED
      BY <1>14, <2>3
  <1> HIDE DEF u, p, K
  <1>15. SortedBy(u, s, p)
    BY <1>9, <1>10, <1>11, <1>14 DEF SortedBy, K
  <1> QED
    BY <1>12, <1>13, <1>15
=============================================================================

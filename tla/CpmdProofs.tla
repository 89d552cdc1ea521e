------------------------------ MODULE CpmdProofs ------------------------------
(***************************************************************************)
(* The properties of CpmdModel, proved for all topologies, traces, sizes,  *)
(* leftovers and numbers of starts.                                        *)
(*                                                                         *)
(* The argument, in the order of the sections: what is left of the delays  *)
(* without the outliers is the middle of a sorted list; the types of cpu 0 *)
(* are, on a regular topology, those migrationType() returns; what the     *)
(* directories hold stays of its type (DirInv); a size that was grouped    *)
(* stays grouped (GroupInv), and a bijection between the rows of a file    *)
(* and the lines of the traces counts the delays; and what is summed up is *)
(* taken from one of the files listed (SummaryInv).                        *)
(***************************************************************************)
EXTENDS CpmdModel, CommonLemmas

-----------------------------------------------------------------------------
(* What is left of the delays without the outliers.                        *)

Rising(seq) == \A a, b \in 1 .. Len(seq) : a <= b => seq[a] <= seq[b]

\* A set of numbers that has with a number all those before it.
LEMMA Initially ==
  ASSUME NEW n \in Nat, NEW S \in SUBSET (1 .. n), \A x \in S : \A y \in 1 .. x : y \in S
  PROVE  /\ Cardinality(S) \in 0 .. n
         /\ S = 1 .. Cardinality(S)
  <1> DEFINE T == {x \in 1 .. n + 1 : x \notin S}
  <1>1. T \in SUBSET Nat /\ n + 1 \in T
    OBVIOUS
  <1>2. PICK z \in T : \A y \in T : z <= y
    <2> HIDE DEF T
    <2> QED
      BY <1>1, LeastMember
  <1>3. z \in 1 .. n + 1 /\ z \notin S
    BY <1>2
  <1>4. \A y \in 1 .. z - 1 : y \in S
    BY <1>2, <1>3
  <1>5. \A x \in S : x \in 1 .. z - 1
    BY <1>3
  <1>6. S = 1 .. z - 1 /\ z - 1 \in Nat
    <2>1. z - 1 \in Nat
      BY <1>3
    <2> DEFINE Z == 1 .. z - 1
    <2>2. (\A y \in Z : y \in S) /\ \A x \in S : x \in Z
      BY <1>4, <1>5
    <2> HIDE DEF Z
    <2>3. S = Z
      BY <2>2
    <2> QED
      BY <2>1, <2>3 DEF Z
  <1>7. Cardinality(S) = z - 1
    BY <1>6, FirstNumbers
  <1> QED
    BY <1>3, <1>6, <1>7

\* Half of the delays at least are not cut off.
LEMMA MiddleHalf ==
  ASSUME NEW seq \in Seq(Int), Len(seq) >= 1, Rising(seq)
  PROVE  \E a, b \in 1 .. Len(seq) :
           /\ 2 * (b - a + 1) >= Len(seq)
           /\ MinCutoff(seq) <= 8 * seq[a] /\ 8 * seq[b] <= MaxCutoff(seq)
  <1> DEFINE n == Len(seq)
             q == (n - 1) \div 4
             r == (n - 1) % 4
             low == Percentile(seq, 1)
             high == Percentile(seq, 3)
  <1>1. n \in Nat /\ n >= 1 /\ \A m \in 1 .. n : seq[m] \in Int
    BY LenProperties, ElementOfSeq
  <1>2. q \in Nat /\ r \in 0 .. 3 /\ n = 4 * q + r + 1
    BY <1>1
  <1>3. \A a, b \in 1 .. n : a <= b => seq[a] <= seq[b]
    BY DEF Rising
  <1>4. /\ MinCutoff(seq) = 2 * low - 3 * (high - low)
        /\ MaxCutoff(seq) = 2 * high + 3 * (high - low)
    BY DEF MinCutoff, MaxCutoff
  <1>5. low = IF r = 0 THEN 4 * seq[q + 1] ELSE 4 * seq[q + 1] + r * (seq[q + 2] - seq[q + 1])
    <2>1. 1 * (n - 1) = n - 1 /\ q + 1 + 1 = q + 2
      BY <1>1, <1>2
    <2> QED
      BY <2>1 DEF Percentile
  <1>6. high = IF (3 * (n - 1)) % 4 = 0 THEN 4 * seq[(3 * (n - 1)) \div 4 + 1]
               ELSE 4 * seq[(3 * (n - 1)) \div 4 + 1]
                    + ((3 * (n - 1)) % 4) * (seq[(3 * (n - 1)) \div 4 + 1 + 1] - seq[(3 * (n - 1)) \div 4 + 1])
    BY DEF Percentile
  <1> DEFINE Goal == \E a, b \in 1 .. Len(seq) :
                       /\ 2 * (b - a + 1) >= Len(seq)
                       /\ MinCutoff(seq) <= 8 * seq[a] /\ 8 * seq[b] <= MaxCutoff(seq)
             Half(a, b) == /\ a \in 1 .. n /\ b \in 1 .. n /\ 2 * (b - a + 1) >= n
                           /\ 2 * low - 3 * (high - low) <= 8 * seq[a]
                           /\ 8 * seq[b] <= 2 * high + 3 * (high - low)
  <1>w. \A a, b : Half(a, b) => Goal
    BY <1>4
  <1> SUFFICES Goal
    OBVIOUS
  <1> HIDE DEF n, q, r, low, high, Goal, Half
  <1>7. CASE r = 0
    <2> DEFINE x1 == seq[q + 1]
               x3 == seq[3 * q + 1]
    <2>1. /\ (3 * (n - 1)) % 4 = 0 /\ (3 * (n - 1)) \div 4 = 3 * q
          /\ q + 1 \in 1 .. n /\ 3 * q + 1 \in 1 .. n /\ q + 1 <= 3 * q + 1
      BY <1>2, <1>7
    <2>2. x1 \in Int /\ x3 \in Int /\ x1 <= x3
      BY <1>1, <1>3, <2>1
    <2>3. low = 4 * x1 /\ high = 4 * x3
      BY <1>5, <1>6, <1>7, <2>1
    <2> HIDE DEF x1, x3
    <2>4. /\ 2 * low - 3 * (high - low) <= 8 * x1
          /\ 8 * x3 <= 2 * high + 3 * (high - low)
      BY <2>2, <2>3
    <2>5. Half(q + 1, 3 * q + 1)
      <3> DEFINE a == q + 1
                 b == 3 * q + 1
      <3>1. a \in 1 .. n /\ b \in 1 .. n /\ 2 * (b - a + 1) >= n
        BY <1>2, <1>7
      <3>2. 2 * low - 3 * (high - low) <= 8 * seq[a] /\ 8 * seq[b] <= 2 * high + 3 * (high - low)
        BY <2>4 DEF x1, x3
      <3> HIDE DEF a, b
      <3>3. Half(a, b)
        BY <3>1, <3>2 DEF Half
      <3> QED
        BY <3>3 DEF a, b
    <2> QED
      BY <1>w, <2>5
  <1>8. CASE r = 1
    <2> DEFINE x1 == seq[q + 1]
               x2 == seq[q + 2]
               x3 == seq[3 * q + 1]
               x4 == seq[3 * q + 2]
    <2>1. /\ (3 * (n - 1)) % 4 = 3 /\ (3 * (n - 1)) \div 4 = 3 * q + 0
          /\ q + 1 \in 1 .. n /\ q + 2 \in 1 .. n /\ 3 * q + 1 \in 1 .. n /\ 3 * q + 2 \in 1 .. n
          /\ 3 * q + 0 = 3 * q /\ 3 * q + 1 + 1 = 3 * q + 2
          /\ q + 1 <= q + 2 /\ 3 * q + 1 <= 3 * q + 2 /\ q + 2 <= 3 * q + 2 /\ q + 1 <= 3 * q + 1
          /\ (q + 2 <= 3 * q + 1 \/ (q + 1 = 3 * q + 1 /\ q + 2 = 3 * q + 2))
      BY <1>2, <1>8
    <2>2. /\ x1 \in Int /\ x2 \in Int /\ x3 \in Int /\ x4 \in Int
          /\ x1 <= x2 /\ x3 <= x4 /\ x1 <= x3 /\ (x2 <= x3 \/ (x1 = x3 /\ x2 = x4))
      BY <1>1, <1>3, <2>1
    <2>3. low = 4 * x1 + 1 * (x2 - x1)
      BY <1>5, <1>8
    <2>4. high = 4 * x3 + 3 * (x4 - x3)
      BY <1>6, <2>1
    <2> HIDE DEF x1, x2, x3, x4
    <2>5. /\ 2 * low - 3 * (high - low) <= 8 * x1
          /\ 8 * x3 <= 2 * high + 3 * (high - low)
      <3>1. low = 3 * x1 + 1 * x2 /\ high = 1 * x3 + 3 * x4
        BY <2>2, <2>3, <2>4
      <3>2. low \in Int /\ high \in Int
        BY <2>2, <3>1
      <3> QED
        BY <2>2, <3>1, <3>2
    <2>6. Half(q + 1, 3 * q + 1)
      <3> DEFINE a == q + 1
                 b == 3 * q + 1
      <3>1. a \in 1 .. n /\ b \in 1 .. n /\ 2 * (b - a + 1) >= n
        BY <1>2, <1>8
      <3>2. 2 * low - 3 * (high - low) <= 8 * seq[a] /\ 8 * seq[b] <= 2 * high + 3 * (high - low)
        BY <2>5 DEF x1, x3
      <3> HIDE DEF a, b
      <3>3. Half(a, b)
        BY <3>1, <3>2 DEF Half
      <3> QED
        BY <3>3 DEF a, b
    <2> QED
      BY <1>w, <2>6
  <1>9. CASE r = 2
    <2> DEFINE x1 == seq[q + 1]
               x2 == seq[q + 2]
               x3 == seq[3 * q + 2]
               x4 == seq[3 * q + 3]
    <2>1. /\ (3 * (n - 1)) % 4 = 2 /\ (3 * (n - 1)) \div 4 = 3 * q + 1
          /\ q + 1 \in 1 .. n /\ q + 2 \in 1 .. n /\ 3 * q + 2 \in 1 .. n /\ 3 * q + 3 \in 1 .. n
          /\ 3 * q + 1 + 1 = 3 * q + 2 /\ 3 * q + 2 + 1 = 3 * q + 3
          /\ q + 1 <= q + 2 /\ 3 * q + 2 <= 3 * q + 3 /\ q + 2 <= 3 * q + 3 /\ q + 1 <= 3 * q + 2
          /\ q + 2 <= 3 * q + 2
      BY <1>2, <1>9
    <2>2. /\ x1 \in Int /\ x2 \in Int /\ x3 \in Int /\ x4 \in Int
          /\ x1 <= x2 /\ x3 <= x4 /\ x1 <= x3 /\ x2 <= x3
      BY <1>1, <1>3, <2>1
    <2>3. low = 4 * x1 + 2 * (x2 - x1)
      BY <1>5, <1>9
    <2>4. high = 4 * x3 + 2 * (x4 - x3)
      BY <1>6, <2>1
    <2> HIDE DEF x1, x2, x3, x4
    <2>5. /\ 2 * low - 3 * (high - low) <= 8 * x1
          /\ 8 * x3 <= 2 * high + 3 * (high - low)
      <3>1. low = 2 * x1 + 2 * x2 /\ high = 2 * x3 + 2 * x4
        BY <2>2, <2>3, <2>4
      <3>2. low \in Int /\ high \in Int
        BY <2>2, <3>1
      <3> QED
        BY <2>2, <3>1, <3>2
    <2>6. Half(q + 1, 3 * q + 2)
      <3> DEFINE a == q + 1
                 b == 3 * q + 2
      <3>1. a \in 1 .. n /\ b \in 1 .. n /\ 2 * (b - a + 1) >= n
        BY <1>2, <1>9
      <3>2. 2 * low - 3 * (high - low) <= 8 * seq[a] /\ 8 * seq[b] <= 2 * high + 3 * (high - low)
        BY <2>5 DEF x1, x3
      <3> HIDE DEF a, b
      <3>3. Half(a, b)
        BY <3>1, <3>2 DEF Half
      <3> QED
        BY <3>3 DEF a, b
    <2> QED
      BY <1>w, <2>6
  <1>10. CASE r = 3
    <2> DEFINE x1 == seq[q + 1]
               x2 == seq[q + 2]
               x3 == seq[3 * q + 3]
               x4 == seq[3 * q + 4]
    <2>1. /\ (3 * (n - 1)) % 4 = 1 /\ (3 * (n - 1)) \div 4 = 3 * q + 2
          /\ q + 1 \in 1 .. n /\ q + 2 \in 1 .. n /\ 3 * q + 3 \in 1 .. n /\ 3 * q + 4 \in 1 .. n
          /\ 3 * q + 2 + 1 = 3 * q + 3 /\ 3 * q + 3 + 1 = 3 * q + 4
          /\ q + 1 <= q + 2 /\ 3 * q + 3 <= 3 * q + 4 /\ q + 2 <= 3 * q + 4 /\ q + 1 <= 3 * q + 3
          /\ q + 2 <= 3 * q + 3
      BY <1>2, <1>10
    <2>2. /\ x1 \in Int /\ x2 \in Int /\ x3 \in Int /\ x4 \in Int
          /\ x1 <= x2 /\ x3 <= x4 /\ x1 <= x3 /\ x2 <= x3
      BY <1>1, <1>3, <2>1
    <2>3. low = 4 * x1 + 3 * (x2 - x1)
      BY <1>5, <1>10
    <2>4. high = 4 * x3 + 1 * (x4 - x3)
      BY <1>6, <2>1
    <2> HIDE DEF x1, x2, x3, x4
    <2>5. /\ 2 * low - 3 * (high - low) <= 8 * x2
          /\ 8 * x3 <= 2 * high + 3 * (high - low)
      <3>1. low = 1 * x1 + 3 * x2 /\ high = 3 * x3 + 1 * x4
        BY <2>2, <2>3, <2>4
      <3>2. low \in Int /\ high \in Int
        BY <2>2, <3>1
      <3> QED
        BY <2>2, <3>1, <3>2
    <2>6. Half(q + 2, 3 * q + 3)
      <3> DEFINE a == q + 2
                 b == 3 * q + 3
      <3>1. a \in 1 .. n /\ b \in 1 .. n /\ 2 * (b - a + 1) >= n
        BY <1>2, <1>10
      <3>2. 2 * low - 3 * (high - low) <= 8 * seq[a] /\ 8 * seq[b] <= 2 * high + 3 * (high - low)
        BY <2>5 DEF x2, x3
      <3> HIDE DEF a, b
      <3>3. Half(a, b)
        BY <3>1, <3>2 DEF Half
      <3> QED
        BY <3>3 DEF a, b
    <2> QED
      BY <1>w, <2>6
  <1> QED
    BY <1>2, <1>7, <1>8, <1>9, <1>10

\* The delays between the cutoffs.
Inside(seq) == {x \in ToSet(seq) : MinCutoff(seq) <= 8 * x /\ 8 * x <= MaxCutoff(seq)}

LEMMA CutoffType ==
  ASSUME NEW seq \in Seq(Int), Len(seq) >= 1
  PROVE  MinCutoff(seq) \in Int /\ MaxCutoff(seq) \in Int
  <1> DEFINE n == Len(seq)
  <1>1. n \in Nat /\ n >= 1 /\ \A m \in 1 .. n : seq[m] \in Int
    BY LenProperties, ElementOfSeq
  <1>2. ASSUME NEW quarter \in {1, 3} PROVE Percentile(seq, quarter) \in Int
    <2> DEFINE at == quarter * (n - 1)
               i == at \div 4 + 1
    <2>1. at \in Nat /\ at <= 3 * (n - 1)
      BY <1>1, <1>2
    <2>2. Percentile(seq, quarter) = IF at % 4 = 0 THEN 4 * seq[i]
                                     ELSE 4 * seq[i] + (at % 4) * (seq[i + 1] - seq[i])
      BY DEF Percentile
    <2> HIDE DEF at, n
    <2>3. at % 4 \in Int /\ i \in 1 .. n /\ (at % 4 # 0 => i + 1 \in 1 .. n)
      BY <1>1, <2>1
    <2> HIDE DEF i
    <2>4. seq[i] \in Int /\ (at % 4 # 0 => seq[i + 1] \in Int)
      BY <1>1, <2>3
    <2> QED
      BY <2>2, <2>3, <2>4
  <1> DEFINE low == Percentile(seq, 1)
             high == Percentile(seq, 3)
  <1>3. low \in Int /\ high \in Int
    BY <1>2
  <1>4. /\ MinCutoff(seq) = 2 * low - 3 * (high - low)
        /\ MaxCutoff(seq) = 2 * high + 3 * (high - low)
    BY DEF MinCutoff, MaxCutoff
  <1> HIDE DEF low, high
  <1> QED
    BY <1>3, <1>4

\* apply_iqr() (cpmd_util.py) leaves the delays between the cutoffs, at least
\* half of them.
LEMMA IqrKeeps ==
  ASSUME NEW seq \in Seq(Int), Len(seq) >= 1, Rising(seq)
  PROVE  LET kept == ApplyIqr(seq) IN
         /\ Len(kept) \in Nat /\ Len(kept) >= 1 /\ 2 * Len(kept) >= Len(seq)
         /\ kept[1] \in Int /\ kept[Len(kept)] \in Int
         /\ {kept[1], kept[Len(kept)]} \subseteq Inside(seq)
         /\ \A x \in Inside(seq) : kept[1] <= x /\ x <= kept[Len(kept)]
  <1> DEFINE n == Len(seq)
             lo == MinCutoff(seq)
             hi == MaxCutoff(seq)
             B == {m \in DOMAIN seq : 8 * seq[m] < lo}
             U == {m \in DOMAIN seq : 8 * seq[m] <= hi}
             below == Cardinality(B)
             upto == Cardinality(U)
             kept == SubSeq(seq, below + 1, upto)
  <1>1. n \in Nat /\ DOMAIN seq = 1 .. n /\ \A m \in 1 .. n : seq[m] \in Int
    BY LenProperties, ElementOfSeq
  <1>2. lo \in Int /\ hi \in Int
    BY CutoffType
  <1>3. \A a, b \in 1 .. n : a <= b => seq[a] <= seq[b]
    BY DEF Rising
  <1>4. PICK a, b \in 1 .. n : 2 * (b - a + 1) >= n /\ lo <= 8 * seq[a] /\ 8 * seq[b] <= hi
    BY MiddleHalf
  <1>5. ApplyIqr(seq) = kept
    BY DEF ApplyIqr
  <1> HIDE DEF n, lo, hi
  <1>6. B = 1 .. below /\ below \in 0 .. n
    <2>1. B \in SUBSET (1 .. n)
      BY <1>1
    <2>2. ASSUME NEW x \in B, NEW y \in 1 .. x PROVE y \in B
      <3>1. x \in 1 .. n /\ y \in 1 .. n /\ y <= x /\ 8 * seq[x] < lo
        BY <1>1, <2>2
      <3>2. seq[y] <= seq[x] /\ seq[y] \in Int /\ seq[x] \in Int
        BY <1>1, <1>3, <3>1
      <3> QED
        BY <1>1, <1>2, <3>1, <3>2
    <2> HIDE DEF B
    <2> QED
      BY <1>1, <2>1, <2>2, Initially
  <1>7. U = 1 .. upto /\ upto \in 0 .. n
    <2>1. U \in SUBSET (1 .. n)
      BY <1>1
    <2>2. ASSUME NEW x \in U, NEW y \in 1 .. x PROVE y \in U
      <3>1. x \in 1 .. n /\ y \in 1 .. n /\ y <= x /\ 8 * seq[x] <= hi
        BY <1>1, <2>2
      <3>2. seq[y] <= seq[x] /\ seq[y] \in Int /\ seq[x] \in Int
        BY <1>1, <1>3, <3>1
      <3> QED
        BY <1>1, <1>2, <3>1, <3>2
    <2> HIDE DEF U
    <2> QED
      BY <1>1, <2>1, <2>2, Initially
  <1>8. a \notin B /\ b \in U
    BY <1>1, <1>2, <1>4
  <1>9. \A m \in 1 .. n : lo <= 8 * seq[m] /\ 8 * seq[m] <= hi <=> m \notin B /\ m \in U
    BY <1>1, <1>2
  <1> HIDE DEF B, U
  <1>10. below < a /\ b <= upto
    BY <1>6, <1>7, <1>8
  <1> HIDE DEF below, upto
  <1>11. below + 1 \in 1 .. n /\ upto \in 1 .. n /\ below + 1 <= upto /\ 2 * (upto - below) >= n
    BY <1>1, <1>4, <1>6, <1>7, <1>10
  <1>12. /\ Len(kept) = upto - below
         /\ \A i \in 1 .. upto - below : kept[i] = seq[below + i]
    <2>1. below + 1 \in 1 .. Len(seq) + 1 /\ upto \in 0 .. Len(seq)
      BY <1>11 DEF n
    <2>2. /\ Len(kept) = IF below + 1 <= upto THEN upto - (below + 1) + 1 ELSE 0
          /\ \A i \in 1 .. upto - (below + 1) + 1 : kept[i] = seq[(below + 1) + i - 1]
      BY <2>1, SubSeqProperties
    <2> HIDE DEF kept
    <2>3. upto - (below + 1) + 1 = upto - below /\ \A i \in 1 .. upto - below : (below + 1) + i - 1 = below + i
      BY <1>6, <1>7, <1>11
    <2> QED
      BY <1>11, <2>2, <2>3
  <1> HIDE DEF kept
  <1>13. kept[1] = seq[below + 1] /\ kept[Len(kept)] = seq[upto]
    <2>1. 1 \in 1 .. upto - below /\ upto - below \in 1 .. upto - below /\ below + (upto - below) = upto
      BY <1>6, <1>7, <1>11
    <2> QED
      BY <1>12, <2>1
  <1>14. below + 1 \notin B /\ below + 1 \in U /\ upto \notin B /\ upto \in U
    BY <1>6, <1>7, <1>11
  <1>15. /\ seq[below + 1] \in ToSet(seq) /\ seq[upto] \in ToSet(seq)
         /\ \A x \in ToSet(seq) : \E m \in 1 .. n : x = seq[m]
    BY <1>1, <1>11 DEF ToSet
  <1>16. {seq[below + 1], seq[upto]} \subseteq Inside(seq)
    BY <1>9, <1>11, <1>14, <1>15 DEF Inside, lo, hi
  <1>17. ASSUME NEW x \in Inside(seq) PROVE seq[below + 1] <= x /\ x <= seq[upto]
    <2>1. PICK m \in 1 .. n : x = seq[m]
      BY <1>15 DEF Inside
    <2>2. m \notin B /\ m \in U
      BY <1>9, <2>1 DEF Inside, lo, hi
    <2>3. below + 1 <= m /\ m <= upto
      BY <1>6, <1>7, <2>1, <2>2
    <2> QED
      BY <1>3, <1>11, <2>1, <2>3
  <1>18. Len(kept) \in Nat /\ Len(kept) >= 1 /\ 2 * Len(kept) >= Len(seq)
    BY <1>11, <1>12 DEF n
  <1>19. kept[1] \in Int /\ kept[Len(kept)] \in Int
    BY <1>1, <1>11, <1>13
  <1> QED
    BY <1>5, <1>13, <1>16, <1>17, <1>18, <1>19

-----------------------------------------------------------------------------
(* The types of migration of a regular topology.                           *)

\* A topology whose cpus have lists of caches.
Listing(tp) == 0 \in CpusOf(tp) /\ \A cpu \in CpusOf(tp) : tp[cpu] \in Seq(Cache)

LEMMA LevelNames ==
  /\ DOMAIN LevelName = 1 .. 3
  /\ \A l, m \in 1 .. 3 : LevelName[l] = LevelName[m] => l = m
  /\ \A l \in 1 .. 3 : LevelName[l] \notin {"MEMORY", "PREEMPTION"} /\ LevelName[l] \in TypeNames
  /\ {"MEMORY", "PREEMPTION"} \subseteq TypeNames
  /\ \A c \in Cache :
       /\ c.level \in 1 .. 3 /\ c.level \in Int
       /\ c.type \in {"Data", "Unified"} <=> c.type \notin {"Instruction", "Unknown"}
  <1>1. DOMAIN LevelName = 1 .. 3
    BY DEF LevelName
  <1>2. LevelName[1] = "L1" /\ LevelName[2] = "L2" /\ LevelName[3] = "L3"
    BY DEF LevelName
  <1>3. \A l \in 1 .. 3 : l = 1 \/ l = 2 \/ l = 3
    OBVIOUS
  <1>4. \A l \in 1 .. 3 : LevelName[l] \in ToSet(LevelName)
    BY <1>1 DEF ToSet
  <1>5. \A c \in Cache : c.level \in 1 .. 3 /\ c.type \in {"Data", "Instruction", "Unified", "Unknown"}
    BY <1>1 DEF Cache
  <1>6. \A l, m \in 1 .. 3 : LevelName[l] = LevelName[m] => l = m
    BY <1>2, <1>3
  <1>7. \A l \in 1 .. 3 : LevelName[l] \notin {"MEMORY", "PREEMPTION"}
    BY <1>2, <1>3
  <1> QED
    BY <1>1, <1>4, <1>5, <1>6, <1>7 DEF TypeNames

\* The first cache two cpus share is their nearest.
LEMMA NearestIsFirst ==
  ASSUME NEW tp, Listing(tp), Regular(tp), NEW s \in CpusOf(tp), NEW d \in CpusOf(tp)
  PROVE  MigrationType(tp, s, d) = Nearest(tp, s, d)
  <1> DEFINE shared == SharedAt(tp, s, d)
             levels == SharedLevels(tp, s, d)
             list == tp[s]
             i == Nth(shared, 1)
  <1>1. /\ list \in Seq(Cache) /\ DOMAIN list = 1 .. Len(list) /\ Len(list) \in Nat
        /\ \A j \in DOMAIN list : j \in Int /\ list[j] \in Cache
    <2>1. list \in Seq(Cache)
      BY DEF Listing
    <2> HIDE DEF list
    <2>2. DOMAIN list = 1 .. Len(list) /\ Len(list) \in Nat
      BY <2>1, LenProperties
    <2> QED
      BY <2>1, <2>2, ElementOfSeq
  <1>2. shared \subseteq DOMAIN list
    BY DEF SharedAt
  <1>3. levels = {list[j].level : j \in DataCaches(tp, s) \cap shared}
    BY DEF SharedLevels
  <1>4. CASE s = d
    BY <1>4 DEF MigrationType, Nearest
  <1>5. CASE s # d /\ shared = {}
    <2>1. levels = {}
      BY <1>3, <1>5
    <2> QED
      BY <1>5, <2>1 DEF MigrationType, Nearest
  <1>6. CASE s # d /\ shared # {}
    <2>1. IsFiniteSet(shared) /\ shared \in SUBSET Int
      <3> HIDE DEF shared, list
      <3>1. IsFiniteSet(1 .. Len(list))
        BY <1>1, FirstNumbers
      <3>2. IsFiniteSet(shared)
        BY <1>1, <1>2, <3>1, FS_Subset
      <3> QED
        BY <1>1, <1>2, <3>2
    <2>2. i \in shared /\ \A j \in shared : i <= j
      <3> HIDE DEF shared
      <3>1. /\ Cardinality(shared) \in Nat
            /\ \A x \in shared : Rank(shared, x) \in 1 .. Cardinality(shared)
            /\ \A x, y \in shared : x < y => Rank(shared, x) < Rank(shared, y)
        BY <2>1, Ranks
      <3>2. 1 \in 1 .. Cardinality(shared)
        BY <1>6, <3>1
      <3>3. i \in shared /\ Rank(shared, i) = 1
        BY <2>1, <3>2, NthOf
      <3> HIDE DEF i
      <3>4. ASSUME NEW j \in shared, j < i PROVE FALSE
        BY <3>1, <3>3, <3>4
      <3> QED
        BY <2>1, <3>3, <3>4
    <2>3. MigrationType(tp, s, d) = LevelName[list[i].level]
      BY <1>6 DEF MigrationType
    <2>4. list[i].level \in levels
      <3>1. \A j \in SharedAt(tp, s, d) : tp[s][j].level \in SharedLevels(tp, s, d)
        BY <1>6 DEF Regular, InstructionLikeData
      <3> QED
        BY <2>2, <3>1
    <2>5. \A m \in levels : \E j \in shared : m = list[j].level
      BY <1>3
    <2>6. \A a, b \in DOMAIN list : a < b => list[a].level <= list[b].level
      BY DEF Regular, InOrder
    <2>7. \A j \in DOMAIN list : list[j].level \in Int
      BY <1>1, LevelNames
    <2> HIDE DEF shared, levels, list, i
    <2>8. \A j \in shared : list[i].level <= list[j].level
      BY <1>1, <1>2, <2>2, <2>6, <2>7
    <2>9. \A m \in levels : list[i].level <= m /\ m \in Int
      BY <1>2, <2>5, <2>7, <2>8
    <2>10. (CHOOSE l \in levels : \A m \in levels : l <= m) = list[i].level
      <3>1. \A l \in levels : (\A m \in levels : l <= m) => l = list[i].level
        BY <2>4, <2>9
      <3> QED
        BY <2>4, <2>9, <3>1
    <2>11. levels # {}
      BY <2>4
    <2> QED
      BY <1>6, <2>3, <2>10, <2>11 DEF Nearest, levels
  <1> QED
    BY <1>4, <1>5, <1>6

\* What the loop over the caches of a cpu collects.
Collected(tp) ==
  [table : UNION {[S -> SUBSET CpusOf(tp)] : S \in SUBSET ToSet(LevelName)},
   remaining : SUBSET CpusOf(tp)]

\* What a cache adds to what was collected before it.
Added(g, c, r) ==
  LET here == {d \in g.remaining : InCpuList(d, c.shared_cpu_list)} IN
  IF c.type \in {"Instruction", "Unknown"} THEN r = g
  ELSE /\ DOMAIN r.table = DOMAIN g.table \cup {LevelName[c.level]}
       /\ r.table[LevelName[c.level]] = here
       /\ \A x \in DOMAIN g.table \ {LevelName[c.level]} : r.table[x] = g.table[x]
       /\ r.remaining = g.remaining \ here

LEMMA AddCacheType ==
  ASSUME NEW tp, NEW g \in Collected(tp), NEW c \in Cache
  PROVE  AddCache(g, c) \in Collected(tp) /\ Added(g, c, AddCache(g, c))
  <1> DEFINE name == LevelName[c.level]
             here == {d \in g.remaining : InCpuList(d, c.shared_cpu_list)}
             new == [x \in DOMAIN g.table \cup {name} |-> IF x = name THEN here ELSE g.table[x]]
  <1>1. AddCache(g, c) = IF c.type \in {"Instruction", "Unknown"} THEN g
                         ELSE [table |-> new, remaining |-> g.remaining \ here]
    BY DEF AddCache
  <1>2. name \in ToSet(LevelName)
    BY LevelNames DEF ToSet
  <1>3. PICK S \in SUBSET ToSet(LevelName) : g.table \in [S -> SUBSET CpusOf(tp)]
    BY DEF Collected
  <1>4. g.remaining \subseteq CpusOf(tp) /\ here \subseteq CpusOf(tp)
    BY DEF Collected
  <1> HIDE DEF name, here
  <1>5. new \in [S \cup {name} -> SUBSET CpusOf(tp)]
    BY <1>3, <1>4
  <1>6. S \cup {name} \in SUBSET ToSet(LevelName)
    BY <1>2
  <1>7. new \in UNION {[R -> SUBSET CpusOf(tp)] : R \in SUBSET ToSet(LevelName)}
    <2> HIDE DEF new
    <2> QED
      BY <1>5, <1>6
  <1>8. /\ DOMAIN new = DOMAIN g.table \cup {name} /\ new[name] = here
        /\ \A x \in DOMAIN g.table \ {name} : new[x] = g.table[x]
    OBVIOUS
  <1> HIDE DEF new
  <1>9. AddCache(g, c) \in Collected(tp)
    <2>1. [table |-> new, remaining |-> g.remaining \ here] \in Collected(tp)
      BY <1>4, <1>7 DEF Collected
    <2> QED
      BY <1>1, <2>1
  <1>10. IF c.type \in {"Instruction", "Unknown"} THEN AddCache(g, c) = g
         ELSE AddCache(g, c).table = new /\ AddCache(g, c).remaining = g.remaining \ here
    BY <1>1
  <1> QED
    BY <1>8, <1>9, <1>10 DEF Added, name, here

\* What is collected from the first n caches, and the table that makes.
IsCollected(g, tp, cpu) ==
  /\ g \in [0 .. Len(tp[cpu]) -> Collected(tp)]
  /\ g[0] = [table |-> <<>>, remaining |-> CpusOf(tp) \ {cpu}]
  /\ \A n \in 1 .. Len(tp[cpu]) : g[n] = AddCache(g[n - 1], tp[cpu][n])
  /\ MigrationTable(tp, cpu)
       = [x \in DOMAIN g[Len(tp[cpu])].table \cup {"MEMORY", "PREEMPTION"} |->
            CASE x = "MEMORY" -> g[Len(tp[cpu])].remaining
              [] x = "PREEMPTION" -> {cpu}
              [] OTHER -> g[Len(tp[cpu])].table[x]]

LEMMA CollectedIs ==
  ASSUME NEW tp, Listing(tp), NEW cpu \in CpusOf(tp)
  PROVE  \E g : IsCollected(g, tp, cpu)
  <1> DEFINE D == Collected(tp)
             list == tp[cpu]
             base == [table |-> <<>>, remaining |-> CpusOf(tp) \ {cpu}]
             step == [kd \in (1 .. Len(list)) \X D |-> AddCache(kd[2], list[kd[1]])]
             Table(e) == [x \in DOMAIN e.table \cup {"MEMORY", "PREEMPTION"} |->
                            CASE x = "MEMORY" -> e.remaining
                              [] x = "PREEMPTION" -> {cpu}
                              [] OTHER -> e.table[x]]
  <1>1. list \in Seq(Cache) /\ Len(list) \in Nat /\ \A n \in 1 .. Len(list) : list[n] \in Cache
    <2>1. list \in Seq(Cache)
      BY DEF Listing
    <2> HIDE DEF list
    <2> QED
      BY <2>1, ElementOfSeq, LenProperties
  <1>2. base \in D
    <2>1. <<>> \in [{} -> SUBSET CpusOf(tp)]
      OBVIOUS
    <2>2. <<>> \in UNION {[R -> SUBSET CpusOf(tp)] : R \in SUBSET ToSet(LevelName)}
      BY <2>1
    <2> QED
      BY <2>2 DEF Collected
  <1>3. step \in [(1 .. Len(list)) \X D -> D]
    <2>1. \A n \in 1 .. Len(list), g \in D : AddCache(g, list[n]) \in D
      BY <1>1, AddCacheType
    <2> HIDE DEF D, list
    <2> QED
      BY <2>1
  <1>4. PICK g \in [0 .. Len(list) -> D] :
          g[0] = base /\ \A n \in 1 .. Len(list) : g[n] = step[<<n, g[n - 1]>>]
    <2> HIDE DEF step, D, base, list
    <2>1. PICK g : IsTrace(g, Len(list), D, base, step)
      BY <1>1, <1>2, <1>3, LoopExists
    <2> QED
      BY <2>1 DEF IsTrace
  <1>5. \A n \in 1 .. Len(list) : g[n] = AddCache(g[n - 1], list[n])
    <2> SUFFICES ASSUME NEW n \in 1 .. Len(list) PROVE g[n] = AddCache(g[n - 1], list[n])
      OBVIOUS
    <2>1. g[n - 1] \in D
      <3> HIDE DEF D, list
      <3> QED
        BY <1>1, <1>4
    <2> QED
      BY <1>4, <2>1
  <1>6. g = [n \in 0 .. Len(list) |-> IF n = 0 THEN base ELSE AddCache(g[n - 1], list[n])]
    <2> HIDE DEF base, D, step, list
    <2> QED
      BY <1>1, <1>4, <1>5
  <1> DEFINE f == CHOOSE s : s = [n \in 0 .. Len(list) |-> IF n = 0 THEN base ELSE AddCache(s[n - 1], list[n])]
  <1>7. f = [n \in 0 .. Len(list) |-> IF n = 0 THEN base ELSE AddCache(f[n - 1], list[n])]
    BY <1>6, Zenon
  <1>8. MigrationTable(tp, cpu) = Table(f[Len(list)])
    BY DEF MigrationTable
  <1> HIDE DEF f
  <1>9. \A n \in 0 .. Len(list) : f[n] = g[n]
    <2> DEFINE S == {n \in 0 .. Len(list) : f[n] = g[n]}
    <2>1. 0 \in S
      <3> HIDE DEF base, list
      <3> QED
        BY <1>1, <1>4, <1>7
    <2>2. \A n \in 0 .. Len(list) - 1 : n \in S => n + 1 \in S
      <3> SUFFICES ASSUME NEW n \in 0 .. Len(list) - 1, n \in S PROVE n + 1 \in S
        OBVIOUS
      <3>1. n + 1 \in 1 .. Len(list) /\ n + 1 \in 0 .. Len(list) /\ n + 1 # 0 /\ (n + 1) - 1 = n
        BY <1>1
      <3>2. f[n + 1] = AddCache(f[n], list[n + 1]) /\ g[n + 1] = AddCache(g[n], list[n + 1])
        <4> HIDE DEF base, list
        <4> QED
          BY <1>5, <1>7, <3>1
      <3> QED
        BY <3>1, <3>2
    <2> HIDE DEF S
    <2>3. \A n \in 0 .. Len(list) : n \in S
      BY <1>1, <2>1, <2>2, LoopInduction
    <2> QED
      BY <2>3 DEF S
  <1>10. MigrationTable(tp, cpu) = Table(g[Len(list)])
    <2> HIDE DEF Table
    <2> QED
      BY <1>1, <1>8, <1>9
  <1> QED
    BY <1>4, <1>5, <1>10 DEF IsCollected

\* migrationTypes() names every type of migration between cpu 0 and another.
LEMMA NearestIsType ==
  ASSUME NEW tp, Listing(tp), Regular(tp), NEW d \in CpusOf(tp)
  PROVE  Nearest(tp, 0, d) \in MigrationTypes(tp)
  <1> DEFINE list == tp[0]
             n == Len(list)
             data == DataCaches(tp, 0) \cap SharedAt(tp, 0, d)
             levels == SharedLevels(tp, 0, d)
             table == MigrationTable(tp, 0)
  <1>0. 0 \in CpusOf(tp)
    BY DEF Listing
  <1>1. /\ n \in Nat /\ DOMAIN list = 1 .. n
        /\ \A j \in 1 .. n : list[j] \in Cache /\ list[j].level \in 1 .. 3
    <2>1. list \in Seq(Cache)
      BY <1>0 DEF Listing
    <2> HIDE DEF list
    <2> QED
      BY <2>1, LenProperties, ElementOfSeq, LevelNames
  <1>p. PICK g : IsCollected(g, tp, 0)
    BY <1>0, CollectedIs
  <1>2. /\ g \in [0 .. n -> Collected(tp)]
        /\ g[0] = [table |-> <<>>, remaining |-> CpusOf(tp) \ {0}]
        /\ \A m \in 1 .. n : g[m] = AddCache(g[m - 1], list[m])
        /\ table = [x \in DOMAIN g[n].table \cup {"MEMORY", "PREEMPTION"} |->
                      CASE x = "MEMORY" -> g[n].remaining
                        [] x = "PREEMPTION" -> {0}
                        [] OTHER -> g[n].table[x]]
    BY <1>p DEF IsCollected
  <1>3. \A x : (x \in DOMAIN table /\ table[x] # {}) => x \in MigrationTypes(tp)
    BY DEF MigrationTypes
  <1>4. data = {j \in 1 .. n : list[j].type \in {"Data", "Unified"} /\ InCpuList(d, list[j].shared_cpu_list)}
    BY <1>1 DEF DataCaches, SharedAt
  <1>5. levels = {list[j].level : j \in data}
    BY DEF SharedLevels
  <1>6. \A a, b \in 1 .. n : a < b => list[a].level <= list[b].level
    BY <1>0, <1>1 DEF Regular, InOrder
  <1>7. \A a, b \in 1 .. n :
          /\ list[a].type \in {"Data", "Unified"} /\ list[b].type \in {"Data", "Unified"}
          /\ list[a].level = list[b].level
          => a = b
    BY <1>0, <1>1 DEF Regular, SingleDataCaches, DataCaches
  <1>8. Nearest(tp, 0, d) = IF d = 0 THEN "PREEMPTION"
                            ELSE IF levels = {} THEN "MEMORY"
                            ELSE LevelName[CHOOSE l \in levels : \A m \in levels : l <= m]
    BY DEF Nearest
  <1>9. CASE d = 0
    <2>1. "PREEMPTION" \in DOMAIN table /\ table["PREEMPTION"] = {0}
      BY <1>2
    <2> HIDE DEF table
    <2> QED
      BY <1>3, <1>8, <1>9, <2>1
  <1>s. ASSUME NEW m \in 1 .. n
        PROVE  Added(g[m - 1], list[m], g[m])
    <2> DEFINE h == g[m - 1]
    <2>1. m - 1 \in 0 .. n /\ list[m] \in Cache
      BY <1>1
    <2>2. h \in Collected(tp)
      <3> HIDE DEF n
      <3> QED
        BY <1>2, <2>1
    <2>3. g[m] = AddCache(h, list[m])
      BY <1>2
    <2> HIDE DEF h, list
    <2>4. Added(h, list[m], AddCache(h, list[m]))
      BY <2>1, <2>2, AddCacheType
    <2> QED
      BY <2>3, <2>4 DEF h
  <1> HIDE DEF table, list, n, data, levels
  \* d stays until a data cache it shares takes it.
  <1>r. ASSUME NEW i \in 0 .. n, d # 0, \A j \in data : i < j
        PROVE  d \in g[i].remaining
    <2> DEFINE S == {m \in 0 .. n : m <= i => d \in g[m].remaining}
    <2>1. 0 \in S
      BY <1>1, <1>2, <1>r
    <2>2. ASSUME NEW m \in 0 .. n - 1, m \in S PROVE m + 1 \in S
      <3>1. m + 1 \in 1 .. n /\ m + 1 \in 0 .. n /\ (m + 1) - 1 = m
        BY <1>1
      <3> SUFFICES ASSUME m + 1 <= i PROVE d \in g[m + 1].remaining
        BY <3>1
      <3>2. d \in g[m].remaining
        BY <1>1, <2>2, <3>1
      <3>3. m + 1 \notin data
        BY <1>1, <1>r, <3>1
      <3>4. list[m + 1].type \in {"Instruction", "Unknown"} \/ ~InCpuList(d, list[m + 1].shared_cpu_list)
        BY <1>1, <1>4, <3>1, <3>3, LevelNames
      <3>5. CASE list[m + 1].type \in {"Instruction", "Unknown"}
        <4>1. g[m + 1] = g[m]
          BY <1>s, <3>1, <3>5 DEF Added
        <4> QED
          BY <3>2, <4>1
      <3>6. CASE list[m + 1].type \notin {"Instruction", "Unknown"}
        <4>1. g[m + 1].remaining
                = g[m].remaining \ {c \in g[m].remaining : InCpuList(c, list[m + 1].shared_cpu_list)}
          BY <1>s, <3>1, <3>6 DEF Added
        <4> QED
          BY <3>2, <3>4, <3>6, <4>1
      <3> QED
        BY <3>5, <3>6
    <2> HIDE DEF S
    <2>3. \A m \in 0 .. n - 1 : m \in S => m + 1 \in S
      BY <2>2
    <2>4. \A m \in 0 .. n : m \in S
      BY <1>1, <2>1, <2>3, LoopInduction
    <2>5. i \in S /\ i <= i
      BY <1>1, <2>4
    <2> QED
      BY <2>5 DEF S
  <1>10. CASE d # 0 /\ data = {}
    <2>1. n \in 0 .. n
      BY <1>1
    <2>2. d \in g[n].remaining
      BY <1>10, <1>r, <2>1
    <2>3. "MEMORY" \in DOMAIN table /\ table["MEMORY"] = g[n].remaining
      BY <1>2
    <2>4. Nearest(tp, 0, d) = "MEMORY"
      BY <1>5, <1>8, <1>10
    <2> QED
      BY <1>3, <2>2, <2>3, <2>4
  <1>11. CASE d # 0 /\ data # {}
    <2>1. PICK i \in data : \A j \in data : i <= j
      <3>1. data \in SUBSET Nat
        BY <1>1, <1>4
      <3> QED
        BY <1>11, <3>1, LeastMember
    <2> DEFINE name == LevelName[list[i].level]
    <2>2. i \in 1 .. n /\ i - 1 \in 0 .. n /\ list[i].type \in {"Data", "Unified"}
          /\ list[i].type \notin {"Instruction", "Unknown"}
          /\ InCpuList(d, list[i].shared_cpu_list)
          /\ list[i].level \in 1 .. 3 /\ name \notin {"MEMORY", "PREEMPTION"}
      BY <1>1, <1>4, LevelNames
    <2>3. d \in g[i - 1].remaining
      <3>1. \A j \in data : i - 1 < j
        BY <1>1, <1>4, <2>1, <2>2
      <3> QED
        BY <1>11, <1>r, <2>2, <3>1
    <2>4. name \in DOMAIN g[i].table /\ d \in g[i].table[name]
      BY <1>s, <2>2, <2>3 DEF Added
    <2>5. Nearest(tp, 0, d) = name
      <3>1. list[i].level \in levels
        BY <1>5
      <3>2. \A l \in levels : list[i].level <= l /\ l \in 1 .. 3
        <4> SUFFICES ASSUME NEW j \in data PROVE list[i].level <= list[j].level /\ list[j].level \in 1 .. 3
          BY <1>5
        <4>1. i <= j /\ j \in 1 .. n
          BY <1>4, <2>1
        <4>2. i = j \/ i < j
          BY <2>2, <4>1
        <4> QED
          BY <1>1, <1>6, <2>2, <4>1, <4>2
      <3>3. \A l \in levels : (\A m \in levels : l <= m) => l = list[i].level
        BY <2>2, <3>1, <3>2
      <3>4. (CHOOSE l \in levels : \A m \in levels : l <= m) = list[i].level
        BY <3>1, <3>2, <3>3
      <3> QED
        BY <1>8, <1>11, <3>1, <3>4
    <2>6. name \in DOMAIN g[n].table /\ d \in g[n].table[name]
      <3> DEFINE Kept1(m) == name \in DOMAIN g[m].table /\ d \in g[m].table[name]
                 S == {m \in 0 .. n : i <= m => Kept1(m)}
      <3>1. 0 \in S
        BY <1>1, <2>2
      <3>2. ASSUME NEW m \in 0 .. n - 1, m \in S PROVE m + 1 \in S
        <4>1. m + 1 \in 1 .. n /\ m + 1 \in 0 .. n /\ (m + 1) - 1 = m
          BY <1>1
        <4> SUFFICES ASSUME i <= m + 1 PROVE Kept1(m + 1)
          BY <4>1
        <4>2. CASE i = m + 1
          BY <2>4, <4>2
        <4>3. CASE i # m + 1
          <5>1. i <= m
            BY <2>2, <4>1, <4>3
          <5>2. Kept1(m)
            BY <3>2, <5>1
          <5>3. list[m + 1].type \in {"Data", "Unified"} => LevelName[list[m + 1].level] # name
            <6>1. list[m + 1].level \in 1 .. 3 /\ list[i].level \in 1 .. 3
              BY <1>1, <2>2, <4>1
            <6>2. LevelName[list[m + 1].level] = name => list[m + 1].level = list[i].level
              BY <6>1, LevelNames
            <6> QED
              BY <1>7, <2>2, <4>1, <4>3, <6>2
          <5>4. CASE list[m + 1].type \in {"Instruction", "Unknown"}
            <6>1. g[m + 1] = g[m]
              BY <1>s, <4>1, <5>4 DEF Added
            <6> QED
              BY <5>2, <6>1
          <5>5. CASE list[m + 1].type \notin {"Instruction", "Unknown"}
            <6>1. list[m + 1].type \in {"Data", "Unified"}
              BY <1>1, <4>1, <5>5, LevelNames
            <6>2. /\ DOMAIN g[m + 1].table = DOMAIN g[m].table \cup {LevelName[list[m + 1].level]}
                  /\ \A x \in DOMAIN g[m].table \ {LevelName[list[m + 1].level]} :
                       g[m + 1].table[x] = g[m].table[x]
              BY <1>s, <4>1, <5>5 DEF Added
            <6> HIDE DEF name
            <6> QED
              BY <5>2, <5>3, <6>1, <6>2
          <5> QED
            BY <5>4, <5>5
        <4> QED
          BY <4>2, <4>3
      <3> HIDE DEF S
      <3>3. \A m \in 0 .. n - 1 : m \in S => m + 1 \in S
        BY <3>2
      <3>4. \A m \in 0 .. n : m \in S
        BY <1>1, <3>1, <3>3, LoopInduction
      <3>5. n \in S /\ i <= n
        BY <1>1, <2>2, <3>4
      <3> QED
        BY <3>5 DEF S
    <2>7. name \in DOMAIN table /\ table[name] = g[n].table[name]
      <3> HIDE DEF name
      <3> QED
        BY <1>2, <2>2, <2>6
    <2> HIDE DEF name
    <2> QED
      BY <1>3, <2>5, <2>6, <2>7
  <1> QED
    BY <1>9, <1>10, <1>11

\* What counter[] of group_traces() needs: every type of migration between
\* two cpus is listed.
LEMMA TypeIsListed ==
  ASSUME NEW tp, Listing(tp), Regular(tp), NEW s \in CpusOf(tp), NEW d \in CpusOf(tp)
  PROVE  MigrationType(tp, s, d) \in MigrationTypes(tp)
  <1>1. MigrationType(tp, s, d) = Nearest(tp, s, d)
    BY NearestIsFirst
  <1>2. PICK e \in CpusOf(tp) : Nearest(tp, s, d) = Nearest(tp, 0, e)
    BY DEF Regular, Uniform
  <1> QED
    BY <1>1, <1>2, NearestIsType

-----------------------------------------------------------------------------
(* The rows of the files.                                                  *)

DelayList(rows) == [n \in DOMAIN rows |-> rows[n].post_pm - MinHot(rows[n].times)]

LEMMA HotType ==
  ASSUME NEW times \in Timed
  PROVE  MinHot(times) \in Int
  <1>1. DOMAIN times = 1 .. 4 /\ \A i \in 1 .. 4 : times[i] \in Int
    BY DEF Timed
  <1>2. ToSet(times) = {times[1], times[2], times[3], times[4]}
    <2>1. \A i \in 1 .. 4 : i = 1 \/ i = 2 \/ i = 3 \/ i = 4
      OBVIOUS
    <2>2. 1 \in 1 .. 4 /\ 2 \in 1 .. 4 /\ 3 \in 1 .. 4 /\ 4 \in 1 .. 4
      OBVIOUS
    <2>3. ToSet(times) = {times[i] : i \in 1 .. 4}
      BY <1>1 DEF ToSet
    <2> QED
      BY <2>1, <2>2, <2>3
  <1>3. \E x \in ToSet(times) : \A y \in ToSet(times) : x <= y
    BY <1>1, <1>2
  <1>4. MinHot(times) \in ToSet(times)
    BY <1>3 DEF MinHot
  <1> QED
    BY <1>1, <1>2, <1>4

LEMMA DelaysAre ==
  ASSUME NEW rows \in Seq(Numbered)
  PROVE  /\ DelayList(rows) \in Seq(Int) /\ Len(DelayList(rows)) = Len(rows)
         /\ \E p : SortedBy(Delays(rows), DelayList(rows), p)
         /\ Delays(rows) \in Seq(Int) /\ Len(Delays(rows)) = Len(rows)
         /\ Rising(Delays(rows))
  <1> DEFINE s == DelayList(rows)
  <1>1. DOMAIN rows = 1 .. Len(rows) /\ Len(rows) \in Nat /\ \A n \in 1 .. Len(rows) : rows[n] \in Numbered
    BY LenProperties, ElementOfSeq
  <1>2. \A n \in 1 .. Len(rows) : rows[n].post_pm - MinHot(rows[n].times) \in Int
    <2> SUFFICES ASSUME NEW n \in 1 .. Len(rows) PROVE rows[n].post_pm - MinHot(rows[n].times) \in Int
      OBVIOUS
    <2>1. rows[n].post_pm \in Int /\ rows[n].times \in Timed
      BY <1>1 DEF Numbered
    <2>2. MinHot(rows[n].times) \in Int
      BY <2>1, HotType
    <2> QED
      BY <2>1, <2>2
  <1>3. s \in Seq(Int) /\ Len(s) = Len(rows)
    <2> DEFINE d(n) == rows[n].post_pm - MinHot(rows[n].times)
    <2>1. s = [n \in 1 .. Len(rows) |-> d(n)] /\ \A n \in 1 .. Len(rows) : d(n) \in Int
      BY <1>1, <1>2 DEF DelayList
    <2> HIDE DEF d, s
    <2> QED
      BY <1>1, <2>1
  <1>4. Delays(rows) = Ascending(s)
    BY DEF Delays, DelayList
  <1> HIDE DEF s
  <1>5. PICK p : SortedBy(Ascending(s), s, p)
    BY <1>3, AscendingIs
  <1>6. Rising(Ascending(s)) /\ Ascending(s) \in Seq(Int) /\ Len(Ascending(s)) = Len(rows)
    BY <1>3, <1>5 DEF SortedBy, Rising
  <1>7. \E q : SortedBy(Delays(rows), s, q)
    BY <1>4, <1>5
  <1> QED
    BY <1>3, <1>4, <1>6, <1>7 DEF s

LEMMA UpdatedIs ==
  ASSUME NEW f, NEW g
  PROVE  /\ DOMAIN Updated(f, g) = DOMAIN f \cup DOMAIN g
         /\ \A x \in DOMAIN g : Updated(f, g)[x] = g[x]
         /\ \A x \in DOMAIN f \ DOMAIN g : Updated(f, g)[x] = f[x]
  BY DEF Updated

\* The migration types of a topology are some of a few names.
LEMMA TypesAreFew ==
  ASSUME NEW tp, Listing(tp)
  PROVE  MigrationTypes(tp) \subseteq TypeNames /\ IsFiniteSet(MigrationTypes(tp))
  <1>1. PICK g : IsCollected(g, tp, 0)
    BY CollectedIs DEF Listing
  <1> DEFINE e == g[Len(tp[0])]
  <1>2. Len(tp[0]) \in Nat
    <2>1. tp[0] \in Seq(Cache)
      BY DEF Listing
    <2> QED
      BY <2>1, LenProperties
  <1>3. e \in Collected(tp)
    BY <1>1, <1>2 DEF IsCollected
  <1>4. DOMAIN e.table \subseteq ToSet(LevelName)
    BY <1>3 DEF Collected
  <1>5. DOMAIN MigrationTable(tp, 0) = DOMAIN e.table \cup {"MEMORY", "PREEMPTION"}
    BY <1>1 DEF IsCollected
  <1>6. MigrationTypes(tp) \subseteq TypeNames
    <2> HIDE DEF e
    <2> QED
      BY <1>4, <1>5 DEF MigrationTypes, TypeNames
  <1>7. IsFiniteSet(TypeNames)
    <2>1. ToSet(LevelName) = {LevelName[1], LevelName[2], LevelName[3]}
      <3>1. ToSet(LevelName) = {LevelName[l] : l \in 1 .. 3}
        BY LevelNames DEF ToSet
      <3>2. \A l : l \in 1 .. 3 <=> l = 1 \/ l = 2 \/ l = 3
        OBVIOUS
      <3> QED
        BY <3>1, <3>2
    <2>2. TypeNames = {LevelName[1], LevelName[2], LevelName[3], "MEMORY", "PREEMPTION"}
      BY <2>1 DEF TypeNames
    <2>3. TypeNames = (({LevelName[1]} \cup {LevelName[2]}) \cup ({LevelName[3]} \cup {"MEMORY"})) \cup {"PREEMPTION"}
      BY <2>2
    <2>4. IsFiniteSet({LevelName[1]} \cup {LevelName[2]}) /\ IsFiniteSet({LevelName[3]} \cup {"MEMORY"})
      BY FS_Singleton, FS_Union
    <2>5. IsFiniteSet(({LevelName[1]} \cup {LevelName[2]}) \cup ({LevelName[3]} \cup {"MEMORY"}))
      BY <2>4, FS_Union
    <2>6. IsFiniteSet({"PREEMPTION"})
      BY FS_Singleton
    <2> QED
      BY <2>3, <2>5, <2>6, FS_Union
  <1> QED
    BY <1>6, <1>7, FS_Subset

\* The configurations obtain_traces() goes through are configurations.
LEMMA ConfigType ==
  ASSUME NEW n \in 1 .. Len(wss_values) * Len(writecycle_values)
  PROVE  ConfigAt(n) \in WssRange \X Nat
  <1> DEFINE a == Len(wss_values)
             b == Len(writecycle_values)
             q == (n - 1) \div b
             r == (n - 1) % b
  <1>1. a \in Nat /\ b \in Nat /\ wss_values \in Seq(WssRange) /\ writecycle_values \in Seq(Nat)
    BY CpmdAssumption, LenProperties
  <1>2. \A m \in 1 .. a : wss_values[m] \in WssRange
    BY <1>1, ElementOfSeq
  <1>3. \A m \in 1 .. b : writecycle_values[m] \in Nat
    BY <1>1, ElementOfSeq
  <1> HIDE DEF a, b
  <1>4. b # 0
    <2> SUFFICES ASSUME b = 0 PROVE FALSE
      OBVIOUS
    <2>1. a * b = 0
      BY <1>1
    <2>2. n \in 1 .. a * b
      BY DEF a, b
    <2> QED
      BY <2>1, <2>2
  <1>5. n - 1 = b * q + r /\ q \in Nat /\ r \in 0 .. b - 1
    <2>1. n - 1 \in Nat /\ b \in Nat \ {0}
      <3>1. n \in 1 .. a * b
        BY DEF a, b
      <3> QED
        BY <1>1, <1>4, <3>1
    <2> QED
      BY <2>1
  <1>6. q < a
    <2> HIDE DEF q, r
    <2> SUFFICES ASSUME q >= a PROVE FALSE
      BY <1>1, <1>5
    <2>1. b * q >= b * a
      BY <1>1, <1>5
    <2>2. n \in 1 .. a * b
      BY DEF a, b
    <2>3. b * q \in Nat /\ b * a = a * b /\ a * b \in Nat
      BY <1>1, <1>5
    <2> QED
      BY <1>5, <2>1, <2>2, <2>3
  <1> HIDE DEF q, r
  <1>7. q + 1 \in 1 .. a /\ r + 1 \in 1 .. b
    BY <1>1, <1>5, <1>6
  <1>8. ConfigAt(n) = <<wss_values[q + 1], writecycle_values[r + 1]>>
    BY DEF ConfigAt, q, r, b
  <1> QED
    BY <1>2, <1>3, <1>7, <1>8

-----------------------------------------------------------------------------
(* What the directories hold.                                              *)

FilesOf(w) == {c \in DOMAIN traces : c[1] = w}

TraceDir ==
  /\ IsFiniteSet(DOMAIN traces) /\ DOMAIN traces \subseteq WssRange \X Nat
  /\ \A c \in DOMAIN traces : traces[c] \in Seq(Measured(CpusOf(topo)) \cup {Header})

RowOrTorn == Numbered \cup {Torn}

RowDir ==
  /\ IsFiniteSet(DOMAIN completed) /\ DOMAIN completed \subseteq STRING \X TypeNames \X WssRange
  /\ \A f \in DOMAIN completed : completed[f] \in Seq(RowOrTorn)

\* What the programs read from the directories is still there when they use it.
DirInv ==
  /\ topo \in Topologies
  /\ TraceDir
  /\ RowDir
  /\ k \in Nat \ {0}
  /\ wss_left \subseteq TracedSizes
  /\ pc = "Read" => /\ files_left \subseteq FilesOf(wss)
                    /\ wss \in TracedSizes \ wss_left
                    /\ Outputs(wss) \subseteq DOMAIN completed
                    /\ \A f \in Outputs(wss) : completed[f] \in Seq(Numbered)

LEMMA TopologyIs ==
  ASSUME DirInv
  PROVE  /\ Listing(topo) /\ Header \notin Measured(CpusOf(topo))
         /\ MigrationTypes(topo) \subseteq TypeNames /\ IsFiniteSet(MigrationTypes(topo))
  <1>1. Listing(topo) /\ Header \notin Measured(CpusOf(topo))
    BY CpmdAssumption DEF DirInv, Listing
  <1> QED
    BY <1>1, TypesAreFew

LEMMA OutputsAre ==
  ASSUME DirInv, NEW w \in WssRange
  PROVE  IsFiniteSet(Outputs(w)) /\ Outputs(w) \subseteq STRING \X TypeNames \X WssRange
  <1>1. /\ MigrationTypes(topo) \subseteq TypeNames /\ IsFiniteSet(MigrationTypes(topo))
    BY TopologyIs
  <1>2. Outputs(w) = {<<host, t, w>> : t \in MigrationTypes(topo)}
    BY DEF Outputs
  <1> DEFINE T == MigrationTypes(topo)
  <1> HIDE DEF T
  <1>3. IsFiniteSet({<<host, t, w>> : t \in T})
    <2> DEFINE name == [t \in T |-> <<host, t, w>>]
               S == {<<host, t, w>> : t \in T}
    <2>1. name \in Surjection(T, S)
      BY DEF Surjection
    <2> HIDE DEF S, name
    <2>2. IsFiniteSet(S)
      BY <1>1, <2>1, FS_Surjection DEF T
    <2> QED
      BY <2>2 DEF S
  <1>4. host \in STRING
    BY CpmdAssumption
  <1>5. \A t \in T : <<host, t, w>> \in STRING \X TypeNames \X WssRange
    BY <1>1, <1>4 DEF T
  <1>6. Outputs(w) = {<<host, t, w>> : t \in T}
    BY <1>2 DEF T
  <1> QED
    BY <1>3, <1>5, <1>6

\* The rows of a trace that go to a file come behind those it has.
OwnLines(lines, t) == {n \in DOMAIN lines : TypeOfLine(lines[n]) = t}

IsExtended(rows, old, lines, own) ==
  /\ rows \in Seq(Numbered)
  /\ Len(rows) = Len(old) + Cardinality(own) /\ Len(old) \in Nat
  /\ \A n \in 1 .. Len(old) : rows[n] = old[n]
  /\ \A n \in 1 .. Cardinality(own) :
       /\ rows[Len(old) + n].count = Len(old) + n
       /\ rows[Len(old) + n].times = lines[Nth(own, n)].times
       /\ rows[Len(old) + n].post_pm = lines[Nth(own, n)].post_pm

OwnAre(own, n) ==
  /\ own \in SUBSET Int /\ own \subseteq 1 .. n /\ IsFiniteSet(own) /\ Cardinality(own) \in Nat
  /\ \A i \in 1 .. Cardinality(own) : Nth(own, i) \in own /\ Rank(own, Nth(own, i)) = i
  /\ \A x \in own : Rank(own, x) \in 1 .. Cardinality(own) /\ Nth(own, Rank(own, x)) = x

LEMMA OwnLinesAre ==
  ASSUME NEW S, NEW lines \in Seq(S), NEW t
  PROVE  OwnAre(OwnLines(lines, t), Len(lines))
  <1> DEFINE own == OwnLines(lines, t)
  <1>1. DOMAIN lines = 1 .. Len(lines) /\ Len(lines) \in Nat
    BY LenProperties
  <1>2. own \subseteq 1 .. Len(lines)
    BY <1>1 DEF OwnLines
  <1> HIDE DEF own
  <1>3. IsFiniteSet(1 .. Len(lines))
    BY <1>1, FirstNumbers
  <1>4. IsFiniteSet(own)
    BY <1>2, <1>3, FS_Subset
  <1>5. \A n \in 1 .. Len(lines) : n \in Int
    BY <1>1
  <1>6. own \in SUBSET Int
    BY <1>2, <1>5
  <1>7. /\ Cardinality(own) \in Nat
        /\ \A x \in own : Rank(own, x) \in 1 .. Cardinality(own)
    BY <1>4, <1>6, Ranks
  <1>8. /\ \A i \in 1 .. Cardinality(own) : Nth(own, i) \in own /\ Rank(own, Nth(own, i)) = i
        /\ \A x \in own : Nth(own, Rank(own, x)) = x
    BY <1>4, <1>6, NthOf
  <1>9. OwnAre(own, Len(lines))
    BY <1>2, <1>4, <1>6, <1>7, <1>8 DEF OwnAre
  <1> QED
    BY <1>9 DEF own

LEMMA SortedExtends ==
  ASSUME NEW lines \in Seq(Measured(CpusOf(topo))), NEW f, completed[f] \in Seq(Numbered)
  PROVE  IsExtended(Sorted(lines, f), completed[f], lines, OwnLines(lines, f[2]))
  <1> DEFINE own == OwnLines(lines, f[2])
             old == completed[f]
             c == Cardinality(own)
             row(n) == [count |-> Len(old) + n, times |-> lines[Nth(own, n)].times,
                        post_pm |-> lines[Nth(own, n)].post_pm]
             new == [n \in 1 .. c |-> row(n)]
  <1>1. Sorted(lines, f) = old \o new
    BY DEF Sorted, OwnLines
  <1>2. OwnAre(own, Len(lines))
    BY OwnLinesAre
  <1>3. \A n \in 1 .. Len(lines) : lines[n] \in Measured(CpusOf(topo))
    BY ElementOfSeq
  <1>4. Len(old) \in Nat
    BY LenProperties
  <1> HIDE DEF own, old
  <1>5. c \in Nat
    BY <1>2 DEF OwnAre
  <1>6. \A n \in 1 .. c : row(n) \in Numbered
    <2> SUFFICES ASSUME NEW n \in 1 .. c PROVE row(n) \in Numbered
      OBVIOUS
    <2>1. Nth(own, n) \in 1 .. Len(lines)
      BY <1>2 DEF OwnAre
    <2>2. lines[Nth(own, n)].times \in Timed /\ lines[Nth(own, n)].post_pm \in Int
      BY <1>3, <2>1 DEF Measured
    <2>3. Len(old) + n \in Nat
      BY <1>4, <1>5
    <2> HIDE DEF c
    <2> QED
      BY <2>2, <2>3 DEF Numbered
  <1>7. new \in Seq(Numbered) /\ Len(new) = c /\ \A n \in 1 .. c : new[n] = row(n)
    <2> HIDE DEF row, c
    <2> QED
      BY <1>5, <1>6
  <1>8. old \in Seq(Numbered)
    BY DEF old
  <1> HIDE DEF new
  <1>9. old \o new \in Seq(Numbered) /\ Len(old \o new) = Len(old) + Len(new)
    BY <1>7, <1>8, ConcatProperties
  <1>10. \A n \in 1 .. Len(old) + Len(new) :
           (old \o new)[n] = IF n <= Len(old) THEN old[n] ELSE new[n - Len(old)]
    BY <1>7, <1>8, ConcatProperties
  <1>11. \A n \in 1 .. Len(old) : (old \o new)[n] = old[n]
    <2> HIDE DEF c
    <2> QED
      BY <1>4, <1>5, <1>7, <1>10
  <1>12. \A n \in 1 .. c : (old \o new)[Len(old) + n] = row(n)
    <2> SUFFICES ASSUME NEW n \in 1 .. c PROVE (old \o new)[Len(old) + n] = row(n)
      OBVIOUS
    <2> HIDE DEF c, row
    <2>1. /\ Len(old) + n \in 1 .. Len(old) + Len(new) /\ ~(Len(old) + n <= Len(old))
          /\ (Len(old) + n) - Len(old) = n
      BY <1>4, <1>5, <1>7
    <2> QED
      BY <1>7, <1>10, <2>1
  <1> DEFINE s == old \o new
  <1> HIDE DEF s
  <1>13. \A n \in 1 .. c : s[Len(old) + n] = row(n)
    BY <1>12 DEF s
  <1>14. /\ s \in Seq(Numbered) /\ Len(s) = Len(old) + c
         /\ \A n \in 1 .. Len(old) : s[n] = old[n]
    BY <1>7, <1>9, <1>11 DEF s
  <1>15. IsExtended(s, old, lines, own)
    <2>0. \A n : /\ row(n).count = Len(old) + n
                 /\ row(n).times = lines[Nth(own, n)].times
                 /\ row(n).post_pm = lines[Nth(own, n)].post_pm
      OBVIOUS
    <2> HIDE DEF row
    <2>1. \A n \in 1 .. c : /\ s[Len(old) + n].count = Len(old) + n
                            /\ s[Len(old) + n].times = lines[Nth(own, n)].times
                            /\ s[Len(old) + n].post_pm = lines[Nth(own, n)].post_pm
      BY <1>13, <2>0
    <2> QED
      BY <1>4, <1>14, <2>1 DEF IsExtended
  <1> QED
    BY <1>1, <1>15 DEF s, own, old

\* The lines that fit are rows of a trace.
LEMMA FittingLines ==
  ASSUME NEW c \in DOMAIN traces, TraceDir, NEW n \in Fitting(traces[c])
  PROVE  /\ SubSeq(traces[c], 1, n) \in Seq(Measured(CpusOf(topo)))
         /\ Len(SubSeq(traces[c], 1, n)) = n
         /\ \A m \in 1 .. n : SubSeq(traces[c], 1, n)[m] = traces[c][m]
  <1> DEFINE lines == traces[c]
             M == Measured(CpusOf(topo))
             part == SubSeq(lines, 1, n)
  <1>1. lines \in Seq(M \cup {Header})
    BY DEF TraceDir
  <1>0. n \in 0 .. Len(lines) /\ \A m \in 1 .. n : Fits(lines[m])
    BY DEF Fitting
  <1>2. \A m \in 1 .. n : lines[m] # Header
    BY <1>0 DEF Fits
  <1> HIDE DEF M, lines
  <1>3. Len(lines) \in Nat /\ n \in 0 .. Len(lines) /\ \A m \in 1 .. Len(lines) : lines[m] \in M \cup {Header}
    <2>1. n \in 0 .. Len(lines)
      BY <1>0
    <2> QED
      BY <1>1, <2>1, LenProperties, ElementOfSeq
  <1>4. /\ Len(part) = n /\ part \in Seq(M \cup {Header})
        /\ \A m \in 1 .. n : part[m] = lines[m]
    <2>1. 1 \in 1 .. Len(lines) + 1 /\ n \in 0 .. Len(lines)
      BY <1>3
    <2>2. /\ part \in Seq(M \cup {Header})
          /\ Len(part) = IF 1 <= n THEN n - 1 + 1 ELSE 0
          /\ \A i \in 1 .. n - 1 + 1 : part[i] = lines[1 + i - 1]
      BY <1>1, <2>1, SubSeqProperties
    <2> HIDE DEF part
    <2>3. n - 1 + 1 = n /\ (n < 1 => n = 0) /\ \A i \in 1 .. n : 1 + i - 1 = i
      BY <1>3
    <2> QED
      BY <2>2, <2>3, <1>3
  <1> HIDE DEF part
  <1>5. \A m \in 1 .. n : part[m] \in M
    <2>1. \A m \in 1 .. n : m \in 1 .. Len(lines)
      BY <1>3
    <2> QED
      BY <1>2, <1>3, <1>4, <2>1
  <1>6. part \in Seq(M)
    <2>1. part = [m \in 1 .. n |-> part[m]]
      BY <1>4, LenProperties
    <2> QED
      BY <1>3, <1>5, <2>1
  <1> QED
    BY <1>4, <1>6 DEF part, lines, M

LEMMA AllFitting ==
  ASSUME NEW c \in DOMAIN traces, TraceDir, Len(traces[c]) \in Fitting(traces[c])
  PROVE  /\ traces[c] \in Seq(Measured(CpusOf(topo)))
         /\ \A n \in DOMAIN traces[c] : Fits(traces[c][n])
  <1> DEFINE lines == traces[c]
             n == Len(lines)
  <1>1. lines \in Seq(Measured(CpusOf(topo)) \cup {Header})
    BY DEF TraceDir
  <1>2. DOMAIN lines = 1 .. n /\ n \in Nat
    BY <1>1, LenProperties
  <1>3. \A m \in 1 .. n : Fits(traces[c][m])
    BY DEF Fitting
  <1>4. SubSeq(lines, 1, n) \in Seq(Measured(CpusOf(topo)))
    <2>1. n \in Fitting(traces[c])
      OBVIOUS
    <2> HIDE DEF n
    <2> QED
      BY <2>1, FittingLines
  <1>5. SubSeq(lines, 1, n) = lines
    BY <1>1, SubSeqFull
  <1> QED
    BY <1>2, <1>3, <1>4, <1>5

\* A trace is appended to the files of its size, and to no other.
LEMMA WrittenIs ==
  ASSUME DirInv, pc = "Read", NEW lines \in Seq(Measured(CpusOf(topo)))
  PROVE  /\ DOMAIN Written(lines) = DOMAIN completed
         /\ \A f \in Outputs(wss) :
              /\ IsExtended(Written(lines)[f], completed[f], lines, OwnLines(lines, f[2]))
              /\ Written(lines)[f] \in Seq(Numbered)
         /\ \A f \in DOMAIN completed \ Outputs(wss) : Written(lines)[f] = completed[f]
  <1> DEFINE new == [f \in Outputs(wss) |-> Sorted(lines, f)]
             files == Written(lines)
  <1>1. files = Updated(completed, new) /\ DOMAIN new = Outputs(wss)
    BY DEF Written
  <1>2. Outputs(wss) \subseteq DOMAIN completed /\ \A f \in Outputs(wss) : completed[f] \in Seq(Numbered)
    BY DEF DirInv
  <1>3. \A f \in Outputs(wss) : IsExtended(new[f], completed[f], lines, OwnLines(lines, f[2]))
    <2> SUFFICES ASSUME NEW f \in Outputs(wss)
                 PROVE  IsExtended(new[f], completed[f], lines, OwnLines(lines, f[2]))
      OBVIOUS
    <2>1. completed[f] \in Seq(Numbered)
      BY <1>2
    <2>2. IsExtended(Sorted(lines, f), completed[f], lines, OwnLines(lines, f[2]))
      BY <2>1, SortedExtends
    <2> QED
      BY <2>2
  <1> HIDE DEF new, files
  <1>4. /\ DOMAIN files = DOMAIN completed
        /\ \A f \in Outputs(wss) : files[f] = new[f]
        /\ \A f \in DOMAIN completed \ Outputs(wss) : files[f] = completed[f]
    <2>1. /\ DOMAIN Updated(completed, new) = DOMAIN completed \cup DOMAIN new
          /\ \A f \in DOMAIN new : Updated(completed, new)[f] = new[f]
          /\ \A f \in DOMAIN completed \ DOMAIN new : Updated(completed, new)[f] = completed[f]
      BY UpdatedIs
    <2> QED
      BY <1>1, <1>2, <2>1
  <1>5. \A f \in Outputs(wss) : IsExtended(files[f], completed[f], lines, OwnLines(lines, f[2]))
    BY <1>3, <1>4
  <1>6. \A f \in Outputs(wss) : files[f] \in Seq(Numbered)
    BY <1>5 DEF IsExtended
  <1> QED
    BY <1>4, <1>5, <1>6 DEF files

\* Rows without a torn one.
LEMMA NoneTorn ==
  ASSUME NEW rows \in Seq(RowOrTorn), Torn \notin ToSet(rows)
  PROVE  rows \in Seq(Numbered)
  <1>1. Len(rows) \in Nat /\ DOMAIN rows = 1 .. Len(rows) /\ \A n \in 1 .. Len(rows) : rows[n] \in RowOrTorn
    BY LenProperties, ElementOfSeq
  <1>2. \A n \in 1 .. Len(rows) : rows[n] \in ToSet(rows)
    BY <1>1 DEF ToSet
  <1>3. \A n \in 1 .. Len(rows) : rows[n] \in Numbered
    BY <1>1, <1>2 DEF RowOrTorn
  <1>4. rows = [n \in 1 .. Len(rows) |-> rows[n]]
    BY LenProperties
  <1> QED
    BY <1>1, <1>3, <1>4

LEMMA MayBeTorn ==
  ASSUME NEW rows \in Seq(Numbered)
  PROVE  rows \in Seq(RowOrTorn)
  <1>1. Len(rows) \in Nat /\ \A n \in 1 .. Len(rows) : rows[n] \in RowOrTorn
    BY LenProperties, ElementOfSeq DEF RowOrTorn
  <1>2. rows = [n \in 1 .. Len(rows) |-> rows[n]]
    BY LenProperties
  <1> QED
    BY <1>1, <1>2

\* What is left of rows is rows, the last of which may be torn.
LEMMA LeftType ==
  ASSUME NEW rows \in Seq(Numbered), NEW part \in Left(rows)
  PROVE  part \in Seq(RowOrTorn)
  <1>1. Len(rows) \in Nat /\ DOMAIN rows = 1 .. Len(rows) /\ \A n \in 1 .. Len(rows) : rows[n] \in Numbered
    BY LenProperties, ElementOfSeq
  <1>2. \A l \in 0 .. Len(rows) : SubSeq(rows, 1, l) \in Seq(RowOrTorn)
    <2> SUFFICES ASSUME NEW l \in 0 .. Len(rows) PROVE SubSeq(rows, 1, l) \in Seq(RowOrTorn)
      OBVIOUS
    <2>1. l \in Nat /\ \A a \in 1 .. l : rows[a] \in RowOrTorn
      BY <1>1 DEF RowOrTorn
    <2>2. SubSeq(rows, 1, l) = [a \in 1 .. l |-> rows[a]]
      <3>1. l - 1 + 1 = l /\ \A a \in 1 .. l : a + 1 - 1 = a
        BY <2>1
      <3> QED
        BY <1>1, <2>1, <3>1
    <2> QED
      BY <2>1, <2>2
  <1>3. CASE part \in Prefixes(rows)
    BY <1>2, <1>3 DEF Prefixes
  <1>4. CASE part \notin Prefixes(rows)
    <2>1. PICK n \in DOMAIN rows :
            \E last \in {Torn} \cup {[rows[n] EXCEPT !.post_pm = x] : x \in Digits(rows[n].post_pm)} :
              part = SubSeq(rows, 1, n - 1) \o <<last>>
      <3> DEFINE Lasts(n) == {Torn} \cup {[rows[n] EXCEPT !.post_pm = x] : x \in Digits(rows[n].post_pm)}
                 Ends(n) == {SubSeq(rows, 1, n - 1) \o <<last>> : last \in Lasts(n)}
      <3>1. part \in UNION {Ends(n) : n \in DOMAIN rows}
        BY <1>4 DEF Left
      <3> HIDE DEF Ends
      <3>2. PICK n \in DOMAIN rows : part \in Ends(n)
        BY <3>1
      <3>3. \E last \in Lasts(n) : part = SubSeq(rows, 1, n - 1) \o <<last>>
        <4> HIDE DEF Lasts
        <4> QED
          BY <3>2 DEF Ends
      <3> QED
        BY <3>3
    <2>2. PICK last \in {Torn} \cup {[rows[n] EXCEPT !.post_pm = x] : x \in Digits(rows[n].post_pm)} :
            part = SubSeq(rows, 1, n - 1) \o <<last>>
      BY <2>1
    <2>3. rows[n] \in Numbered
      BY <1>1
    <2>4. \A x \in Digits(rows[n].post_pm) : x \in Int
      <3> DEFINE y == rows[n].post_pm
      <3>1. y \in Int
        BY <2>3 DEF Numbered
      <3> HIDE DEF y
      <3>2. \A q \in PowersOfTen : q \in Nat \ {0}
        BY DEF PowersOfTen
      <3>3. \A q \in PowersOfTen : -((-y) \div q) \in Int /\ y \div q \in Int
        <4> SUFFICES ASSUME NEW q \in Nat \ {0} PROVE -((-y) \div q) \in Int /\ y \div q \in Int
          BY <3>2
        <4> QED
          BY <3>1
      <3>4. \A x \in Digits(y) : \E q \in PowersOfTen : x = -((-y) \div q) \/ x = y \div q
        BY DEF Digits
      <3>5. \A x \in Digits(y) : x \in Int
        BY <3>3, <3>4
      <3> QED
        BY <3>5 DEF y
    <2>5. \A x \in Int : [rows[n] EXCEPT !.post_pm = x] \in Numbered
      BY <2>3 DEF Numbered
    <2>6. last \in RowOrTorn
      BY <2>4, <2>5 DEF RowOrTorn
    <2>7. <<last>> \in Seq(RowOrTorn)
      BY <2>6
    <2>8. SubSeq(rows, 1, n - 1) \in Seq(RowOrTorn)
      <3>1. n - 1 \in 0 .. Len(rows)
        BY <1>1
      <3> QED
        BY <1>2, <3>1
    <2> DEFINE before == SubSeq(rows, 1, n - 1)
    <2> HIDE DEF before
    <2>9. before \o <<last>> \in Seq(RowOrTorn)
      BY <2>7, <2>8, ConcatProperties DEF before
    <2> QED
      BY <2>2, <2>9 DEF before
  <1> QED
    BY <1>3, <1>4

\* Some files of a size changed.
LEMMA SomeChanged ==
  ASSUME DirInv, NEW w \in WssRange, NEW new, DOMAIN new \subseteq Outputs(w),
         \A f \in DOMAIN new : new[f] \in Seq(RowOrTorn), completed' = Updated(completed, new)
  PROVE  /\ DOMAIN completed' = DOMAIN completed \cup DOMAIN new /\ RowDir'
         /\ \A f \in DOMAIN new : completed'[f] = new[f]
         /\ \A f \in DOMAIN completed \ DOMAIN new : completed'[f] = completed[f]
  <1>1. IsFiniteSet(Outputs(w)) /\ Outputs(w) \subseteq STRING \X TypeNames \X WssRange
    BY OutputsAre
  <1>2. /\ DOMAIN completed' = DOMAIN completed \cup DOMAIN new
        /\ \A f \in DOMAIN new : completed'[f] = new[f]
        /\ \A f \in DOMAIN completed \ DOMAIN new : completed'[f] = completed[f]
    <2>1. /\ DOMAIN Updated(completed, new) = DOMAIN completed \cup DOMAIN new
          /\ \A f \in DOMAIN new : Updated(completed, new)[f] = new[f]
          /\ \A f \in DOMAIN completed \ DOMAIN new : Updated(completed, new)[f] = completed[f]
      BY UpdatedIs
    <2> QED
      BY <2>1
  <1>3. IsFiniteSet(DOMAIN completed \cup DOMAIN new)
    <2>1. IsFiniteSet(DOMAIN new)
      BY <1>1, FS_Subset
    <2> QED
      BY <2>1, FS_Union DEF DirInv, RowDir
  <1>4. \A f \in DOMAIN completed' : completed'[f] \in Seq(RowOrTorn)
    BY <1>2 DEF DirInv, RowDir
  <1>5. DOMAIN completed' \subseteq STRING \X TypeNames \X WssRange
    BY <1>1, <1>2 DEF DirInv, RowDir
  <1>6. RowDir'
    BY <1>2, <1>3, <1>4, <1>5 DEF RowDir
  <1> QED
    BY <1>2, <1>6

LEMMA TracedAre ==
  ASSUME DirInv, NEW w \in TracedSizes
  PROVE  w \in WssRange
  BY DEF TracedSizes, DirInv, TraceDir

LEMMA WriteAppends ==
  ASSUME DirInv, pc = "Read", NEW lines \in Seq(Measured(CpusOf(topo))), Write(lines)
  PROVE  /\ DOMAIN completed' = DOMAIN completed /\ RowDir'
         /\ \A f \in Outputs(wss) :
              /\ IsExtended(completed'[f], completed[f], lines, OwnLines(lines, f[2]))
              /\ completed'[f] \in Seq(Numbered)
         /\ \A f \in DOMAIN completed \ Outputs(wss) : completed'[f] = completed[f]
  <1> DEFINE files == Written(lines)
  <1>1. completed' = files
    BY DEF Write
  <1>2. /\ DOMAIN files = DOMAIN completed
        /\ \A f \in Outputs(wss) :
             /\ IsExtended(files[f], completed[f], lines, OwnLines(lines, f[2]))
             /\ files[f] \in Seq(Numbered)
        /\ \A f \in DOMAIN completed \ Outputs(wss) : files[f] = completed[f]
    BY WrittenIs
  <1> HIDE DEF files
  <1>3. \A f \in DOMAIN completed : completed'[f] \in Seq(RowOrTorn)
    <2> SUFFICES ASSUME NEW f \in DOMAIN completed PROVE completed'[f] \in Seq(RowOrTorn)
      OBVIOUS
    <2>1. CASE f \in Outputs(wss)
      <3>1. completed'[f] \in Seq(Numbered)
        BY <1>1, <1>2, <2>1
      <3> QED
        BY <3>1, MayBeTorn
    <2>2. CASE f \notin Outputs(wss)
      BY <1>1, <1>2, <2>2 DEF DirInv, RowDir
    <2> QED
      BY <2>1, <2>2
  <1>4. RowDir'
    BY <1>1, <1>2, <1>3 DEF DirInv, RowDir
  <1> QED
    BY <1>1, <1>2, <1>4

\* New, empty files for a size, or some of them.
LEMMA OutputsOpened ==
  ASSUME DirInv, NEW w \in TracedSizes, NEW E, E \subseteq Outputs(w),
         completed' = Updated(completed, [f \in E |-> <<>>])
  PROVE  /\ DOMAIN completed' = DOMAIN completed \cup E /\ RowDir'
         /\ \A f \in E : completed'[f] = <<>>
         /\ \A f \in DOMAIN completed \ E : completed'[f] = completed[f]
  <1> DEFINE new == [f \in E |-> <<>>]
  <1>1. DOMAIN new = E /\ \A f \in E : new[f] = <<>>
    OBVIOUS
  <1>2. w \in WssRange
    BY TracedAre
  <1>3. completed' = Updated(completed, new)
    OBVIOUS
  <1>4. <<>> \in Seq(RowOrTorn)
    OBVIOUS
  <1> HIDE DEF new
  <1>5. DOMAIN new \subseteq Outputs(w) /\ \A f \in DOMAIN new : new[f] \in Seq(RowOrTorn)
    BY <1>1, <1>4
  <1>6. /\ DOMAIN completed' = DOMAIN completed \cup DOMAIN new /\ RowDir'
        /\ \A f \in DOMAIN new : completed'[f] = new[f]
        /\ \A f \in DOMAIN completed \ DOMAIN new : completed'[f] = completed[f]
    BY <1>2, <1>3, <1>5, SomeChanged
  <1> QED
    BY <1>1, <1>6

\* The files of a size, stopped in the middle.
LEMMA CutShortIs ==
  ASSUME DirInv, pc = "Read", NEW files, \A f \in Outputs(wss) : files[f] \in Seq(Numbered),
         CutShort(files)
  PROVE  RowDir'
  <1> DEFINE left == UNION {{<<f, rows>> : rows \in Left(files[f])} : f \in Outputs(wss)}
             S == {x[2] : x \in left}
  <1>1. PICK cut \in [Outputs(wss) -> S] :
          /\ \A f \in DOMAIN cut : <<f, cut[f]>> \in left
          /\ completed' = Updated(completed, cut)
    BY DEF CutShort
  <1>2. \A f, rows : <<f, rows>> \in left => f \in Outputs(wss) /\ rows \in Left(files[f])
    <2> DEFINE Pairs(f) == {<<f, rows>> : rows \in Left(files[f])}
    <2>1. left = UNION {Pairs(f) : f \in Outputs(wss)}
      OBVIOUS
    <2>2. \A f, x : x \in Pairs(f) => \E rows \in Left(files[f]) : x = <<f, rows>>
      OBVIOUS
    <2> HIDE DEF left, Pairs
    <2> SUFFICES ASSUME NEW f, NEW rows, <<f, rows>> \in left
                 PROVE  f \in Outputs(wss) /\ rows \in Left(files[f])
      OBVIOUS
    <2>3. PICK g \in Outputs(wss) : <<f, rows>> \in Pairs(g)
      BY <2>1
    <2>4. PICK r \in Left(files[g]) : <<f, rows>> = <<g, r>>
      BY <2>2, <2>3
    <2>5. f = g /\ rows = r
      BY <2>4
    <2> QED
      BY <2>3, <2>4, <2>5
  <1> HIDE DEF left, S
  <1>3. DOMAIN cut = Outputs(wss)
    BY <1>1
  <1>4. \A f \in DOMAIN cut : cut[f] \in Seq(RowOrTorn)
    <2> SUFFICES ASSUME NEW f \in DOMAIN cut PROVE cut[f] \in Seq(RowOrTorn)
      OBVIOUS
    <2>1. cut[f] \in Left(files[f]) /\ files[f] \in Seq(Numbered)
      BY <1>1, <1>2, <1>3
    <2> QED
      BY <2>1, LeftType
  <1>5. wss \in WssRange
    BY TracedAre DEF DirInv
  <1>6. completed' = Updated(completed, cut) /\ DOMAIN cut \subseteq Outputs(wss)
    BY <1>1, <1>3
  <1> QED
    BY <1>4, <1>5, <1>6, SomeChanged

LEMMA DirInvInit == Init => DirInv
  <1> SUFFICES ASSUME Init PROVE DirInv
    OBVIOUS
  <1>1. topo \in Topologies /\ traces \in TracesOnHand /\ completed \in Leftovers
    BY DEF Init
  <1>2. /\ TraceDir /\ RowDir
    BY <1>1, CpmdAssumption DEF TraceDir, RowDir, RowOrTorn
  <1> QED
    BY <1>1, <1>2 DEF Init, DirInv

\* A new trace keeps the directory of traces.
LEMMA TraceCreated ==
  ASSUME TraceDir, NEW c \in WssRange \X Nat, traces' = Updated(traces, [d \in {c} |-> <<>>]),
         UNCHANGED topo
  PROVE  TraceDir' /\ DOMAIN traces \subseteq DOMAIN traces'
  <1> DEFINE new == [d \in {c} |-> <<>>]
  <1>1. DOMAIN new = {c} /\ new[c] = <<>> /\ traces' = Updated(traces, new)
    OBVIOUS
  <1> HIDE DEF new
  <1>2. /\ DOMAIN traces' = DOMAIN traces \cup {c} /\ traces'[c] = <<>>
        /\ \A d \in DOMAIN traces \ {c} : traces'[d] = traces[d]
    <2>1. /\ DOMAIN Updated(traces, new) = DOMAIN traces \cup DOMAIN new
          /\ \A d \in DOMAIN new : Updated(traces, new)[d] = new[d]
          /\ \A d \in DOMAIN traces \ DOMAIN new : Updated(traces, new)[d] = traces[d]
      BY UpdatedIs
    <2> QED
      BY <1>1, <2>1
  <1>3. <<>> \in Seq(Measured(CpusOf(topo)) \cup {Header})
    OBVIOUS
  <1>4. IsFiniteSet(DOMAIN traces \cup {c})
    BY FS_AddElement DEF TraceDir
  <1>5. \A d \in DOMAIN traces' : traces'[d] \in Seq(Measured(CpusOf(topo)) \cup {Header})
    BY <1>2, <1>3 DEF TraceDir
  <1>6. DOMAIN traces' \subseteq WssRange \X Nat /\ IsFiniteSet(DOMAIN traces')
    BY <1>2, <1>4 DEF TraceDir
  <1> QED
    BY <1>2, <1>5, <1>6 DEF TraceDir

\* So does cache_cost.
LEMMA TraceLeft ==
  ASSUME TraceDir, topo \in Topologies, CacheCostLeaves, UNCHANGED topo
  PROVE  TraceDir' /\ DOMAIN traces' = DOMAIN traces
  <1>1. CASE ConfigAt(k) \in DOMAIN traces
    <2>1. PICK lines \in CacheCostOutputs : traces' = [traces EXCEPT ![ConfigAt(k)] = lines]
      BY <1>1 DEF CacheCostLeaves
    <2>2. lines \in Seq(Measured(CpusOf(topo)) \cup {Header})
      BY CpmdAssumption
    <2>3. DOMAIN traces' = DOMAIN traces /\ \A c \in DOMAIN traces : traces'[c] \in {traces[c], lines}
      BY <2>1
    <2> QED
      BY <2>2, <2>3 DEF TraceDir
  <1>2. CASE ConfigAt(k) \notin DOMAIN traces
    BY <1>2 DEF CacheCostLeaves, TraceDir
  <1> QED
    BY <1>1, <1>2

\* However group_traces() is stopped, the files of results/completed have rows.
LEMMA GroupStopped ==
  ASSUME DirInv, GroupRaises \/ GroupFails
  PROVE  RowDir'
  <1>0. pc = "Read"
    BY DEF GroupRaises, GroupFails
  <1>1. PICK c \in files_left : \E n \in Fitting(traces[c]) :
          Write(SubSeq(traces[c], 1, n)) \/ CutShort(Written(SubSeq(traces[c], 1, n)))
    BY DEF GroupRaises, GroupFails
  <1>2. PICK n \in Fitting(traces[c]) :
          Write(SubSeq(traces[c], 1, n)) \/ CutShort(Written(SubSeq(traces[c], 1, n)))
    BY <1>1
  <1>3. c \in DOMAIN traces /\ TraceDir
    BY <1>0 DEF DirInv, FilesOf
  <1> DEFINE lines == SubSeq(traces[c], 1, n)
  <1>4. lines \in Seq(Measured(CpusOf(topo)))
    BY <1>3, FittingLines
  <1>5. Write(lines) \/ CutShort(Written(lines))
    BY <1>2
  <1> HIDE DEF lines
  <1>6. CASE Write(lines)
    BY <1>0, <1>4, <1>6, WriteAppends
  <1>7. CASE CutShort(Written(lines))
    <2> DEFINE files == Written(lines)
    <2>1. \A f \in Outputs(wss) : files[f] \in Seq(Numbered)
      BY <1>0, <1>4, WrittenIs
    <2>2. CutShort(files)
      BY <1>7
    <2> HIDE DEF files
    <2> QED
      BY <1>0, <2>1, <2>2, CutShortIs
  <1> QED
    BY <1>5, <1>6, <1>7

LEMMA DirInvNext == DirInv /\ [Next]_vars => DirInv'
  <1> SUFFICES ASSUME DirInv, [Next]_vars PROVE DirInv'
    OBVIOUS
  <1>f. ASSUME UNCHANGED <<topo, traces>>, RowDir', k' \in Nat \ {0}, wss_left' \subseteq TracedSizes,
               pc' # "Read"
        PROVE  DirInv'
    BY <1>f DEF DirInv, TraceDir, TracedSizes
  <1>s. ASSUME UNCHANGED <<topo, traces, completed, k, wss_left, files_left, wss, pc>> PROVE DirInv'
    BY <1>s DEF DirInv, TraceDir, RowDir, TracedSizes, FilesOf, Outputs
  <1>r. UNCHANGED completed => RowDir'
    BY DEF DirInv, RowDir
  <1>e. ASSUME NEW to, End(to), to # "Read", UNCHANGED <<topo, traces>>, RowDir' PROVE DirInv'
    <2>1. k' \in Nat \ {0} /\ wss_left' \subseteq TracedSizes /\ pc' # "Read"
      BY <1>e DEF End
    <2> QED
      BY <1>e, <1>f, <2>1
  <1>d. k \in Nat \ {0} /\ wss_left \subseteq TracedSizes
    BY DEF DirInv
  <1>1. CASE StartBuild \/ StartExport
    BY <1>1, <1>d, <1>f, <1>r DEF StartBuild, StartExport, Start, listing, dirs
  <1>3. CASE SkipTrace
    <2>1. k' \in Nat \ {0}
      BY <1>3, <1>d DEF SkipTrace
    <2> QED
      BY <1>3, <1>d, <1>f, <1>r, <2>1 DEF SkipTrace, Obtaining, listing, dirs
  <1>4. CASE StartCacheCost
    <2>1. k \in 1 .. Len(wss_values) * Len(writecycle_values)
      <3>1. Len(wss_values) \in Nat /\ Len(writecycle_values) \in Nat
        BY CpmdAssumption, LenProperties
      <3> DEFINE n == Len(wss_values) * Len(writecycle_values)
      <3>2. n \in Nat
        BY <3>1
      <3> HIDE DEF n
      <3>3. k <= n
        BY <1>4 DEF StartCacheCost, Obtaining, n
      <3>4. k \in 1 .. n
        BY <1>d, <3>2, <3>3
      <3> QED
        BY <3>4 DEF n
    <2>2. ConfigAt(k) \in WssRange \X Nat
      BY <2>1, ConfigType
    <2>3. UNCHANGED <<topo, completed, k, wss_left>> /\ pc' # "Read" /\ TraceDir
      BY <1>4 DEF StartCacheCost, listing, DirInv
    <2>4. TraceDir' /\ DOMAIN traces \subseteq DOMAIN traces'
      <3>1. CASE traces' = Updated(traces, [d \in {ConfigAt(k)} |-> <<>>])
        BY <2>2, <2>3, <3>1, TraceCreated
      <3>2. CASE UNCHANGED traces
        BY <2>3, <3>2 DEF TraceDir
      <3> QED
        BY <1>4, <3>1, <3>2 DEF StartCacheCost
    <2>5. \A c \in DOMAIN traces : c \in DOMAIN traces'
      BY <2>4
    <2>6. wss_left' \subseteq TracedSizes'
      BY <1>d, <2>3, <2>5 DEF TracedSizes
    <2> QED
      BY <1>d, <1>r, <2>3, <2>4, <2>6 DEF DirInv
  <1>5. CASE CacheCostEnds
    <2>1. UNCHANGED <<topo, completed, wss_left>> /\ pc' # "Read" /\ k' \in Nat \ {0}
      BY <1>5, <1>d DEF CacheCostEnds, listing
    <2>2. TraceDir' /\ DOMAIN traces' = DOMAIN traces
      BY <1>5, <2>1, TraceLeft DEF CacheCostEnds, DirInv
    <2>3. wss_left' \subseteq TracedSizes'
      BY <1>d, <2>1, <2>2 DEF TracedSizes
    <2> QED
      BY <1>r, <2>1, <2>2, <2>3 DEF DirInv
  <1>6. CASE ObtainDone
    <2>1. wss_left' = TracedSizes
      BY <1>6 DEF ObtainDone, TracedSizes
    <2> QED
      BY <1>6, <1>d, <1>f, <1>r, <2>1 DEF ObtainDone, dirs
  <1>7. CASE OpenOutputs
    <2>1. PICK w \in wss_left :
            /\ wss' = w /\ wss_left' = wss_left \ {w}
            /\ files_left' = {c \in DOMAIN traces : c[1] = w}
            /\ completed' = Updated(completed, [f \in Outputs(w) |-> <<>>])
      BY <1>7 DEF OpenOutputs
    <2>2. UNCHANGED <<topo, traces, k>>
      BY <1>7 DEF OpenOutputs
    <2>3. w \in TracedSizes
      BY <1>d
    <2>4. /\ DOMAIN completed' = DOMAIN completed \cup Outputs(w) /\ RowDir'
          /\ \A f \in Outputs(w) : completed'[f] = <<>>
      BY <2>1, <2>3, OutputsOpened
    <2>5. Outputs(wss)' = Outputs(w)
      BY <2>1, <2>2 DEF Outputs
    <2>6. files_left' \subseteq FilesOf(wss)' /\ TracedSizes' = TracedSizes
      BY <2>1, <2>2 DEF FilesOf, TracedSizes
    <2>7. wss' \in TracedSizes' \ wss_left' /\ wss_left' \subseteq TracedSizes'
      BY <1>d, <2>1, <2>3, <2>6
    <2>8. TraceDir' /\ topo' \in Topologies
      BY <2>2 DEF DirInv, TraceDir
    <2>9. \A f \in Outputs(wss)' : completed'[f] \in Seq(Numbered)
      <3>1. <<>> \in Seq(Numbered)
        OBVIOUS
      <3> QED
        BY <2>4, <2>5, <3>1
    <2> QED
      BY <1>d, <2>2, <2>4, <2>5, <2>6, <2>7, <2>8, <2>9 DEF DirInv
  <1>h. CASE OpenFails
    <2>1. PICK w \in wss_left : \E emptied \in SUBSET Outputs(w) :
            completed' = Updated(completed, [f \in emptied |-> <<>>])
      BY <1>h DEF OpenFails
    <2>2. PICK emptied \in SUBSET Outputs(w) : completed' = Updated(completed, [f \in emptied |-> <<>>])
      BY <2>1
    <2>3. w \in TracedSizes /\ emptied \subseteq Outputs(w)
      BY <1>d
    <2>4. RowDir'
      BY <2>2, <2>3, OutputsOpened
    <2>5. End("Raised") /\ UNCHANGED <<topo, traces>>
      BY <1>h DEF OpenFails, Raise
    <2> QED
      BY <1>e, <2>4, <2>5
  <1>8. CASE GroupTrace
    <2>1. PICK c \in files_left : /\ Len(traces[c]) \in Fitting(traces[c])
                                  /\ Write(traces[c]) /\ files_left' = files_left \ {c}
      BY <1>8 DEF GroupTrace
    <2>2. pc = "Read" /\ UNCHANGED <<topo, pc, k, wss_left, wss, traces>>
      BY <1>8 DEF GroupTrace
    <2>3. c \in DOMAIN traces
      BY <2>1, <2>2 DEF DirInv, FilesOf
    <2>4. traces[c] \in Seq(Measured(CpusOf(topo)))
      BY <2>1, <2>3, AllFitting DEF DirInv
    <2>5. /\ DOMAIN completed' = DOMAIN completed /\ RowDir'
          /\ \A f \in Outputs(wss) : completed'[f] \in Seq(Numbered)
      BY <2>1, <2>2, <2>4, WriteAppends
    <2>6. /\ TraceDir' /\ topo' \in Topologies /\ FilesOf(wss)' = FilesOf(wss)
          /\ TracedSizes' = TracedSizes /\ Outputs(wss)' = Outputs(wss)
      BY <2>2 DEF DirInv, TraceDir, FilesOf, TracedSizes, Outputs
    <2>7. files_left' \subseteq FilesOf(wss)
      BY <2>1, <2>2 DEF DirInv
    <2> QED
      BY <1>d, <2>2, <2>5, <2>6, <2>7 DEF DirInv
  <1>9. CASE GroupRaises \/ GroupFails
    <2>1. UNCHANGED <<topo, traces>> /\ End("Raised")
      BY <1>9 DEF GroupRaises, GroupFails, Raise
    <2>2. RowDir'
      BY <1>9, GroupStopped
    <2> QED
      BY <1>e, <2>1, <2>2
  <1>10. CASE NextWss
    BY <1>10, <1>d, <1>f, <1>r DEF NextWss, listing, dirs
  <1>11. CASE GroupDone \/ OpenModel
    BY <1>11, <1>d, <1>f, <1>r DEF GroupDone, OpenModel, dirs
  <1>12. CASE SumUp
    BY <1>12, <1>d, <1>f, <1>r DEF SumUp, listing, dirs
  <1>13. CASE \/ ObtainFails \/ OpenModelFails \/ ReadFails \/ ReadRaises \/ NothingToSumUp
              \/ WriteRow \/ BuildDone \/ ExportFails \/ ExportDone
    <2>1. /\ \E to \in {"Raised", "Done", "Exported"} : End(to)
          /\ UNCHANGED <<topo, traces, completed>>
      BY <1>13 DEF ObtainFails, OpenModelFails, ReadFails, ReadRaises, NothingToSumUp, WriteRow,
           BuildDone, ExportFails, ExportDone, Raise, dirs
    <2> QED
      BY <1>e, <1>r, <2>1
  <1>14. CASE ReadModel \/ ReadDone
    BY <1>14, <1>d, <1>f, <1>r DEF ReadModel, ReadDone, listing, dirs
  <1>15. CASE WriteOvset
    BY <1>15, <1>d, <1>f, <1>r DEF WriteOvset
  <1>16. CASE Killed
    <2>1. End("Off") /\ UNCHANGED topo
      BY <1>16 DEF Killed
    <2>2. TraceDir' /\ DOMAIN traces' = DOMAIN traces
      <3>1. CASE pc = "Wait"
        BY <1>16, <2>1, <3>1, TraceLeft DEF Killed, DirInv
      <3>2. CASE pc # "Wait"
        BY <1>16, <2>1, <3>2 DEF Killed, DirInv, TraceDir
      <3> QED
        BY <3>1, <3>2
    <2>3. RowDir'
      <3>1. CASE pc = "Read"
        <4>1. CutShort(completed)
          BY <1>16, <3>1 DEF Killed
        <4>2. \A f \in Outputs(wss) : completed[f] \in Seq(Numbered)
          BY <3>1 DEF DirInv
        <4> QED
          BY <3>1, <4>1, <4>2, CutShortIs
      <3>2. CASE pc # "Read"
        BY <1>16, <1>r, <3>2 DEF Killed
      <3> QED
        BY <3>1, <3>2
    <2>4. k' \in Nat \ {0} /\ wss_left' \subseteq TracedSizes' /\ pc' # "Read"
      BY <2>1 DEF End
    <2> QED
      BY <2>1, <2>2, <2>3, <2>4 DEF DirInv
  <1>17. CASE Finished \/ UNCHANGED vars
    BY <1>17, <1>s DEF Finished, vars, listing, dirs
  <1> QED
    BY <1>1, <1>3, <1>4, <1>5, <1>6, <1>7, <1>8, <1>9, <1>10, <1>11, <1>12, <1>13, <1>14,
       <1>15, <1>16, <1>17, <1>h DEF Next, Obtain, Group, Model, Export

-----------------------------------------------------------------------------
(* The files of results/completed hold the rows of the traces read.        *)

TypeIn(tp, line) == MigrationType(tp, line.src, line.tgt)

\* The lines of the traces C that belong to type t.
LinesIn(tp, tr, C, t) ==
  {x \in UNION {{c} \X DOMAIN tr[c] : c \in C} : TypeIn(tp, tr[x[1]][x[2]]) = t}

\* rows holds these lines once each, numbered; b says which line a row is.
AreLines(tp, tr, C, t, rows, b) ==
  /\ b \in Bijection(1 .. Len(rows), LinesIn(tp, tr, C, t))
  /\ \A n \in 1 .. Len(rows) :
       /\ rows[n].count = n
       /\ rows[n].times = tr[b[n][1]][b[n][2]].times
       /\ rows[n].post_pm = tr[b[n][1]][b[n][2]].post_pm

IsGrouped(tp, tr, C, t, rows) ==
  rows \in Seq(Numbered) /\ \E b : AreLines(tp, tr, C, t, rows, b)

LEMMA LinesAre ==
  ASSUME NEW tp, NEW tr, NEW C, NEW t
  PROVE  /\ \A x \in LinesIn(tp, tr, C, t) : \E c \in C : \E n \in DOMAIN tr[c] :
              x = <<c, n>> /\ TypeIn(tp, tr[c][n]) = t
         /\ \A c \in C : \A n \in DOMAIN tr[c] :
              TypeIn(tp, tr[c][n]) = t => <<c, n>> \in LinesIn(tp, tr, C, t)
  BY DEF LinesIn

LEMMA NothingGrouped ==
  ASSUME NEW tp, NEW tr, NEW t
  PROVE  IsGrouped(tp, tr, {}, t, <<>>)
  <1>1. LinesIn(tp, tr, {}, t) = {}
    BY DEF LinesIn
  <1>2. 1 .. Len(<<>>) = {}
    OBVIOUS
  <1> DEFINE b == [n \in {} |-> 0]
  <1>3. b \in Bijection({}, {})
    BY DEF Bijection, Injection, Surjection, IsInjective
  <1> HIDE DEF b
  <1>4. AreLines(tp, tr, {}, t, <<>>, b)
    BY <1>1, <1>2, <1>3 DEF AreLines
  <1>5. <<>> \in Seq(Numbered)
    OBVIOUS
  <1> QED
    BY <1>4, <1>5 DEF IsGrouped

LEMMA MoreGrouped ==
  ASSUME NEW tp, NEW tr, NEW C, NEW t, NEW old, IsGrouped(tp, tr, C, t, old),
         NEW c, c \notin C, NEW S, tr[c] \in Seq(S), NEW own,
         own = {n \in DOMAIN tr[c] : TypeIn(tp, tr[c][n]) = t}, OwnAre(own, Len(tr[c])),
         NEW rows, IsExtended(rows, old, tr[c], own)
  PROVE  IsGrouped(tp, tr, C \cup {c}, t, rows)
  <1> DEFINE L == Len(old)
             m == Cardinality(own)
             A == LinesIn(tp, tr, C, t)
             B == LinesIn(tp, tr, C \cup {c}, t)
  <1>1. PICK b : AreLines(tp, tr, C, t, old, b)
    BY DEF IsGrouped
  <1>2. L \in Nat /\ m \in Nat /\ Len(rows) = L + m
    BY DEF IsExtended, OwnAre
  <1>3. /\ \A n \in 1 .. m : Nth(own, n) \in own /\ Rank(own, Nth(own, n)) = n
        /\ \A x \in own : Rank(own, x) \in 1 .. m /\ Nth(own, Rank(own, x)) = x
    BY DEF OwnAre
  <1>4. /\ \A x \in A : \E d \in C : \E n \in DOMAIN tr[d] : x = <<d, n>> /\ TypeIn(tp, tr[d][n]) = t
        /\ \A d \in C : \A n \in DOMAIN tr[d] : TypeIn(tp, tr[d][n]) = t => <<d, n>> \in A
    BY LinesAre
  <1>5. /\ \A x \in B : \E d \in C \cup {c} : \E n \in DOMAIN tr[d] : x = <<d, n>> /\ TypeIn(tp, tr[d][n]) = t
        /\ \A d \in C \cup {c} : \A n \in DOMAIN tr[d] : TypeIn(tp, tr[d][n]) = t => <<d, n>> \in B
    BY LinesAre
  <1>6. /\ b \in [1 .. L -> A]
        /\ \A i, j \in 1 .. L : b[i] = b[j] => i = j
        /\ \A x \in A : \E i \in 1 .. L : b[i] = x
    <2>1. b \in Bijection(1 .. L, A)
      BY <1>1 DEF AreLines
    <2> HIDE DEF L, A
    <2> QED
      BY <2>1 DEF Bijection, Injection, Surjection, IsInjective
  <1>7. \A x \in A : x \in B /\ x[1] # c
    <2> HIDE DEF A, B
    <2> QED
      BY <1>4, <1>5
  <1>8. \A x \in own : <<c, x>> \in B
    <2> HIDE DEF B
    <2> QED
      BY <1>5
  <1>9. \A x \in B : x \in A \/ \E n \in own : x = <<c, n>>
    <2> HIDE DEF A, B
    <2> QED
      BY <1>4, <1>5
  <1> DEFINE e == [i \in 1 .. L + m |-> IF i <= L THEN b[i] ELSE <<c, Nth(own, i - L)>>]
  <1> HIDE DEF A, B, m
  <1>10. /\ \A i \in 1 .. L : e[i] = b[i] /\ e[i] \in A /\ i \in 1 .. L + m
         /\ \A i \in 1 .. m : e[L + i] = <<c, Nth(own, i)>> /\ L + i \in 1 .. L + m
    <2> HIDE DEF L
    <2>1. \A i \in 1 .. L : i \in 1 .. L + m /\ i <= L
      BY <1>2
    <2>2. \A i \in 1 .. m : L + i \in 1 .. L + m /\ ~(L + i <= L) /\ (L + i) - L = i
      BY <1>2
    <2> QED
      BY <1>6, <2>1, <2>2
  <1>11. \A i \in 1 .. L + m : i \in 1 .. L \/ \E j \in 1 .. m : i = L + j
    <2> HIDE DEF L
    <2> SUFFICES ASSUME NEW i \in 1 .. L + m, i \notin 1 .. L PROVE \E j \in 1 .. m : i = L + j
      OBVIOUS
    <2>1. i - L \in 1 .. m /\ i = L + (i - L)
      BY <1>2
    <2> QED
      BY <2>1
  <1>12. e \in Bijection(1 .. L + m, B)
    <2> DEFINE D == 1 .. L + m
    <2>1. \A i \in D : e[i] \in B
      <3> HIDE DEF L, e
      <3> QED
        <4> SUFFICES ASSUME NEW i \in D PROVE e[i] \in B
          OBVIOUS
        <4>1. CASE i \in 1 .. L
          BY <1>7, <1>10, <4>1
        <4>2. CASE \E j \in 1 .. m : i = L + j
          <5>1. PICK j \in 1 .. m : i = L + j
            BY <4>2
          <5>2. e[i] = <<c, Nth(own, j)>>
            BY <1>10, <5>1
          <5> QED
            BY <1>3, <1>8, <5>2
        <4> QED
          BY <1>11, <4>1, <4>2
    <2>2. ASSUME NEW i \in D, NEW j \in D, e[i] = e[j] PROVE i = j
      <3>1. CASE i \in 1 .. L /\ j \in 1 .. L
        <4> HIDE DEF L, e
        <4> QED
          BY <1>6, <1>10, <2>2, <3>1
      <3>2. CASE i \in 1 .. L /\ j \notin 1 .. L
        <4>1. PICK h \in 1 .. m : j = L + h
          BY <1>11, <3>2
        <4> HIDE DEF L, e
        <4>2. e[i][1] # c
          BY <1>7, <1>10, <3>2
        <4>3. e[j] = <<c, Nth(own, h)>>
          BY <1>10, <4>1
        <4> QED
          BY <2>2, <4>2, <4>3
      <3>3. CASE i \notin 1 .. L /\ j \in 1 .. L
        <4>1. PICK h \in 1 .. m : i = L + h
          BY <1>11, <3>3
        <4> HIDE DEF L, e
        <4>2. e[j][1] # c
          BY <1>7, <1>10, <3>3
        <4>3. e[i] = <<c, Nth(own, h)>>
          BY <1>10, <4>1
        <4> QED
          BY <2>2, <4>2, <4>3
      <3>4. CASE i \notin 1 .. L /\ j \notin 1 .. L
        <4>1. PICK g \in 1 .. m : i = L + g
          BY <1>11, <3>4
        <4>2. PICK h \in 1 .. m : j = L + h
          BY <1>11, <3>4
        <4> HIDE DEF L, e
        <4>3. Nth(own, g) = Nth(own, h)
          BY <1>10, <2>2, <4>1, <4>2
        <4> QED
          BY <1>3, <4>1, <4>2, <4>3
      <3> QED
        BY <3>1, <3>2, <3>3, <3>4
    <2>3. ASSUME NEW x \in B PROVE \E i \in D : e[i] = x
      <3>1. CASE x \in A
        <4>1. PICK i \in 1 .. L : b[i] = x
          BY <1>6, <3>1
        <4> HIDE DEF L, e
        <4> QED
          BY <1>10, <4>1
      <3>2. CASE \E n \in own : x = <<c, n>>
        <4>1. PICK n \in own : x = <<c, n>>
          BY <3>2
        <4> HIDE DEF L, e
        <4>2. Rank(own, n) \in 1 .. m /\ Nth(own, Rank(own, n)) = n
          BY <1>3
        <4>3. e[L + Rank(own, n)] = x /\ L + Rank(own, n) \in D
          BY <1>10, <4>1, <4>2
        <4> QED
          BY <4>3
      <3> QED
        BY <1>9, <3>1, <3>2
    <2>4. e \in [D -> B]
      <3>1. e = [i \in D |-> e[i]]
        OBVIOUS
      <3> HIDE DEF D, e
      <3> QED
        BY <2>1, <3>1
    <2> HIDE DEF D, e
    <2>5. e \in Bijection(D, B)
      BY <2>2, <2>3, <2>4 DEF Bijection, Injection, Surjection, IsInjective
    <2> QED
      BY <2>5 DEF D
  <1>13. ASSUME NEW i \in 1 .. L + m
         PROVE  /\ rows[i].count = i
                /\ rows[i].times = tr[e[i][1]][e[i][2]].times
                /\ rows[i].post_pm = tr[e[i][1]][e[i][2]].post_pm
    <2>1. CASE i \in 1 .. L
      <3>1. rows[i] = old[i]
        BY <2>1 DEF IsExtended
      <3>2. /\ old[i].count = i
            /\ old[i].times = tr[b[i][1]][b[i][2]].times
            /\ old[i].post_pm = tr[b[i][1]][b[i][2]].post_pm
        BY <1>1, <2>1 DEF AreLines
      <3>3. e[i] = b[i]
        BY <1>10, <2>1
      <3> HIDE DEF L, e
      <3> QED
        BY <3>1, <3>2, <3>3
    <2>2. CASE i \notin 1 .. L
      <3>1. PICK j \in 1 .. m : i = L + j
        BY <1>11, <2>2
      <3>2. /\ rows[L + j].count = L + j
            /\ rows[L + j].times = tr[c][Nth(own, j)].times
            /\ rows[L + j].post_pm = tr[c][Nth(own, j)].post_pm
        BY DEF IsExtended, m
      <3>3. e[L + j] = <<c, Nth(own, j)>>
        BY <1>10
      <3>4. e[L + j][1] = c /\ e[L + j][2] = Nth(own, j)
        <4> HIDE DEF L, e
        <4> QED
          BY <3>3
      <3> HIDE DEF L, e
      <3> QED
        BY <3>1, <3>2, <3>4
    <2> QED
      BY <2>1, <2>2
  <1> HIDE DEF L, e
  <1>14. AreLines(tp, tr, C \cup {c}, t, rows, e)
    BY <1>2, <1>12, <1>13 DEF AreLines, B
  <1>15. rows \in Seq(Numbered)
    BY DEF IsExtended
  <1> QED
    BY <1>14, <1>15 DEF IsGrouped

FitsIn(tp, line) ==
  line # Header /\ line.columns = 11 /\ TypeIn(tp, line) \in MigrationTypes(tp)

\* The files cm has for size w hold the lines of the traces C, all of which fit.
GroupedSize(tp, tr, cm, w, C) ==
  /\ \A c \in C : \A n \in DOMAIN tr[c] : FitsIn(tp, tr[c][n])
  /\ \A t \in MigrationTypes(tp) :
       <<host, t, w>> \in DOMAIN cm /\ IsGrouped(tp, tr, C, t, cm[<<host, t, w>>])

LEMMA SizeStays ==
  ASSUME NEW tp, NEW tr, NEW cm, NEW cn, NEW w, NEW C, GroupedSize(tp, tr, cm, w, C),
         \A t \in MigrationTypes(tp) :
           <<host, t, w>> \in DOMAIN cm =>
             <<host, t, w>> \in DOMAIN cn /\ cn[<<host, t, w>>] = cm[<<host, t, w>>]
  PROVE  GroupedSize(tp, tr, cn, w, C)
  BY DEF GroupedSize

\* A size group_traces() is through with is grouped; of the size it is at, the
\* traces it has read are.
GroupInv ==
  /\ pc \in {"Group", "Read", "Model", "Row", "Write", "Done"} =>
       \A w \in TracedSizes \ wss_left :
         (pc = "Read" => w # wss) => GroupedSize(topo, traces, completed, w, FilesOf(w))
  /\ pc = "Read" => GroupedSize(topo, traces, completed, wss, FilesOf(wss) \ files_left)
  /\ pc \in {"Model", "Row", "Write", "Done"} => wss_left = {}

LEMMA GroupInvInit == Init => GroupInv
  BY DEF Init, GroupInv

LEMMA GroupInvNext == DirInv /\ GroupInv /\ [Next]_vars => GroupInv'
  <1> SUFFICES ASSUME DirInv, GroupInv, [Next]_vars PROVE GroupInv'
    OBVIOUS
  <1>a. ASSUME pc' \notin {"Group", "Read", "Model", "Row", "Write", "Done"} PROVE GroupInv'
    BY <1>a DEF GroupInv
  <1>b. ASSUME pc' = "Group", wss_left' = TracedSizes' PROVE GroupInv'
    BY <1>b DEF GroupInv
  <1>c. ASSUME UNCHANGED <<topo, traces, completed, wss_left>>,
               pc \in {"Group", "Model", "Row"}, pc' \in {"Group", "Model", "Row", "Write", "Done"},
               pc' # "Group" => wss_left = {}
        PROVE  GroupInv'
    <2>1. \A w \in TracedSizes \ wss_left : GroupedSize(topo, traces, completed, w, FilesOf(w))
      BY <1>c DEF GroupInv
    <2>2. TracedSizes' = TracedSizes /\ \A w : FilesOf(w)' = FilesOf(w)
      BY <1>c DEF TracedSizes, FilesOf
    <2>3. \A w \in TracedSizes' \ wss_left' : GroupedSize(topo', traces', completed', w, FilesOf(w)')
      BY <1>c, <2>1, <2>2
    <2> QED
      BY <1>c, <2>3 DEF GroupInv
  <1>s. ASSUME UNCHANGED vars PROVE GroupInv'
    <2>1. UNCHANGED <<topo, traces, completed, wss_left, files_left, wss, pc>>
      BY <1>s DEF vars, listing, dirs
    <2>2. TracedSizes' = TracedSizes /\ \A w : FilesOf(w)' = FilesOf(w)
      BY <2>1 DEF TracedSizes, FilesOf
    <2>3. FilesOf(wss)' = FilesOf(wss)
      BY <2>1 DEF FilesOf
    <2> QED
      BY <2>1, <2>2, <2>3 DEF GroupInv
  <1>1. CASE StartBuild \/ StartExport
    BY <1>1, <1>a DEF StartBuild, StartExport, Start
  <1>3. CASE SkipTrace \/ StartCacheCost \/ CacheCostEnds
    BY <1>3, <1>a DEF SkipTrace, StartCacheCost, CacheCostEnds, Obtaining
  <1>4. CASE ObtainDone
    <2>1. wss_left' = TracedSizes'
      BY <1>4 DEF ObtainDone, TracedSizes, dirs
    <2> QED
      BY <1>4, <1>b, <2>1 DEF ObtainDone
  <1>5. CASE OpenOutputs
    <2>1. PICK w \in wss_left :
            /\ wss' = w /\ wss_left' = wss_left \ {w}
            /\ files_left' = FilesOf(w)
            /\ completed' = Updated(completed, [f \in Outputs(w) |-> <<>>])
      BY <1>5 DEF OpenOutputs, FilesOf
    <2>2. pc = "Group" /\ pc' = "Read" /\ UNCHANGED <<topo, traces>>
      BY <1>5 DEF OpenOutputs
    <2>3. w \in TracedSizes
      BY <2>1 DEF DirInv
    <2>4. /\ DOMAIN completed' = DOMAIN completed \cup Outputs(w)
          /\ \A f \in Outputs(w) : completed'[f] = <<>>
          /\ \A f \in DOMAIN completed \ Outputs(w) : completed'[f] = completed[f]
      BY <2>1, <2>3, OutputsOpened
    <2>5. TracedSizes' = TracedSizes /\ (\A v : FilesOf(v)' = FilesOf(v)) /\ FilesOf(wss)' = FilesOf(w)
      BY <2>1, <2>2 DEF TracedSizes, FilesOf
    <2>6. ASSUME NEW v \in TracedSizes \ wss_left', v # w
          PROVE  GroupedSize(topo, traces, completed', v, FilesOf(v))
      <3>1. GroupedSize(topo, traces, completed, v, FilesOf(v))
        BY <2>1, <2>2, <2>6 DEF GroupInv
      <3>2. \A t : <<host, t, v>> \notin Outputs(w)
        BY <2>6 DEF Outputs
      <3>3. \A t : <<host, t, v>> \in DOMAIN completed =>
                     /\ <<host, t, v>> \in DOMAIN completed'
                     /\ completed'[<<host, t, v>>] = completed[<<host, t, v>>]
        BY <2>4, <3>2
      <3> DEFINE C == FilesOf(v)
                 cn == completed'
      <3>4. GroupedSize(topo, traces, completed, v, C) /\ \A t \in MigrationTypes(topo) :
              <<host, t, v>> \in DOMAIN completed =>
                <<host, t, v>> \in DOMAIN cn /\ cn[<<host, t, v>>] = completed[<<host, t, v>>]
        BY <3>1, <3>3
      <3> HIDE DEF C, cn
      <3>5. GroupedSize(topo, traces, cn, v, C)
        BY <3>4, SizeStays
      <3> QED
        BY <3>5 DEF C, cn
    <2>7. GroupedSize(topo, traces, completed', w, {})
      <3>1. \A t \in MigrationTypes(topo) : <<host, t, w>> \in Outputs(w)
        BY DEF Outputs
      <3>2. \A t \in MigrationTypes(topo) :
              <<host, t, w>> \in DOMAIN completed' /\ completed'[<<host, t, w>>] = <<>>
        BY <2>4, <3>1
      <3>3. \A t \in MigrationTypes(topo) : IsGrouped(topo, traces, {}, t, <<>>)
        BY NothingGrouped
      <3> QED
        BY <3>2, <3>3 DEF GroupedSize
    <2>8. FilesOf(wss)' \ files_left' = {}
      BY <2>1, <2>5
    <2>9. GroupedSize(topo', traces', completed', wss', FilesOf(wss)' \ files_left')
      BY <2>1, <2>2, <2>7, <2>8
    <2>10. \A v \in TracedSizes' \ wss_left' :
             v # wss' => GroupedSize(topo', traces', completed', v, FilesOf(v)')
      BY <2>1, <2>2, <2>5, <2>6
    <2> QED
      BY <2>2, <2>9, <2>10 DEF GroupInv
  <1>6. CASE GroupTrace
    <2>1. PICK c \in files_left : /\ Len(traces[c]) \in Fitting(traces[c])
                                  /\ Write(traces[c]) /\ files_left' = files_left \ {c}
      BY <1>6 DEF GroupTrace
    <2>2. pc = "Read" /\ UNCHANGED <<topo, pc, wss_left, wss, traces>>
      BY <1>6 DEF GroupTrace
    <2>3. c \in FilesOf(wss) /\ c \in DOMAIN traces
      BY <2>1, <2>2 DEF DirInv, FilesOf
    <2> DEFINE lines == traces[c]
               M == Measured(CpusOf(topo))
               C == FilesOf(wss) \ files_left
    <2>4. lines \in Seq(M) /\ \A n \in DOMAIN traces[c] : Fits(traces[c][n])
      BY <2>1, <2>3, AllFitting DEF DirInv
    <2>5. /\ DOMAIN completed' = DOMAIN completed
          /\ \A f \in Outputs(wss) :
               IsExtended(completed'[f], completed[f], traces[c], OwnLines(traces[c], f[2]))
          /\ \A f \in DOMAIN completed \ Outputs(wss) : completed'[f] = completed[f]
      BY <2>1, <2>2, <2>4, WriteAppends
    <2>6. TracedSizes' = TracedSizes /\ (\A v : FilesOf(v)' = FilesOf(v)) /\ FilesOf(wss)' = FilesOf(wss)
      BY <2>2 DEF TracedSizes, FilesOf
    <2>7. ASSUME NEW v \in TracedSizes \ wss_left', v # wss
          PROVE  GroupedSize(topo, traces, completed', v, FilesOf(v))
      <3>1. GroupedSize(topo, traces, completed, v, FilesOf(v))
        BY <2>1, <2>2, <2>7 DEF GroupInv
      <3>2. \A t : <<host, t, v>> \notin Outputs(wss)
        BY <2>7 DEF Outputs
      <3> DEFINE V == FilesOf(v)
                 cn == completed'
      <3>4. GroupedSize(topo, traces, completed, v, V) /\ \A t \in MigrationTypes(topo) :
              <<host, t, v>> \in DOMAIN completed =>
                <<host, t, v>> \in DOMAIN cn /\ cn[<<host, t, v>>] = completed[<<host, t, v>>]
        BY <2>5, <3>1, <3>2
      <3> HIDE DEF V, cn
      <3>5. GroupedSize(topo, traces, cn, v, V)
        BY <3>4, SizeStays
      <3> QED
        BY <3>5 DEF V, cn
    <2>8. GroupedSize(topo, traces, completed, wss, C)
      BY <2>2 DEF GroupInv
    <2>9. c \notin C /\ FilesOf(wss) \ files_left' = C \cup {c}
      BY <2>1, <2>3
    <2>10. \A d \in C \cup {c} : \A n \in DOMAIN traces[d] : FitsIn(topo, traces[d][n])
      <3>1. \A d \in C : \A n \in DOMAIN traces[d] : FitsIn(topo, traces[d][n])
        BY <2>8 DEF GroupedSize
      <3>2. \A n \in DOMAIN traces[c] : FitsIn(topo, traces[c][n])
        BY <2>4 DEF Fits, FitsIn, TypeOfLine, TypeIn
      <3> QED
        BY <3>1, <3>2
    <2>11. ASSUME NEW t \in MigrationTypes(topo)
           PROVE  /\ <<host, t, wss>> \in DOMAIN completed'
                  /\ IsGrouped(topo, traces, C \cup {c}, t, completed'[<<host, t, wss>>])
      <3> DEFINE f == <<host, t, wss>>
                 old == completed[f]
                 rows == completed'[f]
                 own == OwnLines(lines, t)
      <3>1. f \in DOMAIN completed /\ IsGrouped(topo, traces, C, t, old)
        BY <2>8 DEF GroupedSize
      <3>2. f \in Outputs(wss)
        BY DEF Outputs
      <3>3. IsExtended(rows, old, lines, own)
        BY <2>5, <3>2
      <3>4. own = {n \in DOMAIN traces[c] : TypeIn(topo, traces[c][n]) = t}
        BY DEF OwnLines, TypeOfLine, TypeIn
      <3>5. OwnAre(own, Len(traces[c]))
        BY <2>4, OwnLinesAre
      <3>6. f \in DOMAIN completed'
        BY <2>5, <3>1
      <3> HIDE DEF f, old, rows, own, C, M
      <3>7. IsExtended(rows, old, traces[c], own) /\ traces[c] \in Seq(M)
        BY <2>4, <3>3
      <3> HIDE DEF lines
      <3>8. IsGrouped(topo, traces, C \cup {c}, t, rows)
        BY <2>9, <3>1, <3>4, <3>5, <3>7, MoreGrouped
      <3> QED
        BY <3>6, <3>8 DEF f, rows
    <2> HIDE DEF C
    <2>12. GroupedSize(topo, traces, completed', wss, C \cup {c})
      BY <2>10, <2>11 DEF GroupedSize
    <2>13. FilesOf(wss)' \ files_left' = C \cup {c}
      BY <2>6, <2>9
    <2>14. GroupedSize(topo', traces', completed', wss', FilesOf(wss)' \ files_left')
      BY <2>2, <2>12, <2>13
    <2>15. \A v \in TracedSizes' \ wss_left' :
             v # wss' => GroupedSize(topo', traces', completed', v, FilesOf(v)')
      BY <2>2, <2>6, <2>7
    <2> QED
      BY <2>2, <2>14, <2>15 DEF GroupInv
  <1>7. CASE \/ ObtainFails \/ OpenFails \/ GroupRaises \/ GroupFails \/ OpenModelFails \/ ReadFails
             \/ ReadRaises \/ NothingToSumUp \/ WriteRow \/ ExportFails \/ ExportDone \/ Killed
    <2>1. pc' \in {"Raised", "Exported", "Off"}
      BY <1>7 DEF ObtainFails, OpenFails, GroupRaises, GroupFails, OpenModelFails, ReadFails,
           ReadRaises, NothingToSumUp, WriteRow, ExportFails, ExportDone, Killed, Raise, End
    <2> QED
      BY <1>a, <2>1
  <1>8. CASE NextWss
    <2>1. /\ pc = "Read" /\ pc' = "Group" /\ files_left = {}
          /\ UNCHANGED <<topo, traces, completed, wss_left>>
      BY <1>8 DEF NextWss, listing, dirs
    <2>2. FilesOf(wss) \ files_left = FilesOf(wss)
      BY <2>1
    <2>3. GroupedSize(topo, traces, completed, wss, FilesOf(wss))
      BY <2>1, <2>2 DEF GroupInv
    <2>4. \A w \in TracedSizes \ wss_left : GroupedSize(topo, traces, completed, w, FilesOf(w))
      BY <2>1, <2>3 DEF GroupInv
    <2>5. TracedSizes' = TracedSizes /\ \A w : FilesOf(w)' = FilesOf(w)
      BY <2>1 DEF TracedSizes, FilesOf
    <2>6. \A w \in TracedSizes' \ wss_left' : GroupedSize(topo', traces', completed', w, FilesOf(w)')
      BY <2>1, <2>4, <2>5
    <2> QED
      BY <2>1, <2>6 DEF GroupInv
  <1>9. CASE GroupDone
    BY <1>9, <1>c DEF GroupDone, dirs
  <1>10. CASE OpenModel \/ SumUp
    <2>1. /\ UNCHANGED <<topo, traces, completed, wss_left>>
          /\ pc \in {"Model", "Row"} /\ pc' \in {"Row", "Write"}
      BY <1>10 DEF OpenModel, SumUp, listing, dirs
    <2>2. wss_left = {}
      BY <2>1 DEF GroupInv
    <2> QED
      BY <1>c, <2>1, <2>2
  <1>11. CASE BuildDone
    <2>1. UNCHANGED <<topo, traces, completed>> /\ pc = "Model" /\ pc' = "Done" /\ wss_left' = {}
      BY <1>11 DEF BuildDone, End, dirs
    <2>2. wss_left = {}
      BY <2>1 DEF GroupInv
    <2> QED
      BY <1>c, <2>1, <2>2
  <1>12. CASE ReadModel \/ ReadDone \/ WriteOvset
    BY <1>12, <1>a DEF ReadModel, ReadDone, WriteOvset
  <1>13. CASE Finished \/ UNCHANGED vars
    BY <1>13, <1>s DEF Finished
  <1> QED
    BY <1>1, <1>3, <1>4, <1>5, <1>6, <1>7, <1>8, <1>9, <1>10, <1>11, <1>12, <1>13
       DEF Next, Obtain, Group, Model, Export

\* As many elements on both sides of a bijection.
LEMMA SameNumber ==
  ASSUME NEW S, NEW T, IsFiniteSet(S), NEW b, b \in Bijection(S, T)
  PROVE  IsFiniteSet(T) /\ Cardinality(S) = Cardinality(T)
  BY FS_Bijection DEF ExistsBijection

\* How often a delay occurs in a file and among the lines it was grouped from.
LEMMA DelaysOfLines ==
  ASSUME NEW rows \in Seq(Numbered), NEW C, NEW t, NEW b, AreLines(topo, traces, C, t, rows, b), NEW v
  PROVE  Times(Delays(rows), v)
           = Cardinality({y \in LinesIn(topo, traces, C, t) : DelayOf(y) = v})
  <1> DEFINE n == Len(rows)
             K == 1 .. n
             A == LinesIn(topo, traces, C, t)
             s == DelayList(rows)
             d == Delays(rows)
  <1>1. n \in Nat /\ s \in Seq(Int) /\ Len(s) = n /\ d \in Seq(Int) /\ Len(d) = n
    BY DelaysAre, LenProperties
  <1>2. PICK p : SortedBy(d, s, p)
    BY DelaysAre
  <1>3. /\ p \in [K -> K] /\ (\A i, j \in K : p[i] = p[j] => i = j)
        /\ (\A j \in K : \E i \in K : p[i] = j) /\ \A i \in K : d[i] = s[p[i]]
    <2>1. p \in Bijection(K, K) /\ \A i \in K : d[i] = s[p[i]]
      <3> HIDE DEF d, s, n
      <3> QED
        BY <1>1, <1>2 DEF SortedBy
    <2> HIDE DEF K, d, s
    <2> QED
      BY <2>1 DEF Bijection, Injection, Surjection, IsInjective
  <1>4. /\ b \in [K -> A] /\ (\A i, j \in K : b[i] = b[j] => i = j)
        /\ \A x \in A : \E i \in K : b[i] = x
    <2>1. b \in Bijection(K, A)
      BY DEF AreLines
    <2> HIDE DEF K, A
    <2> QED
      BY <2>1 DEF Bijection, Injection, Surjection, IsInjective
  <1>5. \A i \in K : s[i] = DelayOf(b[i])
    <2> SUFFICES ASSUME NEW i \in K PROVE s[i] = DelayOf(b[i])
      OBVIOUS
    <2>1. i \in DOMAIN rows
      BY <1>1, LenProperties
    <2>2. s[i] = rows[i].post_pm - MinHot(rows[i].times)
      BY <2>1 DEF DelayList
    <2>3. /\ rows[i].times = traces[b[i][1]][b[i][2]].times
          /\ rows[i].post_pm = traces[b[i][1]][b[i][2]].post_pm
      BY DEF AreLines
    <2> HIDE DEF s
    <2> QED
      BY <2>2, <2>3 DEF DelayOf
  <1>6. IsFiniteSet(K) /\ DOMAIN d = K
    <2>1. IsFiniteSet(1 .. n)
      BY <1>1, FirstNumbers
    <2> HIDE DEF d, n
    <2> QED
      BY <1>1, <2>1, LenProperties
  <1> DEFINE S == {i \in K : d[i] = v}
             T == {y \in A : DelayOf(y) = v}
             e == [i \in S |-> b[p[i]]]
  <1> HIDE DEF K, A, s, d
  <1>7. \A i \in K : d[i] = DelayOf(b[p[i]]) /\ b[p[i]] \in A
    BY <1>3, <1>4, <1>5
  <1>8. e \in [S -> T]
    BY <1>7
  <1>9. \A i, j \in S : e[i] = e[j] => i = j
    BY <1>3, <1>4
  <1>10. ASSUME NEW y \in T PROVE \E i \in S : e[i] = y
    <2>1. PICK j \in K : b[j] = y
      BY <1>4
    <2>2. PICK i \in K : p[i] = j
      BY <1>3
    <2>3. i \in S /\ e[i] = y
      BY <1>7, <2>1, <2>2
    <2> QED
      BY <2>3
  <1>11. IsFiniteSet(S)
    BY <1>6, FS_Subset
  <1>12. Times(d, v) = Cardinality(S)
    BY <1>6 DEF Times
  <1> HIDE DEF S, T, e
  <1>13. e \in Bijection(S, T)
    BY <1>8, <1>9, <1>10 DEF Bijection, Injection, Surjection, IsInjective
  <1>14. Cardinality(S) = Cardinality(T)
    BY <1>11, <1>13, SameNumber
  <1> QED
    BY <1>12, <1>14 DEF d, T, A

\* On a regular topology the lines of a type are those whose cpus are as near.
LEMMA LinesAreNear ==
  ASSUME DirInv, Regular(topo), NEW w, NEW t,
         \A c \in FilesOf(w) : \A n \in DOMAIN traces[c] : FitsIn(topo, traces[c][n])
  PROVE  RowsAt(w, t) = LinesIn(topo, traces, FilesOf(w), t)
  <1>1. Listing(topo)
    BY TopologyIs
  <1>2. ASSUME NEW c \in FilesOf(w), NEW n \in DOMAIN traces[c]
        PROVE  TypeIn(topo, traces[c][n]) = Nearest(topo, traces[c][n].src, traces[c][n].tgt)
    <2> DEFINE line == traces[c][n]
               M == Measured(CpusOf(topo))
    <2>1. traces[c] \in Seq(M \cup {Header})
      BY DEF DirInv, TraceDir, FilesOf
    <2>2. line \in M \cup {Header}
      <3> HIDE DEF M
      <3>1. n \in 1 .. Len(traces[c])
        BY <2>1, LenProperties
      <3> QED
        BY <2>1, <3>1, ElementOfSeq
    <2>3. line \in M
      BY <2>2 DEF FitsIn
    <2>4. line.src \in CpusOf(topo) /\ line.tgt \in CpusOf(topo)
      <3> HIDE DEF line
      <3> QED
        BY <2>3 DEF Measured
    <2>5. MigrationType(topo, line.src, line.tgt) = Nearest(topo, line.src, line.tgt)
      <3> HIDE DEF line
      <3> QED
        BY <1>1, <2>4, NearestIsFirst
    <2> QED
      BY <2>5 DEF TypeIn
  <1> DEFINE Near(c, n) == Nearest(topo, traces[c][n].src, traces[c][n].tgt)
             R == UNION {{<<c, n>> : n \in {m \in DOMAIN traces[c] : Near(c, m) = t}} : c \in FilesOf(w)}
             L == {x \in UNION {{c} \X DOMAIN traces[c] : c \in FilesOf(w)} :
                     TypeIn(topo, traces[x[1]][x[2]]) = t}
  <1>3. RowsAt(w, t) = R /\ LinesIn(topo, traces, FilesOf(w), t) = L
    BY DEF RowsAt, LinesIn, FilesOf
  <1>4. \A c \in FilesOf(w) : \A n \in DOMAIN traces[c] : TypeIn(topo, traces[c][n]) = Near(c, n)
    BY <1>2
  <1> HIDE DEF Near
  <1>5. \A x : x \in R <=> \E c \in FilesOf(w) : \E n \in DOMAIN traces[c] : x = <<c, n>> /\ Near(c, n) = t
    OBVIOUS
  <1>6. \A x : x \in L <=> \E c \in FilesOf(w) : \E n \in DOMAIN traces[c] :
                             x = <<c, n>> /\ TypeIn(topo, traces[c][n]) = t
    OBVIOUS
  <1> HIDE DEF R, L
  <1>7. \A x : x \in R <=> x \in L
    BY <1>4, <1>5, <1>6
  <1>8. R = L
    BY <1>7
  <1> QED
    BY <1>3, <1>8

LEMMA GroupedIsNearest == DirInv /\ GroupInv => GroupedByNearestLevel
  <1> SUFFICES ASSUME DirInv, GroupInv, pc \in {"Model", "Row", "Write", "Done"}, Regular(topo),
                      NEW w \in TracedSizes, NEW d \in CpusOf(topo)
               PROVE  LET t == Nearest(topo, 0, d)
                          rows == completed[<<host, t, w>>]
                          delays == Delays(rows)
                          at == RowsAt(w, t)
                      IN  /\ <<host, t, w>> \in DOMAIN completed
                          /\ \A n \in DOMAIN rows : rows[n].count = n
                          /\ Len(rows) = Cardinality(at)
                          /\ \A x \in at :
                               Times(delays, DelayOf(x))
                                 = Cardinality({y \in at : DelayOf(y) = DelayOf(x)})
    BY DEF GroupedByNearestLevel
  <1> DEFINE t == Nearest(topo, 0, d)
             f == <<host, t, w>>
             rows == completed[f]
             C == FilesOf(w)
             at == RowsAt(w, t)
  <1>1. t \in MigrationTypes(topo)
    BY TopologyIs, NearestIsType
  <1>2. GroupedSize(topo, traces, completed, w, C)
    BY DEF GroupInv
  <1> HIDE DEF t
  <1>3. f \in DOMAIN completed /\ IsGrouped(topo, traces, C, t, rows)
    BY <1>1, <1>2 DEF GroupedSize
  <1>4. rows \in Seq(Numbered)
    BY <1>3 DEF IsGrouped
  <1>5. at = LinesIn(topo, traces, C, t)
    <2>1. \A c \in FilesOf(w) : \A n \in DOMAIN traces[c] : FitsIn(topo, traces[c][n])
      BY <1>2 DEF GroupedSize
    <2> QED
      BY <2>1, LinesAreNear
  <1> HIDE DEF f, rows, C, at
  <1>6. PICK b : AreLines(topo, traces, C, t, rows, b)
    BY <1>3 DEF IsGrouped
  <1>7. DOMAIN rows = 1 .. Len(rows) /\ Len(rows) \in Nat
    BY <1>4, LenProperties
  <1>8. \A n \in DOMAIN rows : rows[n].count = n
    BY <1>6, <1>7 DEF AreLines
  <1>9. Len(rows) = Cardinality(at)
    <2>1. IsFiniteSet(1 .. Len(rows)) /\ Cardinality(1 .. Len(rows)) = Len(rows)
      BY <1>7, FirstNumbers
    <2>2. b \in Bijection(1 .. Len(rows), at)
      BY <1>5, <1>6 DEF AreLines
    <2> QED
      BY <2>1, <2>2, SameNumber
  <1>10. \A x \in at : Times(Delays(rows), DelayOf(x))
                        = Cardinality({y \in at : DelayOf(y) = DelayOf(x)})
    <2> SUFFICES ASSUME NEW v PROVE Times(Delays(rows), v) = Cardinality({y \in at : DelayOf(y) = v})
      OBVIOUS
    <2>1. Times(Delays(rows), v) = Cardinality({y \in LinesIn(topo, traces, C, t) : DelayOf(y) = v})
      BY <1>4, <1>6, DelaysOfLines
    <2> QED
      BY <1>5, <2>1
  <1> QED
    BY <1>3, <1>8, <1>9, <1>10 DEF t, f, rows, at

LEMMA DirInvAlways == Spec => []DirInv
  <1>1. DirInv /\ [Next]_vars => DirInv'
    BY DirInvNext
  <1> QED
    BY DirInvInit, <1>1, PTL DEF Spec

LEMMA GroupInvAlways == Spec => []GroupInv
  BY GroupInvInit, GroupInvNext, DirInvAlways, PTL DEF Spec

\* Once group_traces() is through, the file of a type and size holds exactly
\* the rows between cpus as near as that (build_cpmd_model.py:44-109), for any
\* traces, whatever was there before and however often it was interrupted.
THEOREM GroupedByLevel == Spec => []GroupedByNearestLevel
  <1>1. DirInv /\ GroupInv => GroupedByNearestLevel
    BY GroupedIsNearest
  <1> QED
    BY <1>1, DirInvAlways, GroupInvAlways, PTL

LEMMA TypesKnownInit == Init => TypesAreKnown
  BY DEF Init, TypesAreKnown

LEMMA TypesKnownNext == DirInv /\ TypesAreKnown /\ [Next]_vars => TypesAreKnown'
  <1> SUFFICES ASSUME DirInv, TypesAreKnown, [Next]_vars PROVE TypesAreKnown'
    OBVIOUS
  <1> DEFINE Others == {"none", "OSError", "IOError", "NameError", "IndexError", "ValueError", "TypeError"}
  <1>0. topo' = topo /\ (why' \in {why} \cup Others \/ GroupRaises)
    <2>1. CASE StartBuild \/ StartExport
      BY <2>1 DEF StartBuild, StartExport, Start
    <2>2. CASE Obtain
      BY <2>2 DEF Obtain, SkipTrace, ObtainFails, StartCacheCost, CacheCostEnds, ObtainDone, Raise
    <2>3. CASE Group
      BY <2>3 DEF Group, OpenOutputs, OpenFails, GroupTrace, GroupRaises, GroupFails, NextWss,
           GroupDone, Raise
    <2>4. CASE Model
      BY <2>4 DEF Model, OpenModel, OpenModelFails, ReadFails, ReadRaises, NothingToSumUp, SumUp,
           WriteRow, BuildDone, Raise
    <2>5. CASE Export
      BY <2>5 DEF Export, ReadModel, ReadDone, WriteOvset, ExportFails, ExportDone, Raise
    <2>6. CASE Killed \/ Finished \/ UNCHANGED vars
      BY <2>6 DEF Killed, Finished, vars
    <2> QED
      BY <2>1, <2>2, <2>3, <2>4, <2>5, <2>6 DEF Next
  <1>r. Regular(topo)' <=> Regular(topo)
    BY <1>0
  <1>1. CASE GroupRaises
    <2>1. PICK c \in files_left : \E n \in Fitting(traces[c]) :
            n + 1 \in DOMAIN traces[c] /\ why' = Problem(traces[c][n + 1])
      BY <1>1 DEF GroupRaises, Raise
    <2>2. PICK n \in Fitting(traces[c]) : n + 1 \in DOMAIN traces[c] /\ why' = Problem(traces[c][n + 1])
      BY <2>1
    <2> SUFFICES ASSUME why' = "KeyError", Regular(topo) PROVE FALSE
      BY <1>r DEF TypesAreKnown
    <2> DEFINE line == traces[c][n + 1]
               M == Measured(CpusOf(topo))
    <2>3. c \in DOMAIN traces
      BY <1>1 DEF GroupRaises, DirInv, FilesOf
    <2>4. traces[c] \in Seq(M \cup {Header})
      BY <2>3 DEF DirInv, TraceDir
    <2>5. Problem(line) = "KeyError"
      BY <2>2
    <2>6. line \in M \cup {Header}
      <3> HIDE DEF M
      <3>1. n + 1 \in 1 .. Len(traces[c])
        BY <2>2, <2>4, LenProperties
      <3> QED
        BY <2>4, <3>1, ElementOfSeq
    <2> HIDE DEF line
    <2>7. line # Header /\ TypeOfLine(line) \notin MigrationTypes(topo)
      BY <2>5 DEF Problem
    <2>8. line.src \in CpusOf(topo) /\ line.tgt \in CpusOf(topo)
      BY <2>6, <2>7 DEF Measured
    <2>9. MigrationType(topo, line.src, line.tgt) \in MigrationTypes(topo)
      BY <2>8, TopologyIs, TypeIsListed
    <2> QED
      BY <2>7, <2>9 DEF TypeOfLine
  <1>2. CASE why' \in Others
    BY <1>2 DEF TypesAreKnown
  <1>3. CASE why' = why
    BY <1>3, <1>r DEF TypesAreKnown
  <1> QED
    BY <1>0, <1>1, <1>2, <1>3

\* No trace has a migration of a type that migrationTypes() does not list
\* (cachetopology.py:50-53), on a regular topology of any size.
THEOREM KnownTypes == Spec => []TypesAreKnown
  BY TypesKnownInit, TypesKnownNext, DirInvAlways, PTL DEF Spec

-----------------------------------------------------------------------------
(* What is summed up.                                                      *)

Keys(cm) == {KeyOf(f) : f \in DOMAIN cm}
SizesIn(keys, t) == {x[2] : x \in {y \in keys : y[1] = t}}

\* One file is chosen for each type and size.
Chosen(tf, cm) ==
  /\ DOMAIN tf = Keys(cm)
  /\ \A x \in Keys(cm) : tf[x] \in DOMAIN cm /\ KeyOf(tf[x]) = x

\* The file that is summed up is one of those that were listed.
SummaryInv ==
  /\ pc \in {"Model", "Row", "Write"} => Chosen(trace_files, completed)
  /\ pc = "Row" => \E x \in Keys(completed) : x[1] = migtype
  /\ SummaryIsRight

\* The sizes of a type of files, one after the other.
LEMMA SizesAreNumbers == WssRange \subseteq Int
  BY DEF WssRange

SizesOrdered(S) ==
  /\ S \subseteq WssRange /\ Cardinality(S) \in Nat
  /\ \A n \in 1 .. Cardinality(S) : Nth(S, n) \in S
  /\ \A w \in S : \E n \in 1 .. Cardinality(S) : Nth(S, n) = w
  /\ \A a, b \in 1 .. Cardinality(S) : a < b => Nth(S, a) < Nth(S, b)

LEMMA SizesOrder ==
  ASSUME NEW cm, IsFiniteSet(DOMAIN cm), DOMAIN cm \subseteq STRING \X TypeNames \X WssRange, NEW t
  PROVE  SizesOrdered(SizesIn(Keys(cm), t))
  <1> DEFINE D == DOMAIN cm
             F == {f \in D : f[2] = t}
             size == [f \in F |-> f[3]]
             S == SizesIn(Keys(cm), t)
  <1>1. S = {f[3] : f \in F}
    <2>1. S = {x[2] : x \in {y \in {<<f[2], f[3]>> : f \in D} : y[1] = t}}
      BY DEF SizesIn, Keys, KeyOf
    <2> HIDE DEF S, D
    <2>2. \A w : w \in S <=> \E f \in D : f[2] = t /\ f[3] = w
      <3> DEFINE P == {<<f[2], f[3]>> : f \in D}
      <3>1. \A w : w \in S <=> \E x \in P : x[1] = t /\ x[2] = w
        <4> HIDE DEF P
        <4> QED
          BY <2>1 DEF P
      <3>2. ASSUME NEW w, NEW x \in P, x[1] = t, x[2] = w PROVE \E f \in D : f[2] = t /\ f[3] = w
        <4>1. PICK f \in D : x = <<f[2], f[3]>>
          OBVIOUS
        <4> QED
          BY <3>2, <4>1
      <3>3. ASSUME NEW w, NEW f \in D, f[2] = t, f[3] = w PROVE \E x \in P : x[1] = t /\ x[2] = w
        <4>1. <<f[2], f[3]>> \in P
          OBVIOUS
        <4> QED
          BY <3>3, <4>1
      <3> HIDE DEF P
      <3> QED
        BY <3>1, <3>2, <3>3
    <2>3. \A w : w \in {f[3] : f \in F} <=> \E f \in D : f[2] = t /\ f[3] = w
      OBVIOUS
    <2> QED
      BY <2>2, <2>3
  <1>2. IsFiniteSet(F)
    BY FS_Subset
  <1>3. size \in Surjection(F, S)
    <2> HIDE DEF S, F
    <2> QED
      BY <1>1 DEF Surjection
  <1>4. \A f \in F : f[3] \in WssRange
    OBVIOUS
  <1> HIDE DEF F, size, S
  <1>5. IsFiniteSet(S)
    BY <1>2, <1>3, FS_Surjection
  <1>6. S \subseteq WssRange
    BY <1>1, <1>4
  <1>7. S \in SUBSET Int
    BY <1>6, SizesAreNumbers
  <1>8. /\ Cardinality(S) \in Nat
        /\ \A x \in S : Rank(S, x) \in 1 .. Cardinality(S)
        /\ \A x, y \in S : x < y => Rank(S, x) < Rank(S, y)
    BY <1>5, <1>7, Ranks
  <1>9. /\ \A n \in 1 .. Cardinality(S) : Nth(S, n) \in S /\ Rank(S, Nth(S, n)) = n
        /\ \A x \in S : Nth(S, Rank(S, x)) = x
    BY <1>5, <1>7, NthOf
  <1>10. ASSUME NEW a \in 1 .. Cardinality(S), NEW b \in 1 .. Cardinality(S), a < b
         PROVE  Nth(S, a) < Nth(S, b)
    <2> DEFINE x == Nth(S, a)
               y == Nth(S, b)
    <2>1. x \in S /\ y \in S /\ Rank(S, x) = a /\ Rank(S, y) = b
      BY <1>9
    <2> HIDE DEF x, y
    <2>2. x \in Int /\ y \in Int
      BY <1>7, <2>1
    <2>3. CASE y < x
      <3>1. b < a
        BY <1>8, <2>1, <2>3
      <3> QED
        BY <1>8, <1>10, <3>1
    <2>4. CASE x = y
      BY <1>8, <1>10, <2>1, <2>4
    <2>5. CASE x < y
      BY <2>5 DEF x, y
    <2> QED
      BY <2>2, <2>3, <2>4, <2>5
  <1>11. \A w \in S : \E n \in 1 .. Cardinality(S) : Nth(S, n) = w
    BY <1>8, <1>9
  <1> QED
    BY <1>6, <1>8, <1>9, <1>10, <1>11 DEF SizesOrdered, S

\* The extremes of what is kept of the delays of a file.
LEMMA RowIs ==
  ASSUME NEW rows \in Seq(Numbered), rows # <<>>
  PROVE  LET d == Delays(rows)
             kept == ApplyIqr(d)
         IN  /\ Len(d) = Len(rows) /\ 2 * Len(kept) >= Len(d)
             /\ {kept[1], kept[Len(kept)]} \subseteq Kept(rows)
             /\ \A x \in Kept(rows) : kept[1] <= x /\ x <= kept[Len(kept)]
  <1> DEFINE d == Delays(rows)
             kept == ApplyIqr(d)
  <1>1. d \in Seq(Int) /\ Len(d) = Len(rows) /\ Rising(d)
    BY DelaysAre
  <1>2. Len(d) \in Nat /\ Len(d) >= 1
    BY <1>1, EmptySeq, LenProperties
  <1>3. Kept(rows) = Inside(d)
    BY DEF Kept, Inside
  <1> HIDE DEF d
  <1>4. /\ 2 * Len(kept) >= Len(d) /\ {kept[1], kept[Len(kept)]} \subseteq Inside(d)
        /\ \A x \in Inside(d) : kept[1] <= x /\ x <= kept[Len(kept)]
    BY <1>1, <1>2, IqrKeeps
  <1> HIDE DEF kept
  <1> QED
    BY <1>1, <1>3, <1>4 DEF kept, d

LEMMA SummaryInvInit == Init => SummaryInv
  BY DEF Init, SummaryInv, SummaryIsRight

\* The files are chosen when they have been listed.
LEMMA ChosenIs ==
  ASSUME NEW cm, NEW listed \in SUBSET DOMAIN cm,
         \A f \in DOMAIN cm : Cardinality({g \in listed : KeyOf(g) = KeyOf(f)}) = 1
  PROVE  Chosen([x \in {KeyOf(f) : f \in listed} |-> CHOOSE f \in listed : KeyOf(f) = x], cm)
  <1> DEFINE tf == [x \in {KeyOf(f) : f \in listed} |-> CHOOSE f \in listed : KeyOf(f) = x]
  <1>1. \A f \in DOMAIN cm : \E g \in listed : KeyOf(g) = KeyOf(f)
    <2> SUFFICES ASSUME NEW f \in DOMAIN cm, {g \in listed : KeyOf(g) = KeyOf(f)} = {} PROVE FALSE
      OBVIOUS
    <2>1. Cardinality({}) = 1
      BY Zenon
    <2> QED
      BY <2>1, FS_EmptySet
  <1>2. {KeyOf(f) : f \in listed} = Keys(cm)
    <2> DEFINE K == {KeyOf(f) : f \in listed}
    <2>1. \A x \in K : x \in Keys(cm)
      BY DEF Keys
    <2>2. \A x \in Keys(cm) : x \in K
      BY <1>1 DEF Keys
    <2> HIDE DEF K
    <2>3. K = Keys(cm)
      BY <2>1, <2>2
    <2> QED
      BY <2>3 DEF K
  <1>3. \A x \in Keys(cm) : \E f \in listed : KeyOf(f) = x
    BY <1>1 DEF Keys
  <1>4. tf = [x \in Keys(cm) |-> CHOOSE f \in listed : KeyOf(f) = x]
    BY <1>2
  <1> HIDE DEF tf
  <1>5. \A x \in Keys(cm) : tf[x] \in listed /\ KeyOf(tf[x]) = x
    <2> SUFFICES ASSUME NEW x \in Keys(cm) PROVE tf[x] \in listed /\ KeyOf(tf[x]) = x
      OBVIOUS
    <2>1. tf[x] = CHOOSE f \in listed : KeyOf(f) = x
      BY <1>4
    <2>2. \E f \in listed : KeyOf(f) = x
      BY <1>3
    <2> QED
      BY <2>1, <2>2
  <1>6. DOMAIN tf = Keys(cm)
    BY <1>4
  <1>7. Chosen(tf, cm)
    BY <1>5, <1>6 DEF Chosen
  <1> QED
    BY <1>7 DEF tf

\* The first size of a type is one of its sizes, and none is smaller.
LEMMA FirstIs ==
  ASSUME DirInv, Chosen(trace_files, completed), \E x \in Keys(completed) : x[1] = migtype
  PROVE  /\ FirstSize \in WssRange /\ <<migtype, FirstSize>> \in Keys(completed)
         /\ \A f \in DOMAIN completed : f[2] = migtype => FirstSize <= f[3]
  <1> DEFINE S == SizesIn(Keys(completed), migtype)
             c == Cardinality(S)
  <1>1. SizesOrdered(S)
    <2>1. IsFiniteSet(DOMAIN completed) /\ DOMAIN completed \subseteq STRING \X TypeNames \X WssRange
      BY DEF DirInv, RowDir
    <2> QED
      BY <2>1, SizesOrder
  <1>2. FirstSize = Nth(S, 1)
    <2>1. DOMAIN trace_files = Keys(completed)
      BY DEF Chosen
    <2> QED
      BY <2>1 DEF FirstSize, SizesIn
  <1>3. \A w : w \in S <=> \E x \in Keys(completed) : x[1] = migtype /\ x[2] = w
    BY DEF SizesIn
  <1>4. \E w : w \in S
    BY <1>3
  <1> HIDE DEF S
  <1>5. c \in Nat /\ 1 \in 1 .. c
    <2>1. PICK n \in 1 .. c : TRUE
      BY <1>1, <1>4 DEF SizesOrdered
    <2>2. c \in Nat
      BY <1>1 DEF SizesOrdered
    <2> HIDE DEF c
    <2> QED
      BY <2>1, <2>2
  <1>6. FirstSize \in S /\ FirstSize \in WssRange
    BY <1>1, <1>2, <1>5 DEF SizesOrdered
  <1>7. ASSUME NEW w \in S PROVE FirstSize <= w
    <2>1. PICK n \in 1 .. c : Nth(S, n) = w
      BY <1>1 DEF SizesOrdered
    <2>2. n = 1 \/ 1 < n
      <3> HIDE DEF c
      <3> QED
        BY <1>5
    <2>3. 1 < n => Nth(S, 1) < w
      BY <1>1, <1>5, <2>1 DEF SizesOrdered
    <2>4. w \in Int /\ FirstSize \in Int
      BY <1>1, <1>6, SizesAreNumbers DEF SizesOrdered
    <2> QED
      BY <1>2, <2>1, <2>2, <2>3, <2>4
  <1>8. \A f \in DOMAIN completed : f[2] = migtype => f[3] \in S
    <2> SUFFICES ASSUME NEW f \in DOMAIN completed, f[2] = migtype PROVE f[3] \in S
      OBVIOUS
    <2>1. <<f[2], f[3]>> \in Keys(completed)
      BY DEF Keys, KeyOf
    <2>2. <<f[2], f[3]>>[1] = migtype /\ <<f[2], f[3]>>[2] = f[3]
      OBVIOUS
    <2> QED
      BY <1>3, <2>1, <2>2
  <1>9. <<migtype, FirstSize>> \in Keys(completed)
    <2>1. PICK x \in Keys(completed) : x[1] = migtype /\ x[2] = FirstSize
      BY <1>3, <1>6
    <2>2. PICK g \in DOMAIN completed : x = <<g[2], g[3]>>
      BY DEF Keys, KeyOf
    <2> QED
      BY <2>1, <2>2
  <1> QED
    BY <1>6, <1>7, <1>8, <1>9

LEMMA SummaryInvNext == DirInv /\ SummaryInv /\ [Next]_vars => SummaryInv'
  <1> SUFFICES ASSUME DirInv, SummaryInv, [Next]_vars PROVE SummaryInv'
    OBVIOUS
  <1>a. ASSUME pc' \notin {"Model", "Row", "Write"} PROVE SummaryInv'
    BY <1>a DEF SummaryInv, SummaryIsRight
  <1>s. ASSUME UNCHANGED vars PROVE SummaryInv'
    <2>1. UNCHANGED <<pc, trace_files, completed, migtype, output>>
      BY <1>s DEF vars, listing, dirs
    <2> QED
      BY <2>1 DEF SummaryInv, SummaryIsRight
  <1>1. CASE StartBuild \/ StartExport
    BY <1>1, <1>a DEF StartBuild, StartExport, Start
  <1>2. CASE Obtain
    BY <1>2, <1>a DEF Obtain, SkipTrace, ObtainFails, StartCacheCost, CacheCostEnds, ObtainDone,
       Obtaining, Raise, End
  <1>3. CASE OpenOutputs \/ OpenFails \/ GroupTrace \/ GroupRaises \/ GroupFails \/ NextWss
    BY <1>3, <1>a DEF OpenOutputs, OpenFails, GroupTrace, GroupRaises, GroupFails, NextWss, Raise, End
  <1>4. CASE \/ OpenModelFails \/ ReadFails \/ ReadRaises \/ NothingToSumUp \/ WriteRow \/ BuildDone
             \/ Export \/ Killed
    <2>1. pc' \notin {"Model", "Row", "Write"}
      BY <1>4 DEF OpenModelFails, ReadFails, ReadRaises, NothingToSumUp, WriteRow, BuildDone,
         Export, ReadModel, ReadDone, WriteOvset, ExportFails, ExportDone, Killed, Raise, End
    <2> QED
      BY <1>a, <2>1
  <1>5. CASE GroupDone
    <2>1. pc' = "Model" /\ completed' = completed
      BY <1>5 DEF GroupDone, dirs
    <2>2. PICK listed \in SUBSET DOMAIN completed :
            /\ \A f \in DOMAIN completed : Cardinality({g \in listed : KeyOf(g) = KeyOf(f)}) = 1
            /\ trace_files' = [x \in {KeyOf(f) : f \in listed} |-> CHOOSE f \in listed : KeyOf(f) = x]
      BY <1>5 DEF GroupDone
    <2>3. Chosen(trace_files', completed)
      BY <2>2, ChosenIs
    <2> QED
      BY <2>1, <2>3 DEF SummaryInv, SummaryIsRight
  <1>6. CASE OpenModel
    <2>1. PICK t \in ModelTypes : migtype' = t
      BY <1>6 DEF OpenModel
    <2>2. pc = "Model" /\ pc' = "Row" /\ UNCHANGED <<trace_files, completed>>
      BY <1>6 DEF OpenModel
    <2>3. Chosen(trace_files, completed)
      BY <2>2 DEF SummaryInv
    <2>4. \E x \in Keys(completed) : x[1] = t
      BY <2>3 DEF ModelTypes, Chosen
    <2> QED
      BY <2>1, <2>2, <2>3, <2>4 DEF SummaryInv, SummaryIsRight
  <1>7. CASE SumUp
    <2> DEFINE f == trace_files[<<migtype, FirstSize>>]
               rows == completed[f]
               d == Delays(rows)
               kept == ApplyIqr(d)
               row == [type |-> migtype, wss |-> FirstSize, samples |-> Len(d), filtered |-> Len(kept),
                       maximum |-> kept[Len(kept)], minimum |-> kept[1]]
    <2>1. /\ pc = "Row" /\ pc' = "Write" /\ rows # <<>> /\ Torn \notin ToSet(rows) /\ output' = <<row>>
          /\ UNCHANGED <<completed, trace_files>>
      BY <1>7 DEF SumUp, FirstFile, listing, dirs
    <2>2. Chosen(trace_files, completed) /\ \E x \in Keys(completed) : x[1] = migtype
      BY <2>1 DEF SummaryInv
    <2>3. /\ <<migtype, FirstSize>> \in Keys(completed)
          /\ \A g \in DOMAIN completed : g[2] = migtype => FirstSize <= g[3]
      BY <2>2, FirstIs
    <2>4. f \in DOMAIN completed /\ KeyOf(f) = <<migtype, FirstSize>>
      BY <2>2, <2>3 DEF Chosen
    <2>5. rows \in Seq(Numbered)
      <3>1. rows \in Seq(RowOrTorn)
        BY <2>4 DEF DirInv, RowDir
      <3> HIDE DEF rows
      <3> QED
        BY <2>1, <3>1, NoneTorn
    <2> HIDE DEF f
    <2>6. /\ Len(d) = Len(rows) /\ 2 * Len(kept) >= Len(d)
          /\ {kept[1], kept[Len(kept)]} \subseteq Kept(rows)
          /\ \A x \in Kept(rows) : kept[1] <= x /\ x <= kept[Len(kept)]
      <3> HIDE DEF rows
      <3> QED
        BY <2>1, <2>5, RowIs
    <2> HIDE DEF d, kept
    <2>7. /\ row.type = migtype /\ row.wss = FirstSize /\ row.samples = Len(d)
          /\ row.filtered = Len(kept) /\ row.maximum = kept[Len(kept)] /\ row.minimum = kept[1]
      OBVIOUS
    <2>8. output'[1] = row
      <3> HIDE DEF row
      <3> QED
        BY <2>1
    <2> HIDE DEF row
    <2> DEFINE K == Kept(rows)
    <2>9. /\ row.samples = Len(rows) /\ 2 * row.filtered >= row.samples
          /\ {row.minimum, row.maximum} \subseteq K
          /\ \A x \in K : row.minimum <= x /\ x <= row.maximum
      <3> HIDE DEF rows, K
      <3>1. /\ Len(d) = Len(rows) /\ 2 * Len(kept) >= Len(d)
            /\ {kept[1], kept[Len(kept)]} \subseteq K
            /\ \A x \in K : kept[1] <= x /\ x <= kept[Len(kept)]
        BY <2>6 DEF K
      <3> QED
        BY <2>7, <3>1
    <2> DEFINE Right(r, cm) ==
                 /\ \A g \in DOMAIN cm : g[2] = r.type => r.wss <= g[3]
                 /\ \E g \in DOMAIN cm :
                      /\ KeyOf(g) = <<r.type, r.wss>>
                      /\ r.samples = Len(cm[g])
                      /\ 2 * r.filtered >= r.samples
                      /\ {r.minimum, r.maximum} \subseteq Kept(cm[g])
                      /\ \A x \in Kept(cm[g]) : r.minimum <= x /\ x <= r.maximum
    <2>10. Right(row, completed)
      BY <2>3, <2>4, <2>7, <2>9
    <2>11. SummaryIsRight'
      <3>1. Right(output'[1], completed')
        BY <2>1, <2>8, <2>10
      <3> QED
        BY <3>1 DEF SummaryIsRight, Kept
    <2> QED
      BY <2>1, <2>2, <2>11 DEF SummaryInv
  <1>8. CASE Finished \/ UNCHANGED vars
    BY <1>8, <1>s DEF Finished
  <1> QED
    BY <1>1, <1>2, <1>3, <1>4, <1>5, <1>6, <1>7, <1>8 DEF Next, Group, Model

LEMMA SummaryInvAlways == Spec => []SummaryInv
  BY SummaryInvInit, SummaryInvNext, DirInvAlways, PTL DEF Spec

\* What a build sums up before it tries to write a row
\* (build_cpmd_model.py:93-138) stands for all rows of a file of the type and
\* its smallest size, with the extremes of exactly the delays between the
\* cutoffs, for files of any host and length.
THEOREM SummaryRight == Spec => []SummaryIsRight
  <1>1. SummaryInv => SummaryIsRight
    BY DEF SummaryInv
  <1> QED
    BY <1>1, SummaryInvAlways, PTL
=============================================================================

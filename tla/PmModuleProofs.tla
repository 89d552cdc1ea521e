---------------------------- MODULE PmModuleProofs ----------------------------
(***************************************************************************)
(* The pm module is safe to use for careful scripts, and sorts by the      *)
(* caches two cpus share, on machines of any size and for any traces:      *)
(* where get_ovd_plen_umaxeon() stores an overhead is the nearest level,   *)
(* and its arrays hold each overhead once and in order.                    *)
(***************************************************************************)
EXTENDS PmScript, CommonLemmas, SequenceTheorems

-----------------------------------------------------------------------------
(* The arithmetic of get_ovd_plen_umaxeon().                               *)

\* Numbers of the form r + n * q with r below n are those with remainder r
\* and quotient q.
LEMMA DivMod ==
  ASSUME NEW x \in Nat, NEW n \in Nat \ {0}, NEW r \in 0 .. n - 1, NEW q \in Nat
  PROVE  x = r + n * q <=> x % n = r /\ x \div n = q
  <1>1. x = (x % n) + n * (x \div n) /\ x % n \in 0 .. n - 1 /\ x \div n \in Nat
    OBVIOUS
  <1>2. ASSUME x = r + n * q PROVE x \div n = q
    <2>1. CASE x \div n < q
      <3>1. n * (x \div n + 1) <= n * q
        BY <1>1, <2>1
      <3> QED
        BY <1>1, <1>2, <3>1
    <2>2. CASE x \div n > q
      <3>1. n * (q + 1) <= n * (x \div n)
        BY <1>1, <2>2
      <3> QED
        BY <1>1, <1>2, <3>1
    <2> QED
      BY <1>1, <2>1, <2>2
  <1> QED
    BY <1>1, <1>2

\* The cpus of a group of cores on a chip: those the code finds on the same
\* chip and, dividing twice, in the same group.
LEMMA InCores ==
  ASSUME NEW x \in Nat, NEW chip \in 0 .. num_phys_cpu - 1, NEW group \in Nat,
         NEW cores \in Nat \ {0}
  PROVE  x \in CoresOf(chip, group, cores)
           <=> x % num_phys_cpu = chip /\ (x \div num_phys_cpu) \div cores = group
  <1> USE ModuleAssumption
  <1> DEFINE core == x \div num_phys_cpu
  <1>1. core \in Nat /\ x % num_phys_cpu \in 0 .. num_phys_cpu - 1
    OBVIOUS
  <1>2. \A k \in 0 .. cores - 1 : group * cores + k \in Nat /\ cores * group = group * cores
    OBVIOUS
  <1>3. \A k \in 0 .. cores - 1 :
          x = chip + num_phys_cpu * (group * cores + k)
            <=> x % num_phys_cpu = chip /\ core = group * cores + k
    BY <1>2, DivMod
  <1> HIDE DEF core
  <1>4. ASSUME NEW k \in 0 .. cores - 1
        PROVE  core = k + cores * group <=> core % cores = k /\ core \div cores = group
    BY <1>1, DivMod
  <1>5. core % cores \in 0 .. cores - 1
    BY <1>1
  <1>6. \A k \in 0 .. cores - 1 :
          core = group * cores + k <=> core % cores = k /\ core \div cores = group
    BY <1>1, <1>2, <1>4
  <1>7. x \in CoresOf(chip, group, cores)
          <=> \E k \in 0 .. cores - 1 : x = chip + num_phys_cpu * (group * cores + k)
    BY DEF CoresOf
  <1>8. x \in CoresOf(chip, group, cores)
          <=> \E k \in 0 .. cores - 1 :
                x % num_phys_cpu = chip /\ core % cores = k /\ core \div cores = group
    BY <1>3, <1>6, <1>7
  <1> QED
    BY <1>5, <1>8 DEF core

\* A core divided by more than itself is in group 0.
LEMMA FirstGroup ==
  ASSUME NEW x \in Nat, NEW more \in Nat, x < more
  PROVE  (x \div num_phys_cpu) \div more = 0
  <1>1. x \div num_phys_cpu \in 0 .. x
    BY ModuleAssumption
  <1> DEFINE core == x \div num_phys_cpu
  <1> HIDE DEF core
  <1>2. core \in 0 .. x => core \div more = 0
    OBVIOUS
  <1> QED
    BY <1>1, <1>2 DEF core

\* get_ovd_plen_umaxeon() (pm_common.c:576-646) finds the nearest level of
\* cache two cpus share, for any number of chips and of cores per L2, when
\* samel2 is allocated exactly with cores_per_l2.
LEMMA ArrayIsLevel ==
  ASSUME NEW o \in Overhead, NEW cores \in Nat
  PROVE  ArrayOf(o, cores, cores > 0) = Level(o, cores)
  <1> USE ModuleAssumption
  <1> DEFINE x == o.curr_cpu
             y == o.last_cpu
             Chips == 0 .. num_phys_cpu - 1
             Both(chip, group, n) == {x, y} \subseteq CoresOf(chip, group, n)
  <1>1. x \in Nat /\ y \in Nat
    BY DEF Overhead
  <1>2. x % num_phys_cpu \in Chips /\ x \div num_phys_cpu \in 0 .. x
    BY <1>1
  <1>3. ASSUME NEW chip \in Chips, NEW group \in Nat, NEW n \in Nat \ {0}
        PROVE  Both(chip, group, n)
                 <=> /\ x % num_phys_cpu = chip /\ (x \div num_phys_cpu) \div n = group
                     /\ y % num_phys_cpu = chip /\ (y \div num_phys_cpu) \div n = group
    <2>1. x \in CoresOf(chip, group, n)
            <=> x % num_phys_cpu = chip /\ (x \div num_phys_cpu) \div n = group
      BY <1>1, InCores
    <2>2. y \in CoresOf(chip, group, n)
            <=> y % num_phys_cpu = chip /\ (y \div num_phys_cpu) \div n = group
      BY <1>1, InCores
    <2> HIDE DEF x, y
    <2> QED
      BY <2>1, <2>2
  <1>4. ASSUME cores > 0
        PROVE  SameChip(o) /\ SameL2(o, cores)
                 <=> \E chip \in Chips, group \in 0 .. x : Both(chip, group, cores)
    <2> DEFINE group == (x \div num_phys_cpu) \div cores
    <2>1. group \in 0 .. x
      <3> DEFINE core == x \div num_phys_cpu
      <3>1. core \in 0 .. x
        BY <1>2
      <3> HIDE DEF core
      <3>2. core \div cores \in 0 .. core
        BY <1>4, <3>1
      <3> QED
        BY <1>1, <3>1, <3>2 DEF core
    <2>2. SameChip(o) /\ SameL2(o, cores) => Both(x % num_phys_cpu, group, cores)
      BY <1>1, <1>2, <1>3, <1>4, <2>1 DEF SameChip, SameL2
    <2>3. ASSUME NEW chip \in Chips, NEW g \in 0 .. x, Both(chip, g, cores)
          PROVE  SameChip(o) /\ SameL2(o, cores)
      BY <1>1, <1>3, <1>4, <2>3 DEF SameChip, SameL2
    <2> HIDE DEF Both, group
    <2> QED
      BY <1>2, <2>1, <2>2, <2>3
  <1>5. SameChip(o) <=> \E chip \in Chips : Both(chip, 0, x + y + 1)
    <2>1. (x \div num_phys_cpu) \div (x + y + 1) = 0 /\ (y \div num_phys_cpu) \div (x + y + 1) = 0
      BY <1>1, FirstGroup
    <2>2. SameChip(o) => Both(x % num_phys_cpu, 0, x + y + 1)
      <3> DEFINE n == x + y + 1
      <3>1. n \in Nat \ {0}
        BY <1>1
      <3> HIDE DEF n, Both
      <3>2. SameChip(o) => Both(x % num_phys_cpu, 0, n)
        BY <1>2, <1>3, <2>1, <3>1 DEF SameChip, n
      <3> QED
        BY <3>2 DEF n
    <2>3. ASSUME NEW chip \in Chips, Both(chip, 0, x + y + 1) PROVE SameChip(o)
      BY <1>1, <1>3, <2>3 DEF SameChip
    <2> HIDE DEF Both
    <2> QED
      BY <1>2, <2>2, <2>3
  <1>6. Level(o, cores) = IF x = y THEN "preempt"
                          ELSE IF cores > 0 /\ \E chip \in Chips, group \in 0 .. x : Both(chip, group, cores)
                          THEN "samel2"
                          ELSE IF \E chip \in Chips : Both(chip, 0, x + y + 1)
                          THEN "samechip"
                          ELSE "offchip"
    BY DEF Level
  <1> HIDE DEF x, y, Both, Chips
  <1>7. CASE cores > 0
    BY <1>4, <1>5, <1>6, <1>7 DEF ArrayOf, x, y
  <1>8. CASE ~(cores > 0)
    BY <1>5, <1>6, <1>8 DEF ArrayOf, x, y
  <1> QED
    BY <1>7, <1>8

-----------------------------------------------------------------------------
(* The loop over the overheads.                                            *)

\* Stored are the arrays with the first k overheads of a trace in them.
Stored(stored, full_costs, cores, hasL2) ==
  stored = [k \in 0 .. Len(full_costs) |->
              IF k = 0 THEN [a \in Arrays |-> <<>>]
              ELSE [stored[k - 1] EXCEPT ![ArrayOf(full_costs[k], cores, hasL2)] =
                      Append(@, full_costs[k])]]

\* The loop of get_ovd_plen_umaxeon() computes such arrays.
LEMMA LoopStores ==
  ASSUME NEW t \in Seq(Overhead), NEW cores, NEW hasL2
  PROVE  \E stored \in [0 .. Len(t) -> [Arrays -> Seq(Overhead)]] :
           Stored(stored, t, cores, hasL2) /\ Sorted(t, cores, hasL2) = stored[Len(t)]
  <1> DEFINE D == [Arrays -> Seq(Overhead)]
             base == [a \in Arrays |-> <<>>]
             Stores(d, k) == [d EXCEPT ![ArrayOf(t[k], cores, hasL2)] = Append(@, t[k])]
             step == [kd \in (1 .. Len(t)) \X D |-> Stores(kd[2], kd[1])]
  <1>1. Len(t) \in Nat /\ base \in D
    OBVIOUS
  <1>2. ASSUME NEW k \in 1 .. Len(t), NEW d \in D PROVE Stores(d, k) \in D
    <2>1. ArrayOf(t[k], cores, hasL2) \in Arrays
      BY DEF ArrayOf, Arrays
    <2>2. t[k] \in Overhead
      OBVIOUS
    <2>3. Append(d[ArrayOf(t[k], cores, hasL2)], t[k]) \in Seq(Overhead)
      BY <2>1, <2>2
    <2> QED
      BY <2>1, <2>3
  <1>3. step \in [(1 .. Len(t)) \X D -> D]
    BY <1>2
  <1>4. PICK g \in [0 .. Len(t) -> D] :
          g[0] = base /\ \A k \in 1 .. Len(t) : g[k] = step[<<k, g[k - 1]>>]
    <2> HIDE DEF step, D, base
    <2>1. PICK g : IsTrace(g, Len(t), D, base, step)
      BY <1>1, <1>3, LoopExists
    <2> QED
      BY <2>1 DEF IsTrace
  <1>5. \A k \in 1 .. Len(t) : g[k] = Stores(g[k - 1], k)
    <2> SUFFICES ASSUME NEW k \in 1 .. Len(t) PROVE g[k] = Stores(g[k - 1], k)
      OBVIOUS
    <2>1. g[k - 1] \in D
      <3> HIDE DEF D
      <3> QED
        BY <1>1, <1>4
    <2> QED
      BY <1>4, <2>1
  <1>6. g = [k \in 0 .. Len(t) |-> IF k = 0 THEN base ELSE Stores(g[k - 1], k)]
    <2> HIDE DEF Stores, base, D, step
    <2> QED
      BY <1>1, <1>4, <1>5
  <1> DEFINE f == CHOOSE s : s = [k \in 0 .. Len(t) |-> IF k = 0 THEN base ELSE Stores(s[k - 1], k)]
  <1>7. f = [k \in 0 .. Len(t) |-> IF k = 0 THEN base ELSE Stores(f[k - 1], k)]
    BY <1>6, Zenon
  <1>8. Sorted(t, cores, hasL2) = f[Len(t)]
    BY DEF Sorted
  <1>9. f \in [0 .. Len(t) -> D]
    <2> HIDE DEF f
    <2> DEFINE S == {k \in 0 .. Len(t) : f[k] \in D}
    <2>1. 0 \in S
      BY <1>1, <1>7
    <2>2. \A k \in 0 .. Len(t) - 1 : k \in S => k + 1 \in S
      <3> SUFFICES ASSUME NEW k \in 0 .. Len(t) - 1, k \in S PROVE k + 1 \in S
        OBVIOUS
      <3>1. f[k + 1] = Stores(f[k], k + 1)
        <4> HIDE DEF Stores, base, D
        <4> QED
          BY <1>1, <1>7
      <3>2. k + 1 \in 1 .. Len(t) /\ f[k] \in D
        BY <1>1
      <3> HIDE DEF Stores, D
      <3> QED
        BY <1>1, <1>2, <3>1, <3>2
    <2> HIDE DEF S
    <2>3. \A k \in 0 .. Len(t) : k \in S
      BY <1>1, <2>1, <2>2, LoopInduction
    <2> USE DEF S
    <2> HIDE DEF Stores, base, D
    <2> QED
      BY <1>7, <2>3
  <1> HIDE DEF f
  <1> QED
    BY <1>7, <1>8, <1>9 DEF Stored

\* Of an empty trace nothing is stored, whether samel2 is NULL or not.
LEMMA EmptySorted ==
  ASSUME NEW cores, NEW hasL2, NEW other
  PROVE  Sorted(<<>>, cores, hasL2) = Sorted(<<>>, cores, other)
  <1>1. ASSUME NEW b PROVE Sorted(<<>>, cores, b) = [a \in Arrays |-> <<>>]
    <2>1. <<>> \in Seq(Overhead) /\ Len(<<>>) = 0
      OBVIOUS
    <2>2. PICK stored \in [0 .. Len(<<>>) -> [Arrays -> Seq(Overhead)]] :
            Stored(stored, <<>>, cores, b) /\ Sorted(<<>>, cores, b) = stored[Len(<<>>)]
      BY <2>1, LoopStores
    <2> QED
      BY <2>1, <2>2 DEF Stored
  <1> QED
    BY <1>1

\* The overheads of a trace that are sorted into an array.
SortedInto(a, full_costs, cores, hasL2) ==
  {k \in DOMAIN full_costs : ArrayOf(full_costs[k], cores, hasL2) = a}

\* Each array holds the overheads sorted into it, all of them and in the
\* order of the trace: the k-th overhead is preceded by those before it.
LEMMA SortedInOrder ==
  ASSUME NEW t \in Seq(Overhead), NEW cores, NEW hasL2, NEW a \in Arrays
  PROVE  Holds(Sorted(t, cores, hasL2)[a], t, SortedInto(a, t, cores, hasL2))
  <1> DEFINE n == Len(t)
             Array(k) == ArrayOf(t[k], cores, hasL2)
             ks == {k \in DOMAIN t : Array(k) = a}
             C(k) == Cardinality(ks \cap 1 .. k)
  <1>1. PICK stored \in [0 .. n -> [Arrays -> Seq(Overhead)]] :
          Stored(stored, t, cores, hasL2) /\ Sorted(t, cores, hasL2) = stored[n]
    BY LoopStores
  <1>2. n \in Nat /\ DOMAIN t = 1 .. n /\ ks \in SUBSET (1 .. n)
    OBVIOUS
  <1>3. /\ C(0) = 0 /\ ks \cap 1 .. n = ks
        /\ \A k \in 0 .. n : C(k) \in Nat
        /\ \A k \in 1 .. n : C(k) = C(k - 1) + (IF k \in ks THEN 1 ELSE 0)
        /\ \A k \in 0 .. n : \A j \in 0 .. k : C(j) <= C(k)
        /\ \A k \in ks : C(k) >= 1
    <2> HIDE DEF ks, n
    <2> QED
      BY <1>2, Counting
  <1>4. /\ stored[0][a] = <<>>
        /\ \A k \in 1 .. n :
             stored[k][a] = IF Array(k) = a THEN Append(stored[k - 1][a], t[k])
                            ELSE stored[k - 1][a]
    <2> DEFINE D == [Arrays -> Seq(Overhead)]
               base == [b \in Arrays |-> <<>>]
               Stores(d, k) == [d EXCEPT ![Array(k)] = Append(@, t[k])]
    <2>1. stored = [k \in 0 .. n |-> IF k = 0 THEN base ELSE Stores(stored[k - 1], k)]
      BY <1>1 DEF Stored
    <2>2. stored \in [0 .. n -> D]
      BY <1>1
    <2>3. ASSUME NEW d \in D, NEW k
          PROVE  Stores(d, k)[a] = IF Array(k) = a THEN Append(d[a], t[k]) ELSE d[a]
      <3> HIDE DEF Array
      <3> QED
        OBVIOUS
    <2>4. base[a] = <<>>
      OBVIOUS
    <2> HIDE DEF Array, n, D, base, Stores
    <2>5. stored[0] = base /\ \A k \in 1 .. n : stored[k] = Stores(stored[k - 1], k)
      BY <1>2, <2>1
    <2>6. \A k \in 1 .. n : stored[k - 1] \in D
      BY <1>2, <2>2
    <2> QED
      BY <2>3, <2>4, <2>5, <2>6
  <1> DEFINE Good(k) == /\ Len(stored[k][a]) = C(k)
                        /\ \A j \in ks : j <= k => stored[k][a][C(j)] = t[j]
             S == {k \in 0 .. n : Good(k)}
  <1>5. 0 \in S
    BY <1>2, <1>3, <1>4
  <1>6. ASSUME NEW k \in 0 .. n - 1, k \in S PROVE k + 1 \in S
    <2>1. /\ k + 1 \in 1 .. n /\ k \in 0 .. n /\ (k + 1) - 1 = k
          /\ stored[k][a] \in Seq(Overhead) /\ t[k + 1] \in Overhead
      BY <1>1, <1>2
    <2>2. Len(stored[k][a]) = C(k) /\ \A j \in ks : j <= k => stored[k][a][C(j)] = t[j]
      BY <1>6
    <2>3. \A j \in ks : j <= k => C(j) \in 1 .. C(k)
      <3> HIDE DEF ks, C, n
      <3> QED
        BY <1>2, <1>3, <2>1
    <2> HIDE DEF C, n
    <2>4. CASE Array(k + 1) = a
      <3>1. k + 1 \in ks /\ C(k + 1) = C(k) + 1
        BY <1>2, <1>3, <2>1, <2>4
      <3>2. stored[k + 1][a] = Append(stored[k][a], t[k + 1])
        BY <1>4, <2>1, <2>4
      <3> HIDE DEF Array, ks
      <3>3. /\ Len(stored[k + 1][a]) = C(k + 1)
            /\ stored[k + 1][a][C(k + 1)] = t[k + 1]
            /\ \A i \in 1 .. C(k) : stored[k + 1][a][i] = stored[k][a][i]
        BY <2>1, <2>2, <3>1, <3>2, AppendProperties
      <3>4. \A j \in ks : j <= k + 1 => j = k + 1 \/ j <= k
        BY <1>2, <2>1
      <3>5. Good(k + 1)
        BY <2>2, <2>3, <3>3, <3>4
      <3> QED
        BY <2>1, <3>5
    <2>5. CASE Array(k + 1) # a
      <3>1. k + 1 \notin ks /\ C(k + 1) = C(k)
        BY <1>2, <1>3, <2>1, <2>5
      <3>2. stored[k + 1][a] = stored[k][a]
        BY <1>4, <2>1, <2>5
      <3> HIDE DEF Array, ks
      <3>3. \A j \in ks : j <= k + 1 => j <= k
        BY <1>2, <2>1, <3>1
      <3>4. Good(k + 1)
        BY <2>2, <3>1, <3>2, <3>3
      <3> QED
        BY <2>1, <3>4
    <2> QED
      BY <2>4, <2>5
  <1>7. n \in S
    <2> HIDE DEF S, n
    <2>1. \A k \in 0 .. n - 1 : k \in S => k + 1 \in S
      BY <1>6
    <2>2. \A k \in 0 .. n : k \in S
      BY <1>2, <1>5, <2>1, LoopInduction
    <2> QED
      BY <1>2, <2>2
  <1>8. Good(n) /\ \A j \in ks : j <= n
    <2>1. Good(n)
      <3> HIDE DEF Good
      <3> QED
        BY <1>7
    <2> HIDE DEF n, ks, Good
    <2> QED
      BY <1>2, <2>1
  <1>9. Len(stored[n][a]) = Cardinality(ks) /\ \A k \in ks : stored[n][a][C(k)] = t[k]
    <2> HIDE DEF ks, n
    <2> QED
      BY <1>3, <1>8
  <1> QED
    BY <1>1, <1>9 DEF Holds, SortedInto

-----------------------------------------------------------------------------
(* Careful scripts.                                                        *)

\* samel2 is NULL until a load with L3; what a careful script has not been
\* handed since the last load is not freed, unless a getter has failed; and
\* what stops it is want of memory.
ScriptInv ==
  /\ ptr \in [Arrays -> {"null", "live", "freed"}]
  /\ hadL3 \in BOOLEAN
  /\ ptr["samel2"] # "null" => hadL3
  /\ CarefulScriptsSurvive
  /\ alive /\ careful /\ ~failed => \A a \in Arrays : ptr[a] = "freed" => a \in asked

LEMMA ScriptInvInit == ScriptInit => ScriptInv
  BY DEF ScriptInit, ModuleInit, ScriptInv, CarefulScriptsSurvive, Arrays

LEMMA LoadStep == ScriptInv /\ LoadNext => ScriptInv'
  <1> SUFFICES ASSUME ScriptInv, NEW t \in Traces, NEW c \in CoresPerL2, NEW arrays \in FailedArrays,
                      Load(t, c, arrays), asked' = {}, failed' = FALSE, hadL3' = (hadL3 \/ c > 0),
                      careful' = (careful /\ ~(c = 0 /\ hadL3))
               PROVE  ScriptInv'
    BY DEF LoadNext
  <1> DEFINE asks == Allocated(c)
             got == asks \ arrays
             hasL2 == "samel2" \in got \/ ("samel2" \notin asks /\ ptr["samel2"] # "null")
  <1>1. c \in Nat /\ (c > 0 <=> c # 0) /\ alive
    BY ModuleAssumption DEF Load
  <1>2. hadL3' \in BOOLEAN /\ (hadL3 => hadL3')
    BY DEF ScriptInv
  <1>3. CASE arrays # {} /\ t # <<>>
    <2>1. Crash("load", "nomem")
      BY <1>3 DEF Load
    <2>2. ~alive' /\ ptr' = ptr /\ call'.name = "load" /\ call'.result = "nomem"
      BY <2>1 DEF Crash
    <2> QED
      BY <1>2, <2>2 DEF ScriptInv, CarefulScriptsSurvive
  <1>4. CASE ~(arrays # {} /\ t # <<>>) /\ hasL2 /\ c = 0 /\ Divides(t)
    <2>1. Crash("load", "crash")
      BY <1>4 DEF Load
    <2>2. ~alive' /\ ptr' = ptr
      BY <2>1 DEF Crash
    <2>3. ~careful'
      BY <1>4 DEF Allocated, ScriptInv
    <2> QED
      BY <1>2, <2>2, <2>3 DEF ScriptInv, CarefulScriptsSurvive
  <1>5. CASE ~(arrays # {} /\ t # <<>>) /\ ~(hasL2 /\ c = 0 /\ Divides(t))
    <2>1. /\ alive' = alive
          /\ ptr' = [a \in Arrays |-> IF a \in got THEN "live"
                                     ELSE IF a \in asks THEN "null" ELSE ptr[a]]
      BY <1>5 DEF Load
    <2>2. \A a \in Arrays : ptr'[a] = IF a \in got THEN "live" ELSE IF a \in asks THEN "null" ELSE ptr[a]
      BY <2>1
    <2>3. ptr' \in [Arrays -> {"null", "live", "freed"}]
      BY <2>1 DEF ScriptInv
    <2>4. CarefulScriptsSurvive'
      BY <1>1, <2>1 DEF CarefulScriptsSurvive
    <2>5. ptr'["samel2"] # "null" => hadL3'
      BY <1>1, <2>2 DEF Allocated, Arrays, ScriptInv
    <2>6. ASSUME careful', NEW a \in Arrays PROVE ptr'[a] # "freed"
      <3>1. CASE a \in asks
        BY <2>2, <3>1
      <3>2. CASE a \notin asks
        <4>1. a = "samel2" /\ c = 0 /\ ptr'[a] = ptr[a]
          BY <2>2, <3>2 DEF Allocated
        <4>2. ptr["samel2"] = "null"
          BY <2>6, <4>1 DEF ScriptInv
        <4> QED
          BY <4>1, <4>2
      <3> QED
        BY <3>1, <3>2
    <2> QED
      BY <1>2, <2>3, <2>4, <2>5, <2>6 DEF ScriptInv
  <1> QED
    BY <1>3, <1>4, <1>5

\* Memory that a call frees was not NULL before, and it frees nothing else.
LEMMA FreeOnly ==
  ASSUME NEW names, ScriptInv, ptr' = FreeOf(names), hadL3' = hadL3
  PROVE  /\ ptr' \in [Arrays -> {"null", "live", "freed"}]
         /\ ptr'["samel2"] # "null" => hadL3'
         /\ \A b \in Arrays : ptr'[b] = "freed" => b \in names \/ ptr[b] = "freed"
  BY DEF FreeOf, ScriptInv, Arrays

LEMMA AskStep ==
  ASSUME ScriptInv, NEW a \in Arrays, NEW Getter, Ask(a, Getter)
  PROVE  ScriptInv'
  <1>1. hadL3' = hadL3 /\ hadL3 \in BOOLEAN
    BY DEF Ask, ScriptInv
  <1>2. CASE Get(a) /\ asked' = asked \cup {a} /\ failed' = failed
             /\ careful' = (careful /\ a \notin asked /\ ~failed)
    <2>1. CASE ptr[a] = "freed"
      <3>1. ~alive' /\ ptr' = ptr /\ alive
        BY <1>2, <2>1 DEF Get, Crash
      <3>2. ~careful'
        BY <1>2, <2>1, <3>1 DEF ScriptInv
      <3> QED
        BY <1>1, <3>1, <3>2 DEF ScriptInv, CarefulScriptsSurvive
    <2>2. CASE ptr[a] # "freed"
      <3>1. alive' = alive /\ alive /\ ptr' = FreeOf({a})
        BY <1>2, <2>2 DEF Get, Released
      <3>2. CarefulScriptsSurvive'
        BY <3>1 DEF CarefulScriptsSurvive
      <3>3. careful' => \A b \in Arrays : ptr'[b] = "freed" => b \in asked'
        BY <1>1, <1>2, <3>1, FreeOnly DEF ScriptInv
      <3> QED
        BY <1>1, <3>1, <3>2, <3>3, FreeOnly DEF ScriptInv
    <2> QED
      BY <2>1, <2>2
  <1>3. CASE GetFails(a) /\ asked' = asked /\ failed' = TRUE
             /\ careful' = (careful /\ a \notin asked /\ ~failed)
    <2>1. CASE \E b \in Arrays : ptr[b] = "freed"
      <3>1. /\ ~alive' /\ ptr' = ptr /\ alive
            /\ call' = [name |-> a, result |-> "nomem"]
        BY <1>3, <2>1 DEF GetFails, Crash
      <3>2. call'.result = "nomem"
        BY <3>1
      <3>3. careful' => asked' # {}
        BY <1>3, <2>1, <3>1 DEF ScriptInv
      <3> QED
        BY <1>1, <3>1, <3>2, <3>3 DEF ScriptInv, CarefulScriptsSurvive
    <2>2. CASE ~ \E b \in Arrays : ptr[b] = "freed"
      <3>1. alive' = alive /\ alive /\ ptr' = FreeOf(Arrays)
        BY <1>3, <2>2 DEF GetFails
      <3>2. CarefulScriptsSurvive'
        BY <3>1 DEF CarefulScriptsSurvive
      <3> QED
        BY <1>1, <1>3, <3>1, <3>2, FreeOnly DEF ScriptInv
    <2> QED
      BY <2>1, <2>2
  <1>4. CASE GetBeforeLoad(a) /\ UNCHANGED <<asked, failed, careful>>
    BY <1>1, <1>4 DEF GetBeforeLoad, Fails, ScriptInv, CarefulScriptsSurvive
  <1> QED
    BY <1>2, <1>3, <1>4 DEF Ask

LEMMA ScriptStep == ScriptInv /\ [ScriptNext]_scriptvars => ScriptInv'
  <1> SUFFICES ASSUME ScriptInv, [ScriptNext]_scriptvars PROVE ScriptInv'
    OBVIOUS
  <1>1. CASE LoadNext
    BY <1>1, LoadStep
  <1>2. CASE FailToLoad
    BY <1>2 DEF FailToLoad, LoadFails, Fails, ScriptInv, CarefulScriptsSurvive
  <1>3. CASE Ask("preempt", GetPreemption)
    BY <1>3, AskStep DEF Arrays
  <1>4. CASE Ask("samel2", GetL2Migration)
    BY <1>4, AskStep DEF Arrays
  <1>5. CASE Ask("samechip", GetOnChipMigration)
    BY <1>5, AskStep DEF Arrays
  <1>6. CASE Ask("offchip", GetOffChipMigration)
    BY <1>6, AskStep DEF Arrays
  <1>7. CASE UNCHANGED scriptvars
    BY <1>7 DEF scriptvars, mvars, ScriptInv, CarefulScriptsSurvive
  <1> QED
    BY <1>1, <1>2, <1>3, <1>4, <1>5, <1>6, <1>7 DEF ScriptNext

\* What stops a careful script is want of memory, in load() or in a getter
\* behind another one (pmmodule.c:34-41, 80-97, 168); neither free() nor the
\* division by cores_per_l2 (pm_common.c:613) ever does, whatever traces it
\* loads, on any number of chips and for any cores_per_l2.
THEOREM CarefulSurvive == ScriptSpec => []CarefulScriptsSurvive
  <1>1. ScriptInv => CarefulScriptsSurvive
    BY DEF ScriptInv
  <1> QED
    BY <1>1, ScriptInvInit, ScriptStep, PTL DEF ScriptSpec

-----------------------------------------------------------------------------
(* What a careful script gets.                                             *)

\* After a load the four arrays are those the C code sorts into, with samel2
\* exactly when there is an L3; and on every overhead of the trace its choice
\* is the nearest level the two cpus share.
SortedBySharing ==
  careful /\ call.name = "load" =>
    /\ call.result \in {"ok", "error", "nomem"}
    /\ call.result = "ok" =>
         LET cores == call.cores_per_l2
         IN  /\ call.full_costs \in Seq(Overhead)
             /\ data = Sorted(call.full_costs, cores, cores > 0)
             /\ \A k \in DOMAIN call.full_costs :
                  ArrayOf(call.full_costs[k], cores, cores > 0) = Level(call.full_costs[k], cores)

LEMMA SortedByLoad == ScriptInv /\ LoadNext => SortedBySharing'
  <1> SUFFICES ASSUME ScriptInv, ScriptInv', NEW t \in Traces, NEW c \in CoresPerL2,
                      NEW arrays \in FailedArrays, Load(t, c, arrays),
                      careful' = (careful /\ ~(c = 0 /\ hadL3)), careful'
               PROVE  SortedBySharing'
    BY LoadStep DEF LoadNext, SortedBySharing
  <1> DEFINE got == Allocated(c) \ arrays
             hasL2 == "samel2" \in got \/ ("samel2" \notin Allocated(c) /\ ptr["samel2"] # "null")
  <1>1. c \in Nat /\ t \in Seq(Overhead)
    BY ModuleAssumption
  <1>2. CASE arrays # {} /\ t # <<>>
    <2>1. Crash("load", "nomem")
      BY <1>2 DEF Load
    <2>2. call'.result = "nomem"
      BY <2>1 DEF Crash
    <2> QED
      BY <2>2 DEF SortedBySharing
  <1>3. CASE ~(arrays # {} /\ t # <<>>) /\ hasL2 /\ c = 0 /\ Divides(t)
    <2>1. Crash("load", "crash")
      BY <1>3 DEF Load
    <2>2. ~alive' /\ call'.result = "crash"
      BY <2>1 DEF Crash
    <2> QED
      BY <2>2 DEF ScriptInv, CarefulScriptsSurvive
  <1>4. CASE ~(arrays # {} /\ t # <<>>) /\ ~(hasL2 /\ c = 0 /\ Divides(t))
    <2>1. /\ data' = Sorted(t, c, hasL2)
          /\ call' = [name |-> "load", result |-> "ok", full_costs |-> t, cores_per_l2 |-> c]
      BY <1>4 DEF Load
    <2>2. t # <<>> => hasL2 = (c > 0)
      <3>1. CASE c = 0
        <4>1. ptr["samel2"] = "null" /\ "samel2" \notin Allocated(c)
          BY <3>1 DEF ScriptInv, Allocated
        <4> QED
          BY <3>1, <4>1
      <3>2. CASE c > 0 /\ t # <<>>
        <4>1. arrays = {} /\ "samel2" \in Allocated(c)
          BY <1>4, <3>2 DEF Allocated, Arrays
        <4>2. hasL2 = TRUE /\ (c > 0) = TRUE
          BY <3>2, <4>1
        <4> QED
          BY <4>2
      <3> QED
        BY <1>1, <3>1, <3>2
    <2>3. data' = Sorted(t, c, c > 0)
      <3>1. CASE t # <<>>
        BY <2>1, <2>2, <3>1
      <3>2. CASE t = <<>>
        BY <2>1, <3>2, EmptySorted
      <3> QED
        BY <3>1, <3>2
    <2>4. \A k \in DOMAIN t : ArrayOf(t[k], c, c > 0) = Level(t[k], c)
      <3>1. \A k \in DOMAIN t : t[k] \in Overhead
        BY <1>1, ElementOfSeq, LenProperties
      <3> QED
        BY <1>1, <3>1, ArrayIsLevel
    <2>5. call'.result = "ok" /\ call'.full_costs = t /\ call'.cores_per_l2 = c
      BY <2>1
    <2> HIDE DEF hasL2
    <2> QED
      BY <1>1, <2>3, <2>4, <2>5 DEF SortedBySharing
  <1> QED
    BY <1>2, <1>3, <1>4

\* Every other call leaves a result that is not a load's.
LEMMA SortedStep == ScriptInv /\ SortedBySharing /\ [ScriptNext]_scriptvars => SortedBySharing'
  <1> SUFFICES ASSUME ScriptInv, SortedBySharing, [ScriptNext]_scriptvars PROVE SortedBySharing'
    OBVIOUS
  <1>1. CASE LoadNext
    BY <1>1, SortedByLoad
  <1>2. CASE FailToLoad
    BY <1>2 DEF FailToLoad, LoadFails, Fails, SortedBySharing
  <1>3. ASSUME NEW a \in Arrays, Get(a) \/ GetFails(a) \/ GetBeforeLoad(a)
        PROVE  SortedBySharing'
    <2>1. call'.name = a
      BY <1>3 DEF Get, GetFails, GetBeforeLoad, Crash, Fails
    <2> QED
      BY <2>1 DEF Arrays, SortedBySharing
  <1>4. CASE \E a \in Arrays : Get(a) \/ GetFails(a) \/ GetBeforeLoad(a)
    BY <1>3, <1>4
  <1>5. CASE UNCHANGED scriptvars
    BY <1>5 DEF scriptvars, mvars, SortedBySharing
  <1> QED
    BY <1>1, <1>2, <1>4, <1>5 DEF ScriptNext, Ask, Arrays

LEMMA LoadsSortBySharing == ScriptSpec => []SortedBySharing
  <1>1. ScriptInit => SortedBySharing
    BY DEF ScriptInit, ModuleInit, SortedBySharing
  <1> QED
    BY <1>1, SortedStep, ScriptInvInit, ScriptStep, PTL DEF ScriptSpec

\* Sorted like that, the arrays are what the property asks for.
LEMMA SortingIsRight == ScriptInv /\ SortedBySharing => CarefulLoadsSort
  <1> SUFFICES ASSUME ScriptInv, SortedBySharing, careful, call.name = "load",
                      call.result \notin {"error", "nomem"}
               PROVE  LoadSortsByLevel
    BY DEF CarefulLoadsSort, LoadSortsByLevel
  <1> DEFINE t == call.full_costs
             cores == call.cores_per_l2
  <1>1. /\ alive /\ t \in Seq(Overhead)
        /\ data = Sorted(t, cores, cores > 0)
        /\ \A k \in DOMAIN t : ArrayOf(t[k], cores, cores > 0) = Level(t[k], cores)
    BY DEF ScriptInv, CarefulScriptsSurvive, SortedBySharing
  <1>2. ASSUME NEW a \in Arrays PROVE Holds(data[a], t, OfLevel(t, cores, a))
    <2>1. OfLevel(t, cores, a) = SortedInto(a, t, cores, cores > 0)
      <3> HIDE DEF t, cores
      <3> QED
        BY <1>1 DEF OfLevel, SortedInto
    <2> HIDE DEF t, cores
    <2> QED
      BY <1>1, <2>1, SortedInOrder
  <1> QED
    BY <1>1, <1>2 DEF LoadSortsByLevel

\* To a careful script load() sorts by the caches two cpus share
\* (pmmodule.c:44-51): each array gets every overhead of its level once, in
\* the order of the trace, for traces of any length, on any number of chips,
\* for any cores_per_l2 and after any sequence of calls.
THEOREM LoadsSort == ScriptSpec => []CarefulLoadsSort
  BY LoadsSortBySharing, SortingIsRight, ScriptInvInit, ScriptStep, PTL DEF ScriptSpec

-----------------------------------------------------------------------------
(* The predecessor of the function, get_ovd_plen().                        *)

\* A core of a chip is below the number of its cores.
LEMMA CoreBelow ==
  ASSUME NEW n \in Nat \ {0}, NEW m \in Nat \ {0}, NEW x \in 0 .. n * m - 1
  PROVE  x % n \in 0 .. n - 1 /\ x \div n \in 0 .. m - 1
  <1> DEFINE q == x \div n
  <1>1. n * m \in Nat
    OBVIOUS
  <1>2. x \in Nat /\ x < n * m
    BY <1>1
  <1>3. q \in Nat /\ x % n \in 0 .. n - 1 /\ n * q <= x
    BY <1>2
  <1> HIDE DEF q
  <1>4. q < m
    <2> SUFFICES ASSUME q >= m PROVE FALSE
      BY <1>3
    <2>1. n * m <= n * q
      BY <1>3
    <2>2. n * q \in Nat
      BY <1>3
    <2> QED
      BY <1>1, <1>2, <1>3, <2>1, <2>2
  <1> QED
    BY <1>3, <1>4 DEF q

\* Pairs of a chip and a core below m are told apart by chip * m + core.
LEMMA PairsDiffer ==
  ASSUME NEW m \in Nat \ {0}, NEW a \in Nat, NEW b \in Nat,
         NEW r \in 0 .. m - 1, NEW s \in 0 .. m - 1
  PROVE  /\ (a * m + r) \div m = a
         /\ a * m + r = b * m + s <=> a = b /\ r = s
  <1>1. r + m * a \in Nat /\ s + m * b \in Nat /\ a * m = m * a /\ b * m = m * b
    OBVIOUS
  <1> DEFINE x == r + m * a
             y == s + m * b
  <1>2. x % m = r /\ x \div m = a
    BY <1>1, DivMod
  <1>3. y % m = s /\ y \div m = b
    BY <1>1, DivMod
  <1>4. a * m + r = x /\ b * m + s = y
    BY <1>1
  <1> HIDE DEF x, y
  <1> QED
    BY <1>2, <1>3, <1>4

\* The group of c neighbouring cpus that holds a core of a chip, when the
\* cpus are numbered chip by chip.
GroupOf(chip, core, m, c) == (chip * m + core) \div c

\* Such groups are groups of cores of one chip, when c divides m.
LEMMA GroupsDiffer ==
  ASSUME NEW m \in Nat \ {0}, NEW c \in Nat \ {0}, m % c = 0,
         NEW a \in Nat, NEW b \in Nat, NEW r \in 0 .. m - 1, NEW s \in 0 .. m - 1
  PROVE  GroupOf(a, r, m, c) = GroupOf(b, s, m, c) <=> a = b /\ r \div c = s \div c
  <1> DEFINE g == m \div c
  <1>1. g \in Nat /\ m = c * g
    OBVIOUS
  <1> HIDE DEF g
  <1>2. g \in Nat \ {0}
    BY <1>1
  <1>3. ASSUME NEW e \in Nat, NEW t \in 0 .. m - 1
        PROVE  (e * m + t) \div c = e * g + (t \div c) /\ t \div c \in 0 .. g - 1
    <2>1. t % c \in 0 .. c - 1 /\ t \div c \in 0 .. g - 1 /\ t = c * (t \div c) + (t % c)
      <3>1. t \in 0 .. c * g - 1
        BY <1>1
      <3>2. t % c \in 0 .. c - 1 /\ t \div c \in 0 .. g - 1
        BY <1>2, <3>1, CoreBelow
      <3>3. t = c * (t \div c) + (t % c)
        OBVIOUS
      <3> QED
        BY <3>2, <3>3
    <2> DEFINE q == t \div c
               l == t % c
    <2> HIDE DEF q, l
    <2>2. e * m + t = l + c * (e * g + q)
      <3>1. q \in Nat /\ l \in Nat /\ t = c * q + l
        BY <1>2, <2>1 DEF q, l
      <3>2. e * (c * g) = c * (e * g) /\ c * (e * g + q) = c * (e * g) + c * q
        BY <1>2, <3>1
      <3> QED
        BY <1>1, <1>2, <3>1, <3>2
    <2>3. e * g + q \in Nat /\ e * m + t \in Nat /\ l \in 0 .. c - 1
      BY <1>2, <2>1 DEF q, l
    <2>4. (e * m + t) \div c = e * g + q
      BY <2>2, <2>3, DivMod
    <2> QED
      BY <2>1, <2>4 DEF q
  <1>4. a * g + (r \div c) = b * g + (s \div c) <=> a = b /\ r \div c = s \div c
    <2>1. r \div c \in 0 .. g - 1 /\ s \div c \in 0 .. g - 1
      BY <1>3
    <2> QED
      BY <1>2, <2>1, PairsDiffer
  <1>5. (a * m + r) \div c = a * g + (r \div c) /\ (b * m + s) \div c = b * g + (s \div c)
    BY <1>3
  <1> QED
    BY <1>4, <1>5, Zenon DEF GroupOf

\* On a regular machine get_ovd_plen() puts an overhead of renumbered cpus
\* where get_ovd_plen_umaxeon() puts it.
LEMMA SameArray ==
  ASSUME NEW t \in Traces, NEW k \in DOMAIN t, NEW c \in CoresPerL2
  PROVE  ArrayOf(t[k], c, c > 0)
           = LinearArrayOf([t[k] EXCEPT !.curr_cpu = Renumbered(@), !.last_cpu = Renumbered(@)],
                           c, cores_per_chip, c > 0)
  <1> DEFINE n == num_phys_cpu
             m == cores_per_chip
             o == t[k]
             x == o.curr_cpu
             y == o.last_cpu
             linear == [o EXCEPT !.curr_cpu = Renumbered(@), !.last_cpu = Renumbered(@)]
  <1>1. /\ n \in Nat \ {0} /\ m \in Nat \ {0} /\ c \in Nat /\ (c # 0 => m % c = 0)
        /\ x \in 0 .. n * m - 1 /\ y \in 0 .. n * m - 1 /\ o \in Overhead
    <2>1. t \in Seq(Overhead)
      BY ModuleAssumption
    <2>2. o \in Overhead
      BY <2>1
    <2> QED
      BY <2>2, ModuleAssumption, MachineAssumption
  <1>2. linear.curr_cpu = (x % n) * m + (x \div n) /\ linear.last_cpu = (y % n) * m + (y \div n)
    BY <1>1 DEF Overhead, Renumbered
  <1> DEFINE p == x % n
             q == y % n
             r == x \div n
             s == y \div n
  <1>3. p \in Nat /\ q \in Nat /\ r \in 0 .. m - 1 /\ s \in 0 .. m - 1
    <2> HIDE DEF n, m, x, y
    <2>1. x % n \in 0 .. n - 1 /\ x \div n \in 0 .. m - 1
      BY <1>1, CoreBelow
    <2>2. y % n \in 0 .. n - 1 /\ y \div n \in 0 .. m - 1
      BY <1>1, CoreBelow
    <2> QED
      BY <2>1, <2>2
  <1>4. x = y <=> p = q /\ r = s
    <2>1. x = n * r + p /\ y = n * s + q
      <3>1. n * m \in Nat
        BY <1>1
      <3>2. x \in Nat /\ y \in Nat
        BY <1>1, <3>1
      <3> HIDE DEF n, m, x, y
      <3> QED
        BY <1>1, <3>2
    <2> HIDE DEF n, x, y, r, s, p, q
    <2> QED
      BY <2>1 DEF p, q, r, s
  <1> DEFINE X == p * m + r
             Y == q * m + s
  <1>5. linear.curr_cpu = X /\ linear.last_cpu = Y
    BY <1>2
  <1>6. SameChip(o) <=> p = q
    BY DEF SameChip
  <1>7. SameL2(o, c) <=> r \div c = s \div c
    BY DEF SameL2
  <1> HIDE DEF n, m, o, x, y, linear, p, q, r, s
  <1>8. X = Y <=> x = y
    BY <1>1, <1>3, <1>4, PairsDiffer
  <1>9. X \div m = Y \div m <=> p = q
    BY <1>1, <1>3, PairsDiffer
  <1>10. c > 0 => (X \div c = Y \div c <=> p = q /\ r \div c = s \div c)
    <2> SUFFICES ASSUME c > 0 PROVE X \div c = Y \div c <=> p = q /\ r \div c = s \div c
      OBVIOUS
    <2>1. /\ m \in Nat \ {0} /\ c \in Nat \ {0} /\ m % c = 0
          /\ p \in Nat /\ q \in Nat /\ r \in 0 .. m - 1 /\ s \in 0 .. m - 1
      BY <1>1, <1>3
    <2> HIDE DEF X, Y
    <2>2. GroupOf(p, r, m, c) = GroupOf(q, s, m, c) <=> p = q /\ r \div c = s \div c
      BY ONLY <2>1, GroupsDiffer, SMT
    <2> QED
      BY <2>2 DEF X, Y, GroupOf
  <1>11. ArrayOf(o, c, c > 0) = IF x = y THEN "preempt"
                                ELSE IF p # q THEN "offchip"
                                ELSE IF c > 0 /\ r \div c = s \div c THEN "samel2"
                                ELSE "samechip"
    BY <1>6, <1>7 DEF ArrayOf, x, y
  <1>12. LinearArrayOf(linear, c, m, c > 0) = IF X = Y THEN "preempt"
                                              ELSE IF c > 0 /\ X \div c = Y \div c THEN "samel2"
                                              ELSE IF X \div m = Y \div m THEN "samechip"
                                              ELSE "offchip"
    BY <1>5 DEF LinearArrayOf
  <1> HIDE DEF X, Y
  <1>13. p # q => x # y
    BY <1>4
  <1>14. ArrayOf(o, c, c > 0) = LinearArrayOf(linear, c, m, c > 0)
    <2>1. CASE c > 0
      BY <1>8, <1>9, <1>10, <1>11, <1>12, <1>13, <2>1
    <2>2. CASE ~(c > 0)
      BY <1>8, <1>9, <1>11, <1>12, <1>13, <2>2
    <2> QED
      BY <2>1, <2>2
  <1> QED
    BY <1>14 DEF o, m, linear

\* A load that succeeds was given one of the traces.
LoadedTraces ==
  call.name = "load" /\ call.result = "ok" =>
    call.full_costs \in Traces /\ call.cores_per_l2 \in CoresPerL2

LEMMA LoadedStep == LoadedTraces /\ [ScriptNext]_scriptvars => LoadedTraces'
  <1> SUFFICES ASSUME LoadedTraces, [ScriptNext]_scriptvars PROVE LoadedTraces'
    OBVIOUS
  <1>1. ASSUME NEW t \in Traces, NEW c \in CoresPerL2, NEW arrays, Load(t, c, arrays)
        PROVE  LoadedTraces'
    <2>1. CASE Crash("load", "nomem") \/ Crash("load", "crash")
      BY <2>1 DEF Crash, LoadedTraces
    <2>2. CASE call' = [name |-> "load", result |-> "ok", full_costs |-> t, cores_per_l2 |-> c]
      BY <2>2 DEF LoadedTraces
    <2> QED
      BY <1>1, <2>1, <2>2 DEF Load
  <1>2. CASE FailToLoad
    BY <1>2 DEF FailToLoad, LoadFails, Fails, LoadedTraces
  <1>3. CASE \E a \in Arrays : Get(a) \/ GetFails(a) \/ GetBeforeLoad(a)
    BY <1>3 DEF Get, GetFails, GetBeforeLoad, Crash, Fails, Arrays, LoadedTraces
  <1>4. CASE UNCHANGED scriptvars
    BY <1>4 DEF scriptvars, mvars, LoadedTraces
  <1> QED
    BY <1>1, <1>2, <1>3, <1>4 DEF ScriptNext, LoadNext, Ask, Arrays

\* "Linux is processing _physical_ CPUs in a linear fashion"
\* (pm_common.c:449): on a regular machine of any size the function for cpus
\* numbered chip by chip and the one for cpus numbered across the chips sort
\* every overhead alike.
THEOREM BothSort == ScriptSpec => []BothSortAlike
  <1>1. ScriptInit => LoadedTraces
    BY DEF ScriptInit, ModuleInit, LoadedTraces
  <1>2. LoadedTraces => BothSortAlike
    BY SameArray DEF LoadedTraces, BothSortAlike
  <1> QED
    BY <1>1, <1>2, LoadedStep, PTL DEF ScriptSpec
=============================================================================

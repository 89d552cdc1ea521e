--------------------------- MODULE CacheCostProofs ---------------------------
(***************************************************************************)
(* Proofs about the experiments of cache_cost, for every number of cpus,   *)
(* samples and repetitions, every arena, every cache and every page size.  *)
(***************************************************************************)
EXTENDS PageRows, CommonLemmas, SequenceTheorems

-----------------------------------------------------------------------------
(* The arena, for any use of it.                                           *)

\* The int product of allocate() overflows only where it would be too large
\* anyhow.
LEMMA TooLargeIs ==
  ASSUME size \in Sizes
  PROVE  TooLarge <=> size * 2 > ARENA_SIZE
<1>1. size \in 1 .. INT_MAX /\ ARENA_SIZE \in 1 .. INT_MAX /\ INT_MAX \in Nat
  BY ArenaAssumption
<1> DEFINE m == 2 * INT_MAX + 2
           n == size * 2
<1>2. m \in Nat \ {0} /\ n \in 0 .. m - 1
  BY <1>1
<1>3. n % m = n
  <2> HIDE DEF m, n
  <2> QED
    BY <1>2
<1>4. AsInt(n) = IF n <= INT_MAX THEN n ELSE n - m
  BY <1>3 DEF AsInt
<1> QED
  BY <1>1, <1>2, <1>4 DEF TooLarge

\* What the wrap relies on: pieces of one size are handed out one behind the
\* other, so a piece that does not begin the arena leaves room for another
\* one before it.
Placed ==
  /\ mem = NoMem => arena_pos = 0 /\ last_mem = NoMem
  /\ mem # NoMem =>
       /\ size * 2 <= ARENA_SIZE
       /\ arena_pos = mem + size
       /\ mem = 0 \/ mem >= size
  /\ last_mem # NoMem => mem # NoMem

ArenaInv == ArenaTypeOK /\ InsideArena /\ NoReuse /\ Placed

\* ArenaInv holds before anything was handed out.
LEMMA InitArenaInv == ArenaInit => ArenaInv
BY ArenaAssumption DEF ArenaInit, ArenaInv, ArenaTypeOK, InsideArena, NoReuse, Placed, NoMem

\* No call of reset_arena() or allocate() breaks ArenaInv.
LEMMA NextArenaInv == ArenaInv /\ [ArenaNext]_avars => ArenaInv'
<1> SUFFICES ASSUME ArenaInv, [ArenaNext]_avars PROVE ArenaInv'
  OBVIOUS
<1> size \in Nat \ {0} /\ size' = size
  BY ArenaAssumption DEF ArenaInv, ArenaTypeOK, ArenaNext, ResetArena, Allocate, avars
<1>a. TooLarge <=> size * 2 > ARENA_SIZE
  BY TooLargeIs DEF ArenaInv, ArenaTypeOK
<1> USE ArenaAssumption DEF ArenaInv, ArenaTypeOK, InsideArena, NoReuse, Placed, NoMem, Words
<1>1. CASE ResetArena
  BY <1>1 DEF ResetArena
<1>2. CASE Allocate /\ MustWrap
  <2>1. mem' = 0 /\ arena_pos' = size /\ last_mem' = mem /\ size * 2 <= ARENA_SIZE
    BY <1>2, <1>a DEF Allocate
  <2>2. mem # NoMem /\ mem >= size
    BY <1>2, <2>1 DEF MustWrap
  <2> QED
    BY <2>1, <2>2
<1>3. CASE Allocate /\ ~MustWrap
  <2>1. mem' = arena_pos /\ arena_pos' = arena_pos + size /\ last_mem' = mem
        /\ size * 2 <= ARENA_SIZE
    BY <1>3, <1>a DEF Allocate
  <2>2. arena_pos + size <= ARENA_SIZE
    BY <1>3 DEF MustWrap
  <2> QED
    BY <2>1, <2>2
<1>4. CASE UNCHANGED avars
  BY <1>4 DEF avars
<1> QED
  BY <1>1, <1>2, <1>3, <1>4 DEF ArenaNext

\* ArenaInv is an invariant of every use of the arena.
THEOREM ArenaInvariant == ArenaSpec => []ArenaInv
BY InitArenaInv, NextArenaInv, PTL DEF ArenaSpec

\* arena_pos stays inside the arena.
THEOREM TypeCorrect == ArenaSpec => []ArenaTypeOK
<1>1. ArenaInv => ArenaTypeOK
  BY DEF ArenaInv
<1> QED
  BY ArenaInvariant, <1>1, PTL

\* allocate() never hands out words beyond the end of the arena.
THEOREM StaysInside == ArenaSpec => []InsideArena
<1>1. ArenaInv => InsideArena
  BY DEF ArenaInv
<1> QED
  BY ArenaInvariant, <1>1, PTL

\* allocate() never hands out a word of the working set it handed out just
\* before, also where the arena wraps.
THEOREM NeverReuses == ArenaSpec => []NoReuse
<1>1. ArenaInv => NoReuse
  BY DEF ArenaInv
<1> QED
  BY ArenaInvariant, <1>1, PTL

-----------------------------------------------------------------------------
(* The experiment.                                                         *)

\* The part of the type invariant the proofs need.
Typed ==
  /\ sample_count \in SampleCounts
  /\ rep \in Nat
  /\ preempt_counter \in Nat /\ migration_counter \in Nat
  /\ rows \in [{"preemption", "migration"} -> Nat]
  /\ last_cpu \in Cpus /\ next_cpu \in Cpus
  /\ show \in BOOLEAN
  /\ pc \in {"Begin", "Loop", "Allocate", "Cold", "Hot", "Migrate", "Sleep",
             "Resume", "Print", "Count", "Done", "Died", "Exited"}

\* Where the process runs while a round is under way: on last_cpu until it
\* migrates and on next_cpu from then on.
RunsWhere ==
  /\ pc \in {"Loop", "Allocate", "Cold"} => cpu = last_cpu
  /\ pc \in {"Hot", "Migrate", "Sleep", "Resume", "Print"} => src = last_cpu
  /\ pc \in {"Sleep", "Resume", "Count"} => cpu = next_cpu
  /\ pc = "Print" => tgt = next_cpu /\ cpu = next_cpu

\* The number of rows a counter stands for: all it counted up to
\* sample_count, and one more.
Shown(n) == IF n <= sample_count THEN n ELSE sample_count + 1

InRound == pc \in {"Allocate", "Cold", "Hot", "Migrate", "Sleep", "Resume", "Print"}

\* How the rows printed follow from the counters, and what show was
\* computed from while its row is not printed yet.
RowsFollow ==
  sample_count > 0 =>
    /\ pc = "Loop" \/ InRound =>
         /\ rows["preemption"] = Shown(preempt_counter)
         /\ rows["migration"] = Shown(migration_counter)
    /\ InRound =>
         /\ next_cpu = last_cpu => (show <=> sample_count >= preempt_counter)
         /\ next_cpu # last_cpu => (show <=> sample_count >= migration_counter)
    /\ pc = "Count" =>
         /\ rows["preemption"] = Shown(IF next_cpu = last_cpu THEN preempt_counter + 1
                                       ELSE preempt_counter)
         /\ rows["migration"] = Shown(IF next_cpu = last_cpu THEN migration_counter
                                      ELSE migration_counter + 1)

\* With one cpu nothing ever migrates.
AloneStays == NumCpus = 1 => migration_counter = 0 /\ rows["migration"] = 0

\* An experiment that ended by itself had a sample count and has its rows.
EndedWithRows ==
  Ended => sample_count > 0 /\ KindsAreEven

IInv == Typed /\ RunsWhere /\ RowsFollow /\ AloneStays /\ EndedWithRows

-----------------------------------------------------------------------------
\* A counter that is not above sample_count counts exactly.
LEMMA CountIsExact ==
  ASSUME NEW n \in Nat, sample_count \in SampleCounts, SampleCounts \subseteq Nat
  PROVE  /\ Count(n) \in Nat
         /\ n <= sample_count => Count(n) = n + 1
         /\ n > sample_count => Count(n) > sample_count
         /\ Shown(Count(n)) = Shown(n + 1)
         /\ CountRow(n) \in Nat
         /\ n <= sample_count => CountRow(n) = n + 1
BY DEF Count, CountRow, Shown

\* With one cpu the cpu drawn is the one the process runs on.
LEMMA OneCpu == ASSUME NumCpus = 1 PROVE Cpus = {0}
BY DEF Cpus

\* A flag that was assigned a comparison is TRUE exactly when it holds.
LEMMA FlagOfComparison ==
  ASSUME NEW x \in Int, NEW y \in Int, NEW flag, flag = (x >= y)
  PROVE  flag \in BOOLEAN /\ (flag <=> x >= y)
<1>1. flag \in BOOLEAN
  OBVIOUS
<1>2. flag <=> x >= y
  OBVIOUS
<1> QED
  BY <1>1, <1>2

\* IInv holds before the first experiment.
LEMMA InitIInv == Init => IInv
BY CacheCostAssumption DEF Init, IInv, Typed, RunsWhere, RowsFollow, AloneStays,
   EndedWithRows, Ended, InRound, Cpus

\* No step of the experiment, of the loop around it or of the alarm breaks
\* IInv.
LEMMA NextIInv == IInv /\ [Next]_vars => IInv'
<1> SUFFICES ASSUME IInv, [Next]_vars PROVE IInv'
  OBVIOUS
<1>a. /\ SampleCounts \subseteq Nat /\ NumCpus \in Nat \ {0} /\ sample_count \in Nat
      /\ 0 \in Cpus
  BY CacheCostAssumption DEF IInv, Typed, Cpus
<1> USE <1>a DEF IInv, Typed, RunsWhere, RowsFollow, AloneStays, EndedWithRows, Ended, InRound,
       Shown, Goto, Die, options, arenavars, roundvars, counters, timing
<1>1. CASE BeginExperiment
  BY <1>1, CacheCostAssumption DEF BeginExperiment, MigrateTo
<1>2. CASE EndExperiment
  <2>1. sample_count > 0 /\ preempt_counter > sample_count
        /\ (NumCpus > 1 => migration_counter > sample_count)
    BY <1>2 DEF EndExperiment, MoreToDo
  <2>2. UNCHANGED <<sample_count, rep, rows, preempt_counter, migration_counter, last_cpu,
 next_cpu, cpu, show>>
        /\ pc = "Loop" /\ pc' \in {"Begin", "Done"}
    BY <1>2 DEF EndExperiment
  <2>3. /\ rows["preemption"] = sample_count + 1
        /\ NumCpus > 1 => rows["migration"] = sample_count + 1
        /\ NumCpus = 1 => rows["migration"] = 0
    BY <2>1, <2>2
  <2>4. KindsAreEven'
    BY <2>2, <2>3 DEF KindsAreEven
  <2>5. Typed' /\ RunsWhere' /\ AloneStays' /\ EndedWithRows'
    BY <2>1, <2>2, <2>4
  <2>6. RowsFollow'
    <3> HIDE <1>a DEF IInv
    <3> QED
      BY <2>2
  <2> QED
    BY <2>5, <2>6
<1>3. ASSUME NEW c \in Cpus, Draw(c) PROVE IInv'
  <2>1. /\ UNCHANGED <<sample_count, rep, preempt_counter, migration_counter, last_cpu, cpu,
                       rows, src, tgt>>
        /\ pc = "Loop" /\ pc' = "Allocate" /\ next_cpu' = c
        /\ show' = IF sample_count = 0 THEN show
                   ELSE IF c = last_cpu THEN sample_count >= preempt_counter
                   ELSE sample_count >= migration_counter
    BY <1>3 DEF Draw
  <2>2. Typed /\ RunsWhere /\ RowsFollow /\ AloneStays
    OBVIOUS
  <2> HIDE DEF IInv
  <2>b. /\ sample_count = 0 => show' = show
        /\ sample_count # 0 /\ c = last_cpu => show' = (sample_count >= preempt_counter)
        /\ sample_count # 0 /\ c # last_cpu => show' = (sample_count >= migration_counter)
    BY <1>3 DEF Draw
  <2>c. sample_count \in Int /\ preempt_counter \in Int /\ migration_counter \in Int
        /\ show \in BOOLEAN
    BY <2>2
  <2>a. show' \in BOOLEAN
    <3>1. CASE sample_count = 0
      BY <2>b, <2>c, <3>1, Zenon
    <3>2. CASE sample_count # 0 /\ c = last_cpu
      BY <2>b, <2>c, <3>2, FlagOfComparison, Zenon
    <3>3. CASE sample_count # 0 /\ c # last_cpu
      BY <2>b, <2>c, <3>3, FlagOfComparison, Zenon
    <3> QED
      BY <3>1, <3>2, <3>3
  <2>3. Typed'
    BY <1>3, <2>1, <2>2, <2>a
  <2>4. RunsWhere' /\ AloneStays' /\ EndedWithRows'
    BY <2>1, <2>2
  <2>5. RowsFollow'
    <3> SUFFICES ASSUME sample_count > 0 PROVE RowsFollow'
      BY <2>1
    <3>1. /\ rows["preemption"] = Shown(preempt_counter)
          /\ rows["migration"] = Shown(migration_counter)
      BY <2>1, <2>2
    <3>2. /\ c = last_cpu => (show' <=> sample_count >= preempt_counter)
          /\ c # last_cpu => (show' <=> sample_count >= migration_counter)
      <4>1. sample_count # 0
        OBVIOUS
      <4> QED
        BY <2>b, <2>c, <4>1, FlagOfComparison, Zenon
    <3>3. /\ pc' = "Allocate" /\ rows' = rows /\ sample_count' = sample_count
          /\ next_cpu' = c /\ last_cpu' = last_cpu
          /\ preempt_counter' = preempt_counter /\ migration_counter' = migration_counter
      BY <2>1
    <3> HIDE <1>a
    <3> QED
      BY <2>a, <3>1, <3>2, <3>3
  <2> QED
    BY <2>3, <2>4, <2>5 DEF IInv
<1>4. CASE TakeMem
  BY <1>4 DEF TakeMem
<1>5. CASE AllocateFails \/ MigrationFails \/ SleepFails \/ Alarm
  BY <1>5 DEF AllocateFails, MigrationFails, SleepFails, Alarm
<1>6. CASE TimeCold \/ TimeHot
  BY <1>6 DEF TimeCold, TimeHot
<1>7. CASE StiBeforeMigration \/ Sleep
  BY <1>7 DEF StiBeforeMigration, Sleep, SetNp
<1>8. CASE Migrate
  BY <1>8 DEF Migrate, MigrateTo
<1>9. CASE TimeResume
  BY <1>9 DEF TimeResume
<1>10. CASE PrintRow
  <2>1. /\ UNCHANGED <<sample_count, rep, preempt_counter, migration_counter, last_cpu,
                       next_cpu, cpu, show>>
        /\ pc = "Print" /\ pc' = "Count"
        /\ rows' = IF show THEN [rows EXCEPT ![Kind] = CountRow(rows[Kind])] ELSE rows
    BY <1>10 DEF PrintRow
  <2>2. NumCpus = 1 => next_cpu = last_cpu
    BY OneCpu
  <2>3. /\ CountRow(rows["preemption"]) \in Nat /\ CountRow(rows["migration"]) \in Nat
        /\ rows["preemption"] <= sample_count =>
             CountRow(rows["preemption"]) = rows["preemption"] + 1
        /\ rows["migration"] <= sample_count =>
             CountRow(rows["migration"]) = rows["migration"] + 1
    BY CountIsExact
  <2>4. ASSUME show
        PROVE  /\ rows' \in [{"preemption", "migration"} -> Nat]
               /\ rows'[Kind] = CountRow(rows[Kind])
               /\ Kind = "preemption" => rows'["migration"] = rows["migration"]
               /\ Kind = "migration" => rows'["preemption"] = rows["preemption"]
    BY <2>1, <2>3, <2>4 DEF Kind
  <2>5. ASSUME ~show PROVE rows' = rows
    BY <2>1, <2>5
  <2>6. Typed'
    BY <2>1, <2>4, <2>5
  <2>7. RunsWhere'
    BY <2>1
  <2>8. AloneStays'
    <3>1. NumCpus = 1 => Kind = "preemption"
      BY <2>2 DEF Kind
    <3> QED
      BY <2>1, <2>4, <2>5, <3>1
  <2>9. RowsFollow'
    <3> SUFFICES ASSUME sample_count > 0
                 PROVE  /\ rows'["preemption"] =
                             Shown(IF next_cpu = last_cpu THEN preempt_counter + 1
                                   ELSE preempt_counter)
                        /\ rows'["migration"] =
                             Shown(IF next_cpu = last_cpu THEN migration_counter
                                   ELSE migration_counter + 1)
      BY <2>1 DEF InRound
    <3>1. /\ rows["preemption"] = Shown(preempt_counter)
          /\ rows["migration"] = Shown(migration_counter)
          /\ show <=> (IF next_cpu = last_cpu THEN sample_count >= preempt_counter
                       ELSE sample_count >= migration_counter)
      BY <2>1 DEF InRound
    <3>2. CASE next_cpu = last_cpu /\ show
      <4>1. Kind = "preemption" /\ rows["preemption"] = preempt_counter
        BY <3>1, <3>2 DEF Kind
      <4>2. rows'["preemption"] = preempt_counter + 1 /\ rows'["migration"] = rows["migration"]
        BY <2>3, <2>4, <3>1, <3>2, <4>1
      <4> QED
        BY <3>1, <3>2, <4>2
    <3>3. CASE next_cpu # last_cpu /\ show
      <4>1. Kind = "migration" /\ rows["migration"] = migration_counter
        BY <3>1, <3>3 DEF Kind
      <4>2. rows'["migration"] = migration_counter + 1 /\ rows'["preemption"] = rows["preemption"]
        BY <2>3, <2>4, <3>1, <3>3, <4>1
      <4> QED
        BY <3>1, <3>3, <4>2
    <3>4. CASE ~show
      BY <2>5, <3>1, <3>4
    <3> QED
      BY <3>2, <3>3, <3>4
  <2> QED
    BY <2>1, <2>6, <2>7, <2>8, <2>9
<1>11. CASE CountRound
  <2>1. /\ UNCHANGED <<sample_count, rep, rows, next_cpu, cpu, show>>
        /\ pc = "Count" /\ pc' = "Loop" /\ last_cpu' = next_cpu
        /\ IF next_cpu = last_cpu
             THEN /\ preempt_counter' = Count(preempt_counter)
                  /\ migration_counter' = migration_counter
             ELSE /\ migration_counter' = Count(migration_counter)
                  /\ preempt_counter' = preempt_counter
    BY <1>11 DEF CountRound
  <2>2. NumCpus = 1 => next_cpu = last_cpu
    BY OneCpu
  <2>3. /\ Count(preempt_counter) \in Nat /\ Count(migration_counter) \in Nat
        /\ Shown(Count(preempt_counter)) = Shown(preempt_counter + 1)
        /\ Shown(Count(migration_counter)) = Shown(migration_counter + 1)
    BY CountIsExact
  <2>4. Typed' /\ RunsWhere' /\ AloneStays' /\ EndedWithRows'
    <3>1. CASE next_cpu = last_cpu
      BY <2>1, <2>3, <3>1
    <3>2. CASE next_cpu # last_cpu
      BY <2>1, <2>2, <2>3, <3>2
    <3> QED
      BY <3>1, <3>2
  <2>5. RowsFollow'
    <3> SUFFICES ASSUME sample_count > 0
                 PROVE  /\ rows["preemption"] = Shown(preempt_counter')
                        /\ rows["migration"] = Shown(migration_counter')
      BY <2>1
    <3>1. CASE next_cpu = last_cpu
      BY <2>1, <2>3, <3>1
    <3>2. CASE next_cpu # last_cpu
      BY <2>1, <2>3, <3>2
    <3> QED
      BY <3>1, <3>2
  <2> QED
    BY <2>4, <2>5
<1>12. CASE UNCHANGED vars \/ Returned
  BY <1>12 DEF vars, Returned, Ended, KindsAreEven
<1> QED
  BY <1>1, <1>2, <1>3, <1>4, <1>5, <1>6, <1>7, <1>8, <1>9, <1>10, <1>11, <1>12
     DEF Next, Round, DrawPreemption, DrawMigration

\* IInv is an invariant of the experiment.
LEMMA ExperimentInvariant == Spec => []IInv
BY InitIInv, NextIInv, PTL DEF Spec

\* The columns SRC and TGT name the cpus the accesses were timed on.
THEOREM RowsAreRight == Spec => []RowsNameTheirCpus
<1>1. IInv => RowsNameTheirCpus
  BY DEF IInv, RunsWhere, RowsNameTheirCpus
<1> QED
  BY ExperimentInvariant, <1>1, PTL

\* An experiment that ends by itself printed as many migrations as
\* preemptions and not fewer than sample_count, whatever pick_cpu() drew.
THEOREM EnoughSamples == Spec => []KindsAreEven
<1>1. IInv => KindsAreEven
  BY DEF IInv, EndedWithRows, Ended, KindsAreEven
<1> QED
  BY ExperimentInvariant, <1>1, PTL

\* The experiment takes no step that the arena does not know: what is proved
\* of the arena holds in it.
LEMMA UsesTheArena == Spec => ArenaSpec
<1>1. Init => ArenaInit
  BY DEF Init
<1>2. [Next]_vars => [ArenaNext]_avars
  BY DEF Next, vars, ArenaNext, avars, BeginExperiment, EndExperiment, DrawPreemption,
     DrawMigration, Draw, Round, TakeMem, AllocateFails, TimeCold, TimeHot,
     StiBeforeMigration, Migrate, MigrationFails, Sleep, SetNp, SleepFails, TimeResume,
     PrintRow, CountRound, Alarm, Returned, options, arenavars
<1> QED
  BY <1>1, <1>2, PTL DEF Spec, ArenaSpec

\* Hence the working sets of an experiment lie inside the arena, and no
\* round times a word the round before it used.
THEOREM FreshWorkingSets == Spec => [](InsideArena /\ NoReuse)
BY UsesTheArena, StaysInside, NeverReuses, PTL

-----------------------------------------------------------------------------
(* The addresses of a row.                                                 *)

\* Products of naturals are naturals, and grow with their factors.
LEMMA Products ==
  ASSUME NEW a \in Nat, NEW b \in Nat, NEW c \in Nat \ {0}
  PROVE  /\ a * c \in Nat
         /\ a < b <=> a * c < b * c
         /\ a <= b <=> a * c <= b * c
         /\ a <= a * c
<1>1. ASSUME a < b PROVE a * c < b * c
  <2>1. (a + 1) * c <= b * c
    BY <1>1
  <2> QED
    BY <2>1
<1>2. ASSUME b <= a PROVE b * c <= a * c
  BY <1>2
<1>3. a <= a * c
  OBVIOUS
<1> QED
  BY <1>1, <1>2, <1>3

\* A number of pages that fit in n bytes is at most the quotient.
LEMMA WholePages ==
  ASSUME NEW n \in Nat, NEW c \in Nat \ {0}, NEW k \in Nat, k * c <= n
  PROVE  k <= n \div c
<1> DEFINE q == n \div c
<1>1. q \in Nat /\ n < (q + 1) * c
  OBVIOUS
<1> HIDE DEF q
<1>2. k * c < (q + 1) * c
  BY <1>1, Products
<1>3. k < q + 1
  BY <1>1, <1>2, Products
<1> QED
  BY <1>1, <1>3 DEF q

\* Pages of c bytes that begin before the end of n bytes: as many as the
\* quotient rounded up.
LEMMA PagesBegin ==
  ASSUME NEW n \in Nat, NEW c \in Nat \ {0}, NEW p \in 1 .. (n + c - 1) \div c
  PROVE  (p - 1) * c < n
<1> DEFINE q == (n + c - 1) \div c
<1>1. n + c - 1 \in Nat
  OBVIOUS
<1>2. q \in Nat /\ q * c <= n + c - 1
  BY <1>1
<1> HIDE DEF q
<1>3. p \in 1 .. q
  BY DEF q
<1>4. p * c <= q * c
  BY <1>2, <1>3, Products
<1>5. p * c \in Nat /\ q * c \in Nat /\ (p - 1) * c = p * c - c
  BY <1>2, <1>3, Products
<1> QED
  BY <1>2, <1>4, <1>5

\* A page holds a whole number of ints.
LEMMA IntsOfPage ==
  /\ PAGESIZE \div INTSIZE \in Nat
  /\ PAGESIZE = (PAGESIZE \div INTSIZE) * INTSIZE
BY PageAssumption
\* do_random_experiment() counts its pages in KBs by mistake
\* (cache_cost.c:202), but get_phys_addrs() finds at least that many, each
\* beginning in the working set; only a working set larger than a page has
\* more of them than there is room for.
LEMMA EnoughPages ==
  ASSUME size \in Sizes
  PROVE  /\ num_pages \in Nat \ {0} /\ count \in Nat
         /\ num_pages <= count
         /\ \A p \in 1 .. num_pages : (p - 1) * (PAGESIZE \div INTSIZE) \in 0 .. size - 1
         /\ count > num_pages => size * INTSIZE > PAGESIZE
<1> DEFINE n == size * INTSIZE
           w == PAGESIZE \div INTSIZE
           k == wss \div PAGESIZE
<1>1. /\ size \in Nat \ {0} /\ INTSIZE \in Nat \ {0} /\ PAGESIZE \in Nat \ {0}
      /\ INTS_IN_1KB \in Nat \ {0} /\ size % INTS_IN_1KB = 0
  BY ArenaAssumption, PageAssumption
<1>2. n \in Nat \ {0} /\ size <= n
  BY <1>1, Products
<1>3. wss \in Nat \ {0} /\ wss <= size
  <2>1. wss \in Nat /\ size = INTS_IN_1KB * wss + (size % INTS_IN_1KB)
    BY <1>1 DEF wss
  <2>2. wss # 0
    BY <1>1, <2>1
  <2>3. wss <= wss * INTS_IN_1KB
    BY <1>1, <2>1, Products
  <2> HIDE DEF wss
  <2> QED
    BY <1>1, <2>1, <2>2, <2>3
<1>4. k \in Nat /\ k <= wss /\ k * PAGESIZE <= wss
  <2> HIDE DEF wss
  <2>1. k \in Nat /\ k * PAGESIZE <= wss
    BY <1>1, <1>3
  <2> HIDE DEF k
  <2>2. k <= k * PAGESIZE /\ k * PAGESIZE \in Nat
    BY <1>1, <2>1, Products
  <2> QED
    BY <1>3, <2>1, <2>2
<1>5. w \in Nat /\ PAGESIZE = w * INTSIZE
  BY IntsOfPage
<1>6. Pages \in Nat /\ k <= Pages /\ 1 <= Pages
  <2> DEFINE m == n + PAGESIZE - 1
  <2>1. m \in Nat /\ k * PAGESIZE <= m /\ 1 * PAGESIZE <= m
    <3> HIDE DEF n, k, wss
    <3> QED
      BY <1>1, <1>2, <1>3, <1>4
  <2>2. Pages = m \div PAGESIZE
    BY DEF Pages
  <2> HIDE DEF m, k
  <2> QED
    BY <1>1, <1>4, <2>1, <2>2, WholePages
<1>7. num_pages = (IF k = 0 THEN 1 ELSE k) /\ count = (IF Pages < wss THEN Pages ELSE wss)
  BY DEF num_pages, count
<1>8. \A p \in 1 .. Pages : (p - 1) * PAGESIZE < n
  <2>1. Pages = (n + PAGESIZE - 1) \div PAGESIZE
    BY DEF Pages
  <2> HIDE DEF n, Pages
  <2> QED
    BY <1>1, <1>2, <2>1, PagesBegin
<1> HIDE DEF n, w, k, wss, num_pages, count, Pages
<1>9. num_pages \in Nat \ {0} /\ count \in Nat /\ num_pages <= count /\ count <= Pages
  BY <1>3, <1>4, <1>6, <1>7
<1>10. ASSUME NEW p \in 1 .. num_pages PROVE (p - 1) * w \in 0 .. size - 1
  <2>1. p - 1 \in Nat /\ p \in 1 .. Pages
    BY <1>6, <1>9
  <2>2. (p - 1) * w \in Nat
    <3> DEFINE d == p - 1
    <3> HIDE DEF d
    <3>1. d \in Nat => d * w \in Nat
      BY <1>5
    <3> QED
      BY <2>1, <3>1 DEF d
  <2>3. ((p - 1) * w) * INTSIZE = (p - 1) * PAGESIZE
    <3> DEFINE d == p - 1
    <3>1. d \in Nat
      BY <2>1
    <3> HIDE DEF d
    <3>2. (d * w) * INTSIZE = d * (w * INTSIZE)
      BY <1>1, <1>5, <3>1
    <3> QED
      BY <1>5, <3>2 DEF d
  <2>4. ((p - 1) * w) * INTSIZE < size * INTSIZE
    BY <1>8, <2>1, <2>3 DEF n
  <2>5. (p - 1) * w < size
    <3> DEFINE d == (p - 1) * w
    <3> HIDE DEF d
    <3>1. d \in Nat /\ d * INTSIZE < size * INTSIZE => d < size
      BY <1>1, Products
    <3> QED
      BY <2>2, <2>4, <3>1 DEF d
  <2> QED
    BY <1>1, <2>2, <2>5
<1>11. ASSUME count > num_pages PROVE n > PAGESIZE
  <2>1. 2 \in 1 .. Pages
    BY <1>6, <1>9, <1>11
  <2>2. (2 - 1) * PAGESIZE < n
    BY <1>8, <2>1
  <2> QED
    BY <1>1, <1>2, <2>2
<1> QED
  BY <1>9, <1>10, <1>11 DEF w, n

\* Looking addresses up takes part in no step of the experiment, which a
\* damaged heap can only cut short.
LEMMA PageStep ==
  ASSUME [PageNext]_rowvars
  PROVE  \/ [Next]_vars
         \/ pc' = "Died" /\ UNCHANGED <<options, rep, arenavars, np, cpu, roundvars, counters,
                                        timing, rows>>
<1>1. CASE BeginPages
  BY <1>1 DEF BeginPages, Next
<1>2. CASE PrintPages
  BY <1>2 DEF PrintPages, Next, Round
<1>3. CASE HeapAborts \/ NullArray
  BY <1>3 DEF HeapAborts, NullArray, Die, Goto
<1>4. CASE WithPages(\/ pc # "Print" /\ Round
                     \/ EndExperiment \/ DrawPreemption \/ DrawMigration \/ Alarm \/ Returned)
  BY <1>4 DEF WithPages, Next
<1>5. CASE UNCHANGED rowvars
  BY <1>5 DEF rowvars
<1> QED
  BY <1>1, <1>2, <1>3, <1>4, <1>5 DEF PageNext, RoundPages, WithPages

\* Overruns are those of a working set that is larger than a page.
OverrunInv == size \in Sizes /\ (spoiled \/ overrun => size * INTSIZE > PAGESIZE)

LEMMA OverrunInit == PageInit => OverrunInv
BY DEF PageInit, Init, ArenaInit, OverrunInv

\* The size of the working set stays what the command line said.
LEMMA SizeStays == [PageNext]_rowvars => size' = size
<1> SUFFICES ASSUME [PageNext]_rowvars PROVE size' = size
  OBVIOUS
<1>1. [Next]_vars => size' = size
  BY DEF Next, vars, BeginExperiment, ResetArena, EndExperiment, DrawPreemption,
     DrawMigration, Draw, Round, TakeMem, Allocate, AllocateFails, TimeCold, TimeHot,
     StiBeforeMigration, Migrate, MigrationFails, Sleep, SetNp, SleepFails, TimeResume,
     PrintRow, CountRound, Alarm, Returned, options
<1> QED
  BY <1>1, PageStep DEF options

LEMMA OverrunStep == OverrunInv /\ [PageNext]_rowvars => OverrunInv'
<1> SUFFICES ASSUME OverrunInv, [PageNext]_rowvars PROVE OverrunInv'
  OBVIOUS
<1>1. size' = size /\ size \in Sizes
  BY SizeStays DEF OverrunInv
<1>2. CASE UNCHANGED pagevars
  BY <1>1, <1>2 DEF pagevars, OverrunInv
<1>3. CASE PrintPages /\ show /\ StoreAddrs
  <2>1. Overruns => size * INTSIZE > PAGESIZE
    <3> HIDE DEF num_pages, count
    <3> QED
      BY <1>1, EnoughPages DEF Overruns
  <2> HIDE DEF Overruns
  <2>2. /\ overrun' => overrun \/ Overruns
        /\ spoiled' => spoiled \/ Overruns
    BY <1>3 DEF StoreAddrs
  <2> QED
    BY <1>1, <2>1, <2>2 DEF OverrunInv
<1>4. CASE BeginPages
  BY <1>1, <1>4 DEF BeginPages, OverrunInv
<1> QED
  BY <1>2, <1>3, <1>4 DEF PageNext, RoundPages, PrintPages, GetPhysAddrs, NullArray, HeapAborts,
     WithPages, rowvars

\* What get_phys_addrs() stores for a row is of the row's working set.
LEMMA OwnStored ==
  ASSUME size \in Sizes, ArenaTypeOK, [PageNext]_rowvars, PrintPages, show, StoreAddrs
  PROVE  \A p \in 1 .. num_pages : phys_addrs'[p] = NoFrame \/ OwnAddress(p)'
<1>1. size' = size /\ mem' = mem /\ mem \in Int /\ size \in Int
  <2>1. mem' = mem
    BY DEF PrintPages, PrintRow, arenavars
  <2> QED
    BY <2>1, SizeStays, ArenaAssumption DEF ArenaTypeOK, NoMem
<1>2. \A p \in 1 .. num_pages :
        /\ p <= count
        /\ (p - 1) * (PAGESIZE \div INTSIZE) \in 0 .. size - 1
  <2> HIDE DEF num_pages, count
  <2> QED
    BY EnoughPages
<1>3. PICK found \in SUBSET (1 .. num_pages) :
        phys_addrs' = [p \in 1 .. num_pages |->
                         IF p > count THEN phys_addrs[p]
                         ELSE IF p \in found THEN AddressOf(p)
                         ELSE NoFrame]
  BY DEF StoreAddrs
<1>4. num_pages \in Nat /\ count \in Nat
  BY EnoughPages
<1> HIDE DEF num_pages, count
<1> SUFFICES ASSUME NEW p \in 1 .. num_pages, phys_addrs'[p] # NoFrame
             PROVE  OwnAddress(p)'
  OBVIOUS
<1> DEFINE d == (p - 1) * (PAGESIZE \div INTSIZE)
<1>5. phys_addrs'[p] = mem + d
  BY <1>2, <1>3, <1>4 DEF AddressOf
<1>6. d \in 0 .. size - 1
  BY <1>2
<1> HIDE DEF d
<1>7. mem + d \in mem .. mem + size - 1
  BY <1>1, <1>6
<1> QED
  BY <1>1, <1>5, <1>7 DEF OwnAddress, Words, d

\* The experiment with its addresses uses the arena as Arena describes it.
LEMMA PagesUseArena == PageSpec => ArenaSpec
<1>1. PageInit => ArenaInit
  BY DEF PageInit, Init
<1>2. [PageNext]_rowvars => [ArenaNext]_avars
  BY PageStep DEF Next, vars, ArenaNext, avars, BeginExperiment, EndExperiment, DrawPreemption,
     DrawMigration, Draw, Round, TakeMem, AllocateFails, TimeCold, TimeHot,
     StiBeforeMigration, Migrate, MigrationFails, Sleep, SetNp, SleepFails, TimeResume,
     PrintRow, CountRound, Alarm, Returned, options, arenavars
<1> QED
  BY <1>1, <1>2, PTL DEF PageSpec, ArenaSpec

\* When the pagemap can be opened, a row names an address for each of its
\* pages, that of a page of its own working set or a bare offset
\* (cache_cost.c:310-316), for every working set, arena and page size and
\* every failing look-up; the array only overflows, and spoils the rows,
\* for working sets of more than a page.
THEOREM RowsHaveTheirAddresses == PageSpec => AddressesAreOwn
<1>1. ArenaInv => ArenaTypeOK
  BY DEF ArenaInv
<1>2. OverrunInv => /\ size \in Sizes
                    /\ spoiled \/ overrun => size * INTSIZE > PAGESIZE
  BY DEF OverrunInv
<1>3. OverrunInv /\ ArenaTypeOK /\ [PageNext]_rowvars =>
        [PrintPages /\ show /\ StoreAddrs /\ ~spoiled' =>
           \A p \in 1 .. num_pages : phys_addrs'[p] = NoFrame \/ OwnAddress(p)']_rowvars
  BY OwnStored DEF OverrunInv
<1> QED
  BY <1>1, <1>2, <1>3, PagesUseArena, ArenaInvariant, OverrunInit, OverrunStep, PTL
     DEF PageSpec, AddressesAreOwn

-----------------------------------------------------------------------------
(* The cache, most recently used first.                                    *)

\* The multiples of n are the numbers q * n.
LEMMA Divides ==
  ASSUME NEW n \in Nat \ {0}, NEW x \in Nat
  PROVE  /\ x % n \in 0 .. n - 1
         /\ x % n = 0 <=> \E q \in Nat : x = q * n
         /\ \E q \in Nat : x = (x % n) + q * n
<1> DEFINE d == x \div n
           r == x % n
<1>1. d \in Nat /\ r \in 0 .. n - 1 /\ x = r + d * n
  OBVIOUS
<1> HIDE DEF d, r
<1>2. r = 0 => x = d * n
  BY <1>1
<1>3. ASSUME NEW q \in Nat, x = q * n PROVE r = 0
  <2>1. d * n \in Nat /\ q * n \in Nat
    BY <1>1, Products
  <2>2. ~(q < d)
    <3>1. q < d => q * n < d * n
      BY <1>1, Products
    <3> QED
      BY <1>1, <1>3, <2>1, <3>1
  <2>3. ~(d < q)
    <3>1. d + 1 <= q => (d + 1) * n <= q * n
      BY <1>1, Products
    <3>2. (d + 1) * n = d * n + n
      BY <1>1
    <3> QED
      BY <1>1, <1>3, <2>1, <3>1, <3>2
  <2>4. q = d
    BY <1>1, <2>2, <2>3
  <2> QED
    BY <1>1, <1>3, <2>1, <2>4
<1>4. r = 0 <=> \E q \in Nat : x = q * n
  BY <1>1, <1>2, <1>3
<1>5. x % n = r
  BY DEF r
<1> HIDE DEF r
<1> QED
  BY <1>1, <1>4, <1>5

\* A multiple of n before another one is at least n before it.
LEMMA Multiples ==
  ASSUME NEW n \in Nat \ {0}, NEW a \in Nat, NEW b \in Nat, a % n = 0
  PROVE  /\ (a + n) % n = 0
         /\ b % n = 0 /\ a < b => a + n <= b
<1>1. PICK q \in Nat : a = q * n
  BY Divides
<1>2. (q + 1) * n = a + n /\ q + 1 \in Nat
  BY <1>1
<1>3. (a + n) % n = 0
  <2>1. a + n \in Nat
    OBVIOUS
  <2>2. (a + n) % n = 0 <=> \E k \in Nat : a + n = k * n
    BY <2>1, Divides
  <2> QED
    BY <1>2, <2>2
<1>4. ASSUME b % n = 0, a < b PROVE a + n <= b
  <2>1. PICK s \in Nat : b = s * n
    BY <1>4, Divides
  <2>2. q < s
    BY <1>1, <1>4, <2>1, Products
  <2>3. (q + 1) * n <= s * n
    BY <1>2, <2>2, Products
  <2> QED
    BY <1>2, <2>1, <2>3
<1> QED
  BY <1>3, <1>4

\* The end of the last working set of s words that fits in the arena, and
\* what may be assumed to be touched later than word w: the words behind it
\* in its working set, and the working sets behind that one.
End(s) == ARENA_SIZE - (ARENA_SIZE % s)
After(w, s) == IF w % s = 0 THEN w + s ELSE w + 1

LEMMA EndIs ==
  ASSUME NEW s \in Nat \ {0}, s * 2 <= ARENA_SIZE
  PROVE  /\ End(s) \in 0 .. ARENA_SIZE
         /\ End(s) + s > ARENA_SIZE
         /\ End(s) >= s * 2
         /\ End(s) % s = 0
         /\ \A b \in Nat : b % s = 0 /\ b <= ARENA_SIZE => b <= End(s)
         /\ \A b \in Nat : b % s = 0 /\ b <= ARENA_SIZE /\ b + s > ARENA_SIZE => b = End(s)
<1>0. ARENA_SIZE \in Nat
  BY ArenaAssumption
<1>1. PICK q \in Nat : ARENA_SIZE = (ARENA_SIZE % s) + q * s /\ ARENA_SIZE % s \in 0 .. s - 1
  BY <1>0, Divides
<1>2. q * s \in Nat /\ End(s) = q * s
  BY <1>0, <1>1, Products DEF End
<1>3. End(s) \in 0 .. ARENA_SIZE /\ End(s) + s > ARENA_SIZE
  BY <1>0, <1>1, <1>2
<1>4. End(s) % s = 0
  BY <1>2, Divides
<1>5. \A b \in Nat : b % s = 0 /\ b <= ARENA_SIZE => b <= End(s)
  BY <1>0, <1>3, <1>4, Multiples
<1>6. \A b \in Nat : b % s = 0 /\ b <= ARENA_SIZE /\ b + s > ARENA_SIZE => b = End(s)
  BY <1>0, <1>3, <1>4, <1>5, Multiples
<1>7. End(s) >= s * 2
  <2>1. (s * 2) % s = 0
    <3>1. s * 2 = 2 * s /\ s * 2 \in Nat /\ 2 \in Nat
      OBVIOUS
    <3>2. (s * 2) % s = 0 <=> \E k \in Nat : s * 2 = k * s
      BY <3>1, Divides
    <3> QED
      BY <3>1, <3>2
  <2> QED
    BY <1>5, <2>1
<1> QED
  BY <1>3, <1>4, <1>5, <1>6, <1>7

\* The words touched later than w when those below upto were touched in the
\* latest pass over the arena.
Fresher(w, s, upto) ==
  IF w < upto THEN After(w, s) .. upto - 1
  ELSE (After(w, s) .. End(s) - 1) \cup (0 .. upto - 1)

\* Every word is behind all those touched later.
Ordered(c, s, upto) ==
  \A p \in DOMAIN c : c[p] \in 0 .. End(s) - 1 =>
    \A v \in Fresher(c[p], s, upto) : \E q \in 1 .. p - 1 : c[q] = v

\* The words of a working set in the order one sweep leaves them in: mem[0],
\* stored to last, and then from the last one down.
LEMMA WordsTouched ==
  ASSUME size \in Nat \ {0}, mem \in Nat
  PROVE  LET words == <<mem>> \o Swept(mem + 1, size - 1)
         IN  /\ words \in Seq(Int) /\ Len(words) = size
             /\ \A k \in 1 .. size : words[k] = IF k = 1 THEN mem ELSE mem + size + 1 - k
             /\ \A v \in mem .. mem + size - 1 : \E k \in 1 .. size : words[k] = v
<1> DEFINE first == <<mem>>
           rest == Swept(mem + 1, size - 1)
           words == first \o rest
<1>1. /\ rest \in Seq(Int) /\ Len(rest) = size - 1
      /\ \A k \in 1 .. size - 1 : rest[k] = mem + size - k
  BY DEF Swept
<1>2. first \in Seq(Int) /\ Len(first) = 1 /\ first[1] = mem
  OBVIOUS
<1> HIDE DEF first, rest
<1>3. /\ words \in Seq(Int) /\ Len(words) = size
      /\ \A k \in 1 .. size : words[k] = IF k <= 1 THEN first[k] ELSE rest[k - 1]
  <2>1. Len(first) + Len(rest) = size
    BY <1>1, <1>2
  <2>2. /\ words \in Seq(Int) /\ Len(words) = Len(first) + Len(rest)
        /\ \A k \in 1 .. Len(first) + Len(rest) :
             words[k] = IF k <= Len(first) THEN first[k] ELSE rest[k - Len(first)]
    BY <1>1, <1>2, ConcatProperties
  <2> HIDE DEF words
  <2> QED
    BY <1>2, <2>1, <2>2
<1> HIDE DEF words
<1>4. ASSUME NEW k \in 1 .. size PROVE words[k] = IF k = 1 THEN mem ELSE mem + size + 1 - k
  <2>1. CASE k = 1
    BY <1>2, <1>3, <2>1
  <2>2. CASE k # 1
    <3>1. k - 1 \in 1 .. size - 1 /\ ~(k <= 1)
      BY <2>2
    <3>2. words[k] = mem + size - (k - 1)
      BY <1>1, <1>3, <3>1
    <3> QED
      BY <2>2, <3>2
  <2> QED
    BY <2>1, <2>2
<1>5. ASSUME NEW v \in mem .. mem + size - 1 PROVE \E k \in 1 .. size : words[k] = v
  <2>1. CASE v = mem
    <3>1. 1 \in 1 .. size
      OBVIOUS
    <3> QED
      BY <1>4, <2>1, <3>1
  <2>2. CASE v # mem
    <3> DEFINE k == mem + size + 1 - v
    <3>1. k \in 1 .. size /\ k # 1 /\ mem + size + 1 - k = v
      BY <2>2
    <3> HIDE DEF k
    <3> QED
      BY <1>4, <3>1
  <2> QED
    BY <2>1, <2>2
<1> QED
  BY <1>3, <1>4, <1>5 DEF words, first, rest

\* Where a working set of s words can begin.
Block(m, s) == m % s = 0 /\ m + s <= ARENA_SIZE /\ s * 2 <= ARENA_SIZE

\* The working set m is on top of the cache c, mem[0] first.
OnTopIs(c, m, s) ==
  \A k \in 1 .. s : k \in DOMAIN c /\ c[k] = IF k = 1 THEN m ELSE m + s + 1 - k

\* A timed access keeps the words in the order they were touched in, whether
\* it is the first one of the working set or not, and leaves a working set
\* that fits the cache on top of it.
LEMMA TouchKeepsOrder ==
  ASSUME cache \in Seq(Int), cache_words \in Nat,
         size \in Nat \ {0}, mem \in Nat, Block(mem, size),
         NEW upto \in {mem, mem + size}, Ordered(cache, size, upto)
  PROVE  /\ Touched \in Seq(Int)
         /\ Ordered(Touched, size, mem + size)
         /\ size <= cache_words => OnTopIs(Touched, mem, size)
<1> DEFINE words == <<mem>> \o Swept(mem + 1, size - 1)
           c == Touched
           W == mem .. mem + size - 1
<1>1. /\ words \in Seq(Int) /\ Len(words) = size /\ DOMAIN words = 1 .. size
      /\ \A k \in 1 .. size : words[k] = IF k = 1 THEN mem ELSE mem + size + 1 - k
      /\ \A v \in W : \E k \in 1 .. size : words[k] = v
  <2>1. /\ words \in Seq(Int) /\ Len(words) = size
        /\ \A k \in 1 .. size : words[k] = IF k = 1 THEN mem ELSE mem + size + 1 - k
        /\ \A v \in mem .. mem + size - 1 : \E k \in 1 .. size : words[k] = v
    BY WordsTouched
  <2> HIDE DEF words
  <2>2. DOMAIN words = 1 .. size
    BY <2>1
  <2> QED
    BY <2>1, <2>2
<1>2. c = Used(words)
  BY DEF Touched
<1> HIDE DEF words, c
<1>3. OnTop(c, cache, cache_words, words)
  BY <1>1, <1>2, UsedIs DEF Used
<1>4. /\ c \in Seq(Int) /\ DOMAIN c = 1 .. Len(c) /\ Len(c) \in Nat
      /\ size <= cache_words => size <= Len(c)
      /\ \A p \in DOMAIN c : p <= size => c[p] = IF p = 1 THEN mem ELSE mem + size + 1 - p
  <2>1. /\ c \in Seq(Int)
        /\ size <= cache_words => size <= Len(c)
        /\ \A p \in DOMAIN c : p <= size => c[p] = words[p]
    BY <1>1, <1>3 DEF OnTop
  <2>2. DOMAIN c = 1 .. Len(c) /\ Len(c) \in Nat
    BY <2>1
  <2>3. ASSUME NEW p \in DOMAIN c, p <= size PROVE c[p] = IF p = 1 THEN mem ELSE mem + size + 1 - p
    <3>1. p \in 1 .. size
      BY <2>2, <2>3
    <3> QED
      BY <1>1, <2>1, <2>3, <3>1
  <2> QED
    BY <2>1, <2>2, <2>3
<1>5. \A k \in DOMAIN words : words[k] \in W
  BY <1>1
<1>6. \A v : v \in W <=> \E k \in DOMAIN words : words[k] = v
  BY <1>1, <1>5
<1>7. ASSUME NEW p \in DOMAIN c, p > size
      PROVE  \E i \in DOMAIN cache :
               /\ cache[i] = c[p] /\ c[p] \notin W
               /\ \A j \in 1 .. i - 1 : cache[j] \notin W => \E q \in 1 .. p - 1 : c[q] = cache[j]
  <2>1. PICK i \in DOMAIN cache :
          /\ cache[i] = c[p]
          /\ \A k \in DOMAIN words : words[k] # c[p]
          /\ \A j \in 1 .. i - 1 :
               (\A k \in DOMAIN words : words[k] # cache[j]) => \E q \in 1 .. p - 1 : c[q] = cache[j]
    BY <1>1, <1>3, <1>7 DEF OnTop
  <2>2. c[p] \notin W
    BY <1>6, <2>1
  <2>3. ASSUME NEW j \in 1 .. i - 1, cache[j] \notin W PROVE \E q \in 1 .. p - 1 : c[q] = cache[j]
    BY <1>6, <2>1, <2>3
  <2> QED
    BY <2>1, <2>2, <2>3
<1>8. ASSUME size <= cache_words PROVE OnTopIs(c, mem, size)
  <2> SUFFICES ASSUME NEW k \in 1 .. size
               PROVE  k \in DOMAIN c /\ c[k] = IF k = 1 THEN mem ELSE mem + size + 1 - k
    BY DEF OnTopIs
  <2>1. size <= Len(c)
    BY <1>4, <1>8
  <2>2. k \in DOMAIN c /\ k <= size
    BY <1>4, <2>1
  <2> QED
    BY <1>4, <2>2
<1>9. ASSUME NEW p \in DOMAIN c, c[p] \in 0 .. End(size) - 1,
             NEW v \in Fresher(c[p], size, mem + size)
      PROVE  \E q \in 1 .. p - 1 : c[q] = v
  <2> DEFINE w == c[p]
             E == End(size)
  <2>0. E \in Nat /\ mem + size <= E /\ (mem + size) % size = 0
    <3>1. size * 2 <= ARENA_SIZE /\ mem % size = 0 /\ mem + size <= ARENA_SIZE
      BY DEF Block
    <3>2. E \in Nat /\ \A b \in Nat : b % size = 0 /\ b <= ARENA_SIZE => b <= E
      BY <3>1, EndIs, ArenaAssumption
    <3>3. mem + size \in Nat /\ (mem + size) % size = 0
      BY <3>1, Multiples
    <3> QED
      BY <3>1, <3>2, <3>3
  <2>a. w \in 0 .. E - 1 /\ p \in Nat \ {0} /\ v \in Fresher(w, size, mem + size)
    BY <1>4, <1>9
  <2>b. v \in Int
    BY <2>0, <2>a DEF Fresher, After
  <2> HIDE DEF w, E
  <2>1. CASE p = 1
    <3>1. w = mem
      BY <1>4, <2>1 DEF w
    <3>2. v \in mem + size .. mem + size - 1
      BY <2>a, <3>1 DEF Fresher, After, Block
    <3> QED
      BY <3>2
  <2>2. CASE p \in 2 .. size
    <3>1. w = mem + size + 1 - p
      BY <1>4, <2>2 DEF w
    <3>2. w \in mem + 1 .. mem + size - 1
      BY <2>2, <3>1
    <3>3. w % size # 0
      <4>1. w \in Nat
        BY <3>2
      <4>2. w % size = 0 /\ mem < w => mem + size <= w
        BY <4>1, Multiples DEF Block
      <4> QED
        BY <3>2, <4>2
    <3>4. v \in w + 1 .. mem + size - 1
      BY <2>a, <3>2, <3>3 DEF Fresher, After
    <3> DEFINE q == mem + size + 1 - v
    <3>5. q \in 2 .. p - 1 /\ q <= size /\ mem + size + 1 - q = v
      BY <2>2, <2>b, <3>1, <3>4
    <3> HIDE DEF q
    <3>6. q \in DOMAIN c /\ q # 1
      BY <1>4, <2>a, <3>5
    <3>7. c[q] = v
      BY <1>4, <3>5, <3>6
    <3> QED
      BY <3>5, <3>7
  <2>3. CASE p > size
    <3>1. PICK i \in DOMAIN cache :
            /\ cache[i] = w /\ w \notin W
            /\ \A j \in 1 .. i - 1 : cache[j] \notin W => \E q \in 1 .. p - 1 : c[q] = cache[j]
      BY <1>7, <2>3 DEF w
    <3>2. CASE v \in W
      <4>1. size \in DOMAIN c /\ size < p
        BY <1>4, <2>3
      <4>2. PICK k \in 1 .. size : words[k] = v
        BY <1>1, <3>2
      <4>3. k \in DOMAIN c /\ k \in 1 .. p - 1 /\ k <= size
        BY <1>4, <2>a, <4>1
      <4>4. c[k] = words[k]
        BY <1>1, <1>4, <4>3
      <4> QED
        BY <4>2, <4>3, <4>4
    <3>3. CASE v \notin W
      <4>1. v \in Fresher(w, size, upto)
        <5>1. CASE w < mem
          <6>1. v \in After(w, size) .. mem + size - 1
            BY <2>a, <5>1 DEF Fresher
          <6>2. v \in After(w, size) .. mem - 1
            BY <2>b, <3>3, <6>1
          <6> QED
            BY <2>a, <2>b, <5>1, <6>1, <6>2 DEF Fresher
        <5>2. CASE w >= mem + size
          <6>1. v \in (After(w, size) .. E - 1) \cup (0 .. mem + size - 1)
            BY <2>a, <5>2 DEF Fresher, E
          <6>2. v \in (After(w, size) .. E - 1) \cup (0 .. mem - 1)
            BY <2>b, <3>3, <6>1
          <6> QED
            BY <2>a, <2>b, <5>2, <6>1, <6>2 DEF Fresher, E
        <5> QED
          BY <2>a, <3>1, <5>1, <5>2
      <4>2. cache[i] \in 0 .. End(size) - 1
        BY <2>a, <3>1 DEF E
      <4>3. PICK j \in 1 .. i - 1 : cache[j] = v
        BY <3>1, <4>1, <4>2 DEF Ordered
      <4> QED
        BY <3>1, <3>3, <4>3
    <3> QED
      BY <3>2, <3>3
  <2> QED
    BY <2>a, <2>1, <2>2, <2>3
<1>10. Ordered(c, size, mem + size)
  BY <1>9 DEF Ordered
<1> QED
  BY <1>4, <1>8, <1>10 DEF c

\* touch_arena() leaves the words in the order of the arena.
LEMMA ResetOrders ==
  ASSUME cache \in Seq(Int), cache_words \in Nat, NEW s \in Nat \ {0}
  PROVE  Used(Swept(0, ARENA_SIZE)) \in Seq(Int) /\ Ordered(Used(Swept(0, ARENA_SIZE)), s, 0)
<1> DEFINE A == ARENA_SIZE
           words == Swept(0, A)
           c == Used(words)
           E == End(s)
<1>1. A \in Nat /\ E \in Int /\ E <= A
  <2>1. A \in Nat
    BY ArenaAssumption
  <2>2. A % s \in 0 .. s - 1
    BY <2>1, Divides
  <2> QED
    BY <2>1, <2>2 DEF End
<1>2. words \in Seq(Int) /\ Len(words) = A /\ \A k \in 1 .. A : words[k] = A - k
  BY <1>1 DEF Swept
<1> HIDE DEF A, words, E
<1>3. OnTop(c, cache, cache_words, words)
  BY <1>2, UsedIs DEF Used
<1> HIDE DEF c
<1>4. /\ c \in Seq(Int) /\ DOMAIN c = 1 .. Len(c) /\ Len(c) \in Nat
      /\ \A p \in DOMAIN c : p <= A => c[p] = A - p
  <2>1. c \in Seq(Int) /\ \A p \in DOMAIN c : p <= A => c[p] = words[p]
    BY <1>2, <1>3 DEF OnTop
  <2>2. DOMAIN c = 1 .. Len(c) /\ Len(c) \in Nat
    BY <2>1
  <2> QED
    BY <1>1, <1>2, <2>1, <2>2
<1>5. ASSUME NEW p \in DOMAIN c, c[p] \in 0 .. E - 1, NEW v \in Fresher(c[p], s, 0)
      PROVE  \E q \in 1 .. p - 1 : c[q] = v
  <2> DEFINE w == c[p]
             q == A - v
  <2>1. v \in w + 1 .. E - 1
    <3>1. w \in 0 .. E - 1 /\ v \in (After(w, s) .. E - 1) \cup (0 .. 0 - 1)
      BY <1>1, <1>5 DEF Fresher, E
    <3> HIDE DEF w
    <3>2. After(w, s) >= w + 1 /\ After(w, s) \in Int
      BY <1>1, <3>1 DEF After
    <3> QED
      BY <1>1, <3>1, <3>2
  <2>2. q \in 1 .. A /\ A - q = v /\ p \in Nat
    BY <1>1, <1>4, <1>5, <2>1
  <2>3. q < p
    <3>1. p <= A => w = A - p
      BY <1>4
    <3> QED
      BY <1>1, <1>5, <2>1, <2>2, <3>1
  <2> HIDE DEF q
  <2>4. q \in DOMAIN c /\ q \in 1 .. p - 1
    BY <1>4, <2>2, <2>3
  <2>5. c[q] = v
    <3>1. q <= A
      BY <1>1, <2>2
    <3>2. c[q] = A - q
      BY <1>4, <2>4, <3>1
    <3> QED
      BY <2>2, <3>2
  <2> QED
    BY <2>4, <2>5
<1>6. Ordered(c, s, 0)
  BY <1>5 DEF Ordered, E
<1> QED
  BY <1>4, <1>6 DEF c, words, A

\* A pass over the arena ends with its last working set.
LEMMA WrapKeepsOrder ==
  ASSUME NEW c, NEW s \in Nat \ {0}, s * 2 <= ARENA_SIZE, Ordered(c, s, End(s))
  PROVE  Ordered(c, s, 0)
<1>1. End(s) \in Nat
  BY EndIs
<1>2. ASSUME NEW w \in 0 .. End(s) - 1, NEW v \in Fresher(w, s, 0) PROVE v \in Fresher(w, s, End(s))
  <2> DEFINE from == After(w, s)
             e == End(s)
  <2> HIDE DEF from, e
  <2>1. e \in Nat /\ w \in 0 .. e - 1
    BY <1>1, <1>2 DEF e
  <2>2. v \in (from .. e - 1) \cup (0 .. 0 - 1)
    BY <1>2, <2>1 DEF Fresher, from, e
  <2>3. v \in from .. e - 1
    BY <2>2
  <2> QED
    BY <2>1, <2>3 DEF Fresher, from, e
<1> QED
  BY <1>2 DEF Ordered

\* What lies behind so many others is out of the room.
LEMMA TooFar ==
  ASSUME NEW u \in Int, NEW p \in Int, NEW n \in Int, NEW room \in Int,
         u <= p - 1 + n, p + n <= room
  PROVE  u < room
  OBVIOUS

\* In an arena that is large enough no word of a working set hits when it is
\* touched for the first time, except mem[0] in a smaller arena: the words
\* touched since the last time fill the cache.
LEMMA ColdMisses ==
  ASSUME cache \in Seq(Int), cache_words \in Nat,
         size \in Nat \ {0}, mem \in Nat, Block(mem, size), Ordered(cache, size, mem)
  PROVE  /\ 2 * ARENA_SIZE >= 3 * cache_words => \A w \in mem + 1 .. mem + size - 1 : ~Hits(cache, cache_words, mem .. w - 1, w)
         /\ ARENA_SIZE >= 3 * cache_words => ~Hits(cache, cache_words, mem .. mem - 1, mem)
<1> DEFINE A == ARENA_SIZE
           E == End(size)
           C == cache_words
<1>1. /\ A \in Nat /\ E \in Nat /\ E + size > A /\ E >= size * 2 /\ mem + size <= E
      /\ mem % size = 0
  <2>1. mem % size = 0 /\ mem + size <= A /\ size * 2 <= A
    BY DEF Block
  <2>2. A \in Nat /\ mem + size \in Nat /\ (mem + size) % size = 0
    BY <2>1, Multiples, ArenaAssumption
  <2>3. E \in 0 .. A /\ E + size > A /\ E >= size * 2
        /\ \A b \in Nat : b % size = 0 /\ b <= A => b <= E
    BY <2>1, EndIs
  <2> HIDE DEF A, E
  <2>4. mem + size <= E
    BY <2>1, <2>2, <2>3
  <2>5. E \in Nat /\ E + size > A /\ E >= size * 2
    BY <2>3
  <2> QED
    BY <2>1, <2>2, <2>4, <2>5
<1> HIDE DEF A, E
<1>2. ASSUME NEW w \in mem .. mem + size - 1, NEW p \in DOMAIN cache, cache[p] = w,
             NEW U, U \subseteq Fresher(w, size, mem) \cup (mem .. w - 1)
      PROVE  /\ Cardinality((mem .. w - 1) \ {cache[q] : q \in 1 .. p - 1}) \in Nat
             /\ Cardinality(U) <= p - 1 + Cardinality((mem .. w - 1) \ {cache[q] : q \in 1 .. p - 1})
  <2> DEFINE B == {cache[q] : q \in 1 .. p - 1}
  <2>1. w \in 0 .. End(size) - 1
    BY <1>1 DEF E
  <2>2. \A v \in Fresher(w, size, mem) : v \in B
    BY <1>2, <2>1 DEF Ordered
  <2>3. U \subseteq B \cup (mem .. w - 1)
    <3> HIDE DEF B
    <3> QED
      BY <1>2, <2>2
  <2>4. IsFiniteSet(mem .. w - 1)
    BY FS_Interval
  <2> HIDE DEF B
  <2> QED
    BY <2>3, <2>4, Distance DEF B
<1>3. ASSUME 2 * A >= 3 * C, NEW w \in mem + 1 .. mem + size - 1, Hits(cache, cache_words, mem .. w - 1, w) PROVE FALSE
  <2>1. PICK p \in 1 .. Len(cache) :
          /\ cache[p] = w
          /\ p + Cardinality((mem .. w - 1) \ {cache[q] : q \in 1 .. p - 1}) <= C
    BY <1>3 DEF Hits
  <2>2. p \in DOMAIN cache /\ w \in Nat /\ w \in mem .. mem + size - 1
    BY <2>1
  <2>3. w % size # 0
    <3>1. w % size = 0 /\ mem < w => mem + size <= w
      BY <1>1, <2>2, Multiples
    <3> QED
      BY <1>3, <3>1
  <2> DEFINE U == (0 .. E - 1) \ {w}
  <2>4. U \subseteq Fresher(w, size, mem) \cup (mem .. w - 1)
    <3>1. Fresher(w, size, mem) = (w + 1 .. E - 1) \cup (0 .. mem - 1)
      BY <1>3, <2>2, <2>3 DEF Fresher, After, E
    <3> QED
      BY <1>1, <2>2, <3>1
  <2>5. Cardinality(U) = E - 1
    <3> DEFINE S == 0 .. E - 1
    <3>1. IsFiniteSet(S) /\ Cardinality(S) = E
      <4>1. 0 \in Int /\ E - 1 \in Int
        BY <1>1
      <4>2. IsFiniteSet(S) /\ Cardinality(S) = IF 0 > E - 1 THEN 0 ELSE (E - 1) - 0 + 1
        BY <4>1, FS_Interval
      <4> QED
        BY <1>1, <4>2
    <3>2. w \in S
      BY <1>1, <1>3
    <3> HIDE DEF S
    <3>3. Cardinality(S \ {w}) = Cardinality(S) - 1
      BY <3>1, <3>2, FS_RemoveElement
    <3> QED
      BY <3>1, <3>3 DEF S
  <2> HIDE DEF U
  <2> DEFINE n == Cardinality((mem .. w - 1) \ {cache[q] : q \in 1 .. p - 1})
  <2>6. n \in Nat /\ Cardinality(U) <= p - 1 + n /\ p + n <= C
    BY <1>2, <2>1, <2>2, <2>4
  <2> HIDE DEF n
  <2>7. E - 1 \in Int /\ p \in Int /\ n \in Int /\ C \in Int
    BY <1>1, <2>6 DEF C
  <2>8. E - 1 < C
    BY <2>5, <2>6, <2>7, TooFar
  <2>9. E <= C
    BY <1>1, <2>7, <2>8
  <2> QED
    BY <1>1, <1>3, <2>9
<1>4. ASSUME A >= 3 * C, Hits(cache, cache_words, mem .. mem - 1, mem) PROVE FALSE
  <2>1. PICK p \in 1 .. Len(cache) :
          /\ cache[p] = mem
          /\ p + Cardinality((mem .. mem - 1) \ {cache[q] : q \in 1 .. p - 1}) <= C
    BY <1>4 DEF Hits
  <2>2. p \in DOMAIN cache /\ mem \in mem .. mem + size - 1
    BY <2>1
  <2> DEFINE U == (mem + size .. E - 1) \cup (0 .. mem - 1)
  <2>4. U \subseteq Fresher(mem, size, mem) \cup (mem .. mem - 1)
    <3>1. Fresher(mem, size, mem) = U
      BY <1>1 DEF Fresher, After, E
    <3> HIDE DEF U
    <3> QED
      BY <3>1
  <2>5. Cardinality(U) = E - size
    <3> DEFINE X == mem + size .. E - 1
               Y == 0 .. mem - 1
    <3>1. IsFiniteSet(X) /\ Cardinality(X) = E - mem - size
      <4>1. mem + size \in Int /\ E - 1 \in Int
        BY <1>1
      <4>2. IsFiniteSet(X) /\ Cardinality(X) = IF mem + size > E - 1 THEN 0 ELSE (E - 1) - (mem + size) + 1
        BY <4>1, FS_Interval
      <4> QED
        BY <1>1, <4>2
    <3>2. IsFiniteSet(Y) /\ Cardinality(Y) = mem
      <4>1. 0 \in Int /\ mem - 1 \in Int
        OBVIOUS
      <4>2. IsFiniteSet(Y) /\ Cardinality(Y) = IF 0 > mem - 1 THEN 0 ELSE (mem - 1) - 0 + 1
        BY <4>1, FS_Interval
      <4> QED
        BY <4>2
    <3>3. X \cap Y = {}
      OBVIOUS
    <3>4. Cardinality(X \cap Y) = 0
      BY <3>3, FS_EmptySet
    <3>5. Cardinality(X \cup Y) = Cardinality(X) + Cardinality(Y) - Cardinality(X \cap Y)
      BY <3>1, <3>2, FS_Union
    <3> HIDE DEF X, Y
    <3>6. Cardinality(X \cup Y) = E - size
      BY <1>1, <3>1, <3>2, <3>4, <3>5
    <3> QED
      BY <3>6 DEF X, Y
  <2> HIDE DEF U
  <2> DEFINE n == Cardinality((mem .. mem - 1) \ {cache[q] : q \in 1 .. p - 1})
  <2>6. n \in Nat /\ Cardinality(U) <= p - 1 + n /\ p + n <= C
    BY <1>2, <2>1, <2>2, <2>4
  <2> HIDE DEF n
  <2>7. E - size \in Int /\ p \in Int /\ n \in Int /\ C \in Int
    BY <1>1, <2>6 DEF C
  <2>8. E - size < C
    BY <2>5, <2>6, <2>7, TooFar
  <2> QED
    BY <1>1, <1>4, <2>7, <2>8
<1> QED
  BY <1>3, <1>4 DEF A

\* A working set on top of the cache hits at every word.
LEMMA HotHits ==
  ASSUME cache \in Seq(Int), cache_words \in Nat, size \in Nat \ {0}, mem \in Nat,
         size <= cache_words, OnTopIs(cache, mem, size)
  PROVE  \A w \in mem .. mem + size - 1 : Hits(cache, cache_words, mem .. w - 1, w)
<1> SUFFICES ASSUME NEW w \in mem .. mem + size - 1 PROVE Hits(cache, cache_words, mem .. w - 1, w)
  OBVIOUS
<1>0. \A k \in 1 .. size : k \in 1 .. Len(cache) /\ cache[k] = IF k = 1 THEN mem ELSE mem + size + 1 - k
  BY DEF OnTopIs
<1>1. CASE w = mem
  <2>1. 1 \in 1 .. size
    OBVIOUS
  <2>2. 1 \in 1 .. Len(cache) /\ cache[1] = w
    BY <1>0, <1>1, <2>1
  <2> DEFINE B == {cache[q] : q \in 1 .. 1 - 1}
  <2>3. (mem .. w - 1) \ B = {}
    BY <1>1
  <2>4. Cardinality((mem .. w - 1) \ B) = 0
    BY <2>3, FS_EmptySet
  <2>5. 1 + Cardinality((mem .. w - 1) \ B) <= cache_words
    <3> HIDE DEF B
    <3> QED
      BY <2>4
  <2> QED
    BY <2>2, <2>5 DEF Hits
<1>2. CASE w # mem
  <2> DEFINE p == mem + size + 1 - w
             B == {cache[q] : q \in 1 .. p - 1}
             D == (mem .. w - 1) \ B
  <2>1. p \in 2 .. size /\ mem + size + 1 - p = w
    BY <1>2
  <2> HIDE DEF p
  <2>2. p \in 1 .. Len(cache) /\ cache[p] = w
    BY <1>0, <2>1
  <2>3. mem \in B
    <3>1. 1 \in 1 .. p - 1 /\ 1 \in 1 .. size
      BY <2>1
    <3>2. cache[1] = mem
      BY <1>0, <3>1
    <3> QED
      BY <3>1, <3>2
  <2>4. D \in SUBSET (mem + 1 .. w - 1)
    <3> HIDE DEF B
    <3> QED
      BY <2>3
  <2>5. IsFiniteSet(mem + 1 .. w - 1) /\ Cardinality(mem + 1 .. w - 1) = w - 1 - mem
    <3>1. mem + 1 \in Int /\ w - 1 \in Int
      OBVIOUS
    <3>2. IsFiniteSet(mem + 1 .. w - 1)
          /\ Cardinality(mem + 1 .. w - 1) = IF mem + 1 > w - 1 THEN 0 ELSE (w - 1) - (mem + 1) + 1
      BY <3>1, FS_Interval
    <3> QED
      BY <1>2, <3>2
  <2> HIDE DEF D
  <2>6. IsFiniteSet(D) /\ Cardinality(D) <= w - 1 - mem
    BY <2>4, <2>5, FS_Subset
  <2>7. Cardinality(D) \in Nat
    BY <2>6, FS_CardinalityType
  <2>8. p + Cardinality(D) <= cache_words
    BY <2>1, <2>6, <2>7
  <2> QED
    BY <2>2, <2>8 DEF Hits, D
<1> QED
  BY <1>1, <1>2

-----------------------------------------------------------------------------
(* Cold and hot accesses.                                                  *)

HasMem == pc \in {"Cold", "Hot", "Migrate", "Sleep", "Resume", "Print", "Count"}

\* The words of the working set count as touched from the cold access on.
Touching == IF pc = "Cold" THEN mem ELSE arena_pos

\* The cache holds the words in the order they were touched in, and the
\* working set of the hot accesses is on top of it.
CacheInv ==
  /\ cache \in Seq(Int) /\ cache_words \in Nat
  /\ hot \in Nat /\ (pc = "Cold" => hot = 0)
  /\ arena_pos % size = 0
  /\ mem # NoMem => mem % size = 0
  /\ HasMem => mem # NoMem
  /\ ~Finished => Ordered(cache, size, Touching)
  /\ pc = "Hot" /\ size <= cache_words => OnTopIs(cache, mem, size)
  /\ ColdIsColdHotIsHot

LEMMA CacheInit == Init => CacheInv
<1> SUFFICES ASSUME Init PROVE CacheInv
  OBVIOUS
<1>1. cache = <<>> /\ pc = "Begin" /\ mem = NoMem /\ arena_pos = 0 /\ hot = 0
  BY DEF Init, ArenaInit
<1>2. size \in Nat \ {0} /\ cache_words \in Nat
  BY ArenaAssumption, CacheCostAssumption DEF Init, ArenaInit
<1>3. arena_pos % size = 0
  <2>1. 0 = 0 * size /\ 0 \in Nat
    BY <1>2
  <2>2. 0 % size = 0 <=> \E q \in Nat : 0 = q * size
    BY <1>2, <2>1, Divides
  <2> QED
    BY <1>1, <2>1, <2>2
<1>4. Ordered(cache, size, Touching)
  BY <1>1 DEF Ordered
<1>5. cache \in Seq(Int)
  BY <1>1
<1> QED
  BY <1>1, <1>2, <1>3, <1>4, <1>5 DEF CacheInv, HasMem, ColdIsColdHotIsHot

\* Between the timed accesses the cache stays as it is.
Quiet ==
  /\ UNCHANGED <<cache, size, cache_words, mem, arena_pos, hot, missed>>
  /\ pc' \notin {"Cold", "Hot"}
  /\ ~Finished' => pc # "Cold" /\ ~Finished
  /\ HasMem' => HasMem

LEMMA QuietStep == CacheInv /\ Quiet => CacheInv'
<1> SUFFICES ASSUME CacheInv, Quiet PROVE CacheInv'
  OBVIOUS
<1>0. HasMem' => mem' # NoMem'
  BY DEF Quiet, CacheInv, NoMem
<1>1. ~Finished' => Ordered(cache', size', Touching')
  BY DEF Quiet, CacheInv, Touching
<1>2. ColdIsColdHotIsHot'
  BY DEF Quiet, ColdIsColdHotIsHot
<1>3. /\ cache' \in Seq(Int) /\ cache_words' \in Nat /\ hot' \in Nat /\ pc' # "Cold" /\ pc' # "Hot"
      /\ arena_pos' % size' = 0 /\ (mem' # NoMem => mem' % size' = 0)
  BY DEF Quiet, CacheInv
<1> QED
  BY <1>0, <1>1, <1>2, <1>3 DEF CacheInv, NoMem

\* The arena is touched from its beginning to its end.
LEMMA BeginKeepsCache ==
  ASSUME CacheInv, size \in Nat \ {0}, BeginExperiment
  PROVE  CacheInv'
<1>1. /\ cache' = Used(Swept(0, ARENA_SIZE))
      /\ arena_pos' = 0 /\ mem' = NoMem /\ size' = size /\ cache_words' = cache_words
      /\ hot' = hot /\ pc' = "Loop"
  BY DEF BeginExperiment, ResetArena, Goto, options
<1>2. cache' \in Seq(Int) /\ Ordered(cache', size, 0)
  BY <1>1, ResetOrders DEF CacheInv
<1>3. 0 % size = 0
  <2>1. 0 = 0 * size /\ 0 \in Nat
    OBVIOUS
  <2>2. 0 % size = 0 <=> \E q \in Nat : 0 = q * size
    BY <2>1, Divides
  <2> QED
    BY <2>1, <2>2
<1>4. Ordered(cache', size', Touching')
  BY <1>1, <1>2 DEF Touching
<1> QED
  BY <1>1, <1>2, <1>3, <1>4 DEF CacheInv, HasMem, ColdIsColdHotIsHot, NoMem

\* A working set begins where the one before it ended, or the arena is full
\* up to its last working set and begins anew.
LEMMA TakeKeepsCache ==
  ASSUME CacheInv, ArenaInv, TakeMem
  PROVE  CacheInv'
<1>1. /\ mem' = (IF MustWrap THEN 0 ELSE arena_pos) /\ arena_pos' = mem' + size
      /\ cache' = cache /\ size' = size /\ cache_words' = cache_words
      /\ hot' = 0 /\ pc = "Allocate" /\ pc' = "Cold" /\ ~TooLarge
      /\ size \in Sizes
  BY DEF TakeMem, Allocate, Goto, options, ArenaInv, ArenaTypeOK
<1>2. size \in Nat \ {0} /\ arena_pos \in 0 .. ARENA_SIZE /\ ARENA_SIZE \in Nat
  BY ArenaAssumption DEF ArenaInv, ArenaTypeOK
<1>3. size * 2 <= ARENA_SIZE
  BY <1>1, <1>2, TooLargeIs
<1>4. Ordered(cache, size, arena_pos) /\ arena_pos % size = 0
  BY <1>1 DEF CacheInv, Finished, Touching
<1>5. mem' \in Nat /\ mem' % size = 0 /\ Ordered(cache, size, mem')
  <2>1. CASE MustWrap
    <3>1. arena_pos = End(size)
      <4>1. arena_pos + size > ARENA_SIZE /\ arena_pos \in Nat /\ arena_pos <= ARENA_SIZE
        BY <1>2, <2>1 DEF MustWrap
      <4> QED
        BY <1>2, <1>3, <1>4, <4>1, EndIs
    <3>2. Ordered(cache, size, 0)
      BY <1>2, <1>3, <1>4, <3>1, WrapKeepsOrder
    <3>3. 0 % size = 0
      <4>1. 0 = 0 * size /\ 0 \in Nat
        BY <1>2
      <4>2. 0 % size = 0 <=> \E q \in Nat : 0 = q * size
        BY <1>2, <4>1, Divides
      <4> QED
        BY <4>1, <4>2
    <3> QED
      BY <1>1, <2>1, <3>2, <3>3
  <2>2. CASE ~MustWrap
    BY <1>1, <1>2, <1>4, <2>2
  <2> QED
    BY <2>1, <2>2
<1>6. arena_pos' % size = 0
  BY <1>1, <1>2, <1>5, Multiples
<1>7. mem' # NoMem
  BY <1>5 DEF NoMem
<1>8. Ordered(cache', size', Touching')
  BY <1>1, <1>5 DEF Touching
<1> QED
  BY <1>1, <1>5, <1>6, <1>7, <1>8 DEF CacheInv, ColdIsColdHotIsHot, NoMem

\* How many words miss in a timed access follows from the order of the words
\* in the cache before it.
LEMMA TimedKeepsCache ==
  ASSUME CacheInv, ArenaInv, TimeCold \/ TimeHot \/ TimeResume
  PROVE  CacheInv'
<1>1. /\ cache' = Touched
      /\ missed' = Cardinality({w \in mem .. mem + size - 1 : ~Hits(cache, cache_words, mem .. w - 1, w)})
      /\ mem' = mem /\ arena_pos' = arena_pos /\ size' = size /\ cache_words' = cache_words
  BY DEF TimeCold, TimeHot, TimeResume, TimedAccess, options, arenavars
<1>2. /\ TimeCold => pc = "Cold" /\ pc' = "Hot" /\ hot' = hot
      /\ TimeHot => pc = "Hot" /\ pc' = "Hot" /\ hot' = hot + 1
      /\ TimeResume => pc = "Resume" /\ pc' = "Print" /\ hot' = hot
  BY DEF TimeCold, TimeHot, TimeResume, Goto
<1>3. /\ size \in Nat \ {0} /\ mem \in Nat /\ arena_pos = mem + size /\ Block(mem, size)
      /\ ARENA_SIZE \in Nat
  <2>1. mem # NoMem /\ mem % size = 0
    BY <1>2 DEF CacheInv, HasMem
  <2>2. size \in Nat \ {0} /\ ARENA_SIZE \in Nat /\ mem \in Nat
    BY <2>1, ArenaAssumption DEF ArenaInv, ArenaTypeOK, NoMem
  <2>3. arena_pos = mem + size /\ size * 2 <= ARENA_SIZE /\ arena_pos <= ARENA_SIZE
    BY <2>1, <2>2, ArenaAssumption DEF ArenaInv, Placed, ArenaTypeOK
  <2> QED
    BY <2>1, <2>2, <2>3 DEF Block
<1>4. /\ cache \in Seq(Int) /\ cache_words \in Nat /\ hot \in Nat
      /\ Touching \in {mem, mem + size} /\ Ordered(cache, size, Touching)
  BY <1>2, <1>3 DEF CacheInv, Touching, Finished
<1>5. /\ Touched \in Seq(Int)
      /\ Ordered(Touched, size, mem + size)
      /\ size <= cache_words => OnTopIs(Touched, mem, size)
  BY <1>3, <1>4, TouchKeepsOrder
<1>6. Ordered(cache', size', Touching')
  BY <1>1, <1>2, <1>3, <1>5 DEF Touching
<1> DEFINE W == mem .. mem + size - 1
           M == {w \in W : ~Hits(cache, cache_words, mem .. w - 1, w)}
<1>7. IsFiniteSet(W) /\ Cardinality(W) = size
  <2>1. mem \in Int /\ mem + size - 1 \in Int
    BY <1>3
  <2>2. IsFiniteSet(W) /\ Cardinality(W) = IF mem > mem + size - 1 THEN 0 ELSE (mem + size - 1) - mem + 1
    BY <2>1, FS_Interval
  <2> QED
    BY <1>3, <2>2
<1>8. IsFiniteSet(M) /\ Cardinality(M) \in Nat
  <2>1. M \in SUBSET W
    OBVIOUS
  <2> HIDE DEF M, W
  <2> QED
    BY <1>7, <2>1, FS_Subset, FS_CardinalityType
<1>9. ASSUME TimeCold
      PROVE  /\ ARENA_SIZE >= 3 * cache_words => missed' = size
             /\ 2 * ARENA_SIZE >= 3 * cache_words => missed' >= size - 1
  <2>1. Ordered(cache, size, mem)
    BY <1>2, <1>4, <1>9 DEF Touching
  <2>2. /\ 2 * ARENA_SIZE >= 3 * cache_words => \A w \in mem + 1 .. mem + size - 1 : ~Hits(cache, cache_words, mem .. w - 1, w)
        /\ ARENA_SIZE >= 3 * cache_words => ~Hits(cache, cache_words, mem .. mem - 1, mem)
    BY <1>3, <1>4, <2>1, ColdMisses
  <2>3. ASSUME ARENA_SIZE >= 3 * cache_words PROVE missed' = size
    <3>1. 2 * ARENA_SIZE >= 3 * cache_words
      BY <1>3, <1>4, <2>3
    <3>2. \A w \in W : w = mem \/ w \in mem + 1 .. mem + size - 1
      BY <1>3
    <3>3. \A w \in W : ~Hits(cache, cache_words, mem .. w - 1, w)
      BY <2>2, <2>3, <3>1, <3>2
    <3>4. M = W
      BY <3>3
    <3> QED
      BY <1>1, <1>7, <3>4
  <2>4. ASSUME 2 * ARENA_SIZE >= 3 * cache_words PROVE missed' >= size - 1
    <3> DEFINE V == mem + 1 .. mem + size - 1
    <3>1. V \in SUBSET M
      <4>1. \A w \in V : w \in W /\ ~Hits(cache, cache_words, mem .. w - 1, w)
        BY <1>3, <2>2, <2>4
      <4> QED
        BY <4>1
    <3>2. Cardinality(V) = size - 1
      <4>1. mem + 1 \in Int /\ mem + size - 1 \in Int
        BY <1>3
      <4>2. Cardinality(V) = IF mem + 1 > mem + size - 1 THEN 0 ELSE (mem + size - 1) - (mem + 1) + 1
        BY <4>1, FS_Interval
      <4> QED
        BY <1>3, <4>2
    <3> HIDE DEF V, M
    <3>3. Cardinality(V) <= Cardinality(M)
      BY <1>8, <3>1, FS_Subset
    <3>4. missed' = Cardinality(M)
      BY <1>1 DEF M
    <3> QED
      BY <1>3, <1>8, <3>2, <3>3, <3>4
  <2> QED
    BY <2>3, <2>4
<1>10. ASSUME TimeHot, size <= cache_words PROVE missed' = 0
  <2>1. OnTopIs(cache, mem, size)
    BY <1>2, <1>10 DEF CacheInv
  <2>2. \A w \in W : Hits(cache, cache_words, mem .. w - 1, w)
    BY <1>3, <1>4, <1>10, <2>1, HotHits
  <2>3. M = {}
    BY <2>2
  <2> QED
    BY <1>1, <2>3, FS_EmptySet
<1>11. ColdIsColdHotIsHot'
  <2>1. CASE TimeCold
    <3>1. hot' = 0 /\ pc' = "Hot"
      BY <1>2, <2>1 DEF CacheInv
    <3> QED
      BY <1>1, <1>9, <2>1, <3>1 DEF ColdIsColdHotIsHot
  <2>2. CASE TimeHot
    <3>1. hot' # 0 /\ pc' = "Hot"
      BY <1>2, <1>4, <2>2
    <3> QED
      BY <1>1, <1>10, <2>2, <3>1 DEF ColdIsColdHotIsHot
  <2>3. CASE TimeResume
    BY <1>2, <2>3 DEF ColdIsColdHotIsHot
  <2> QED
    BY <2>1, <2>2, <2>3
<1>12. /\ cache' \in Seq(Int) /\ cache_words' \in Nat /\ hot' \in Nat /\ pc' # "Cold"
       /\ mem' # NoMem /\ mem' % size' = 0 /\ arena_pos' % size' = 0
  BY <1>1, <1>2, <1>3, <1>4, <1>5 DEF NoMem, Block, CacheInv
<1>13. size' <= cache_words' => OnTopIs(cache', mem', size')
  BY <1>1, <1>5
<1> QED
  BY <1>6, <1>11, <1>12, <1>13 DEF CacheInv, NoMem

LEMMA CacheStep == CacheInv /\ ArenaInv /\ [Next]_vars => CacheInv'
<1> SUFFICES ASSUME CacheInv, ArenaInv, [Next]_vars PROVE CacheInv'
  OBVIOUS
<1> size \in Nat \ {0}
  BY ArenaAssumption DEF ArenaInv, ArenaTypeOK
<1> USE DEF Goto, Die, options, arenavars, roundvars, counters, timing, HasMem, Finished, Quiet
<1>1. CASE BeginExperiment
  BY <1>1, BeginKeepsCache
<1>2. CASE TakeMem
  BY <1>2, TakeKeepsCache
<1>3. CASE TimeCold \/ TimeHot \/ TimeResume
  BY <1>3, TimedKeepsCache
<1>4. CASE EndExperiment
  <2>1. Quiet
    BY <1>4 DEF EndExperiment
  <2> QED
    BY <2>1, QuietStep
<1>5. ASSUME NEW c, Draw(c) PROVE CacheInv'
  <2>1. Quiet
    BY <1>5 DEF Draw
  <2> QED
    BY <2>1, QuietStep
<1>6. CASE AllocateFails \/ MigrationFails \/ SleepFails \/ Alarm
  <2>1. Quiet
    BY <1>6 DEF AllocateFails, MigrationFails, SleepFails, Alarm
  <2> QED
    BY <2>1, QuietStep
<1>7. CASE StiBeforeMigration \/ Sleep
  <2>1. Quiet
    BY <1>7 DEF StiBeforeMigration, Sleep, SetNp
  <2> QED
    BY <2>1, QuietStep
<1>8. CASE Migrate \/ PrintRow \/ CountRound
  <2>1. Quiet
    BY <1>8 DEF Migrate, PrintRow, CountRound
  <2> QED
    BY <2>1, QuietStep
<1>9. CASE UNCHANGED vars \/ Returned
  <2>1. /\ UNCHANGED <<cache, size, cache_words, mem, arena_pos, hot, missed, pc>>
    BY <1>9 DEF vars, Returned
  <2> QED
    BY <2>1 DEF CacheInv, Touching, Ordered, OnTopIs, ColdIsColdHotIsHot, NoMem
<1> QED
  BY <1>1, <1>2, <1>3, <1>4, <1>5, <1>6, <1>7, <1>8, <1>9
     DEF Next, Round, DrawPreemption, DrawMigration

\* The cold access of a round misses every word of its working set, for every
\* working set, cache and arena at least three times the cache (all but
\* mem[0] from one and a half times on), and the hot ones of a working set
\* that fits the cache miss none.
THEOREM ColdAndHot == Spec => []ColdIsColdHotIsHot
<1>1. CacheInv => ColdIsColdHotIsHot
  BY DEF CacheInv
<1>2. Spec => ArenaSpec
  BY UsesTheArena
<1> QED
  BY <1>1, <1>2, ArenaInvariant, CacheInit, CacheStep, PTL DEF Spec
=============================================================================

--------------------------- MODULE PipelineProofs ---------------------------
(***************************************************************************)
(* Proofs about the way of a data point.  get_valid_ovd() reports exactly  *)
(* the overheads it documents, on every well-formed trace file, of any     *)
(* length and with any number of hot accesses per job.  The overheads at   *)
(* the end of the pipeline are the delays measured at its beginning, and   *)
(* these are what the caches make of a preemption.  And the statistics     *)
(* printed of the accesses are those of all values but the last.           *)
(***************************************************************************)
EXTENDS PmPipeline, CommonLemmas

-----------------------------------------------------------------------------
(* Type correctness and the memory.                                        *)

LEMMA CurrentType ==
  ASSUME TypeOK, Scanning
  PROVE  /\ Current \in Sample
         /\ i + 1 \in 1 .. num_samples
         /\ Current = samples[i + 1]
         /\ num_samples \in Nat
  <1>1. num_samples \in Nat /\ i + 1 \in 1 .. num_samples
    BY DEF TypeOK, Scanning, num_samples
  <1>2. samples[i + 1] \in Sample
    BY <1>1, ElementOfSeq DEF TypeOK, num_samples
  <1> QED
    BY <1>1, <1>2 DEF Current

\* What one hot access does to the counters of its job.
LEMMA CountType ==
  ASSUME TypeOK, Scanning
  PROVE  /\ CountHotRead.valid \in {valid_hot_reads, valid_hot_reads + 1}
         /\ CountHotRead.cost \in Times
         /\ CountHotRead.clean \in BOOLEAN
  <1>1. Current.access_time \in Times /\ hot_cost \in Times /\ valid_hot_reads \in Nat
    BY CurrentType, ScanAssumption DEF TypeOK, Sample
  <1> QED
    BY <1>1 DEF CountHotRead, Update, Smaller

\* Nothing has been scanned yet, ...
Waiting ==
  /\ pc = "Read" /\ live = {} /\ i = 0
  /\ total_hot_reads = 0 /\ valid_hot_reads = 0 /\ no_invalid_reads = TRUE
  /\ valid_hot_cost = FALSE
  /\ l_cpu = 0 /\ full_costs = <<>> /\ source = <<>> /\ result = Pending

\* ... whatever is to be scanned.
ScanStarts ==
  /\ samples \in Seq(Sample)
  /\ hot_cost \in IF samples = <<>> THEN Times ELSE {samples[1].access_time}
  /\ Waiting

LEMMA AnyTraceStarts == Init => ScanStarts
  BY ScanAssumption DEF Init, ScanStarts, Waiting

LEMMA TypeInit == ScanStarts => TypeOK
  <1> SUFFICES ASSUME ScanStarts PROVE TypeOK
    OBVIOUS
  <1> USE DEF Waiting
  <1>1. samples \in Seq(Sample)
    BY DEF ScanStarts
  <1>2. num_samples \in Nat /\ i \in 0 .. num_samples
    BY <1>1 DEF ScanStarts, num_samples
  <1>3. hot_cost \in Times
    <2>1. CASE samples = <<>>
      BY <2>1 DEF ScanStarts
    <2>2. CASE samples # <<>>
      <3>1. 1 \in 1 .. Len(samples)
        BY <1>1, <2>2, EmptySeq
      <3>2. samples[1] \in Sample
        BY <1>1, <3>1, ElementOfSeq
      <3> QED
        BY <2>2, <3>2 DEF ScanStarts, Sample
    <2> QED
      BY <2>1, <2>2
  <1>4. total_hot_reads \in 0 .. NUMHOTREADS - 1 /\ valid_hot_reads \in 0 .. total_hot_reads
    BY ScanAssumption DEF ScanStarts
  <1>5. full_costs \in Seq(FullOvd) /\ source \in Seq(1 .. num_samples)
        /\ Len(full_costs) = Len(source) /\ Len(full_costs) <= i
    BY <1>2, EmptySeq DEF ScanStarts
  <1> QED
    BY <1>1, <1>2, <1>3, <1>4, <1>5, ScanAssumption DEF ScanStarts, TypeOK

LEMMA TypeStep == TypeOK /\ [Next]_vars => TypeOK'
  <1> SUFFICES ASSUME TypeOK, [Next]_vars PROVE TypeOK'
    OBVIOUS
  <1>0. num_samples \in Nat /\ (UNCHANGED samples => num_samples' = num_samples)
    BY DEF TypeOK, num_samples
  <1>1. CASE Allocation
    <2>1. /\ UNCHANGED <<samples, i, hotvars, l_cpu, outvars>>
          /\ pc' \in {"AllocCosts", "AllocC", "AllocH", "AllocP", "Scan", "Done"}
          /\ live' \subseteq Arrays
          /\ result' \in {result, -1}
      BY <1>1 DEF Allocation, ReadSamples, AllocCosts, AllocC, AllocH, AllocP, Allocate,
                  Arrays, TypeOK
    <2> QED
      BY <1>0, <2>1 DEF TypeOK, hotvars, outvars
  <1>2. CASE HotRead
    <2>0. Scanning /\ AdvanceScan /\ UNCHANGED <<samples, pc, live, result, full_costs, source>>
      BY <1>2 DEF HotRead, AdvanceScan, outvars
    <2>1. i' \in 0 .. num_samples /\ i <= i'
      BY <1>0, <2>0 DEF Scanning, AdvanceScan, TypeOK
    <2>2. /\ total_hot_reads' \in 0 .. NUMHOTREADS - 1
          /\ valid_hot_reads' \in 0 .. total_hot_reads'
          /\ no_invalid_reads' \in BOOLEAN /\ valid_hot_cost' \in BOOLEAN
          /\ hot_cost' \in Times
      <3>1. CASE LastOfJob
        BY <1>2, <2>0, <3>1, CountType, ScanAssumption DEF HotRead, ResetFlags, TypeOK
      <3>2. CASE ~LastOfJob
        BY <1>2, <2>0, <3>2, CountType, ScanAssumption DEF HotRead, LastOfJob, TypeOK
      <3> QED
        BY <3>1, <3>2
    <2>3. l_cpu' \in Cpus
      BY <1>2, <2>0, CurrentType DEF HotRead, Sample
    <2> QED
      BY <1>0, <2>0, <2>1, <2>2, <2>3 DEF TypeOK
  <1>3. CASE ValidPreemption
    <2>0. Scanning /\ AdvanceScan /\ UNCHANGED <<samples, pc, live, result, hotvars>>
      BY <1>3 DEF ValidPreemption, AdvanceScan
    <2>1. i' \in 0 .. num_samples /\ i' = i + 1
      BY <1>0, <2>0 DEF Scanning, AdvanceScan, TypeOK
    <2>2. l_cpu' \in Cpus
      BY <1>3, <2>0, CurrentType DEF ValidPreemption, Sample
    <2>3. Overhead \in FullOvd
      <3>1. /\ Current.cpu \in Cpus /\ Current.access_time \in Nat
            /\ Current.preemption_length \in Nat
        BY <2>0, CurrentType, ScanAssumption DEF Sample
      <3>2. l_cpu \in Cpus /\ hot_cost \in Nat
        BY ScanAssumption DEF TypeOK
      <3> QED
        BY <3>1, <3>2 DEF Overhead, FullOvd
    <2>4. /\ full_costs' \in Seq(FullOvd) /\ Len(full_costs') = Len(full_costs) + 1
          /\ source' \in Seq(1 .. num_samples) /\ Len(source') = Len(source) + 1
      BY <1>3, <2>0, <2>3, CurrentType DEF ValidPreemption, TypeOK
    <2> QED
      BY <1>0, <2>0, <2>1, <2>2, <2>4 DEF TypeOK, hotvars
  <1>4. CASE InvalidPreemption \/ ColdRead
    <2>0. Scanning /\ AdvanceScan /\ UNCHANGED <<samples, pc, live, result, hotvars, outvars>>
      BY <1>4 DEF InvalidPreemption, ColdRead, AdvanceScan
    <2>1. i' \in 0 .. num_samples /\ i <= i'
      BY <1>0, <2>0 DEF Scanning, AdvanceScan, TypeOK
    <2>2. l_cpu' \in Cpus
      BY <1>4, <2>0, CurrentType DEF InvalidPreemption, ColdRead, Sample, TypeOK
    <2> QED
      BY <1>0, <2>0, <2>1, <2>2 DEF TypeOK, hotvars, outvars
  <1>5. CASE Return
    <2>1. result' \in Nat /\ live' \subseteq Arrays /\ pc' = "Done"
          /\ UNCHANGED <<samples, i, hotvars, l_cpu, outvars>>
      BY <1>5 DEF Return, TypeOK
    <2> QED
      BY <1>0, <2>1 DEF TypeOK, hotvars, outvars
  <1>6. CASE UNCHANGED vars
    BY <1>0, <1>6 DEF vars, hotvars, outvars, TypeOK
  <1> QED
    BY <1>1, <1>2, <1>3, <1>4, <1>5, <1>6 DEF Next, Scan, Returned

\* The locals of get_valid_ovd() keep their types, the counters stay within
\* one job and the overheads within the memory allocated for them.
THEOREM TypeCorrect == Spec => []TypeOK
  BY AnyTraceStarts, TypeInit, TypeStep, PTL DEF Spec

\* What is allocated when, on the way to the scan.
LiveInv ==
  /\ pc = "Read" => live = {}
  /\ pc = "AllocCosts" => live = {"samples"}
  /\ pc = "AllocC" => live = {"samples", "full_costs"}
  /\ pc = "AllocH" => live = {"samples", "full_costs", "valid_c_samples"}
  /\ pc = "AllocP" => live = {"samples", "full_costs", "valid_c_samples", "valid_h_samples"}
  /\ pc = "Scan" => live = Arrays
  /\ NothingLeaks

LEMMA LiveInit == ScanStarts => LiveInv
  BY DEF ScanStarts, Waiting, LiveInv, NothingLeaks

LEMMA LiveStep == LiveInv /\ [Next]_vars => LiveInv'
  <1> SUFFICES ASSUME LiveInv, [Next]_vars PROVE LiveInv'
    OBVIOUS
  <1> USE DEF LiveInv, NothingLeaks, Arrays
  <1>1. CASE Allocation
    BY <1>1 DEF Allocation, ReadSamples, AllocCosts, AllocC, AllocH, AllocP, Allocate
  <1>2. CASE Scan
    BY <1>2 DEF Scan, HotRead, ValidPreemption, InvalidPreemption, ColdRead, AdvanceScan
  <1>3. CASE Return
    BY <1>3 DEF Return
  <1>4. CASE UNCHANGED vars
    BY <1>4 DEF vars
  <1> QED
    BY <1>1, <1>2, <1>3, <1>4 DEF Next, Returned

\* No path out of get_valid_ovd() leaves one of its temporary arrays
\* allocated (lines 272-311 and 425-431).
THEOREM NoArrayLeaks == Spec => []NothingLeaks
  <1>1. Init => LiveInv
    BY AnyTraceStarts, LiveInit
  <1>2. LiveInv => NothingLeaks
    BY DEF LiveInv
  <1> QED
    BY <1>1, <1>2, LiveStep, PTL DEF Spec

-----------------------------------------------------------------------------
(* Well-formed traces.  Where the next sample may stand relative to the    *)
(* cold access of the job the scan is in.                                  *)

BaselineUpTo(c, u, cost) ==
  /\ \E h \in c + 1 .. u : InValidPrefix(c, h) /\ samples[h].access_time = cost
  /\ \A h \in c + 1 .. u : InValidPrefix(c, h) => cost <= samples[h].access_time

\* The scan is between the hot accesses of the job of c.
Open(c) ==
  /\ total_hot_reads = i - c
  /\ no_invalid_reads <=> \A h \in c + 1 .. i : samples[h].access_type = "H"
  /\ valid_hot_reads > 0 <=> i > c /\ HasBaseline(c)
  /\ valid_hot_reads > 0 => BaselineUpTo(c, i, hot_cost)

\* It is past them.
Closed(c) ==
  /\ total_hot_reads = 0 /\ valid_hot_reads = 0 /\ no_invalid_reads
  /\ valid_hot_cost <=> HasBaseline(c)
  /\ HasBaseline(c) => IsBaseline(c, hot_cost)

JobInv ==
  /\ (\A c \in 1 .. i : ~IsCold(c)) \/ \E c \in 1 .. i : ColdOf(i, c)
  /\ \A c \in 1 .. i : ColdOf(i, c) => IF i - c < NUMHOTREADS THEN Open(c) ELSE Closed(c)
  /\ (\A c \in 1 .. i : ~IsCold(c)) =>
        total_hot_reads = 0 /\ valid_hot_reads = 0 /\ no_invalid_reads /\ ~valid_hot_cost
  /\ i > 0 /\ ~IsCold(i) => l_cpu = samples[i].cpu

\* Every sample of a trace has one of the three kinds of access.
LEMMA ThreeKinds ==
  ASSUME TypeOK, NEW k \in 1 .. num_samples
  PROVE  /\ IsCold(k) \/ IsHot(k) \/ IsPreemption(k)
         /\ ~(IsCold(k) /\ IsHot(k)) /\ ~(IsCold(k) /\ IsPreemption(k))
         /\ ~(IsHot(k) /\ IsPreemption(k))
         /\ samples[k].access_time \in Nat
         /\ samples[k].access_type = "H" => IsHot(k)
         /\ samples[k].access_type = "P" => IsPreemption(k)
  <1>1. samples[k] \in Sample
    BY ElementOfSeq DEF TypeOK, num_samples
  <1> QED
    BY <1>1, ScanAssumption DEF Sample, IsCold, IsHot, IsPreemption

\* A hot access belongs to the last cold one before it.
LEMMA HotInJob ==
  ASSUME TypeOK, WellFormed, NEW k \in 1 .. num_samples, IsHot(k)
  PROVE  \E c \in 1 .. k - 1 : ColdOf(k - 1, c) /\ k \in c + 1 .. c + NUMHOTREADS
  <1>1. PICK c \in 1 .. num_samples : IsCold(c) /\ k \in c + 1 .. c + NUMHOTREADS
    BY DEF WellFormed
  <1>2. num_samples \in Nat /\ c \in 1 .. k - 1
    BY <1>1, ScanAssumption DEF TypeOK, num_samples
  <1>3. ASSUME NEW m \in c + 1 .. k - 1
        PROVE  ~IsCold(m)
    <2>1. m \in c + 1 .. c + NUMHOTREADS /\ m \in 1 .. num_samples
      BY <1>1, <1>2, ScanAssumption
    <2>2. IsHot(m)
      BY <1>1, <2>1 DEF WellFormed
    <2> QED
      BY <2>1, <2>2, ThreeKinds
  <1> QED
    BY <1>1, <1>2, <1>3 DEF ColdOf

\* Past the cold access c of its job, a sample that is not hot comes after
\* all the hot accesses of the job.
LEMMA NotHotAfterJob ==
  ASSUME TypeOK, WellFormed, NEW k \in 1 .. num_samples, ~IsHot(k),
         NEW c \in 1 .. k - 1, ColdOf(k - 1, c)
  PROVE  k - 1 - c >= NUMHOTREADS
  <1>1. num_samples \in Nat /\ NUMHOTREADS \in Nat \ {0}
    BY ScanAssumption DEF TypeOK, num_samples
  <1>2. IsCold(c) /\ c \in 1 .. num_samples
    BY <1>1 DEF ColdOf
  <1>3. k \notin c + 1 .. c + NUMHOTREADS
    BY <1>2 DEF WellFormed
  <1> QED
    BY <1>1, <1>3

\* The job of a sample is its own if it is cold, else that of the one before.
LEMMA ColdOfNext ==
  ASSUME NEW k \in Nat, NEW c \in 1 .. k + 1
  PROVE  ColdOf(k + 1, c) <=> (IsCold(k + 1) /\ c = k + 1) \/ (~IsCold(k + 1) /\ ColdOf(k, c))
  <1>1. CASE c = k + 1
    <2>1. c \notin 1 .. k /\ \A m : m \notin c + 1 .. k + 1
      BY <1>1
    <2>2. ~ColdOf(k, c)
      BY <2>1 DEF ColdOf
    <2>3. ColdOf(k + 1, c) <=> IsCold(c)
      BY <2>1 DEF ColdOf
    <2> QED
      BY <1>1, <2>2, <2>3
  <1>2. CASE c # k + 1
    <2>1. c \in 1 .. k /\ k + 1 \in c + 1 .. k + 1
      BY <1>2
    <2>2. \A m \in c + 1 .. k + 1 : m \in c + 1 .. k \/ m = k + 1
      BY <2>1
    <2>3. \A m \in c + 1 .. k : m \in c + 1 .. k + 1
      BY <2>1
    <2> QED
      BY <1>2, <2>1, <2>2, <2>3 DEF ColdOf
  <1> QED
    BY <1>1, <1>2

\* One hot access of an open job.
LEMMA CountInJob ==
  ASSUME TypeOK, Scanning, Current.access_type \in {"H", "h"},
         NEW c \in 1 .. i, Open(c), i - c < NUMHOTREADS
  PROVE  /\ CountHotRead.clean <=> \A h \in c + 1 .. i + 1 : samples[h].access_type = "H"
         /\ CountHotRead.valid > 0 <=> HasBaseline(c)
         /\ CountHotRead.valid > 0 => BaselineUpTo(c, i + 1, CountHotRead.cost)
  <1>1. /\ i \in Nat /\ i + 1 \in c + 1 .. c + NUMHOTREADS
        /\ valid_hot_reads \in Nat /\ hot_cost \in Nat
        /\ no_invalid_reads \in BOOLEAN
        /\ samples[i + 1] = Current /\ Current.access_time \in Nat
    BY CurrentType, ThreeKinds, ScanAssumption DEF TypeOK, num_samples
  <1>2. ASSUME NEW h \in c + 1 .. i + 1 PROVE h \in c + 1 .. i \/ h = i + 1
    BY <1>1
  <1>3. CASE no_invalid_reads /\ Current.access_type = "H"
    <2>1. \A h \in c + 1 .. i + 1 : samples[h].access_type = "H"
      BY <1>1, <1>2, <1>3 DEF Open
    <2>2. \A h \in c + 1 .. i + 1 : InValidPrefix(c, h)
      <3> TAKE h \in c + 1 .. i + 1
      <3>1. h \in c + 1 .. c + NUMHOTREADS /\ \A m \in c + 1 .. h : m \in c + 1 .. i + 1
        BY <1>1, ScanAssumption
      <3> QED
        BY <2>1, <3>1 DEF InValidPrefix
    <2>3. HasBaseline(c)
      BY <1>1, <2>1 DEF HasBaseline
    <2>4. CountHotRead = Update(valid_hot_reads + 1, TRUE)
      BY <1>3 DEF CountHotRead
    <2>5. CASE valid_hot_reads = 0
      <3>1. i = c
        BY <1>1, <2>3, <2>5 DEF Open
      <3>2. CountHotRead.cost = samples[i + 1].access_time
        BY <1>1, <2>4, <2>5 DEF Update
      <3>3. BaselineUpTo(c, i + 1, CountHotRead.cost)
        BY <1>1, <1>2, <2>2, <3>1, <3>2 DEF BaselineUpTo
      <3> QED
        BY <1>1, <2>1, <2>3, <2>4, <2>5, <3>3 DEF Update
    <2>6. CASE valid_hot_reads > 0
      <3>1. BaselineUpTo(c, i, hot_cost)
        BY <2>6 DEF Open
      <3>2. CountHotRead.cost = Smaller(hot_cost, samples[i + 1].access_time)
        BY <1>1, <2>4, <2>6 DEF Update
      <3>3. \E h \in c + 1 .. i + 1 :
              InValidPrefix(c, h) /\ samples[h].access_time = CountHotRead.cost
        BY <1>1, <2>2, <3>1, <3>2 DEF BaselineUpTo, Smaller
      <3>4. \A h \in c + 1 .. i + 1 : CountHotRead.cost <= samples[h].access_time
        <4>1. \A h \in c + 1 .. i : samples[h].access_time \in Nat
          BY <1>1, ThreeKinds DEF Scanning, TypeOK, num_samples
        <4>2. \A h \in c + 1 .. i : hot_cost <= samples[h].access_time
          BY <1>1, <2>2, <3>1 DEF BaselineUpTo
        <4> QED
          BY <1>1, <1>2, <3>2, <4>1, <4>2 DEF Smaller
      <3>5. BaselineUpTo(c, i + 1, CountHotRead.cost)
        BY <3>3, <3>4 DEF BaselineUpTo
      <3> QED
        BY <1>1, <2>1, <2>3, <2>4, <2>6, <3>5 DEF Update
    <2> QED
      BY <1>1, <2>5, <2>6
  <1>4. CASE ~(no_invalid_reads /\ Current.access_type = "H")
    <2>1. ~ \A h \in c + 1 .. i + 1 : samples[h].access_type = "H"
      BY <1>1, <1>4 DEF Open
    <2>2. CountHotRead = Update(valid_hot_reads, FALSE)
      BY <1>4 DEF CountHotRead
    <2>3. /\ CountHotRead.valid = valid_hot_reads /\ CountHotRead.cost = hot_cost
          /\ CountHotRead.clean = FALSE
      BY <2>2 DEF Update
    <2>4. valid_hot_reads > 0 <=> HasBaseline(c)
      <3>1. CASE i > c
        BY <3>1 DEF Open
      <3>2. CASE i = c
        BY <1>1, <2>1, <3>2 DEF Open, HasBaseline
      <3> QED
        BY <1>1, <3>1, <3>2
    <2>5. ~InValidPrefix(c, i + 1)
      BY <2>1 DEF InValidPrefix
    <2>6. valid_hot_reads > 0 => BaselineUpTo(c, i + 1, hot_cost)
      BY <1>1, <1>2, <2>5 DEF Open, BaselineUpTo
    <2> QED
      BY <2>1, <2>3, <2>4, <2>6
  <1> QED
    BY <1>3, <1>4

-----------------------------------------------------------------------------
(* The scan keeps track of the job it is in.                               *)

\* samples never changes, and what is said of it neither.
LEMMA SamesSamples ==
  ASSUME samples' = samples
  PROVE  /\ num_samples' = num_samples
         /\ WellFormed' <=> WellFormed
         /\ \A k : IsCold(k)' <=> IsCold(k)
         /\ \A k, c : ColdOf(k, c)' <=> ColdOf(k, c)
         /\ \A c : HasBaseline(c)' <=> HasBaseline(c)
         /\ \A c, cost : IsBaseline(c, cost)' <=> IsBaseline(c, cost)
         /\ \A c, u, cost : BaselineUpTo(c, u, cost)' <=> BaselineUpTo(c, u, cost)
         /\ \A k : Reportable(k)' <=> Reportable(k)
  BY DEF num_samples, WellFormed, IsCold, IsHot, ColdOf, HasBaseline, IsBaseline,
         BaselineUpTo, InValidPrefix, Reportable

\* Whatever is consumed next, the scan is in a job again or in none.
LEMMA InSomeJob ==
  ASSUME TypeOK, JobInv, Scanning
  PROVE  (\A c \in 1 .. i + 1 : ~IsCold(c)) \/ \E c \in 1 .. i + 1 : ColdOf(i + 1, c)
  <1>1. i \in Nat
    BY DEF TypeOK
  <1>2. CASE IsCold(i + 1)
    <2>1. ColdOf(i + 1, i + 1)
      BY <1>1, <1>2, ColdOfNext
    <2> QED
      BY <1>1, <2>1
  <1>3. CASE ~IsCold(i + 1) /\ \E c \in 1 .. i : ColdOf(i, c)
    <2>1. PICK c \in 1 .. i : ColdOf(i, c)
      BY <1>3
    <2>2. c \in 1 .. i + 1
      BY <1>1
    <2>3. ColdOf(i + 1, c)
      BY <1>1, <1>3, <2>1, <2>2, ColdOfNext
    <2> QED
      BY <2>2, <2>3
  <1>4. CASE ~IsCold(i + 1) /\ \A c \in 1 .. i : ~IsCold(c)
    <2>1. \A c \in 1 .. i + 1 : c \in 1 .. i \/ c = i + 1
      BY <1>1
    <2> QED
      BY <1>4, <2>1
  <1> QED
    BY <1>2, <1>3, <1>4 DEF JobInv

LEMMA JobInit == ScanStarts => JobInv
  BY DEF ScanStarts, Waiting, JobInv

\* What a hot access makes of an open job.
LEMMA HotReadInJob ==
  ASSUME TypeOK, HotRead, NEW c \in 1 .. i, Open(c), i - c < NUMHOTREADS
  PROVE  IF (i + 1) - c < NUMHOTREADS THEN Open(c)' ELSE Closed(c)'
  <1>1. /\ Scanning /\ samples' = samples /\ i' = i + 1 /\ i \in Nat
        /\ Current = samples[i + 1] /\ NUMHOTREADS \in Nat \ {0}
        /\ Current.access_type \in {"H", "h"}
    BY CurrentType, ScanAssumption DEF HotRead, AdvanceScan, TypeOK
  <1>2. /\ CountHotRead.clean <=> \A h \in c + 1 .. i + 1 : samples[h].access_type = "H"
        /\ CountHotRead.valid > 0 <=> HasBaseline(c)
        /\ CountHotRead.valid > 0 => BaselineUpTo(c, i + 1, CountHotRead.cost)
    BY <1>1, CountInJob
  <1>3. CASE LastOfJob
    <2>1. (i + 1) - c = NUMHOTREADS
      BY <1>1, <1>3 DEF LastOfJob, Open
    <2>2. /\ total_hot_reads' = 0 /\ valid_hot_reads' = 0 /\ no_invalid_reads'
          /\ valid_hot_cost' = (CountHotRead.valid > 0) /\ hot_cost' = CountHotRead.cost
      BY <1>3 DEF HotRead, ResetFlags
    <2>3. HasBaseline(c) => IsBaseline(c, CountHotRead.cost)
      <3>1. i + 1 = c + NUMHOTREADS
        BY <1>1, <2>1
      <3> QED
        BY <1>2, <3>1 DEF BaselineUpTo, IsBaseline
    <2>4. Closed(c)'
      <3>1. HasBaseline(c)' <=> HasBaseline(c)
        BY <1>1, SamesSamples
      <3>2. IsBaseline(c, hot_cost)' <=> IsBaseline(c, hot_cost')
        BY <1>1 DEF IsBaseline, InValidPrefix
      <3> QED
        BY <1>2, <2>2, <2>3, <3>1, <3>2 DEF Closed
    <2> QED
      BY <1>1, <2>1, <2>4
  <1>4. CASE ~LastOfJob
    <2>1. (i + 1) - c < NUMHOTREADS
      BY <1>1, <1>4 DEF LastOfJob, Open
    <2>2. /\ total_hot_reads' = total_hot_reads + 1 /\ valid_hot_reads' = CountHotRead.valid
          /\ no_invalid_reads' = CountHotRead.clean /\ hot_cost' = CountHotRead.cost
      BY <1>4 DEF HotRead
    <2>3. Open(c)'
      <3>1. HasBaseline(c)' <=> HasBaseline(c)
        BY <1>1, SamesSamples
      <3>2. BaselineUpTo(c, i, hot_cost)' <=> BaselineUpTo(c, i + 1, hot_cost')
        BY <1>1 DEF BaselineUpTo, InValidPrefix
      <3>3. total_hot_reads' = i' - c /\ i' > c
        BY <1>1, <2>2 DEF Open
      <3> QED
        BY <1>1, <1>2, <2>2, <3>1, <3>2, <3>3 DEF Open
    <2> QED
      BY <2>1, <2>3
  <1> QED
    BY <1>3, <1>4

LEMMA HotReadKeepsJob ==
  ASSUME TypeOK, WellFormed, JobInv, HotRead
  PROVE  JobInv'
  <1>1. /\ Scanning /\ samples' = samples /\ i' = i + 1 /\ i \in Nat
        /\ Current = samples[i + 1] /\ i + 1 \in 1 .. num_samples /\ num_samples \in Nat
        /\ NUMHOTREADS \in Nat \ {0}
        /\ Current.access_type \in {"H", "h"} /\ IsHot(i + 1) /\ ~IsCold(i + 1)
    BY CurrentType, ThreeKinds, ScanAssumption
    DEF HotRead, AdvanceScan, TypeOK, IsHot, IsCold
  <1>2. PICK c \in 1 .. i : ColdOf(i, c) /\ i + 1 \in c + 1 .. c + NUMHOTREADS
    <2>1. i + 1 - 1 = i
      BY <1>1
    <2> QED
      BY <1>1, <2>1, HotInJob
  <1>3. Open(c) /\ i - c < NUMHOTREADS
    BY <1>1, <1>2 DEF JobInv
  <1>5. \A d \in 1 .. i + 1 : ColdOf(i + 1, d) => d = c
    <2> SUFFICES ASSUME NEW d \in 1 .. i + 1, ColdOf(i + 1, d) PROVE d = c
      OBVIOUS
    <2>1. ColdOf(i, d)
      BY <1>1, ColdOfNext
    <2>2. d \in 1 .. i /\ IsCold(d) /\ IsCold(c) /\ c \in 1 .. i
          /\ (\A m \in c + 1 .. i : ~IsCold(m)) /\ (\A m \in d + 1 .. i : ~IsCold(m))
      BY <1>2, <2>1 DEF ColdOf
    <2> QED
      BY <1>1, <2>2
  <1>6. IF (i + 1) - c < NUMHOTREADS THEN Open(c)' ELSE Closed(c)'
    BY <1>2, <1>3, HotReadInJob
  <1>7. l_cpu' = samples'[i'].cpu
    BY <1>1 DEF HotRead
  <1>8. ~ \A d \in 1 .. i + 1 : ~IsCold(d)
    BY <1>1, <1>2 DEF ColdOf
  <1>9. \E d \in 1 .. i + 1 : ColdOf(i + 1, d)
    BY <1>1, <1>8, InSomeJob
  <1> QED
    BY <1>1, <1>5, <1>6, <1>7, <1>8, <1>9, SamesSamples DEF JobInv, ColdOf

LEMMA ColdReadKeepsJob ==
  ASSUME TypeOK, WellFormed, JobInv, ColdRead
  PROVE  JobInv'
  <1>1. /\ Scanning /\ samples' = samples /\ i' = i + 1 /\ i \in Nat
        /\ i + 1 \in 1 .. num_samples /\ NUMHOTREADS \in Nat \ {0}
        /\ IsCold(i + 1) /\ ~IsHot(i + 1)
        /\ UNCHANGED <<total_hot_reads, valid_hot_reads, no_invalid_reads, valid_hot_cost,
                       hot_cost, l_cpu>>
    BY CurrentType, ThreeKinds, ScanAssumption
    DEF ColdRead, AdvanceScan, TypeOK, IsCold, hotvars
  <1>2. total_hot_reads = 0 /\ valid_hot_reads = 0 /\ no_invalid_reads
    <2>1. CASE \A c \in 1 .. i : ~IsCold(c)
      BY <2>1 DEF JobInv
    <2>2. CASE \E c \in 1 .. i : ColdOf(i, c)
      <3>1. PICK c \in 1 .. i : ColdOf(i, c)
        BY <2>2
      <3>2. i + 1 - 1 = i /\ c \in 1 .. (i + 1) - 1
        BY <1>1
      <3>3. i - c >= NUMHOTREADS
        BY <1>1, <3>1, <3>2, NotHotAfterJob
      <3>4. Closed(c)
        BY <1>1, <3>1, <3>3 DEF JobInv
      <3> QED
        BY <3>4 DEF Closed
    <2> QED
      BY <2>1, <2>2 DEF JobInv
  <1> PICK e : e = i + 1
    OBVIOUS
  <1>3. \A d \in 1 .. e : ColdOf(e, d) => d = e
    BY <1>1, ColdOfNext
  <1>4. Open(e)'
    <2>1. total_hot_reads' = i' - e /\ ~(i' > e)
      BY <1>1, <1>2
    <2>2. \A h : h \notin e + 1 .. i'
      BY <1>1
    <2>3. ~(valid_hot_reads' > 0) /\ no_invalid_reads'
      BY <1>1, <1>2
    <2> QED
      BY <2>1, <2>2, <2>3 DEF Open
  <1>5. IsCold(e)' /\ e \in 1 .. e
    BY <1>1, SamesSamples
  <1>6. \E d \in 1 .. e : ColdOf(e, d)
    BY <1>1, <1>5, ColdOfNext
  <1>7. i' - e < NUMHOTREADS
    BY <1>1
  <1> QED
    BY <1>1, <1>3, <1>4, <1>5, <1>6, <1>7, SamesSamples DEF JobInv

\* A sample after a preemption changes nothing but the cpu.
LEMMA PreemptionKeepsJob ==
  ASSUME TypeOK, WellFormed, JobInv, ValidPreemption \/ InvalidPreemption
  PROVE  JobInv'
  <1>1. /\ Scanning /\ samples' = samples /\ i' = i + 1 /\ i \in Nat
        /\ i + 1 \in 1 .. num_samples /\ NUMHOTREADS \in Nat \ {0}
        /\ ~IsCold(i + 1) /\ ~IsHot(i + 1)
        /\ UNCHANGED <<total_hot_reads, valid_hot_reads, no_invalid_reads, valid_hot_cost,
                       hot_cost>>
        /\ l_cpu' = samples[i + 1].cpu
    BY CurrentType, ThreeKinds, ScanAssumption
    DEF ValidPreemption, InvalidPreemption, AdvanceScan, TypeOK, IsPreemption, hotvars
  <1>2. ASSUME NEW d \in 1 .. i + 1, ColdOf(i + 1, d)
        PROVE  (i + 1) - d >= NUMHOTREADS /\ Closed(d)'
    <2>1. ColdOf(i, d)
      BY <1>1, <1>2, ColdOfNext
    <2>2. d \in 1 .. i
      BY <2>1 DEF ColdOf
    <2>3. i + 1 - 1 = i /\ d \in 1 .. (i + 1) - 1
      BY <1>1, <2>2
    <2>4. i - d >= NUMHOTREADS
      BY <1>1, <2>1, <2>3, NotHotAfterJob
    <2>5. Closed(d)
      BY <1>1, <2>1, <2>2, <2>4 DEF JobInv
    <2>6. Closed(d)'
      <3>1. HasBaseline(d)' <=> HasBaseline(d)
        BY <1>1, SamesSamples
      <3>2. IsBaseline(d, hot_cost)' <=> IsBaseline(d, hot_cost)
        BY <1>1 DEF IsBaseline, InValidPrefix
      <3> QED
        BY <1>1, <2>5, <3>1, <3>2 DEF Closed
    <2> QED
      BY <1>1, <2>2, <2>4, <2>6
  <1>3. ~((i + 1) - NUMHOTREADS > (i + 1) - NUMHOTREADS)
    BY <1>1
  <1>4. (\A d \in 1 .. i + 1 : ~IsCold(d)) \/ \E d \in 1 .. i + 1 : ColdOf(i + 1, d)
    BY <1>1, InSomeJob
  <1>5. (\A d \in 1 .. i + 1 : ~IsCold(d)) => (\A d \in 1 .. i : ~IsCold(d))
    BY <1>1
  <1>6. \A d \in 1 .. i + 1 :
          ColdOf(i + 1, d) => IF (i + 1) - d < NUMHOTREADS THEN Open(d)' ELSE Closed(d)'
    <2> TAKE d \in 1 .. i + 1
    <2>1. (i + 1) - d >= NUMHOTREADS => ~((i + 1) - d < NUMHOTREADS)
      BY <1>1
    <2> QED
      BY <1>2, <2>1
  <1> QED
    BY <1>1, <1>4, <1>5, <1>6, SamesSamples DEF JobInv

LEMMA JobStep == TypeOK /\ WellFormed /\ JobInv /\ [Next]_vars => JobInv'
  <1> SUFFICES ASSUME TypeOK, WellFormed, JobInv, [Next]_vars PROVE JobInv'
    OBVIOUS
  <1>1. CASE Scan
    BY <1>1, HotReadKeepsJob, ColdReadKeepsJob, PreemptionKeepsJob DEF Scan
  <1>2. CASE UNCHANGED <<samples, i, hotvars, l_cpu>>
    BY <1>2 DEF hotvars, JobInv, Open, Closed, IsCold, ColdOf, HasBaseline, IsBaseline,
                BaselineUpTo, InValidPrefix
  <1> QED
    BY <1>1, <1>2 DEF Next, Allocation, ReadSamples, AllocCosts, AllocC, AllocH, AllocP,
                      Allocate, Return, Returned, vars

-----------------------------------------------------------------------------
(* The output.                                                             *)

Right(k) ==
  LET s == source[k] IN
  /\ Reportable(s)
  /\ full_costs[k].curr_cpu = samples[s].cpu
  /\ full_costs[k].last_cpu = samples[s - 1].cpu
  /\ full_costs[k].plen = samples[s].preemption_length
  /\ \E c \in 1 .. s :
       ColdOf(s, c) /\ IsBaseline(c, samples[s].access_time - full_costs[k].ovd)

OutputInv ==
  /\ Len(source) \in Nat
  /\ \A k \in 1 .. Len(source) : source[k] <= i /\ Right(k)
  /\ \A k \in 1 .. Len(source) - 1 : source[k] < source[k + 1]
  /\ \A s \in 1 .. i : Reportable(s) => \E k \in 1 .. Len(source) : source[k] = s

\* In a job that has a baseline, and only there, the flag is set when a
\* preemption is met.
LEMMA FlagAtPreemption ==
  ASSUME TypeOK, WellFormed, JobInv, Scanning, IsPreemption(i + 1)
  PROVE  /\ \A c \in 1 .. i + 1 : ColdOf(i + 1, c) => c \in 1 .. i - 1 /\ Closed(c)
         /\ valid_hot_cost => \E c \in 1 .. i + 1 : ColdOf(i + 1, c)
  <1>1. /\ i \in Nat /\ i + 1 \in 1 .. num_samples /\ NUMHOTREADS \in Nat \ {0}
        /\ ~IsCold(i + 1) /\ ~IsHot(i + 1)
    BY CurrentType, ThreeKinds, ScanAssumption DEF TypeOK
  <1>2. ASSUME NEW c \in 1 .. i + 1, ColdOf(i + 1, c)
        PROVE  c \in 1 .. i - 1 /\ Closed(c)
    <2>1. ColdOf(i, c)
      BY <1>1, <1>2, ColdOfNext
    <2>2. c \in 1 .. i
      BY <2>1 DEF ColdOf
    <2>3. i + 1 - 1 = i /\ c \in 1 .. (i + 1) - 1
      BY <1>1, <2>2
    <2>4. i - c >= NUMHOTREADS
      BY <1>1, <2>1, <2>3, NotHotAfterJob
    <2> QED
      BY <1>1, <2>1, <2>2, <2>4 DEF JobInv
  <1>3. valid_hot_cost => \E c \in 1 .. i + 1 : ColdOf(i + 1, c)
    <2> SUFFICES ASSUME valid_hot_cost PROVE \E c \in 1 .. i + 1 : ColdOf(i + 1, c)
      OBVIOUS
    <2>1. ~ \A c \in 1 .. i : ~IsCold(c)
      BY DEF JobInv
    <2>2. ~ \A c \in 1 .. i + 1 : ~IsCold(c)
      BY <1>1, <2>1
    <2> QED
      BY <2>2, InSomeJob
  <1> QED
    BY <1>2, <1>3

LEMMA OutputInit == ScanStarts => OutputInv
  BY EmptySeq DEF ScanStarts, Waiting, OutputInv

LEMMA ReportKeepsOutput ==
  ASSUME TypeOK, WellFormed, JobInv, OutputInv, ValidPreemption
  PROVE  OutputInv'
  <1> PICK n : n = Len(source)
    OBVIOUS
  <1>1. /\ Scanning /\ samples' = samples /\ i' = i + 1 /\ i \in Nat
        /\ Current = samples[i + 1] /\ i + 1 \in 1 .. num_samples
        /\ samples[i + 1].access_type = "P" /\ valid_hot_cost
        /\ IsPreemption(i + 1) /\ samples[i + 1].access_time \in Nat /\ hot_cost \in Nat
    BY CurrentType, ThreeKinds, ScanAssumption
    DEF ValidPreemption, AdvanceScan, TypeOK, IsPreemption
  <1>2. PICK c \in 1 .. i + 1 : ColdOf(i + 1, c)
    BY <1>1, FlagAtPreemption
  <1>3. c \in 1 .. i - 1 /\ Closed(c) /\ IsCold(c) /\ ~IsCold(i)
    <2>1. c \in 1 .. i - 1 /\ Closed(c)
      BY <1>1, <1>2, FlagAtPreemption
    <2>2. i \in c + 1 .. i + 1
      BY <1>1, <2>1
    <2> QED
      BY <1>2, <2>1, <2>2 DEF ColdOf
  <1>4. /\ n \in Nat /\ Len(full_costs) = n
        /\ Len(source') = n + 1 /\ source'[n + 1] = i + 1 /\ full_costs'[n + 1] = Overhead
        /\ \A k \in 1 .. n : source'[k] = source[k] /\ full_costs'[k] = full_costs[k]
    BY <1>1, LenProperties DEF ValidPreemption, TypeOK
  <1>5. Right(n + 1)'
    <2>1. Reportable(i + 1)
      BY <1>1, <1>2, <1>3 DEF Reportable, Closed
    <2>2. l_cpu = samples[i].cpu /\ (i + 1) - 1 = i
      BY <1>1, <1>3 DEF JobInv
    <2>3. IsBaseline(c, hot_cost) /\ samples[i + 1].access_time - Overhead.ovd = hot_cost
      BY <1>1, <1>3 DEF Closed, Overhead
    <2>4. /\ Overhead.curr_cpu = samples[i + 1].cpu /\ Overhead.last_cpu = samples[i].cpu
          /\ Overhead.plen = samples[i + 1].preemption_length
      BY <1>1, <2>2 DEF Overhead
    <2>5. source'[n + 1] = i + 1 /\ full_costs'[n + 1] = Overhead
      BY <1>4
    <2> QED
      BY <1>1, <1>2, <2>1, <2>2, <2>3, <2>4, <2>5, SamesSamples DEF Right
  <1>6. ASSUME NEW k \in 1 .. n PROVE Right(k)'
    BY <1>1, <1>4, <1>6, SamesSamples DEF Right, OutputInv
  <1>7. ASSUME NEW k \in 1 .. Len(source') PROVE source'[k] <= i' /\ Right(k)'
    <2>1. CASE k = n + 1
      BY <1>1, <1>4, <1>5, <2>1
    <2>2. CASE k # n + 1
      <3>1. k \in 1 .. n
        BY <1>4, <2>2
      <3>2. source[k] <= i /\ source[k] \in Nat
        BY <3>1, <1>4, ElementOfSeq DEF OutputInv, TypeOK, num_samples
      <3> QED
        BY <1>1, <1>4, <1>6, <3>1, <3>2
    <2> QED
      BY <2>1, <2>2
  <1>8. ASSUME NEW k \in 1 .. Len(source') - 1 PROVE source'[k] < source'[k + 1]
    <2>1. k \in 1 .. n
      BY <1>4
    <2>2. CASE k = n
      <3>1. source[n] <= i /\ source[n] \in Nat
        BY <2>1, <2>2, ElementOfSeq DEF OutputInv, TypeOK, num_samples
      <3> QED
        BY <1>1, <1>4, <2>1, <2>2, <3>1
    <2>3. CASE k # n
      <3>1. k \in 1 .. n - 1 /\ k + 1 \in 1 .. n
        BY <1>4, <2>1, <2>3
      <3> QED
        BY <1>4, <2>1, <3>1 DEF OutputInv
    <2> QED
      BY <2>2, <2>3
  <1>9. ASSUME NEW s \in 1 .. i', Reportable(s)
        PROVE  \E k \in 1 .. Len(source') : source'[k] = s
    <2>1. CASE s = i + 1
      BY <1>4, <2>1
    <2>2. CASE s # i + 1
      <3>1. s \in 1 .. i
        BY <1>1, <2>2
      <3>2. PICK k \in 1 .. n : source[k] = s
        BY <1>9, <3>1 DEF OutputInv
      <3> QED
        BY <1>4, <3>2
    <2> QED
      BY <2>1, <2>2
  <1> QED
    BY <1>1, <1>4, <1>7, <1>8, <1>9, SamesSamples DEF OutputInv

\* A sample that is not reported was not to be.
LEMMA SkipKeepsOutput ==
  ASSUME TypeOK, WellFormed, JobInv, OutputInv, HotRead \/ InvalidPreemption \/ ColdRead
  PROVE  OutputInv'
  <1>1. /\ Scanning /\ samples' = samples /\ i' = i + 1 /\ i \in Nat
        /\ Current = samples[i + 1] /\ i + 1 \in 1 .. num_samples
        /\ UNCHANGED <<full_costs, source>>
    BY CurrentType
    DEF HotRead, InvalidPreemption, ColdRead, AdvanceScan, TypeOK, outvars
  <1>2. ~Reportable(i + 1)
    <2> SUFFICES ASSUME Reportable(i + 1) PROVE FALSE
      OBVIOUS
    <2>1. samples[i + 1].access_type = "P" /\ IsPreemption(i + 1) /\ ~valid_hot_cost
      BY <1>1 DEF Reportable, IsPreemption, HotRead, InvalidPreemption, ColdRead
    <2>2. PICK c \in 1 .. i + 1 : ColdOf(i + 1, c) /\ HasBaseline(c)
      BY DEF Reportable
    <2>3. Closed(c)
      BY <1>1, <2>1, <2>2, FlagAtPreemption
    <2> QED
      BY <2>1, <2>2, <2>3 DEF Closed
  <1>3. \A k \in 1 .. Len(source) : source[k] <= i => source[k] <= i'
    BY <1>1, ElementOfSeq DEF TypeOK, num_samples
  <1>4. \A s \in 1 .. i' : s \in 1 .. i \/ s = i + 1
    BY <1>1
  <1>5. \A k : Right(k)' <=> Right(k)
    BY <1>1, SamesSamples DEF Right
  <1> QED
    BY <1>1, <1>2, <1>3, <1>4, <1>5, SamesSamples DEF OutputInv

LEMMA OutputStep == TypeOK /\ WellFormed /\ JobInv /\ OutputInv /\ [Next]_vars => OutputInv'
  <1> SUFFICES ASSUME TypeOK, WellFormed, JobInv, OutputInv, [Next]_vars PROVE OutputInv'
    OBVIOUS
  <1>1. CASE Scan
    BY <1>1, ReportKeepsOutput, SkipKeepsOutput DEF Scan
  <1>2. CASE UNCHANGED <<samples, i, full_costs, source>>
    <2>1. \A k : Right(k)' <=> Right(k)
      BY <1>2, SamesSamples DEF Right
    <2> QED
      BY <1>2, <2>1, SamesSamples DEF OutputInv
  <1> QED
    BY <1>1, <1>2 DEF Next, Allocation, ReadSamples, AllocCosts, AllocC, AllocH, AllocP,
                      Allocate, Return, Returned, vars, outvars

ScanInv == WellFormed => JobInv /\ OutputInv

LEMMA ScanInit == ScanStarts => ScanInv
  BY JobInit, OutputInit DEF ScanInv

LEMMA SamplesStay == [Next]_vars => samples' = samples
  BY DEF Next, Scan, HotRead, ValidPreemption, InvalidPreemption, ColdRead, AdvanceScan,
         Allocation, ReadSamples, AllocCosts, AllocC, AllocH, AllocP, Allocate,
         Return, Returned, vars

LEMMA ScanStep == TypeOK /\ ScanInv /\ [Next]_vars => ScanInv'
  <1> SUFFICES ASSUME TypeOK, ScanInv, [Next]_vars, WellFormed' PROVE JobInv' /\ OutputInv'
    BY DEF ScanInv
  <1>1. WellFormed
    BY SamplesStay, SamesSamples
  <1> QED
    BY <1>1, JobStep, OutputStep DEF ScanInv

LEMMA ScanAlways == Spec => []ScanInv
  BY TypeCorrect, AnyTraceStarts, ScanInit, ScanStep, PTL DEF Spec

\* Every overhead reported is a valid access after a preemption less the
\* baseline of its own job (lines 337-403), on every well-formed trace.
THEOREM ReportedRight == Spec => []ReportedAreRight
  <1>1. ScanInv => ReportedAreRight
    BY DEF ScanInv, OutputInv, Right, ReportedAreRight
  <1> QED
    BY ScanAlways, <1>1, PTL

\* And every such access is reported, once and in order.
THEOREM AllReported == Spec => []AllAreReported
  <1>1. ScanInv => AllAreReported
    BY DEF ScanInv, OutputInv, AllAreReported
  <1> QED
    BY ScanAlways, <1>1, PTL

FP == INSTANCE TraceFileProofs WITH
        CELLS <- 1, Sizes <- 0 .. DATAPOINTS, samples <- buffer

-----------------------------------------------------------------------------
(* The trace file of the pipeline is one of TraceFile, so what is proved   *)
(* there holds of it.                                                      *)

LEMMA FileConstants == FP!FileAssumption
  BY PipelineAssumption DEF FP!FileAssumption

LEMMA FileStarts == F!Init => FP!Init
  BY DEF F!Init, FP!Init

LEMMA WritersAct == F!Writer => FP!Writer
  BY DEF F!Writer, FP!Writer, F!Serialize, FP!Serialize, F!OpenFails, FP!OpenFails,
         F!OpenFile, FP!OpenFile, F!WriteBlock, FP!WriteBlock, F!WriteRest, FP!WriteRest,
         F!WriteFails, FP!WriteFails, F!Killed, FP!Killed, F!Leave, FP!Leave,
         F!Written, FP!Written, F!Block, FP!Block, F!Advance, FP!Advance, F!rvars, FP!rvars

LEMMA ReadersAct == F!OpenAndSize \/ F!ReadBlock \/ F!EndOfFile => FP!Reader
  BY DEF FP!Reader, F!OpenAndSize, FP!OpenAndSize, F!ReadBlock, FP!ReadBlock, F!EndOfFile,
         FP!EndOfFile, F!BytesRead, FP!BytesRead, F!WholePoints, FP!WholePoints,
         F!wvars, FP!wvars, F!NumSamples, FP!NumSamples, F!FileSize, FP!FileSize

LEMMA FileSteps == [PipelineNext]_pipevars => [FP!Next]_(FP!vars)
  <1> SUFFICES ASSUME [PipelineNext]_pipevars PROVE FP!Next \/ UNCHANGED FP!vars
    OBVIOUS
  <1>1. UNCHANGED filevars => UNCHANGED FP!vars
    BY DEF filevars, FP!vars, FP!wvars, FP!rvars
  <1>2. F!Writer \/ F!OpenAndSize \/ F!ReadBlock \/ F!EndOfFile => FP!Next
    BY WritersAct, ReadersAct DEF FP!Next
  <1>3. CASE StartRun \/ Run \/ ScanTrace \/ UNCHANGED pipevars
    BY <1>1, <1>3 DEF StartRun, Run, ScanTrace, pipevars
  <1>4. CASE Save \/ Write
    BY <1>2, <1>4 DEF Save, Write, F!Writer
  <1>5. CASE OpenTrace \/ ReadTrace \/ TraceIsRead
    BY <1>2, <1>5 DEF OpenTrace, ReadTrace, TraceIsRead
  <1> QED
    BY <1>3, <1>4, <1>5 DEF PipelineNext

LEMMA FileAlways == PipelineSpec => [](FP!TraceInv /\ FP!RunsInv /\ FP!TogetherInv)
  <1>1. PipelineInit => FP!Init
    BY FileStarts DEF PipelineInit
  <1>2. FP!Spec => [](FP!TraceInv /\ FP!RunsInv /\ FP!TogetherInv)
    BY FileConstants, FP!RunsAlways
  <1> QED
    BY <1>1, <1>2, FileSteps, PTL DEF PipelineSpec, FP!Spec

-----------------------------------------------------------------------------
(* A run of the task.                                                      *)

DataPoint ==
  [access_type : {"C", "H", "P"}, access_time : 0 .. SweepLength, cpu : Processors,
   job_count : Nat, sched_count : Nat \ {0}, preemption_length : Times \X Times]

Is(s, k, type) == s[k].access_type = type

\* What follows the cold access of a job ...
HotAfter(s) ==
  \A c \in 1 .. Len(s) : Is(s, c, "C") =>
    \A h \in c + 1 .. c + REFTOTAL : h <= Len(s) => Is(s, h, "H") /\ s[h].cpu = s[c].cpu

\* ... what precedes a hot one, unless its job has been overwritten ...
ColdBefore(s) ==
  \A h \in 1 .. Len(s), c \in 1 .. Len(s) : c < h /\ Is(s, h, "H") /\ Is(s, c, "C") =>
    \E d \in c .. h - 1 : Is(s, d, "C") /\ h <= d + REFTOTAL

\* ... and that no job lacks any.
NoneOwed(s) == \A c \in 1 .. Len(s) : Is(s, c, "C") => c + REFTOTAL <= Len(s)

FromStart(s) == s # <<>> => Is(s, 1, "C")

PageType ==
  /\ page \in [job : Nat, sched : Nat \ {0}, cpu : Cpus]
  /\ log \in Seq(DataPoint)
  /\ owed \in 0 .. REFTOTAL
  /\ curr_ws \in Nat
  /\ plan \in Plans \cup {<<>>}
  /\ run \in Nat
  /\ stage = "task" =>
       /\ plan \in Plans /\ run + 1 \in 1 .. Len(plan)
       /\ page.cpu \in Processors
       /\ page.sched = 1 \/ page.sched <= plan[run + 1].most
  /\ stage # "task" => log = <<>> /\ owed = 0

JobsInv ==
  /\ HotAfter(log) /\ ColdBefore(log) /\ FromStart(log)
  /\ owed = 0 => NoneOwed(log)
  /\ owed > 0 => \E c \in 1 .. Len(log) :
                   /\ Is(log, c, "C") /\ log[c].cpu = page.cpu
                   /\ Len(log) + owed = c + REFTOTAL

LEMMA Constants ==
  /\ SweepLength \in Nat
  /\ 0 .. SweepLength \subseteq Times /\ 0 \in Times
  /\ REFTOTAL = NUMHOTREADS /\ REFTOTAL \in Nat \ {0}
  /\ Processors \subseteq Cpus
  <1>1. SweepLength \in Nat
    BY WorkingSetAssumption DEF SweepLength
  <1> QED
    BY <1>1, PipelineAssumption, ScanAssumption

\* The row of a job, and what sweeping a row can cost.
LEMMA RowIs == \A job \in Nat : Row(job) \in Nat
  <1> PICK n : n = (CACHESIZE * 2) \div WSS
    OBVIOUS
  <1>1. n \in Nat \ {0}
    BY WorkingSetAssumption
  <1>2. \A job \in Nat : job % n \in Nat
    BY <1>1
  <1> QED
    BY <1>2 DEF Row

LEMMA MissesType == \A row \in Nat : Misses(row) \in 0 .. SweepLength
  <1> SUFFICES ASSUME NEW row \in Nat PROVE Misses(row) \in 0 .. SweepLength
    OBVIOUS
  <1> PICK a : a = row * WSS
    OBVIOUS
  <1> PICK n : n = SweepLength
    OBVIOUS
  <1>1. a \in Nat /\ n \in Nat
    BY Constants, WorkingSetAssumption
  <1> PICK b : b = a + n - 1
    OBVIOUS
  <1>2. Sweep(row) = a .. b
    BY DEF Sweep
  <1>3. b \in Int /\ a \in Int /\ (IF a > b THEN 0 ELSE b - a + 1) = n
    BY <1>1
  <1>4. IsFiniteSet(a .. b) /\ Cardinality(a .. b) = IF a > b THEN 0 ELSE b - a + 1
    BY <1>3, FS_Interval
  <1> DEFINE missed == {x \in Sweep(row) :
                          ~Hits(caches[Here], CACHESIZE, row * WSS .. x - 1, x)}
  <1>5. missed \in SUBSET (a .. b)
    BY <1>2
  <1>6. Misses(row) = Cardinality(missed)
    BY DEF Misses
  <1> HIDE DEF missed
  <1>7. Cardinality(missed) <= Cardinality(a .. b) /\ IsFiniteSet(missed)
    BY <1>4, <1>5, FS_Subset
  <1>8. Cardinality(missed) \in Nat
    BY <1>7, FS_CardinalityType
  <1> QED
    BY <1>1, <1>3, <1>4, <1>6, <1>7, <1>8

\* What the loop observes is a data point.
LEMMA ObservationType ==
  ASSUME PageType, stage = "task", NEW type \in {"C", "H", "P"}, NEW time \in 0 .. SweepLength,
         type = "P" => page.sched > 1
  PROVE  Observation(type, time) \in DataPoint
  <1>1. page.cpu \in Processors /\ page.job \in Nat /\ page.sched \in Nat \ {0}
    BY DEF PageType
  <1>2. type = "P" => page.sched \in Times
    <2> SUFFICES ASSUME type = "P" PROVE page.sched \in Times
      OBVIOUS
    <2>1. plan \in Plans /\ run + 1 \in 1 .. Len(plan) /\ page.sched <= plan[run + 1].most
      BY <1>1 DEF PageType
    <2>2. 1 .. plan[run + 1].most \subseteq Times /\ plan[run + 1].most \in Nat
      BY <2>1, PipelineAssumption
    <2> QED
      BY <1>1, <2>1, <2>2
  <1>3. (IF type = "P" THEN <<page.sched, page.sched>> ELSE <<0, 0>>) \in Times \X Times
    BY <1>2, Constants
  <1> QED
    BY <1>1, <1>3 DEF Observation, DataPoint

\* A step of the loop appends one.
LEMMA AppendedIs ==
  ASSUME NEW D, NEW s \in Seq(D), NEW x \in D
  PROVE  /\ Append(s, x) \in Seq(D) /\ Len(Append(s, x)) = Len(s) + 1
         /\ Append(s, x)[Len(s) + 1] = x
         /\ \A k \in 1 .. Len(s) : Append(s, x)[k] = s[k]
         /\ Append(s, x) # <<>>
  <1>1. /\ Append(s, x) \in Seq(D) /\ Len(Append(s, x)) = Len(s) + 1
        /\ Append(s, x)[Len(s) + 1] = x
        /\ \A k \in 1 .. Len(s) : Append(s, x)[k] = s[k]
    BY AppendProperties
  <1> QED
    BY <1>1, LenProperties, EmptySeq

LEMMA PageTypeRun == PageType /\ Run => PageType'
  <1> SUFFICES ASSUME PageType, Run PROVE PageType'
    OBVIOUS
  <1>1. /\ stage = "task" /\ stage' = stage /\ plan' = plan /\ run' = run
        /\ page \in [job : Nat, sched : Nat \ {0}, cpu : Cpus] /\ log \in Seq(DataPoint)
        /\ owed \in 0 .. REFTOTAL /\ curr_ws \in Nat
        /\ page.cpu \in Processors /\ page.job \in Nat /\ page.sched \in Nat \ {0}
    BY DEF Run, PageType, filevars
  <1>2. plan \in Plans /\ run + 1 \in 1 .. Len(plan) /\ plan[run + 1].most \in Nat
        /\ (page.sched = 1 \/ page.sched <= plan[run + 1].most)
    BY <1>1, PipelineAssumption DEF PageType
  <1>3. REFTOTAL \in Nat \ {0} /\ Processors \subseteq Cpus
    BY Constants
  <1>4. CASE ColdAccess
    <2> PICK row : row = Row(page.job)
      OBVIOUS
    <2>1. row \in Nat /\ Misses(row) \in 0 .. SweepLength
      BY <1>1, RowIs, MissesType
    <2>2. /\ log' = Append(log, Observation("C", Misses(row))) /\ owed' = REFTOTAL
          /\ page' = page /\ curr_ws' = row
      BY <1>4 DEF ColdAccess, MeasureCold, Timed
    <2>3. log' \in Seq(DataPoint)
      BY <1>1, <2>1, <2>2, ObservationType, AppendedIs
    <2> QED
      BY <1>1, <1>3, <2>1, <2>2, <2>3 DEF PageType
  <1>5. CASE HotAccess
    <2>1. Misses(curr_ws) \in 0 .. SweepLength
      BY <1>1, MissesType
    <2>2. /\ log' = Append(log, Observation("H", Misses(curr_ws))) /\ owed > 0 /\ owed' = owed - 1
          /\ page' = page /\ curr_ws' = curr_ws
      BY <1>5 DEF HotAccess, MeasureHot, Timed
    <2>3. log' \in Seq(DataPoint)
      BY <1>1, <2>1, <2>2, ObservationType, AppendedIs
    <2>4. owed' \in 0 .. REFTOTAL
      BY <1>1, <1>3, <2>2
    <2> QED
      BY <1>1, <2>2, <2>3, <2>4 DEF PageType
  <1>6. CASE PreemptedAccess
    <2>1. Misses(curr_ws) \in 0 .. SweepLength
      BY <1>1, MissesType
    <2>2. /\ log' = Append(log, Observation("P", Misses(curr_ws))) /\ owed' = owed
          /\ page' = page /\ curr_ws' = curr_ws
          /\ log # <<>> /\ page.sched > log[Len(log)].sched_count
      BY <1>6 DEF PreemptedAccess, MeasurePreempted, Timed
    <2>3. Len(log) \in 1 .. Len(log)
      BY <1>1, <2>2, EmptySeq, LenProperties
    <2>4. log[Len(log)].sched_count \in Nat \ {0}
      <3>1. log[Len(log)] \in DataPoint
        BY <1>1, <2>3, ElementOfSeq
      <3> QED
        BY <3>1 DEF DataPoint
    <2>5. page.sched > 1
      BY <1>1, <2>2, <2>4
    <2>6. log' \in Seq(DataPoint)
      BY <1>1, <2>1, <2>2, <2>5, ObservationType, AppendedIs
    <2> QED
      BY <1>1, <2>2, <2>6 DEF PageType
  <1>7. CASE Poll \/ KeepWarm \/ Pollute
    BY <1>1, <1>7 DEF Poll, KeepWarm, Pollute, mvars, PageType
  <1>8. CASE Switch(plan[run + 1].most)
    <2>1. /\ page.sched < plan[run + 1].most /\ UNCHANGED <<log, owed, curr_ws>>
          /\ \E c \in Processors : page' = [page EXCEPT !.sched = @ + 1, !.cpu = c]
      BY <1>8 DEF Switch, KernelMoves, memvars
    <2>2. PICK c \in Processors : page' = [page EXCEPT !.sched = @ + 1, !.cpu = c]
      BY <2>1
    <2>3. /\ page' \in [job : Nat, sched : Nat \ {0}, cpu : Cpus]
          /\ page'.cpu = c /\ page'.sched = page.sched + 1
      <3>1. page' = [job |-> page.job, sched |-> page.sched + 1, cpu |-> c]
        BY <1>1, <2>2
      <3>2. page.sched + 1 \in Nat \ {0} /\ c \in Cpus
        BY <1>1, <1>3
      <3> QED
        BY <1>1, <3>1, <3>2
    <2>4. page'.sched <= plan[run + 1].most
      BY <1>1, <1>2, <2>1, <2>3
    <2> QED
      BY <1>1, <1>2, <2>1, <2>3, <2>4 DEF PageType
  <1>9. CASE Release(plan[run + 1].last, plan[run + 1].most)
    <2>1. /\ UNCHANGED <<log, owed, curr_ws>>
          /\ \/ page' = [page EXCEPT !.job = @ + 1]
             \/ /\ page.sched < plan[run + 1].most
                /\ \E c \in Processors :
                     page' = [job |-> page.job + 1, sched |-> page.sched + 1, cpu |-> c]
      BY <1>9 DEF Release, KernelMoves, memvars
    <2>2. CASE page' = [page EXCEPT !.job = @ + 1]
      <3>1. /\ page' \in [job : Nat, sched : Nat \ {0}, cpu : Cpus]
            /\ page'.cpu = page.cpu /\ page'.sched = page.sched
        BY <1>1, <2>2
      <3> QED
        BY <1>1, <1>2, <2>1, <3>1 DEF PageType
    <2>3. CASE /\ page.sched < plan[run + 1].most
               /\ \E c \in Processors :
                    page' = [job |-> page.job + 1, sched |-> page.sched + 1, cpu |-> c]
      <3>1. PICK c \in Processors :
              page' = [job |-> page.job + 1, sched |-> page.sched + 1, cpu |-> c]
        BY <2>3
      <3>2. /\ page' \in [job : Nat, sched : Nat \ {0}, cpu : Cpus]
            /\ page'.cpu = c /\ page'.sched = page.sched + 1
        BY <1>1, <1>3, <3>1
      <3>3. page'.sched <= plan[run + 1].most
        BY <1>1, <1>2, <2>3, <3>2
      <3> QED
        BY <1>1, <1>2, <2>1, <3>2, <3>3 DEF PageType
    <2> QED
      BY <2>1, <2>2, <2>3
  <1> QED
    BY <1>4, <1>5, <1>6, <1>7, <1>8, <1>9 DEF Run, Measuring

\* Of two jobs the later one begins after the hot accesses of the other.
LEMMA JobsApart ==
  ASSUME NEW s \in Seq(DataPoint), HotAfter(s), NEW c \in 1 .. Len(s), NEW d \in 1 .. Len(s),
         Is(s, c, "C"), Is(s, d, "C"), c < d
  PROVE  c + REFTOTAL < d
  <1>1. c \in Nat /\ d \in Nat /\ REFTOTAL \in Nat /\ d <= Len(s)
    BY Constants, LenProperties
  <1>2. d \in c + 1 .. c + REFTOTAL => Is(s, d, "H")
    BY <1>1 DEF HotAfter
  <1>3. ~Is(s, d, "H")
    BY DEF Is
  <1> QED
    BY <1>1, <1>2, <1>3

\* t is s and one data point more.
Grown(s, t, x) ==
  /\ t \in Seq(DataPoint) /\ Len(t) = Len(s) + 1
  /\ t[Len(s) + 1] = x
  /\ \A k \in 1 .. Len(s) : t[k] = s[k]
  /\ t # <<>>

LEMMA JobsRun == PageType /\ JobsInv /\ Run => JobsInv'
  <1> SUFFICES ASSUME PageType, JobsInv, Run PROVE JobsInv'
    OBVIOUS
  <1> PICK n : n = Len(log)
    OBVIOUS
  <1>1. log \in Seq(DataPoint) /\ n \in Nat /\ REFTOTAL \in Nat \ {0} /\ stage = "task"
        /\ owed \in Nat
    BY Constants, LenProperties DEF PageType, Run
  <1>2. HotAfter(log) /\ ColdBefore(log) /\ FromStart(log)
    BY DEF JobsInv
  <1>3. ASSUME NEW x, Grown(log, log', x), owed = 0, x.access_type # "H",
               x.access_type = "C" => owed' = REFTOTAL /\ x.cpu = page'.cpu,
               x.access_type # "C" => owed' = 0 /\ log # <<>>
        PROVE  JobsInv'
    <2>1. /\ Len(log') = n + 1 /\ log'[n + 1] = x /\ \A k \in 1 .. n : log'[k] = log[k]
          /\ log' # <<>> /\ log' \in Seq(DataPoint)
      BY <1>3 DEF Grown
    <2>2. NoneOwed(log)
      BY <1>3 DEF JobsInv
    <2>3. HotAfter(log')
      <3> SUFFICES ASSUME NEW c \in 1 .. n + 1, Is(log', c, "C"),
                          NEW h \in c + 1 .. c + REFTOTAL, h <= n + 1
                   PROVE  Is(log', h, "H") /\ log'[h].cpu = log'[c].cpu
        BY <2>1 DEF HotAfter
      <3>1. c \in 1 .. n
        BY <1>1
      <3>2. Is(log, c, "C")
        BY <2>1, <3>1 DEF Is
      <3>3. c + REFTOTAL <= n
        BY <2>2, <3>1, <3>2 DEF NoneOwed
      <3>4. h \in 1 .. n /\ h <= n
        BY <1>1, <3>1, <3>3
      <3> QED
        BY <1>2, <2>1, <3>1, <3>2, <3>4 DEF HotAfter, Is
    <2>4. ColdBefore(log')
      <3> SUFFICES ASSUME NEW h \in 1 .. n + 1, NEW c \in 1 .. n + 1, c < h,
                          Is(log', h, "H"), Is(log', c, "C")
                   PROVE  \E d \in c .. h - 1 : Is(log', d, "C") /\ h <= d + REFTOTAL
        BY <2>1 DEF ColdBefore
      <3>1. h # n + 1
        BY <1>3, <2>1 DEF Is
      <3>2. h \in 1 .. n /\ c \in 1 .. n
        BY <1>1, <3>1
      <3>3. PICK d \in c .. h - 1 : Is(log, d, "C") /\ h <= d + REFTOTAL
        BY <1>2, <2>1, <3>2 DEF ColdBefore, Is
      <3>4. d \in 1 .. n
        BY <1>1, <3>2
      <3> QED
        BY <2>1, <3>3, <3>4 DEF Is
    <2>5. FromStart(log')
      <3>1. CASE log = <<>>
        <4>1. n = 0 /\ x.access_type = "C"
          BY <1>3, <3>1
        <4> QED
          BY <2>1, <4>1 DEF FromStart, Is
      <3>2. CASE log # <<>>
        <4>1. 1 \in 1 .. n
          BY <1>1, <3>2, EmptySeq
        <4> QED
          BY <1>2, <2>1, <3>2, <4>1 DEF FromStart, Is
      <3> QED
        BY <3>1, <3>2
    <2>6. CASE x.access_type = "C"
      <3>1. /\ Is(log', n + 1, "C") /\ log'[n + 1].cpu = page'.cpu
            /\ Len(log') + owed' = (n + 1) + REFTOTAL /\ n + 1 \in 1 .. Len(log')
            /\ owed' # 0
        BY <1>1, <1>3, <2>1, <2>6 DEF Is
      <3> QED
        BY <2>3, <2>4, <2>5, <3>1 DEF JobsInv
    <2>7. CASE x.access_type # "C"
      <3>1. NoneOwed(log')
        <4> SUFFICES ASSUME NEW c \in 1 .. n + 1, Is(log', c, "C") PROVE c + REFTOTAL <= n + 1
          BY <2>1 DEF NoneOwed
        <4>1. c \in 1 .. n
          <5>1. c # n + 1
            BY <2>1, <2>7 DEF Is
          <5> QED
            BY <1>1, <5>1
        <4>2. c + REFTOTAL <= n
          BY <2>1, <2>2, <4>1 DEF NoneOwed, Is
        <4> QED
          BY <1>1, <4>1, <4>2
      <3>2. owed' = 0
        BY <1>3, <2>7
      <3> QED
        BY <2>3, <2>4, <2>5, <3>1, <3>2 DEF JobsInv
    <2> QED
      BY <2>6, <2>7
  <1>4. ASSUME NEW x, Grown(log, log', x), owed > 0, x.access_type = "H", x.cpu = page.cpu,
               owed' = owed - 1, page' = page
        PROVE  JobsInv'
    <2>1. /\ Len(log') = n + 1 /\ log'[n + 1] = x /\ \A k \in 1 .. n : log'[k] = log[k]
          /\ log' # <<>> /\ log' \in Seq(DataPoint)
      BY <1>4 DEF Grown
    <2>2. PICK b \in 1 .. n : Is(log, b, "C") /\ log[b].cpu = page.cpu /\ n + owed = b + REFTOTAL
      BY <1>4 DEF JobsInv
    <2>3. \A c \in 1 .. n : Is(log, c, "C") => c = b \/ c + REFTOTAL < b
      <3> SUFFICES ASSUME NEW c \in 1 .. n, Is(log, c, "C") PROVE c = b \/ c + REFTOTAL < b
        OBVIOUS
      <3>1. CASE c < b
        BY <1>1, <1>2, <2>2, <3>1, JobsApart
      <3>2. CASE b < c
        <4>1. b + REFTOTAL < c
          BY <1>1, <1>2, <2>2, <3>2, JobsApart
        <4> QED
          BY <1>1, <1>4, <2>2, <4>1
      <3> QED
        BY <3>1, <3>2
    <2>4. n + 1 \in b + 1 .. b + REFTOTAL
      BY <1>1, <1>4, <2>2
    <2>5. HotAfter(log')
      <3> SUFFICES ASSUME NEW c \in 1 .. n + 1, Is(log', c, "C"),
                          NEW h \in c + 1 .. c + REFTOTAL, h <= n + 1
                   PROVE  Is(log', h, "H") /\ log'[h].cpu = log'[c].cpu
        BY <2>1 DEF HotAfter
      <3>1. c \in 1 .. n
        <4>1. c # n + 1
          BY <1>4, <2>1 DEF Is
        <4> QED
          BY <1>1, <4>1
      <3>2. Is(log, c, "C") /\ log'[c] = log[c]
        BY <2>1, <3>1 DEF Is
      <3>3. CASE h \in 1 .. n
        BY <1>1, <1>2, <2>1, <3>1, <3>2, <3>3 DEF HotAfter, Is
      <3>4. CASE h = n + 1
        <4>1. c = b
          BY <1>1, <2>3, <2>4, <3>1, <3>2, <3>4
        <4> QED
          BY <1>4, <2>1, <2>2, <3>2, <3>4, <4>1 DEF Is
      <3> QED
        BY <1>1, <3>1, <3>3, <3>4
    <2>6. ColdBefore(log')
      <3> SUFFICES ASSUME NEW h \in 1 .. n + 1, NEW c \in 1 .. n + 1, c < h,
                          Is(log', h, "H"), Is(log', c, "C")
                   PROVE  \E d \in c .. h - 1 : Is(log', d, "C") /\ h <= d + REFTOTAL
        BY <2>1 DEF ColdBefore
      <3>1. c \in 1 .. n
        BY <1>1
      <3>2. Is(log, c, "C")
        BY <2>1, <3>1 DEF Is
      <3>3. CASE h \in 1 .. n
        <4>1. PICK d \in c .. h - 1 : Is(log, d, "C") /\ h <= d + REFTOTAL
          BY <1>2, <2>1, <3>1, <3>2, <3>3 DEF ColdBefore, Is
        <4>2. d \in 1 .. n
          BY <1>1, <3>1, <3>3
        <4> QED
          BY <2>1, <4>1, <4>2 DEF Is
      <3>4. CASE h = n + 1
        <4>1. c = b \/ c + REFTOTAL < b
          BY <2>3, <3>1, <3>2
        <4>2. b \in c .. h - 1 /\ h <= b + REFTOTAL
          BY <1>1, <2>4, <3>1, <3>4, <4>1
        <4>3. Is(log', b, "C")
          BY <2>1, <2>2 DEF Is
        <4> QED
          BY <4>2, <4>3
      <3> QED
        BY <1>1, <3>3, <3>4
    <2>7. FromStart(log')
      <3>1. 1 \in 1 .. n /\ log # <<>>
        BY <1>1, <2>2, EmptySeq
      <3> QED
        BY <1>2, <2>1, <3>1 DEF FromStart, Is
    <2>8. CASE owed' = 0
      <3>1. n + 1 = b + REFTOTAL
        BY <1>1, <1>4, <2>2, <2>8
      <3>2. NoneOwed(log')
        <4> SUFFICES ASSUME NEW c \in 1 .. n + 1, Is(log', c, "C") PROVE c + REFTOTAL <= n + 1
          BY <2>1 DEF NoneOwed
        <4>1. c \in 1 .. n
          <5>1. c # n + 1
            BY <1>4, <2>1 DEF Is
          <5> QED
            BY <1>1, <5>1
        <4>2. c = b \/ c + REFTOTAL < b
          BY <2>1, <2>3, <4>1 DEF Is
        <4> QED
          BY <1>1, <3>1, <4>1, <4>2
      <3> QED
        BY <2>5, <2>6, <2>7, <2>8, <3>2 DEF JobsInv
    <2>9. CASE owed' > 0
      <3>1. /\ b \in 1 .. Len(log') /\ Is(log', b, "C") /\ log'[b].cpu = page'.cpu
            /\ Len(log') + owed' = b + REFTOTAL /\ owed' # 0
        BY <1>1, <1>4, <2>1, <2>2, <2>9 DEF Is
      <3> QED
        BY <2>5, <2>6, <2>7, <3>1 DEF JobsInv
    <2> QED
      BY <1>1, <1>4, <2>8, <2>9
  <1>5. ASSUME NEW type \in {"C", "H", "P"}, NEW time \in 0 .. SweepLength,
               type = "P" => page.sched > 1, log' = Append(log, Observation(type, time))
        PROVE  /\ Grown(log, log', Observation(type, time))
               /\ Observation(type, time).access_type = type
               /\ Observation(type, time).cpu = page.cpu
    <2>1. Observation(type, time) \in DataPoint
      BY <1>1, <1>5, ObservationType
    <2>2. Observation(type, time).access_type = type /\ Observation(type, time).cpu = page.cpu
      BY DEF Observation
    <2> QED
      BY <1>1, <1>5, <2>1, <2>2, AppendedIs DEF Grown
  <1>6. page.job \in Nat /\ curr_ws \in Nat
    BY DEF PageType
  <1>7. CASE ColdAccess
    <2> PICK row : row = Row(page.job)
      OBVIOUS
    <2>1. Misses(row) \in 0 .. SweepLength
      BY <1>6, RowIs, MissesType
    <2>2. /\ log' = Append(log, Observation("C", Misses(row))) /\ owed = 0 /\ owed' = REFTOTAL
          /\ page' = page
      BY <1>7 DEF ColdAccess, MeasureCold
    <2> QED
      BY <1>3, <1>5, <2>1, <2>2
  <1>8. CASE HotAccess
    <2>1. Misses(curr_ws) \in 0 .. SweepLength
      BY <1>6, MissesType
    <2>2. /\ log' = Append(log, Observation("H", Misses(curr_ws))) /\ owed > 0
          /\ owed' = owed - 1 /\ page' = page
      BY <1>8 DEF HotAccess, MeasureHot
    <2> QED
      BY <1>4, <1>5, <2>1, <2>2
  <1>9. CASE PreemptedAccess
    <2>1. Misses(curr_ws) \in 0 .. SweepLength
      BY <1>6, MissesType
    <2>2. /\ log' = Append(log, Observation("P", Misses(curr_ws))) /\ owed = 0 /\ owed' = owed
          /\ page' = page /\ log # <<>> /\ page.sched > log[Len(log)].sched_count
      BY <1>9 DEF PreemptedAccess, MeasurePreempted
    <2>3. page.sched > 1
      <3>1. Len(log) \in 1 .. Len(log)
        BY <1>1, <2>2, EmptySeq, LenProperties
      <3>2. log[Len(log)] \in DataPoint
        BY <1>1, <3>1, ElementOfSeq
      <3>3. log[Len(log)].sched_count \in Nat \ {0} /\ page.sched \in Nat
        BY <3>2 DEF DataPoint, PageType
      <3> QED
        BY <2>2, <3>3
    <2> QED
      BY <1>3, <1>5, <2>1, <2>2, <2>3
  <1>10. CASE Poll \/ KeepWarm \/ Pollute
    <2>1. page' = page /\ log' = log /\ owed' = owed
      BY <1>10 DEF Poll, KeepWarm, Pollute, mvars
    <2> QED
      BY <2>1 DEF JobsInv
  <1>11. CASE Switch(plan[run + 1].most) \/ Release(plan[run + 1].last, plan[run + 1].most)
    <2>1. owed = 0 /\ log' = log /\ owed' = owed
      BY <1>11 DEF Switch, Release, KernelMoves
    <2> QED
      BY <2>1 DEF JobsInv
  <1> QED
    BY <1>7, <1>8, <1>9, <1>10, <1>11 DEF Run, Measuring

\* What a run hands to serialize_data_entry(), ...
Kept(s) ==
  /\ s \in Seq(DataPoint)
  /\ HotAfter(s) /\ ColdBefore(s) /\ NoneOwed(s)

\* ... and what is known of the runs that have ended.
SavedInv ==
  /\ saved \in Seq(Seq(DataPoint)) /\ Len(saved) = run
  /\ taken \in Seq(Nat) /\ Len(taken) = run
  /\ \A r \in 1 .. run :
       /\ Kept(saved[r])
       /\ runs[r].num = Len(saved[r])
       /\ taken[r] = Len(saved[r]) => FromStart(saved[r])

LEMMA DataPointsAre ==
  ASSUME log \in Seq(DataPoint)
  PROVE  \E m \in 0 .. Len(log) : DataPoints = SubSeq(log, Len(log) - m + 1, Len(log))
  <1> PICK n : n = Len(log)
    OBVIOUS
  <1> PICK d : d = DATAPOINTS
    OBVIOUS
  <1>1. n \in Nat /\ d \in Nat \ {0} /\ (log # <<>> => n # 0)
    BY LenProperties, EmptySeq, PipelineAssumption
  <1>2. n % d \in 0 .. n
    <2>1. n = d * (n \div d) + (n % d) /\ n \div d \in Nat /\ n % d \in Nat
      BY <1>1
    <2>2. d * (n \div d) \in Nat
      BY <1>1, <2>1
    <2> QED
      BY <1>1, <2>1, <2>2
  <1>3. n # 0 /\ n % d = 0 => d <= n
    BY <1>1
  <1>4. PICK m : m = IF log # <<>> /\ n % d = 0 THEN d ELSE n % d
    OBVIOUS
  <1>5. DataPoints = SubSeq(log, n - m + 1, n)
    BY <1>4 DEF DataPoints
  <1>6. m \in 0 .. n
    BY <1>1, <1>2, <1>3, <1>4
  <1> QED
    BY <1>5, <1>6

\* The end of a log is as good as the log.
LEMMA EndIsKept ==
  ASSUME NEW s, Kept(s), NEW m \in 0 .. Len(s)
  PROVE  /\ Kept(SubSeq(s, Len(s) - m + 1, Len(s)))
         /\ Len(SubSeq(s, Len(s) - m + 1, Len(s))) = m
  <1> PICK n : n = Len(s)
    OBVIOUS
  <1> DEFINE t == SubSeq(s, n - m + 1, n)
  <1>1. n \in Nat /\ m \in Nat /\ m <= n /\ s \in Seq(DataPoint) /\ REFTOTAL \in Nat
    BY LenProperties, Constants DEF Kept
  <1>2. /\ t \in Seq(DataPoint) /\ Len(t) = m
        /\ \A k \in 1 .. m : t[k] = s[k + (n - m)]
    <2>1. n - m + 1 \in Int /\ n \in Int /\ (IF n - m + 1 <= n THEN n - (n - m + 1) + 1 ELSE 0) = m
      BY <1>1
    <2>2. \A k \in n - m + 1 .. n : s[k] \in DataPoint
      <3> SUFFICES ASSUME NEW k \in n - m + 1 .. n PROVE s[k] \in DataPoint
        OBVIOUS
      <3>1. k \in 1 .. Len(s)
        BY <1>1
      <3> QED
        BY <1>1, <3>1, ElementOfSeq
    <2>3. Len(t) = m
      BY <1>1, <2>1
    <2>4. \A k \in 1 .. m : t[k] = s[k + (n - m)]
      BY <1>1, <2>1
    <2>5. t \in Seq(DataPoint)
      BY <1>1, <2>1, <2>2
    <2> QED
      BY <2>3, <2>4, <2>5
  <1> HIDE DEF t
  <1>3. \A k \in 1 .. m : k + (n - m) \in 1 .. n
    BY <1>1
  <1>4. \A k \in 1 .. m : \A type : Is(t, k, type) <=> Is(s, k + (n - m), type)
    BY <1>2 DEF Is
  <1>5. HotAfter(t)
    <2> SUFFICES ASSUME NEW c \in 1 .. m, Is(t, c, "C"), NEW h \in c + 1 .. c + REFTOTAL, h <= m
                 PROVE  Is(t, h, "H") /\ t[h].cpu = t[c].cpu
      BY <1>2 DEF HotAfter
    <2> PICK e : e = c + (n - m)
      OBVIOUS
    <2> PICK g : g = h + (n - m)
      OBVIOUS
    <2>1. h \in 1 .. m
      BY <1>1
    <2>2. e \in 1 .. n /\ g \in 1 .. n /\ g \in e + 1 .. e + REFTOTAL /\ g <= n
      BY <1>1, <2>1
    <2>3. Is(s, e, "C")
      BY <1>4
    <2>4. Is(s, g, "H") /\ s[g].cpu = s[e].cpu
      BY <2>2, <2>3 DEF Kept, HotAfter
    <2> QED
      BY <1>2, <1>4, <2>1, <2>4
  <1>6. ColdBefore(t)
    <2> SUFFICES ASSUME NEW h \in 1 .. m, NEW c \in 1 .. m, c < h, Is(t, h, "H"), Is(t, c, "C")
                 PROVE  \E d \in c .. h - 1 : Is(t, d, "C") /\ h <= d + REFTOTAL
      BY <1>2 DEF ColdBefore
    <2> PICK e : e = c + (n - m)
      OBVIOUS
    <2> PICK g : g = h + (n - m)
      OBVIOUS
    <2>1. e \in 1 .. n /\ g \in 1 .. n /\ e < g
      BY <1>1
    <2>2. Is(s, e, "C") /\ Is(s, g, "H")
      BY <1>4
    <2>3. PICK f \in e .. g - 1 : Is(s, f, "C") /\ g <= f + REFTOTAL
      BY <2>1, <2>2 DEF Kept, ColdBefore
    <2> PICK d : d = f - (n - m)
      OBVIOUS
    <2>4. d \in c .. h - 1 /\ h <= d + REFTOTAL /\ d \in 1 .. m /\ d + (n - m) = f
      BY <1>1, <2>1, <2>3
    <2> QED
      BY <1>4, <2>3, <2>4
  <1>7. NoneOwed(t)
    <2> SUFFICES ASSUME NEW c \in 1 .. m, Is(t, c, "C") PROVE c + REFTOTAL <= m
      BY <1>2 DEF NoneOwed
    <2> PICK e : e = c + (n - m)
      OBVIOUS
    <2>1. e \in 1 .. n /\ Is(s, e, "C")
      BY <1>1, <1>4
    <2>2. e + REFTOTAL <= n
      BY <2>1 DEF Kept, NoneOwed
    <2> QED
      BY <1>1, <2>2
  <1> QED
    BY <1>2, <1>5, <1>6, <1>7 DEF Kept, t

LEMMA SaveKeeps ==
  ASSUME PageType, JobsInv, SavedInv, FP!RunsInv, Save
  PROVE  SavedInv'
  <1> DEFINE s == DataPoints
  <1>1. /\ log \in Seq(DataPoint) /\ owed = 0 /\ run \in Nat /\ run' = run + 1
        /\ saved' = Append(saved, s) /\ taken' = Append(taken, Len(log))
        /\ runs' = Append(runs, [num |-> Len(s), outcome |-> "open"])
    <2>1. owed = 0
      BY DEF Save, Running, PageType
    <2> QED
      BY <2>1 DEF Save, F!Serialize, PageType
  <1>2. Kept(log) /\ FromStart(log)
    BY <1>1 DEF JobsInv, Kept
  <1>3. PICK m \in 0 .. Len(log) : s = SubSeq(log, Len(log) - m + 1, Len(log))
    BY <1>1, DataPointsAre
  <1>4. Kept(s) /\ Len(s) = m
    BY <1>2, <1>3, EndIsKept
  <1>5. Len(log) = Len(s) => FromStart(s)
    <2> SUFFICES ASSUME Len(log) = Len(s) PROVE FromStart(s)
      OBVIOUS
    <2>1. Len(log) - m + 1 = 1
      BY <1>1, <1>4, LenProperties
    <2>2. s = log
      BY <1>1, <1>3, <2>1, SubSeqFull
    <2> QED
      BY <1>2, <2>2
  <1> HIDE DEF s
  <1>6. /\ saved \in Seq(Seq(DataPoint)) /\ Len(saved) = run
        /\ taken \in Seq(Nat) /\ Len(taken) = run
        /\ runs \in Seq([num : Nat, outcome : FP!Outcomes]) /\ Len(runs) = run
    BY DEF SavedInv, FP!RunsInv
  <1>7. /\ saved' \in Seq(Seq(DataPoint)) /\ Len(saved') = run' /\ saved'[run'] = s
        /\ \A r \in 1 .. run : saved'[r] = saved[r]
    <2>1. s \in Seq(DataPoint)
      BY <1>4 DEF Kept
    <2> QED
      BY <1>1, <1>6, <2>1, AppendProperties
  <1>8. /\ taken' \in Seq(Nat) /\ Len(taken') = run' /\ taken'[run'] = Len(log)
        /\ \A r \in 1 .. run : taken'[r] = taken[r]
    <2>1. Len(log) \in Nat
      BY <1>1, LenProperties
    <2> QED
      BY <1>1, <1>6, <2>1, AppendProperties
  <1>9. runs'[run'].num = Len(s) /\ \A r \in 1 .. run : runs'[r] = runs[r]
    BY <1>1, <1>6
  <1>10. ASSUME NEW r \in 1 .. run'
         PROVE  /\ Kept(saved'[r])
                /\ runs'[r].num = Len(saved'[r])
                /\ taken'[r] = Len(saved'[r]) => FromStart(saved'[r])
    <2>1. CASE r = run'
      BY <1>4, <1>5, <1>7, <1>8, <1>9, <2>1
    <2>2. CASE r # run'
      <3>1. r \in 1 .. run
        BY <1>1, <2>2
      <3> QED
        BY <1>7, <1>8, <1>9, <3>1 DEF SavedInv
    <2> QED
      BY <2>1, <2>2
  <1> QED
    BY <1>7, <1>8, <1>10 DEF SavedInv

LEMMA SavedStep ==
  ASSUME PageType, JobsInv, SavedInv, FP!RunsInv, [PipelineNext]_pipevars
  PROVE  SavedInv'
  <1>1. CASE Save
    BY <1>1, SaveKeeps
  <1>2. CASE Write
    <2>1. saved' = saved /\ taken' = taken /\ run' = run
      BY <1>2 DEF Write, F!OpenFails, F!OpenFile, F!WriteBlock, F!WriteRest, F!WriteFails,
                  F!Killed, F!Leave
    <2>2. runs' = runs \/ \E v : runs' = [runs EXCEPT ![run].outcome = v]
      BY <1>2 DEF Write, F!OpenFails, F!OpenFile, F!WriteBlock, F!WriteRest, F!WriteFails,
                  F!Killed, F!Leave
    <2>3. \A r \in 1 .. run : runs'[r].num = runs[r].num
      <3> DEFINE R == [num : Nat, outcome : FP!Outcomes]
      <3>1. runs \in Seq(R) /\ Len(runs) = run
        BY DEF FP!RunsInv
      <3> SUFFICES ASSUME NEW r \in 1 .. run, NEW v, runs' = [runs EXCEPT ![run].outcome = v]
                   PROVE  runs'[r].num = runs[r].num
        BY <2>2
      <3>a. r \in 1 .. Len(runs)
        BY <3>1
      <3> HIDE DEF R
      <3>b. r \in DOMAIN runs /\ runs[r] \in R
        BY <3>1, <3>a, ElementOfSeq, LenProperties
      <3> USE DEF R
      <3>2. r \in DOMAIN runs /\ runs[r] \in R
        BY <3>b
      <3>3. runs'[r] = IF r = run THEN [runs[r] EXCEPT !.outcome = v] ELSE runs[r]
        BY <3>2
      <3> QED
        BY <3>2, <3>3
    <2> QED
      BY <2>1, <2>3 DEF SavedInv
  <1>3. CASE UNCHANGED <<saved, taken, run, runs>>
    BY <1>3 DEF SavedInv
  <1>4. StartRun \/ Run \/ OpenTrace \/ ReadTrace \/ TraceIsRead \/ ScanTrace \/ UNCHANGED pipevars
        => UNCHANGED <<saved, taken, run, runs>>
    BY DEF StartRun, Run, OpenTrace, ReadTrace, TraceIsRead, ScanTrace, pipevars, filevars,
           F!OpenAndSize, F!ReadBlock, F!EndOfFile, F!wvars
  <1> QED
    BY <1>1, <1>2, <1>3, <1>4 DEF PipelineNext

LEMMA PageTypeStep ==
  ASSUME PageType, [PipelineNext]_pipevars
  PROVE  PageType'
  <1>1. CASE StartRun
    <2>1. /\ stage' = "task" /\ UNCHANGED <<plan, run, log, owed>> /\ curr_ws' = 0
          /\ page' \in FirstPages /\ run < Len(plan) /\ log = <<>> /\ owed = 0
          /\ plan \in Plans \cup {<<>>} /\ run \in Nat
      BY <1>1 DEF StartRun, FreshProcess, filevars, PageType
    <2>2. /\ page'.cpu \in Processors /\ page'.sched = 1
          /\ page' \in [job : Nat, sched : Nat \ {0}, cpu : Cpus]
      BY <2>1, Constants DEF FirstPages
    <2>3. plan \in Plans /\ run + 1 \in 1 .. Len(plan)
      <3>1. plan # <<>>
        BY <2>1, EmptySeq
      <3>2. plan \in Plans /\ Len(plan) \in 0 .. MaxRuns /\ MaxRuns \in Nat
        BY <2>1, <3>1, PipelineAssumption
      <3> QED
        BY <2>1, <3>2
    <2>4. log' \in Seq(DataPoint) /\ owed' \in 0 .. REFTOTAL
      BY <2>1, Constants, EmptySeq
    <2> QED
      BY <2>1, <2>2, <2>3, <2>4 DEF PageType
  <1>2. CASE Run
    BY <1>2, PageTypeRun
  <1>3. CASE Save
    <2>1. /\ stage' = "save" /\ plan' = plan /\ run' = run + 1 /\ log' = <<>> /\ curr_ws' = 0
          /\ page' = [job |-> 0, sched |-> 1, cpu |-> 0] /\ owed' = owed /\ owed = 0
      BY <1>3 DEF Save, F!Serialize, FreshProcess, Running, PageType
    <2>2. page' \in [job : Nat, sched : Nat \ {0}, cpu : Cpus]
      BY <2>1, ScanAssumption
    <2>3. log' \in Seq(DataPoint) /\ owed' \in 0 .. REFTOTAL
      BY <2>1, Constants, EmptySeq
    <2> QED
      BY <2>1, <2>2, <2>3 DEF PageType
  <1>4. CASE Write \/ OpenTrace \/ ReadTrace \/ TraceIsRead \/ ScanTrace \/ UNCHANGED pipevars
    <2>1. /\ UNCHANGED <<plan, run, page, log, owed, curr_ws>>
          /\ stage' # "task" \/ stage' = stage
          /\ stage = "task" => stage' = stage
      BY <1>4 DEF Write, OpenTrace, ReadTrace, TraceIsRead, ScanTrace, pipevars, filevars,
                  taskvars, mvars, memvars, F!OpenFails, F!OpenFile, F!WriteBlock, F!WriteRest,
                  F!WriteFails, F!Killed, F!Leave, F!OpenAndSize, F!ReadBlock, F!EndOfFile, F!wvars
    <2> QED
      BY <2>1 DEF PageType
  <1> QED
    BY <1>1, <1>2, <1>3, <1>4 DEF PipelineNext

LEMMA EmptyLog == log = <<>> /\ owed = 0 => JobsInv
  <1> SUFFICES ASSUME log = <<>>, owed = 0 PROVE JobsInv
    OBVIOUS
  <1>1. Len(log) = 0 /\ \A k : k \notin 1 .. 0
    BY EmptySeq
  <1> QED
    BY <1>1 DEF JobsInv, HotAfter, ColdBefore, FromStart, NoneOwed

LEMMA JobsStep ==
  ASSUME PageType, JobsInv, [PipelineNext]_pipevars
  PROVE  JobsInv'
  <1>1. CASE Run
    BY <1>1, JobsRun
  <1>2. CASE StartRun \/ Save
    <2>1. log' = <<>> /\ owed' = 0
      BY <1>2 DEF StartRun, Save, PageType, Running
    <2>2. Len(log') = 0 /\ \A k : k \notin 1 .. 0
      BY <2>1, EmptySeq
    <2> QED
      BY <2>1, <2>2 DEF JobsInv, HotAfter, ColdBefore, FromStart, NoneOwed
  <1>3. CASE Write \/ OpenTrace \/ ReadTrace \/ TraceIsRead \/ ScanTrace \/ UNCHANGED pipevars
    <2>1. UNCHANGED <<page, log, owed>>
      BY <1>3 DEF Write, OpenTrace, ReadTrace, TraceIsRead, ScanTrace, pipevars, taskvars, mvars
    <2> QED
      BY <2>1 DEF JobsInv
  <1> QED
    BY <1>1, <1>2, <1>3 DEF PipelineNext

\* The size of a file that is read is an int.
SizedInv == rpc \in {"Read", "Done"} => FP!IntSized

LEMMA SizedStep ==
  ASSUME SizedInv, FP!TraceInv, [PipelineNext]_pipevars
  PROVE  SizedInv'
  <1>1. CASE Save \/ Write
    <2>1. /\ rpc' = rpc
          /\ wpc' # "Idle" \/ wpc # "Idle"
      BY <1>1 DEF Save, Write, F!Serialize, F!OpenFails, F!OpenFile, F!WriteBlock, F!WriteRest,
                  F!WriteFails, F!Killed, F!Leave, F!rvars
    <2>2. rpc = "Idle"
      BY <1>1, <2>1 DEF Save, F!Serialize, FP!TraceInv, FP!Exclusion, Write, F!OpenFails,
                        F!OpenFile, F!WriteBlock, F!WriteRest, F!WriteFails, F!Killed
    <2> QED
      BY <2>1, <2>2 DEF SizedInv
  <1>2. CASE OpenTrace
    BY <1>2 DEF OpenTrace, F!OpenAndSize, F!IntSized, FP!IntSized, SizedInv
  <1>3. CASE ReadTrace \/ TraceIsRead
    BY <1>3 DEF ReadTrace, TraceIsRead, F!ReadBlock, F!EndOfFile, FP!IntSized, SizedInv
  <1>4. CASE StartRun \/ Run \/ ScanTrace \/ UNCHANGED pipevars
    BY <1>4 DEF StartRun, Run, ScanTrace, pipevars, filevars, FP!IntSized, SizedInv
  <1> QED
    BY <1>1, <1>2, <1>3, <1>4 DEF PipelineNext

MeasuredInv == PageType /\ JobsInv /\ SavedInv /\ SizedInv /\ ~torn

LEMMA MeasuredAlways == PipelineSpec => []MeasuredInv
  <1>1. PipelineInit => MeasuredInv
    <2> SUFFICES ASSUME PipelineInit PROVE MeasuredInv
      OBVIOUS
    <2>1. /\ page = [job |-> 0, sched |-> 1, cpu |-> 0] /\ log = <<>> /\ owed = 0 /\ saved = <<>>
          /\ taken = <<>> /\ run = 0 /\ torn = FALSE /\ curr_ws = 0 /\ stage # "task"
          /\ rpc = "Idle"
          /\ plan \in Plans \cup {<<>>}
      BY DEF PipelineInit, F!Init, WorkingSetsInit
    <2>2. PageType
      <3>1. page \in [job : Nat, sched : Nat \ {0}, cpu : Cpus]
        BY <2>1, ScanAssumption
      <3>2. log \in Seq(DataPoint) /\ owed \in 0 .. REFTOTAL
        BY <2>1, Constants, EmptySeq
      <3> QED
        BY <2>1, <3>1, <3>2 DEF PageType
    <2>3. SavedInv
      BY <2>1, EmptySeq DEF SavedInv
    <2> QED
      BY <2>1, <2>2, <2>3, EmptyLog DEF MeasuredInv, SizedInv
  <1>2. MeasuredInv /\ FP!TraceInv /\ FP!RunsInv /\ [PipelineNext]_pipevars => MeasuredInv'
    <2> SUFFICES ASSUME MeasuredInv, FP!TraceInv, FP!RunsInv, [PipelineNext]_pipevars
                 PROVE  MeasuredInv'
      OBVIOUS
    <2>1. ~torn'
      BY DEF MeasuredInv, PipelineNext, StartRun, Run, Save, Write, OpenTrace, ReadTrace,
             TraceIsRead, ScanTrace, pipevars, filevars, F!Serialize, F!OpenAndSize, F!ReadBlock,
             F!EndOfFile, F!wvars
    <2> QED
      BY <2>1, PageTypeStep, JobsStep, SavedStep, SizedStep DEF MeasuredInv
  <1> QED
    BY <1>1, <1>2, FileAlways, PTL DEF PipelineSpec

-----------------------------------------------------------------------------
(* The file that was read holds the data points of the runs, run by run.   *)

\* Run r left the n data points behind the first s.
FromRun(r, s, n) ==
  /\ s \in Nat /\ n \in Nat /\ s + n <= j
  /\ \A k \in 1 .. j : RunOf(k) = r <=> k \in s + 1 .. s + n
  /\ \A k \in s + 1 .. s + n : PlaceOf(k) = k - s
  /\ FP!MayLeave(runs[r], n)

FileShape ==
  /\ j \in Nat
  /\ \A k \in 1 .. j : RunOf(k) \in 1 .. run /\ PlaceOf(k) \in 1 .. Len(saved[RunOf(k)])
  /\ \A k, l \in 1 .. j : k <= l => RunOf(k) <= RunOf(l)
  /\ \A r \in 1 .. run : \E s, n \in Nat : FromRun(r, s, n)

LEMMA FileIsRead ==
  ASSUME MeasuredInv, FP!TraceInv, FP!RunsInv, FP!TogetherInv, rpc = "Done"
  PROVE  FileShape
  <1>1. /\ FP!Whole(file, run) /\ run \in Nat
        /\ \A r \in 1 .. run : FP!Left(file, r, runs[r])
    <2>1. wpc = "Idle" /\ ~torn
      BY DEF FP!TraceInv, FP!Exclusion, MeasuredInv
    <2> QED
      BY <2>1 DEF FP!TogetherInv, MeasuredInv, PageType
  <1>2. j = Len(file) /\ j \in Nat
    <2>1. j = Len(buffer) /\ Len(buffer) = Len(file) \div 1 /\ file \in Seq(FP!Cell)
      BY DEF FP!TraceInv, FP!FileInv, FP!ReadInv, FP!Reading, MeasuredInv, SizedInv
    <2>2. Len(file) \in Nat
      BY <2>1, LenProperties
    <2> QED
      BY <2>1, <2>2
  <1>3. FP!Points(file) = j
    BY <1>2 DEF FP!Points
  <1>4. \A k \in 1 .. j : /\ RunOf(k) = FP!RunAt(file, k)
                          /\ PlaceOf(k) = FP!NumberAt(file, k) + 1
    <2> SUFFICES ASSUME NEW k \in 1 .. j
                 PROVE  /\ RunOf(k) = FP!RunAt(file, k)
                        /\ PlaceOf(k) = FP!NumberAt(file, k) + 1
      OBVIOUS
    <2>1. buffer[k] = FP!Point(FP!RunAt(file, k), FP!NumberAt(file, k))
      BY <1>1, FileConstants, FP!SlotIs DEF MeasuredInv, SizedInv
    <2>2. buffer[k][1] = <<FP!RunAt(file, k), FP!NumberAt(file, k), 1>>
      BY <2>1, FileConstants, FP!PointIs
    <2> QED
      BY <2>2 DEF RunOf, PlaceOf
  <1> DEFINE R(k) == FP!RunAt(file, k)
             N(k) == FP!NumberAt(file, k)
  <1>5. /\ \A k \in 1 .. j : R(k) \in 1 .. run
        /\ \A k, l \in 1 .. j : k <= l => R(k) <= R(l)
    BY <1>1, <1>3 DEF FP!Whole
  <1>6. ASSUME NEW r \in 1 .. run
        PROVE  \E s, n \in Nat : FromRun(r, s, n) /\ n <= runs[r].num
    <2>1. PICK s, n \in 0 .. j : FP!Extent(file, r, s, n) /\ FP!MayLeave(runs[r], n)
      BY <1>1, <1>3 DEF FP!Left
    <2>2. /\ s \in Nat /\ n \in Nat /\ s + n <= j
          /\ \A k \in 1 .. j : R(k) = r <=> k \in s + 1 .. s + n
          /\ \A k \in s + 1 .. s + n : N(k) = k - s - 1
      BY <1>3, <2>1 DEF FP!Extent
    <2>3. \A k \in s + 1 .. s + n : k \in 1 .. j /\ (k - s - 1) + 1 = k - s
      BY <1>2, <2>2
    <2>4. FromRun(r, s, n)
      BY <1>4, <2>1, <2>2, <2>3 DEF FromRun
    <2>5. runs[r].num \in Nat
      <3>1. runs[r].num = Len(saved[r]) /\ saved[r] \in Seq(DataPoint)
        BY DEF MeasuredInv, SavedInv, Kept
      <3> QED
        BY <3>1, LenProperties
    <2>6. n <= runs[r].num
      BY <2>1, <2>2, <2>5 DEF FP!MayLeave
    <2> QED
      BY <2>2, <2>4, <2>6
  <1> HIDE DEF R, N
  <1>7. ASSUME NEW k \in 1 .. j
        PROVE  RunOf(k) \in 1 .. run /\ PlaceOf(k) \in 1 .. Len(saved[RunOf(k)])
    <2>1. RunOf(k) \in 1 .. run
      BY <1>4, <1>5 DEF R
    <2>2. PICK r \in 1 .. run : r = RunOf(k)
      BY <2>1
    <2>3. PICK s, n \in Nat : FromRun(r, s, n) /\ n <= runs[r].num
      BY <1>6
    <2>4. k \in s + 1 .. s + n /\ PlaceOf(k) = k - s
      BY <2>2, <2>3 DEF FromRun
    <2>5. runs[r].num = Len(saved[r]) /\ saved[r] \in Seq(DataPoint)
      BY DEF MeasuredInv, SavedInv, Kept
    <2>6. Len(saved[r]) \in Nat
      BY <2>5, LenProperties
    <2>7. k - s \in 1 .. Len(saved[r])
      BY <2>3, <2>4, <2>5, <2>6
    <2> QED
      BY <2>1, <2>2, <2>4, <2>7
  <1>8. \A k, l \in 1 .. j : k <= l => RunOf(k) <= RunOf(l)
    BY <1>4, <1>5 DEF R
  <1> QED
    BY <1>2, <1>6, <1>7, <1>8 DEF FileShape

LEMMA PointIsDataPoint ==
  ASSUME MeasuredInv, FileShape, NEW k \in 1 .. j
  PROVE  PointOf(k) \in DataPoint
  <1>1. RunOf(k) \in 1 .. run /\ PlaceOf(k) \in 1 .. Len(saved[RunOf(k)])
    BY DEF FileShape
  <1>2. saved[RunOf(k)] \in Seq(DataPoint)
    BY <1>1 DEF MeasuredInv, SavedInv, Kept
  <1> QED
    BY <1>1, <1>2, ElementOfSeq DEF PointOf

LEMMA AsSampleType == \A e \in DataPoint : AsSample(e) \in Sample
  <1> SUFFICES ASSUME NEW e \in DataPoint PROVE AsSample(e) \in Sample
    OBVIOUS
  <1>1. /\ e.access_type \in {"C", "H", "P"} /\ e.access_time \in 0 .. SweepLength
        /\ e.cpu \in Processors /\ e.preemption_length \in Times \X Times
    BY DEF DataPoint
  <1>2. e.access_time \in Times /\ e.cpu \in Cpus /\ e.preemption_length[1] \in Times
    BY <1>1, Constants
  <1> QED
    BY <1>1, <1>2 DEF AsSample, Sample

-----------------------------------------------------------------------------
(* The scan of it.                                                         *)

\* What is scanned is what was measured.
Measured ==
  /\ rpc = "Done"
  /\ FileShape
  /\ samples = [k \in 1 .. j |-> AsSample(PointOf(k))]

StageInv ==
  /\ stage # "scan" => ScanStarts
  /\ stage = "scan" /\ plan # <<>> => Measured

\* What is known of runs and file.
KnownInv ==
  /\ MeasuredInv
  /\ FP!TraceInv /\ FP!RunsInv /\ FP!TogetherInv
  /\ rpc = "Done" => FileShape

LEMMA KnownAlways == PipelineSpec => []KnownInv
  <1>1. MeasuredInv /\ FP!TraceInv /\ FP!RunsInv /\ FP!TogetherInv => KnownInv
    BY FileIsRead DEF KnownInv
  <1> QED
    BY <1>1, MeasuredAlways, FileAlways, PTL

LEMMA TraceBecomesSamples ==
  ASSUME KnownInv, StageInv, TraceIsRead, KnownInv'
  PROVE  ScanStarts' /\ Measured'
  <1>1. /\ stage = "read" /\ rpc' = "Done"
        /\ samples' = [k \in 1 .. j |-> AsSample(PointOf(k))]
        /\ hot_cost' \in IF j = 0 THEN Times ELSE {samples'[1].access_time}
        /\ UNCHANGED <<file, run, runs, saved, buffer, j>>
        /\ UNCHANGED <<pc, live, i, total_hot_reads, valid_hot_reads,
                       no_invalid_reads, valid_hot_cost, l_cpu, full_costs, source, result>>
    BY DEF TraceIsRead, F!EndOfFile, F!wvars, outvars
  <1>2. FileShape'
    BY <1>1 DEF KnownInv
  <1>3. FileShape /\ \A k : PointOf(k)' = PointOf(k)
    <2>1. /\ \A k : PointOf(k)' = PointOf(k) /\ RunOf(k)' = RunOf(k) /\ PlaceOf(k)' = PlaceOf(k)
      BY <1>1 DEF PointOf, RunOf, PlaceOf
    <2>2. \A r, s, n : FromRun(r, s, n)' <=> FromRun(r, s, n)
      BY <1>1, <2>1 DEF FromRun, FP!MayLeave
    <2> QED
      BY <1>1, <1>2, <2>1, <2>2 DEF FileShape
  <1>4. Measured'
    BY <1>1, <1>2, <1>3 DEF Measured
  <1>5. \A k \in 1 .. j : AsSample(PointOf(k)) \in Sample
    BY <1>3, PointIsDataPoint, AsSampleType DEF KnownInv
  <1>6. samples' \in Seq(Sample) /\ Len(samples') = j /\ j \in Nat
    BY <1>1, <1>3, <1>5 DEF FileShape
  <1>7. samples' = <<>> <=> j = 0
    BY <1>6, EmptySeq
  <1>8. Waiting'
    BY <1>1 DEF StageInv, ScanStarts, Waiting
  <1>9. ScanStarts'
    BY <1>1, <1>6, <1>7, <1>8 DEF ScanStarts
  <1> QED
    BY <1>4, <1>9

LEMMA StageStep ==
  ASSUME KnownInv, StageInv, [PipelineNext]_pipevars, KnownInv'
  PROVE  StageInv' /\ ([Next]_vars \/ ScanStarts')
  <1>1. CASE TraceIsRead
    BY <1>1, TraceBecomesSamples DEF StageInv
  <1>2. CASE ScanTrace
    <2>1. Next /\ stage = "scan" /\ stage' = stage /\ UNCHANGED <<plan, saved, filevars>>
      BY <1>2 DEF ScanTrace
    <2>2. samples' = samples
      BY <2>1, SamplesStay
    <2>3. Measured => Measured'
      BY <2>1, <2>2 DEF Measured, FileShape, FromRun, FP!MayLeave, PointOf, RunOf, PlaceOf, filevars
    <2> QED
      BY <2>1, <2>3 DEF StageInv
  <1>3. CASE UNCHANGED <<stage, vars>> /\ stage # "scan"
    BY <1>3 DEF StageInv, ScanStarts, Waiting, vars, hotvars, outvars
  <1>4. CASE StartRun \/ Run \/ Save \/ Write \/ OpenTrace \/ ReadTrace
    <2>1. UNCHANGED vars /\ stage # "scan" /\ stage' # "scan"
      BY <1>4 DEF StartRun, Run, Save, Write, OpenTrace, ReadTrace
    <2> QED
      BY <2>1 DEF StageInv, ScanStarts, Waiting, vars, hotvars, outvars
  <1>5. CASE UNCHANGED pipevars
    <2>1. UNCHANGED <<stage, plan, saved, filevars, vars>>
      BY <1>5 DEF pipevars
    <2>2. StageInv'
      BY <2>1 DEF StageInv, ScanStarts, Waiting, vars, hotvars, outvars,
                  Measured, FileShape, FromRun, FP!MayLeave, PointOf, RunOf, PlaceOf, filevars
    <2> QED
      BY <2>1, <2>2
  <1> QED
    BY <1>1, <1>2, <1>4, <1>5 DEF PipelineNext

LEMMA StageAlways ==
  PipelineSpec => /\ []StageInv
                  /\ [][[Next]_vars \/ ScanStarts']_pipevars
                  /\ []TypeOK /\ []LiveInv /\ []ScanInv
  <1>1. PipelineInit => ScanStarts /\ StageInv
    BY AnyTraceStarts DEF PipelineInit, StageInv
  <1>2. KnownInv /\ KnownInv' /\ StageInv /\ [PipelineNext]_pipevars
        => StageInv' /\ ([Next]_vars \/ ScanStarts')
    BY StageStep
  <1>4. PipelineSpec => []StageInv /\ [][[Next]_vars \/ ScanStarts']_pipevars
    BY <1>1, <1>2, KnownAlways, PTL DEF PipelineSpec
  <1>5. UNCHANGED pipevars => UNCHANGED vars
    BY DEF pipevars
  <1>6. PipelineSpec => []TypeOK
    BY <1>1, <1>4, <1>5, TypeInit, TypeStep, PTL DEF PipelineSpec
  <1>7. PipelineSpec => []LiveInv
    BY <1>1, <1>4, <1>5, LiveInit, LiveStep, PTL DEF PipelineSpec
  <1>8. PipelineSpec => []ScanInv
    BY <1>1, <1>4, <1>5, <1>6, ScanInit, ScanStep, PTL DEF PipelineSpec
  <1> QED
    BY <1>4, <1>6, <1>7, <1>8, PTL

-----------------------------------------------------------------------------
(* The scan of a file of valid data points.                                *)

\* Counting up to a multiple starts over with the multiple.
LEMMA RemainderIs ==
  ASSUME NEW d \in Nat \ {0}, NEW q \in Nat, NEW r \in 0 .. d - 1
  PROVE  (q * d + r) % d = r
  OBVIOUS

LEMMA NextRemainder ==
  ASSUME NEW n \in Nat, NEW d \in Nat \ {0}
  PROVE  /\ n % d \in 0 .. d - 1
         /\ (n + 1) % d = IF (n % d) + 1 = d THEN 0 ELSE (n % d) + 1
  <1> PICK r : r = n % d
    OBVIOUS
  <1> PICK q : q = n \div d
    OBVIOUS
  <1>1. r \in 0 .. d - 1 /\ q \in Nat /\ n = q * d + r
    OBVIOUS
  <1>2. CASE r + 1 = d
    <2>1. n + 1 = (q + 1) * d + 0
      BY <1>1, <1>2
    <2>2. q + 1 \in Nat /\ 0 \in 0 .. d - 1
      BY <1>1
    <2>3. ((q + 1) * d + 0) % d = 0
      BY <2>2, RemainderIs
    <2>4. (n + 1) % d = 0
      BY <2>1, <2>3, Zenon
    <2> HIDE <2>1, <2>3
    <2> QED
      BY <1>1, <1>2, <2>4
  <1>3. CASE r + 1 # d
    <2>1. n + 1 = q * d + (r + 1) /\ r + 1 \in 0 .. d - 1
      BY <1>1, <1>3
    <2> QED
      BY <1>1, <1>3, <2>1, RemainderIs
  <1> QED
    BY <1>1, <1>2, <1>3

\* The hot accesses among the first k samples.
HotsUpTo(k) == {h \in 1 .. k : samples[h].access_type = "H"}

LEMMA HotsGrow ==
  ASSUME NEW k \in Nat
  PROVE  /\ Cardinality(HotsUpTo(k)) \in Nat
         /\ Cardinality(HotsUpTo(k + 1)) =
              Cardinality(HotsUpTo(k)) + (IF samples[k + 1].access_type = "H" THEN 1 ELSE 0)
         /\ Cardinality(HotsUpTo(0)) = 0
  <1>1. IsFiniteSet(HotsUpTo(k)) /\ k + 1 \notin HotsUpTo(k)
    <2>1. IsFiniteSet(1 .. k) /\ HotsUpTo(k) \in SUBSET (1 .. k)
      BY FS_Interval DEF HotsUpTo
    <2>2. k + 1 \notin 1 .. k
      OBVIOUS
    <2> QED
      BY <2>1, <2>2, FS_Subset
  <1>2. HotsUpTo(k + 1) = IF samples[k + 1].access_type = "H"
                          THEN HotsUpTo(k) \cup {k + 1} ELSE HotsUpTo(k)
    BY DEF HotsUpTo
  <1>3. Cardinality(HotsUpTo(k)) \in Nat
    BY <1>1, FS_CardinalityType
  <1>4. Cardinality(HotsUpTo(k + 1)) =
          Cardinality(HotsUpTo(k)) + (IF samples[k + 1].access_type = "H" THEN 1 ELSE 0)
    <2>1. CASE samples[k + 1].access_type = "H"
      BY <1>1, <1>2, <2>1, FS_AddElement
    <2>2. CASE samples[k + 1].access_type # "H"
      BY <1>2, <1>3, <2>2
    <2> QED
      BY <2>1, <2>2
  <1>5. HotsUpTo(0) = {}
    BY DEF HotsUpTo
  <1> QED
    BY <1>3, <1>4, <1>5, FS_EmptySet

AllValid == \A k \in 1 .. num_samples : samples[k].access_type \in {"C", "H", "P"}

\* From c on the samples up to k are those of a job.
InJob(c, k) ==
  /\ samples[c].access_type = "C" /\ Aligned(c)
  /\ \A h \in c + 1 .. k :
       samples[h].access_type = IF h <= c + NUMHOTREADS THEN "H" ELSE "P"

ValidInv ==
  /\ total_hot_reads = Cardinality(HotsUpTo(i)) % NUMHOTREADS
  /\ valid_hot_reads = total_hot_reads /\ no_invalid_reads
  /\ \A c \in 1 .. i : InJob(c, i) => IF i - c < NUMHOTREADS THEN Open(c) ELSE Closed(c)
  /\ i > 0 /\ samples[i].access_type # "C" => l_cpu = samples[i].cpu

\* What is reported for sample s.
Reported(cost, s) ==
  /\ samples[s].access_type = "P"
  /\ cost.curr_cpu = samples[s].cpu
  /\ cost.plen = samples[s].preemption_length
  /\ s > 1 /\ samples[s - 1].access_type # "C" => cost.last_cpu = samples[s - 1].cpu
  /\ \A c \in 1 .. s :
       InJob(c, s) => IsBaseline(c, samples[s].access_time - cost.ovd)

DelaysInv ==
  /\ Len(source) \in Nat
  /\ \A k \in 1 .. Len(source) : source[k] \in 1 .. i /\ Reported(full_costs[k], source[k])

LEMMA ValidStart == ScanStarts => ValidInv /\ DelaysInv
  <1> SUFFICES ASSUME ScanStarts PROVE ValidInv /\ DelaysInv
    OBVIOUS
  <1>1. i = 0 /\ total_hot_reads = 0 /\ valid_hot_reads = 0 /\ no_invalid_reads /\ source = <<>>
    BY DEF ScanStarts, Waiting
  <1>2. Cardinality(HotsUpTo(0)) = 0
    BY HotsGrow
  <1>3. 0 % NUMHOTREADS = 0
    BY ScanAssumption
  <1> QED
    BY <1>1, <1>2, <1>3, EmptySeq DEF ValidInv, DelaysInv

LEMMA SameInJob ==
  ASSUME samples' = samples
  PROVE  /\ AllValid' <=> AllValid
         /\ \A c, k : InJob(c, k)' <=> InJob(c, k)
         /\ \A k : HotsUpTo(k)' = HotsUpTo(k)
         /\ \A cost, s : Reported(cost, s)' <=> Reported(cost, s)
  BY DEF AllValid, num_samples, InJob, Aligned, HotsUpTo, Reported, IsBaseline, InValidPrefix

\* A longer part of a job has its beginning.
LEMMA InJobBefore ==
  ASSUME NEW c \in Nat, NEW k \in Nat, InJob(c, k + 1)
  PROVE  InJob(c, k)
  <1>1. \A h \in c + 1 .. k : h \in c + 1 .. k + 1
    OBVIOUS
  <1> QED
    BY <1>1 DEF InJob

\* A preemption that belongs to a job comes after its hot accesses.
LEMMA PreemptedInJob ==
  ASSUME TypeOK, ValidInv, Scanning, Current.access_type = "P",
         NEW c \in 1 .. i + 1, InJob(c, i + 1)
  PROVE  c \in 1 .. i /\ i - c >= NUMHOTREADS /\ Closed(c)
  <1>1. i \in Nat /\ Current = samples[i + 1] /\ NUMHOTREADS \in Nat \ {0}
    BY CurrentType, ScanAssumption DEF TypeOK
  <1>2. c # i + 1
    BY <1>1 DEF InJob
  <1>3. c \in 1 .. i /\ i + 1 \in c + 1 .. i + 1
    BY <1>1, <1>2
  <1>4. ~(i + 1 <= c + NUMHOTREADS)
    BY <1>1, <1>3 DEF InJob
  <1>5. InJob(c, i) /\ i - c >= NUMHOTREADS
    BY <1>1, <1>3, <1>4, InJobBefore
  <1> QED
    BY <1>1, <1>3, <1>5 DEF ValidInv

LEMMA HotReadStaysValid ==
  ASSUME TypeOK, ValidInv, Scanning, AllValid, HotRead
  PROVE  ValidInv'
  <1>1. /\ samples' = samples /\ i' = i + 1 /\ i \in Nat
        /\ i + 1 \in 1 .. num_samples /\ NUMHOTREADS \in Nat \ {0}
        /\ Current = samples[i + 1] /\ Current.access_type \in {"H", "h"}
        /\ l_cpu' = samples[i + 1].cpu
    BY CurrentType, ScanAssumption DEF HotRead, AdvanceScan, TypeOK
  <1>2. samples[i + 1].access_type = "H"
    BY <1>1 DEF AllValid
  <1> PICK n : n = Cardinality(HotsUpTo(i))
    OBVIOUS
  <1>3. n \in Nat /\ Cardinality(HotsUpTo(i + 1)) = n + 1
    BY <1>1, <1>2, HotsGrow
  <1> PICK t : t = n % NUMHOTREADS
    OBVIOUS
  <1>4. /\ t \in 0 .. NUMHOTREADS - 1
        /\ (n + 1) % NUMHOTREADS = IF t + 1 = NUMHOTREADS THEN 0 ELSE t + 1
    BY <1>1, <1>3, NextRemainder
  <1>5. total_hot_reads = t /\ valid_hot_reads = t /\ no_invalid_reads
    BY DEF ValidInv
  <1>6. CountHotRead.valid = t + 1 /\ CountHotRead.clean = TRUE
    BY <1>1, <1>2, <1>5 DEF CountHotRead, Update
  <1>7. /\ total_hot_reads' = IF t + 1 = NUMHOTREADS THEN 0 ELSE t + 1
        /\ valid_hot_reads' = total_hot_reads' /\ no_invalid_reads'
    BY <1>5, <1>6 DEF HotRead, LastOfJob, ResetFlags
  <1>8. total_hot_reads' = Cardinality(HotsUpTo(i))' % NUMHOTREADS
    <2>1. HotsUpTo(i)' = HotsUpTo(i + 1)
      BY <1>1 DEF HotsUpTo
    <2> QED
      BY <1>3, <1>4, <1>7, <2>1
  <1>9. ASSUME NEW c \in 1 .. i + 1, InJob(c, i + 1)
        PROVE  IF (i + 1) - c < NUMHOTREADS THEN Open(c)' ELSE Closed(c)'
    <2>1. c # i + 1
      BY <1>2, <1>9 DEF InJob
    <2>2. c \in 1 .. i /\ i + 1 \in c + 1 .. i + 1
      BY <1>1, <2>1
    <2>3. i + 1 <= c + NUMHOTREADS
      BY <1>2, <1>9, <2>2 DEF InJob
    <2>4. i - c < NUMHOTREADS /\ InJob(c, i)
      BY <1>1, <1>9, <2>2, <2>3, InJobBefore
    <2>5. Open(c)
      BY <2>2, <2>4 DEF ValidInv
    <2> QED
      BY <2>2, <2>4, <2>5, HotReadInJob
  <1>10. \A c \in 1 .. i' : InJob(c, i)' => IF i' - c < NUMHOTREADS THEN Open(c)' ELSE Closed(c)'
    BY <1>1, <1>9 DEF InJob, Aligned
  <1> QED
    BY <1>1, <1>7, <1>8, <1>10 DEF ValidInv

LEMMA ColdReadStaysValid ==
  ASSUME TypeOK, ValidInv, Scanning, AllValid, ColdRead
  PROVE  ValidInv'
  <1>1. /\ samples' = samples /\ i' = i + 1 /\ i \in Nat
        /\ i + 1 \in 1 .. num_samples /\ NUMHOTREADS \in Nat \ {0}
        /\ samples[i + 1].access_type \in {"C", "c"}
        /\ UNCHANGED <<total_hot_reads, valid_hot_reads, no_invalid_reads, valid_hot_cost,
                       hot_cost, l_cpu>>
    BY CurrentType, ScanAssumption DEF ColdRead, AdvanceScan, TypeOK, hotvars
  <1>2. samples[i + 1].access_type = "C"
    BY <1>1 DEF AllValid
  <1>3. Cardinality(HotsUpTo(i + 1)) = Cardinality(HotsUpTo(i))
    BY <1>1, <1>2, HotsGrow
  <1>4. HotsUpTo(i)' = HotsUpTo(i + 1)
    BY <1>1 DEF HotsUpTo
  <1>5. ASSUME NEW c \in 1 .. i + 1, InJob(c, i + 1) PROVE c = i + 1
    <2> SUFFICES ASSUME c # i + 1 PROVE FALSE
      OBVIOUS
    <2>1. i + 1 \in c + 1 .. i + 1
      BY <1>1
    <2> QED
      BY <1>2, <1>5, <2>1 DEF InJob
  <1> PICK e : e = i + 1
    OBVIOUS
  <1>6. InJob(e, e) => Open(e)'
    <2> SUFFICES ASSUME InJob(e, e) PROVE Open(e)'
      OBVIOUS
    <2>1. Cardinality(HotsUpTo(e)) % NUMHOTREADS = 0
      BY DEF InJob, Aligned, HotsUpTo
    <2>2. total_hot_reads' = 0 /\ valid_hot_reads' = 0 /\ no_invalid_reads'
      BY <1>1, <1>3, <2>1 DEF ValidInv
    <2>3. total_hot_reads' = i' - e /\ ~(i' > e) /\ ~(valid_hot_reads' > 0)
      BY <1>1, <2>2
    <2>4. \A h : h \notin e + 1 .. i'
      BY <1>1
    <2> QED
      BY <2>2, <2>3, <2>4 DEF Open
  <1>7. \A c \in 1 .. i' : InJob(c, i)' => IF i' - c < NUMHOTREADS THEN Open(c)' ELSE Closed(c)'
    <2> SUFFICES ASSUME NEW c \in 1 .. i', InJob(c, i)'
                 PROVE  IF i' - c < NUMHOTREADS THEN Open(c)' ELSE Closed(c)'
      OBVIOUS
    <2>1. InJob(c, i + 1)
      BY <1>1 DEF InJob, Aligned
    <2>2. c = e /\ i' - c < NUMHOTREADS
      BY <1>1, <1>5, <2>1
    <2> QED
      BY <1>6, <2>1, <2>2
  <1>8. samples'[i'].access_type = "C"
    BY <1>1, <1>2
  <1> QED
    BY <1>1, <1>3, <1>4, <1>7, <1>8 DEF ValidInv

LEMMA PreemptionStaysValid ==
  ASSUME TypeOK, ValidInv, Scanning, AllValid, ValidPreemption \/ InvalidPreemption
  PROVE  ValidInv'
  <1>1. /\ samples' = samples /\ i' = i + 1 /\ i \in Nat
        /\ i + 1 \in 1 .. num_samples /\ NUMHOTREADS \in Nat \ {0}
        /\ Current = samples[i + 1] /\ samples[i + 1].access_type \in {"P", "p"}
        /\ UNCHANGED <<total_hot_reads, valid_hot_reads, no_invalid_reads, valid_hot_cost,
                       hot_cost>>
        /\ l_cpu' = samples[i + 1].cpu
    BY CurrentType, ScanAssumption
    DEF ValidPreemption, InvalidPreemption, AdvanceScan, TypeOK, hotvars
  <1>2. samples[i + 1].access_type = "P"
    BY <1>1 DEF AllValid
  <1>3. Cardinality(HotsUpTo(i + 1)) = Cardinality(HotsUpTo(i)) /\ HotsUpTo(i)' = HotsUpTo(i + 1)
    <2>1. HotsUpTo(i)' = HotsUpTo(i + 1)
      BY <1>1 DEF HotsUpTo
    <2> QED
      BY <1>1, <1>2, <2>1, HotsGrow
  <1>4. \A c \in 1 .. i' : InJob(c, i)' => IF i' - c < NUMHOTREADS THEN Open(c)' ELSE Closed(c)'
    <2> SUFFICES ASSUME NEW c \in 1 .. i', InJob(c, i)'
                 PROVE  IF i' - c < NUMHOTREADS THEN Open(c)' ELSE Closed(c)'
      OBVIOUS
    <2>1. InJob(c, i + 1) /\ c \in 1 .. i + 1
      BY <1>1 DEF InJob, Aligned
    <2>2. c \in 1 .. i /\ i - c >= NUMHOTREADS /\ Closed(c)
      BY <1>1, <1>2, <2>1, PreemptedInJob
    <2>3. Closed(c)'
      <3>1. HasBaseline(c)' <=> HasBaseline(c)
        BY <1>1, SamesSamples
      <3>2. IsBaseline(c, hot_cost)' <=> IsBaseline(c, hot_cost)
        BY <1>1 DEF IsBaseline, InValidPrefix
      <3> QED
        BY <1>1, <2>2, <3>1, <3>2 DEF Closed
    <2>4. ~(i' - c < NUMHOTREADS)
      BY <1>1, <2>2
    <2> QED
      BY <2>3, <2>4
  <1>5. l_cpu' = samples'[i'].cpu
    BY <1>1
  <1> QED
    BY <1>1, <1>3, <1>4, <1>5 DEF ValidInv

LEMMA ReportStaysRight ==
  ASSUME TypeOK, ValidInv, DelaysInv, Scanning, AllValid, ValidPreemption
  PROVE  DelaysInv'
  <1> PICK n : n = Len(source)
    OBVIOUS
  <1>1. /\ samples' = samples /\ i' = i + 1 /\ i \in Nat
        /\ Current = samples[i + 1] /\ samples[i + 1].access_type = "P"
        /\ samples[i + 1].access_time \in Nat /\ hot_cost \in Nat
        /\ full_costs' = Append(full_costs, Overhead) /\ source' = Append(source, i + 1)
    BY CurrentType, ThreeKinds, ScanAssumption DEF ValidPreemption, AdvanceScan, TypeOK
  <1>2. /\ n \in Nat /\ Len(full_costs) = n
        /\ Len(source') = n + 1 /\ source'[n + 1] = i + 1 /\ full_costs'[n + 1] = Overhead
        /\ \A k \in 1 .. n : source'[k] = source[k] /\ full_costs'[k] = full_costs[k]
    BY <1>1, LenProperties DEF TypeOK
  <1>3. Reported(Overhead, i + 1)
    <2>1. /\ Overhead.curr_cpu = samples[i + 1].cpu
          /\ Overhead.plen = samples[i + 1].preemption_length
          /\ Overhead.last_cpu = l_cpu
          /\ samples[i + 1].access_time - Overhead.ovd = hot_cost
      BY <1>1 DEF Overhead
    <2>2. i + 1 > 1 /\ samples[(i + 1) - 1].access_type # "C" => l_cpu = samples[(i + 1) - 1].cpu
      BY <1>1 DEF ValidInv
    <2>3. ASSUME NEW c \in 1 .. i + 1, InJob(c, i + 1) PROVE IsBaseline(c, hot_cost)
      <3>1. Closed(c) /\ valid_hot_cost
        BY <1>1, <2>3, PreemptedInJob DEF ValidPreemption
      <3> QED
        BY <3>1 DEF Closed
    <2> QED
      BY <1>1, <2>1, <2>2, <2>3 DEF Reported
  <1>4. ASSUME NEW k \in 1 .. n + 1
        PROVE  source'[k] \in 1 .. i' /\ Reported(full_costs'[k], source'[k])
    <2>1. CASE k = n + 1
      BY <1>1, <1>2, <1>3, <2>1
    <2>2. CASE k # n + 1
      <3>1. k \in 1 .. n
        BY <1>2, <2>2
      <3> QED
        BY <1>1, <1>2, <3>1 DEF DelaysInv
    <2> QED
      BY <2>1, <2>2
  <1> QED
    BY <1>1, <1>2, <1>4, SameInJob DEF DelaysInv

LEMMA ValidStep ==
  ASSUME TypeOK, AllValid, ValidInv, DelaysInv, [Next]_vars
  PROVE  ValidInv' /\ DelaysInv'
  <1>1. CASE HotRead \/ ColdRead \/ InvalidPreemption
    <2>1. Scanning /\ samples' = samples /\ i' = i + 1 /\ UNCHANGED <<full_costs, source>>
      BY <1>1 DEF HotRead, ColdRead, InvalidPreemption, AdvanceScan, outvars
    <2>2. DelaysInv'
      BY <2>1, SameInJob DEF DelaysInv, TypeOK
    <2> QED
      BY <1>1, <2>1, <2>2, HotReadStaysValid, ColdReadStaysValid, PreemptionStaysValid
  <1>2. CASE ValidPreemption
    <2>1. Scanning
      BY <1>2 DEF ValidPreemption
    <2> QED
      BY <1>2, <2>1, PreemptionStaysValid, ReportStaysRight
  <1>3. CASE UNCHANGED <<samples, i, hotvars, l_cpu, outvars>>
    <2>1. \A c : Open(c)' <=> Open(c)
      BY <1>3 DEF Open, hotvars, HasBaseline, BaselineUpTo, InValidPrefix
    <2>2. \A c : Closed(c)' <=> Closed(c)
      BY <1>3 DEF Closed, hotvars, HasBaseline, IsBaseline, InValidPrefix
    <2> QED
      BY <1>3, <2>1, <2>2, SameInJob DEF ValidInv, DelaysInv, hotvars, outvars
  <1> QED
    BY <1>1, <1>2, <1>3 DEF Next, Scan, Allocation, ReadSamples, AllocCosts, AllocC, AllocH,
                            AllocP, Allocate, Return, Returned, vars

LEMMA DelaysAlways == PipelineSpec => [](AllValid => ValidInv /\ DelaysInv)
  <1> DEFINE Inv == AllValid => ValidInv /\ DelaysInv
  <1>1. ScanStarts => Inv
    BY ValidStart
  <1>2. TypeOK /\ Inv /\ [Next]_vars => Inv'
    <2> SUFFICES ASSUME TypeOK, Inv, [Next]_vars, AllValid' PROVE ValidInv' /\ DelaysInv'
      OBVIOUS
    <2>1. AllValid
      BY SamplesStay, SameInJob
    <2> QED
      BY <2>1, ValidStep
  <1>3. PipelineInit => ScanStarts
    BY AnyTraceStarts DEF PipelineInit
  <1>4. UNCHANGED pipevars => UNCHANGED vars
    BY DEF pipevars
  <1> HIDE DEF Inv
  <1>5. PipelineSpec => []Inv
    BY <1>1, <1>2, <1>3, <1>4, StageAlways, PTL DEF PipelineSpec
  <1> QED
    BY <1>5 DEF Inv

LEMMA AsSampleIs ==
  ASSUME NEW e
  PROVE  /\ AsSample(e).access_type = e.access_type /\ AsSample(e).access_time = e.access_time
         /\ AsSample(e).cpu = e.cpu /\ AsSample(e).preemption_length = e.preemption_length[1]
  BY DEF AsSample

LEMMA MeasuredAreValid ==
  ASSUME KnownInv, Measured
  PROVE  /\ AllValid /\ num_samples = j /\ j \in Nat
         /\ \A k \in 1 .. j : samples[k] = AsSample(PointOf(k)) /\ PointOf(k) \in DataPoint
  <1>1. j \in Nat /\ FileShape
    BY DEF Measured, FileShape
  <1>2. /\ num_samples = j
        /\ \A k \in 1 .. j : samples[k] = AsSample(PointOf(k))
    BY <1>1 DEF Measured, num_samples
  <1>3. \A k \in 1 .. j : PointOf(k) \in DataPoint
    BY <1>1, PointIsDataPoint DEF KnownInv
  <1>4. \A k \in 1 .. j : samples[k].access_type \in {"C", "H", "P"}
    <2> SUFFICES ASSUME NEW k \in 1 .. j PROVE samples[k].access_type \in {"C", "H", "P"}
      OBVIOUS
    <2> PICK e : e = PointOf(k)
      OBVIOUS
    <2>1. e \in DataPoint /\ samples[k] = AsSample(e)
      BY <1>2, <1>3
    <2>2. samples[k].access_type = e.access_type
      BY <2>1, AsSampleIs
    <2> QED
      BY <2>1, <2>2 DEF DataPoint
  <1> QED
    BY <1>1, <1>2, <1>3, <1>4 DEF AllValid

\* The samples c to s are consecutive data points of one run.
Piece(c, s, points, p) ==
  /\ points \in Seq(DataPoint) /\ p \in Nat \ {0} /\ p + (s - c) <= Len(points)
  /\ \A h \in c .. s : samples[h] = AsSample(points[p + (h - c)])

LEMMA PieceIs ==
  ASSUME KnownInv, Measured, NEW c \in 1 .. num_samples, NEW s \in c .. num_samples, Unbroken(c, s)
  PROVE  /\ Piece(c, s, saved[RunOf(c)], PlaceOf(c))
         /\ Kept(saved[RunOf(c)])
         /\ RunOf(s) = RunOf(c) /\ PlaceOf(s) = PlaceOf(c) + (s - c)
  <1>1. /\ num_samples = j /\ j \in Nat
        /\ \A k \in 1 .. j : samples[k] = AsSample(PointOf(k))
    BY MeasuredAreValid
  <1> PICK r : r = RunOf(c)
    OBVIOUS
  <1> PICK p : p = PlaceOf(c)
    OBVIOUS
  <1>2. \A k \in 1 .. j : RunOf(k) \in 1 .. run /\ PlaceOf(k) \in 1 .. Len(saved[RunOf(k)])
    BY DEF Measured, FileShape
  <1>3. r \in 1 .. run /\ c \in 1 .. j /\ s \in 1 .. j /\ c <= s
    BY <1>1, <1>2
  <1>4. Kept(saved[r])
    BY <1>3 DEF KnownInv, MeasuredInv, SavedInv
  <1>5. saved[r] \in Seq(DataPoint) /\ Len(saved[r]) \in Nat
    BY <1>4, LenProperties DEF Kept
  <1>6. p \in 1 .. Len(saved[r])
    BY <1>2, <1>3
  <1>7. \A k \in c + 1 .. s : RunOf(k) = r /\ PlaceOf(k) = p + k - c
    BY DEF Unbroken
  <1>8. \A k \in c .. s : RunOf(k) = r /\ PlaceOf(k) = p + (k - c) /\ k \in 1 .. j
    <2> SUFFICES ASSUME NEW k \in c .. s
                 PROVE  RunOf(k) = r /\ PlaceOf(k) = p + (k - c) /\ k \in 1 .. j
      OBVIOUS
    <2>1. k = c \/ k \in c + 1 .. s
      BY <1>3
    <2> QED
      BY <1>1, <1>3, <1>6, <1>7, <2>1
  <1>9. RunOf(s) = r /\ PlaceOf(s) = p + (s - c)
    BY <1>3, <1>8
  <1>10. p + (s - c) <= Len(saved[r])
    BY <1>2, <1>3, <1>5, <1>6, <1>9
  <1>11. \A h \in c .. s : samples[h] = AsSample(saved[r][p + (h - c)])
    BY <1>1, <1>8 DEF PointOf
  <1> QED
    BY <1>4, <1>5, <1>6, <1>9, <1>10, <1>11 DEF Piece

\* In such a piece the last cold access before a preemption starts its job.
LEMMA PieceIsJob ==
  ASSUME NEW c \in Nat \ {0}, NEW s \in Nat, c <= s, NEW points, NEW p, Piece(c, s, points, p),
         Kept(points), samples[c].access_type = "C", samples[s].access_type = "P",
         \A k \in c + 1 .. s : samples[k].access_type # "C", Aligned(c)
  PROVE  InJob(c, s) /\ s > c + NUMHOTREADS
  <1>1. /\ points \in Seq(DataPoint) /\ p \in Nat \ {0} /\ p + (s - c) <= Len(points)
        /\ Len(points) \in Nat /\ REFTOTAL = NUMHOTREADS /\ NUMHOTREADS \in Nat \ {0}
    BY Constants, LenProperties DEF Piece
  <1> PICK n : n = Len(points)
    OBVIOUS
  <1>2. \A h \in c .. s : /\ p + (h - c) \in 1 .. n
                          /\ samples[h].access_type = points[p + (h - c)].access_type
    <2> SUFFICES ASSUME NEW h \in c .. s
                 PROVE  /\ p + (h - c) \in 1 .. n
                        /\ samples[h].access_type = points[p + (h - c)].access_type
      OBVIOUS
    <2>1. p + (h - c) \in 1 .. n
      BY <1>1
    <2>2. samples[h] = AsSample(points[p + (h - c)])
      BY DEF Piece
    <2> QED
      BY <2>1, <2>2, AsSampleIs
  <1>3. Is(points, p, "C")
    <2>1. c \in c .. s /\ p + (c - c) = p
      BY <1>1
    <2> QED
      BY <1>2, <2>1 DEF Is
  <1>4. ASSUME NEW h \in c + 1 .. s, h <= c + NUMHOTREADS PROVE samples[h].access_type = "H"
    <2> PICK q : q = p + (h - c)
      OBVIOUS
    <2>1. h \in c .. s /\ q \in 1 .. n /\ p \in 1 .. n /\ q \in p + 1 .. p + REFTOTAL /\ q <= n
      BY <1>1, <1>2, <1>4
    <2>2. Is(points, q, "H")
      BY <1>3, <2>1 DEF Kept, HotAfter
    <2> QED
      BY <1>2, <2>1, <2>2 DEF Is
  <1>5. ASSUME NEW h \in c + 1 .. s, h > c + NUMHOTREADS PROVE samples[h].access_type = "P"
    <2> PICK q : q = p + (h - c)
      OBVIOUS
    <2>1. h \in c .. s /\ q \in 1 .. n /\ p \in 1 .. n /\ p < q
      BY <1>1, <1>2
    <2>2. samples[h].access_type = points[q].access_type
      BY <1>2, <2>1
    <2>3. points[q].access_type # "H"
      <3> SUFFICES ASSUME points[q].access_type = "H" PROVE FALSE
        OBVIOUS
      <3>1. PICK d \in p .. q - 1 : Is(points, d, "C") /\ q <= d + REFTOTAL
        BY <1>3, <2>1 DEF Kept, ColdBefore, Is
      <3> PICK e : e = c + (d - p)
        OBVIOUS
      <3>2. e \in c + 1 .. s /\ e \in c .. s /\ p + (e - c) = d
        BY <1>1, <1>5, <2>1, <3>1
      <3>3. samples[e].access_type = "C"
        BY <1>2, <3>1, <3>2 DEF Is
      <3> QED
        BY <3>2, <3>3
    <2>4. points[q] \in DataPoint
      BY <1>1, <2>1, ElementOfSeq
    <2>5. points[q].access_type \in {"C", "H", "P"}
      BY <2>4 DEF DataPoint
    <2> QED
      BY <2>2, <2>3, <2>5
  <1>6. InJob(c, s)
    <2>1. \A h \in c + 1 .. s : h <= c + NUMHOTREADS \/ h > c + NUMHOTREADS
      BY <1>1
    <2>2. \A h \in c + 1 .. s : h > c + NUMHOTREADS => ~(h <= c + NUMHOTREADS)
      BY <1>1
    <2> QED
      BY <1>4, <1>5, <2>1, <2>2 DEF InJob
  <1>7. s # c
    OBVIOUS
  <1>8. ~(s <= c + NUMHOTREADS)
    <2>1. s \in c + 1 .. s
      BY <1>7
    <2> QED
      BY <1>4, <2>1
  <1> QED
    BY <1>1, <1>6, <1>8

\* Then the difference of the preemption to the baseline of its job is its
\* delay.
LEMMA DifferenceIsDelay ==
  ASSUME NEW c \in Nat \ {0}, NEW s \in Nat, s > c + NUMHOTREADS,
         \A h \in c + 1 .. c + NUMHOTREADS : samples[h].access_type = "H",
         NEW points, NEW p, Piece(c, s, points, p),
         NEW cost \in FullOvd,
         cost.curr_cpu = samples[s].cpu, cost.last_cpu = samples[s - 1].cpu,
         cost.plen = samples[s].preemption_length,
         IsBaseline(c, samples[s].access_time - cost.ovd)
  PROVE  cost = DelayAt(points, p, p + (s - c))
  <1>1. /\ points \in Seq(DataPoint) /\ p \in Nat \ {0} /\ p + (s - c) <= Len(points)
        /\ Len(points) \in Nat /\ REFTOTAL = NUMHOTREADS /\ NUMHOTREADS \in Nat \ {0}
    BY Constants, LenProperties DEF Piece
  <1> PICK q : q = p + (s - c)
    OBVIOUS
  <1>2. q \in 1 .. Len(points) /\ q \in Nat /\ q = p + (s - c)
    BY <1>1
  <1>3. samples[s] = AsSample(points[q]) /\ samples[s - 1] = AsSample(points[q - 1])
    <2>1. s \in c .. s /\ s - 1 \in c .. s /\ p + ((s - 1) - c) = q - 1
      BY <1>1, <1>2
    <2> QED
      BY <1>2, <2>1 DEF Piece
  <1>5. /\ cost.curr_cpu = points[q].cpu /\ cost.last_cpu = points[q - 1].cpu
        /\ cost.plen = points[q].preemption_length[1]
        /\ samples[s].access_time = points[q].access_time
    BY <1>3, AsSampleIs
  <1> PICK b : b = samples[s].access_time - cost.ovd
    OBVIOUS
  <1>6. IsBaseline(c, b)
    OBVIOUS
  <1>7. \A h \in c + 1 .. c + NUMHOTREADS :
          InValidPrefix(c, h) /\ samples[h].access_time = points[p + (h - c)].access_time
    <2> SUFFICES ASSUME NEW h \in c + 1 .. c + NUMHOTREADS
                 PROVE  InValidPrefix(c, h)
                        /\ samples[h].access_time = points[p + (h - c)].access_time
      OBVIOUS
    <2>1. h \in c .. s
      BY <1>1
    <2>2. \A k \in c + 1 .. h : samples[k].access_type = "H"
      <3>1. \A k \in c + 1 .. h : k \in c + 1 .. c + NUMHOTREADS
        BY <1>1
      <3> QED
        BY <3>1
    <2>3. samples[h].access_time = points[p + (h - c)].access_time
      <3>1. samples[h] = AsSample(points[p + (h - c)])
        BY <2>1 DEF Piece
      <3> QED
        BY <3>1, AsSampleIs
    <2> QED
      BY <2>2, <2>3 DEF InValidPrefix
  <1> DEFINE hot == {points[h].access_time : h \in p + 1 .. p + REFTOTAL}
  <1>8. \A h \in c + 1 .. c + NUMHOTREADS : p + (h - c) \in p + 1 .. p + REFTOTAL
    BY <1>1
  <1>9. \A g \in p + 1 .. p + REFTOTAL :
          c + (g - p) \in c + 1 .. c + NUMHOTREADS /\ p + ((c + (g - p)) - c) = g
    BY <1>1
  <1>10. b \in hot
    <2>1. PICK h \in c + 1 .. c + NUMHOTREADS : samples[h].access_time = b
      BY <1>6 DEF IsBaseline
    <2>2. p + (h - c) \in p + 1 .. p + REFTOTAL /\ points[p + (h - c)].access_time = b
      BY <1>7, <1>8, <2>1
    <2> QED
      BY <2>2
  <1>11. \A u \in hot : b <= u
    <2> SUFFICES ASSUME NEW g \in p + 1 .. p + REFTOTAL PROVE b <= points[g].access_time
      OBVIOUS
    <2> PICK h : h = c + (g - p)
      OBVIOUS
    <2>1. h \in c + 1 .. c + NUMHOTREADS /\ p + (h - c) = g
      BY <1>9
    <2> QED
      BY <1>6, <1>7, <2>1 DEF IsBaseline
  <1>12. \A u \in hot : u \in Int
    <2> SUFFICES ASSUME NEW g \in p + 1 .. p + REFTOTAL PROVE points[g].access_time \in Int
      OBVIOUS
    <2>1. g \in 1 .. Len(points)
      BY <1>1, <1>2
    <2>2. points[g] \in DataPoint
      BY <1>1, <2>1, ElementOfSeq
    <2>3. points[g].access_time \in 0 .. SweepLength
      BY <2>2 DEF DataPoint
    <2> QED
      BY <2>3
  <1> HIDE DEF hot
  <1>13. (CHOOSE t \in hot : \A u \in hot : t <= u) = b
    <2> DEFINE best == CHOOSE t \in hot : \A u \in hot : t <= u
    <2>1. best \in hot /\ \A u \in hot : best <= u
      BY <1>10, <1>11
    <2> HIDE DEF best
    <2>2. best <= b /\ b <= best /\ best \in Int /\ b \in Int
      BY <1>10, <1>11, <1>12, <2>1
    <2>3. best = b
      BY <2>2
    <2> QED
      BY <2>3 DEF best
  <1>14. cost.ovd = points[q].access_time - b
    <2>1. cost.ovd \in Int
      BY DEF FullOvd
    <2>2. points[q] \in DataPoint
      BY <1>1, <1>2, ElementOfSeq
    <2>3. points[q].access_time \in 0 .. SweepLength
      BY <2>2 DEF DataPoint
    <2> QED
      BY <1>5, <2>1, <2>3
  <1>15. cost = [curr_cpu |-> points[q].cpu, last_cpu |-> points[q - 1].cpu,
                 ovd |-> points[q].access_time - b, plen |-> points[q].preemption_length[1]]
    BY <1>5, <1>14 DEF FullOvd
  <1>16. DelayAt(points, p, q) =
           [curr_cpu |-> points[q].cpu, last_cpu |-> points[q - 1].cpu,
            ovd |-> points[q].access_time - b, plen |-> points[q].preemption_length[1]]
    BY <1>13 DEF DelayAt, hot
  <1> QED
    BY <1>2, <1>15, <1>16

LEMMA ReportedIsDelay ==
  ASSUME NEW c \in Nat \ {0}, NEW s \in Nat, InJob(c, s), s > c + NUMHOTREADS,
         NEW points, NEW p, Piece(c, s, points, p),
         NEW cost \in FullOvd, Reported(cost, s)
  PROVE  cost = DelayAt(points, p, p + (s - c))
  <1>1. NUMHOTREADS \in Nat \ {0}
    BY Constants
  <1>2. \A h \in c + 1 .. c + NUMHOTREADS : samples[h].access_type = "H"
    <2>1. \A h \in c + 1 .. c + NUMHOTREADS : h \in c + 1 .. s /\ h <= c + NUMHOTREADS
      BY <1>1
    <2> QED
      BY <2>1 DEF InJob
  <1>3. s > 1 /\ samples[s - 1].access_type # "C"
    <2>1. s - 1 \in c + 1 .. s
      BY <1>1
    <2> QED
      BY <1>1, <2>1 DEF InJob
  <1>4. c \in 1 .. s
    BY <1>1
  <1>5. /\ cost.curr_cpu = samples[s].cpu /\ cost.last_cpu = samples[s - 1].cpu
        /\ cost.plen = samples[s].preemption_length
        /\ IsBaseline(c, samples[s].access_time - cost.ovd)
    BY <1>3, <1>4 DEF Reported
  <1> QED
    BY <1>2, <1>5, DifferenceIsDelay

\* The last cold access before p is one.
LEMMA LastColdIs ==
  ASSUME NEW points, NEW p \in Nat, \E c \in 1 .. p : points[c].access_type = "C"
  PROVE  /\ LastCold(points, p) \in 1 .. p
         /\ points[LastCold(points, p)].access_type = "C"
         /\ \A k \in LastCold(points, p) + 1 .. p : points[k].access_type # "C"
  <1> DEFINE T == {p - c : c \in {d \in 1 .. p : points[d].access_type = "C"}}
  <1>1. T \in SUBSET Nat /\ T # {}
    OBVIOUS
  <1>2. \A c \in 1 .. p : points[c].access_type = "C" => p - c \in T
    OBVIOUS
  <1>3. \A x \in T : \E c \in 1 .. p : points[c].access_type = "C" /\ x = p - c
    OBVIOUS
  <1> HIDE DEF T
  <1>4. PICK x \in T : \A y \in T : x <= y
    BY <1>1, LeastMember
  <1>5. PICK c \in 1 .. p : points[c].access_type = "C" /\ x = p - c
    BY <1>3
  <1>6. \A k \in c + 1 .. p : points[k].access_type # "C"
    <2> SUFFICES ASSUME NEW k \in c + 1 .. p, points[k].access_type = "C" PROVE FALSE
      OBVIOUS
    <2>1. k \in 1 .. p /\ p - k \in T
      BY <1>2
    <2>2. p - c <= p - k
      BY <1>4, <1>5, <2>1
    <2> QED
      BY <2>2
  <1> QED
    BY <1>5, <1>6 DEF LastCold

\* Also from files with overwritten and interrupted runs, every overhead
\* reported for a job the file holds in full, counted from its start, is the
\* delay of that access: its misses beyond the best hot access of its job
\* (pm_common.c:337-403).
THEOREM OverheadsDelays == PipelineSpec => []OverheadsAreDelays
  <1>1. KnownInv /\ StageInv /\ TypeOK /\ (AllValid => ValidInv /\ DelaysInv)
        => OverheadsAreDelays
    <2> SUFFICES ASSUME KnownInv, StageInv, TypeOK, AllValid => ValidInv /\ DelaysInv, Scanned,
                        NEW k \in 1 .. Len(source),
                        {c \in 1 .. source[k] : samples[c].access_type = "C"} # {},
                        Aligned(LastCold(samples, source[k])),
                        Unbroken(LastCold(samples, source[k]), source[k])
                 PROVE  full_costs[k] =
                          DelayAt(saved[RunOf(source[k])], PlaceOf(LastCold(samples, source[k])),
                                  PlaceOf(source[k]))
      BY DEF OverheadsAreDelays
    <2> PICK s : s = source[k]
      OBVIOUS
    <2> PICK c : c = LastCold(samples, s)
      OBVIOUS
    <2>1. Measured /\ AllValid /\ num_samples \in Nat
      <3>1. Measured
        BY DEF StageInv, Scanned
      <3> QED
        BY <3>1, MeasuredAreValid
    <2>2. s \in 1 .. i /\ Reported(full_costs[k], s) /\ i \in 0 .. num_samples
      BY <2>1 DEF DelaysInv, TypeOK
    <2>3. full_costs[k] \in FullOvd
      <3>1. full_costs \in Seq(FullOvd) /\ k \in 1 .. Len(full_costs)
        BY DEF TypeOK
      <3> QED
        BY <3>1, ElementOfSeq
    <2>4. s \in Nat /\ s <= num_samples
      BY <2>1, <2>2
    <2>5. \E d \in 1 .. s : samples[d].access_type = "C"
      OBVIOUS
    <2>6. /\ c \in 1 .. s /\ samples[c].access_type = "C"
          /\ \A h \in c + 1 .. s : samples[h].access_type # "C"
      BY <2>4, <2>5, LastColdIs
    <2>7. c \in 1 .. num_samples /\ s \in c .. num_samples /\ c \in Nat \ {0} /\ c <= s
      BY <2>1, <2>4, <2>6
    <2>8. /\ Piece(c, s, saved[RunOf(c)], PlaceOf(c)) /\ Kept(saved[RunOf(c)])
          /\ RunOf(s) = RunOf(c) /\ PlaceOf(s) = PlaceOf(c) + (s - c)
      BY <2>1, <2>7, PieceIs
    <2>9. samples[s].access_type = "P"
      BY <2>2 DEF Reported
    <2>10. InJob(c, s) /\ s > c + NUMHOTREADS
      BY <2>4, <2>6, <2>7, <2>8, <2>9, PieceIsJob
    <2>11. full_costs[k] = DelayAt(saved[RunOf(c)], PlaceOf(c), PlaceOf(c) + (s - c))
      BY <2>2, <2>3, <2>4, <2>7, <2>8, <2>10, ReportedIsDelay
    <2> QED
      BY <2>8, <2>11
  <1> QED
    BY <1>1, KnownAlways, StageAlways, DelaysAlways, PTL

-----------------------------------------------------------------------------
(* Complete trace files.                                                   *)

\* A growing sequence of all the members of a set has them in order.
LEMMA InOrder ==
  ASSUME NEW u \in Nat, NEW K \in SUBSET (1 .. u), NEW src \in Seq(K),
         \A x \in K : \E k \in 1 .. Len(src) : src[k] = x,
         \A k \in 1 .. Len(src) - 1 : src[k] < src[k + 1]
  PROVE  /\ Cardinality(K) = Len(src)
         /\ \A k \in 1 .. Len(src) : Nth(K, k) = src[k]
  <1> PICK n : n = Len(src)
    OBVIOUS
  <1>1. /\ n \in Nat /\ DOMAIN src = 1 .. n
        /\ \A k \in 1 .. n : src[k] \in K /\ src[k] \in Int
    <2>1. n \in Nat /\ DOMAIN src = 1 .. n
      BY LenProperties
    <2>2. \A k \in 1 .. n : src[k] \in K
      BY ElementOfSeq
    <2>3. \A x \in K : x \in Int
      OBVIOUS
    <2> QED
      BY <2>1, <2>2, <2>3
  <1>2. IsFiniteSet(K) /\ K \in SUBSET Int
    <2>1. IsFiniteSet(1 .. u)
      BY FS_Interval
    <2>2. IsFiniteSet(K)
      BY <2>1, FS_Subset
    <2> QED
      BY <2>2
  <1>3. \A k \in 0 .. n : \A l \in 1 .. k : \A m \in l + 1 .. k : src[l] < src[m]
    <2> DEFINE S == {k \in 0 .. n : \A l \in 1 .. k : \A m \in l + 1 .. k : src[l] < src[m]}
    <2>1. 0 \in S
      BY <1>1
    <2>2. ASSUME NEW k \in 0 .. n - 1, k \in S PROVE k + 1 \in S
      <3>1. k + 1 \in 0 .. n
        BY <1>1
      <3>2. ASSUME NEW l \in 1 .. k + 1, NEW m \in l + 1 .. k + 1 PROVE src[l] < src[m]
        <4>1. CASE m # k + 1
          <5>1. l \in 1 .. k /\ m \in l + 1 .. k
            BY <4>1
          <5> QED
            BY <2>2, <5>1
        <4>2. CASE m = k + 1 /\ l = k
          <5>1. k \in 1 .. n - 1
            BY <4>2
          <5> QED
            BY <4>2, <5>1
        <4>3. CASE m = k + 1 /\ l # k
          <5>1. l \in 1 .. k /\ k \in l + 1 .. k /\ k \in 1 .. n - 1 /\ k + 1 \in 1 .. n
                /\ l \in 1 .. n /\ k \in 1 .. n
            BY <1>1, <4>3
          <5>2. src[l] < src[k] /\ src[k] < src[k + 1]
            BY <2>2, <5>1
          <5>3. src[l] \in Int /\ src[k] \in Int /\ src[k + 1] \in Int
            BY <1>1, <5>1
          <5>4. src[l] < src[k + 1]
            BY <5>2, <5>3
          <5> QED
            BY <4>3, <5>4
        <4> QED
          BY <4>1, <4>2, <4>3
      <3> QED
        BY <3>1, <3>2
    <2> HIDE DEF S
    <2>3. \A k \in 0 .. n : k \in S
      BY <1>1, <2>1, <2>2, LoopInduction
    <2> QED
      BY <2>3 DEF S
  <1>4. \A l, m \in 1 .. n : l < m => src[l] < src[m]
    <2> SUFFICES ASSUME NEW l \in 1 .. n, NEW m \in 1 .. n, l < m PROVE src[l] < src[m]
      OBVIOUS
    <2>1. n \in 0 .. n /\ m \in l + 1 .. n
      BY <1>1
    <2> QED
      BY <1>3, <2>1
  <1>5. \A l, m \in 1 .. n : src[l] = src[m] => l = m
    <2> SUFFICES ASSUME NEW l \in 1 .. n, NEW m \in 1 .. n, src[l] = src[m], l # m PROVE FALSE
      OBVIOUS
    <2>1. l < m \/ m < l
      OBVIOUS
    <2> QED
      BY <1>1, <1>4, <2>1
  <1>6. ASSUME NEW k \in 1 .. n PROVE Rank(K, src[k]) = k
    <2> DEFINE T == {y \in K : y <= src[k]}
               f == [l \in 1 .. k |-> src[l]]
    <2>1. \A l \in 1 .. k : l \in 1 .. n /\ src[l] \in T
      <3> SUFFICES ASSUME NEW l \in 1 .. k PROVE l \in 1 .. n /\ src[l] \in T
        OBVIOUS
      <3>1. l \in 1 .. n /\ (l = k \/ l < k)
        BY <1>1
      <3>2. src[l] <= src[k]
        BY <1>1, <1>4, <3>1
      <3> QED
        BY <1>1, <3>1, <3>2
    <2>2. \A y \in T : \E l \in 1 .. k : src[l] = y
      <3> SUFFICES ASSUME NEW y \in T PROVE \E l \in 1 .. k : src[l] = y
        OBVIOUS
      <3>1. PICK l \in 1 .. n : src[l] = y
        OBVIOUS
      <3>2. src[l] <= src[k]
        BY <3>1
      <3>3. ~(k < l)
        BY <1>1, <1>4, <3>1, <3>2
      <3> QED
        BY <1>1, <3>1, <3>3
    <2> HIDE DEF T
    <2>3. f \in [1 .. k -> T] /\ \A l \in 1 .. k : f[l] = src[l]
      BY <2>1
    <2> HIDE DEF f
    <2>4. f \in Surjection(1 .. k, T)
      BY <2>2, <2>3 DEF Surjection
    <2>5. f \in Injection(1 .. k, T)
      BY <1>5, <2>1, <2>3 DEF Injection, IsInjective
    <2>6. IsFiniteSet(1 .. k) /\ Cardinality(1 .. k) = k
      BY <1>1, FS_Interval
    <2>7. Cardinality(T) = k
      BY <2>4, <2>5, <2>6, FS_Surjection
    <2> QED
      BY <2>7 DEF Rank, T
  <1>7. \A x \in K : Nth(K, Rank(K, x)) = x
    BY <1>2, NthOf
  <1>8. \A k \in 1 .. n : Nth(K, k) = src[k]
    BY <1>1, <1>6, <1>7
  <1>9. Cardinality(K) = n
    <2>1. src \in [1 .. n -> K]
      BY <1>1
    <2>2. src \in Surjection(1 .. n, K)
      BY <2>1 DEF Surjection
    <2>3. src \in Injection(1 .. n, K)
      BY <1>5, <2>1 DEF Injection, IsInjective
    <2>4. IsFiniteSet(1 .. n) /\ Cardinality(1 .. n) = n
      <3>1. 1 \in Int /\ n \in Int /\ (IF 1 > n THEN 0 ELSE n - 1 + 1) = n
        BY <1>1
      <3>2. IsFiniteSet(1 .. n) /\ Cardinality(1 .. n) = IF 1 > n THEN 0 ELSE n - 1 + 1
        BY <3>1, FS_Interval
      <3> QED
        BY <3>1, <3>2
    <2> QED
      BY <2>2, <2>3, <2>4, FS_Surjection
  <1> QED
    BY <1>8, <1>9

\* The runs up to the r-th are the first l data points of the file.
UpToRun(flat, r, l) ==
  /\ l \in 0 .. j /\ flat[r] \in Seq(DataPoint) /\ Len(flat[r]) = l
  /\ \A k \in 1 .. j : RunOf(k) <= r <=> k <= l
  /\ \A k \in 1 .. l : flat[r][k] = PointOf(k)

\* All of run r is in the file.
Entire(r, s) ==
  /\ s \in Nat /\ s + Len(saved[r]) <= j
  /\ \A k \in 1 .. j : RunOf(k) = r <=> k \in s + 1 .. s + Len(saved[r])
  /\ \A k \in s + 1 .. s + Len(saved[r]) : PlaceOf(k) = k - s

LEMMA CompleteIs ==
  ASSUME MeasuredInv, FileShape, Complete
  PROVE  /\ saved \in [1 .. run -> Seq(DataPoint)] /\ run \in Nat /\ j \in Nat
         /\ \A r \in 1 .. run : /\ Kept(saved[r]) /\ FromStart(saved[r])
                                /\ Len(saved[r]) \in Nat
                                /\ \E s \in Nat : Entire(r, s)
  <1>1. /\ saved \in Seq(Seq(DataPoint)) /\ Len(saved) = run /\ run \in Nat /\ j \in Nat
        /\ \A r \in 1 .. run : Kept(saved[r])
    BY DEF MeasuredInv, SavedInv, PageType, FileShape
  <1>2. saved \in [1 .. run -> Seq(DataPoint)]
    <2> DEFINE D == Seq(DataPoint)
    <2> HIDE DEF D
    <2>1. saved \in Seq(D)
      BY <1>1 DEF D
    <2>2. saved \in [1 .. run -> D]
      BY <1>1, <2>1
    <2> QED
      BY <2>2 DEF D
  <1>3. ASSUME NEW r \in 1 .. run
        PROVE  /\ FromStart(saved[r])
               /\ Len(saved[r]) \in Nat
               /\ \E s \in Nat : Entire(r, s)
    <2>1. taken[r] = Len(saved[r]) /\ runs[r].outcome = "success"
      BY <1>1 DEF Complete
    <2>2. FromStart(saved[r]) /\ runs[r].num = Len(saved[r])
      BY <2>1 DEF MeasuredInv, SavedInv
    <2>3. Len(saved[r]) \in Nat
      BY <1>1, LenProperties DEF Kept
    <2>4. PICK s, n \in Nat : FromRun(r, s, n)
      BY DEF FileShape
    <2>5. n = Len(saved[r])
      BY <2>1, <2>2, <2>4 DEF FromRun, FP!MayLeave
    <2>6. Entire(r, s)
      BY <2>4, <2>5 DEF FromRun, Entire
    <2> QED
      BY <2>2, <2>3, <2>6
  <1> QED
    BY <1>1, <1>2, <1>3

LEMMA NextRunIs ==
  ASSUME MeasuredInv, FileShape, Complete, NEW flat, NEW r \in 0 .. run - 1, NEW l,
         UpToRun(flat, r, l), flat[r + 1] = flat[r] \o saved[r + 1]
  PROVE  \E m : UpToRun(flat, r + 1, m)
  <1>1. /\ saved \in [1 .. run -> Seq(DataPoint)] /\ run \in Nat /\ j \in Nat
        /\ r \in Nat /\ r + 1 \in 1 .. run
    BY CompleteIs
  <1> PICK q : q = r + 1
    OBVIOUS
  <1> PICK n : n = Len(saved[q])
    OBVIOUS
  <1>2. PICK s \in Nat : Entire(q, s)
    BY <1>1, CompleteIs
  <1>3. /\ n \in Nat /\ s + n <= j
        /\ \A k \in 1 .. j : RunOf(k) = q <=> k \in s + 1 .. s + n
        /\ \A k \in s + 1 .. s + n : PlaceOf(k) = k - s
    BY <1>1, <1>2, CompleteIs DEF Entire
  <1>4. /\ l \in 0 .. j /\ flat[r] \in Seq(DataPoint) /\ Len(flat[r]) = l
        /\ \A k \in 1 .. j : RunOf(k) <= r <=> k <= l
        /\ \A k \in 1 .. l : flat[r][k] = PointOf(k)
    BY DEF UpToRun
  <1>5. /\ \A k \in 1 .. j : RunOf(k) \in Int
        /\ \A k, m \in 1 .. j : k <= m => RunOf(k) <= RunOf(m)
    BY DEF FileShape
  <1>6. n > 0 => s = l
    <2> SUFFICES ASSUME n > 0 PROVE s = l
      OBVIOUS
    <2>1. s + 1 \in s + 1 .. s + n /\ s + 1 \in 1 .. j
      BY <1>1, <1>3
    <2>2. RunOf(s + 1) = q
      BY <1>3, <2>1
    <2>3. ~(s + 1 <= l)
      BY <1>1, <1>4, <2>1, <2>2
    <2>4. ~(s > l)
      <3> SUFFICES ASSUME s > l PROVE FALSE
        OBVIOUS
      <3>1. l + 1 \in 1 .. j /\ l + 1 \notin s + 1 .. s + n /\ l + 1 <= s + 1 /\ ~(l + 1 <= l)
        BY <1>1, <1>3, <1>4
      <3>2. RunOf(l + 1) # q /\ ~(RunOf(l + 1) <= r)
        BY <1>3, <1>4, <3>1
      <3>3. RunOf(l + 1) <= q
        BY <1>5, <2>1, <2>2, <3>1
      <3>4. RunOf(l + 1) \in Int
        BY <1>5, <3>1
      <3> QED
        BY <1>1, <3>2, <3>3, <3>4
    <2> QED
      BY <1>4, <2>3, <2>4
  <1>7. l + n \in 0 .. j
    BY <1>1, <1>3, <1>4, <1>6
  <1>8. \A k \in 1 .. j : RunOf(k) <= q <=> k <= l + n
    <2> SUFFICES ASSUME NEW k \in 1 .. j PROVE RunOf(k) <= q <=> k <= l + n
      OBVIOUS
    <2>1. RunOf(k) <= q <=> (RunOf(k) <= r \/ RunOf(k) = q)
      BY <1>1, <1>5
    <2>2. RunOf(k) = q <=> k \in s + 1 .. s + n
      BY <1>3
    <2>3. RunOf(k) <= r <=> k <= l
      BY <1>4
    <2>4. k <= l + n <=> (k <= l \/ k \in s + 1 .. s + n)
      BY <1>3, <1>4, <1>6
    <2> QED
      BY <2>1, <2>2, <2>3, <2>4
  <1>9. saved[q] \in Seq(DataPoint) /\ flat[q] = flat[r] \o saved[q]
    BY <1>1
  <1>10. /\ flat[q] \in Seq(DataPoint) /\ Len(flat[q]) = l + n
         /\ \A k \in 1 .. l + n :
              flat[q][k] = IF k <= l THEN flat[r][k] ELSE saved[q][k - l]
    <2> PICK f : f = flat[r]
      OBVIOUS
    <2> PICK g : g = saved[q]
      OBVIOUS
    <2>1. f \in Seq(DataPoint) /\ g \in Seq(DataPoint) /\ Len(f) = l /\ Len(g) = n
      BY <1>4, <1>9
    <2>2. /\ f \o g \in Seq(DataPoint) /\ Len(f \o g) = Len(f) + Len(g)
          /\ \A k \in 1 .. Len(f) + Len(g) :
               (f \o g)[k] = IF k <= Len(f) THEN f[k] ELSE g[k - Len(f)]
      <3> DEFINE D == DataPoint
      <3> HIDE DEF D
      <3>1. f \in Seq(D) /\ g \in Seq(D)
        BY <2>1 DEF D
      <3>2. f \o g \in Seq(D) /\ Len(f \o g) = Len(f) + Len(g)
        BY <3>1, ConcatProperties
      <3>3. \A k \in 1 .. Len(f) + Len(g) :
              (f \o g)[k] = IF k <= Len(f) THEN f[k] ELSE g[k - Len(f)]
        BY <3>1, ConcatProperties
      <3> QED
        BY <3>2, <3>3 DEF D
    <2> QED
      BY <1>9, <2>1, <2>2
  <1>11. \A k \in 1 .. l + n : flat[q][k] = PointOf(k)
    <2> SUFFICES ASSUME NEW k \in 1 .. l + n PROVE flat[q][k] = PointOf(k)
      OBVIOUS
    <2>1. CASE k <= l
      <3>1. k \in 1 .. l
        BY <2>1, <1>4
      <3> QED
        BY <1>4, <1>10, <2>1, <3>1
    <2>2. CASE ~(k <= l)
      <3>1. n > 0 /\ s = l
        BY <1>3, <1>4, <1>6, <2>2
      <3>2. k \in s + 1 .. s + n /\ k \in 1 .. j
        BY <1>1, <1>3, <1>4, <2>2, <3>1
      <3>3. RunOf(k) = q /\ PlaceOf(k) = k - s
        BY <1>3, <3>2
      <3> QED
        BY <1>10, <2>2, <3>1, <3>3 DEF PointOf
    <2> QED
      BY <2>1, <2>2
  <1>12. UpToRun(flat, q, l + n)
    BY <1>7, <1>8, <1>10, <1>11 DEF UpToRun
  <1> QED
    BY <1>12

\* The file is what the runs have saved, one after the other.
LEMMA FileIsSaved ==
  ASSUME MeasuredInv, FileShape, Complete
  PROVE  /\ FlattenSeq(saved) \in Seq(DataPoint) /\ Len(FlattenSeq(saved)) = j
         /\ \A k \in 1 .. j : FlattenSeq(saved)[k] = PointOf(k)
  <1>1. saved \in [1 .. run -> Seq(DataPoint)] /\ run \in Nat /\ j \in Nat
    BY CompleteIs
  <1>2. PICK flat : FirstParts(flat, run, DataPoint, saved)
    <2> HIDE DEF DataPoint
    <2> QED
      BY <1>1, FlattenedOf
  <1>3. /\ flat[0] = <<>> /\ FlattenSeq(saved) = flat[run]
        /\ \A r \in 1 .. run : flat[r] = flat[r - 1] \o saved[r]
    BY <1>2 DEF FirstParts
  <1> DEFINE S == {r \in 0 .. run : \E l : UpToRun(flat, r, l)}
  <1>4. 0 \in S
    <2>1. \A k \in 1 .. j : RunOf(k) \in Int /\ ~(RunOf(k) <= 0) /\ ~(k <= 0)
      BY DEF FileShape
    <2>2. flat[0] \in Seq(DataPoint) /\ Len(flat[0]) = 0
      BY <1>3, EmptySeq
    <2>3. UpToRun(flat, 0, 0)
      BY <1>1, <2>1, <2>2 DEF UpToRun
    <2>4. 0 \in 0 .. run
      BY <1>1
    <2> QED
      BY <2>3, <2>4
  <1>5. ASSUME NEW r \in 0 .. run - 1, r \in S PROVE r + 1 \in S
    <2>1. PICK l : UpToRun(flat, r, l)
      BY <1>5
    <2>2. r + 1 \in 1 .. run /\ (r + 1) - 1 = r /\ r + 1 \in 0 .. run
      BY <1>1
    <2>3. flat[r + 1] = flat[r] \o saved[r + 1]
      BY <1>3, <2>2
    <2>4. \E m : UpToRun(flat, r + 1, m)
      BY <2>1, <2>3, NextRunIs
    <2> QED
      BY <2>2, <2>4
  <1> HIDE DEF S
  <1>6. run \in S
    <2>1. \A r \in 0 .. run : r \in S
      BY <1>1, <1>4, <1>5, LoopInduction
    <2> QED
      BY <1>1, <2>1
  <1>7. PICK l : UpToRun(flat, run, l)
    BY <1>6 DEF S
  <1>8. l = j
    <2>1. \A k \in 1 .. j : RunOf(k) <= run
      BY <1>1 DEF FileShape
    <2>2. l \in 0 .. j /\ \A k \in 1 .. j : k <= l
      BY <1>7, <2>1 DEF UpToRun
    <2> QED
      BY <1>1, <2>2
  <1> QED
    BY <1>3, <1>7, <1>8 DEF UpToRun

\* Sample k is place k - s of run r, which is in the file from s + 1 on.
Spot(k, r, s, n) ==
  /\ r \in 1 .. run /\ s \in Nat /\ n \in Nat /\ s + n <= j /\ k \in s + 1 .. s + n
  /\ Kept(saved[r]) /\ FromStart(saved[r]) /\ Len(saved[r]) = n
  /\ \A q \in 1 .. n :
       /\ samples[s + q].access_type = saved[r][q].access_type
       /\ samples[s + q].cpu = saved[r][q].cpu

LEMMA SpotIs ==
  ASSUME KnownInv, Measured, Complete, NEW k \in 1 .. num_samples
  PROVE  \E r, s, n : Spot(k, r, s, n)
  <1>1. MeasuredInv /\ FileShape
    BY DEF KnownInv, Measured
  <1>2. /\ num_samples = j /\ j \in Nat
        /\ \A l \in 1 .. j : samples[l] = AsSample(PointOf(l))
    BY MeasuredAreValid
  <1> PICK r : r = RunOf(k)
    OBVIOUS
  <1>3. r \in 1 .. run /\ k \in 1 .. j
    BY <1>1, <1>2 DEF FileShape
  <1>4. Kept(saved[r]) /\ FromStart(saved[r]) /\ Len(saved[r]) \in Nat
    BY <1>1, <1>3, CompleteIs
  <1>5. PICK s \in Nat : Entire(r, s)
    BY <1>1, <1>3, CompleteIs
  <1> PICK n : n = Len(saved[r])
    OBVIOUS
  <1>6. /\ s + n <= j /\ k \in s + 1 .. s + n
        /\ \A l \in s + 1 .. s + n : PlaceOf(l) = l - s
        /\ \A l \in 1 .. j : RunOf(l) = r <=> l \in s + 1 .. s + n
    BY <1>3, <1>5 DEF Entire
  <1>7. ASSUME NEW q \in 1 .. n
        PROVE  /\ samples[s + q].access_type = saved[r][q].access_type
               /\ samples[s + q].cpu = saved[r][q].cpu
    <2>1. s + q \in s + 1 .. s + n /\ s + q \in 1 .. j /\ (s + q) - s = q
      BY <1>2, <1>4, <1>6
    <2>2. RunOf(s + q) = r /\ PlaceOf(s + q) = q
      BY <1>6, <2>1
    <2>3. samples[s + q] = AsSample(saved[r][q])
      BY <1>2, <2>1, <2>2 DEF PointOf
    <2> QED
      BY <2>3, AsSampleIs
  <1>8. Spot(k, r, s, n)
    BY <1>3, <1>4, <1>6, <1>7 DEF Spot
  <1> QED
    BY <1>8
LEMMA TypesOfValid ==
  ASSUME AllValid, NEW k \in 1 .. num_samples
  PROVE  /\ IsCold(k) <=> samples[k].access_type = "C"
         /\ IsHot(k) <=> samples[k].access_type = "H"
  BY DEF AllValid, IsCold, IsHot

LEMMA CompleteColds ==
  ASSUME KnownInv, Measured, Complete, NEW c \in 1 .. num_samples, IsCold(c),
         NEW h \in c + 1 .. c + NUMHOTREADS
  PROVE  h <= num_samples /\ IsHot(h) /\ samples[h].cpu = samples[c].cpu
  <1>1. AllValid /\ num_samples = j /\ j \in Nat
    BY MeasuredAreValid
  <1>2. REFTOTAL = NUMHOTREADS /\ NUMHOTREADS \in Nat \ {0}
    BY Constants
  <1>3. PICK r, s, n : Spot(c, r, s, n)
    BY SpotIs
  <1>4. /\ s \in Nat /\ n \in Nat /\ s + n <= j /\ c \in s + 1 .. s + n
        /\ Kept(saved[r]) /\ Len(saved[r]) = n
        /\ \A q \in 1 .. n :
             /\ samples[s + q].access_type = saved[r][q].access_type
             /\ samples[s + q].cpu = saved[r][q].cpu
    BY <1>3 DEF Spot
  <1> PICK p : p = c - s
    OBVIOUS
  <1> PICK q : q = h - s
    OBVIOUS
  <1>5. p \in 1 .. n /\ s + p = c /\ s + q = h /\ q \in p + 1 .. p + REFTOTAL
    <2>1. s \in Nat /\ n \in Nat /\ c \in s + 1 .. s + n
      BY <1>4
    <2>2. p \in 1 .. n /\ s + p = c
      BY <2>1
    <2>3. h \in Int /\ c \in Int /\ c + 1 <= h /\ h <= c + REFTOTAL
      BY <1>2, <2>1
    <2> QED
      BY <1>2, <2>1, <2>2, <2>3
  <1>6. Is(saved[r], p, "C")
    BY <1>1, <1>4, <1>5, TypesOfValid DEF Is
  <1>7. p + REFTOTAL <= n
    BY <1>4, <1>5, <1>6 DEF Kept, NoneOwed
  <1>8. q \in 1 .. n /\ q <= n
    <2>1. n \in Nat
      BY <1>4
    <2>2. p \in Nat \ {0} /\ q \in Int /\ REFTOTAL \in Nat /\ p < q /\ q <= p + REFTOTAL
      BY <1>2, <1>5, <2>1
    <2> QED
      BY <1>7, <2>1, <2>2
  <1>9. Is(saved[r], q, "H") /\ saved[r][q].cpu = saved[r][p].cpu
    BY <1>4, <1>5, <1>6, <1>8 DEF Kept, HotAfter
  <1>10. h \in 1 .. num_samples /\ h <= num_samples
    BY <1>1, <1>4, <1>5, <1>8
  <1>11. samples[h].access_type = "H" /\ samples[h].cpu = samples[c].cpu
    BY <1>4, <1>5, <1>8, <1>9 DEF Is
  <1> QED
    BY <1>1, <1>10, <1>11, TypesOfValid

\* A complete run has a cold access before any other, so ...
LEMMA ColdBeforeAny ==
  ASSUME KnownInv, Measured, Complete, NEW k \in 1 .. num_samples
  PROVE  /\ \E c \in 1 .. k : samples[c].access_type = "C"
         /\ IsHot(k) => \E c \in 1 .. num_samples : IsCold(c) /\ k \in c + 1 .. c + NUMHOTREADS
  <1>1. AllValid /\ num_samples = j /\ j \in Nat
    BY MeasuredAreValid
  <1>2. REFTOTAL = NUMHOTREADS /\ NUMHOTREADS \in Nat \ {0}
    BY Constants
  <1>3. PICK r, s, n : Spot(k, r, s, n)
    BY SpotIs
  <1>4. /\ s \in Nat /\ n \in Nat /\ s + n <= j /\ k \in s + 1 .. s + n
        /\ Kept(saved[r]) /\ FromStart(saved[r]) /\ Len(saved[r]) = n
        /\ \A q \in 1 .. n : samples[s + q].access_type = saved[r][q].access_type
    BY <1>3 DEF Spot
  <1> PICK q : q = k - s
    OBVIOUS
  <1>5. q \in 1 .. n /\ s + q = k /\ 1 \in 1 .. n
    BY <1>4
  <1>6. saved[r] # <<>>
    BY <1>4, <1>5, EmptySeq
  <1>7. Is(saved[r], 1, "C")
    BY <1>4, <1>6 DEF FromStart
  <1>8. s + 1 \in 1 .. k /\ samples[s + 1].access_type = "C"
    BY <1>4, <1>5, <1>7 DEF Is
  <1>9. ASSUME IsHot(k)
        PROVE  \E c \in 1 .. num_samples : IsCold(c) /\ k \in c + 1 .. c + NUMHOTREADS
    <2>1. Is(saved[r], q, "H")
      BY <1>1, <1>4, <1>5, <1>9, TypesOfValid DEF Is
    <2>2. 1 < q
      <3>1. q # 1
        BY <1>7, <2>1 DEF Is
      <3> QED
        BY <1>4, <1>5, <3>1
    <2>3. PICK d \in 1 .. q - 1 : Is(saved[r], d, "C") /\ q <= d + REFTOTAL
      BY <1>4, <1>5, <1>7, <2>1, <2>2 DEF Kept, ColdBefore
    <2>4. d \in 1 .. n /\ s + d \in 1 .. num_samples /\ k \in (s + d) + 1 .. (s + d) + NUMHOTREADS
      BY <1>1, <1>2, <1>4, <1>5, <2>3
    <2>5. samples[s + d].access_type = "C"
      BY <1>4, <2>3, <2>4 DEF Is
    <2>6. IsCold(s + d)
      BY <2>5 DEF IsCold
    <2> QED
      BY <2>4, <2>6
  <1> QED
    BY <1>8, <1>9

\* ... what complete runs leave is well-formed and every preemption has a
\* baseline.
LEMMA CompleteIsWellFormed ==
  ASSUME KnownInv, Measured, Complete
  PROVE  /\ WellFormed
         /\ \A s \in 1 .. num_samples : Reportable(s) <=> samples[s].access_type = "P"
  <1>1. AllValid /\ num_samples = j /\ j \in Nat
    BY MeasuredAreValid
  <1>2. NUMHOTREADS \in Nat \ {0}
    BY Constants
  <1>3. WellFormed
    BY CompleteColds, ColdBeforeAny DEF WellFormed
  <1>4. ASSUME NEW s \in 1 .. num_samples, samples[s].access_type = "P"
        PROVE  Reportable(s)
    <2> PICK c : c = LastCold(samples, s)
      OBVIOUS
    <2>1. s \in Nat /\ \E d \in 1 .. s : samples[d].access_type = "C"
      BY ColdBeforeAny
    <2>2. /\ c \in 1 .. s /\ samples[c].access_type = "C"
          /\ \A k \in c + 1 .. s : samples[k].access_type # "C"
      BY <2>1, LastColdIs
    <2>3. c \in 1 .. num_samples /\ \A k \in c + 1 .. s : k \in 1 .. num_samples
      BY <1>1, <2>2
    <2>4. IsCold(c) /\ \A k \in c + 1 .. s : ~IsCold(k)
      BY <1>1, <2>2, <2>3, TypesOfValid
    <2>5. c + 1 \in c + 1 .. c + NUMHOTREADS
      BY <1>2, <2>2
    <2>6. c + 1 <= num_samples /\ IsHot(c + 1)
      BY <2>3, <2>4, <2>5, CompleteColds
    <2>7. c + 1 \in 1 .. num_samples
      BY <1>1, <2>2, <2>6
    <2>8. HasBaseline(c)
      BY <1>1, <2>6, <2>7, TypesOfValid DEF HasBaseline
    <2> QED
      BY <1>4, <2>2, <2>4, <2>8 DEF Reportable, ColdOf
  <1> QED
    BY <1>3, <1>4 DEF Reportable

-----------------------------------------------------------------------------
\* get_valid_ovd() does not return before the end of the file unless an
\* array cannot be had.
DoneInv ==
  /\ pc # "Done" => result = Pending
  /\ pc = "Done" /\ result >= 0 => i = num_samples

LEMMA DoneAlways == PipelineSpec => []DoneInv
  <1>1. ScanStarts => DoneInv
    BY DEF ScanStarts, Waiting, DoneInv, Pending
  <1>2. DoneInv /\ [Next]_vars => DoneInv'
    <2> SUFFICES ASSUME DoneInv, [Next]_vars PROVE DoneInv'
      OBVIOUS
    <2>1. CASE Allocation
      <3>1. pc # "Done" /\ (pc' = "Done" => result' = -1) /\ (pc' # "Done" => result' = result)
        BY <2>1 DEF Allocation, ReadSamples, AllocCosts, AllocC, AllocH, AllocP, Allocate
      <3> QED
        BY <3>1 DEF DoneInv
    <2>2. CASE Scan
      <3>1. pc = "Scan" /\ UNCHANGED <<pc, result>>
        BY <2>2 DEF Scan, HotRead, ValidPreemption, InvalidPreemption, ColdRead, Scanning,
                    AdvanceScan
      <3> QED
        BY <3>1 DEF DoneInv
    <2>3. CASE Return
      BY <2>3 DEF Return, DoneInv, num_samples
    <2>4. CASE UNCHANGED vars
      BY <2>4 DEF vars, DoneInv, num_samples
    <2> QED
      BY <2>1, <2>2, <2>3, <2>4 DEF Next, Returned
  <1>3. PipelineInit => ScanStarts
    BY AnyTraceStarts DEF PipelineInit
  <1>4. UNCHANGED pipevars => UNCHANGED vars
    BY DEF pipevars
  <1> QED
    BY <1>1, <1>2, <1>3, <1>4, StageAlways, PTL DEF PipelineSpec

\* What is reported of a complete file is the delay of the preemption.
LEMMA RightIsDelay ==
  ASSUME KnownInv, Measured, TypeOK, Complete, NEW k \in 1 .. Len(source), Right(k)
  PROVE  full_costs[k] = DelayAt(FlattenSeq(saved), LastCold(FlattenSeq(saved), source[k]),
                                 source[k])
  <1> PICK s : s = source[k]
    OBVIOUS
  <1> PICK points : points = FlattenSeq(saved)
    OBVIOUS
  <1>1. /\ AllValid /\ num_samples = j /\ j \in Nat /\ NUMHOTREADS \in Nat \ {0}
        /\ \A l \in 1 .. j : samples[l] = AsSample(PointOf(l))
    BY MeasuredAreValid, Constants
  <1>2. /\ points \in Seq(DataPoint) /\ Len(points) = j
        /\ \A l \in 1 .. j : points[l] = PointOf(l)
    BY FileIsSaved DEF KnownInv, Measured
  <1>3. s \in 1 .. j
    BY <1>1, ElementOfSeq DEF TypeOK
  <1>4. full_costs[k] \in FullOvd
    <2>1. full_costs \in Seq(FullOvd) /\ k \in 1 .. Len(full_costs)
      BY DEF TypeOK
    <2> QED
      BY <2>1, ElementOfSeq
  <1> PICK cost : cost = full_costs[k]
    OBVIOUS
  <1>5. /\ samples[s].access_type = "P"
        /\ cost.curr_cpu = samples[s].cpu /\ cost.last_cpu = samples[s - 1].cpu
        /\ cost.plen = samples[s].preemption_length
        /\ \E c \in 1 .. s : ColdOf(s, c) /\ IsBaseline(c, samples[s].access_time - cost.ovd)
    BY DEF Right, Reportable
  <1>6. PICK c \in 1 .. s : ColdOf(s, c) /\ IsBaseline(c, samples[s].access_time - cost.ovd)
    BY <1>5
  <1>7. /\ IsCold(c) /\ c \in 1 .. num_samples /\ c \in Nat \ {0} /\ s \in Nat /\ c <= s
        /\ \A l \in c + 1 .. s : ~IsCold(l) /\ l \in 1 .. num_samples
    BY <1>1, <1>3, <1>6 DEF ColdOf
  <1>8. /\ samples[c].access_type = "C"
        /\ \A l \in c + 1 .. s : samples[l].access_type # "C"
    BY <1>1, <1>7, TypesOfValid
  <1>9. \A h \in c + 1 .. c + NUMHOTREADS : h <= num_samples /\ IsHot(h) /\ h \in 1 .. num_samples
    <2>1. \A h \in c + 1 .. c + NUMHOTREADS : h <= num_samples /\ IsHot(h)
      BY <1>7, CompleteColds
    <2> QED
      BY <1>1, <1>7, <2>1
  <1>10. \A h \in c + 1 .. c + NUMHOTREADS : samples[h].access_type = "H"
    BY <1>1, <1>9, TypesOfValid
  <1>11. s > c + NUMHOTREADS
    <2>1. s # c
      BY <1>5, <1>8
    <2>2. s \notin c + 1 .. c + NUMHOTREADS
      BY <1>5, <1>10
    <2> QED
      BY <1>1, <1>7, <2>1, <2>2
  <1>12. Piece(c, s, points, c)
    <2>1. c + (s - c) <= Len(points)
      BY <1>2, <1>3, <1>7
    <2>2. \A h \in c .. s : samples[h] = AsSample(points[c + (h - c)])
      <3> SUFFICES ASSUME NEW h \in c .. s PROVE samples[h] = AsSample(points[c + (h - c)])
        OBVIOUS
      <3>1. h \in 1 .. j /\ c + (h - c) = h
        BY <1>1, <1>3, <1>7
      <3> QED
        BY <1>1, <1>2, <3>1
    <2> QED
      BY <1>2, <1>7, <2>1, <2>2 DEF Piece
  <1>13. cost = DelayAt(points, c, c + (s - c))
    <2>1. /\ cost \in FullOvd /\ cost.curr_cpu = samples[s].cpu
          /\ cost.last_cpu = samples[s - 1].cpu /\ cost.plen = samples[s].preemption_length
      BY <1>4, <1>5
    <2>2. IsBaseline(c, samples[s].access_time - cost.ovd)
      BY <1>6
    <2>3. c \in Nat \ {0} /\ s \in Nat
      BY <1>7
    <2> QED
      BY <1>10, <1>11, <1>12, <2>1, <2>2, <2>3, DifferenceIsDelay
  <1>14. c + (s - c) = s
    BY <1>7
  <1>15. LastCold(points, s) = c
    <2>1. \A l \in 1 .. s : points[l].access_type = samples[l].access_type
      <3> SUFFICES ASSUME NEW l \in 1 .. s PROVE points[l].access_type = samples[l].access_type
        OBVIOUS
      <3>1. l \in 1 .. j
        BY <1>1, <1>3
      <3>2. samples[l] = AsSample(points[l])
        BY <1>1, <1>2, <3>1
      <3> QED
        BY <3>2, AsSampleIs
    <2>2. points[c].access_type = "C"
      BY <1>8, <2>1
    <2> PICK d : d = LastCold(points, s)
      OBVIOUS
    <2>3. /\ d \in 1 .. s /\ points[d].access_type = "C"
          /\ \A l \in d + 1 .. s : points[l].access_type # "C"
      BY <1>7, <2>2, LastColdIs
    <2>4. c \notin d + 1 .. s
      BY <2>2, <2>3
    <2>5. d \notin c + 1 .. s
      BY <1>8, <2>1, <2>3
    <2> QED
      BY <1>7, <2>3, <2>4, <2>5
  <1> QED
    BY <1>13, <1>14, <1>15

\* From complete runs the analysis reports exactly the delays that happened,
\* every one, in order, across the runs of the file.
THEOREM CompleteExact == PipelineSpec => []CompleteTracesAreExact
  <1>1. KnownInv /\ StageInv /\ TypeOK /\ ScanInv /\ DoneInv => CompleteTracesAreExact
    <2> SUFFICES ASSUME KnownInv, StageInv, TypeOK, ScanInv, DoneInv, Scanned, Complete
                 PROVE  LET points == FlattenSeq(saved)
                            preempted == {p \in 1 .. Len(points) : points[p].access_type = "P"}
                        IN  full_costs = [k \in 1 .. Cardinality(preempted) |->
                                            LET p == Nth(preempted, k)
                                            IN  DelayAt(points, LastCold(points, p), p)]
      BY DEF CompleteTracesAreExact
    <2> PICK points : points = FlattenSeq(saved)
      OBVIOUS
    <2> PICK K : K = {p \in 1 .. Len(points) : points[p].access_type = "P"}
      OBVIOUS
    <2>1. Measured /\ i = num_samples
      BY DEF StageInv, Scanned, DoneInv
    <2>2. /\ AllValid /\ num_samples = j /\ j \in Nat
          /\ \A l \in 1 .. j : samples[l] = AsSample(PointOf(l))
      BY <2>1, MeasuredAreValid
    <2>3. /\ Len(points) = j
          /\ \A l \in 1 .. j : points[l] = PointOf(l)
      BY <2>1, FileIsSaved DEF KnownInv, Measured
    <2>4. \A l \in 1 .. j : points[l].access_type = samples[l].access_type
      <3> SUFFICES ASSUME NEW l \in 1 .. j PROVE points[l].access_type = samples[l].access_type
        OBVIOUS
      <3>1. samples[l] = AsSample(points[l])
        BY <2>2, <2>3
      <3> QED
        BY <3>1, AsSampleIs
    <2>5. /\ WellFormed
          /\ \A s \in 1 .. j : Reportable(s) <=> s \in K
      <3>1. \A s \in 1 .. j : Reportable(s) <=> samples[s].access_type = "P"
        BY <2>1, <2>2, CompleteIsWellFormed
      <3> QED
        BY <2>1, <2>3, <2>4, <3>1, CompleteIsWellFormed
    <2>6. OutputInv
      BY <2>5 DEF ScanInv
    <2>7. /\ Len(source) \in Nat /\ Len(full_costs) = Len(source)
          /\ source \in Seq(1 .. j) /\ full_costs \in Seq(FullOvd)
      BY <2>2, <2>6 DEF OutputInv, TypeOK
    <2>8. \A k \in 1 .. Len(source) : source[k] \in 1 .. j /\ source[k] \in K /\ Right(k)
      <3> SUFFICES ASSUME NEW k \in 1 .. Len(source)
                   PROVE  source[k] \in 1 .. j /\ source[k] \in K /\ Right(k)
        OBVIOUS
      <3>1. source[k] \in 1 .. j
        BY <2>7, ElementOfSeq
      <3>2. Right(k) /\ Reportable(source[k])
        BY <2>6 DEF OutputInv, Right
      <3> QED
        BY <2>5, <3>1, <3>2
    <2>9. source \in Seq(K) /\ K \in SUBSET (1 .. j)
      <3>1. source \in [1 .. Len(source) -> K]
        BY <2>7, <2>8
      <3>2. source \in Seq(K)
        BY <2>7, <3>1
      <3> QED
        BY <2>3, <3>2
    <2>10. /\ \A x \in K : \E k \in 1 .. Len(source) : source[k] = x
           /\ \A k \in 1 .. Len(source) - 1 : source[k] < source[k + 1]
      <3>1. \A x \in K : x \in 1 .. i /\ Reportable(x)
        BY <2>1, <2>2, <2>5, <2>9
      <3> QED
        BY <2>6, <3>1 DEF OutputInv
    <2>11. /\ Cardinality(K) = Len(source)
           /\ \A k \in 1 .. Len(source) : Nth(K, k) = source[k]
      BY <2>2, <2>9, <2>10, InOrder
    <2>12. \A k \in 1 .. Len(source) :
             full_costs[k] = DelayAt(points, LastCold(points, Nth(K, k)), Nth(K, k))
      BY <2>1, <2>8, <2>11, RightIsDelay
    <2>13. full_costs = [k \in 1 .. Cardinality(K) |->
                           DelayAt(points, LastCold(points, Nth(K, k)), Nth(K, k))]
      <3>1. full_costs = [k \in 1 .. Len(source) |-> full_costs[k]]
        BY <2>7
      <3> QED
        BY <2>11, <2>12, <3>1
    <2> QED
      BY <2>13
  <1> QED
    BY <1>1, KnownAlways, StageAlways, DoneAlways, PTL

-----------------------------------------------------------------------------
(* What the uses of a cache do to the order of what it holds.              *)

\* What is not of W stands behind all of W and in its order.
Behind(u, c, W) ==
  \A p \in DOMAIN u : u[p] \notin W =>
    /\ \A w \in W : \E q \in 1 .. p - 1 : u[q] = w
    /\ \E k \in DOMAIN c :
         /\ c[k] = u[p]
         /\ \A l \in 1 .. k - 1 : c[l] \notin W => \E q \in 1 .. p - 1 : u[q] = c[l]

\* All of W is among the first n of c.
Near(c, W, n) == \A x \in W : \E p \in 1 .. Len(c) : p <= n /\ c[p] = x

\* The n lines of W came to the front.
Fronted(u, c, room, W, n) ==
  /\ u \in Seq(Int)
  /\ Behind(u, c, W)
  /\ n <= room => Near(u, W, n)

LEMMA TouchedBehind ==
  ASSUME NEW c \in Seq(Int), NEW room \in Nat, NEW words \in Seq(Int),
         NEW W, W = {words[k] : k \in DOMAIN words}
  PROVE  Fronted(AfterTouching(c, room, words), c, room, W, Len(words))
  <1> PICK u : u = AfterTouching(c, room, words)
    OBVIOUS
  <1> PICK m : m = Len(words)
    OBVIOUS
  <1>1. OnTop(u, c, room, words)
    BY UsedIs
  <1>2. /\ m \in Nat /\ DOMAIN words = 1 .. m /\ u \in Seq(Int) /\ DOMAIN u = 1 .. Len(u)
        /\ Len(u) \in Nat
    BY <1>1, LenProperties DEF OnTop
  <1>3. /\ m <= room => m <= Len(u)
        /\ \A p \in DOMAIN u : p <= m => u[p] = words[p]
    BY <1>1 DEF OnTop
  <1>4. ASSUME NEW p \in DOMAIN u, u[p] \notin W
        PROVE  /\ \A w \in W : \E q \in 1 .. p - 1 : u[q] = w
               /\ \E k \in DOMAIN c :
                    /\ c[k] = u[p]
                    /\ \A l \in 1 .. k - 1 : c[l] \notin W => \E q \in 1 .. p - 1 : u[q] = c[l]
    <2>1. p > m
      <3> SUFFICES ASSUME ~(p > m) PROVE FALSE
        OBVIOUS
      <3>1. p \in 1 .. m /\ p <= m
        BY <1>2
      <3> QED
        BY <1>2, <1>3, <1>4, <3>1
    <2>2. PICK k \in DOMAIN c :
            /\ c[k] = u[p]
            /\ \A l \in 1 .. k - 1 :
                 (\A n \in DOMAIN words : words[n] # c[l]) => \E q \in 1 .. p - 1 : u[q] = c[l]
      BY <1>1, <2>1 DEF OnTop
    <2>3. \A l : c[l] \notin W => \A n \in DOMAIN words : words[n] # c[l]
      OBVIOUS
    <2>4. ASSUME NEW w \in W PROVE \E q \in 1 .. p - 1 : u[q] = w
      <3>1. PICK q \in DOMAIN words : words[q] = w
        OBVIOUS
      <3>2. q \in Nat /\ q >= 1 /\ q <= m /\ p \in Nat /\ p <= Len(u)
            /\ m \in Nat /\ Len(u) \in Nat
        BY <1>2
      <3>3. q \in 1 .. p - 1 /\ q \in 1 .. Len(u)
        BY <2>1, <3>2
      <3>4. q \in DOMAIN u
        BY <1>2, <3>3
      <3> QED
        BY <1>3, <3>1, <3>2, <3>3, <3>4
    <2> QED
      BY <2>2, <2>3, <2>4
  <1>5. ASSUME m <= room, NEW w \in W
        PROVE  \E p \in 1 .. Len(u) : p <= m /\ u[p] = w
    <2>1. PICK q \in DOMAIN words : words[q] = w
      OBVIOUS
    <2>2. q \in 1 .. Len(u) /\ q \in DOMAIN u /\ q <= m
      BY <1>2, <1>3, <1>5
    <2> QED
      BY <1>3, <2>1, <2>2
  <1>6. Behind(u, c, W)
    BY <1>4 DEF Behind
  <1>7. m <= room => Near(u, W, m)
    BY <1>5 DEF Near
  <1> QED
    BY <1>2, <1>6, <1>7 DEF Fronted

\* Counting without m, one of the first n, k is not the last of them.
LEMMA OneFewer ==
  ASSUME NEW b \in Nat, NEW ks \in SUBSET (1 .. b), NEW k \in ks, NEW m \in 1 .. b, m \notin ks,
         NEW n \in Nat, k <= n, m <= n
  PROVE  Rank(ks, k) + 1 <= n
  <1> DEFINE T == {z \in ks : z <= k}
  <1>0. k \in Nat \ {0} /\ m \in Nat \ {0} /\ k # m
    OBVIOUS
  <1>1. IsFiniteSet(1 .. k) /\ Cardinality(1 .. k) = k
    <2>1. 1 \in Int /\ k \in Int /\ (IF 1 > k THEN 0 ELSE k - 1 + 1) = k
      BY <1>0
    <2>2. IsFiniteSet(1 .. k) /\ Cardinality(1 .. k) = IF 1 > k THEN 0 ELSE k - 1 + 1
      BY <2>1, FS_Interval
    <2> QED
      BY <2>1, <2>2
  <1>2. T \in SUBSET (1 .. k) /\ m \notin T
    <2>1. \A z \in ks : z \in Nat /\ 1 <= z
      OBVIOUS
    <2>2. \A z \in T : z \in 1 .. k
      BY <1>0, <2>1
    <2> QED
      BY <2>2
  <1>3. Rank(ks, k) = Cardinality(T)
    BY DEF Rank
  <1> HIDE DEF T
  <1>4. Cardinality(T) \in Nat
    BY <1>1, <1>2, FS_Subset, FS_CardinalityType
  <1>5. CASE m < k
    <2>1. m \in 1 .. k
      BY <1>0, <1>5
    <2>2. T # 1 .. k
      BY <1>2, <2>1
    <2>3. Cardinality(T) <= k /\ Cardinality(T) # k
      BY <1>1, <1>2, <2>2, FS_Subset
    <2> QED
      BY <1>0, <1>3, <1>4, <2>3
  <1>6. CASE ~(m < k)
    <2>1. k < m
      BY <1>0, <1>6
    <2>2. Cardinality(T) <= k
      BY <1>1, <1>2, FS_Subset
    <2> QED
      BY <1>0, <1>3, <1>4, <2>1, <2>2
  <1> QED
    BY <1>5, <1>6

\* When one line of the first n is taken away the others move up.
LEMMA OthersMoveUp ==
  ASSUME NEW c \in Seq(Int), NEW n \in Nat, NEW W, NEW x \in W, Near(c, W, n)
  PROVE  Near(Without(c, {x}), W \ {x}, n - 1)
  <1> PICK m \in 1 .. Len(c) : m <= n /\ c[m] = x
    BY DEF Near
  <1> PICK u : u = Without(c, {x})
    OBVIOUS
  <1> PICK ks : ks = Outside(c, {x})
    OBVIOUS
  <1> PICK b : b = Len(c)
    OBVIOUS
  <1>1. b \in Nat /\ DOMAIN c = 1 .. b
    BY LenProperties
  <1>2. ks \in SUBSET (1 .. b) /\ m \notin ks
    BY <1>1 DEF Outside
  <1>3. Len(u) = Cardinality(ks) /\ \A p \in 1 .. Cardinality(ks) : u[p] = c[Nth(ks, p)]
    BY WithoutIs
  <1>4. ASSUME NEW y \in W, y # x PROVE \E q \in 1 .. Len(u) : q <= n - 1 /\ u[q] = y
    <2> PICK k \in 1 .. b : k <= n /\ c[k] = y
      BY DEF Near
    <2>1. k \in ks
      BY <1>1, <1>4 DEF Outside
    <2> PICK r : r = Rank(ks, k)
      OBVIOUS
    <2>2. r \in 1 .. Cardinality(ks) /\ Nth(ks, r) = k /\ Cardinality(ks) \in Nat
      BY <2>1, OutsideIs
    <2>3. r + 1 <= n
      BY <1>1, <1>2, <2>1, OneFewer
    <2>4. r <= n - 1
      BY <2>2, <2>3
    <2> QED
      BY <1>3, <2>2, <2>4
  <1> QED
    BY <1>4 DEF Near

\* Touching what is among the first n leaves the first n there.
LEMMA TouchedStayNear ==
  ASSUME NEW c \in Seq(Int), NEW room \in Nat, NEW n \in Nat, n <= room,
         NEW W, NEW x \in W, Near(c, W, n)
  PROVE  Near(AfterTouching(c, room, <<x>>), W, n)
  <1> PICK m \in 1 .. Len(c) : m <= n /\ c[m] = x
    BY DEF Near
  <1> SUFFICES ASSUME NEW y \in W
               PROVE  \E q \in 1 .. Len(AfterTouching(c, room, <<x>>)) :
                        q <= n /\ AfterTouching(c, room, <<x>>)[q] = y
    BY DEF Near
  <1> PICK k \in 1 .. Len(c) : k <= n /\ c[k] = y
    BY DEF Near
  <1> PICK u : u = AfterTouching(c, room, <<x>>)
    OBVIOUS
  <1> PICK ks : ks = Outside(c, {x})
    OBVIOUS
  <1>1. x \in Int /\ Len(c) \in Nat /\ DOMAIN c = 1 .. Len(c) /\ m \in Nat /\ k \in Nat
    BY LenProperties, ElementOfSeq
  <1>2. IsTouched(u, c, room, <<x>>, {x})
    <2>1. <<x>> \in Seq(Int) /\ {<<x>>[l] : l \in DOMAIN <<x>>} = {x}
      BY <1>1
    <2> QED
      BY <2>1, TouchedIs
  <1>3. /\ Cardinality(ks) \in Nat
        /\ Len(u) = IF 1 + Cardinality(ks) < room THEN 1 + Cardinality(ks) ELSE room
        /\ \A p \in 1 .. Len(u) : u[p] = IF p <= 1 THEN x ELSE c[Nth(ks, p - 1)]
    <2>1. Len(<<x>>) = 1 /\ \A p \in 1 .. Len(u) : p <= 1 => p = 1
      OBVIOUS
    <2>2. <<x>>[1] = x
      OBVIOUS
    <2> QED
      BY <1>2, <2>1, <2>2, OutsideIs DEF IsTouched
  <1>4. CASE c[k] = x
    <2>1. 1 \in 1 .. Len(u) /\ 1 <= n
      BY <1>1, <1>3
    <2> QED
      BY <1>3, <1>4, <2>1
  <1>5. CASE c[k] # x
    <2> PICK r : r = Rank(ks, k)
      OBVIOUS
    <2>1. k \in ks /\ m \notin ks /\ k # m
      BY <1>1, <1>5 DEF Outside
    <2>2. /\ r \in 1 .. Cardinality(ks) /\ Nth(ks, r) = k
      BY <2>1, OutsideIs
    <2>3. r + 1 <= n
      <3>1. ks \in SUBSET (1 .. Len(c))
        BY <1>1 DEF Outside
      <3> QED
        BY <1>1, <2>1, <3>1, OneFewer
    <2>4. r + 1 \in 1 .. Len(u) /\ ~(r + 1 <= 1) /\ (r + 1) - 1 = r
      <3> DEFINE a == Cardinality(ks)
                 b == Len(u)
      <3>1. a \in Nat /\ b = (IF 1 + a < room THEN 1 + a ELSE room) /\ r \in 1 .. a /\ r + 1 <= n
        BY <1>3, <2>2, <2>3
      <3> HIDE DEF a, b
      <3>2. r \in Int /\ 1 <= r /\ r <= a /\ b \in Int
        BY <3>1
      <3>3. r + 1 <= b
        BY <3>1, <3>2
      <3>4. r + 1 \in 1 .. b /\ ~(r + 1 <= 1) /\ (r + 1) - 1 = r
        BY <3>2, <3>3
      <3> QED
        BY <3>4 DEF b
    <2>5. u[r + 1] = c[k]
      BY <1>3, <2>2, <2>4
    <2> QED
      BY <2>3, <2>4, <2>5
  <1> QED
    BY <1>4, <1>5

\* A word f that comes to the front moves the others by one place at most.
Slipped(u, c, room, f) ==
  \A k \in 1 .. Len(c) : c[k] # f /\ k + 1 <= room =>
    \E q \in 1 .. Len(u) : q <= k + 1 /\ u[q] = c[k]

LEMMA PushedIn ==
  ASSUME NEW c \in Seq(Int), NEW room \in Nat \ {0}, NEW f \in Int
  PROVE  /\ Capped(<<f>> \o c, room) \in Seq(Int)
         /\ Behind(Capped(<<f>> \o c, room), c, {f})
         /\ Slipped(Capped(<<f>> \o c, room), c, room, f)
  <1> PICK s : s = <<f>> \o c
    OBVIOUS
  <1> PICK n : n = Len(c)
    OBVIOUS
  <1> PICK m : m = IF n + 1 < room THEN n + 1 ELSE room
    OBVIOUS
  <1> PICK u : u = Capped(s, room)
    OBVIOUS
  <1>1. n \in Nat /\ DOMAIN c = 1 .. n /\ m \in 1 .. n + 1 /\ m <= room
    BY LenProperties
  <1>2. s \in Seq(Int) /\ Len(s) = n + 1
    BY <1>1, ConcatProperties
  <1>3. \A p \in 1 .. n + 1 : s[p] = IF p = 1 THEN f ELSE c[p - 1]
    <2>1. <<f>> \in Seq(Int) /\ Len(<<f>>) = 1 /\ <<f>>[1] = f
      OBVIOUS
    <2>2. \A p \in 1 .. Len(<<f>>) + Len(c) :
            s[p] = IF p <= Len(<<f>>) THEN <<f>>[p] ELSE c[p - Len(<<f>>)]
      BY <2>1, ConcatProperties
    <2>3. \A p \in 1 .. n + 1 : s[p] = IF p <= 1 THEN <<f>>[p] ELSE c[p - 1]
      BY <1>1, <2>1, <2>2
    <2> QED
      BY <2>1, <2>3
  <1>4. u \in Seq(Int) /\ Len(u) = m /\ \A p \in 1 .. m : u[p] = s[p]
    <2>1. u = SubSeq(s, 1, m)
      BY <1>2 DEF Capped
    <2>2. \A p \in 1 .. m : s[p] \in Int
      BY <1>1, <1>2, ElementOfSeq
    <2>3. 1 \in Int /\ m \in Int /\ (IF 1 <= m THEN m - 1 + 1 ELSE 0) = m
          /\ \A p : p \in 1 .. m => p \in 1 .. m - 1 + 1 /\ 1 + p - 1 = p
      BY <1>1
    <2>4. u \in Seq(Int) /\ Len(u) = IF 1 <= m THEN m - 1 + 1 ELSE 0
      <3>1. 1 \in Int /\ m \in Int
        BY <2>3
      <3>2. /\ SubSeq(s, 1, m) \in Seq(Int)
            /\ Len(SubSeq(s, 1, m)) = IF 1 <= m THEN m - 1 + 1 ELSE 0
        BY <2>2, <3>1, SubSeqProperties
      <3> QED
        BY <2>1, <3>2
    <2>5. \A p \in 1 .. m - 1 + 1 : u[p] = s[1 + p - 1]
      BY <2>1, <2>2, <2>3, SubSeqProperties
    <2>6. \A p \in 1 .. m : u[p] = s[p]
      BY <2>3, <2>5
    <2> QED
      BY <2>3, <2>4, <2>6
  <1>5. DOMAIN u = 1 .. m /\ \A p \in 1 .. m : u[p] = IF p = 1 THEN f ELSE c[p - 1]
    <2>1. \A p \in 1 .. m : p \in 1 .. n + 1
      BY <1>1
    <2>2. DOMAIN u = 1 .. Len(u)
      BY <1>4, LenProperties
    <2> QED
      BY <1>3, <1>4, <2>1, <2>2
  <1>6. Behind(u, c, {f})
    <2> SUFFICES ASSUME NEW p \in DOMAIN u, u[p] \notin {f}
                 PROVE  /\ \A w \in {f} : \E q \in 1 .. p - 1 : u[q] = w
                        /\ \E k \in DOMAIN c :
                             /\ c[k] = u[p]
                             /\ \A l \in 1 .. k - 1 :
                                  c[l] \notin {f} => \E q \in 1 .. p - 1 : u[q] = c[l]
      BY DEF Behind
    <2>0. p \in 1 .. m /\ u[p] # f
      BY <1>5
    <2>1. p # 1 /\ p - 1 \in 1 .. n /\ u[p] = c[p - 1] /\ 1 \in 1 .. p - 1 /\ u[1] = f
      <3>1. p # 1 /\ u[p] = c[p - 1]
        BY <1>5, <2>0
      <3>2. p \in Nat /\ p >= 2 /\ p <= n + 1 /\ n \in Nat
        BY <1>1, <2>0, <3>1
      <3>3. p - 1 \in 1 .. n /\ 1 \in 1 .. p - 1 /\ 1 \in 1 .. m
        BY <1>1, <3>2
      <3> QED
        BY <1>5, <3>1, <3>3
    <2>2. ASSUME NEW l \in 1 .. (p - 1) - 1 PROVE l + 1 \in 1 .. p - 1 /\ u[l + 1] = c[l]
      <3>1. l + 1 \in 1 .. p - 1 /\ l + 1 \in 1 .. m /\ l + 1 # 1 /\ (l + 1) - 1 = l
        BY <1>1, <2>0
      <3> QED
        BY <1>5, <3>1
    <2> QED
      BY <1>1, <2>1, <2>2
  <1>7. Slipped(u, c, room, f)
    <2> SUFFICES ASSUME NEW k \in 1 .. n, k + 1 <= room
                 PROVE  \E q \in 1 .. Len(u) : q <= k + 1 /\ u[q] = c[k]
      BY DEF Slipped
    <2>1. k + 1 \in 1 .. m /\ k + 1 # 1 /\ (k + 1) - 1 = k /\ k + 1 <= k + 1
      BY <1>1
    <2>2. u[k + 1] = c[k]
      <3>1. u[k + 1] = IF k + 1 = 1 THEN f ELSE c[(k + 1) - 1]
        BY <1>5, <2>1
      <3> QED
        BY <2>1, <3>1
    <2>3. k + 1 \in 1 .. Len(u)
      BY <1>4, <2>1
    <2> QED
      BY <2>1, <2>2, <2>3
  <1> QED
    BY <1>4, <1>6, <1>7

LEMMA MovedToFront ==
  ASSUME NEW c \in Seq(Int), NEW m \in 1 .. Len(c), NEW room
  PROVE  /\ ToFront(c, m) \in Seq(Int)
         /\ Behind(ToFront(c, m), c, {c[m]})
         /\ Slipped(ToFront(c, m), c, room, c[m])
  <1> PICK u : u = ToFront(c, m)
    OBVIOUS
  <1> PICK n : n = Len(c)
    OBVIOUS
  <1> PICK f : f = c[m]
    OBVIOUS
  <1>1. n \in Nat /\ DOMAIN c = 1 .. n /\ m \in 1 .. n /\ \A k \in 1 .. n : c[k] \in Int
    BY LenProperties, ElementOfSeq
  <1>2. u = [p \in 1 .. n |-> c[IF p = 1 THEN m ELSE IF p <= m THEN p - 1 ELSE p]]
    BY <1>1 DEF ToFront
  <1>3. \A p \in 1 .. n : (IF p = 1 THEN m ELSE IF p <= m THEN p - 1 ELSE p) \in 1 .. n
    BY <1>1
  <1>4. u \in Seq(Int) /\ Len(u) = n /\ DOMAIN u = 1 .. n
    BY <1>1, <1>2, <1>3
  <1>5. \A p \in 1 .. n : u[p] = IF p = 1 THEN f ELSE IF p <= m THEN c[p - 1] ELSE c[p]
    BY <1>1, <1>2
  <1>6. ASSUME NEW k \in 1 .. n, c[k] # f
        PROVE  \E q \in 1 .. n : q <= k + 1 /\ (k < m => q = k + 1) /\ (k > m => q = k) /\ u[q] = c[k]
    <2>1. CASE k < m
      <3>1. k + 1 \in 1 .. n /\ k + 1 # 1 /\ k + 1 <= m /\ (k + 1) - 1 = k
        BY <1>1, <2>1
      <3> QED
        BY <1>5, <2>1, <3>1
    <2>2. CASE k > m
      <3>1. k # 1 /\ ~(k <= m)
        BY <1>1, <2>2
      <3> QED
        BY <1>5, <2>2, <3>1
    <2>3. k # m
      BY <1>6
    <2> QED
      BY <1>1, <2>1, <2>2, <2>3
  <1>7. Slipped(u, c, room, f)
    BY <1>4, <1>6 DEF Slipped
  <1>8. Behind(u, c, {f})
    <2> SUFFICES ASSUME NEW p \in DOMAIN u, u[p] \notin {f}
                 PROVE  /\ \A w \in {f} : \E q \in 1 .. p - 1 : u[q] = w
                        /\ \E k \in DOMAIN c :
                             /\ c[k] = u[p]
                             /\ \A l \in 1 .. k - 1 :
                                  c[l] \notin {f} => \E q \in 1 .. p - 1 : u[q] = c[l]
      BY DEF Behind
    <2>0. p \in 1 .. n /\ u[p] # f
      BY <1>4
    <2>1. p # 1 /\ 1 \in 1 .. p - 1 /\ 1 \in 1 .. n /\ u[1] = f
      BY <1>1, <1>5, <2>0
    <2> PICK k : k = IF p <= m THEN p - 1 ELSE p
      OBVIOUS
    <2>2. k \in 1 .. n /\ u[p] = c[k]
      BY <1>1, <1>5, <2>0, <2>1
    <2>3. ASSUME NEW l \in 1 .. k - 1, c[l] # f PROVE \E q \in 1 .. p - 1 : u[q] = c[l]
      <3>1. l \in 1 .. n
        BY <1>1, <2>2
      <3>2. PICK q \in 1 .. n : (l < m => q = l + 1) /\ (l > m => q = l) /\ u[q] = c[l]
        BY <1>6, <2>3, <3>1
      <3>3. l # m
        BY <2>3
      <3>4. q \in 1 .. p - 1
        BY <1>1, <2>0, <2>1, <2>2, <3>1, <3>2, <3>3
      <3> QED
        BY <3>2, <3>4
    <2> QED
      BY <1>1, <2>1, <2>2, <2>3
  <1> QED
    BY <1>4, <1>7, <1>8

-----------------------------------------------------------------------------
(* Sweeps.                                                                 *)

\* A working set is a whole number of the chunks a sweep goes over.
WholeChunks == WSS % CHUNK = 0

LEMMA SweepIsWorkingSet == WholeChunks => SweepLength = WSS
  <1> SUFFICES ASSUME WholeChunks PROVE SweepLength = WSS
    OBVIOUS
  <1> PICK w : w = WSS
    OBVIOUS
  <1> PICK c : c = CHUNK
    OBVIOUS
  <1> PICK d : d = w \div c
    OBVIOUS
  <1>1. w \in Nat \ {0} /\ c \in Nat \ {0} /\ w % c = 0
    BY WorkingSetAssumption DEF WholeChunks
  <1>2. d \in Nat /\ w = c * d + (w % c)
    BY <1>1
  <1>3. w = c * d
    BY <1>1, <1>2
  <1>4. (w + c - 1) \div c = d
    <2>1. w + c - 1 \in Nat /\ d * c = c * d /\ d * c <= w + c - 1 /\ w + c - 1 < d * c + c
      BY <1>1, <1>2, <1>3
    <2> QED
      BY <1>1, <1>2, <2>1, FileConstants, FP!QuotientIs
  <1>5. SweepLength = c * d
    BY <1>4 DEF SweepLength
  <1> QED
    BY <1>3, <1>5

\* The lines of a row are no foreign ones, and of no other row.
LEMMA SweepLines ==
  ASSUME NEW row \in Nat
  PROVE  /\ Sweep(row) \in SUBSET Nat /\ Foreign \in Int /\ Foreign \notin Sweep(row)
         /\ WholeChunks => /\ Sweep(row) = row * WSS .. row * WSS + (WSS - 1)
                           /\ IsFiniteSet(Sweep(row)) /\ Cardinality(Sweep(row)) = WSS
         /\ WholeChunks => \A other \in Nat, x \in Sweep(row) : x \in Sweep(other) => other = row
  <1> PICK w : w = WSS
    OBVIOUS
  <1> PICK a : a = row * w
    OBVIOUS
  <1>1. w \in Nat \ {0} /\ a \in Nat /\ SweepLength \in Nat
    BY WorkingSetAssumption, Constants
  <1>2. Sweep(row) = a .. a + SweepLength - 1
    BY DEF Sweep
  <1>3. Sweep(row) \in SUBSET Nat /\ Foreign \in Int /\ Foreign \notin Sweep(row)
    BY <1>1, <1>2 DEF Foreign
  <1>4. ASSUME WholeChunks
        PROVE  /\ Sweep(row) = a .. a + (w - 1)
               /\ IsFiniteSet(Sweep(row)) /\ Cardinality(Sweep(row)) = w
    <2>1. Sweep(row) = a .. a + (w - 1)
      BY <1>1, <1>2, <1>4, SweepIsWorkingSet
    <2> PICK b : b = a + (w - 1)
      OBVIOUS
    <2>2. b \in Int /\ a \in Int /\ (IF a > b THEN 0 ELSE b - a + 1) = w
      BY <1>1
    <2>3. IsFiniteSet(a .. b) /\ Cardinality(a .. b) = IF a > b THEN 0 ELSE b - a + 1
      BY <2>2, FS_Interval
    <2> QED
      BY <2>1, <2>2, <2>3
  <1>5. ASSUME WholeChunks, NEW other \in Nat, NEW x \in Sweep(row), x \in Sweep(other)
        PROVE  other = row
    <2> PICK o : o = other * w
      OBVIOUS
    <2>1. x \in a .. a + (w - 1)
      BY <1>4, <1>5
    <2>2. x \in o .. o + (w - 1) /\ o \in Nat
      <3>1. Sweep(other) = o .. o + SweepLength - 1 /\ SweepLength = w
        BY <1>5, SweepIsWorkingSet DEF Sweep
      <3> QED
        BY <1>1, <1>5, <3>1
    <2>3. o <= a + (w - 1) /\ a <= o + (w - 1)
      BY <1>1, <2>1, <2>2
    <2>4. ~(other < row)
      <3> SUFFICES ASSUME other < row PROVE FALSE
        OBVIOUS
      <3> PICK d : d = row - other
        OBVIOUS
      <3>1. d \in Nat \ {0} /\ row = other + d
        OBVIOUS
      <3>2. a = o + d * w
        BY <1>1, <3>1
      <3>3. d * w >= w
        BY <1>1, <3>1
      <3> QED
        BY <1>1, <2>2, <2>3, <3>2, <3>3
    <2>5. ~(row < other)
      <3> SUFFICES ASSUME row < other PROVE FALSE
        OBVIOUS
      <3> PICK d : d = other - row
        OBVIOUS
      <3>1. d \in Nat \ {0} /\ other = row + d
        OBVIOUS
      <3>2. o = a + d * w
        BY <1>1, <3>1
      <3>3. d * w >= w
        BY <1>1, <3>1
      <3> QED
        BY <1>1, <2>2, <2>3, <3>2, <3>3
    <2> QED
      BY <2>4, <2>5
  <1> QED
    BY <1>3, <1>4, <1>5

LEMMA LatestIs ==
  ASSUME NEW row \in Nat
  PROVE  /\ Latest(row) \in Seq(Int) /\ Len(Latest(row)) = SweepLength
         /\ {Latest(row)[k] : k \in DOMAIN Latest(row)} = Sweep(row)
  <1> PICK n : n = SweepLength
    OBVIOUS
  <1> PICK a : a = row * WSS
    OBVIOUS
  <1>1. n \in Nat /\ a \in Nat
    BY Constants, WorkingSetAssumption
  <1>2. Latest(row) = [k \in 1 .. n |-> a + n - k] /\ Sweep(row) = a .. a + n - 1
    BY DEF Latest, Sweep
  <1>3. Latest(row) \in Seq(Int) /\ Len(Latest(row)) = n /\ DOMAIN Latest(row) = 1 .. n
    BY <1>1, <1>2
  <1>4. \A k \in 1 .. n : Latest(row)[k] \in Sweep(row)
    BY <1>1, <1>2
  <1>5. ASSUME NEW x \in Sweep(row) PROVE \E k \in 1 .. n : Latest(row)[k] = x
    <2>1. a + n - x \in 1 .. n /\ a + n - (a + n - x) = x
      BY <1>1, <1>2
    <2> QED
      BY <1>2, <2>1
  <1> QED
    BY <1>3, <1>4, <1>5

-----------------------------------------------------------------------------
(* What a step does to the caches.                                         *)

CachesType == caches \in [Caches -> Seq(Int)] /\ pollution \in Nat

\* Nothing is in u that was not in c.
Fewer(u, c) == \A p \in DOMAIN u : \E k \in DOMAIN c : c[k] = u[p]

LEMMA WithoutIsFewer ==
  ASSUME NEW e \in Seq(Int), NEW W
  PROVE  Without(e, W) \in Seq(Int) /\ Fewer(Without(e, W), e)
  <1> PICK ks : ks = Outside(e, W)
    OBVIOUS
  <1> PICK u : u = Without(e, W)
    OBVIOUS
  <1>1. /\ u \in Seq(Int) /\ Len(u) = Cardinality(ks)
        /\ \A n \in 1 .. Cardinality(ks) : u[n] = e[Nth(ks, n)]
    BY WithoutIs
  <1>2. \A n \in 1 .. Cardinality(ks) : Nth(ks, n) \in ks
    BY OutsideIs
  <1>3. \A k \in ks : k \in DOMAIN e
    BY DEF Outside
  <1>4. DOMAIN u = 1 .. Cardinality(ks)
    BY <1>1
  <1> QED
    BY <1>1, <1>2, <1>3, <1>4 DEF Fewer

LEMMA SweepTouches ==
  ASSUME CachesType, Here \in Caches, NEW row \in Nat, Timed(row)
  PROVE  /\ CachesType' /\ pollution' = pollution
         /\ Behind(caches'[Here], caches[Here], Sweep(row))
         /\ SweepLength <= CACHESIZE => Near(caches'[Here], Sweep(row), SweepLength)
         /\ \A c \in Caches : c # Here => Fewer(caches'[c], caches[c])
  <1>1. /\ caches' = [c \in Caches |->
                        IF c = Here THEN AfterTouching(caches[c], CACHESIZE, Latest(row))
                        ELSE Without(caches[c], Sweep(row))]
        /\ pollution' = pollution /\ CACHESIZE \in Nat
    BY WorkingSetAssumption DEF Timed
  <1>2. \A c \in Caches : caches[c] \in Seq(Int)
    BY DEF CachesType
  <1> DEFINE words == Latest(row)
             W == Sweep(row)
  <1>3. words \in Seq(Int) /\ Len(words) = SweepLength /\ W = {words[k] : k \in DOMAIN words}
    BY LatestIs
  <1> HIDE DEF words, W
  <1> PICK c : c = caches[Here]
    OBVIOUS
  <1> PICK u : u = AfterTouching(c, CACHESIZE, words)
    OBVIOUS
  <1>4. /\ u \in Seq(Int) /\ Behind(u, c, W)
        /\ SweepLength <= CACHESIZE => Near(u, W, SweepLength)
    <2>1. c \in Seq(Int) /\ CACHESIZE \in Nat
      BY <1>1, <1>2
    <2>2. Fronted(AfterTouching(c, CACHESIZE, words), c, CACHESIZE, W, Len(words))
      BY <1>3, <2>1, TouchedBehind
    <2> QED
      BY <1>3, <2>2 DEF Fronted
  <1>5. ASSUME NEW d \in Caches, d # Here
        PROVE  caches'[d] \in Seq(Int) /\ Fewer(caches'[d], caches[d])
    <2>1. caches[d] \in Seq(Int) /\ caches'[d] = Without(caches[d], W)
      BY <1>1, <1>2, <1>5 DEF W
    <2> QED
      BY <2>1, WithoutIsFewer
  <1>6. caches'[Here] = u
    BY <1>1 DEF words
  <1>7. CachesType'
    <2>1. caches' \in [Caches -> Seq(Int)]
      BY <1>1, <1>4, <1>5, <1>6
    <2>2. pollution' \in Nat
      BY <1>1 DEF CachesType
    <2> QED
      BY <2>1, <2>2 DEF CachesType
  <1> QED
    BY <1>1, <1>4, <1>5, <1>6, <1>7 DEF W

\* Touching one line x of a row, which other caches may lose.
LEMMA KeepWarmTouches ==
  ASSUME CachesType, Here \in Caches, curr_ws \in Nat, WholeChunks, KeepWarm
  PROVE  /\ CachesType' /\ pollution' = pollution
         /\ \E x \in Sweep(curr_ws) :
              /\ Behind(caches'[Here], caches[Here], {x})
              /\ \A n \in Nat : n <= CACHESIZE /\ Near(caches[Here], Sweep(curr_ws), n)
                                  => Near(caches'[Here], Sweep(curr_ws), n)
              /\ \A c \in Caches : c # Here =>
                   caches'[c] = caches[c] \/ caches'[c] = Without(caches[c], {x})
         /\ \A c \in Caches : c # Here => Fewer(caches'[c], caches[c])
  <1>1. PICK k \in 0 .. WSS - 1, written \in BOOLEAN :
          caches' = [c \in Caches |->
                       IF c = Here THEN Touch(caches[c], curr_ws * WSS + k)
                       ELSE IF written THEN Without(caches[c], {curr_ws * WSS + k}) ELSE caches[c]]
    BY DEF KeepWarm
  <1>2. pollution' = pollution /\ CACHESIZE \in Nat /\ WSS \in Nat
    BY WorkingSetAssumption DEF KeepWarm
  <1> PICK x : x = curr_ws * WSS + k
    OBVIOUS
  <1> PICK W : W = Sweep(curr_ws)
    OBVIOUS
  <1>3. x \in W /\ x \in Int
    <2> PICK a : a = curr_ws * WSS
      OBVIOUS
    <2>1. a \in Nat
      BY <1>2
    <2>2. W = a .. a + (WSS - 1)
      BY SweepLines
    <2>3. x = a + k
      OBVIOUS
    <2> QED
      BY <1>2, <2>1, <2>2, <2>3
  <1> PICK c : c = caches[Here]
    OBVIOUS
  <1> PICK u : u = AfterTouching(c, CACHESIZE, <<x>>)
    OBVIOUS
  <1>4. /\ c \in Seq(Int) /\ caches'[Here] = u
        /\ \A d \in Caches : d # Here =>
             caches'[d] = caches[d] \/ caches'[d] = Without(caches[d], {x})
        /\ DOMAIN caches' = Caches /\ caches' = [d \in Caches |-> caches'[d]]
    BY <1>1 DEF CachesType, Touch
  <1>5. u \in Seq(Int) /\ Behind(u, c, {x})
    <2>1. <<x>> \in Seq(Int) /\ {x} = {<<x>>[l] : l \in DOMAIN <<x>>}
      BY <1>3
    <2>2. c \in Seq(Int) /\ CACHESIZE \in Nat
      BY <1>2, <1>4
    <2>3. Fronted(AfterTouching(c, CACHESIZE, <<x>>), c, CACHESIZE, {x}, Len(<<x>>))
      BY <2>1, <2>2, TouchedBehind
    <2> QED
      BY <2>3 DEF Fronted
  <1>6. ASSUME NEW n \in Nat, n <= CACHESIZE, Near(c, W, n)
        PROVE  Near(u, W, n)
    <2>1. c \in Seq(Int) /\ CACHESIZE \in Nat /\ n \in Nat /\ n <= CACHESIZE
      BY <1>2, <1>4, <1>6
    <2>2. Near(AfterTouching(c, CACHESIZE, <<x>>), W, n)
      BY <1>3, <1>6, <2>1, TouchedStayNear
    <2> QED
      BY <2>2
  <1>7. ASSUME NEW d \in Caches, d # Here
        PROVE  caches'[d] \in Seq(Int) /\ Fewer(caches'[d], caches[d])
    <2>1. caches[d] \in Seq(Int)
      BY DEF CachesType
    <2>2. Fewer(caches[d], caches[d])
      BY DEF Fewer
    <2>3. Without(caches[d], {x}) \in Seq(Int) /\ Fewer(Without(caches[d], {x}), caches[d])
      BY <2>1, WithoutIsFewer
    <2> QED
      BY <1>4, <1>7, <2>1, <2>2, <2>3
  <1>8. CachesType'
    <2>1. caches' \in [Caches -> Seq(Int)]
      BY <1>4, <1>5, <1>7
    <2> QED
      BY <1>2, <2>1 DEF CachesType
  <1> QED
    BY <1>2, <1>3, <1>4, <1>5, <1>6, <1>7, <1>8

LEMMA PolluteTouches ==
  ASSUME CachesType, Pollute
  PROVE  /\ CachesType' /\ pollution' = pollution + 1
         /\ \E c \in Caches :
              /\ Behind(caches'[c], caches[c], {Foreign})
              /\ Slipped(caches'[c], caches[c], CACHESIZE, Foreign)
              /\ \A d \in Caches : d # c => caches'[d] = caches[d]
  <1>1. PICK c \in Caches :
          \/ caches' = [caches EXCEPT ![c] = Capped(<<Foreign>> \o @, CACHESIZE)]
          \/ \E p \in 1 .. Len(caches[c]) :
               /\ caches[c][p] = Foreign
               /\ caches' = [caches EXCEPT ![c] = ToFront(@, p)]
    BY DEF Pollute
  <1>2. pollution' = pollution + 1 /\ CACHESIZE \in Nat \ {0} /\ Foreign \in Int
    BY WorkingSetAssumption DEF Pollute, Foreign
  <1>3. caches[c] \in Seq(Int) /\ caches \in [Caches -> Seq(Int)] /\ pollution \in Nat
    BY DEF CachesType
  <1>4. ASSUME NEW u, u \in Seq(Int), Behind(u, caches[c], {Foreign}),
               Slipped(u, caches[c], CACHESIZE, Foreign), caches' = [caches EXCEPT ![c] = u]
        PROVE  /\ CachesType' /\ Behind(caches'[c], caches[c], {Foreign})
               /\ Slipped(caches'[c], caches[c], CACHESIZE, Foreign)
               /\ \A d \in Caches : d # c => caches'[d] = caches[d]
    <2>1. caches'[c] = u /\ caches' \in [Caches -> Seq(Int)]
          /\ \A d \in Caches : d # c => caches'[d] = caches[d]
      BY <1>3, <1>4
    <2> QED
      BY <1>2, <1>3, <1>4, <2>1 DEF CachesType
  <1>5. CASE caches' = [caches EXCEPT ![c] = Capped(<<Foreign>> \o @, CACHESIZE)]
    <2> PICK u : u = Capped(<<Foreign>> \o caches[c], CACHESIZE)
      OBVIOUS
    <2>1. /\ u \in Seq(Int) /\ Behind(u, caches[c], {Foreign})
          /\ Slipped(u, caches[c], CACHESIZE, Foreign)
      BY <1>2, <1>3, PushedIn
    <2>2. caches' = [caches EXCEPT ![c] = u]
      BY <1>5
    <2> QED
      BY <1>2, <1>4, <2>1, <2>2
  <1>6. CASE \E p \in 1 .. Len(caches[c]) :
               /\ caches[c][p] = Foreign
               /\ caches' = [caches EXCEPT ![c] = ToFront(@, p)]
    <2>1. PICK p \in 1 .. Len(caches[c]) :
            caches[c][p] = Foreign /\ caches' = [caches EXCEPT ![c] = ToFront(@, p)]
      BY <1>6
    <2> PICK u : u = ToFront(caches[c], p)
      OBVIOUS
    <2>2. /\ u \in Seq(Int) /\ Behind(u, caches[c], {Foreign})
          /\ Slipped(u, caches[c], CACHESIZE, Foreign)
      BY <1>3, <2>1, MovedToFront
    <2>3. caches' = [caches EXCEPT ![c] = u]
      BY <2>1
    <2> QED
      BY <1>2, <1>4, <2>2, <2>3
  <1> QED
    BY <1>1, <1>5, <1>6

-----------------------------------------------------------------------------
(* What the cold accesses leave behind in the caches.                      *)

ColdRow(s, l) == Sweep(Row(s[l].job_count))

\* The lines of other processes, and of the rows in use since l.
Young(s, l) ==
  {Foreign} \cup UNION {ColdRow(s, m) : m \in {k \in l .. Len(s) : Is(s, k, "C")}}

\* Whatever is in c and not in Y stands behind all of X.
Ordered(c, X, Y) ==
  \A p \in DOMAIN c : c[p] \notin Y => \A x \in X : \E q \in 1 .. p - 1 : c[q] = x

\* Since l only the cache c was used.
Through(s, l, c) == \A m \in l .. Len(s) : CacheOf[s[m].cpu] = c

\* Nowhere in between did the task leave and come back unseen, ...
Steady(s, l) == \A m \in l .. Len(s) - 1 : s[m + 1].sched_count <= s[m].sched_count + 1

\* ... nor has it since the last data point.
Stayed ==
  /\ page.sched <= log[Len(log)].sched_count + 1
  /\ CacheOf[log[Len(log)].cpu] = Here

LEMMA OrderKept ==
  ASSUME NEW u, NEW c, NEW W, NEW X, NEW Y, W \subseteq Y, Behind(u, c, W), Ordered(c, X, Y)
  PROVE  Ordered(u, X, Y)
  <1> SUFFICES ASSUME NEW p \in DOMAIN u, u[p] \notin Y, NEW x \in X
               PROVE  \E q \in 1 .. p - 1 : u[q] = x
    BY DEF Ordered
  <1>1. u[p] \notin W
    OBVIOUS
  <1>2. /\ \A w \in W : \E q \in 1 .. p - 1 : u[q] = w
        /\ \E k \in DOMAIN c :
             /\ c[k] = u[p]
             /\ \A l \in 1 .. k - 1 : c[l] \notin W => \E q \in 1 .. p - 1 : u[q] = c[l]
    BY <1>1 DEF Behind
  <1>3. PICK k \in DOMAIN c :
          /\ c[k] = u[p]
          /\ \A l \in 1 .. k - 1 : c[l] \notin W => \E q \in 1 .. p - 1 : u[q] = c[l]
    BY <1>2
  <1>4. PICK l \in 1 .. k - 1 : c[l] = x
    BY <1>3 DEF Ordered
  <1>5. CASE x \in W
    BY <1>2, <1>5
  <1>6. CASE x \notin W
    BY <1>3, <1>4, <1>6
  <1> QED
    BY <1>5, <1>6

LEMMA FrontIsOrdered ==
  ASSUME NEW u, NEW c, NEW W, NEW Y, W \subseteq Y, Behind(u, c, W)
  PROVE  Ordered(u, W, Y)
  BY DEF Behind, Ordered

LEMMA OrderedFewer ==
  ASSUME NEW c, NEW X, NEW Y, NEW Z, Y \subseteq Z, Ordered(c, X, Y)
  PROVE  Ordered(c, X, Z)
  BY DEF Ordered

\* Lines of S stay lines of S.
LEMMA LinesKept ==
  ASSUME NEW u, NEW c, NEW W, NEW S, W \subseteq S, Behind(u, c, W),
         \A p \in DOMAIN c : c[p] \in S
  PROVE  \A p \in DOMAIN u : u[p] \in S
  <1> SUFFICES ASSUME NEW p \in DOMAIN u, u[p] \notin W PROVE u[p] \in S
    OBVIOUS
  <1>1. PICK k \in DOMAIN c : c[k] = u[p]
    BY DEF Behind
  <1> QED
    BY <1>1

-----------------------------------------------------------------------------
(* The invariants.                                                         *)

\* The job and the switch of the last data point.
CourseInv ==
  /\ \A k \in 1 .. Len(log), l \in 1 .. Len(log) :
       k <= l => log[k].job_count <= log[l].job_count
  /\ log # <<>> =>
       /\ log[Len(log)].job_count <= page.job
       /\ log[Len(log)].sched_count <= page.sched
       /\ log[Len(log)].sched_count = page.sched => log[Len(log)].cpu = page.cpu
       /\ owed > 0 => log[Len(log)].sched_count = page.sched

\* The row in use is that of the last cold access ...
RowOf(s, row) ==
  \E l \in 1 .. Len(s) :
    /\ Is(s, l, "C") /\ row = Row(s[l].job_count)
    /\ \A m \in l + 1 .. Len(s) : ~Is(s, m, "C")

RowInv == log # <<>> => RowOf(log, curr_ws)

\* ... and only lines of such rows are cached,
LinesInv ==
  \A c \in Caches : \A p \in DOMAIN caches[c] : caches[c][p] \in Young(log, 1)

\* older ones behind younger ones when all went through one cache,
OrderInv ==
  \A l \in 1 .. Len(log), c \in Caches :
    Is(log, l, "C") /\ Through(log, l, c) /\ Steady(log, l) /\ Stayed =>
      Ordered(caches[c], ColdRow(log, l), Young(log, l))

\* What is polled is whether the last data point is still the last.
PolledInv == polled => log # <<>>

\* The row in use is among the first n of the cache it was last used through,
\* but for a line x that was written elsewhere since.
AtTop(n) ==
  LET c == caches[CacheOf[log[Len(log)].cpu]]
  IN  \/ Near(c, Sweep(curr_ws), n)
      \/ /\ ~polled /\ ~Stayed
         /\ \E x \in Sweep(curr_ws) : Near(c, Sweep(curr_ws) \ {x}, n - 1)

\* It is at the front as far as the pollution lets it.
TopInv == log # <<>> /\ WSS + pollution <= CACHESIZE => AtTop(WSS + pollution)

-----------------------------------------------------------------------------
(* The steps of a run.                                                     *)

Accessed(type, row) ==
  /\ Grown(log, log', Observation(type, Misses(row)))
  /\ page' = page /\ Timed(row)
  /\ type = "C" => row = Row(page.job) /\ page.job > LastJob
  /\ type # "C" => row = curr_ws /\ log # <<>>
  /\ type = "H" => owed > 0

Moved ==
  /\ Later(page, page') /\ owed = 0 /\ owed' = 0 /\ log' = log
  /\ UNCHANGED memvars

LEMMA EntryIs ==
  ASSUME PageType, NEW k \in 1 .. Len(log)
  PROVE  /\ log[k].job_count \in Nat /\ log[k].sched_count \in Nat /\ log[k].cpu \in Processors
         /\ log[k].access_type \in {"C", "H", "P"} /\ log[k].access_time \in Nat
  <1>1. log[k] \in DataPoint
    BY ElementOfSeq DEF PageType
  <1>2. \A n \in 0 .. SweepLength : n \in Nat
    BY Constants
  <1> QED
    BY <1>1, <1>2 DEF DataPoint

LEMMA HereIs ==
  ASSUME PageType, stage = "task"
  PROVE  Here \in Caches /\ page.cpu \in Processors
  BY DEF PageType, Here, Caches

LEMMA RunSteps ==
  ASSUME PageType, JobsInv, Run
  PROVE  \/ \E type \in {"C", "H", "P"}, row \in Nat : Accessed(type, row)
         \/ Poll \/ KeepWarm \/ Pollute \/ Moved
  <1>1. /\ stage = "task" /\ log \in Seq(DataPoint) /\ page.job \in Nat /\ curr_ws \in Nat
        /\ owed \in Nat /\ page \in [job : Nat, sched : Nat \ {0}, cpu : Cpus]
    BY Constants DEF Run, PageType
  <1>2. ASSUME NEW type \in {"C", "H", "P"}, NEW row \in Nat, type = "P" => page.sched > 1,
               log' = Append(log, Observation(type, Misses(row)))
        PROVE  Grown(log, log', Observation(type, Misses(row)))
    <2>1. Observation(type, Misses(row)) \in DataPoint
      BY <1>1, <1>2, MissesType, ObservationType
    <2> QED
      BY <1>1, <1>2, <2>1, AppendedIs DEF Grown
  <1>3. CASE ColdAccess
    <2> PICK row : row = Row(page.job)
      OBVIOUS
    <2>1. row \in Nat
      BY <1>1, RowIs
    <2>2. /\ log' = Append(log, Observation("C", Misses(row))) /\ page.job > LastJob
          /\ page' = page /\ Timed(row)
      BY <1>3 DEF ColdAccess, MeasureCold
    <2>3. Accessed("C", row)
      BY <1>2, <2>1, <2>2 DEF Accessed
    <2> QED
      BY <2>1, <2>3
  <1>4. CASE HotAccess
    <2>1. /\ log' = Append(log, Observation("H", Misses(curr_ws))) /\ owed > 0
          /\ page' = page /\ Timed(curr_ws)
      BY <1>4 DEF HotAccess, MeasureHot
    <2>2. log # <<>>
      <3>1. PICK c \in 1 .. Len(log) : TRUE
        BY <2>1 DEF JobsInv
      <3> QED
        BY <3>1, EmptySeq
    <2>3. Accessed("H", curr_ws)
      BY <1>1, <1>2, <2>1, <2>2 DEF Accessed
    <2> QED
      BY <1>1, <2>3
  <1>5. CASE PreemptedAccess
    <2>1. /\ log' = Append(log, Observation("P", Misses(curr_ws)))
          /\ page' = page /\ Timed(curr_ws) /\ log # <<>>
          /\ page.sched > log[Len(log)].sched_count
      BY <1>5 DEF PreemptedAccess, MeasurePreempted
    <2>2. page.sched > 1
      <3>1. Len(log) \in 1 .. Len(log)
        BY <1>1, <2>1, EmptySeq, LenProperties
      <3>2. log[Len(log)] \in DataPoint
        BY <1>1, <3>1, ElementOfSeq
      <3>3. log[Len(log)].sched_count \in Nat \ {0} /\ page.sched \in Nat
        BY <1>1, <3>2 DEF DataPoint
      <3> QED
        BY <2>1, <3>3
    <2>3. Accessed("P", curr_ws)
      BY <1>1, <1>2, <2>1, <2>2 DEF Accessed
    <2> QED
      BY <1>1, <2>3
  <1>6. CASE Switch(plan[run + 1].most)
    <2>1. Moved
      BY <1>6 DEF Switch, KernelMoves, Moved
    <2> QED
      BY <2>1
  <1>7. CASE Release(plan[run + 1].last, plan[run + 1].most)
    <2>1. Moved
      BY <1>7 DEF Release, KernelMoves, Moved
    <2> QED
      BY <2>1
  <1> QED
    BY <1>3, <1>4, <1>5, <1>6, <1>7 DEF Run, Measuring

LEMMA CourseStep == PageType /\ JobsInv /\ CourseInv /\ Run => CourseInv'
  <1> SUFFICES ASSUME PageType, JobsInv, CourseInv, Run PROVE CourseInv'
    OBVIOUS
  <1> PICK n : n = Len(log)
    OBVIOUS
  <1>1. /\ log \in Seq(DataPoint) /\ n \in Nat /\ page.job \in Nat /\ page.sched \in Nat
        /\ (log # <<>> => n >= 1)
    BY LenProperties, EmptySeq DEF PageType
  <1>2. \A k \in 1 .. n : log[k].job_count \in Nat /\ log[k].sched_count \in Nat
    BY EntryIs
  <1>3. ASSUME NEW type \in {"C", "H", "P"}, NEW row \in Nat, Accessed(type, row)
        PROVE  CourseInv'
    <2> PICK x : x = Observation(type, Misses(row))
      OBVIOUS
    <2>1. /\ Len(log') = n + 1 /\ log'[n + 1] = x /\ \A k \in 1 .. n : log'[k] = log[k]
          /\ page' = page
      BY <1>3 DEF Accessed, Grown
    <2>2. x.job_count = page.job /\ x.sched_count = page.sched /\ x.cpu = page.cpu
      BY DEF Observation
    <2>3. ASSUME NEW k \in 1 .. n PROVE log[k].job_count <= page.job
      <3>1. n \in 1 .. n /\ log # <<>> /\ k <= n
        BY <1>1, EmptySeq
      <3>2. log[k].job_count <= log[n].job_count /\ log[n].job_count <= page.job
        BY <3>1 DEF CourseInv
      <3> QED
        BY <1>1, <1>2, <3>1, <3>2
    <2>4. ASSUME NEW k \in 1 .. n + 1, NEW l \in 1 .. n + 1, k <= l
          PROVE  log'[k].job_count <= log'[l].job_count
      <3>1. CASE l \in 1 .. n
        <4>1. k \in 1 .. n
          BY <1>1, <2>4, <3>1
        <4>2. log[k].job_count <= log[l].job_count
          BY <2>4, <3>1, <4>1 DEF CourseInv
        <4> QED
          BY <2>1, <3>1, <4>1, <4>2
      <3>2. CASE l = n + 1 /\ k \in 1 .. n
        BY <2>1, <2>2, <2>3, <3>2
      <3>3. CASE l = n + 1 /\ k = n + 1
        BY <1>1, <2>1, <2>2, <3>3
      <3> QED
        BY <1>1, <2>4, <3>1, <3>2, <3>3
    <2> QED
      BY <1>1, <2>1, <2>2, <2>4 DEF CourseInv
  <1>4. CASE Poll \/ KeepWarm \/ Pollute
    <2>1. page' = page /\ log' = log /\ owed' = owed
      BY <1>4 DEF Poll, KeepWarm, Pollute, mvars
    <2> QED
      BY <2>1 DEF CourseInv
  <1>5. CASE Moved
    <2>1. /\ page'.job >= page.job /\ page'.sched >= page.sched
          /\ page'.sched = page.sched => page'.cpu = page.cpu
          /\ log' = log /\ owed' = 0
      BY <1>5 DEF Moved, Later
    <2>2. page'.job \in Nat /\ page'.sched \in Nat
      <3>1. PageType'
        BY PageTypeRun
      <3> QED
        BY <3>1 DEF PageType
    <2>3. ASSUME log # <<>>
          PROVE  /\ log[n].job_count <= page'.job
                 /\ log[n].sched_count <= page'.sched
                 /\ log[n].sched_count = page'.sched => log[n].cpu = page'.cpu
      <3>1. /\ log[n].job_count <= page.job
            /\ log[n].sched_count <= page.sched
            /\ log[n].sched_count = page.sched => log[n].cpu = page.cpu
        BY <2>3 DEF CourseInv
      <3>2. log[n].job_count \in Nat /\ log[n].sched_count \in Nat
        BY <1>1, <1>2, <2>3
      <3>3. log[n].sched_count = page'.sched => page'.sched = page.sched
        BY <1>1, <2>1, <2>2, <3>1, <3>2
      <3> QED
        BY <1>1, <2>1, <2>2, <3>1, <3>2, <3>3
    <2> QED
      BY <2>1, <2>3 DEF CourseInv
  <1> QED
    BY <1>3, <1>4, <1>5, RunSteps

LEMMA StayedBefore ==
  ASSUME PageType, CourseInv, log # <<>>, page'.sched \in Nat, Moved, Stayed'
  PROVE  Stayed
  <1> PICK e : e = log[Len(log)]
    OBVIOUS
  <1>1. /\ page'.sched >= page.sched /\ log' = log
        /\ page'.sched = page.sched => page'.cpu = page.cpu
    BY DEF Moved, Later
  <1>2. page'.sched <= e.sched_count + 1 /\ CacheOf[e.cpu] = CacheOf[page'.cpu]
    BY <1>1 DEF Stayed, Here
  <1>3. e.sched_count <= page.sched /\ (e.sched_count = page.sched => e.cpu = page.cpu)
    BY DEF CourseInv
  <1>4. page.sched \in Nat /\ e.sched_count \in Nat
    <2>1. Len(log) \in 1 .. Len(log)
      BY EmptySeq, LenProperties DEF PageType
    <2> QED
      BY <2>1, EntryIs DEF PageType
  <1>5. page'.sched = page.sched \/ page.sched = e.sched_count
    BY <1>1, <1>2, <1>3, <1>4
  <1>6. page.sched <= e.sched_count + 1
    BY <1>1, <1>2, <1>4
  <1> QED
    BY <1>1, <1>2, <1>3, <1>5, <1>6 DEF Stayed, Here

LEMMA PolledStep == PageType /\ JobsInv /\ PolledInv /\ Run => PolledInv'
  <1> SUFFICES ASSUME PageType, JobsInv, PolledInv, Run PROVE PolledInv'
    OBVIOUS
  <1>1. ASSUME NEW type \in {"C", "H", "P"}, NEW row \in Nat, Accessed(type, row)
        PROVE  PolledInv'
    BY <1>1 DEF Accessed, Grown, PolledInv
  <1>2. CASE Poll \/ KeepWarm \/ Pollute \/ Moved
    <2>1. log' = log /\ (polled' => polled \/ log # <<>>)
      BY <1>2 DEF Poll, KeepWarm, Pollute, Moved, mvars, memvars
    <2> QED
      BY <2>1 DEF PolledInv
  <1> QED
    BY <1>1, <1>2, RunSteps

LEMMA RowStep == PageType /\ JobsInv /\ RowInv /\ Run => RowInv'
  <1> SUFFICES ASSUME PageType, JobsInv, RowInv, Run PROVE RowInv'
    OBVIOUS
  <1> PICK n : n = Len(log)
    OBVIOUS
  <1>1. log \in Seq(DataPoint) /\ n \in Nat
    BY LenProperties DEF PageType
  <1>2. ASSUME NEW type \in {"C", "H", "P"}, NEW row \in Nat, Accessed(type, row)
        PROVE  RowOf(log', curr_ws')
    <2> PICK x : x = Observation(type, Misses(row))
      OBVIOUS
    <2>1. /\ Len(log') = n + 1 /\ log'[n + 1] = x /\ \A k \in 1 .. n : log'[k] = log[k]
          /\ curr_ws' = row
      BY <1>2 DEF Accessed, Grown, Timed
    <2>2. x.access_type = type /\ x.job_count = page.job
      BY DEF Observation
    <2>3. CASE type = "C"
      <3>1. Is(log', n + 1, "C") /\ row = Row(log'[n + 1].job_count)
        BY <1>2, <2>1, <2>2, <2>3 DEF Accessed, Is
      <3>2. n + 1 \in 1 .. n + 1 /\ \A m : m \notin (n + 1) + 1 .. n + 1
        BY <1>1
      <3> QED
        BY <2>1, <3>1, <3>2 DEF RowOf
    <2>4. CASE type # "C"
      <3>1. RowOf(log, row)
        BY <1>2, <2>4 DEF Accessed, RowInv
      <3>2. PICK l \in 1 .. n :
              /\ Is(log, l, "C") /\ row = Row(log[l].job_count)
              /\ \A m \in l + 1 .. n : ~Is(log, m, "C")
        BY <3>1 DEF RowOf
      <3>3. l \in 1 .. n + 1 /\ \A m \in l + 1 .. n + 1 : (m \in l + 1 .. n /\ m \in 1 .. n) \/ m = n + 1
        BY <1>1
      <3>4. Is(log', l, "C") /\ row = Row(log'[l].job_count)
        BY <2>1, <3>2 DEF Is
      <3>5. \A m \in l + 1 .. n + 1 : ~Is(log', m, "C")
        BY <2>1, <2>2, <2>4, <3>2, <3>3 DEF Is
      <3> QED
        BY <2>1, <3>3, <3>4, <3>5 DEF RowOf
    <2> QED
      BY <2>3, <2>4
  <1>3. CASE Poll \/ KeepWarm \/ Pollute \/ Moved
    <2>1. log' = log /\ curr_ws' = curr_ws
      BY <1>3 DEF Poll, KeepWarm, Pollute, Moved, mvars, memvars
    <2> QED
      BY <2>1 DEF RowInv
  <1> QED
    BY <1>2, <1>3, RunSteps DEF RowInv

LEMMA YoungGrows ==
  ASSUME NEW s, NEW t, NEW x, Len(s) \in Nat, Grown(s, t, x), NEW l \in Nat \ {0}
  PROVE  Young(s, l) \subseteq Young(t, l)
  <1>1. Len(t) = Len(s) + 1 /\ \A k \in 1 .. Len(s) : t[k] = s[k]
    BY DEF Grown
  <1>2. ASSUME NEW m \in {k \in l .. Len(s) : Is(s, k, "C")}
        PROVE  m \in {k \in l .. Len(t) : Is(t, k, "C")} /\ ColdRow(s, m) = ColdRow(t, m)
    <2>1. m \in 1 .. Len(s) /\ m \in l .. Len(s) + 1 /\ Is(s, m, "C")
      OBVIOUS
    <2> QED
      BY <1>1, <2>1 DEF Is, ColdRow
  <1>3. ASSUME NEW y \in Young(s, l), y # Foreign
        PROVE  y \in Young(t, l)
    <2>1. PICK m \in {k \in l .. Len(s) : Is(s, k, "C")} : y \in ColdRow(s, m)
      BY <1>3 DEF Young
    <2> QED
      BY <1>2, <2>1 DEF Young
  <1> QED
    BY <1>3 DEF Young

LEMMA RowIsYoung ==
  ASSUME NEW s, NEW row, Len(s) \in Nat, RowOf(s, row), NEW l \in 1 .. Len(s), Is(s, l, "C")
  PROVE  Sweep(row) \subseteq Young(s, l)
  <1>1. PICK k \in 1 .. Len(s) :
          /\ Is(s, k, "C") /\ row = Row(s[k].job_count)
          /\ \A m \in k + 1 .. Len(s) : ~Is(s, m, "C")
    BY DEF RowOf
  <1>2. ~(l > k)
    <2> SUFFICES ASSUME l > k PROVE FALSE
      OBVIOUS
    <2>1. l \in k + 1 .. Len(s)
      OBVIOUS
    <2> QED
      BY <1>1, <2>1
  <1>3. k \in l .. Len(s)
    BY <1>2
  <1>4. k \in {m \in l .. Len(s) : Is(s, m, "C")} /\ ColdRow(s, k) = Sweep(row)
    BY <1>1, <1>3 DEF ColdRow
  <1> QED
    BY <1>4 DEF Young

\* What a step of a run does to one cache: W comes to its front, or it only
\* loses lines.
Uses(c, W) ==
  \/ Behind(caches'[c], caches[c], W)
  \/ Fewer(caches'[c], caches[c])

\* W comes to the front of the cache d, and the others are left alone.
FrontedOnly(d, W) ==
  /\ Behind(caches'[d], caches[d], W)
  /\ \A c \in Caches : c # d => caches'[c] = caches[c]

AllYoung(s, W) == \A l \in 1 .. Len(s) : Is(s, l, "C") => W \subseteq Young(s, l)

LEMMA LinesStep ==
  WholeChunks /\ CachesType /\ PageType /\ JobsInv /\ PolledInv /\ RowInv /\ LinesInv /\ Run =>
    CachesType' /\ LinesInv'
  <1> SUFFICES ASSUME WholeChunks, CachesType, PageType, JobsInv, PolledInv, RowInv, LinesInv, Run
               PROVE  CachesType' /\ LinesInv'
    OBVIOUS
  <1>1. /\ log \in Seq(DataPoint) /\ Len(log) \in Nat /\ stage = "task" /\ curr_ws \in Nat
        /\ Here \in Caches /\ CACHESIZE \in Nat
    BY LenProperties, HereIs, WorkingSetAssumption DEF PageType, Run
  <1>2. ASSUME NEW c \in Caches, NEW W, NEW S, W \subseteq S, Uses(c, W), Young(log, 1) \subseteq S
        PROVE  \A p \in DOMAIN caches'[c] : caches'[c][p] \in S
    <2>1. \A p \in DOMAIN caches[c] : caches[c][p] \in S
      BY <1>2 DEF LinesInv
    <2>2. CASE Behind(caches'[c], caches[c], W)
      BY <1>2, <2>1, <2>2, LinesKept
    <2>3. CASE Fewer(caches'[c], caches[c])
      BY <2>1, <2>3 DEF Fewer
    <2> QED
      BY <1>2, <2>2, <2>3 DEF Uses
  <1>3. \A c : caches'[c] = caches[c] => Uses(c, {})
    <2> SUFFICES ASSUME NEW c, caches'[c] = caches[c] PROVE Fewer(caches'[c], caches[c])
      BY DEF Uses
    <2> QED
      BY DEF Fewer
  <1>4. ASSUME NEW type \in {"C", "H", "P"}, NEW row \in Nat, Accessed(type, row)
        PROVE  CachesType' /\ LinesInv'
    <2>1. Timed(row) /\ curr_ws' = row /\ Grown(log, log', Observation(type, Misses(row)))
      BY <1>4 DEF Accessed, Timed
    <2>2. /\ CachesType' /\ Behind(caches'[Here], caches[Here], Sweep(row))
          /\ \A c \in Caches : c # Here => Fewer(caches'[c], caches[c])
      BY <1>1, <2>1, SweepTouches
    <2>3. Young(log, 1) \subseteq Young(log', 1)
      BY <1>1, <2>1, YoungGrows
    <2>4. Sweep(row) \subseteq Young(log', 1)
      <3>1. JobsInv' /\ RowInv'
        BY JobsRun, RowStep
      <3>2. log' # <<>> /\ Len(log') \in Nat /\ 1 \in 1 .. Len(log')
        BY <1>1, <2>1 DEF Grown
      <3>3. RowOf(log', row) /\ Is(log', 1, "C")
        BY <2>1, <3>1, <3>2 DEF RowInv, JobsInv, FromStart
      <3> QED
        BY <3>2, <3>3, RowIsYoung
    <2>5. \A c \in Caches : Uses(c, Sweep(row))
      BY <2>2 DEF Uses
    <2>6. LinesInv'
      BY <1>2, <2>3, <2>4, <2>5 DEF LinesInv
    <2> QED
      BY <2>2, <2>6
  <1>5. CASE KeepWarm
    <2>0. log' = log
      BY <1>5 DEF KeepWarm, mvars
    <2>a. log # <<>>
      BY <1>5 DEF KeepWarm, PolledInv
    <2>1. /\ CachesType'
          /\ \A c \in Caches : c # Here => Fewer(caches'[c], caches[c])
          /\ \E x \in Sweep(curr_ws) : Behind(caches'[Here], caches[Here], {x})
      BY <1>1, <1>5, KeepWarmTouches
    <2>2. PICK x \in Sweep(curr_ws) : Behind(caches'[Here], caches[Here], {x})
      BY <2>1
    <2>3. Sweep(curr_ws) \subseteq Young(log, 1)
      <3>1. 1 \in 1 .. Len(log)
        BY <1>1, <2>a, EmptySeq, LenProperties
      <3>2. RowOf(log, curr_ws) /\ Is(log, 1, "C")
        BY <2>a DEF RowInv, JobsInv, FromStart
      <3> QED
        BY <1>1, <3>1, <3>2, RowIsYoung
    <2>4. \A c \in Caches : Uses(c, {}) \/ Uses(c, {x})
      BY <2>1, <2>2 DEF Uses
    <2>5. {} \subseteq Young(log, 1) /\ {x} \subseteq Young(log, 1)
      BY <2>3
    <2>6. LinesInv'
      BY <1>2, <2>0, <2>4, <2>5 DEF LinesInv
    <2> QED
      BY <2>1, <2>6
  <1>6. CASE Pollute
    <2>0. log' = log
      BY <1>6 DEF Pollute, mvars
    <2>1. /\ CachesType'
          /\ \E c \in Caches :
               /\ Behind(caches'[c], caches[c], {Foreign})
               /\ \A d \in Caches : d # c => caches'[d] = caches[d]
      BY <1>6, PolluteTouches
    <2>2. \A c \in Caches : Uses(c, {}) \/ Uses(c, {Foreign})
      BY <1>3, <2>1 DEF Uses
    <2>3. {} \subseteq Young(log, 1) /\ {Foreign} \subseteq Young(log, 1)
      BY DEF Young
    <2>4. LinesInv'
      BY <1>2, <2>0, <2>2, <2>3 DEF LinesInv
    <2> QED
      BY <2>1, <2>4
  <1>7. CASE Poll \/ Moved
    <2>1. caches' = caches /\ log' = log /\ pollution' = pollution
      BY <1>7 DEF Poll, Moved, mvars, memvars
    <2> QED
      BY <2>1 DEF LinesInv, CachesType
  <1> QED
    BY <1>4, <1>5, <1>6, <1>7, RunSteps

LEMMA OrderStep ==
  WholeChunks /\ CachesType /\ PageType /\ JobsInv /\ PolledInv /\ RowInv /\ CourseInv /\ OrderInv
      /\ Run
    => OrderInv'
  <1> SUFFICES ASSUME WholeChunks, CachesType, PageType, JobsInv, PolledInv, RowInv, CourseInv,
                      OrderInv, Run
               PROVE  OrderInv'
    OBVIOUS
  <1> PICK n : n = Len(log)
    OBVIOUS
  <1>1. /\ log \in Seq(DataPoint) /\ n \in Nat /\ stage = "task" /\ curr_ws \in Nat
        /\ Here \in Caches
    BY LenProperties, HereIs DEF PageType, Run
  <1>2. ASSUME NEW type \in {"C", "H", "P"}, NEW row \in Nat, Accessed(type, row)
        PROVE  OrderInv'
    <2> PICK x : x = Observation(type, Misses(row))
      OBVIOUS
    <2>1. /\ Timed(row) /\ curr_ws' = row /\ Grown(log, log', x)
          /\ Len(log') = n + 1 /\ log'[n + 1] = x /\ \A k \in 1 .. n : log'[k] = log[k]
          /\ log' # <<>>
      BY <1>2 DEF Accessed, Timed, Grown
    <2>2. Behind(caches'[Here], caches[Here], Sweep(row)) /\ CacheOf[x.cpu] = Here
      <3>1. Behind(caches'[Here], caches[Here], Sweep(row))
        BY <1>1, <2>1, SweepTouches
      <3> QED
        BY <3>1 DEF Observation, Here
    <2>3. RowOf(log', row)
      <3>1. RowInv'
        BY RowStep
      <3> QED
        BY <2>1, <3>1 DEF RowInv
    <2> SUFFICES ASSUME NEW l \in 1 .. n + 1, NEW c \in Caches, Is(log', l, "C"),
                        Through(log', l, c), Steady(log', l)
                 PROVE  Ordered(caches'[c], ColdRow(log', l), Young(log', l))
      BY <2>1 DEF OrderInv
    <2>4. c = Here
      <3>1. n + 1 \in l .. n + 1
        BY <1>1
      <3> QED
        BY <2>1, <2>2, <3>1 DEF Through
    <2>5. Sweep(row) \subseteq Young(log', l)
      BY <1>1, <2>1, <2>3, RowIsYoung
    <2>6. CASE l \in 1 .. n
      <3>1. Is(log, l, "C") /\ ColdRow(log', l) = ColdRow(log, l)
        BY <2>1, <2>6 DEF Is, ColdRow
      <3>2. Through(log, l, c)
        <4>1. \A m \in l .. n : m \in l .. n + 1 /\ m \in 1 .. n
          BY <1>1, <2>6
        <4> QED
          BY <2>1, <4>1 DEF Through
      <3>a. Steady(log, l)
        <4> SUFFICES ASSUME NEW m \in l .. n - 1 PROVE log[m + 1].sched_count <= log[m].sched_count + 1
          BY DEF Steady
        <4>1. m \in 1 .. n /\ m + 1 \in 1 .. n /\ m \in l .. (n + 1) - 1
          BY <1>1, <2>6
        <4> QED
          BY <2>1, <4>1 DEF Steady
      <3>b. Stayed
        <4>1. n \in l .. n /\ n \in l .. (n + 1) - 1 /\ n \in 1 .. n
          BY <1>1, <2>6
        <4>2. log'[n + 1].sched_count <= log'[n].sched_count + 1
          BY <2>1, <4>1 DEF Steady
        <4>3. page.sched <= log[n].sched_count + 1
          BY <2>1, <4>1, <4>2 DEF Observation
        <4>4. CacheOf[log[n].cpu] = Here
          BY <2>4, <3>2, <4>1 DEF Through
        <4> QED
          BY <4>3, <4>4 DEF Stayed
      <3>3. Ordered(caches[c], ColdRow(log, l), Young(log, l))
        BY <2>6, <3>1, <3>2, <3>a, <3>b DEF OrderInv
      <3>4. Young(log, l) \subseteq Young(log', l)
        BY <1>1, <2>1, YoungGrows
      <3>5. Ordered(caches[c], ColdRow(log, l), Young(log', l))
        BY <3>3, <3>4, OrderedFewer
      <3> QED
        BY <2>2, <2>4, <2>5, <3>1, <3>5, OrderKept
    <2>7. CASE l = n + 1
      <3>1. PICK k \in 1 .. n + 1 :
              /\ row = Row(log'[k].job_count)
              /\ \A m \in k + 1 .. n + 1 : ~Is(log', m, "C")
        BY <2>1, <2>3 DEF RowOf
      <3>2. k = n + 1
        <4>1. k < n + 1 => n + 1 \in k + 1 .. n + 1
          BY <1>1
        <4>2. ~(k < n + 1)
          BY <2>7, <3>1, <4>1
        <4> QED
          BY <1>1, <4>2
      <3>3. ColdRow(log', l) = Sweep(row)
        BY <2>7, <3>1, <3>2 DEF ColdRow
      <3> QED
        BY <2>2, <2>4, <2>5, <3>3, FrontIsOrdered
    <2> QED
      BY <1>1, <2>6, <2>7
  <1>3. ASSUME NEW W, NEW d \in Caches, log' = log, page' = page, FrontedOnly(d, W),
               AllYoung(log, W)
        PROVE  OrderInv'
    <2> SUFFICES ASSUME NEW l \in 1 .. n, NEW c \in Caches, Is(log, l, "C"), Through(log, l, c),
                        Steady(log, l), Stayed
                 PROVE  Ordered(caches'[c], ColdRow(log, l), Young(log, l))
      BY <1>3 DEF OrderInv, Stayed, Here
    <2>1. Ordered(caches[c], ColdRow(log, l), Young(log, l))
      BY DEF OrderInv
    <2>2. CASE c = d
      <3>1. W \subseteq Young(log, l) /\ Behind(caches'[d], caches[d], W)
        BY <1>3 DEF AllYoung, FrontedOnly
      <3> QED
        BY <2>1, <2>2, <3>1, OrderKept
    <2>3. CASE c # d
      BY <1>3, <2>1, <2>3 DEF FrontedOnly
    <2> QED
      BY <2>2, <2>3
  <1>4. CASE KeepWarm
    <2>0. log # <<>> /\ log' = log /\ page' = page
      BY <1>4 DEF KeepWarm, PolledInv, mvars
    <2>1. PICK x \in Sweep(curr_ws) : Behind(caches'[Here], caches[Here], {x})
      BY <1>1, <1>4, KeepWarmTouches
    <2> SUFFICES ASSUME NEW l \in 1 .. n, NEW c \in Caches, Is(log, l, "C"), Through(log, l, c),
                        Steady(log, l), Stayed
                 PROVE  Ordered(caches'[c], ColdRow(log, l), Young(log, l))
      BY <2>0 DEF OrderInv, Stayed, Here
    <2>2. c = Here
      <3>1. n \in l .. n
        BY <1>1
      <3> QED
        BY <3>1 DEF Through, Stayed
    <2>3. {x} \subseteq Young(log, l)
      <3>1. RowOf(log, curr_ws)
        BY <2>0 DEF RowInv
      <3>2. Sweep(curr_ws) \subseteq Young(log, l)
        BY <1>1, <3>1, RowIsYoung
      <3> QED
        BY <3>2
    <2>4. Ordered(caches[c], ColdRow(log, l), Young(log, l))
      BY DEF OrderInv
    <2> QED
      BY <2>1, <2>2, <2>3, <2>4, OrderKept
  <1>5. CASE Pollute
    <2>0. log' = log /\ page' = page
      BY <1>5 DEF Pollute, mvars
    <2>1. \E c \in Caches :
               /\ Behind(caches'[c], caches[c], {Foreign})
               /\ \A d \in Caches : d # c => caches'[d] = caches[d]
      BY <1>5, PolluteTouches
    <2>2. AllYoung(log, {Foreign})
      BY DEF AllYoung, Young
    <2>3. PICK d \in Caches : FrontedOnly(d, {Foreign})
      BY <2>1 DEF FrontedOnly
    <2> QED
      BY <1>3, <2>0, <2>2, <2>3
  <1>6. CASE Moved
    <2>1. caches' = caches /\ log' = log
      BY <1>6 DEF Moved, memvars
    <2>2. page'.sched \in Nat
      <3>1. PageType'
        BY PageTypeRun
      <3> QED
        BY <3>1 DEF PageType
    <2>3. ASSUME log # <<>>, Stayed' PROVE Stayed
      BY <1>6, <2>2, <2>3, StayedBefore
    <2> SUFFICES ASSUME NEW l \in 1 .. n, NEW c \in Caches, Is(log, l, "C"), Through(log, l, c),
                        Steady(log, l), Stayed'
                 PROVE  Ordered(caches[c], ColdRow(log, l), Young(log, l))
      BY <2>1 DEF OrderInv
    <2>4. log # <<>>
      BY EmptySeq
    <2> QED
      BY <2>3, <2>4 DEF OrderInv
  <1>7. CASE Poll
    <2>1. caches' = caches /\ log' = log /\ page' = page
      BY <1>7 DEF Poll, mvars
    <2> QED
      BY <2>1 DEF OrderInv, Stayed, Here
  <1> QED
    BY <1>2, <1>4, <1>5, <1>6, <1>7, RunSteps

LEMMA NearIsFurther ==
  ASSUME NEW c \in Seq(Int), NEW W, NEW m \in Nat, NEW n \in Nat, m <= n, Near(c, W, m)
  PROVE  Near(c, W, n)
  <1>1. \A p \in 1 .. Len(c) : p <= m => p <= n
    BY LenProperties
  <1> QED
    BY <1>1 DEF Near

LEMMA TopStep ==
  WholeChunks /\ CachesType /\ PageType /\ JobsInv /\ PolledInv /\ RowInv /\ CourseInv /\ TopInv
      /\ Run
    => TopInv'
  <1> SUFFICES ASSUME WholeChunks, CachesType, PageType, JobsInv, PolledInv, RowInv, CourseInv,
                      TopInv, Run
               PROVE  TopInv'
    OBVIOUS
  <1> PICK n : n = Len(log)
    OBVIOUS
  <1>1. /\ log \in Seq(DataPoint) /\ n \in Nat /\ stage = "task" /\ curr_ws \in Nat
        /\ Here \in Caches /\ WSS \in Nat /\ CACHESIZE \in Nat /\ pollution \in Nat
        /\ (log # <<>> => n \in 1 .. n)
    BY LenProperties, HereIs, EmptySeq, WorkingSetAssumption DEF PageType, Run, CachesType
  <1>0. WSS + pollution \in Nat
    BY <1>1
  <1>2. ASSUME NEW type \in {"C", "H", "P"}, NEW row \in Nat, Accessed(type, row),
               WSS + pollution' <= CACHESIZE
        PROVE  Near(caches'[CacheOf[log'[Len(log')].cpu]], Sweep(curr_ws'), WSS + pollution')
    <2>1. /\ Timed(row) /\ curr_ws' = row
          /\ log'[Len(log')] = Observation(type, Misses(row))
      BY <1>2 DEF Accessed, Timed, Grown
    <2>2. CacheOf[log'[Len(log')].cpu] = Here
      BY <2>1 DEF Observation, Here
    <2>3. /\ CachesType' /\ pollution' = pollution
          /\ SweepLength <= CACHESIZE => Near(caches'[Here], Sweep(row), SweepLength)
      BY <1>1, <2>1, SweepTouches
    <2>4. Near(caches'[Here], Sweep(row), WSS)
      BY <1>1, <1>2, <2>3, SweepIsWorkingSet
    <2>5. Near(caches'[Here], Sweep(row), WSS + pollution)
      <3>1. caches'[Here] \in Seq(Int) /\ WSS <= WSS + pollution
        BY <1>1, <2>3 DEF CachesType
      <3> QED
        BY <1>0, <1>1, <2>4, <3>1, NearIsFurther
    <2> QED
      BY <2>1, <2>2, <2>3, <2>5
  <1> PICK w : w = WSS + pollution
    OBVIOUS
  <1>3. CASE KeepWarm
    <2>0. /\ log # <<>> /\ log' = log /\ curr_ws' = curr_ws /\ page' = page
          /\ polled /\ ~polled'
      BY <1>3 DEF KeepWarm, PolledInv, mvars
    <2>1. /\ CachesType' /\ pollution' = pollution
          /\ \E x \in Sweep(curr_ws) :
               /\ \A m \in Nat : m <= CACHESIZE /\ Near(caches[Here], Sweep(curr_ws), m)
                                   => Near(caches'[Here], Sweep(curr_ws), m)
               /\ \A c \in Caches : c # Here =>
                    caches'[c] = caches[c] \/ caches'[c] = Without(caches[c], {x})
      BY <1>1, <1>3, KeepWarmTouches
    <2> SUFFICES ASSUME w <= CACHESIZE PROVE AtTop(w)'
      BY <2>1 DEF TopInv
    <2> PICK c : c = CacheOf[log[n].cpu]
      OBVIOUS
    <2>2. c \in Caches /\ Near(caches[c], Sweep(curr_ws), w)
      <3>1. log[n].cpu \in Processors
        BY <1>1, <2>0, EntryIs
      <3>2. AtTop(w)
        BY <2>0 DEF TopInv
      <3> QED
        BY <2>0, <3>1, <3>2 DEF AtTop, Caches
    <2>3. Near(caches'[c], Sweep(curr_ws), w) => AtTop(w)'
      BY <2>0 DEF AtTop
    <2>4. CASE c = Here
      BY <1>0, <2>1, <2>2, <2>3, <2>4
    <2>5. CASE c # Here
      <3>1. PICK x \in Sweep(curr_ws) : caches'[c] = caches[c] \/ caches'[c] = Without(caches[c], {x})
        BY <2>1, <2>2, <2>5
      <3>2. CASE caches'[c] = caches[c]
        BY <2>2, <2>3, <3>2
      <3>3. CASE caches'[c] = Without(caches[c], {x})
        <4>1. caches[c] \in Seq(Int)
          BY <2>2 DEF CachesType
        <4>2. Near(caches'[c], Sweep(curr_ws) \ {x}, w - 1)
          BY <1>0, <2>2, <3>3, <4>1, OthersMoveUp
        <4>3. ~Stayed'
          BY <2>0, <2>5 DEF Stayed, Here
        <4> QED
          BY <2>0, <4>2, <4>3 DEF AtTop
      <3> QED
        BY <3>1, <3>2, <3>3
    <2> QED
      BY <2>4, <2>5
  <1>4. CASE Pollute
    <2>0. log' = log /\ curr_ws' = curr_ws /\ page' = page /\ polled' = polled
      BY <1>4 DEF Pollute, mvars
    <2>1. /\ pollution' = pollution + 1 /\ CachesType'
          /\ \E c \in Caches :
              /\ Slipped(caches'[c], caches[c], CACHESIZE, Foreign)
              /\ \A d \in Caches : d # c => caches'[d] = caches[d]
      BY <1>4, PolluteTouches
    <2> SUFFICES ASSUME log # <<>>, w + 1 <= CACHESIZE PROVE AtTop(w + 1)'
      <3>1. WSS + pollution' = w + 1
        BY <1>1, <2>1
      <3> QED
        BY <2>0, <3>1 DEF TopInv
    <2> PICK c : c = CacheOf[log[n].cpu]
      OBVIOUS
    <2>2. w \in Nat /\ w <= CACHESIZE /\ AtTop(w)
      BY <1>0, <1>1 DEF TopInv
    <2>3. c \in Caches
      <3>1. log[n].cpu \in Processors
        BY <1>1, EntryIs
      <3> QED
        BY <3>1 DEF Caches
    <2>4. caches[c] \in Seq(Int) /\ caches'[c] \in Seq(Int)
      BY <2>1, <2>3 DEF CachesType
    <2>5. ASSUME NEW W \in SUBSET Sweep(curr_ws), NEW m \in Int, m + 1 <= CACHESIZE,
                 Near(caches[c], W, m)
          PROVE  Near(caches'[c], W, m + 1)
      <3> SUFFICES ASSUME NEW x \in W
                   PROVE  \E q \in 1 .. Len(caches'[c]) : q <= m + 1 /\ caches'[c][q] = x
        BY DEF Near
      <3>1. PICK k \in 1 .. Len(caches[c]) : k <= m /\ caches[c][k] = x
        BY <2>5 DEF Near
      <3>2. x # Foreign
        BY <1>1, SweepLines
      <3>3. k \in Nat /\ k + 1 <= CACHESIZE
        BY <1>1, <2>4, <2>5, <3>1, LenProperties
      <3>4. CASE Slipped(caches'[c], caches[c], CACHESIZE, Foreign)
        <4>1. PICK q \in 1 .. Len(caches'[c]) : q <= k + 1 /\ caches'[c][q] = caches[c][k]
          BY <3>1, <3>2, <3>3, <3>4 DEF Slipped
        <4>2. q <= m + 1
          BY <2>4, <3>1, <3>3, <4>1, LenProperties
        <4> QED
          BY <3>1, <4>1, <4>2
      <3>5. CASE caches'[c] = caches[c]
        <4>1. k <= m + 1
          BY <3>1, <3>3
        <4> QED
          BY <3>1, <3>5, <4>1
      <3> QED
        BY <2>1, <2>3, <3>4, <3>5
    <2>6. CASE Near(caches[c], Sweep(curr_ws), w)
      <3>1. Near(caches'[c], Sweep(curr_ws), w + 1)
        BY <2>2, <2>5, <2>6
      <3> QED
        BY <2>0, <3>1 DEF AtTop
    <2>7. CASE /\ ~polled /\ ~Stayed
               /\ \E x \in Sweep(curr_ws) : Near(caches[c], Sweep(curr_ws) \ {x}, w - 1)
      <3>1. PICK x \in Sweep(curr_ws) : Near(caches[c], Sweep(curr_ws) \ {x}, w - 1)
        BY <2>7
      <3>2. w - 1 \in Int /\ (w - 1) + 1 <= CACHESIZE /\ (w - 1) + 1 = (w + 1) - 1
        BY <1>1, <2>2
      <3>3. Near(caches'[c], Sweep(curr_ws) \ {x}, (w - 1) + 1)
        BY <2>5, <3>1, <3>2
      <3>4. Near(caches'[c], Sweep(curr_ws) \ {x}, (w + 1) - 1)
        BY <3>2, <3>3
      <3>5. ~polled' /\ ~Stayed'
        BY <2>0, <2>7 DEF Stayed, Here
      <3> QED
        BY <2>0, <3>4, <3>5 DEF AtTop
    <2> QED
      BY <2>2, <2>6, <2>7 DEF AtTop
  <1>5. CASE Poll
    <2>1. /\ caches' = caches /\ log' = log /\ pollution' = pollution /\ curr_ws' = curr_ws
          /\ page.sched = log[n].sched_count /\ log # <<>>
      BY <1>5 DEF Poll, mvars
    <2>2. Stayed
      <3>1. CacheOf[log[n].cpu] = Here
        BY <2>1 DEF CourseInv, Here
      <3>2. log[n].sched_count \in Nat
        BY <1>1, <2>1, EntryIs
      <3> QED
        BY <2>1, <3>1, <3>2 DEF Stayed
    <2>3. AtTop(w) => Near(caches[CacheOf[log[n].cpu]], Sweep(curr_ws), w)
      BY <2>2 DEF AtTop
    <2>4. Near(caches[CacheOf[log[n].cpu]], Sweep(curr_ws), w) => AtTop(w)'
      BY <2>1 DEF AtTop
    <2> QED
      BY <2>1, <2>3, <2>4 DEF TopInv
  <1>6. CASE Moved
    <2>1. /\ caches' = caches /\ log' = log /\ pollution' = pollution /\ curr_ws' = curr_ws
          /\ polled' = polled
      BY <1>6 DEF Moved, memvars
    <2>2. page'.sched \in Nat
      <3>1. PageType'
        BY PageTypeRun
      <3> QED
        BY <3>1 DEF PageType
    <2>3. log # <<>> /\ ~Stayed => ~Stayed'
      BY <1>6, <2>2, StayedBefore
    <2>4. log # <<>> /\ AtTop(w) => AtTop(w)'
      BY <2>1, <2>3 DEF AtTop
    <2> QED
      BY <2>1, <2>4 DEF TopInv
  <1> QED
    BY <1>2, <1>3, <1>4, <1>5, <1>6, RunSteps DEF TopInv, AtTop

-----------------------------------------------------------------------------
(* What a sweep costs.                                                     *)

\* The lines of a range that hit when it is swept.
Hitting(c, room, a, b) == {x \in a .. b : Hits(c, room, a .. x - 1, x)}

\* When a range is near the front but for a few lines L, every other line hits.
LEMMA NearHits ==
  ASSUME NEW c \in Seq(Int), NEW room \in Nat, NEW a \in Nat, NEW b \in Int,
         NEW L, IsFiniteSet(L), NEW n \in Int, n + Cardinality(L) <= room,
         Near(c, (a .. b) \ L, n)
  PROVE  \A x \in (a .. b) \ L : Hits(c, room, a .. x - 1, x)
  <1> SUFFICES ASSUME NEW x \in (a .. b) \ L PROVE Hits(c, room, a .. x - 1, x)
    OBVIOUS
  <1>1. PICK p \in 1 .. Len(c) : p <= n /\ c[p] = x
    BY DEF Near
  <1>2. p \in Nat \ {0} /\ n \in Nat
    BY <1>1, LenProperties
  <1> DEFINE D == (a .. x - 1) \ {c[q] : q \in 1 .. p - 1}
             T == {c[q] : q \in p + 1 .. n}
             f == [q \in p + 1 .. n |-> c[q]]
  <1>3. D \in SUBSET (T \cup L)
    <2> SUFFICES ASSUME NEW y \in D, y \notin L PROVE y \in T
      OBVIOUS
    <2>1. y \in a .. b /\ y # x /\ y \notin {c[q] : q \in 1 .. p - 1}
      OBVIOUS
    <2>2. PICK k \in 1 .. Len(c) : k <= n /\ c[k] = y
      BY <2>1 DEF Near
    <2>3. k \notin 1 .. p - 1 /\ k # p
      BY <1>1, <2>1, <2>2
    <2>4. k \in p + 1 .. n
      BY <1>2, <2>2, <2>3, LenProperties
    <2> QED
      BY <2>2, <2>4
  <1>4. f \in Surjection(p + 1 .. n, T)
    BY DEF Surjection
  <1>5. IsFiniteSet(p + 1 .. n) /\ Cardinality(p + 1 .. n) = n - p
    <2>1. p + 1 \in Int /\ n \in Int /\ (IF p + 1 > n THEN 0 ELSE n - (p + 1) + 1) = n - p
      BY <1>1, <1>2
    <2>2. IsFiniteSet(p + 1 .. n)
          /\ Cardinality(p + 1 .. n) = IF p + 1 > n THEN 0 ELSE n - (p + 1) + 1
      BY <2>1, FS_Interval
    <2> QED
      BY <2>1, <2>2
  <1> HIDE DEF D, T, f
  <1>6. IsFiniteSet(T) /\ Cardinality(T) <= Cardinality(p + 1 .. n)
    BY <1>4, <1>5, FS_Surjection
  <1>7. IsFiniteSet(D) /\ Cardinality(D) <= Cardinality(T) + Cardinality(L)
    <2>1. /\ IsFiniteSet(T \cup L) /\ IsFiniteSet(T \cap L)
          /\ Cardinality(T \cup L) = Cardinality(T) + Cardinality(L) - Cardinality(T \cap L)
      BY <1>6, FS_Union, FS_Intersection
    <2>2. IsFiniteSet(D) /\ Cardinality(D) <= Cardinality(T \cup L)
      BY <1>3, <2>1, FS_Subset
    <2>3. /\ Cardinality(D) \in Nat /\ Cardinality(T) \in Nat /\ Cardinality(L) \in Nat
          /\ Cardinality(T \cup L) \in Nat /\ Cardinality(T \cap L) \in Nat
      BY <1>6, <2>1, <2>2, FS_CardinalityType
    <2> QED
      BY <2>1, <2>2, <2>3
  <1>8. Cardinality(D) \in Nat /\ Cardinality(T) \in Nat /\ Cardinality(L) \in Nat
    BY <1>6, <1>7, FS_CardinalityType
  <1>9. p + Cardinality(D) <= room
    BY <1>1, <1>2, <1>5, <1>6, <1>7, <1>8
  <1> QED
    BY <1>1, <1>9 DEF Hits, D

\* When O is in front of whatever hits, both fit in the cache together.
LEMMA FewHit ==
  ASSUME NEW c \in Seq(Int), NEW room \in Nat, NEW a \in Nat, NEW b \in Nat,
         NEW O, IsFiniteSet(O), NEW X, X = Hitting(c, room, a, b), X # {}, O \cap (a .. b) = {},
         \A p \in DOMAIN c : c[p] \in a .. b => \A o \in O : \E q \in 1 .. p - 1 : c[q] = o
  PROVE  Cardinality(O) + Cardinality(X) <= room
  <1>1. X \in SUBSET (a .. b) /\ IsFiniteSet(a .. b)
    BY FS_Interval DEF Hitting
  <1>2. IsFiniteSet(X) /\ Cardinality(X) \in Nat /\ Cardinality(O) \in Nat
    BY <1>1, FS_Subset, FS_CardinalityType
  <1>3. PICK x \in X : \A y \in X : y <= x
    <2> DEFINE T == {b - y : y \in X}
    <2>1. T \in SUBSET Nat /\ T # {}
      BY <1>1
    <2> HIDE DEF T
    <2>2. PICK t \in T : \A s \in T : t <= s
      BY <2>1, LeastMember
    <2>3. PICK x \in X : t = b - x
      BY DEF T
    <2>4. ASSUME NEW y \in X PROVE y <= x
      <3>1. b - y \in T
        BY DEF T
      <3>2. b - x <= b - y
        BY <2>2, <2>3, <3>1
      <3> QED
        BY <1>1, <3>2
    <2> QED
      BY <2>4
  <1>4. x \in a .. b /\ x \in Nat /\ Hits(c, room, a .. x - 1, x)
    BY <1>1 DEF Hitting
  <1>5. PICK p \in 1 .. Len(c) :
          /\ c[p] = x
          /\ p + Cardinality((a .. x - 1) \ {c[q] : q \in 1 .. p - 1}) <= room
    BY <1>4 DEF Hits
  <1> DEFINE U == O \cup (X \ {x})
             V == a .. x - 1
             B == {c[q] : q \in 1 .. p - 1}
  <1>6. p \in DOMAIN c /\ p \in Nat
    BY <1>5, LenProperties
  <1>7. U \subseteq B \cup V
    <2>1. ASSUME NEW o \in O PROVE o \in B
      BY <1>4, <1>5, <1>6
    <2>2. ASSUME NEW y \in X, y # x PROVE y \in V
      BY <1>1, <1>3, <1>4, <2>2
    <2> HIDE DEF B, V
    <2> QED
      BY <2>1, <2>2
  <1>8. IsFiniteSet(V)
    BY <1>4, FS_Interval
  <1>9. Cardinality(V \ B) \in Nat /\ Cardinality(U) <= p - 1 + Cardinality(V \ B)
    <2> HIDE DEF U, V
    <2> QED
      BY <1>6, <1>7, <1>8, Distance
  <1>10. Cardinality(U) = Cardinality(O) + Cardinality(X) - 1
    <2> DEFINE Z == X \ {x}
    <2>1. IsFiniteSet(Z) /\ Cardinality(Z) = Cardinality(X) - 1
      BY <1>2, FS_RemoveElement
    <2>2. O \cap Z = {}
      BY <1>1
    <2> HIDE DEF Z
    <2>3. Cardinality(O \cap Z) = 0
      BY <2>2, FS_EmptySet
    <2>4. Cardinality(O \cup Z) = Cardinality(O) + Cardinality(Z) - Cardinality(O \cap Z)
      BY <2>1, FS_Union
    <2>5. Cardinality(O \cup Z) = Cardinality(O) + Cardinality(X) - 1
      BY <1>2, <2>1, <2>3, <2>4
    <2> QED
      BY <2>5 DEF Z
  <1> DEFINE v == Cardinality(V \ B)
  <1>11. p + v <= room /\ v \in Nat
    BY <1>5, <1>9
  <1>12. Cardinality(U) <= p - 1 + v
    BY <1>9
  <1> HIDE DEF U, V, B, v
  <1> QED
    BY <1>2, <1>6, <1>10, <1>11, <1>12

LEMMA MissesAre ==
  ASSUME WholeChunks, NEW row \in Nat, NEW a, a = row * WSS,
         NEW X, X = Hitting(caches[Here], CACHESIZE, a, a + (WSS - 1))
  PROVE  /\ a \in Nat /\ a + (WSS - 1) \in Nat /\ Sweep(row) = a .. a + (WSS - 1)
         /\ IsFiniteSet(X) /\ Cardinality(X) \in Nat
         /\ Misses(row) = WSS - Cardinality(X)
  <1>1. WSS \in Nat \ {0} /\ a \in Nat
    BY WorkingSetAssumption
  <1>2. /\ Sweep(row) = a .. a + (WSS - 1)
        /\ IsFiniteSet(Sweep(row)) /\ Cardinality(Sweep(row)) = WSS
    BY SweepLines
  <1> DEFINE S == Sweep(row)
  <1>3. {x \in S : ~Hits(caches[Here], CACHESIZE, a .. x - 1, x)} = S \ X /\ S \cap X = X
        /\ X \in SUBSET S
    BY <1>2 DEF Hitting
  <1>4. Misses(row) = Cardinality(S \ X)
    BY <1>3 DEF Misses
  <1> HIDE DEF S
  <1>5. IsFiniteSet(S) /\ Cardinality(S) = WSS
    BY <1>2 DEF S
  <1>6. Cardinality(S \ X) = Cardinality(S) - Cardinality(S \cap X)
    BY <1>5, FS_Difference
  <1>7. IsFiniteSet(X)
    BY <1>3, <1>5, FS_Subset
  <1>8. Cardinality(X) \in Nat
    BY <1>7, FS_CardinalityType
  <1>9. Misses(row) = WSS - Cardinality(X)
    BY <1>3, <1>4, <1>5, <1>6
  <1> QED
    BY <1>1, <1>2, <1>7, <1>8, <1>9

\* A row near the front of the cache but for a few lines is swept with no more
\* misses than there are of these ...
LEMMA NearIsHot ==
  ASSUME WholeChunks, CachesType, Here \in Caches, NEW row \in Nat,
         NEW L \in SUBSET Sweep(row), NEW n \in Int, n + Cardinality(L) <= CACHESIZE,
         Near(caches[Here], Sweep(row) \ L, n)
  PROVE  Misses(row) <= Cardinality(L) /\ Misses(row) \in Nat
  <1> PICK a : a = row * WSS
    OBVIOUS
  <1> PICK X : X = Hitting(caches[Here], CACHESIZE, a, a + (WSS - 1))
    OBVIOUS
  <1> PICK b : b = a + (WSS - 1)
    OBVIOUS
  <1>1. /\ a \in Nat /\ b \in Nat /\ Sweep(row) = a .. b /\ Misses(row) = WSS - Cardinality(X)
        /\ IsFiniteSet(X)
    BY MissesAre
  <1>2. /\ caches[Here] \in Seq(Int) /\ CACHESIZE \in Nat /\ WSS \in Nat
        /\ IsFiniteSet(Sweep(row)) /\ Cardinality(Sweep(row)) = WSS
    BY WorkingSetAssumption, SweepLines DEF CachesType
  <1>3. IsFiniteSet(L) /\ Cardinality(L) \in Nat /\ Sweep(row) \cap L = L
    BY <1>2, FS_Subset, FS_CardinalityType
  <1>4. \A x \in (a .. b) \ L : Hits(caches[Here], CACHESIZE, a .. x - 1, x)
    BY <1>1, <1>2, <1>3, NearHits
  <1>5. Sweep(row) \ L \subseteq X /\ X \subseteq Sweep(row)
    BY <1>1, <1>4 DEF Hitting
  <1>6. Cardinality(Sweep(row) \ L) = WSS - Cardinality(L)
    BY <1>2, <1>3, FS_Difference
  <1>7. Cardinality(Sweep(row) \ L) <= Cardinality(X) /\ Cardinality(X) <= WSS
    BY <1>1, <1>2, <1>5, FS_Subset
  <1>8. Cardinality(X) \in Nat
    BY <1>1, FS_CardinalityType
  <1> QED
    BY <1>1, <1>2, <1>3, <1>6, <1>7, <1>8

\* ... and one of which nothing is cached without a hit.
LEMMA AbsentIsCold ==
  ASSUME WholeChunks, NEW row \in Nat,
         \A p \in DOMAIN caches[Here] : caches[Here][p] \notin Sweep(row),
         caches[Here] \in Seq(Int)
  PROVE  Misses(row) = WSS
  <1> PICK a : a = row * WSS
    OBVIOUS
  <1> PICK X : X = Hitting(caches[Here], CACHESIZE, a, a + (WSS - 1))
    OBVIOUS
  <1>1. Sweep(row) = a .. a + (WSS - 1) /\ Misses(row) = WSS - Cardinality(X)
    BY MissesAre
  <1>2. X = {}
    <2> SUFFICES ASSUME NEW x \in X PROVE FALSE
      OBVIOUS
    <2>1. x \in Sweep(row) /\ Hits(caches[Here], CACHESIZE, a .. x - 1, x)
      BY <1>1 DEF Hitting
    <2>2. PICK p \in 1 .. Len(caches[Here]) : caches[Here][p] = x
      BY <2>1 DEF Hits
    <2>3. p \in DOMAIN caches[Here]
      BY <2>2, LenProperties
    <2> QED
      BY <2>1, <2>2, <2>3
  <1>3. Cardinality(X) = 0
    BY <1>2, FS_EmptySet
  <1> QED
    BY <1>1, <1>3, WorkingSetAssumption

-----------------------------------------------------------------------------
(* The rows of the jobs in between.                                        *)

LEMMA CycleIs ==
  /\ WSCycle \in Nat \ {0}
  /\ \A job : Row(job) = (job % WSCycle) + 2
  <1>1. (CACHESIZE * 2) \div WSS \in Nat \ {0}
    BY WorkingSetAssumption
  <1> QED
    BY <1>1 DEF WSCycle, Row

LEMMA SameRemainder ==
  ASSUME NEW a \in Nat, NEW b \in Nat, NEW n \in Nat \ {0}, a < b, b - a < n
  PROVE  a % n # b % n
  <1> PICK r : r = a % n
    OBVIOUS
  <1> PICK s : s = b % n
    OBVIOUS
  <1> PICK q : q = a \div n
    OBVIOUS
  <1> PICK t : t = b \div n
    OBVIOUS
  <1>1. q \in Nat /\ t \in Nat /\ a = q * n + r /\ b = t * n + s /\ r \in Nat
    OBVIOUS
  <1> SUFFICES ASSUME r = s PROVE FALSE
    OBVIOUS
  <1> PICK d : d = t - q
    OBVIOUS
  <1>2. d \in Int /\ t = q + d
    BY <1>1
  <1>3. t * n = q * n + d * n
    BY <1>1, <1>2
  <1>4. d * n = b - a
    BY <1>1, <1>3
  <1>5. d >= 1 => d * n >= n
    BY <1>2
  <1>6. d <= 0 => d * n <= 0
    BY <1>2
  <1> HIDE <1>1, <1>3
  <1> QED
    BY <1>2, <1>4, <1>5, <1>6

LEMMA RowsApart ==
  ASSUME NEW e \in Nat, NEW k \in Nat, e < k, k - e < WSCycle
  PROVE  Row(e) # Row(k)
  <1> PICK n : n = WSCycle
    OBVIOUS
  <1> PICK r : r = e % n
    OBVIOUS
  <1> PICK s : s = k % n
    OBVIOUS
  <1>1. n \in Nat \ {0} /\ Row(e) = r + 2 /\ Row(k) = s + 2
    BY CycleIs
  <1>2. r \in Nat /\ s \in Nat
    BY <1>1
  <1>3. r # s
    BY <1>1, SameRemainder
  <1> QED
    BY <1>1, <1>2, <1>3

\* The lines of the rows of jobs e to k - 1.
LinesOf(e, k) == UNION {Sweep(Row(n)) : n \in e .. k - 1}

LEMMA LinesOfJobs ==
  ASSUME WholeChunks, NEW e \in Nat, NEW k \in Nat, e <= k, k - e < WSCycle
  PROVE  /\ IsFiniteSet(LinesOf(e, k)) /\ Cardinality(LinesOf(e, k)) = (k - e) * WSS
         /\ LinesOf(e, k) \cap Sweep(Row(k)) = {}
  <1> PICK w : w = WSS
    OBVIOUS
  <1>0. w \in Nat \ {0}
    BY WorkingSetAssumption
  <1>1. \A n \in Nat : Row(n) \in Nat /\ Row(n) * w \in Nat
                       /\ Sweep(Row(n)) = Row(n) * w .. Row(n) * w + (w - 1)
    <2> SUFFICES ASSUME NEW n \in Nat
                 PROVE  Row(n) \in Nat /\ Row(n) * w \in Nat
                        /\ Sweep(Row(n)) = Row(n) * w .. Row(n) * w + (w - 1)
      OBVIOUS
    <2>1. Row(n) \in Nat
      BY RowIs
    <2> PICK r : r = Row(n)
      OBVIOUS
    <2>2. r \in Nat /\ r * w \in Nat
      BY <1>0, <2>1
    <2>3. Sweep(r) = r * w .. r * w + (w - 1)
      BY <2>2, SweepLines
    <2> QED
      BY <2>2, <2>3
  <1>2. ASSUME NEW m \in Nat, NEW n \in Nat, NEW x \in Sweep(Row(m)), x \in Sweep(Row(n)),
               m \in e .. k, n \in e .. k
        PROVE  m = n
    <2>1. Row(m) = Row(n)
      BY <1>1, <1>2, SweepLines
    <2>2. WSCycle \in Nat
      BY CycleIs
    <2>3. m - n < WSCycle /\ n - m < WSCycle
      BY <1>2, <2>2
    <2>4. ~(m < n)
      BY <2>1, <2>3, RowsApart
    <2>5. ~(n < m)
      BY <2>1, <2>3, RowsApart
    <2> QED
      BY <2>4, <2>5
  <1>3. LinesOf(e, k) \cap Sweep(Row(k)) = {}
    <2> SUFFICES ASSUME NEW x \in LinesOf(e, k), x \in Sweep(Row(k)) PROVE FALSE
      OBVIOUS
    <2>1. PICK n \in e .. k - 1 : x \in Sweep(Row(n))
      BY DEF LinesOf
    <2>2. n \in Nat /\ n \in e .. k /\ k \in e .. k /\ n # k
      OBVIOUS
    <2> QED
      BY <1>2, <2>1, <2>2
  <1> DEFINE J == e .. k - 1
             K == 0 .. w - 1
             f == [z \in J \X K |-> Row(z[1]) * w + z[2]]
             O == LinesOf(e, k)
  <1>4. \A n \in J : n \in Nat /\ n \in e .. k
    OBVIOUS
  <1>5. f \in Surjection(J \X K, O)
    <2>1. ASSUME NEW n \in J, NEW h \in K
          PROVE  Row(n) * w + h \in Sweep(Row(n)) /\ Row(n) * w + h \in O
      <3>1. Row(n) * w + h \in Sweep(Row(n))
        <4> PICK b : b = Row(n) * w
          OBVIOUS
        <4>1. b \in Nat /\ Sweep(Row(n)) = b .. b + (w - 1)
          BY <1>1, <1>4
        <4>2. b + h \in b .. b + (w - 1)
          BY <1>0, <4>1
        <4> QED
          BY <4>1, <4>2
      <3> QED
        BY <3>1 DEF LinesOf
    <2>2. f \in [J \X K -> O]
      <3>1. \A z \in J \X K : z[1] \in J /\ z[2] \in K
        OBVIOUS
      <3> HIDE DEF J, K, O
      <3> QED
        BY <2>1, <3>1
    <2>3. ASSUME NEW x \in O PROVE \E z \in J \X K : f[z] = x
      <3>1. PICK n \in J : x \in Sweep(Row(n))
        BY DEF LinesOf
      <3> PICK b : b = Row(n) * w
        OBVIOUS
      <3>2. b \in Nat /\ x \in b .. b + (w - 1)
        BY <1>1, <1>4, <3>1
      <3>3. x - b \in K /\ b + (x - b) = x
        BY <1>0, <3>2
      <3>4. <<n, x - b>> \in J \X K
        BY <3>3
      <3>5. f[<<n, x - b>>] = b + (x - b)
        BY <3>4
      <3> QED
        BY <3>3, <3>4, <3>5
    <2> HIDE DEF J, K, f, O
    <2> QED
      BY <2>2, <2>3 DEF Surjection
  <1>6. f \in Injection(J \X K, O)
    <2>1. ASSUME NEW y \in J \X K, NEW z \in J \X K, f[y] = f[z] PROVE y = z
      <3> PICK m : m = y[1]
        OBVIOUS
      <3> PICK n : n = z[1]
        OBVIOUS
      <3> PICK p : p = y[2]
        OBVIOUS
      <3> PICK q : q = z[2]
        OBVIOUS
      <3>1. m \in J /\ n \in J /\ p \in K /\ q \in K /\ y = <<m, p>> /\ z = <<n, q>>
        OBVIOUS
      <3> PICK b : b = Row(m) * w
        OBVIOUS
      <3> PICK c : c = Row(n) * w
        OBVIOUS
      <3>2. f[y] = b + p /\ f[z] = c + q
        OBVIOUS
      <3>3. /\ b \in Nat /\ c \in Nat /\ Sweep(Row(m)) = b .. b + (w - 1)
            /\ Sweep(Row(n)) = c .. c + (w - 1)
        BY <1>1, <1>4, <3>1
      <3>4. b + p \in Sweep(Row(m)) /\ c + q \in Sweep(Row(n)) /\ b + p = c + q
        <4>1. p \in 0 .. w - 1 /\ q \in 0 .. w - 1 /\ b \in Nat /\ c \in Nat
          BY <3>1, <3>3
        <4>2. b + p \in b .. b + (w - 1)
          BY <1>0, <4>1
        <4>3. c + q \in c .. c + (w - 1)
          BY <1>0, <4>1
        <4> QED
          BY <2>1, <3>2, <3>3, <4>2, <4>3
      <3>5. m = n
        BY <1>2, <1>4, <3>1, <3>4
      <3>6. p = q
        BY <3>1, <3>3, <3>4, <3>5
      <3> QED
        BY <3>1, <3>5, <3>6
    <2>2. f \in [J \X K -> O] /\ DOMAIN f = J \X K
      BY <1>5 DEF Surjection
    <2> HIDE DEF J, K, f, O
    <2> QED
      BY <2>1, <2>2 DEF Injection, IsInjective
  <1>7. IsFiniteSet(J) /\ Cardinality(J) = k - e
    <2>1. e \in Int /\ k - 1 \in Int /\ (IF e > k - 1 THEN 0 ELSE (k - 1) - e + 1) = k - e
      OBVIOUS
    <2>2. IsFiniteSet(J) /\ Cardinality(J) = IF e > k - 1 THEN 0 ELSE (k - 1) - e + 1
      BY <2>1, FS_Interval
    <2> QED
      BY <2>1, <2>2
  <1>8. IsFiniteSet(K) /\ Cardinality(K) = w
    <2>1. 0 \in Int /\ w - 1 \in Int /\ (IF 0 > w - 1 THEN 0 ELSE (w - 1) - 0 + 1) = w
      BY <1>0
    <2>2. IsFiniteSet(K) /\ Cardinality(K) = IF 0 > w - 1 THEN 0 ELSE (w - 1) - 0 + 1
      BY <2>1, FS_Interval
    <2> QED
      BY <2>1, <2>2
  <1> HIDE DEF J, K, f, O
  <1>9. IsFiniteSet(J \X K) /\ Cardinality(J \X K) = Cardinality(J) * Cardinality(K)
    BY <1>7, <1>8, FS_Product
  <1>10. IsFiniteSet(O) /\ Cardinality(O) = Cardinality(J \X K)
    BY <1>5, <1>6, <1>9, FS_Surjection
  <1>11. Cardinality(O) = (k - e) * w
    BY <1>7, <1>8, <1>9, <1>10
  <1> QED
    BY <1>3, <1>10, <1>11 DEF O

-----------------------------------------------------------------------------
(* Hot accesses hit and cold ones miss.                                    *)

HotAt(s, k) ==
  /\ Is(s, k, "H") => s[k].access_time = 0
  /\ Is(s, k, "P") /\ CacheOf[s[k].cpu] = CacheOf[s[k - 1].cpu] =>
       s[k].access_time <= IF s[k].sched_count <= s[k - 1].sched_count + 1 THEN 0 ELSE 1

IsFresh(s, k) ==
  \A l \in 1 .. k - 1 : Is(s, l, "C") => Row(s[l].job_count) # Row(s[k].job_count)

OthersBetween(s, k) ==
  /\ \A n \in s[k].job_count - WSCycle + 1 .. s[k].job_count - 1 :
       \E l \in 1 .. k - 1 : Is(s, l, "C") /\ s[l].job_count = n
  /\ \A l \in 1 .. k - 1 : s[l].job_count > s[k].job_count - WSCycle =>
       /\ CacheOf[s[l].cpu] = CacheOf[s[k].cpu]
       /\ s[l + 1].sched_count <= s[l].sched_count + 1

Room == CACHESIZE - (WSCycle - 1) * WSS

ColdAt(s, k) ==
  Is(s, k, "C") =>
    /\ IsFresh(s, k) => s[k].access_time = WSS
    /\ OthersBetween(s, k) => s[k].access_time >= WSS - (IF Room > 0 THEN Room ELSE 0)

AllHot == WSS + pollution <= CACHESIZE => \A k \in 1 .. Len(log) : HotAt(log, k)
AllCold == \A k \in 1 .. Len(log) : ColdAt(log, k)

LEMMA HotStep ==
  WholeChunks /\ CachesType /\ PageType /\ JobsInv /\ CourseInv /\ TopInv /\ AllHot /\ Run
    => AllHot'
  <1> SUFFICES ASSUME WholeChunks, CachesType, PageType, JobsInv, CourseInv, TopInv, AllHot, Run
               PROVE  AllHot'
    OBVIOUS
  <1> PICK n : n = Len(log)
    OBVIOUS
  <1>1. /\ log \in Seq(DataPoint) /\ n \in Nat /\ stage = "task" /\ curr_ws \in Nat
        /\ Here \in Caches /\ WSS \in Nat /\ CACHESIZE \in Nat /\ pollution \in Nat
        /\ (log # <<>> => n \in 1 .. n)
    BY LenProperties, HereIs, EmptySeq, WorkingSetAssumption DEF PageType, Run, CachesType
  <1>2. ASSUME NEW type \in {"C", "H", "P"}, NEW row \in Nat, Accessed(type, row),
               WSS + pollution' <= CACHESIZE, NEW k \in 1 .. Len(log')
        PROVE  HotAt(log', k)
    <2> PICK x : x = Observation(type, Misses(row))
      OBVIOUS
    <2>1. /\ Timed(row) /\ pollution' = pollution /\ log' # <<>>
          /\ Len(log') = n + 1 /\ log'[n + 1] = x /\ \A m \in 1 .. n : log'[m] = log[m]
      BY <1>2 DEF Accessed, Timed, Grown
    <2>2. CASE k \in 1 .. n /\ k # 1
      <3>1. k - 1 \in 1 .. n
        BY <1>1, <2>2
      <3>2. HotAt(log, k)
        BY <1>2, <2>1, <2>2 DEF AllHot
      <3> QED
        BY <2>1, <2>2, <3>1, <3>2 DEF HotAt, Is
    <2>3. CASE k = 1
      <3>1. JobsInv'
        BY JobsRun
      <3>2. Is(log', k, "C")
        BY <2>1, <2>3, <3>1 DEF JobsInv, FromStart
      <3> QED
        BY <3>2 DEF HotAt, Is
    <2>4. CASE k = n + 1 /\ k # 1
      <3>1. n \in 1 .. n /\ k - 1 = n /\ log # <<>>
        BY <1>1, <2>4, EmptySeq
      <3>2. x.access_type = type /\ x.access_time = Misses(row) /\ CacheOf[x.cpu] = Here
        BY DEF Observation, Here
      <3>3. ASSUME type # "C", CacheOf[log[n].cpu] = Here
            PROVE  Misses(row) \in Nat /\ Misses(row) <= IF Stayed THEN 0 ELSE 1
        <4> PICK w : w = WSS + pollution
          OBVIOUS
        <4>1. row = curr_ws
          BY <1>2, <3>3 DEF Accessed
        <4>2. w \in Nat /\ w <= CACHESIZE /\ AtTop(w)
          BY <1>1, <1>2, <2>1, <3>1 DEF TopInv
        <4>3. CASE Near(caches[Here], Sweep(row), w)
          <5>1. Cardinality({}) = 0 /\ {} \in SUBSET Sweep(row) /\ Sweep(row) \ {} = Sweep(row)
            BY FS_EmptySet
          <5>2. w + Cardinality({}) <= CACHESIZE
            BY <4>2, <5>1
          <5>3. Misses(row) <= Cardinality({}) /\ Misses(row) \in Nat
            BY <1>1, <4>2, <4>3, <5>1, <5>2, NearIsHot
          <5> QED
            BY <5>1, <5>3
        <4>4. CASE ~Stayed /\ \E y \in Sweep(row) : Near(caches[Here], Sweep(row) \ {y}, w - 1)
          <5>1. PICK y \in Sweep(row) : Near(caches[Here], Sweep(row) \ {y}, w - 1)
            BY <4>4
          <5>2. Cardinality({y}) = 1 /\ {y} \in SUBSET Sweep(row)
            BY FS_Singleton
          <5>3. w - 1 \in Int /\ (w - 1) + Cardinality({y}) <= CACHESIZE
            BY <1>1, <4>2, <5>2
          <5>4. Misses(row) <= Cardinality({y}) /\ Misses(row) \in Nat
            BY <1>1, <5>1, <5>2, <5>3, NearIsHot
          <5> QED
            BY <4>4, <5>2, <5>4
        <4> QED
          BY <3>3, <4>1, <4>2, <4>3, <4>4 DEF AtTop
      <3>4. ASSUME type = "H" PROVE CacheOf[log[n].cpu] = Here /\ Stayed
        <4>1. owed > 0
          BY <1>2, <3>4 DEF Accessed
        <4>2. CacheOf[log[n].cpu] = Here /\ log[n].sched_count = page.sched
          BY <3>1, <4>1 DEF CourseInv, Here
        <4>3. log[n].sched_count \in Nat
          BY <3>1, EntryIs
        <4> QED
          BY <4>2, <4>3 DEF Stayed
      <3>5. log'[k - 1] = log[n] /\ log'[k] = x
        BY <2>1, <2>4, <3>1
      <3>6. ASSUME type = "H" PROVE x.access_time = 0
        <4>1. Misses(row) \in Nat /\ Misses(row) <= 0
          BY <3>3, <3>4, <3>6
        <4> QED
          BY <3>2, <4>1
      <3>7. ASSUME type = "P", CacheOf[log[n].cpu] = Here
            PROVE  x.access_time <= IF x.sched_count <= log[n].sched_count + 1 THEN 0 ELSE 1
        <4>1. x.sched_count <= log[n].sched_count + 1 <=> Stayed
          BY <3>7 DEF Stayed, Observation
        <4> QED
          BY <3>2, <3>3, <3>7, <4>1
      <3> QED
        BY <3>2, <3>5, <3>6, <3>7 DEF HotAt, Is
    <2> QED
      BY <1>1, <2>1, <2>2, <2>3, <2>4
  <1>3. CASE Poll \/ KeepWarm \/ Pollute \/ Moved
    <2>1. log' = log /\ (pollution' = pollution \/ pollution' = pollution + 1)
      BY <1>3 DEF Poll, KeepWarm, Pollute, Moved, mvars, memvars
    <2>2. WSS + pollution' <= CACHESIZE => WSS + pollution <= CACHESIZE
      BY <1>1, <2>1
    <2> QED
      BY <2>1, <2>2 DEF AllHot
  <1> QED
    BY <1>2, <1>3, RunSteps DEF AllHot

\* The first use of a row misses every line ...
LEMMA FirstUse ==
  ASSUME WholeChunks, CachesType, PageType, LinesInv, stage = "task", NEW row, row = Row(page.job),
         \A l \in 1 .. Len(log) : Is(log, l, "C") => Row(log[l].job_count) # row
  PROVE  Misses(row) = WSS
  <1>1. row \in Nat /\ Here \in Caches /\ caches[Here] \in Seq(Int)
    BY RowIs, HereIs DEF PageType, CachesType
  <1>2. ASSUME NEW p \in DOMAIN caches[Here], caches[Here][p] \in Sweep(row) PROVE FALSE
    <2>1. caches[Here][p] \in Young(log, 1)
      BY <1>1 DEF LinesInv
    <2>2. caches[Here][p] # Foreign
      BY <1>1, <1>2, SweepLines
    <2>3. PICK l \in 1 .. Len(log) : Is(log, l, "C") /\ caches[Here][p] \in ColdRow(log, l)
      BY <2>1, <2>2 DEF Young
    <2>4. Row(log[l].job_count) \in Nat
      BY EntryIs, RowIs
    <2>5. Row(log[l].job_count) = row
      BY <1>1, <1>2, <2>3, <2>4, SweepLines DEF ColdRow
    <2> QED
      BY <2>3, <2>5
  <1> QED
    BY <1>1, <1>2, AbsentIsCold

\* ... and what the rows of the jobs in between left room for hits at most.
LEMMA LaterUse ==
  ASSUME WholeChunks, CachesType, PageType, CourseInv, OrderInv, stage = "task",
         NEW row, row = Row(page.job), page.job > LastJob,
         \A n \in page.job - WSCycle + 1 .. page.job - 1 :
           \E l \in 1 .. Len(log) : Is(log, l, "C") /\ log[l].job_count = n,
         \A l \in 1 .. Len(log) : log[l].job_count > page.job - WSCycle =>
           /\ CacheOf[log[l].cpu] = Here
           /\ (IF l = Len(log) THEN page.sched ELSE log[l + 1].sched_count)
                <= log[l].sched_count + 1
  PROVE  Misses(row) >= WSS - (IF Room > 0 THEN Room ELSE 0)
  <1>J. PICK J : J = page.job
    OBVIOUS
  <1>N. PICK N : N = WSCycle
    OBVIOUS
  <1>L. PICK lo : lo = J - N + 1
    OBVIOUS
  <1>c. PICK c : c = caches[Here]
    OBVIOUS
  <1>a. PICK a : a = row * WSS
    OBVIOUS
  <1>X. PICK X : X = Hitting(caches[Here], CACHESIZE, a, a + (WSS - 1))
    OBVIOUS
  <1>b. PICK b : b = a + (WSS - 1)
    OBVIOUS
  <1>0. J \in Nat /\ N \in Nat \ {0}
    BY <1>J, <1>N, CycleIs DEF PageType
  <1>1. /\ row \in Nat /\ Here \in Caches /\ c \in Seq(Int)
        /\ CACHESIZE \in Nat /\ WSS \in Nat
    BY <1>c, RowIs, HereIs, WorkingSetAssumption DEF PageType, CachesType
  <1>2. /\ a \in Nat /\ b \in Nat /\ Sweep(row) = a .. b
        /\ Cardinality(X) \in Nat /\ Misses(row) = WSS - Cardinality(X)
    BY <1>1, <1>a, <1>X, <1>b, MissesAre
  <1>3. ASSUME NEW k \in 1 .. Len(log)
        PROVE  log[k].job_count \in Nat /\ log[k].job_count < J
    <2>1. log # <<>> /\ Len(log) \in 1 .. Len(log) /\ k <= Len(log)
      BY EmptySeq, LenProperties DEF PageType
    <2>2. log[k].job_count <= log[Len(log)].job_count /\ log[Len(log)].job_count = LastJob
      BY <2>1 DEF CourseInv, LastJob
    <2>3. log[k].job_count \in Nat /\ log[Len(log)].job_count \in Nat
      BY <2>1, EntryIs
    <2>4. J > LastJob
      BY <1>J
    <2> QED
      BY <1>0, <2>2, <2>3, <2>4
  <1>4. lo \in Nat /\ lo <= J /\ J - lo < N /\ J - lo = N - 1
    <2>1. CASE N = 1
      BY <1>0, <1>L, <2>1
    <2>2. CASE N # 1
      <3>1. lo \in J - N + 1 .. J - 1
        BY <1>0, <1>L, <2>2
      <3>2. PICK l \in 1 .. Len(log) : log[l].job_count = lo
        BY <1>J, <1>N, <3>1
      <3>3. lo \in Nat
        BY <1>3, <3>2
      <3> QED
        BY <1>0, <1>L, <3>3
    <2> QED
      BY <2>1, <2>2
  <1>o. PICK O : O = LinesOf(lo, J)
    OBVIOUS
  <1>r. row = Row(J)
    BY <1>J
  <1>5. IsFiniteSet(O) /\ Cardinality(O) = (J - lo) * WSS /\ O \cap Sweep(row) = {}
    BY <1>0, <1>4, <1>N, <1>o, <1>r, LinesOfJobs
  <1>6. Cardinality(O) = (N - 1) * WSS /\ Cardinality(O) \in Nat
    BY <1>4, <1>5, FS_CardinalityType
  <1>7. ASSUME NEW p \in DOMAIN c, c[p] \in a .. b, NEW o \in O
        PROVE  \E q \in 1 .. p - 1 : c[q] = o
    <2>1. PICK e \in lo .. J - 1 : o \in Sweep(Row(e))
      BY <1>o DEF LinesOf
    <2>2. e \in Nat /\ e > J - N /\ e \in J - N + 1 .. J - 1
      BY <1>0, <1>4
    <2>3. PICK l \in 1 .. Len(log) : Is(log, l, "C") /\ log[l].job_count = e
      BY <1>J, <1>N, <2>2
    <2>4. ASSUME NEW m \in l .. Len(log)
          PROVE  /\ m \in 1 .. Len(log) /\ log[m].job_count \in Nat /\ log[m].job_count < J
                 /\ log[m].job_count >= e
      <3>1. m \in 1 .. Len(log) /\ l <= m
        OBVIOUS
      <3>2. log[l].job_count <= log[m].job_count
        BY <3>1 DEF CourseInv
      <3>3. log[m].job_count \in Nat /\ log[m].job_count < J
        BY <1>3, <3>1
      <3> QED
        BY <2>2, <2>3, <3>1, <3>2, <3>3
    <2>5. Through(log, l, Here)
      <3> SUFFICES ASSUME NEW m \in l .. Len(log) PROVE CacheOf[log[m].cpu] = Here
        BY DEF Through
      <3>1. m \in 1 .. Len(log) /\ log[m].job_count \in Nat /\ log[m].job_count >= e
        BY <2>4
      <3>2. log[m].job_count > J - N
        BY <1>0, <2>2, <3>1
      <3> QED
        BY <1>J, <1>N, <3>1, <3>2
    <2>a. Steady(log, l)
      <3> SUFFICES ASSUME NEW m \in l .. Len(log) - 1
                   PROVE  log[m + 1].sched_count <= log[m].sched_count + 1
        BY DEF Steady
      <3>1. m \in l .. Len(log) /\ m # Len(log)
        BY LenProperties DEF PageType
      <3>2. m \in 1 .. Len(log) /\ log[m].job_count \in Nat /\ log[m].job_count >= e
        BY <2>4, <3>1
      <3>3. log[m].job_count > J - N
        BY <1>0, <2>2, <3>2
      <3> QED
        BY <1>J, <1>N, <3>1, <3>2, <3>3
    <2>b. Stayed
      <3> PICK n : n = Len(log)
        OBVIOUS
      <3>1. n \in l .. n
        BY LenProperties DEF PageType
      <3>2. n \in 1 .. n /\ log[n].job_count \in Nat /\ log[n].job_count >= e
        BY <2>4, <3>1
      <3>3. log[n].job_count > J - N
        BY <1>0, <2>2, <3>2
      <3> QED
        BY <1>J, <1>N, <3>2, <3>3 DEF Stayed
    <2>6. Ordered(c, Sweep(Row(e)), Young(log, l))
      <3>1. ColdRow(log, l) = Sweep(Row(e))
        BY <2>3 DEF ColdRow
      <3> QED
        BY <1>1, <1>c, <2>3, <2>5, <2>a, <2>b, <3>1 DEF OrderInv
    <2>7. c[p] \notin Young(log, l)
      <3> SUFFICES ASSUME c[p] \in Young(log, l) PROVE FALSE
        OBVIOUS
      <3>1. c[p] \in Sweep(row)
        BY <1>2, <1>7
      <3>a. c[p] # Foreign
        <4>1. Foreign \notin Sweep(row)
          BY <1>1, SweepLines
        <4> QED
          BY <3>1, <4>1
      <3>2. PICK m \in l .. Len(log) : c[p] \in ColdRow(log, m)
        BY <3>a DEF Young
      <3>d. PICK d : d = log[m].job_count
        OBVIOUS
      <3>b. d \in Nat /\ d < J /\ d >= e
        BY <2>4, <3>d
      <3>3. J - d < N
        BY <1>0, <2>2, <3>b
      <3>4. Row(d) # Row(J)
        BY <1>0, <1>N, <3>b, <3>3, RowsApart
      <3>5. Row(d) \in Nat /\ c[p] \in Sweep(Row(d))
        BY <3>2, <3>b, <3>d, RowIs DEF ColdRow
      <3>6. Row(d) = row
        BY <1>1, <3>1, <3>5, SweepLines
      <3> QED
        BY <1>r, <3>4, <3>6
    <2> QED
      BY <2>1, <2>6, <2>7 DEF Ordered
  <1>8. Cardinality(X) <= CACHESIZE - Cardinality(O) \/ Cardinality(X) = 0
    <2>1. CASE X = {}
      BY <2>1, FS_EmptySet
    <2>2. CASE X # {}
      <3>1. X = Hitting(c, CACHESIZE, a, b) /\ O \cap (a .. b) = {}
        BY <1>2, <1>5, <1>c, <1>X, <1>b
      <3>2. \A p \in DOMAIN c : c[p] \in a .. b => \A o \in O : \E q \in 1 .. p - 1 : c[q] = o
        BY <1>7
      <3>3. Cardinality(O) + Cardinality(X) <= CACHESIZE
        <4>1. c \in Seq(Int) /\ CACHESIZE \in Nat /\ a \in Nat /\ b \in Nat /\ IsFiniteSet(O)
          BY <1>1, <1>2, <1>5
        <4> QED
          BY <2>2, <3>1, <3>2, <4>1, FewHit
      <3> QED
        BY <1>1, <1>2, <1>6, <3>3
    <2> QED
      BY <2>1, <2>2
  <1>9. Room = CACHESIZE - Cardinality(O)
    BY <1>6, <1>N DEF Room
  <1> DEFINE x == Cardinality(X)
             y == Cardinality(O)
  <1>10. x \in Nat /\ y \in Nat /\ WSS \in Nat /\ CACHESIZE \in Nat
         /\ (x <= CACHESIZE - y \/ x = 0) /\ Room = CACHESIZE - y /\ Misses(row) = WSS - x
    BY <1>1, <1>2, <1>6, <1>8, <1>9
  <1> HIDE DEF x, y
  <1> QED
    BY <1>10

LEMMA ColdStep ==
  WholeChunks /\ CachesType /\ PageType /\ JobsInv /\ CourseInv /\ LinesInv /\ OrderInv /\ AllCold /\ Run =>
    AllCold'
  <1> SUFFICES ASSUME WholeChunks, CachesType, PageType, JobsInv, CourseInv, LinesInv, OrderInv,
                      AllCold, Run
               PROVE  AllCold'
    OBVIOUS
  <1> PICK n : n = Len(log)
    OBVIOUS
  <1>1. log \in Seq(DataPoint) /\ n \in Nat /\ stage = "task"
    BY LenProperties DEF PageType, Run
  <1>2. ASSUME NEW type \in {"C", "H", "P"}, NEW row \in Nat, Accessed(type, row),
               NEW k \in 1 .. Len(log')
        PROVE  ColdAt(log', k)
    <2> PICK x : x = Observation(type, Misses(row))
      OBVIOUS
    <2>1. Len(log') = n + 1 /\ log'[n + 1] = x /\ \A m \in 1 .. n : log'[m] = log[m]
      BY <1>2 DEF Accessed, Grown
    <2>2. CASE k \in 1 .. n
      <3>1. \A l \in 1 .. k - 1 : l \in 1 .. n
        BY <1>1, <2>2
      <3>2. ColdAt(log, k) /\ log'[k] = log[k]
        BY <2>1, <2>2 DEF AllCold
      <3>3. \A l \in 1 .. k - 1 : log'[l] = log[l] /\ log'[l + 1] = log[l + 1]
        <4>1. \A l \in 1 .. k - 1 : l + 1 \in 1 .. n
          BY <1>1, <2>2
        <4> QED
          BY <2>1, <3>1, <4>1
      <3>4. IsFresh(log', k) => IsFresh(log, k)
        BY <3>2, <3>3 DEF IsFresh, Is
      <3>5. OthersBetween(log', k) => OthersBetween(log, k)
        <4> SUFFICES ASSUME OthersBetween(log', k) PROVE OthersBetween(log, k)
          OBVIOUS
        <4>1. PICK e : e = log[k].job_count
          OBVIOUS
        <4>2. log'[k].job_count = e /\ log'[k].cpu = log[k].cpu
          BY <3>2, <4>1
        <4>3. ASSUME NEW m \in e - WSCycle + 1 .. e - 1
              PROVE  \E l \in 1 .. k - 1 : Is(log, l, "C") /\ log[l].job_count = m
          <5>1. PICK l \in 1 .. k - 1 : Is(log', l, "C") /\ log'[l].job_count = m
            BY <4>2 DEF OthersBetween
          <5> QED
            BY <3>3, <5>1 DEF Is
        <4>4. ASSUME NEW l \in 1 .. k - 1, log[l].job_count > e - WSCycle
              PROVE  /\ CacheOf[log[l].cpu] = CacheOf[log[k].cpu]
                     /\ log[l + 1].sched_count <= log[l].sched_count + 1
          <5>1. log'[l] = log[l] /\ log'[l + 1] = log[l + 1]
            BY <3>3
          <5> QED
            BY <4>2, <4>4, <5>1 DEF OthersBetween
        <4> QED
          BY <4>1, <4>3, <4>4 DEF OthersBetween
      <3> QED
        BY <3>2, <3>4, <3>5 DEF ColdAt, Is
    <2>3. CASE k = n + 1 /\ type = "C"
      <3>1. row = Row(page.job) /\ page.job > LastJob
        BY <1>2, <2>3 DEF Accessed
      <3>2. /\ log'[k].access_time = Misses(row) /\ log'[k].job_count = page.job
            /\ CacheOf[log'[k].cpu] = Here /\ log'[k].sched_count = page.sched
        BY <2>1, <2>3 DEF Observation, Here
      <3>3. k - 1 = n
        BY <1>1, <2>3
      <3>4. ASSUME IsFresh(log', k) PROVE Misses(row) = WSS
        <4>1. \A l \in 1 .. Len(log) : Is(log, l, "C") => Row(log[l].job_count) # row
          BY <2>1, <3>1, <3>2, <3>3, <3>4 DEF IsFresh, Is
        <4> QED
          BY <1>1, <3>1, <4>1, FirstUse
      <3>5. ASSUME OthersBetween(log', k) PROVE Misses(row) >= WSS - (IF Room > 0 THEN Room ELSE 0)
        <4>1. \A m \in page.job - WSCycle + 1 .. page.job - 1 :
                \E l \in 1 .. Len(log) : Is(log, l, "C") /\ log[l].job_count = m
          BY <2>1, <3>2, <3>3, <3>5 DEF OthersBetween, Is
        <4>2. ASSUME NEW l \in 1 .. Len(log), log[l].job_count > page.job - WSCycle
              PROVE  /\ CacheOf[log[l].cpu] = Here
                     /\ (IF l = Len(log) THEN page.sched ELSE log[l + 1].sched_count)
                          <= log[l].sched_count + 1
          <5>1. /\ CacheOf[log[l].cpu] = Here
                /\ log'[l + 1].sched_count <= log[l].sched_count + 1
            BY <2>1, <3>2, <3>3, <3>5, <4>2 DEF OthersBetween
          <5>2. CASE l = n
            BY <2>3, <3>2, <5>1, <5>2
          <5>3. CASE l # n
            <6>1. l + 1 \in 1 .. n
              BY <1>1, <5>3
            <6> QED
              BY <2>1, <5>1, <5>3, <6>1
          <5> QED
            BY <5>2, <5>3
        <4> QED
          BY <1>1, <3>1, <4>1, <4>2, LaterUse
      <3> QED
        BY <3>2, <3>4, <3>5 DEF ColdAt
    <2>4. CASE k = n + 1 /\ type # "C"
      BY <2>1, <2>4 DEF ColdAt, Is, Observation
    <2> QED
      BY <1>1, <2>1, <2>2, <2>3, <2>4
  <1>3. CASE Poll \/ KeepWarm \/ Pollute \/ Moved
    <2>1. log' = log
      BY <1>3 DEF Poll, KeepWarm, Pollute, Moved, mvars
    <2> QED
      BY <2>1 DEF AllCold
  <1> QED
    BY <1>2, <1>3, RunSteps DEF AllCold

-----------------------------------------------------------------------------
(* The inductive invariant: what the log says of the caches.               *)

WarmInv ==
  WholeChunks =>
    /\ CachesType /\ CourseInv /\ PolledInv /\ RowInv /\ LinesInv /\ OrderInv /\ TopInv
    /\ AllHot /\ AllCold

LEMMA EmptyWarm ==
  ASSUME CachesType, ~polled, log = <<>>, \A c \in Caches : \A p \in DOMAIN caches[c] : caches[c][p] = Foreign
  PROVE  WarmInv
  <1>1. Len(log) = 0 /\ \A k : k \notin 1 .. 0
    BY EmptySeq
  <1>2. LinesInv
    BY DEF LinesInv, Young
  <1>3. CourseInv /\ PolledInv /\ RowInv /\ OrderInv /\ TopInv
    BY <1>1 DEF CourseInv, PolledInv, RowInv, OrderInv, TopInv
  <1> QED
    BY <1>1, <1>2, <1>3 DEF WarmInv, AllHot, AllCold

LEMMA FreshIsWarm ==
  FreshProcess /\ CachesType /\ log' = <<>> => WarmInv'
  <1> SUFFICES ASSUME FreshProcess, CachesType, log' = <<>> PROVE WarmInv'
    OBVIOUS
  <1>1. /\ caches' = [c \in Caches |-> [k \in DOMAIN caches[c] |-> Foreign]]
        /\ pollution' = pollution /\ ~polled'
    BY DEF FreshProcess
  <1>2. \A c \in Caches : caches'[c] \in Seq(Int) /\ \A p \in DOMAIN caches'[c] : caches'[c][p] = Foreign
    <2> SUFFICES ASSUME NEW c \in Caches
                 PROVE  caches'[c] \in Seq(Int) /\ \A p \in DOMAIN caches'[c] : caches'[c][p] = Foreign
      OBVIOUS
    <2>1. caches[c] \in Seq(Int)
      BY DEF CachesType
    <2>2. Len(caches[c]) \in Nat /\ DOMAIN caches[c] = 1 .. Len(caches[c])
      BY <2>1, LenProperties
    <2>3. caches'[c] = [k \in 1 .. Len(caches[c]) |-> Foreign] /\ Foreign \in Int
      BY <1>1, <2>2 DEF Foreign
    <2> QED
      BY <2>2, <2>3
  <1>3. CachesType'
    <2>1. caches' \in [Caches -> Seq(Int)]
      BY <1>1, <1>2
    <2> QED
      BY <1>1, <2>1 DEF CachesType
  <1>4. Len(log') = 0 /\ \A k : k \notin 1 .. 0
    BY EmptySeq
  <1>5. LinesInv'
    BY <1>2 DEF LinesInv, Young
  <1>6. CourseInv' /\ PolledInv' /\ RowInv' /\ OrderInv' /\ TopInv'
    BY <1>1, <1>4 DEF CourseInv, PolledInv, RowInv, OrderInv, TopInv
  <1> QED
    BY <1>3, <1>4, <1>5, <1>6 DEF WarmInv, AllHot, AllCold

LEMMA WarmAlways == PipelineSpec => []WarmInv
  <1>1. PipelineInit => WarmInv
    <2> SUFFICES ASSUME PipelineInit PROVE WarmInv
      OBVIOUS
    <2>1. caches = [c \in Caches |-> <<>>] /\ pollution = 0 /\ log = <<>> /\ ~polled
      BY DEF PipelineInit, WorkingSetsInit
    <2>2. CachesType
      <3>1. <<>> \in Seq(Int)
        BY EmptySeq
      <3> QED
        BY <2>1, <3>1 DEF CachesType
    <2>3. \A c \in Caches : \A p \in DOMAIN caches[c] : caches[c][p] = Foreign
      <3>1. \A p : p \notin DOMAIN <<>>
        OBVIOUS
      <3> QED
        BY <2>1, <3>1
    <2> QED
      BY <2>1, <2>2, <2>3, EmptyWarm
  <1>2. WarmInv /\ MeasuredInv /\ [PipelineNext]_pipevars => WarmInv'
    <2> SUFFICES ASSUME WarmInv, PageType, JobsInv, [PipelineNext]_pipevars, WholeChunks PROVE WarmInv'
      BY DEF MeasuredInv, WarmInv
    <2>1. /\ CachesType /\ CourseInv /\ PolledInv /\ RowInv /\ LinesInv /\ OrderInv /\ TopInv
          /\ AllHot /\ AllCold
      BY DEF WarmInv
    <2>2. CASE Run
      <3>1. CourseInv' /\ PolledInv' /\ RowInv'
        BY <2>1, <2>2, CourseStep, PolledStep, RowStep
      <3>2. CachesType' /\ LinesInv'
        BY <2>1, <2>2, LinesStep
      <3>3. OrderInv' /\ TopInv'
        BY <2>1, <2>2, OrderStep, TopStep
      <3>4. AllHot' /\ AllCold'
        BY <2>1, <2>2, HotStep, ColdStep
      <3> QED
        BY <3>1, <3>2, <3>3, <3>4 DEF WarmInv
    <2>3. CASE StartRun \/ Save
      <3>1. FreshProcess /\ log' = <<>>
        BY <2>3 DEF StartRun, Save, PageType
      <3> QED
        BY <2>1, <3>1, FreshIsWarm
    <2>4. CASE Write \/ OpenTrace \/ ReadTrace \/ TraceIsRead \/ ScanTrace \/ UNCHANGED pipevars
      <3>1. UNCHANGED <<page, log, owed, curr_ws, caches, pollution, polled>>
        BY <2>4 DEF Write, OpenTrace, ReadTrace, TraceIsRead, ScanTrace, pipevars, taskvars, mvars,
                    memvars
      <3> QED
        BY <2>1, <3>1 DEF WarmInv, CachesType, CourseInv, PolledInv, RowInv, LinesInv, OrderInv,
                          TopInv, AtTop, Stayed, Here, AllHot, AllCold
    <2> QED
      BY <2>2, <2>3, <2>4 DEF PipelineNext
  <1> QED
    BY <1>1, <1>2, MeasuredAlways, PTL DEF PipelineSpec

\* While a working set and the pollution fit in a cache together, no hot access
\* misses ("best case", pm_task.c:176), none after a single switch that came
\* back to the same cache, and one line at most after any number of them:
\* whatever the polluters and the kernel do, the sweeps and the touches keep
\* the row in use at the front of its cache, but for the one line the task
\* wrote on another cpu having polled before it left (pm_task.c:222-223, 296).
THEOREM HotHit == PipelineSpec => []HotAccessesHit
  <1>1. WarmInv => HotAccessesHit
    BY DEF WarmInv, AllHot, HotAt, HotAccessesHit, AtMostOneSwitch, WholeChunks, Is
  <1> QED
    BY <1>1, WarmAlways, PTL

\* A cold access is cold ("cache-cold accesses", pm_task.c:145): all of it when
\* the row was never used, and otherwise all that the rows of the NUMWS - 1
\* jobs in between left no room for, for every size of the rows and the caches
\* and every number of cpus.
THEOREM ColdMiss == PipelineSpec => []ColdAccessesMiss
  <1>1. WarmInv => ColdAccessesMiss
    <2> SUFFICES ASSUME WarmInv PROVE ColdAccessesMiss
      OBVIOUS
    <2>1. WholeChunks => \A k \in 1 .. Len(log) : ColdAt(log, k)
      BY DEF WarmInv, AllCold
    <2> QED
      BY <2>1 DEF ColdAccessesMiss, WholeChunks, ColdAt, IsFresh, OthersBetween, Room, IsColdAt, Is,
                   AtMostOneSwitch
  <1> QED
    BY <1>1, WarmAlways, PTL

-----------------------------------------------------------------------------
(* Fractions.                                                              *)

\* What Frac() returns.
Fraction == [num : Int, den : Nat \ {0}]

\* Positive factors cancel.
LEMMA Cancel ==
  ASSUME NEW a \in Int, NEW b \in Int, NEW c \in Nat \ {0}, a * c = b * c
  PROVE  a = b
  OBVIOUS

\* Of two equal products, the one with the larger factor has the smaller other one.
LEMMA NoLarger ==
  ASSUME NEW a \in Nat, NEW b \in Nat, NEW c \in Nat, NEW d \in Nat \ {0}, a * b = c * d, b >= d
  PROVE  a <= c
  OBVIOUS

\* Dividing a multiple leaves nothing over.
LEMMA Divides ==
  ASSUME NEW a \in Int, NEW b \in Int, NEW c \in Nat \ {0}, a = b * c
  PROVE  a % c = 0 /\ a \div c = b
  <1>1. a = c * (a \div c) + (a % c) /\ a % c \in 0 .. c - 1 /\ a \div c \in Int
    OBVIOUS
  <1> DEFINE q == a \div c
             r == a % c
  <1> HIDE DEF q, r
  <1>2. b * c = c * q + r /\ r \in 0 .. c - 1 /\ q \in Int
    BY <1>1 DEF q, r
  <1>3. q = b
    <2>1. CASE q <= b - 1
      <3>1. c * q <= c * (b - 1)
        BY <1>2, <2>1
      <3> QED
        BY <1>2, <3>1
    <2>2. CASE q >= b + 1
      <3>1. c * q >= c * (b + 1)
        BY <1>2, <2>2
      <3> QED
        BY <1>2, <3>1
    <2> QED
      BY <1>2, <2>1, <2>2
  <1>4. r = 0
    BY <1>2, <1>3
  <1> QED
    BY <1>3, <1>4 DEF q, r

\* Dividing and multiplying again leaves the remainder.
LEMMA Quotients ==
  ASSUME NEW a \in Int, NEW c \in Nat \ {0}
  PROVE  a = c * (a \div c) + (a % c) /\ a % c \in 0 .. c - 1 /\ a \div c \in Int
  OBVIOUS

\* No fraction equal to n / d has a smaller denominator than e.
Least(e, n, d) == \A x \in Nat \ {0} : (\E y \in Int : y * d = n * x) => e <= x

\* r is n / d in lowest terms.
IsLowest(r, n, d) ==
  /\ r \in Fraction
  /\ r.num * d = n * r.den
  /\ Least(r.den, n, d)

\* Taking a fraction q times off an equal one keeps it equal.
LEMMA Remainder ==
  ASSUME NEW m \in Int, NEW n \in Int, NEW d \in Int, NEW e \in Int, NEW q \in Int, NEW r \in Int,
         m * d = n * e, d = e * q + r
  PROVE  (n - m * q) * d = n * r
  <1>1. m * q * d = n * e * q
    <2>1. m * q * d = (m * d) * q
      OBVIOUS
    <2> QED
      BY <2>1
  <1>2. n * r = n * d - n * e * q
    OBVIOUS
  <1> QED
    BY <1>1, <1>2

\* Frac() gives the lowest terms: dividing by the greatest common divisor is
\* what makes the denominator least.
LEMMA FracIs ==
  ASSUME NEW n \in Int, NEW d \in Nat \ {0}
  PROVE  IsLowest(Frac(n, d), n, d)
  <1> DEFINE E == {x \in Nat \ {0} : \E y \in Int : y * d = n * x}
             G == {k \in 1 .. d : d % k = 0 /\ n % k = 0}
  <1>1. E \in SUBSET Nat /\ d \in E
    OBVIOUS
  <1>2. PICK e \in E : \A x \in E : e <= x
    <2> HIDE DEF E
    <2> QED
      BY <1>1, LeastMember
  <1>3. PICK m \in Int : m * d = n * e
    BY <1>2
  <1>4. e \in Nat \ {0} /\ Least(e, n, d)
    BY <1>2 DEF Least
  <1> DEFINE q == d \div e
             r == d % e
  <1>5. d = e * q + r /\ r \in 0 .. e - 1 /\ q \in Int
    BY <1>4, Quotients
  <1> HIDE DEF q, r, E
  <1>6. r = 0
    <2> SUFFICES ASSUME r # 0 PROVE FALSE
      OBVIOUS
    <2>1. r \in Nat \ {0} /\ r < e
      BY <1>4, <1>5
    <2>2. (n - m * q) * d = n * r
      BY <1>3, <1>4, <1>5, <2>1, Remainder
    <2>3. n - m * q \in Int
      BY <1>5
    <2>4. e <= r
      BY <1>4, <2>1, <2>2, <2>3 DEF Least
    <2> QED
      BY <1>4, <2>1, <2>4
  <1>7. d = e * q /\ q \in Nat \ {0}
    <2>1. d = e * q
      BY <1>4, <1>5, <1>6
    <2>2. q > 0
      <3> SUFFICES ASSUME q <= 0 PROVE FALSE
        BY <1>5
      <3>1. e * q <= 0
        BY <1>4, <1>5
      <3> QED
        BY <2>1, <3>1
    <2> QED
      BY <1>5, <2>1, <2>2
  <1>8. n = m * q
    <2>1. n * e = (m * q) * e
      BY <1>3, <1>4, <1>7
    <2> QED
      BY <1>4, <1>7, <2>1, Cancel
  <1>9. q \in G
    <2>1. q <= d
      BY <1>4, <1>7
    <2>2. d % q = 0 /\ n % q = 0
      BY <1>4, <1>7, <1>8, Divides
    <2> QED
      BY <1>7, <2>1, <2>2
  <1>10. ASSUME NEW k \in G PROVE k <= q
    <2> DEFINE a == d \div k
               b == n \div k
    <2>1. k \in Nat \ {0}
      OBVIOUS
    <2>2. d = k * a /\ n = k * b /\ a \in Int /\ b \in Int
      <3>1. d = k * a + (d % k) /\ n = k * b + (n % k) /\ a \in Int /\ b \in Int
        BY <2>1, Quotients
      <3>2. d % k = 0 /\ n % k = 0
        OBVIOUS
      <3> HIDE DEF a, b
      <3> QED
        BY <2>1, <3>1, <3>2
    <2> HIDE DEF a, b
    <2>3. a \in Nat \ {0}
      <3> SUFFICES ASSUME a <= 0 PROVE FALSE
        BY <2>2
      <3>1. k * a <= 0
        BY <2>1, <2>2
      <3> QED
        BY <2>2, <3>1
    <2>4. b * d = n * a
      BY <2>1, <2>2
    <2>5. e <= a
      BY <1>4, <2>2, <2>3, <2>4 DEF Least
    <2>6. k * a = q * e
      BY <1>4, <1>7, <2>2
    <2> QED
      BY <1>4, <1>7, <2>1, <2>3, <2>5, <2>6, NoLarger
  <1>11. Max(G) = q
    <2>1. \A k \in G : k \in Int
      OBVIOUS
    <2> HIDE DEF G
    <2>2. \A k \in G : q >= k
      BY <1>7, <1>10, <2>1
    <2>3. Max(G) \in G /\ \A k \in G : Max(G) >= k
      BY <1>9, <2>2 DEF Max
    <2>4. Max(G) >= q /\ q >= Max(G) /\ Max(G) \in Int /\ q \in Int
      BY <1>9, <2>1, <2>2, <2>3
    <2> QED
      BY <2>4
  <1>12. Frac(n, d) = [num |-> n \div q, den |-> d \div q]
    BY <1>11 DEF Frac
  <1>13. n \div q = m /\ d \div q = e
    BY <1>4, <1>7, <1>8, Divides
  <1> DEFINE f == [num |-> m, den |-> e]
  <1>14. Frac(n, d) = f
    BY <1>12, <1>13
  <1>15. f \in Fraction /\ f.num = m /\ f.den = e
    BY <1>4 DEF Fraction
  <1> HIDE DEF f
  <1>16. IsLowest(f, n, d)
    BY <1>3, <1>4, <1>15 DEF IsLowest
  <1> QED
    BY <1>14, <1>16

\* A fraction in lowest terms is determined by its value.
LEMMA LowestAlike ==
  ASSUME NEW f, NEW g, NEW n \in Int, NEW d \in Nat \ {0}, NEW a \in Int, NEW b \in Nat \ {0},
         IsLowest(f, n, d), IsLowest(g, a, b), n * b = a * d
  PROVE  f.den <= g.den
  <1> DEFINE m == g.num
             e == g.den
  <1>1. m \in Int /\ e \in Nat \ {0} /\ m * b = a * e
    BY DEF IsLowest, Fraction
  <1> HIDE DEF m, e
  <1>2. (m * d) * b = (n * e) * b
    <2>1. (m * d) * b = (m * b) * d /\ (n * e) * b = (n * b) * e
      BY <1>1
    <2>2. (a * e) * d = (a * d) * e
      BY <1>1
    <2> QED
      BY <1>1, <2>1, <2>2
  <1>3. m * d = n * e
    <2>1. m * d \in Int /\ n * e \in Int
      BY <1>1
    <2> QED
      BY <1>2, <2>1, Cancel
  <1>4. f.den <= e
    BY <1>1, <1>3 DEF IsLowest, Least
  <1> QED
    BY <1>4 DEF e

\* So equal values are the same fraction.
LEMMA FracSame ==
  ASSUME NEW n \in Int, NEW d \in Nat \ {0}, NEW a \in Int, NEW b \in Nat \ {0}, n * b = a * d
  PROVE  Frac(n, d) = Frac(a, b)
  <1> DEFINE f == Frac(n, d)
             g == Frac(a, b)
  <1>1. IsLowest(f, n, d) /\ IsLowest(g, a, b)
    BY FracIs
  <1> HIDE DEF f, g
  <1>2. f \in Fraction /\ g \in Fraction /\ f.num * d = n * f.den /\ g.num * b = a * g.den
    BY <1>1 DEF IsLowest
  <1>3. f.den <= g.den /\ g.den <= f.den
    BY <1>1, LowestAlike
  <1> DEFINE e == f.den
             x == f.num
             y == g.num
  <1>4. /\ e \in Nat \ {0} /\ g.den = e /\ x \in Int /\ y \in Int
        /\ f = [num |-> x, den |-> e] /\ g = [num |-> y, den |-> g.den]
    BY <1>2, <1>3 DEF Fraction
  <1>5. x * d = n * e /\ y * b = a * e
    BY <1>2, <1>4
  <1> HIDE DEF e, x, y
  <1>6. (x * d) * b = (y * d) * b
    <2>1. (x * d) * b = (n * b) * e
      BY <1>4, <1>5
    <2>2. (y * d) * b = (a * d) * e
      <3>1. (y * d) * b = (y * b) * d
        BY <1>4
      <3> QED
        BY <1>4, <1>5, <3>1
    <2> QED
      BY <2>1, <2>2
  <1>7. x * d = y * d
    <2>1. x * d \in Int /\ y * d \in Int
      BY <1>4
    <2> QED
      BY <1>6, <2>1, Cancel
  <1>8. x = y
    BY <1>4, <1>7, Cancel
  <1>9. f = g
    BY <1>4, <1>8
  <1> QED
    BY <1>9 DEF f, g

\* What the operations on fractions compute.
LEMMA FracType ==
  ASSUME NEW n \in Int, NEW d \in Nat \ {0}
  PROVE  /\ Frac(n, d) \in Fraction /\ Frac(n, d).num \in Int /\ Frac(n, d).den \in Nat \ {0}
         /\ Frac(n, d).num * d = n * Frac(n, d).den
  BY FracIs DEF IsLowest, Fraction

\* Crosswise equal fractions have crosswise equal sums, differences and products.
LEMMA PlusCross ==
  ASSUME NEW a \in Int, NEW b \in Int, NEW c \in Int, NEW d \in Int,
         NEW x \in Int, NEW e \in Int, NEW y \in Int, NEW g \in Int, x * b = a * e, y * d = c * g
  PROVE  /\ (x * g + y * e) * (b * d) = (a * d + c * b) * (e * g)
         /\ (x * g - y * e) * (b * d) = (a * d - c * b) * (e * g)
         /\ (x * y) * (b * d) = (a * c) * (e * g)
  <1>1. (x * g) * (b * d) = (a * d) * (e * g)
    <2>1. (x * g) * (b * d) = (x * b) * (g * d)
      OBVIOUS
    <2>2. (a * e) * (g * d) = (a * d) * (e * g)
      OBVIOUS
    <2> QED
      BY <2>1, <2>2
  <1>2. (y * e) * (b * d) = (c * b) * (e * g)
    <2>1. (y * e) * (b * d) = (y * d) * (e * b)
      OBVIOUS
    <2>2. (c * g) * (e * b) = (c * b) * (e * g)
      OBVIOUS
    <2> QED
      BY <2>1, <2>2
  <1>3. (x * y) * (b * d) = (a * c) * (e * g)
    <2>1. (x * y) * (b * d) = (x * b) * (y * d)
      OBVIOUS
    <2>2. (a * e) * (c * g) = (a * c) * (e * g)
      OBVIOUS
    <2> QED
      BY <2>1, <2>2
  <1> DEFINE p == x * g
             q == y * e
             m == b * d
             r == a * d
             s == c * b
             t == e * g
  <1>4. p * m = r * t /\ q * m = s * t /\ p \in Int /\ q \in Int /\ m \in Int /\ r \in Int /\ s \in Int /\ t \in Int
    BY <1>1, <1>2
  <1>5. (p + q) * m = (r + s) * t /\ (p - q) * m = (r - s) * t
    <2> HIDE DEF p, q, m, r, s, t
    <2> QED
      BY <1>4
  <1> QED
    BY <1>3, <1>5

\* The product of positive numbers is positive.
LEMMA PositiveProduct ==
  ASSUME NEW a \in Nat \ {0}, NEW b \in Nat \ {0}
  PROVE  a * b \in Nat \ {0}
  OBVIOUS

\* Sums, differences and products do not depend on the terms the arguments have.
LEMMA OperationsAre ==
  ASSUME NEW a \in Int, NEW b \in Nat \ {0}, NEW c \in Int, NEW d \in Nat \ {0}
  PROVE  /\ Plus(Frac(a, b), Frac(c, d)) = Frac(a * d + c * b, b * d)
         /\ Minus(Frac(a, b), Frac(c, d)) = Frac(a * d - c * b, b * d)
         /\ Product(Frac(a, b), Frac(c, d)) = Frac(a * c, b * d)
  <1> DEFINE f == Frac(a, b)
             g == Frac(c, d)
             x == f.num
             e == f.den
             y == g.num
             h == g.den
  <1>1. /\ x \in Int /\ e \in Nat \ {0} /\ x * b = a * e
        /\ y \in Int /\ h \in Nat \ {0} /\ y * d = c * h
    BY FracType
  <1>2. /\ Plus(f, g) = Frac(x * h + y * e, e * h)
        /\ Minus(f, g) = Frac(x * h - y * e, e * h)
        /\ Product(f, g) = Frac(x * y, e * h)
    BY DEF Plus, Minus, Product
  <1> HIDE DEF x, e, y, h
  <1>3. e * h \in Nat \ {0} /\ b * d \in Nat \ {0}
    BY <1>1, PositiveProduct
  <1>4. /\ (x * h + y * e) * (b * d) = (a * d + c * b) * (e * h)
        /\ (x * h - y * e) * (b * d) = (a * d - c * b) * (e * h)
        /\ (x * y) * (b * d) = (a * c) * (e * h)
    BY <1>1, PlusCross
  <1>5. /\ x * h + y * e \in Int /\ x * h - y * e \in Int /\ x * y \in Int
        /\ a * d + c * b \in Int /\ a * d - c * b \in Int /\ a * c \in Int
    BY <1>1
  <1>6. Frac(x * h + y * e, e * h) = Frac(a * d + c * b, b * d)
    BY <1>3, <1>4, <1>5, FracSame
  <1>7. Frac(x * h - y * e, e * h) = Frac(a * d - c * b, b * d)
    BY <1>3, <1>4, <1>5, FracSame
  <1>8. Frac(x * y, e * h) = Frac(a * c, b * d)
    BY <1>3, <1>4, <1>5, FracSame
  <1> QED
    BY <1>2, <1>6, <1>7, <1>8

\* Neither do quotients.
LEMMA OverIs ==
  ASSUME NEW a \in Int, NEW b \in Nat \ {0}, NEW m \in Nat \ {0}
  PROVE  Over(Frac(a, b), m) = Frac(a, b * m)
  <1> DEFINE x == Frac(a, b).num
             e == Frac(a, b).den
  <1>1. x \in Int /\ e \in Nat \ {0} /\ x * b = a * e
    BY FracType
  <1>2. Over(Frac(a, b), m) = Frac(x, e * m)
    BY DEF Over
  <1> HIDE DEF x, e
  <1>3. e * m \in Nat \ {0} /\ b * m \in Nat \ {0}
    BY <1>1, PositiveProduct
  <1>4. x * (b * m) = a * (e * m)
    <2>1. x * (b * m) = (x * b) * m /\ a * (e * m) = (a * e) * m
      BY <1>1
    <2> QED
      BY <1>1, <2>1
  <1> QED
    BY <1>1, <1>2, <1>3, <1>4, FracSame

\* A whole number is in lowest terms.
LEMMA WholeIs ==
  ASSUME NEW n \in Int
  PROVE  Whole(n) = Frac(n, 1)
  <1> DEFINE f == Frac(n, 1)
  <1>1. IsLowest(f, n, 1)
    BY FracIs
  <1> HIDE DEF f
  <1>2. f \in Fraction /\ f.num * 1 = n * f.den /\ Least(f.den, n, 1)
    BY <1>1 DEF IsLowest
  <1>3. f.den \in Nat \ {0} /\ f.num \in Int /\ f = [num |-> f.num, den |-> f.den]
    BY <1>2 DEF Fraction
  <1>4. f.den <= 1
    <2>1. n * 1 = n * 1 /\ 1 \in Nat \ {0}
      OBVIOUS
    <2> QED
      BY <1>2, <2>1 DEF Least
  <1>5. f.den = 1 /\ f.num = n
    BY <1>2, <1>3, <1>4
  <1>6. Whole(n) = f
    BY <1>3, <1>5 DEF Whole
  <1> QED
    BY <1>6 DEF f

-----------------------------------------------------------------------------
(* One round.                                                              *)

\* The mean of k + 1 numbers from the mean of k of them.
LEMMA Mean ==
  ASSUME NEW s \in Int, NEW k \in Nat \ {0}, NEW v \in Int
  PROVE  /\ Minus(Whole(v), Frac(s, k)) = Frac(v * k - s, k)
         /\ Plus(Frac(s, k), Over(Frac(v * k - s, k), k + 1)) = Frac(s + v, k + 1)
  <1>1. Minus(Frac(v, 1), Frac(s, k)) = Frac(v * k - s * 1, 1 * k)
    BY OperationsAre
  <1>2. v * k - s * 1 = v * k - s /\ 1 * k = k
    OBVIOUS
  <1>3. Minus(Whole(v), Frac(s, k)) = Frac(v * k - s, k)
    BY <1>1, <1>2, WholeIs
  <1> DEFINE x == v * k - s
             l == k + 1
             e == k * l
  <1>4. x \in Int /\ l \in Nat \ {0} /\ e \in Nat \ {0} /\ x = v * k - s /\ l = k + 1 /\ e = k * l
    BY PositiveProduct
  <1> HIDE DEF x, l, e
  <1>5. Over(Frac(x, k), l) = Frac(x, e)
    BY <1>4, OverIs
  <1>6. Plus(Frac(s, k), Frac(x, e)) = Frac(s * e + x * k, k * e)
    BY <1>4, OperationsAre
  <1> DEFINE t == s * e + x * k
             d == k * e
             z == s + v
  <1>7. t \in Int /\ d \in Nat \ {0} /\ z \in Int
    BY <1>4, PositiveProduct
  <1>8. t * l = z * d
    <2>1. t = k * (s * l + x)
      BY <1>4
    <2>2. s * l + x = z * k
      BY <1>4
    <2>3. d = k * (k * l)
      BY <1>4
    <2> HIDE DEF t, d, z
    <2>4. t = k * (z * k)
      BY <2>1, <2>2
    <2> QED
      BY <1>4, <1>7, <2>3, <2>4
  <1>9. Frac(t, d) = Frac(z, l)
    <2> HIDE DEF t, d, z
    <2> QED
      BY <1>4, <1>7, <1>8, FracSame
  <1> QED
    BY <1>3, <1>4, <1>5, <1>6, <1>9

\* The identity the one-pass computation of the variance rests on.
LEMMA Welford ==
  ASSUME NEW q \in Int, NEW s \in Int, NEW v \in Int, NEW k \in Int
  PROVE  (k * q - s * s) * (k + 1) + (v * k - s) * (v * k - s)
           = ((k + 1) * (q + v * v) - (s + v) * (s + v)) * k
  OBVIOUS

\* What qi becomes when the sum of the k numbers so far is s, that of their
\* squares is q, and v comes next.
Deviates(s, q, k, v) ==
  LET f == Frac(v * k - s, k)
  IN  Plus(Frac(k * q - s * s, k), Over(Product(Whole(k), Product(f, f)), k + 1))
        = Frac((k + 1) * (q + v * v) - (s + v) * (s + v), k + 1)

\* It is k + 1 times the squares' sum less the square of the sum, over k + 1.
LEMMA Deviation ==
  ASSUME NEW s \in Int, NEW q \in Int, NEW k \in Nat \ {0}, NEW v \in Int
  PROVE  Deviates(s, q, k, v)
  <1> DEFINE x == v * k - s
             y == x * x
             l == k + 1
             a == k * q - s * s
             z == l * (q + v * v) - (s + v) * (s + v)
             b == k * k
             e == b * l
             w == k * y
  <1>1. a * l + y = z * k
    BY Welford
  <1>2. /\ x \in Int /\ y \in Int /\ l \in Nat \ {0} /\ a \in Int /\ z \in Int
        /\ b \in Nat \ {0} /\ e \in Nat \ {0} /\ w \in Int
    <2>1. x \in Int /\ y \in Int /\ l \in Nat \ {0} /\ a \in Int /\ z \in Int
      OBVIOUS
    <2>2. b \in Nat \ {0}
      BY PositiveProduct
    <2> HIDE DEF x, y, l, a, z, b
    <2> QED
      BY <2>1, <2>2, PositiveProduct
  <1> HIDE DEF z, a
  <1>3. Product(Frac(x, k), Frac(x, k)) = Frac(y, b)
    BY <1>2, OperationsAre
  <1>4. Product(Whole(k), Frac(y, b)) = Frac(w, b)
    <2>1. Product(Frac(k, 1), Frac(y, b)) = Frac(w, 1 * b)
      BY <1>2, OperationsAre
    <2>2. 1 * b = b
      OBVIOUS
    <2> QED
      BY <2>1, <2>2, WholeIs
  <1>5. Over(Frac(w, b), l) = Frac(w, e)
    BY <1>2, OverIs
  <1>6. Plus(Frac(a, k), Frac(w, e)) = Frac(a * e + w * k, k * e)
    BY <1>2, OperationsAre
  <1> DEFINE t == a * e + w * k
             d == k * e
  <1>7. t \in Int /\ d \in Nat \ {0}
    BY <1>2, PositiveProduct
  <1>8. t * l = z * d
    <2>1. e = b * l /\ w = k * y /\ d = k * e /\ t = a * e + w * k /\ b = k * k
      OBVIOUS
    <2> HIDE DEF t, d, e, w, x, y, b, l
    <2>2. t = b * (a * l + y)
      <3>1. a * e = b * (a * l)
        BY <1>2, <2>1
      <3>2. w * k = b * y
        BY <1>2, <2>1
      <3> QED
        BY <1>2, <2>1, <3>1, <3>2
    <2>3. t = b * (z * k)
      BY <1>1, <2>2
    <2>4. d = k * (b * l)
      BY <2>1
    <2> QED
      BY <1>2, <2>3, <2>4
  <1>9. Frac(t, d) = Frac(z, l)
    <2> HIDE DEF t, d, z, l
    <2> QED
      BY <1>2, <1>7, <1>8, FracSame
  <1>10. Plus(Frac(a, k), Over(Product(Whole(k), Product(Frac(x, k), Frac(x, k))), l)) = Frac(z, l)
    BY <1>3, <1>4, <1>5, <1>6, <1>9
  <1> QED
    BY <1>10 DEF Deviates, a, z

\* Fractions with one denominator add their numerators.
LEMMA AddOver ==
  ASSUME NEW a \in Int, NEW b \in Int, NEW d \in Nat \ {0}
  PROVE  Plus(Frac(a, d), Frac(b, d)) = Frac(a + b, d)
  <1> DEFINE t == a * d + b * d
             e == d * d
  <1>1. Plus(Frac(a, d), Frac(b, d)) = Frac(t, e)
    BY OperationsAre
  <1>2. t \in Int /\ e \in Nat \ {0} /\ a + b \in Int /\ t * d = (a + b) * e
    <2>1. e \in Nat \ {0}
      BY PositiveProduct
    <2>2. t = (a + b) * d
      OBVIOUS
    <2> QED
      BY <2>1, <2>2
  <1> HIDE DEF t, e
  <1>3. Frac(t, e) = Frac(a + b, d)
    BY <1>2, FracSame
  <1> QED
    BY <1>1, <1>3

-----------------------------------------------------------------------------
(* The loops.                                                              *)

\* f and h begin alike and go on alike.
Alike(f, h, n) ==
  /\ f[0] = h[0]
  /\ \A k \in 1 .. n : f[k - 1] = h[k - 1] => f[k] = h[k]

\* Then they are alike everywhere.
LEMMA SameLoop ==
  ASSUME NEW n \in Nat, NEW f, NEW h, Alike(f, h, n)
  PROVE  \A k \in 0 .. n : f[k] = h[k]
  <1> DEFINE S == {k \in 0 .. n : f[k] = h[k]}
  <1>1. 0 \in S
    BY DEF Alike
  <1>2. \A k \in 0 .. n - 1 : k \in S => k + 1 \in S
    <2> SUFFICES ASSUME NEW k \in 0 .. n - 1, f[k] = h[k] PROVE k + 1 \in 0 .. n /\ f[k + 1] = h[k + 1]
      OBVIOUS
    <2>1. k + 1 \in 1 .. n /\ k + 1 \in 0 .. n /\ (k + 1) - 1 = k
      OBVIOUS
    <2> QED
      BY <2>1 DEF Alike
  <1> HIDE DEF S
  <1>3. \A k \in 0 .. n : k \in S
    BY <1>1, <1>2, LoopInduction
  <1> QED
    BY <1>3 DEF S

\* f[k] is the sum of the first k numbers.
Summing(f, n, c) ==
  /\ f \in [0 .. n -> Int]
  /\ f[0] = 0
  /\ \A k \in 1 .. n : f[k] = f[k - 1] + c[k]

\* There are such sums.
LEMMA SumsExist ==
  ASSUME NEW n \in Nat, NEW c \in [1 .. n -> Int]
  PROVE  \E f : Summing(f, n, c)
  <1> DEFINE step == [kd \in (1 .. n) \X Int |-> kd[2] + c[kd[1]]]
  <1>1. step \in [(1 .. n) \X Int -> Int]
    <2>1. \A kd \in (1 .. n) \X Int : kd[2] + c[kd[1]] \in Int
      OBVIOUS
    <2> QED
      BY <2>1
  <1>2. PICK g : IsTrace(g, n, Int, 0, step)
    <2> HIDE DEF step
    <2>1. 0 \in Int
      OBVIOUS
    <2> QED
      BY <1>1, <2>1, LoopExists
  <1>3. g \in [0 .. n -> Int] /\ g[0] = 0 /\ \A k \in 1 .. n : g[k] = step[<<k, g[k - 1]>>]
    <2> HIDE DEF step
    <2> QED
      BY <1>2 DEF IsTrace
  <1>4. \A k \in 1 .. n : g[k] = g[k - 1] + c[k]
    <2> SUFFICES ASSUME NEW k \in 1 .. n PROVE g[k] = g[k - 1] + c[k]
      OBVIOUS
    <2>1. g[k - 1] \in Int
      BY <1>3
    <2> QED
      BY <1>3, <2>1
  <1>5. Summing(g, n, c)
    BY <1>3, <1>4 DEF Summing
  <1> QED
    BY <1>5

\* The recursive definition of the sums in OnePassIsRight.
Totals(c, n) == CHOOSE sum : sum = [k \in 0 .. n |-> IF k = 0 THEN 0 ELSE sum[k - 1] + c[k]]

\* The recursive definition gives them.
LEMMA TotalsAre ==
  ASSUME NEW n \in Nat, NEW c \in [1 .. n -> Int]
  PROVE  Summing(Totals(c, n), n, c)
  <1>1. PICK g : Summing(g, n, c)
    BY SumsExist
  <1>2. g = [k \in 0 .. n |-> IF k = 0 THEN 0 ELSE g[k - 1] + c[k]]
    BY <1>1 DEF Summing
  <1> DEFINE f == Totals(c, n)
  <1>3. f = [k \in 0 .. n |-> IF k = 0 THEN 0 ELSE f[k - 1] + c[k]]
    BY <1>2, Zenon DEF Totals
  <1> HIDE DEF f
  <1>4. f[0] = 0 /\ \A k \in 1 .. n : f[k] = f[k - 1] + c[k]
    BY <1>3
  <1>5. \A k \in 0 .. n : f[k] = g[k]
    <2>1. Alike(f, g, n)
      BY <1>1, <1>4 DEF Summing, Alike
    <2> QED
      BY <2>1, SameLoop
  <1>6. f \in [0 .. n -> Int]
    BY <1>1, <1>3, <1>5 DEF Summing
  <1> QED
    BY <1>4, <1>6 DEF Summing, f

\* The least and the greatest of the first k numbers.
Extremes(lo, hi, n, c) ==
  \A k \in 1 .. n :
    /\ lo[k] \in Int /\ lo[k] = Min({c[w] : w \in 1 .. k})
    /\ hi[k] \in Int /\ hi[k] = Max({c[w] : w \in 1 .. k})
    /\ k > 1 => /\ lo[k] = Smaller(lo[k - 1], c[k])
                /\ hi[k] = IF c[k] > hi[k - 1] THEN c[k] ELSE hi[k - 1]

\* A member that is no larger than the others is Min(), ...
LEMMA MinIs ==
  ASSUME NEW A \in SUBSET Int, NEW m \in A, \A y \in A : m <= y
  PROVE  Min(A) = m
  <1> DEFINE x == Min(A)
  <1>1. x \in A /\ \A y \in A : x <= y
    BY DEF Min
  <1>2. x \in Int /\ m \in Int
    BY <1>1
  <1> HIDE DEF x
  <1>3. x <= m /\ m <= x
    BY <1>1
  <1>4. x = m
    BY <1>2, <1>3
  <1> QED
    BY <1>4 DEF x

\* ... and one that is no smaller is Max().
LEMMA MaxIs ==
  ASSUME NEW A \in SUBSET Int, NEW m \in A, \A y \in A : m >= y
  PROVE  Max(A) = m
  <1> DEFINE x == Max(A)
  <1>1. x \in A /\ \A y \in A : x >= y
    BY DEF Max
  <1>2. x \in Int /\ m \in Int
    BY <1>1
  <1> HIDE DEF x
  <1>3. x >= m /\ m >= x
    BY <1>1
  <1>4. x = m
    BY <1>2, <1>3
  <1> QED
    BY <1>4 DEF x

\* x is the least and y the greatest of the first k numbers.
Bounds(c, k, x, y) ==
  LET A == {c[w] : w \in 1 .. k}
  IN  x \in A /\ y \in A /\ \A z \in A : x <= z /\ y >= z

\* x and y are then Min() and Max(), ...
LEMMA BoundsAre ==
  ASSUME NEW n \in Nat, NEW c \in [1 .. n -> Int], NEW k \in 1 .. n, NEW x, NEW y, Bounds(c, k, x, y)
  PROVE  /\ x \in Int /\ y \in Int
         /\ x = Min({c[w] : w \in 1 .. k}) /\ y = Max({c[w] : w \in 1 .. k})
  <1> DEFINE A == {c[w] : w \in 1 .. k}
  <1>1. A \in SUBSET Int
    OBVIOUS
  <1>2. x \in A /\ y \in A /\ \A z \in A : x <= z /\ y >= z
    BY DEF Bounds
  <1> HIDE DEF A
  <1>3. x = Min(A) /\ y = Max(A) /\ x \in Int /\ y \in Int
    BY <1>1, <1>2, MinIs, MaxIs
  <1> QED
    BY <1>3 DEF A

\* ... and one number more changes them as the loop does.
LEMMA BoundsNext ==
  ASSUME NEW n \in Nat, NEW c \in [1 .. n -> Int], NEW k \in 1 .. n - 1, NEW x \in Int, NEW y \in Int,
         Bounds(c, k, x, y)
  PROVE  Bounds(c, k + 1, Smaller(x, c[k + 1]), IF c[k + 1] > y THEN c[k + 1] ELSE y)
  <1> DEFINE A == {c[w] : w \in 1 .. k}
             B == {c[w] : w \in 1 .. k + 1}
             v == c[k + 1]
  <1>1. A \in SUBSET Int /\ B = A \cup {v} /\ v \in Int
    <2>1. \A w \in 1 .. k + 1 : w \in 1 .. k \/ w = k + 1
      OBVIOUS
    <2>2. B = A \cup {v}
      BY <2>1
    <2> QED
      BY <2>2
  <1>2. x \in A /\ y \in A /\ \A z \in A : x <= z /\ y >= z
    BY DEF Bounds
  <1> HIDE DEF A, B, v
  <1> DEFINE lo == Smaller(x, v)
             hi == IF v > y THEN v ELSE y
  <1>3. lo \in {x, v} /\ lo <= x /\ lo <= v /\ hi \in {y, v} /\ hi >= y /\ hi >= v /\ lo \in Int /\ hi \in Int
    BY <1>1 DEF Smaller
  <1> HIDE DEF lo, hi
  <1>4. lo \in B /\ hi \in B
    BY <1>1, <1>2, <1>3
  <1>5. \A z \in B : lo <= z /\ hi >= z
    <2> SUFFICES ASSUME NEW z \in B PROVE lo <= z /\ hi >= z
      OBVIOUS
    <2>1. CASE z = v
      BY <1>3, <2>1
    <2>2. CASE z \in A
      <3>1. x <= z /\ y >= z /\ z \in Int
        BY <1>1, <1>2, <2>2
      <3> QED
        BY <1>3, <3>1
    <2> QED
      BY <1>1, <2>1, <2>2
  <1> QED
    BY <1>4, <1>5 DEF Bounds, B, lo, hi, v

\* So there are running extremes.
LEMMA ExtremesExist ==
  ASSUME NEW n \in Nat \ {0}, NEW c \in [1 .. n -> Int]
  PROVE  \E lo, hi : Extremes(lo, hi, n, c)
  <1> DEFINE lo == [k \in 1 .. n |-> Min({c[w] : w \in 1 .. k})]
             hi == [k \in 1 .. n |-> Max({c[w] : w \in 1 .. k})]
             S == {k \in 0 .. n : k # 0 => Bounds(c, k, lo[k], hi[k])}
  <1>0. \A k \in 1 .. n : lo[k] = Min({c[w] : w \in 1 .. k}) /\ hi[k] = Max({c[w] : w \in 1 .. k})
    OBVIOUS
  <1>1. ASSUME NEW k \in 1 .. n, NEW x, NEW y, Bounds(c, k, x, y) PROVE x = lo[k] /\ y = hi[k] /\ x \in Int /\ y \in Int
    BY <1>0, <1>1, BoundsAre
  <1> HIDE DEF lo, hi
  <1>2. 0 \in S
    OBVIOUS
  <1>3. Bounds(c, 1, lo[1], hi[1])
    <2>1. Bounds(c, 1, c[1], c[1])
      <3>1. c[1] \in Int /\ {c[w] : w \in 1 .. 1} = {c[1]}
        OBVIOUS
      <3> QED
        BY <3>1 DEF Bounds
    <2>2. 1 \in 1 .. n
      OBVIOUS
    <2> QED
      BY <1>1, <2>1, <2>2
  <1>4. ASSUME NEW k \in 1 .. n - 1, Bounds(c, k, lo[k], hi[k])
        PROVE  /\ Bounds(c, k + 1, lo[k + 1], hi[k + 1])
               /\ lo[k + 1] = Smaller(lo[k], c[k + 1])
               /\ hi[k + 1] = IF c[k + 1] > hi[k] THEN c[k + 1] ELSE hi[k]
    <2>1. k \in 1 .. n /\ k + 1 \in 1 .. n
      OBVIOUS
    <2>2. lo[k] \in Int /\ hi[k] \in Int
      BY <1>1, <1>4, <2>1
    <2>3. Bounds(c, k + 1, Smaller(lo[k], c[k + 1]), IF c[k + 1] > hi[k] THEN c[k + 1] ELSE hi[k])
      BY <1>4, <2>2, BoundsNext
    <2> DEFINE x == Smaller(lo[k], c[k + 1])
               y == IF c[k + 1] > hi[k] THEN c[k + 1] ELSE hi[k]
    <2> HIDE DEF x, y
    <2>4. Bounds(c, k + 1, x, y)
      BY <2>3 DEF x, y
    <2>5. x = lo[k + 1] /\ y = hi[k + 1]
      BY <1>1, <2>1, <2>4
    <2> QED
      BY <2>4, <2>5 DEF x, y
  <1>5. \A k \in 0 .. n - 1 : k \in S => k + 1 \in S
    <2> SUFFICES ASSUME NEW k \in 0 .. n - 1, k \in S PROVE k + 1 \in S
      OBVIOUS
    <2>1. CASE k = 0
      BY <1>3, <2>1
    <2>2. CASE k # 0
      <3>1. k \in 1 .. n - 1 /\ k + 1 \in 0 .. n
        BY <2>2
      <3> QED
        BY <1>4, <2>2, <3>1
    <2> QED
      BY <2>1, <2>2
  <1> HIDE DEF S
  <1>6. \A k \in 0 .. n : k \in S
    BY <1>2, <1>5, LoopInduction
  <1>7. \A k \in 1 .. n : Bounds(c, k, lo[k], hi[k])
    BY <1>6 DEF S
  <1>8. Extremes(lo, hi, n, c)
    <2> SUFFICES ASSUME NEW k \in 1 .. n
                 PROVE  /\ lo[k] \in Int /\ lo[k] = Min({c[w] : w \in 1 .. k})
                        /\ hi[k] \in Int /\ hi[k] = Max({c[w] : w \in 1 .. k})
                        /\ k > 1 => /\ lo[k] = Smaller(lo[k - 1], c[k])
                                    /\ hi[k] = IF c[k] > hi[k - 1] THEN c[k] ELSE hi[k - 1]
      BY DEF Extremes
    <2>1. lo[k] \in Int /\ lo[k] = Min({c[w] : w \in 1 .. k}) /\ hi[k] \in Int /\ hi[k] = Max({c[w] : w \in 1 .. k})
      BY <1>7, BoundsAre
    <2>2. ASSUME k > 1 PROVE lo[k] = Smaller(lo[k - 1], c[k]) /\ hi[k] = IF c[k] > hi[k - 1] THEN c[k] ELSE hi[k - 1]
      <3>1. k - 1 \in 1 .. n - 1 /\ k - 1 \in 1 .. n /\ (k - 1) + 1 = k
        BY <2>2
      <3>2. Bounds(c, k - 1, lo[k - 1], hi[k - 1])
        BY <1>7, <3>1
      <3> DEFINE b == k - 1
      <3>3. b \in 1 .. n - 1 /\ Bounds(c, b, lo[b], hi[b]) /\ b + 1 = k
        BY <3>1, <3>2
      <3> HIDE DEF b
      <3>4. lo[b + 1] = Smaller(lo[b], c[b + 1]) /\ hi[b + 1] = IF c[b + 1] > hi[b] THEN c[b + 1] ELSE hi[b]
        BY <1>4, <3>3
      <3>5. lo[k] = Smaller(lo[b], c[k]) /\ hi[k] = IF c[k] > hi[b] THEN c[k] ELSE hi[b]
        BY <3>3, <3>4
      <3> QED
        BY <3>5 DEF b
    <2> QED
      BY <2>1, <2>2
  <1> QED
    BY <1>8

-----------------------------------------------------------------------------
(* print_rough_stats() from two values on.                                 *)

\* The squares of the numbers.
Squares(c) == [k \in DOMAIN c |-> c[k] * c[k]]

\* What is known of the first k numbers when the loop has seen them.
Statistics(S, Q, lo, hi, k) ==
  [min |-> lo[k], max |-> hi[k], mi |-> Frac(S[k], k), qi |-> Frac(k * Q[k] - S[k] * S[k], k)]

\* The sums and extremes of c after each number.
Follows(S, Q, lo, hi, n, c) ==
  Summing(S, n, c) /\ Summing(Q, n, Squares(c)) /\ Extremes(lo, hi, n, c)

\* The k-th round takes the statistics of k numbers to those of k + 1.
Continues(S, Q, lo, hi, c, k) ==
  Step(Statistics(S, Q, lo, hi, k), k, c[k + 1]) = Statistics(S, Q, lo, hi, k + 1)

\* One round of the loop brings the statistics one number further, ...
LEMMA StepIs ==
  ASSUME NEW n \in Nat \ {0}, NEW c \in [1 .. n -> Int], NEW S, NEW Q, NEW lo, NEW hi,
         Follows(S, Q, lo, hi, n, c), NEW k \in 1 .. n - 1
  PROVE  Continues(S, Q, lo, hi, c, k)
  <1> DEFINE v == c[k + 1]
             s == S[k]
             q == Q[k]
             l == k + 1
             a == Statistics(S, Q, lo, hi, k)
  <1>1. /\ v \in Int /\ s \in Int /\ q \in Int /\ l = k + 1 /\ l \in 1 .. n /\ l > 1 /\ l - 1 = k
        /\ k \in Nat \ {0}
        /\ S[l] = s + v
        /\ Q[l] = q + v * v
        /\ lo[l] = Smaller(lo[k], v)
        /\ hi[l] = IF v > hi[k] THEN v ELSE hi[k]
    <2>1. k \in 0 .. n /\ l \in 1 .. n /\ l > 1 /\ l - 1 = k /\ k \in Nat \ {0} /\ v \in Int
      OBVIOUS
    <2>2. s \in Int /\ S[l] = S[l - 1] + c[l]
      BY <2>1 DEF Follows, Summing
    <2>3. q \in Int /\ Q[l] = Q[l - 1] + Squares(c)[l]
      BY <2>1 DEF Follows, Summing
    <2>4. Squares(c)[l] = v * v
      BY <2>1 DEF Squares
    <2>5. lo[l] = Smaller(lo[l - 1], c[l]) /\ hi[l] = IF c[l] > hi[l - 1] THEN c[l] ELSE hi[l - 1]
      BY <2>1 DEF Follows, Extremes
    <2> QED
      BY <2>1, <2>2, <2>3, <2>4, <2>5
  <1>2. /\ a.min = lo[k] /\ a.max = hi[k] /\ a.mi = Frac(s, k) /\ a.qi = Frac(k * q - s * s, k)
    BY DEF Statistics
  <1> HIDE DEF v, s, q, a
  <1> DEFINE f == Minus(Whole(v), a.mi)
  <1>3. f = Frac(v * k - s, k)
    <2>1. Minus(Whole(v), Frac(s, k)) = Frac(v * k - s, k)
      BY <1>1, Mean
    <2> QED
      BY <1>2, <2>1
  <1>4. Plus(a.mi, Over(f, k + 1)) = Frac(s + v, k + 1)
    BY <1>1, <1>2, <1>3, Mean
  <1>5. Plus(a.qi, Over(Product(Whole(k), Product(f, f)), k + 1))
          = Frac((k + 1) * (q + v * v) - (s + v) * (s + v), k + 1)
    <2> DEFINE g == Frac(v * k - s, k)
    <2>1. Plus(Frac(k * q - s * s, k), Over(Product(Whole(k), Product(g, g)), k + 1))
            = Frac((k + 1) * (q + v * v) - (s + v) * (s + v), k + 1)
      <3>1. Deviates(s, q, k, v)
        BY <1>1, Deviation
      <3> QED
        BY <3>1 DEF Deviates
    <2>2. f = g
      BY <1>3
    <2> HIDE DEF f, g
    <2> QED
      BY <1>2, <2>1, <2>2
  <1>6. Step(a, k, v) = [min |-> Smaller(a.min, v),
                         max |-> IF v > a.max THEN v ELSE a.max,
                         mi |-> Plus(a.mi, Over(f, k + 1)),
                         qi |-> Plus(a.qi, Over(Product(Whole(k), Product(f, f)), k + 1))]
    BY DEF Step
  <1> HIDE DEF f, l
  <1>7. Statistics(S, Q, lo, hi, l)
          = [min |-> lo[l], max |-> hi[l], mi |-> Frac(s + v, l), qi |-> Frac(l * (q + v * v) - (s + v) * (s + v), l)]
    BY <1>1 DEF Statistics
  <1>8. Step(a, k, v) = Statistics(S, Q, lo, hi, l)
    BY <1>1, <1>2, <1>4, <1>5, <1>6, <1>7
  <1> QED
    BY <1>1, <1>8 DEF a, v, Continues

\* ... so the loop has those of all numbers it has seen.
LEMMA RoughStatsAre ==
  ASSUME NEW n \in Nat \ {0}, NEW c \in [1 .. n -> Int], NEW S, NEW Q, NEW lo, NEW hi,
         Follows(S, Q, lo, hi, n, c),
         NEW vector \in Seq(Int), vector # <<>>, \A k \in 1 .. n : vector[k] = c[k]
  PROVE  Seen(vector, n) = Statistics(S, Q, lo, hi, n)
  <1> DEFINE r == n - 1
             start == [min |-> First(vector), max |-> First(vector), mi |-> Whole(First(vector)), qi |-> Whole(0)]
             h == [k \in 0 .. r |-> Statistics(S, Q, lo, hi, k + 1)]
             f == CHOOSE stats : stats = [k \in 0 .. r |-> IF k = 0 THEN start ELSE Step(stats[k - 1], k, vector[k + 1])]
  <1>1. Seen(vector, n) = f[r]
    BY Zenon DEF Seen
  <1>2. start = Statistics(S, Q, lo, hi, 1)
    <2>1. First(vector) = c[1] /\ c[1] \in Int /\ 1 \in 1 .. n /\ 1 - 1 = 0 /\ 0 \in 0 .. n
      BY DEF First
    <2>2. S[1] = c[1]
      <3>1. S[1] = S[0] + c[1] /\ S[0] = 0
        BY <2>1 DEF Follows, Summing
      <3> QED
        BY <2>1, <3>1
    <2>3. Q[1] = c[1] * c[1]
      <3>1. Q[1] = Q[0] + Squares(c)[1] /\ Q[0] = 0
        BY <2>1 DEF Follows, Summing
      <3>2. Squares(c)[1] = c[1] * c[1]
        BY <2>1 DEF Squares
      <3> QED
        BY <2>1, <3>1, <3>2
    <2>4. lo[1] = c[1] /\ hi[1] = c[1]
      <3> DEFINE A == {c[w] : w \in 1 .. 1}
                 b == c[1]
      <3>1. lo[1] = Min(A) /\ hi[1] = Max(A)
        BY <2>1 DEF Follows, Extremes
      <3>2. A = {b} /\ b \in Int
        BY <2>1
      <3> HIDE DEF A, b
      <3>3. A \in SUBSET Int /\ b \in A /\ \A y \in A : b <= y /\ b >= y
        BY <3>2
      <3>4. Min(A) = b /\ Max(A) = b
        BY <3>3, MinIs, MaxIs
      <3> QED
        BY <3>1, <3>4 DEF b
    <2>5. Whole(First(vector)) = Frac(S[1], 1)
      BY <2>1, <2>2, WholeIs
    <2>6. Whole(0) = Frac(1 * Q[1] - S[1] * S[1], 1)
      <3>1. 1 * Q[1] - S[1] * S[1] = 0
        BY <2>1, <2>2, <2>3
      <3> QED
        BY <3>1, WholeIs
    <2> QED
      BY <2>1, <2>4, <2>5, <2>6 DEF Statistics
  <1>3. \A k \in 1 .. r : Step(Statistics(S, Q, lo, hi, k), k, vector[k + 1]) = Statistics(S, Q, lo, hi, k + 1)
    <2> SUFFICES ASSUME NEW k \in 1 .. r
                 PROVE  Step(Statistics(S, Q, lo, hi, k), k, vector[k + 1]) = Statistics(S, Q, lo, hi, k + 1)
      OBVIOUS
    <2>1. k \in 1 .. n - 1 /\ k + 1 \in 1 .. n /\ n \in Nat \ {0}
      OBVIOUS
    <2>2. vector[k + 1] = c[k + 1]
      BY <2>1
    <2>3. Continues(S, Q, lo, hi, c, k)
      BY <2>1, StepIs
    <2> QED
      BY <2>2, <2>3 DEF Continues
  <1> HIDE DEF start
  <1>4. h[0] = start /\ \A k \in 1 .. r : h[k] = Step(h[k - 1], k, vector[k + 1])
    <2>1. h[0] = start
      <3>1. 0 \in 0 .. r /\ 0 + 1 = 1
        OBVIOUS
      <3> QED
        BY <1>2, <3>1
    <2>2. ASSUME NEW k \in 1 .. r PROVE h[k] = Step(h[k - 1], k, vector[k + 1])
      <3>1. k \in 0 .. r /\ k - 1 \in 0 .. r /\ (k - 1) + 1 = k
        OBVIOUS
      <3>2. h[k] = Statistics(S, Q, lo, hi, k + 1) /\ h[k - 1] = Statistics(S, Q, lo, hi, k)
        BY <3>1
      <3> QED
        BY <1>3, <3>2
    <2> QED
      BY <2>1, <2>2
  <1>5. h = [k \in 0 .. r |-> IF k = 0 THEN start ELSE Step(h[k - 1], k, vector[k + 1])]
    <2>1. \A k \in 0 .. r : h[k] = IF k = 0 THEN start ELSE Step(h[k - 1], k, vector[k + 1])
      <3> SUFFICES ASSUME NEW k \in 0 .. r PROVE h[k] = IF k = 0 THEN start ELSE Step(h[k - 1], k, vector[k + 1])
        OBVIOUS
      <3>1. k = 0 \/ k \in 1 .. r
        OBVIOUS
      <3> HIDE DEF h
      <3> QED
        BY <1>4, <3>1
    <2>2. h = [k \in 0 .. r |-> h[k]]
      OBVIOUS
    <2> HIDE DEF h
    <2> QED
      BY <2>1, <2>2
  <1> HIDE DEF h
  <1>6. f = [k \in 0 .. r |-> IF k = 0 THEN start ELSE Step(f[k - 1], k, vector[k + 1])]
    BY <1>5, Zenon
  <1> HIDE DEF f
  <1>7. Alike(f, h, r)
    <2>1. f[0] = start /\ \A k \in 1 .. r : f[k] = Step(f[k - 1], k, vector[k + 1])
      <3>1. 0 \in 0 .. r /\ \A k \in 1 .. r : k \in 0 .. r /\ k # 0
        OBVIOUS
      <3> QED
        BY <1>6, <3>1
    <2> QED
      BY <1>4, <2>1 DEF Alike
  <1>8. f[r] = h[r]
    <2>1. r \in Nat /\ r \in 0 .. r
      OBVIOUS
    <2> HIDE DEF r
    <2> QED
      BY <1>7, <2>1, SameLoop
  <1>9. h[r] = Statistics(S, Q, lo, hi, n)
    <2>1. r \in 0 .. r /\ r + 1 = n
      OBVIOUS
    <2> QED
      BY <2>1 DEF h
  <1> QED
    BY <1>1, <1>8, <1>9

\* The sum of the squared distances to the mean.
Spread(c, n, mean) ==
  CHOOSE squares : squares =
    [k \in 0 .. n |-> IF k = 0 THEN Whole(0)
                      ELSE Plus(squares[k - 1], Product(Minus(Whole(c[k]), mean), Minus(Whole(c[k]), mean)))]

\* n times n times that sum over k numbers whose sum is p and whose squares
\* sum up to q, when n times the mean is s.
Scaled(n, s, p, q, k) == n * n * q - 2 * n * s * p + k * s * s

\* It is a number, ...
LEMMA ScaledType ==
  ASSUME NEW n \in Int, NEW s \in Int, NEW p \in Int, NEW q \in Int, NEW k \in Int
  PROVE  Scaled(n, s, p, q, k) \in Int
  BY DEF Scaled

\* What v adds to it.
ScaledGrows(n, s, p, q, k, v) ==
  Scaled(n, s, p + v, q + v * v, k + 1) = Scaled(n, s, p, q, k) + (v * n - s) * (v * n - s)

\* ... grows by the squared distance of the next one, ...
LEMMA ScaledNext ==
  ASSUME NEW n \in Int, NEW s \in Int, NEW p \in Int, NEW q \in Int, NEW k \in Int, NEW v \in Int
  PROVE  ScaledGrows(n, s, p, q, k, v)
  BY DEF ScaledGrows, Scaled

\* What it is when all n numbers are in.
ScaledEnds(n, s, q) == Scaled(n, s, s, q, n) * n = (n * q - s * s) * (n * n)

\* ... and ends as what the one-pass computation has.
LEMMA ScaledLast ==
  ASSUME NEW n \in Int, NEW s \in Int, NEW q \in Int
  PROVE  ScaledEnds(n, s, q)
  BY DEF ScaledEnds, Scaled

\* The squared distance of one number to the mean.
LEMMA DistanceIs ==
  ASSUME NEW s \in Int, NEW n \in Nat \ {0}, NEW v \in Int, NEW mean, mean = Frac(s, n)
  PROVE  Product(Minus(Whole(v), mean), Minus(Whole(v), mean)) = Frac((v * n - s) * (v * n - s), n * n)
  <1> DEFINE f == Minus(Whole(v), mean)
             x == v * n - s
  <1>1. f = Frac(x, n) /\ x \in Int
    <2>1. Minus(Whole(v), Frac(s, n)) = Frac(v * n - s, n)
      BY Mean
    <2> QED
      BY <2>1
  <1> HIDE DEF f, x
  <1>2. Product(Frac(x, n), Frac(x, n)) = Frac(x * x, n * n)
    BY <1>1, OperationsAre
  <1>3. Product(f, f) = Frac(x * x, n * n)
    BY <1>1, <1>2
  <1> QED
    BY <1>3 DEF f, x

\* Adding them up with the mean known gives what the loop computes without it.
LEMMA SpreadIs ==
  ASSUME NEW n \in Nat \ {0}, NEW c \in [1 .. n -> Int], NEW S, NEW Q,
         Summing(S, n, c), Summing(Q, n, Squares(c)), NEW mean, mean = Frac(S[n], n)
  PROVE  Spread(c, n, mean)[n] = Frac(n * Q[n] - S[n] * S[n], n)
  <1> DEFINE s == S[n]
             m == n * n
             e(k) == Product(Minus(Whole(c[k]), mean), Minus(Whole(c[k]), mean))
             N(k) == Scaled(n, s, S[k], Q[k], k)
             h == [k \in 0 .. n |-> Frac(N(k), m)]
             f == Spread(c, n, mean)
  <1>1. /\ S[0] = 0 /\ Q[0] = 0 /\ s \in Int /\ m \in Nat \ {0}
        /\ \A k \in 0 .. n : S[k] \in Int /\ Q[k] \in Int
        /\ \A k \in 1 .. n : S[k] = S[k - 1] + c[k] /\ Q[k] = Q[k - 1] + c[k] * c[k]
    <2>1. m \in Nat \ {0}
      BY PositiveProduct
    <2>2. S[0] = 0 /\ (\A k \in 0 .. n : S[k] \in Int) /\ \A k \in 1 .. n : S[k] = S[k - 1] + c[k]
      BY DEF Summing
    <2>3. Q[0] = 0 /\ (\A k \in 0 .. n : Q[k] \in Int) /\ \A k \in 1 .. n : Q[k] = Q[k - 1] + Squares(c)[k]
      BY DEF Summing
    <2>4. \A k \in 1 .. n : Squares(c)[k] = c[k] * c[k]
      BY DEF Squares
    <2>5. n \in 0 .. n
      OBVIOUS
    <2> QED
      BY <2>1, <2>2, <2>3, <2>4, <2>5
  <1>2. ASSUME NEW k \in 0 .. n PROVE N(k) \in Int
    <2> DEFINE p == S[k]
               q == Q[k]
    <2>1. p \in Int /\ q \in Int /\ k \in Int /\ n \in Int
      BY <1>1
    <2> HIDE DEF p, q, s
    <2>2. Scaled(n, s, p, q, k) \in Int
      BY <1>1, <2>1, ScaledType
    <2> QED
      BY <2>2 DEF p, q
  <1>3. ASSUME NEW k \in 1 .. n PROVE Frac(N(k), m) = Plus(Frac(N(k - 1), m), e(k))
    <2> DEFINE v == c[k]
               y == (v * n - s) * (v * n - s)
               b == k - 1
    <2>1. v \in Int /\ y \in Int /\ b \in 0 .. n /\ b \in Int /\ b + 1 = k /\ S[b] \in Int /\ Q[b] \in Int
      <3>1. v \in Int /\ b \in 0 .. n /\ b + 1 = k /\ b \in Int
        OBVIOUS
      <3> HIDE DEF v, b
      <3>2. y \in Int
        <4> HIDE DEF s
        <4> QED
          BY <1>1, <3>1
      <3> QED
        BY <1>1, <3>1, <3>2
    <2>2. S[k] = S[b] + v /\ Q[k] = Q[b] + v * v
      BY <1>1
    <2>3. e(k) = Frac(y, m)
      <3>1. mean = Frac(s, n)
        OBVIOUS
      <3> HIDE DEF s
      <3> QED
        BY <1>1, <2>1, <3>1, DistanceIs
    <2> HIDE DEF b, v, s
    <2>4. Scaled(n, s, S[b] + v, Q[b] + v * v, b + 1) = Scaled(n, s, S[b], Q[b], b) + y
      <3> DEFINE p == S[b]
                 q == Q[b]
      <3> HIDE DEF p, q
      <3>1. p \in Int /\ q \in Int /\ n \in Int
        BY <2>1 DEF p, q
      <3>2. ScaledGrows(n, s, p, q, b, v)
        BY <1>1, <2>1, <3>1, ScaledNext
      <3> QED
        BY <3>2 DEF ScaledGrows, p, q, y
    <2>5. N(k) = N(b) + y
      BY <2>1, <2>2, <2>4
    <2>6. N(b) \in Int
      BY <1>2, <2>1
    <2> DEFINE x == N(b)
               z == N(k)
    <2> HIDE DEF y, x, z, m
    <2>7. Plus(Frac(x, m), Frac(y, m)) = Frac(x + y, m)
      <3>1. x \in Int
        BY <2>6 DEF x
      <3> QED
        BY <1>1, <2>1, <3>1, AddOver
    <2>8. z = x + y
      BY <2>5 DEF z, x
    <2>9. Frac(z, m) = Plus(Frac(x, m), e(k))
      BY <2>3, <2>7, <2>8
    <2> QED
      BY <2>9 DEF z, x, b
  <1>4. Frac(N(0), m) = Whole(0)
    <2>1. N(0) = 0
      BY <1>1 DEF Scaled
    <2>2. 0 \in Int /\ 1 \in Nat \ {0} /\ 0 * 1 = 0 * m
      BY <1>1
    <2>3. Frac(0, m) = Frac(0, 1)
      BY <1>1, <2>2, FracSame
    <2>4. Whole(0) = Frac(0, 1)
      BY <2>2, WholeIs
    <2> QED
      BY <2>1, <2>3, <2>4
  <1> HIDE DEF N, e, m
  <1>5. h[0] = Whole(0) /\ \A k \in 1 .. n : h[k] = Plus(h[k - 1], e(k))
    <2>1. 0 \in 0 .. n /\ \A k \in 1 .. n : k \in 0 .. n /\ k - 1 \in 0 .. n
      OBVIOUS
    <2>2. \A k \in 0 .. n : h[k] = Frac(N(k), m)
      OBVIOUS
    <2> HIDE DEF h
    <2> QED
      BY <1>3, <1>4, <2>1, <2>2
  <1>6. h = [k \in 0 .. n |-> IF k = 0 THEN Whole(0) ELSE Plus(h[k - 1], e(k))]
    <2>1. \A k \in 0 .. n : k = 0 \/ k \in 1 .. n
      OBVIOUS
    <2>2. h = [k \in 0 .. n |-> h[k]]
      OBVIOUS
    <2> HIDE DEF h
    <2>3. \A k \in 0 .. n : h[k] = IF k = 0 THEN Whole(0) ELSE Plus(h[k - 1], e(k))
      BY <1>5, <2>1
    <2> QED
      BY <2>2, <2>3
  <1> HIDE DEF h
  <1>7. f = [k \in 0 .. n |-> IF k = 0 THEN Whole(0) ELSE Plus(f[k - 1], e(k))]
    BY <1>6, Zenon DEF Spread, e
  <1> HIDE DEF f
  <1>8. Alike(f, h, n)
    <2>1. f[0] = Whole(0) /\ \A k \in 1 .. n : f[k] = Plus(f[k - 1], e(k))
      <3>1. 0 \in 0 .. n /\ \A k \in 1 .. n : k \in 0 .. n /\ k # 0
        OBVIOUS
      <3> QED
        BY <1>7, <3>1
    <2> QED
      BY <1>5, <2>1 DEF Alike
  <1>9. f[n] = Frac(N(n), m)
    <2>1. n \in Nat /\ n \in 0 .. n
      OBVIOUS
    <2>2. f[n] = h[n]
      BY <1>8, <2>1, SameLoop
    <2> QED
      BY <2>1, <2>2 DEF h
  <1>10. Frac(N(n), m) = Frac(n * Q[n] - s * s, n)
    <2> DEFINE q == Q[n]
    <2>1. q \in Int /\ N(n) = Scaled(n, s, s, q, n)
      <3>1. n \in 0 .. n
        OBVIOUS
      <3> QED
        BY <1>1, <3>1 DEF N
    <2> HIDE DEF q, s
    <2> DEFINE x == Scaled(n, s, s, q, n)
               z == n * q - s * s
    <2>2. x * n = z * (n * n) /\ x \in Int /\ z \in Int
      <3>1. ScaledEnds(n, s, q)
        BY <1>1, <2>1, ScaledLast
      <3>2. x \in Int
        BY <1>1, <2>1, ScaledType
      <3> QED
        BY <1>1, <2>1, <3>1, <3>2 DEF ScaledEnds
    <2> HIDE DEF x, z
    <2>3. x * n = z * m
      BY <2>2 DEF m
    <2>4. Frac(x, m) = Frac(z, n)
      BY <1>1, <2>2, <2>3, FracSame
    <2> QED
      BY <2>1, <2>4 DEF x, z, q
  <1> QED
    BY <1>9, <1>10 DEF f

-----------------------------------------------------------------------------
(* What the loop has seen.                                                 *)

\* What OnePassIsRight says of the first n values of one vector.
SeenRight(vector, n) ==
  LET seen == Seen(vector, n)
      counted == SubSeq(vector, 1, n)
      sum[k \in 0 .. n] == IF k = 0 THEN 0 ELSE sum[k - 1] + counted[k]
      mean == Frac(sum[n], n)
      Squared(x) == Product(Minus(Whole(x), mean), Minus(Whole(x), mean))
      squares[k \in 0 .. n] ==
        IF k = 0 THEN Whole(0) ELSE Plus(squares[k - 1], Squared(counted[k]))
  IN  /\ seen.min = Min({counted[k] : k \in 1 .. n})
      /\ seen.max = Max({counted[k] : k \in 1 .. n})
      /\ seen.mi = mean
      /\ seen.qi = squares[n]

\* The same, of those values as c.
SeenOf(n, vector, c) ==
  LET mean == Frac(Totals(c, n)[n], n)
  IN  /\ Seen(vector, n).min = Min({c[k] : k \in 1 .. n})
      /\ Seen(vector, n).max = Max({c[k] : k \in 1 .. n})
      /\ Seen(vector, n).mi = mean
      /\ Seen(vector, n).qi = Spread(c, n, mean)[n]

\* The recursive definitions in it are Totals() and Spread().
LEMMA SeenUnfolded ==
  ASSUME NEW vector, NEW n, SeenOf(n, vector, SubSeq(vector, 1, n))
  PROVE  SeenRight(vector, n)
  BY Zenon DEF SeenRight, SeenOf, Totals, Spread

\* It is true of every vector, of any length, wherever the loop is.
LEMMA SeenIs ==
  ASSUME NEW vector \in Seq(Int), NEW n \in 1 .. Len(vector) - 1
  PROVE  SeenRight(vector, n)
  <1> DEFINE c == SubSeq(vector, 1, n)
  <1> SUFFICES SeenOf(n, vector, c)
    <2> HIDE DEF c
    <2> QED
      BY SeenUnfolded DEF c
  <1>1. /\ n \in Nat /\ n \in Nat \ {0} /\ vector # <<>>
        /\ c \in [1 .. n -> Int] /\ \A k \in 1 .. n : vector[k] = c[k]
    <2>1. Len(vector) \in Nat /\ n \in Nat \ {0} /\ n <= Len(vector)
      <3>1. Len(vector) \in Nat
        OBVIOUS
      <3> QED
        BY <3>1
    <2>2. vector # <<>>
      BY <2>1
    <2>3. \A k \in 1 .. n : vector[k] \in Int
      BY <2>1
    <2>4. c = [k \in 1 .. n |-> vector[k]]
      <3>1. n >= 1 /\ 1 <= Len(vector) + 1 /\ Len(c) = n /\ \A k \in 1 .. n : c[k] = vector[k]
        BY <2>1
      <3>2. c \in Seq(Int)
        BY <2>1, <3>1
      <3>3. DOMAIN c = 1 .. n
        BY <2>1, <3>1, <3>2
      <3> HIDE DEF c
      <3> QED
        BY <3>1, <3>2, <3>3
    <2> HIDE DEF c
    <2> QED
      BY <2>1, <2>2, <2>3, <2>4
  <1> HIDE DEF c
  <1> DEFINE S == Totals(c, n)
  <1>2. Summing(S, n, c)
    BY <1>1, TotalsAre
  <1>3. PICK Q : Summing(Q, n, Squares(c))
    <2>1. Squares(c) \in [1 .. n -> Int]
      BY <1>1 DEF Squares
    <2> QED
      BY <1>1, <2>1, SumsExist
  <1>4. PICK lo, hi : Extremes(lo, hi, n, c)
    BY <1>1, ExtremesExist
  <1> DEFINE mean == Frac(S[n], n)
  <1>5. Spread(c, n, mean)[n] = Frac(n * Q[n] - S[n] * S[n], n)
    <2> HIDE DEF S
    <2> QED
      BY <1>1, <1>2, <1>3, SpreadIs
  <1>6. Seen(vector, n) = Statistics(S, Q, lo, hi, n)
    <2>1. Follows(S, Q, lo, hi, n, c)
      BY <1>2, <1>3, <1>4 DEF Follows
    <2>2. n \in Nat \ {0} /\ vector # <<>> /\ c \in [1 .. n -> Int] /\ \A k \in 1 .. n : vector[k] = c[k]
      BY <1>1
    <2> HIDE DEF S
    <2> QED
      BY <2>1, <2>2, RoughStatsAre
  <1>7. lo[n] = Min({c[k] : k \in 1 .. n}) /\ hi[n] = Max({c[k] : k \in 1 .. n})
    <2>1. n \in 1 .. n
      BY <1>1
    <2>2. lo[n] = Min({c[w] : w \in 1 .. n}) /\ hi[n] = Max({c[w] : w \in 1 .. n})
      BY <1>4, <2>1, Zenon DEF Extremes
    <2> QED
      BY <2>2
  <1> HIDE DEF S
  <1> QED
    BY <1>5, <1>6, <1>7 DEF SeenOf, Statistics, S

\* The times of a kind that are collected, one after the other.
LEMMA CollectedType ==
  ASSUME TypeOK, NEW type
  PROVE  Collected(type, num_samples) \in Seq(Int)
  <1> DEFINE valid == {k \in 1 .. num_samples : samples[k].access_type = type}
             c == Cardinality(valid)
             s == [k \in 1 .. c |-> samples[Nth(valid, k)].access_time]
  <1>1. num_samples \in Nat /\ \A k \in 1 .. num_samples : samples[k] \in Sample
    BY ElementOfSeq DEF TypeOK, num_samples
  <1>2. valid \in SUBSET Int /\ IsFiniteSet(valid) /\ valid \in SUBSET (1 .. num_samples)
    <2>1. IsFiniteSet(1 .. num_samples)
      BY <1>1, FS_Interval
    <2>2. valid \in SUBSET (1 .. num_samples)
      OBVIOUS
    <2>3. (1 .. num_samples) \in SUBSET Int
      BY <1>1
    <2> HIDE DEF valid
    <2> QED
      BY <2>1, <2>2, <2>3, FS_Subset
  <1>3. Collected(type, num_samples) = s
    BY DEF Collected
  <1> HIDE DEF valid
  <1>4. c \in Nat
    BY <1>2, Ranks
  <1>5. \A k \in 1 .. c : Nth(valid, k) \in valid
    BY <1>2, NthOf
  <1>6. \A r \in Sample : r.access_time \in Int
    <2>1. Times \in SUBSET Nat
      BY ScanAssumption
    <2>2. \A r \in Sample : r.access_time \in Times
      BY DEF Sample
    <2> SUFFICES ASSUME NEW r \in Sample PROVE r.access_time \in Int
      OBVIOUS
    <2> DEFINE t == r.access_time
    <2>3. t \in Times
      BY <2>2
    <2>4. t \in Nat
      BY <2>1, <2>3
    <2> HIDE DEF t
    <2>5. t \in Int
      BY <2>4
    <2> QED
      BY <2>5 DEF t
  <1> HIDE DEF c
  <1>7. \A k \in 1 .. c : samples[Nth(valid, k)].access_time \in Int
    BY <1>1, <1>2, <1>5, <1>6
  <1>8. s \in Seq(Int)
    BY <1>4, <1>7
  <1> QED
    BY <1>3, <1>8

\* In particular of what the scan of a trace collects.
LEMMA OnePassHolds == TypeOK => OnePassIsRight
  <1> SUFFICES ASSUME TypeOK PROVE OnePassIsRight
    OBVIOUS
  <1>1. ASSUME NEW type, NEW n \in 1 .. Len(Collected(type, num_samples)) - 1
        PROVE  SeenRight(Collected(type, num_samples), n)
    BY CollectedType, SeenIs
  <1> QED
    BY <1>1, Zenon DEF OnePassIsRight, SeenRight

\* The loop of print_rough_stats(), for vectors of any length: whenever it has
\* seen n values its variables are the least, the greatest and the mean of
\* these, and the sum of their squared distances to that mean, computed in one
\* pass without ever knowing the mean (pm_common.c:196-207).
THEOREM OnePassRight == Spec => []OnePassIsRight
  BY TypeCorrect, OnePassHolds, PTL
=============================================================================

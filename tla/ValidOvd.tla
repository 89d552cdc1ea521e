------------------------------ MODULE ValidOvd ------------------------------
(***************************************************************************)
(* get_valid_ovd() of bin/pm_common.c: one pass over the data points of a  *)
(* trace file that turns every valid access after a preemption into an     *)
(* overhead, the difference to the cheapest valid hot access of its job.   *)
(*                                                                         *)
(* A trace file has no record boundaries and no job numbers: the function  *)
(* finds the jobs again by counting hot accesses.  What it promises is     *)
(* stated about well-formed traces, the shape PmTask's ColdThenHot gives.  *)
(***************************************************************************)
EXTENDS Integers, Sequences

CONSTANTS
  NUMHOTREADS,  \* hot accesses per job, REFTOTAL of the measuring task
  Cpus,
  Times,        \* access times and preemption lengths
  Traces        \* the contents a trace file can have

Sample == [access_type : {"C", "c", "H", "h", "P", "p"}, access_time : Times,
           cpu : Cpus, preemption_length : Times]
FullOvd == [curr_cpu : Cpus, last_cpu : Cpus, ovd : Int, plen : Int]

ASSUME ScanAssumption ==
  /\ NUMHOTREADS \in Nat \ {0}
  /\ Times \subseteq Nat
  /\ Times # {}
  /\ 0 \in Cpus
  /\ Traces \subseteq Seq(Sample)

VARIABLES
  samples,
  pc,                \* the call in progress, or the scan
  live,              \* which of the five arrays are allocated
  i,                 \* samples consumed so far
  total_hot_reads, valid_hot_reads, no_invalid_reads,
  valid_hot_cost, hot_cost,
  l_cpu,
  full_costs,        \* the first scount elements
  source,            \* history: the sample each of them was made from
  result             \* what the caller gets

hotvars == <<total_hot_reads, valid_hot_reads, no_invalid_reads, valid_hot_cost, hot_cost>>
outvars == <<full_costs, source>>
vars == <<samples, pc, live, i, hotvars, l_cpu, outvars, result>>

-----------------------------------------------------------------------------
Arrays == {"samples", "full_costs", "valid_c_samples", "valid_h_samples", "valid_p_samples"}
Pending == -2    \* get_valid_ovd has not returned
num_samples == Len(samples)

\* hot_cost starts as the time of the first sample; an empty trace has none,
\* so what is read then can be anything.
Init ==
  /\ samples \in Traces
  /\ pc = "Read"
  /\ live = {}
  /\ i = 0
  /\ total_hot_reads = 0
  /\ valid_hot_reads = 0
  /\ no_invalid_reads = TRUE
  /\ valid_hot_cost = FALSE
  /\ hot_cost \in IF samples = <<>> THEN Times ELSE {samples[1].access_time}
  /\ l_cpu = 0
  /\ full_costs = <<>>
  /\ source = <<>>
  /\ result = Pending

\* A call that brings array a to life, or fails and makes the function
\* return -1 after releasing what it must.
Allocate(at, a, next, released) ==
  /\ pc = at
  /\ \/ /\ pc' = next
        /\ live' = live \cup {a}
        /\ UNCHANGED result
     \/ /\ pc' = "Done"
        /\ live' = live \ released
        /\ result' = -1
  /\ UNCHANGED <<samples, i, hotvars, l_cpu, outvars>>

ReadSamples == Allocate("Read", "samples", "AllocCosts", {})
AllocCosts == Allocate("AllocCosts", "full_costs", "AllocC", {"samples"})
AllocC == Allocate("AllocC", "valid_c_samples", "AllocH", {"samples"})
AllocH == Allocate("AllocH", "valid_h_samples", "AllocP", {"samples", "valid_c_samples"})

\* Mutant of AllocP: the error path forgets one of the three arrays.
AllocPLeaks ==
  Allocate("AllocP", "valid_p_samples", "Scan", {"samples", "valid_h_samples"})

AllocP ==
  Allocate("AllocP", "valid_p_samples", "Scan",
           {"samples", "valid_h_samples", "valid_c_samples"})

-----------------------------------------------------------------------------
(* The scan: one sample per step.                                          *)

Scanning == pc = "Scan" /\ i < num_samples
Current == samples[i + 1]
AdvanceScan == i' = i + 1 /\ UNCHANGED <<samples, pc, live, result>>

Smaller(a, b) == IF a < b THEN a ELSE b

Update(valid, clean) ==
  [valid |-> valid, clean |-> clean,
   cost |-> IF valid = valid_hot_reads THEN hot_cost
            ELSE IF valid = 1 THEN Current.access_time
            ELSE Smaller(hot_cost, Current.access_time)]

\* Mutant of CountHotRead: a valid access after an invalid one counts again.
CountHotReadForgiving ==
  IF Current.access_type = "H"
  THEN Update(valid_hot_reads + 1, no_invalid_reads)
  ELSE Update(valid_hot_reads, FALSE)

\* The hot accesses of the job, up to the first invalid one.
CountHotRead ==
  IF no_invalid_reads /\ Current.access_type = "H"
  THEN Update(valid_hot_reads + 1, TRUE)
  ELSE Update(valid_hot_reads, FALSE)

\* Mutant of LastOfJob: the test is made before the access is counted.
LastOfJobLate == total_hot_reads = NUMHOTREADS

LastOfJob == total_hot_reads + 1 = NUMHOTREADS

\* Mutant of ResetFlags: an invalid access spoils all the jobs after its own.
ResetFlagsPartly ==
  /\ valid_hot_reads' = 0
  /\ total_hot_reads' = 0
  /\ no_invalid_reads' = CountHotRead.clean

ResetFlags ==
  /\ valid_hot_reads' = 0
  /\ total_hot_reads' = 0
  /\ no_invalid_reads' = TRUE

HotRead ==
  /\ Scanning
  /\ Current.access_type \in {"H", "h"}
  /\ hot_cost' = CountHotRead.cost
  /\ \/ /\ LastOfJob
        /\ valid_hot_cost' = (CountHotRead.valid > 0)
        /\ ResetFlags
     \/ /\ ~LastOfJob
        /\ total_hot_reads' = total_hot_reads + 1
        /\ valid_hot_reads' = CountHotRead.valid
        /\ no_invalid_reads' = CountHotRead.clean
        /\ UNCHANGED valid_hot_cost
  /\ l_cpu' = Current.cpu
  /\ UNCHANGED outvars
  /\ AdvanceScan

Overhead ==
  [curr_cpu |-> Current.cpu, last_cpu |-> l_cpu,
   ovd |-> Current.access_time - hot_cost, plen |-> Current.preemption_length]

ValidPreemption ==
  /\ Scanning
  /\ Current.access_type = "P"
  /\ valid_hot_cost
  /\ full_costs' = Append(full_costs, Overhead)
  /\ source' = Append(source, i + 1)
  /\ l_cpu' = Current.cpu
  /\ UNCHANGED hotvars
  /\ AdvanceScan

InvalidPreemption ==
  /\ Scanning
  /\ Current.access_type = "p" \/ (Current.access_type = "P" /\ ~valid_hot_cost)
  /\ l_cpu' = Current.cpu
  /\ UNCHANGED <<hotvars, outvars>>
  /\ AdvanceScan

ColdRead ==
  /\ Scanning
  /\ Current.access_type \in {"C", "c"}
  /\ UNCHANGED <<hotvars, outvars, l_cpu>>
  /\ AdvanceScan

\* The three arrays of the statistics and the samples are released; the
\* overheads are the caller's from now on.
Return ==
  /\ pc = "Scan"
  /\ i = num_samples
  /\ pc' = "Done"
  /\ live' = live \ {"valid_p_samples", "valid_h_samples", "valid_c_samples", "samples"}
  /\ result' = Len(full_costs)
  /\ UNCHANGED <<samples, i, hotvars, l_cpu, outvars>>

Allocation == ReadSamples \/ AllocCosts \/ AllocC \/ AllocH \/ AllocP
Scan == HotRead \/ ValidPreemption \/ InvalidPreemption \/ ColdRead

\* get_valid_ovd() has returned.
Returned == pc = "Done" /\ UNCHANGED vars

Next == Allocation \/ Scan \/ Return \/ Returned

Spec == Init /\ [][Next]_vars

-----------------------------------------------------------------------------
(* What a trace file of complete jobs looks like.                          *)

IsCold(k) == samples[k].access_type \in {"C", "c"}
IsHot(k) == samples[k].access_type \in {"H", "h"}
IsPreemption(k) == samples[k].access_type \in {"P", "p"}

\* Every cold access is followed by NUMHOTREADS hot ones on its cpu, and
\* every hot access belongs to a cold one.
WellFormed ==
  /\ \A c \in 1 .. num_samples : IsCold(c) =>
       \A h \in c + 1 .. c + NUMHOTREADS :
          h <= num_samples => IsHot(h) /\ samples[h].cpu = samples[c].cpu
  /\ \A h \in 1 .. num_samples : IsHot(h) =>
       \E c \in 1 .. num_samples : IsCold(c) /\ h \in c + 1 .. c + NUMHOTREADS

\* c is the cold access of the job sample k belongs to.
ColdOf(k, c) ==
  /\ c \in 1 .. k
  /\ IsCold(c)
  /\ \A j \in c + 1 .. k : ~IsCold(j)

\* Sample h is in the run of valid hot accesses that follows c at once.
InValidPrefix(c, h) ==
  /\ h \in c + 1 .. c + NUMHOTREADS
  /\ \A j \in c + 1 .. h : samples[j].access_type = "H"

\* A job whose first hot access is invalid has no baseline.
HasBaseline(c) == samples[c + 1].access_type = "H"

IsBaseline(c, cost) ==
  /\ \E h \in c + 1 .. c + NUMHOTREADS : InValidPrefix(c, h) /\ samples[h].access_time = cost
  /\ \A h \in c + 1 .. c + NUMHOTREADS : InValidPrefix(c, h) => cost <= samples[h].access_time

Reportable(k) ==
  /\ samples[k].access_type = "P"
  /\ \E c \in 1 .. k : ColdOf(k, c) /\ HasBaseline(c)

-----------------------------------------------------------------------------
(* Properties.                                                             *)

\* The types of the locals of get_valid_ovd, with the counters bounded by
\* the hot accesses of one job and the output by the samples consumed, for
\* which memory was allocated (lines 278-285).
TypeOK ==
  /\ samples \in Seq(Sample)
  /\ pc \in {"Read", "AllocCosts", "AllocC", "AllocH", "AllocP", "Scan", "Done"}
  /\ live \subseteq Arrays
  /\ i \in 0 .. num_samples
  /\ total_hot_reads \in 0 .. NUMHOTREADS - 1
  /\ valid_hot_reads \in 0 .. total_hot_reads
  /\ no_invalid_reads \in BOOLEAN
  /\ valid_hot_cost \in BOOLEAN
  /\ hot_cost \in Times
  /\ l_cpu \in Cpus
  /\ full_costs \in Seq(FullOvd)
  /\ source \in Seq(1 .. num_samples)
  /\ Len(full_costs) = Len(source)
  /\ Len(full_costs) <= i
  /\ result \in Nat \cup {-1, Pending}

\* "Take the minimum of all valid reads up to when the first invalid 'h'
\* read appears" (lines 337-341): every overhead is the time of a valid
\* access after a preemption less the baseline of its own job, with the cpu
\* of the access before it as the cpu the task came from.
ReportedAreRight ==
  WellFormed =>
    \A k \in 1 .. Len(source) :
      LET s == source[k] IN
      /\ Reportable(s)
      /\ full_costs[k].curr_cpu = samples[s].cpu
      /\ full_costs[k].last_cpu = samples[s - 1].cpu
      /\ full_costs[k].plen = samples[s].preemption_length
      /\ \E c \in 1 .. s :
           ColdOf(s, c) /\ IsBaseline(c, samples[s].access_time - full_costs[k].ovd)

\* Nothing valid is lost and nothing is reported twice or out of order: the
\* overheads come from exactly the valid accesses after a preemption whose
\* job has a baseline, in the order of the file (lines 374-403).
AllAreReported ==
  WellFormed =>
    /\ \A k \in 1 .. Len(source) - 1 : source[k] < source[k + 1]
    /\ \A s \in 1 .. i : Reportable(s) => \E k \in 1 .. Len(source) : source[k] = s

\* On every path out of the function only the overheads stay allocated
\* (lines 280-311 and 425-431).
NothingLeaks == pc = "Done" => live \subseteq {"full_costs"}
=============================================================================

----------------------------- MODULE PmPipeline -----------------------------
(***************************************************************************)
(* From the caches to the overheads: runs of bin/pm_task.c measure through *)
(* the caches (WorkingSets), keep what fits in the ring buffer and append  *)
(* it to one trace file (TraceFile); later get_valid_ovd() reads that file *)
(* and scans it (ValidOvd).  What each part promises is checked on its     *)
(* own; here it is checked that the overheads at the end of the chain are  *)
(* the delays that happened at its beginning.                              *)
(*                                                                         *)
(* Writes are whole here and file sizes are ints: short writes and larger  *)
(* files are TraceFile's.                                                  *)
(***************************************************************************)
EXTENDS RoughStats, WorkingSets

CONSTANTS
  DATAPOINTS,    \* capacity of data_points
  SBLOCK_SIZE,   \* data points per write
  BLOCK_MUL,     \* data points per read
  Unset,         \* content of a slot of the reader's buffer before it is filled
  Plans,         \* sequences of runs, each the job that ends it and a bound on
                 \* its switches
  MaxRuns,       \* bound on their lengths
  INT_MAX        \* the data points of the largest file whose size is an int

ASSUME PipelineAssumption ==
  /\ DATAPOINTS \in Nat \ {0} /\ SBLOCK_SIZE \in Nat \ {0} /\ BLOCK_MUL \in Nat \ {0}
  /\ REFTOTAL = NUMHOTREADS
  /\ Processors \subseteq Cpus
  /\ 0 .. SweepLength \subseteq Times
  /\ MaxRuns \in Nat /\ INT_MAX \in Nat \ {0}
  /\ \A p \in Plans : /\ Len(p) \in 0 .. MaxRuns
                      /\ \A r \in 1 .. Len(p) :
                           /\ p[r].last \in Nat /\ p[r].most \in Nat
                           /\ 1 .. p[r].most \subseteq Times

VARIABLES
  stage,         \* what is going on: "idle", "task", "save", "read", "scan"
  plan,          \* the runs to make
  saved,         \* what each run has handed to serialize_data_entry()
  taken,         \* history: how many data points each run has measured
  file, run, num, base, block, wpc, runs, torn, rpc, pos, buffer, j

filevars == <<file, run, num, base, block, wpc, runs, torn, rpc, pos, buffer, j>>
taskvars == <<mvars, memvars>>
pipevars == <<stage, plan, saved, taken, filevars, taskvars, vars>>

F == INSTANCE TraceFile WITH
       CELLS <- 1, Sizes <- 0 .. DATAPOINTS, samples <- buffer

-----------------------------------------------------------------------------
\* Either the runs of a plan are to be made, or the trace file comes from
\* elsewhere and is scanned at once.
PipelineInit ==
  /\ Init
  /\ F!Init
  /\ WorkingSetsInit
  /\ page = [job |-> 0, sched |-> 1, cpu |-> 0]
  /\ log = <<>>
  /\ owed = 0
  /\ saved = <<>>
  /\ taken = <<>>
  /\ \/ stage = "scan" /\ plan = <<>>
     \/ stage = "idle" /\ plan \in Plans /\ samples = <<>> /\ hot_cost = 0

-----------------------------------------------------------------------------
(* A run of the task.                                                      *)

StartRun ==
  /\ stage = "idle"
  /\ run < Len(plan)
  /\ stage' = "task"
  /\ page' \in FirstPages
  /\ FreshProcess
  /\ UNCHANGED <<plan, saved, taken, filevars, log, owed, vars>>

Run ==
  /\ stage = "task"
  /\ Measuring(plan[run + 1].last, plan[run + 1].most)
  /\ UNCHANGED <<stage, plan, saved, taken, filevars, vars>>

\* What the ring buffer holds in the end.  data_wrapped is set by the store
\* that fills the last slot and cleared by the next one.
DataPoints ==
  LET data_count == Len(log) % DATAPOINTS
      data_wrapped == log # <<>> /\ data_count = 0
      num_points == IF data_wrapped THEN DATAPOINTS ELSE data_count
  IN  SubSeq(log, Len(log) - num_points + 1, Len(log))

\* The loop has ended.
Save ==
  /\ stage = "task"
  /\ ~Running(plan[run + 1].last)
  /\ F!Serialize
  /\ num' = Len(DataPoints)
  /\ stage' = "save"
  /\ saved' = Append(saved, DataPoints)
  /\ taken' = Append(taken, Len(log))
  /\ page' = [job |-> 0, sched |-> 1, cpu |-> 0]
  /\ log' = <<>>
  /\ FreshProcess
  /\ UNCHANGED <<plan, owed, vars>>

Write ==
  /\ stage = "save"
  /\ F!OpenFails \/ F!OpenFile \/ F!WriteBlock \/ F!WriteRest \/ F!WriteFails \/ F!Killed
  /\ ~torn'
  /\ stage' = IF wpc' = "Idle" THEN "idle" ELSE "save"
  /\ UNCHANGED <<plan, saved, taken, taskvars, vars>>

-----------------------------------------------------------------------------
(* The analysis.                                                           *)

OpenTrace ==
  /\ stage = "idle"
  /\ run = Len(plan)
  /\ F!IntSized
  /\ F!OpenAndSize
  /\ stage' = "read"
  /\ UNCHANGED <<plan, saved, taken, taskvars, vars>>

ReadTrace ==
  /\ stage = "read"
  /\ F!ReadBlock
  /\ UNCHANGED <<stage, plan, saved, taken, taskvars, vars>>

\* The run and the place in saved[run] the k-th data point of the file is from.
RunOf(k) == buffer[k][1][1]
PlaceOf(k) == buffer[k][1][2] + 1
PointOf(k) == saved[RunOf(k)][PlaceOf(k)]

\* The switch named by both time stamps stands for its length.
AsSample(e) ==
  [access_type |-> e.access_type, access_time |-> e.access_time, cpu |-> e.cpu,
   preemption_length |-> e.preemption_length[1]]

TraceIsRead ==
  /\ stage = "read"
  /\ F!EndOfFile
  /\ samples' = [k \in 1 .. j |-> AsSample(PointOf(k))]
  /\ hot_cost' \in IF j = 0 THEN Times ELSE {samples'[1].access_time}
  /\ stage' = "scan"
  /\ UNCHANGED <<plan, saved, taken, taskvars, pc, live, i, total_hot_reads, valid_hot_reads,
                 no_invalid_reads, valid_hot_cost, l_cpu, outvars, result>>

ScanTrace ==
  /\ stage = "scan"
  /\ Next
  /\ UNCHANGED <<stage, plan, saved, taken, filevars, taskvars>>

PipelineNext ==
  \/ StartRun \/ Run \/ Save \/ Write
  \/ OpenTrace \/ ReadTrace \/ TraceIsRead \/ ScanTrace

PipelineSpec == PipelineInit /\ [][PipelineNext]_pipevars

-----------------------------------------------------------------------------
(* Properties.                                                             *)

\* The delay of the data point at p, an access after a preemption of the job
\* whose cold access is at c: the misses beyond the best of its hot accesses.
DelayAt(points, c, p) ==
  LET hot == {points[h].access_time : h \in c + 1 .. c + REFTOTAL}
      best == CHOOSE t \in hot : \A u \in hot : t <= u
  IN  [curr_cpu |-> points[p].cpu, last_cpu |-> points[p - 1].cpu,
       ovd |-> points[p].access_time - best,
       plen |-> points[p].preemption_length[1]]

LastCold(points, p) ==
  CHOOSE c \in 1 .. p : /\ points[c].access_type = "C"
                        /\ \A k \in c + 1 .. p : points[k].access_type # "C"

Scanned == stage = "scan" /\ plan # <<>> /\ pc = "Done" /\ result >= 0

\* Nothing was overwritten in a ring buffer and no run was cut short.
Complete ==
  \A r \in 1 .. Len(saved) :
    taken[r] = Len(saved[r]) /\ runs[r].outcome = "success"

\* From complete runs the analysis reports exactly the delays that happened,
\* every one, in order, across the runs of the file: each access after a
\* preemption with its cpu, the cpu before it, the length of its own switch
\* and its misses beyond the best hot access of the same row.
CompleteTracesAreExact ==
  Scanned /\ Complete =>
    LET points == FlattenSeq(saved)
        preempted == {p \in 1 .. Len(points) : points[p].access_type = "P"}
    IN  full_costs = [k \in 1 .. Cardinality(preempted) |->
                        LET p == Nth(preempted, k) IN DelayAt(points, LastCold(points, p), p)]

\* c starts a job in the file as get_valid_ovd() counts them.
Aligned(c) ==
  Cardinality({h \in 1 .. c : samples[h].access_type = "H"}) % NUMHOTREADS = 0

\* Data points c to s of the file are of one run and none is missing.
Unbroken(c, s) ==
  \A k \in c + 1 .. s : RunOf(k) = RunOf(c) /\ PlaceOf(k) = PlaceOf(c) + k - c

\* "Take the minimum of all valid reads" (pm_common.c:337): also from files
\* with overwritten and interrupted runs an overhead is the delay of its own
\* access, as long as the file holds its job from the cold access on and
\* the hot accesses before that job come in full groups.
OverheadsAreDelays ==
  Scanned =>
    \A k \in 1 .. Len(source) :
      LET s == source[k]
          colds == {c \in 1 .. s : samples[c].access_type = "C"}
      IN  colds # {} =>
            LET c == LastCold(samples, s)
            IN  Aligned(c) /\ Unbroken(c, s) =>
                  full_costs[k] = DelayAt(saved[RunOf(s)], PlaceOf(c), PlaceOf(s))
=============================================================================

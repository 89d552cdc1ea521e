------------------------------- MODULE PmTask -------------------------------
(***************************************************************************)
(* The measuring loop of bin/pm_task.c, running against the control page   *)
(* the LITMUS^RT kernel shares with it.                                    *)
(*                                                                         *)
(* The task polls the page.  When the job number has changed it measures a *)
(* cold access of a fresh working set and REFTOTAL hot ones; when only the *)
(* scheduling count or the cpu has changed it measures one access after    *)
(* the preemption or migration.  Each measurement is made with interrupts  *)
(* off (cli .. sti) and is re-validated against the page afterwards.       *)
(*                                                                         *)
(* Every read of the page is a step of its own, so the kernel can move     *)
(* between any two of them while interrupts are on.  The time stamps and   *)
(* last_rt_task of a data point are left out: no code decides on them.     *)
(***************************************************************************)
EXTENDS Integers, Sequences

CONSTANTS
  DATAPOINTS,   \* capacity of data_points
  REFTOTAL,     \* hot accesses per job
  WSCycle,      \* (CACHESIZE * 2) / WSS
  TaskPeriod,   \* param.period / NS_PER_MS
  SIMRUNTIME,   \* run time in milliseconds
  NumCpus,
  Times,        \* values an access_time can take
  CliMasks,     \* what cli() can do on the machine, see masks
  Garbage,      \* content of an array slot nothing was stored to
  MaxJob,       \* bound on the jobs the kernel releases
  MaxSched      \* bound on the times the kernel switches to the task

ASSUME SizesAssumption ==
  /\ DATAPOINTS \in Nat \ {0}
  /\ REFTOTAL \in Nat \ {0}
  /\ WSCycle \in Nat \ {0}
  /\ NumCpus \in Nat \ {0}

ASSUME RunAssumption ==
  /\ TaskPeriod \in Nat
  /\ SIMRUNTIME \in Nat
  /\ MaxJob \in Nat
  /\ MaxSched \in Nat
  /\ Times \subseteq Nat
  /\ Times # {}
  /\ CliMasks \subseteq BOOLEAN

VARIABLES
  masks,         \* does cli() keep the scheduler off this cpu until sti()
  ctrl,          \* the control page: job_count, sched_count, cpu
  cur,           \* curr_job_count, curr_sched_count, curr_cpu
  curr_ws,       \* row of mem_block in use; 0 while mem_ptr is still NULL
  plen,          \* switches whose preempt_end and preempt_start were read
  pc,            \* where the loop stands
  np,            \* TRUE between cli() and sti()
  kind,          \* which of the three measuring blocks runs
  refcount,
  access_time,
  okay,          \* verdict of the re-validation
  data_points, data_count, data_wrapped,
  file,          \* what serialize_data_entry was given
  disturbed,     \* history: did the kernel move between start_time and end_time
  history        \* history: every data point ever stored, in order

outvars == <<masks, data_points, data_count, data_wrapped, file, history>>
taskvars == <<cur, curr_ws, plen, np, kind, refcount, access_time, okay, outvars>>
vars == <<ctrl, pc, disturbed, taskvars>>

-----------------------------------------------------------------------------
Cpus == 0 .. NumCpus - 1
Kinds == {"C", "H", "P"}
Fishy == [k \in Kinds |-> CASE k = "C" -> "c" [] k = "H" -> "h" [] k = "P" -> "p"]
Types == Kinds \cup {"c", "h", "p"}
Page == [job : Nat, sched : Nat, cpu : Cpus]

\* One data point.  preemption_length is the difference of two time stamps
\* of the page; the model keeps the numbers of the switches they belong to.
Entry == [access_type : Types, access_time : Times, cpu : Cpus,
          job_count : Nat, sched_count : Nat, preemption_length : Nat \X Nat]
NoLength == <<0, 0>>

\* C expands job % NUMWS, with NUMWS an unparenthesised sum, to this: the
\* first two of the rows to cycle through are never used.
WorkingSet(job) == (job % WSCycle) + 2

Init ==
  /\ masks \in CliMasks
  /\ ctrl \in [job : {0, 1}, sched : {1}, cpu : Cpus]
  /\ cur = [job |-> 0, sched |-> 0, cpu |-> 0]
  /\ curr_ws = 0
  /\ plen = NoLength
  /\ pc = "Test"
  /\ np = FALSE
  /\ kind = "C"
  /\ refcount = 0
  /\ access_time \in Times
  /\ okay = FALSE
  /\ data_points = [i \in 0 .. DATAPOINTS - 1 |-> Garbage]
  /\ data_count = 0
  /\ data_wrapped = FALSE
  /\ file = <<>>
  /\ disturbed = FALSE
  /\ history = <<>>

-----------------------------------------------------------------------------
(* The kernel.  It acts on the task only where interrupts are on.          *)

Interruptible == pc \notin {"Save", "Done"} /\ ~(np /\ masks)

KernelWrites(page) ==
  /\ Interruptible
  /\ ctrl' = page
  /\ disturbed' = (disturbed \/ pc = "Measure")
  /\ UNCHANGED <<pc, taskvars>>

\* The task is preempted and later resumed, on the same or another cpu.
Switch ==
  /\ ctrl.sched < MaxSched
  /\ \E c \in Cpus : KernelWrites([ctrl EXCEPT !.sched = @ + 1, !.cpu = c])

\* The job's budget is exhausted and the next job starts, after a switch or
\* without one.
NextJob ==
  /\ ctrl.job < MaxJob
  /\ \/ KernelWrites([ctrl EXCEPT !.job = @ + 1])
     \/ /\ ctrl.sched < MaxSched
        /\ \E c \in Cpus :
             KernelWrites([job |-> ctrl.job + 1, sched |-> ctrl.sched + 1, cpu |-> c])

-----------------------------------------------------------------------------
(* The polling loop.                                                       *)

Goto(from, to) == pc = from /\ pc' = to

InRunTime == cur.job * TaskPeriod < SIMRUNTIME

LeaveLoop ==
  /\ ~InRunTime
  /\ Goto("Test", "Save")
  /\ UNCHANGED <<ctrl, disturbed, taskvars>>

SeeNewJob ==
  /\ InRunTime
  /\ cur.job # ctrl.job
  /\ Goto("Test", "NewCli")
  /\ UNCHANGED <<ctrl, disturbed, taskvars>>

SeeSameJob ==
  /\ InRunTime
  /\ cur.job = ctrl.job
  /\ Goto("Test", IF curr_ws = 0 THEN "Test" ELSE "TestSched")
  /\ UNCHANGED <<ctrl, disturbed, taskvars>>

TestSched ==
  /\ Goto("TestSched", IF cur.sched # ctrl.sched THEN "PreCli" ELSE "TestCpu")
  /\ UNCHANGED <<ctrl, disturbed, taskvars>>

\* When nothing has changed the task touches its working set to keep the
\* cache warm, which changes nothing the model keeps.
TestCpu ==
  /\ Goto("TestCpu", IF cur.cpu # ctrl.cpu THEN "PreCli" ELSE "Test")
  /\ UNCHANGED <<ctrl, disturbed, taskvars>>

-----------------------------------------------------------------------------
(* Taking a snapshot of the page.                                          *)

EnterSection(np_next, block) ==
  /\ np' = np_next
  /\ kind' = block
  /\ UNCHANGED <<ctrl, disturbed, cur, curr_ws, plen, refcount, access_time, okay, outvars>>

\* Mutant of CliNew: the block of a new job runs without cli().
CliNewMissing == Goto("NewCli", "ReadJob") /\ EnterSection(FALSE, "C")

CliNew == Goto("NewCli", "ReadJob") /\ EnterSection(TRUE, "C")

\* Mutant of CliPreempted: the block after a preemption runs without cli().
CliPreemptedMissing == Goto("PreCli", "ReadEnd") /\ EnterSection(FALSE, "P")

CliPreempted == Goto("PreCli", "ReadEnd") /\ EnterSection(TRUE, "P")

ReadPreemptEnd ==
  /\ Goto("ReadEnd", "ReadStart")
  /\ plen' = [plen EXCEPT ![1] = ctrl.sched]
  /\ UNCHANGED <<ctrl, disturbed, cur, curr_ws, np, kind, refcount, access_time, okay, outvars>>

ReadPreemptStart ==
  /\ Goto("ReadStart", "ReadJob")
  /\ plen' = [plen EXCEPT ![2] = ctrl.sched]
  /\ UNCHANGED <<ctrl, disturbed, cur, curr_ws, np, kind, refcount, access_time, okay, outvars>>

Snapshot(next) ==
  /\ cur' = next
  /\ UNCHANGED <<ctrl, disturbed, plen, np, kind, refcount, access_time, okay, outvars>>

ReadJobCount ==
  /\ Goto("ReadJob", "ReadSched")
  /\ Snapshot([cur EXCEPT !.job = ctrl.job])
  /\ UNCHANGED curr_ws

\* Mutant of ReadSchedCount: only a new job refreshes curr_sched_count.
ReadSchedCountOnce ==
  /\ Goto("ReadSched", "ReadCpu")
  /\ Snapshot([cur EXCEPT !.sched = IF kind = "C" THEN ctrl.sched ELSE @])
  /\ UNCHANGED curr_ws

ReadSchedCount ==
  /\ Goto("ReadSched", "ReadCpu")
  /\ Snapshot([cur EXCEPT !.sched = ctrl.sched])
  /\ UNCHANGED curr_ws

\* The last read of the snapshot; only a new job moves to another row.
ReadCpu ==
  /\ Goto("ReadCpu", "Start")
  /\ Snapshot([cur EXCEPT !.cpu = ctrl.cpu])
  /\ curr_ws' = IF kind = "C" THEN WorkingSet(cur.job) ELSE curr_ws

-----------------------------------------------------------------------------
(* One timed access of the working set and its re-validation: the same     *)
(* code for the cold, the hot and the after-preemption access.             *)

StartTime ==
  /\ Goto("Start", "Measure")
  /\ disturbed' = FALSE
  /\ UNCHANGED <<ctrl, taskvars>>

EndTime ==
  /\ Goto("Measure", "CheckJob")
  /\ access_time' \in Times
  /\ UNCHANGED <<ctrl, disturbed, cur, curr_ws, plen, np, kind, refcount, okay, outvars>>

\* The after-preemption block leaves the section before it stores.
AfterCheck == IF kind = "P" THEN "Sti" ELSE "Store"

Validate(at, same, next) ==
  /\ Goto(at, IF same THEN next ELSE AfterCheck)
  /\ okay' = same
  /\ UNCHANGED <<ctrl, disturbed, cur, curr_ws, plen, np, kind, refcount, access_time, outvars>>

CheckJobCount == Validate("CheckJob", cur.job = ctrl.job, "CheckSched")

\* Mutant of CheckSchedCount: the scheduling count is not compared.
CheckSchedCountSkipped == Validate("CheckSched", TRUE, "CheckCpu")

CheckSchedCount == Validate("CheckSched", cur.sched = ctrl.sched, "CheckCpu")
CheckCpu == Validate("CheckCpu", cur.cpu = ctrl.cpu, AfterCheck)

\* Mutant of NewEntry: the count is taken from the page instead of the copy.
NewEntryFromPage ==
  [access_type |-> IF okay THEN kind ELSE Fishy[kind],
   access_time |-> access_time,
   cpu |-> cur.cpu, job_count |-> cur.job, sched_count |-> ctrl.sched,
   preemption_length |-> IF kind = "P" THEN plen ELSE NoLength]

NewEntry ==
  [access_type |-> IF okay THEN kind ELSE Fishy[kind],
   access_time |-> access_time,
   cpu |-> cur.cpu, job_count |-> cur.job, sched_count |-> cur.sched,
   preemption_length |-> IF kind = "P" THEN plen ELSE NoLength]

\* Mutant of NextSlot: the index is not wrapped.
NextSlotUnwrapped(count) == count + 1

NextSlot(count) == (count + 1) % DATAPOINTS

\* Mutant of Wraps: once set, the flag stays set.
WrapsSticky(count) == data_wrapped \/ (count + 1) \div DATAPOINTS > 0

Wraps(count) == (count + 1) \div DATAPOINTS > 0

StoreEntry ==
  /\ data_points' = [data_points EXCEPT ![data_count] = NewEntry]
  /\ data_wrapped' = Wraps(data_count)
  /\ data_count' = NextSlot(data_count)
  /\ history' = Append(history, [entry |-> NewEntry, ws |-> curr_ws,
                                 disturbed |-> disturbed])
  /\ UNCHANGED <<ctrl, disturbed, cur, curr_ws, plen, np, access_time, okay, masks, file>>

StoreCold ==
  /\ kind = "C"
  /\ Goto("Store", "Start")
  /\ kind' = "H"
  /\ refcount' = 0
  /\ StoreEntry

\* Mutant of StoreHot: one hot access too many.
StoreHotExtra ==
  /\ kind = "H"
  /\ Goto("Store", IF refcount + 1 <= REFTOTAL THEN "Start" ELSE "Sti")
  /\ refcount' = refcount + 1
  /\ UNCHANGED kind
  /\ StoreEntry

StoreHot ==
  /\ kind = "H"
  /\ Goto("Store", IF refcount + 1 < REFTOTAL THEN "Start" ELSE "Sti")
  /\ refcount' = refcount + 1
  /\ UNCHANGED kind
  /\ StoreEntry

StorePreempted ==
  /\ kind = "P"
  /\ Goto("Store", "Test")
  /\ UNCHANGED <<kind, refcount>>
  /\ StoreEntry

LeaveSection(np_next) ==
  /\ np' = np_next
  /\ UNCHANGED <<ctrl, disturbed, cur, curr_ws, plen, kind, refcount, access_time, okay, outvars>>

\* Mutant of Sti: the block of a new job never turns interrupts back on.
StiMissing ==
  /\ Goto("Sti", IF kind = "P" THEN "Store" ELSE "Test")
  /\ LeaveSection(kind # "P")

Sti ==
  /\ Goto("Sti", IF kind = "P" THEN "Store" ELSE "Test")
  /\ LeaveSection(FALSE)

\* serialize_data_entry(filename, data_points, data_wrapped ? DATAPOINTS : data_count)
Save ==
  /\ Goto("Save", "Done")
  /\ LET num == IF data_wrapped THEN DATAPOINTS ELSE data_count
     IN  file' = [i \in 1 .. num |-> data_points[i - 1]]
  /\ UNCHANGED <<ctrl, disturbed, cur, curr_ws, plen, np, kind, refcount, access_time,
                 okay, masks, data_points, data_count, data_wrapped, history>>

-----------------------------------------------------------------------------
Kernel == Switch \/ NextJob

Poll == LeaveLoop \/ SeeNewJob \/ SeeSameJob \/ TestSched \/ TestCpu
Read == CliNew \/ CliPreempted \/ ReadPreemptEnd \/ ReadPreemptStart
        \/ ReadJobCount \/ ReadSchedCount \/ ReadCpu
Time == StartTime \/ EndTime
Check == CheckJobCount \/ CheckSchedCount \/ CheckCpu
Record == StoreCold \/ StoreHot \/ StorePreempted \/ Sti \/ Save

Task == Poll \/ Read \/ Time \/ Check \/ Record

\* main() has returned.
Terminated == pc = "Done" /\ UNCHANGED vars

Next == Kernel \/ Task \/ Terminated

Spec == Init /\ [][Next]_vars

\* The task gets the cpu again after every switch, and a job that only spins
\* exhausts its budget.
FairSpec == Spec /\ WF_vars(Task) /\ WF_vars(NextJob)

-----------------------------------------------------------------------------
(* Properties.                                                             *)

Locations == {"Test", "TestSched", "TestCpu", "NewCli", "PreCli", "ReadEnd",
              "ReadStart", "ReadJob", "ReadSched", "ReadCpu", "Start", "Measure",
              "CheckJob", "CheckSched", "CheckCpu", "Store", "Sti", "Save", "Done"}

Recorded == [entry : Entry, ws : Nat, disturbed : BOOLEAN]

\* The types of main()'s locals, of the control page and of the histories;
\* in particular data_count always indexes a slot of data_points.
TypeOK ==
  /\ masks \in CliMasks
  /\ ctrl \in Page
  /\ cur \in Page
  /\ curr_ws \in Nat
  /\ plen \in Nat \X Nat
  /\ pc \in Locations
  /\ np \in BOOLEAN
  /\ kind \in Kinds
  /\ refcount \in 0 .. REFTOTAL
  /\ access_time \in Times
  /\ okay \in BOOLEAN
  /\ data_points \in [0 .. DATAPOINTS - 1 -> Entry \cup {Garbage}]
  /\ data_count \in 0 .. DATAPOINTS - 1
  /\ data_wrapped \in BOOLEAN
  /\ file \in Seq(Entry \cup {Garbage})
  /\ disturbed \in BOOLEAN
  /\ history \in Seq(Recorded)

\* With cli() effective, no data point is ever marked fishy and none was
\* disturbed: the section is entered before the snapshot is taken and left
\* only after the re-validation (lines 124-219 and 228-263).
SectionsAreClean ==
  masks => \A k \in 1 .. Len(history) :
              /\ history[k].entry.access_type \in Kinds
              /\ ~history[k].disturbed

\* Whether or not cli() is effective, a data point marked okay was not
\* disturbed: comparing the page with the snapshot after end_time catches
\* every move of the kernel between the two time stamps.
OkayMeansUndisturbed ==
  \A k \in 1 .. Len(history) :
     history[k].entry.access_type \in Kinds => ~history[k].disturbed

\* With cli() effective, the length stored with a preemption is that of the
\* switch its sched_count names: both time stamps and the count are read in
\* one section.
LengthOfOwnSwitch ==
  masks => \A k \in 1 .. Len(history) :
              LET e == history[k].entry
              IN  e.access_type \in {"P", "p"} =>
                    e.preemption_length = <<e.sched_count, e.sched_count>>

IsCold(e) == e.access_type \in {"C", "c"}
IsHot(e) == e.access_type \in {"H", "h"}
IsPreemption(e) == e.access_type \in {"P", "p"}

\* The shape get_valid_ovd relies on: every cold access is followed by
\* exactly REFTOTAL hot ones of the same snapshot and working set, and no
\* hot access stands anywhere else.
ColdThenHot ==
  \A k \in 1 .. Len(history) :
    /\ IsCold(history[k].entry) =>
         \A i \in 1 .. REFTOTAL : k + i <= Len(history) =>
            /\ IsHot(history[k + i].entry)
            /\ history[k + i].ws = history[k].ws
            /\ \A f \in {"job_count", "sched_count", "cpu"} :
                 history[k + i].entry[f] = history[k].entry[f]
    /\ IsHot(history[k].entry) =>
         \E i \in 1 .. REFTOTAL : k - i >= 1 /\ IsCold(history[k - i].entry)

\* Consecutive data points never go back in time, a cold one belongs to a
\* later job than everything before it, and one marked as a preemption to a
\* later switch.
HistoryAdvances ==
  \A k \in 1 .. Len(history) - 1 :
    LET e == history[k].entry
        f == history[k + 1].entry
    IN  /\ e.job_count <= f.job_count
        /\ e.sched_count <= f.sched_count
        /\ IsCold(f) => e.job_count < f.job_count
        /\ IsPreemption(f) => e.sched_count < f.sched_count

\* What is saved is a contiguous run of the most recent data points, in the
\* order they were taken, whatever the ring buffer did meanwhile.
SavedIsRecent ==
  pc = "Done" =>
    /\ Len(file) <= Len(history)
    /\ \A i \in 1 .. Len(file) :
         file[i] = history[Len(history) - Len(file) + i].entry

\* "Print (most recent) results" (pm_task.c:301), from a buffer holding the
\* "number of measurements that can be stored per single pm_task"
\* (pm_common.h:46): once it has wrapped, a full buffer is saved.
SavesFullBuffer ==
  pc = "Done" /\ Len(history) >= DATAPOINTS => Len(file) = DATAPOINTS

\* "job is the same => preempted / migrated" (pm_task.c:230): a data point
\* marked as a preemption belongs to the job of the data point before it.
PreemptionKeepsJob ==
  \A k \in 2 .. Len(history) :
    IsPreemption(history[k].entry) =>
      history[k].entry.job_count = history[k - 1].entry.job_count

\* An access after a preemption is in force from its last comparison on,
\* before it is stored; the others when they are stored.
Observed ==
  [k \in 1 .. Len(history) |-> history[k].entry]
  \o (IF kind = "P" /\ pc \in {"Sti", "Store"} THEN <<NewEntry>> ELSE <<>>)

M == INSTANCE Measurement WITH
       Processors <- Cpus, AccessTimes <- Times, page <- ctrl, log <- Observed,
       owed <- IF kind = "H" THEN REFTOTAL - refcount ELSE 0

\* With cli() effective every data point is an atomic observation of the
\* page: the section's many reads act as one (lines 124-219 and 228-263).
ImplementsMeasurement ==
  /\ masks => M!MeasurementInit
  /\ [][masks => M!MeasurementNext]_(M!mvars)

\* The measuring loop ends and saves its data points once the jobs released
\* cover SIMRUNTIME.
Terminates == <>(pc = "Done")
=============================================================================

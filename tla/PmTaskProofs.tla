---------------------------- MODULE PmTaskProofs ----------------------------
(***************************************************************************)
(* Proofs about the measuring loop of bin/pm_task.c, for every buffer      *)
(* size, number of hot accesses, number of cpus, period and run time: what *)
(* it stores is right, it keeps each job's cold and hot accesses together, *)
(* and with cli() effective it implements the specification Measurement.   *)
(***************************************************************************)
EXTENDS PmTask, SequenceTheorems, TLAPS

-----------------------------------------------------------------------------
(* The ring buffer's index arithmetic (lines 171-172, 210-212, 275-276).   *)

LEMMA SlotArithmetic ==
  ASSUME NEW count \in 0 .. DATAPOINTS - 1
  PROVE  /\ NextSlot(count) = IF count = DATAPOINTS - 1 THEN 0 ELSE count + 1
         /\ NextSlot(count) \in 0 .. DATAPOINTS - 1
         /\ Wraps(count) <=> (count = DATAPOINTS - 1)
  BY SizesAssumption DEF NextSlot, Wraps

\* What a data point is built from has the types of struct data_entry.
LEMMA EntryType ==
  ASSUME TypeOK
  PROVE  NewEntry \in Entry
  <1>1. (IF okay THEN kind ELSE Fishy[kind]) \in Types
    BY DEF TypeOK, Types, Fishy, Kinds
  <1>2. (IF kind = "P" THEN plen ELSE NoLength) \in Nat \X Nat
    BY DEF TypeOK, NoLength
  <1>3. access_time \in Times /\ cur.cpu \in Cpus /\ cur.job \in Nat /\ cur.sched \in Nat
    BY DEF TypeOK, Page
  <1> QED
    BY <1>1, <1>2, <1>3 DEF NewEntry, Entry

\* Cutting the buffer to a prefix gives a sequence of slots.
LEMMA PrefixOfBuffer ==
  ASSUME NEW num \in 0 .. DATAPOINTS, NEW S,
         data_points \in [0 .. DATAPOINTS - 1 -> S]
  PROVE  [i \in 1 .. num |-> data_points[i - 1]] \in Seq(S)
  <1>1. num \in Nat
    BY SizesAssumption
  <1>2. [i \in 1 .. num |-> data_points[i - 1]] \in [1 .. num -> S]
    BY SizesAssumption
  <1> QED
    BY <1>1, <1>2, SeqDef

-----------------------------------------------------------------------------
(* Type correctness.  The number of hot accesses made so far is bounded    *)
(* only by the place where the loop stands.                                *)

Reading == {"ReadEnd", "ReadStart", "ReadJob", "ReadSched", "ReadCpu"}
Measuring == {"Start", "Measure", "CheckJob", "CheckSched", "CheckCpu"}

HotBound ==
  /\ pc \in Reading => kind # "H"
  /\ pc \in Measuring \cup {"Store"} /\ kind = "H" => refcount < REFTOTAL

TypeInv == TypeOK /\ HotBound

LEMMA TypeInit == Init => TypeInv
  <1> SUFFICES ASSUME Init PROVE TypeInv
    OBVIOUS
  <1>1. ctrl \in Page /\ cur \in Page
    BY SizesAssumption DEF Init, Page, Cpus
  <1>2. data_points \in [0 .. DATAPOINTS - 1 -> Entry \cup {Garbage}]
    BY DEF Init
  <1>3. data_count \in 0 .. DATAPOINTS - 1 /\ refcount \in 0 .. REFTOTAL
    BY SizesAssumption DEF Init
  <1>4. file \in Seq(Entry \cup {Garbage}) /\ history \in Seq(Recorded)
    BY EmptySeq DEF Init
  <1>5. HotBound
    BY DEF Init, HotBound, Reading, Measuring
  <1> QED
    BY <1>1, <1>2, <1>3, <1>4, <1>5
    DEF Init, TypeInv, TypeOK, Locations, Kinds, NoLength

\* What cli() does never changes.
LEMMA MasksStay ==
  ASSUME [Next]_vars
  PROVE  masks' = masks
  <1> USE DEF outvars, taskvars
  <1>1. CASE Kernel
    BY <1>1 DEF Kernel, Switch, NextJob, KernelWrites
  <1>2. CASE Poll
    BY <1>2 DEF Poll, LeaveLoop, SeeNewJob, SeeSameJob, TestSched, TestCpu
  <1>3. CASE Read
    BY <1>3 DEF Read, CliNew, CliPreempted, EnterSection, ReadPreemptEnd, ReadPreemptStart,
                ReadJobCount, ReadSchedCount, ReadCpu, Snapshot
  <1>4. CASE Time
    BY <1>4 DEF Time, StartTime, EndTime
  <1>5. CASE Check
    BY <1>5 DEF Check, CheckJobCount, CheckSchedCount, CheckCpu, Validate
  <1>6. CASE Record
    BY <1>6 DEF Record, StoreCold, StoreHot, StorePreempted, StoreEntry, Sti, LeaveSection, Save
  <1>7. CASE UNCHANGED vars
    BY <1>7 DEF vars
  <1> QED
    BY <1>1, <1>2, <1>3, <1>4, <1>5, <1>6, <1>7 DEF Next, Task, Terminated

\* One step of storing a data point, whichever block takes it.
LEMMA StoreType ==
  ASSUME TypeInv, StoreEntry
  PROVE  /\ masks' \in CliMasks
         /\ ctrl' \in Page /\ cur' \in Page /\ curr_ws' \in Nat
         /\ plen' \in Nat \X Nat /\ np' \in BOOLEAN
         /\ access_time' \in Times /\ okay' \in BOOLEAN
         /\ data_points' \in [0 .. DATAPOINTS - 1 -> Entry \cup {Garbage}]
         /\ data_count' \in 0 .. DATAPOINTS - 1
         /\ data_wrapped' \in BOOLEAN
         /\ file' \in Seq(Entry \cup {Garbage})
         /\ disturbed' \in BOOLEAN
         /\ history' \in Seq(Recorded)
  <1>1. NewEntry \in Entry
    BY EntryType DEF TypeInv
  <1>2. data_count' \in 0 .. DATAPOINTS - 1
    BY SlotArithmetic DEF StoreEntry, TypeInv, TypeOK
  <1>3. data_wrapped' \in BOOLEAN
    BY DEF StoreEntry, Wraps
  <1>4. data_points' \in [0 .. DATAPOINTS - 1 -> Entry \cup {Garbage}]
    BY <1>1 DEF StoreEntry, TypeInv, TypeOK
  <1>5. [entry |-> NewEntry, ws |-> curr_ws, disturbed |-> disturbed] \in Recorded
    BY <1>1 DEF TypeInv, TypeOK, Recorded
  <1>6. history' \in Seq(Recorded)
    BY <1>5 DEF StoreEntry, TypeInv, TypeOK
  <1> QED
    BY <1>2, <1>3, <1>4, <1>6 DEF StoreEntry, TypeInv, TypeOK

\* The three ways the kernel rewrites the page.
LEMMA PageUpdates ==
  ASSUME NEW p \in Page, NEW c \in Cpus, NEW q,
         \/ q = [p EXCEPT !.sched = @ + 1, !.cpu = c]
         \/ q = [p EXCEPT !.job = @ + 1]
         \/ q = [job |-> p.job + 1, sched |-> p.sched + 1, cpu |-> c]
  PROVE  /\ q \in Page
         /\ p.job <= q.job /\ p.sched <= q.sched
         /\ p.job < q.job \/ p.sched < q.sched
         /\ q.cpu # p.cpu => p.sched < q.sched
  <1>1. CASE q = [p EXCEPT !.sched = @ + 1, !.cpu = c]
    <2>1. q = [job |-> p.job, sched |-> p.sched + 1, cpu |-> c]
      BY <1>1 DEF Page
    <2> QED
      BY <2>1 DEF Page
  <1>2. CASE q = [p EXCEPT !.job = @ + 1]
    <2>1. q = [job |-> p.job + 1, sched |-> p.sched, cpu |-> p.cpu]
      BY <1>2 DEF Page
    <2> QED
      BY <2>1 DEF Page
  <1>3. CASE q = [job |-> p.job + 1, sched |-> p.sched + 1, cpu |-> c]
    BY <1>3 DEF Page
  <1> QED
    BY <1>1, <1>2, <1>3

\* Every move of the kernel advances the page: the job number or the
\* scheduling count grows and neither shrinks; a new cpu means a new switch.
LEMMA KernelMove ==
  ASSUME TypeOK, Kernel
  PROVE  /\ ctrl' \in Page
         /\ ctrl.job <= ctrl'.job /\ ctrl.sched <= ctrl'.sched
         /\ ctrl.job < ctrl'.job \/ ctrl.sched < ctrl'.sched
         /\ ctrl'.cpu # ctrl.cpu => ctrl.sched < ctrl'.sched
         /\ Interruptible
         /\ disturbed' = (disturbed \/ pc = "Measure")
         /\ UNCHANGED <<pc, taskvars>>
  <1>1. ctrl \in Page /\ ctrl.cpu \in Cpus
    BY DEF TypeOK, Page
  <1>2. PICK c \in Cpus :
          \/ KernelWrites([ctrl EXCEPT !.sched = @ + 1, !.cpu = c])
          \/ KernelWrites([ctrl EXCEPT !.job = @ + 1])
          \/ KernelWrites([job |-> ctrl.job + 1, sched |-> ctrl.sched + 1, cpu |-> c])
    BY <1>1 DEF Kernel, Switch, NextJob
  <1>3. /\ \/ ctrl' = [ctrl EXCEPT !.sched = @ + 1, !.cpu = c]
           \/ ctrl' = [ctrl EXCEPT !.job = @ + 1]
           \/ ctrl' = [job |-> ctrl.job + 1, sched |-> ctrl.sched + 1, cpu |-> c]
        /\ Interruptible
        /\ disturbed' = (disturbed \/ pc = "Measure")
        /\ UNCHANGED <<pc, taskvars>>
    BY <1>2 DEF KernelWrites
  <1> QED
    BY <1>1, <1>3, PageUpdates

LEMMA TypeStep == TypeInv /\ [Next]_vars => TypeInv'
  <1> SUFFICES ASSUME TypeInv, [Next]_vars PROVE TypeInv'
    OBVIOUS
  <1> USE DEF TypeInv, TypeOK, HotBound, Goto, Locations, Reading, Measuring, Kinds,
              outvars, taskvars
  <1>1. CASE Kernel
    <2>1. ctrl' \in Page /\ disturbed' \in BOOLEAN /\ UNCHANGED <<pc, taskvars>>
      BY <1>1, KernelMove
    <2> QED
      BY <2>1
  <1>3. CASE LeaveLoop \/ SeeNewJob \/ SeeSameJob \/ TestSched \/ TestCpu
    BY <1>3 DEF LeaveLoop, SeeNewJob, SeeSameJob, TestSched, TestCpu
  <1>4. CASE CliNew \/ CliPreempted
    BY <1>4 DEF CliNew, CliPreempted, EnterSection
  <1>5. CASE ReadPreemptEnd \/ ReadPreemptStart
    BY <1>5 DEF ReadPreemptEnd, ReadPreemptStart, Page
  <1>6. CASE ReadJobCount \/ ReadSchedCount
    BY <1>6 DEF ReadJobCount, ReadSchedCount, Snapshot, Page
  <1>7. CASE ReadCpu
    <2>1. WorkingSet(cur.job) \in Nat
      BY SizesAssumption DEF WorkingSet, Page
    <2> QED
      BY <1>7, <2>1 DEF ReadCpu, Snapshot, Page
  <1>8. CASE StartTime \/ EndTime
    BY <1>8 DEF StartTime, EndTime
  <1>9. CASE CheckJobCount \/ CheckSchedCount \/ CheckCpu
    BY <1>9 DEF CheckJobCount, CheckSchedCount, CheckCpu, Validate, AfterCheck
  <1>10. CASE StoreCold
    <2>1. refcount' \in 0 .. REFTOTAL /\ refcount' < REFTOTAL
      BY <1>10, SizesAssumption DEF StoreCold
    <2> QED
      BY <1>10, <2>1, StoreType DEF StoreCold
  <1>11. CASE StoreHot
    <2>1. refcount' \in 0 .. REFTOTAL /\ (pc' = "Start" => refcount' < REFTOTAL)
      BY <1>11, SizesAssumption DEF StoreHot
    <2> QED
      BY <1>11, <2>1, StoreType DEF StoreHot
  <1>12. CASE StorePreempted
    BY <1>12, StoreType DEF StorePreempted
  <1>13. CASE Sti
    BY <1>13 DEF Sti, LeaveSection
  <1>14. CASE Save
    <2>1. (IF data_wrapped THEN DATAPOINTS ELSE data_count) \in 0 .. DATAPOINTS
      BY SizesAssumption
    <2>2. file' \in Seq(Entry \cup {Garbage})
      BY <1>14, <2>1, PrefixOfBuffer DEF Save
    <2> QED
      BY <1>14, <2>2 DEF Save
  <1>15. CASE UNCHANGED vars
    BY <1>15 DEF vars
  <1> QED
    BY <1>1, <1>3, <1>4, <1>5, <1>6, <1>7, <1>8, <1>9, <1>10, <1>11, <1>12,
       <1>13, <1>14, <1>15
    DEF Next, Task, Poll, Read, Time, Check, Record, Terminated

\* main()'s locals keep their types on every run, and data_count always
\* indexes a slot of data_points (lines 50-54, 171-172, 210-212, 275-276).
THEOREM TypeCorrect == Spec => []TypeOK
  <1>1. TypeInv => TypeOK
    BY DEF TypeInv
  <1> QED
    BY TypeInit, TypeStep, <1>1, PTL DEF Spec

LEMMA TypeAlways == Spec => []TypeInv
  BY TypeInit, TypeStep, PTL DEF Spec

-----------------------------------------------------------------------------
(* The history changes only where a data point is stored.                  *)

StoringStep ==
  /\ StoreCold \/ StoreHot \/ StorePreempted
  /\ pc = "Store" /\ StoreEntry /\ kind \in Kinds

LEMMA HistoryStep ==
  ASSUME TypeInv, [Next]_vars
  PROVE  UNCHANGED history \/ StoringStep
  <1> USE DEF outvars, taskvars
  <1>1. CASE Kernel
    BY <1>1, KernelMove DEF TypeInv
  <1>2. CASE Poll
    BY <1>2 DEF Poll, LeaveLoop, SeeNewJob, SeeSameJob, TestSched, TestCpu
  <1>3. CASE Read
    BY <1>3 DEF Read, CliNew, CliPreempted, EnterSection, ReadPreemptEnd, ReadPreemptStart,
                ReadJobCount, ReadSchedCount, ReadCpu, Snapshot
  <1>4. CASE Time
    BY <1>4 DEF Time, StartTime, EndTime
  <1>5. CASE Check
    BY <1>5 DEF Check, CheckJobCount, CheckSchedCount, CheckCpu, Validate
  <1>6. CASE Record
    BY <1>6 DEF Record, StoreCold, StoreHot, StorePreempted, Sti, LeaveSection, Save, Goto,
                StoringStep, Kinds
  <1>7. CASE UNCHANGED vars
    BY <1>7 DEF vars
  <1> QED
    BY <1>1, <1>2, <1>3, <1>4, <1>5, <1>6, <1>7 DEF Next, Task, Terminated

\* What a storing step leaves of the history, and what it adds.
LEMMA HistoryGrows ==
  ASSUME TypeInv, StoreEntry
  PROVE  /\ Len(history) \in Nat
         /\ Len(history') = Len(history) + 1
         /\ \A k \in 1 .. Len(history) : history'[k] = history[k]
         /\ history'[Len(history) + 1]
              = [entry |-> NewEntry, ws |-> curr_ws, disturbed |-> disturbed]
  BY DEF StoreEntry, TypeInv, TypeOK

-----------------------------------------------------------------------------
(* With cli() effective.  Inside a section the page does not move, so from *)
(* the read of a field on the copy agrees with the page.                   *)

Section(locations) == pc \in locations \/ (pc = "Store" /\ kind # "P")
Snapped == Measuring \cup {"ReadCpu"}

\* A data point is about to be stored, or only sti() stands before it.
Finished == pc = "Store" \/ (pc = "Sti" /\ kind = "P")

MaskedInv ==
  /\ Section(Reading \cup Measuring \cup {"Sti"}) => np
  /\ Section(Snapped \cup {"ReadSched"}) => cur.job = ctrl.job
  /\ Section(Snapped) => cur.sched = ctrl.sched
  /\ Section(Measuring) => cur.cpu = ctrl.cpu
  /\ pc \in Measuring \ {"Start"} \/ Finished => ~disturbed
  /\ Finished => okay

\* The same for the two time stamps of the last switch.
LengthInv ==
  /\ pc = "ReadStart" => plen[1] = ctrl.sched
  /\ pc \in {"ReadJob", "ReadSched"} /\ kind = "P" => plen = <<ctrl.sched, ctrl.sched>>
  /\ (pc \in Snapped \/ Finished) /\ kind = "P" => plen = <<cur.sched, cur.sched>>
  /\ pc \in {"ReadEnd", "ReadStart"} => kind = "P"

CleanInv == masks => MaskedInv /\ LengthInv

LEMMA CleanInit == Init => CleanInv
  BY DEF Init, CleanInv, MaskedInv, LengthInv, Section, Snapped, Finished, Reading, Measuring

LEMMA CleanStep == TypeInv /\ CleanInv /\ [Next]_vars => CleanInv'
  <1> SUFFICES ASSUME TypeInv, CleanInv, [Next]_vars, masks PROVE (MaskedInv /\ LengthInv)'
    BY MasksStay DEF CleanInv
  <1> USE DEF CleanInv, MaskedInv, LengthInv, Section, Snapped, Finished, Reading, Measuring,
              Goto, outvars, taskvars
  <1>1. CASE Kernel
    <2>1. /\ pc \notin {"Save", "Done"} /\ ~np
          /\ disturbed' = (disturbed \/ pc = "Measure")
          /\ UNCHANGED <<pc, taskvars>>
      BY <1>1, KernelMove DEF TypeInv, Interruptible
    <2> QED
      BY <2>1
  <1>2. CASE LeaveLoop \/ SeeNewJob \/ SeeSameJob \/ TestSched \/ TestCpu
    BY <1>2 DEF LeaveLoop, SeeNewJob, SeeSameJob, TestSched, TestCpu
  <1>3. CASE CliNew \/ CliPreempted
    BY <1>3 DEF CliNew, CliPreempted, EnterSection
  <1>4. CASE ReadPreemptEnd \/ ReadPreemptStart
    <2>1. plen = <<plen[1], plen[2]>>
      BY DEF TypeInv, TypeOK
    <2>2. CASE ReadPreemptEnd
      BY <2>1, <2>2 DEF ReadPreemptEnd
    <2>3. CASE ReadPreemptStart
      BY <2>1, <2>3 DEF ReadPreemptStart
    <2> QED
      BY <1>4, <2>2, <2>3
  <1>5. CASE ReadJobCount \/ ReadSchedCount \/ ReadCpu
    <2>1. cur \in Page
      BY DEF TypeInv, TypeOK
    <2>2. CASE ReadJobCount
      BY <2>1, <2>2 DEF ReadJobCount, Snapshot, Page
    <2>3. CASE ReadSchedCount
      BY <2>1, <2>3 DEF ReadSchedCount, Snapshot, Page
    <2>4. CASE ReadCpu
      <3>1. cur' = [job |-> cur.job, sched |-> cur.sched, cpu |-> ctrl.cpu]
        BY <2>1, <2>4 DEF ReadCpu, Snapshot, Page
      <3>2. /\ pc = "ReadCpu" /\ pc' = "Start"
            /\ UNCHANGED <<ctrl, disturbed, plen, np, kind, okay>>
        BY <2>4 DEF ReadCpu, Snapshot
      <3> QED
        BY <3>1, <3>2
    <2> QED
      BY <1>5, <2>2, <2>3, <2>4
  <1>6. CASE StartTime \/ EndTime
    <2>1. CASE StartTime
      BY <2>1 DEF StartTime
    <2>2. CASE EndTime
      <3>1. /\ pc = "Measure" /\ pc' = "CheckJob"
            /\ UNCHANGED <<ctrl, disturbed, cur, plen, np, kind, okay>>
        BY <2>2 DEF EndTime
      <3> QED
        BY <3>1
    <2> QED
      BY <1>6, <2>1, <2>2
  <1>7. CASE CheckJobCount \/ CheckSchedCount \/ CheckCpu
    <2>1. CASE CheckJobCount
      BY <2>1 DEF CheckJobCount, Validate, AfterCheck, TypeInv, TypeOK, Kinds
    <2>2. CASE CheckSchedCount
      BY <2>2 DEF CheckSchedCount, Validate, AfterCheck, TypeInv, TypeOK, Kinds
    <2>3. CASE CheckCpu
      BY <2>3 DEF CheckCpu, Validate, AfterCheck, TypeInv, TypeOK, Kinds
    <2> QED
      BY <1>7, <2>1, <2>2, <2>3
  <1>8. CASE StoreCold \/ StoreHot \/ StorePreempted
    BY <1>8 DEF StoreCold, StoreHot, StorePreempted, StoreEntry, TypeInv, TypeOK, Kinds
  <1>9. CASE Sti
    BY <1>9 DEF Sti, LeaveSection
  <1>10. CASE Save
    BY <1>10 DEF Save
  <1>11. CASE UNCHANGED vars
    BY <1>11 DEF vars
  <1> QED
    BY <1>1, <1>2, <1>3, <1>4, <1>5, <1>6, <1>7, <1>8, <1>9, <1>10, <1>11
    DEF Next, Task, Poll, Read, Time, Check, Record, Terminated

LEMMA CleanAlways == Spec => []CleanInv
  BY TypeAlways, CleanInit, CleanStep, PTL DEF Spec

\* With cli() effective, no data point is marked fishy or was disturbed
\* (lines 124-219 and 228-263), whatever the kernel does outside sections.
THEOREM SectionsClean == Spec => []SectionsAreClean
  <1>1. Init => SectionsAreClean
    BY DEF Init, SectionsAreClean
  <1>2. TypeInv /\ CleanInv /\ SectionsAreClean /\ [Next]_vars => SectionsAreClean'
    <2> SUFFICES ASSUME TypeInv, CleanInv, SectionsAreClean, [Next]_vars, masks,
                        NEW k \in 1 .. Len(history')
                 PROVE  history'[k].entry.access_type \in Kinds /\ ~history'[k].disturbed
      BY MasksStay DEF SectionsAreClean
    <2>1. CASE UNCHANGED history
      BY <2>1 DEF SectionsAreClean
    <2>2. CASE StoringStep
      <3>1. okay /\ ~disturbed
        BY <2>2 DEF StoringStep, CleanInv, MaskedInv, Finished
      <3>2. NewEntry.access_type = kind
        BY <3>1 DEF NewEntry
      <3> QED
        BY <2>2, <3>1, <3>2, HistoryGrows DEF StoringStep, SectionsAreClean
    <2> QED
      BY <2>1, <2>2, HistoryStep
  <1> QED
    BY TypeAlways, CleanAlways, <1>1, <1>2, PTL DEF Spec

\* With cli() effective, both time stamps of a preemption's length belong to
\* the switch its sched_count names (lines 233-236).
THEOREM LengthsMatch == Spec => []LengthOfOwnSwitch
  <1>1. Init => LengthOfOwnSwitch
    BY DEF Init, LengthOfOwnSwitch
  <1>2. TypeInv /\ CleanInv /\ LengthOfOwnSwitch /\ [Next]_vars => LengthOfOwnSwitch'
    <2> SUFFICES ASSUME TypeInv, CleanInv, LengthOfOwnSwitch, [Next]_vars, masks,
                        NEW k \in 1 .. Len(history'),
                        history'[k].entry.access_type \in {"P", "p"}
                 PROVE  history'[k].entry.preemption_length
                          = <<history'[k].entry.sched_count, history'[k].entry.sched_count>>
      BY MasksStay DEF LengthOfOwnSwitch
    <2>1. CASE UNCHANGED history
      BY <2>1 DEF LengthOfOwnSwitch
    <2>2. CASE StoringStep
      <3>1. NewEntry.access_type \in {"P", "p"} => kind = "P"
        BY <2>2 DEF StoringStep, NewEntry, Fishy, Kinds
      <3>2. kind = "P" => NewEntry.preemption_length = <<NewEntry.sched_count, NewEntry.sched_count>>
        BY <2>2 DEF StoringStep, CleanInv, LengthInv, Finished, NewEntry
      <3> QED
        BY <2>2, <3>1, <3>2, HistoryGrows DEF StoringStep, LengthOfOwnSwitch
    <2> QED
      BY <2>1, <2>2, HistoryStep
  <1> QED
    BY TypeAlways, CleanAlways, <1>1, <1>2, PTL DEF Spec

-----------------------------------------------------------------------------
(* Without any assumption on cli().  The page only advances, so a move of  *)
(* the kernel during the access leaves the copy behind the page for good,  *)
(* and one of the two comparisons that follow finds it.                    *)

JobBehind == cur.job < ctrl.job
SchedBehind == cur.sched < ctrl.sched

BehindInv ==
  /\ cur.job <= ctrl.job
  /\ cur.sched <= ctrl.sched
  /\ pc \in {"Measure", "CheckJob"} /\ disturbed => JobBehind \/ SchedBehind
  /\ pc = "CheckSched" /\ disturbed => SchedBehind
  /\ pc = "CheckCpu" => ~disturbed
  /\ Finished /\ okay => ~disturbed

LEMMA BehindInit == Init => BehindInv
  <1> SUFFICES ASSUME Init PROVE BehindInv
    OBVIOUS
  <1>1. ctrl.job \in {0, 1} /\ ctrl.sched = 1 /\ cur.job = 0 /\ cur.sched = 0
    BY DEF Init
  <1> QED
    BY <1>1 DEF Init, BehindInv, Finished

LEMMA BehindStep == TypeInv /\ BehindInv /\ [Next]_vars => BehindInv'
  <1> SUFFICES ASSUME TypeInv, BehindInv, [Next]_vars PROVE BehindInv'
    OBVIOUS
  <1> USE DEF BehindInv, JobBehind, SchedBehind, Finished, Goto, outvars, taskvars
  <1>0. /\ cur \in Page /\ ctrl \in Page /\ kind \in {"C", "H", "P"}
        /\ cur.job \in Nat /\ cur.sched \in Nat /\ ctrl.job \in Nat /\ ctrl.sched \in Nat
    BY DEF TypeInv, TypeOK, Page, Kinds
  <1>1. CASE Kernel
    <2>1. /\ ctrl'.job \in Nat /\ ctrl'.sched \in Nat
          /\ ctrl.job <= ctrl'.job /\ ctrl.sched <= ctrl'.sched
          /\ ctrl.job < ctrl'.job \/ ctrl.sched < ctrl'.sched
          /\ disturbed' => disturbed \/ pc = "Measure"
          /\ UNCHANGED <<pc, cur, kind, okay>>
      BY <1>1, KernelMove DEF TypeInv, Page
    <2> QED
      BY <1>0, <2>1
  <1>2. CASE LeaveLoop \/ SeeNewJob \/ SeeSameJob \/ TestSched \/ TestCpu
    BY <1>2 DEF LeaveLoop, SeeNewJob, SeeSameJob, TestSched, TestCpu
  <1>3. CASE CliNew \/ CliPreempted
    BY <1>3 DEF CliNew, CliPreempted, EnterSection
  <1>4. CASE ReadPreemptEnd \/ ReadPreemptStart
    BY <1>4 DEF ReadPreemptEnd, ReadPreemptStart
  <1>5. CASE ReadJobCount \/ ReadSchedCount \/ ReadCpu
    <2>1. /\ cur'.job \in {cur.job, ctrl.job} /\ cur'.sched \in {cur.sched, ctrl.sched}
          /\ pc' \in {"ReadSched", "ReadCpu", "Start"}
          /\ UNCHANGED ctrl
      BY <1>0, <1>5 DEF ReadJobCount, ReadSchedCount, ReadCpu, Snapshot, Page
    <2> QED
      BY <1>0, <2>1
  <1>6. CASE StartTime \/ EndTime
    BY <1>6 DEF StartTime, EndTime
  <1>7. CASE CheckJobCount
    <2>1. /\ pc = "CheckJob" /\ UNCHANGED <<ctrl, cur, disturbed, kind>>
          /\ \/ cur.job = ctrl.job /\ pc' = "CheckSched"
             \/ ~okay' /\ pc' \in {"Sti", "Store"}
      BY <1>7 DEF CheckJobCount, Validate, AfterCheck
    <2> QED
      BY <1>0, <2>1
  <1>8. CASE CheckSchedCount
    <2>1. /\ pc = "CheckSched" /\ UNCHANGED <<ctrl, cur, disturbed, kind>>
          /\ \/ cur.sched = ctrl.sched /\ pc' = "CheckCpu"
             \/ ~okay' /\ pc' \in {"Sti", "Store"}
      BY <1>8 DEF CheckSchedCount, Validate, AfterCheck
    <2> QED
      BY <1>0, <2>1
  <1>9. CASE CheckCpu
    BY <1>0, <1>9 DEF CheckCpu, Validate, AfterCheck
  <1>10. CASE StoreCold \/ StoreHot \/ StorePreempted
    BY <1>10 DEF StoreCold, StoreHot, StorePreempted, StoreEntry
  <1>11. CASE Sti
    BY <1>11 DEF Sti, LeaveSection
  <1>12. CASE Save
    BY <1>12 DEF Save
  <1>13. CASE UNCHANGED vars
    BY <1>13 DEF vars
  <1> QED
    BY <1>1, <1>2, <1>3, <1>4, <1>5, <1>6, <1>7, <1>8, <1>9, <1>10, <1>11, <1>12, <1>13
    DEF Next, Task, Poll, Read, Time, Check, Record, Terminated

LEMMA BehindAlways == Spec => []BehindInv
  BY TypeAlways, BehindInit, BehindStep, PTL DEF Spec

\* Whether or not cli() is effective, a data point marked okay was not
\* disturbed: the re-validation after end_time (lines 154-161, 188-197,
\* 253-260) is complete.
THEOREM OkayIsUndisturbed == Spec => []OkayMeansUndisturbed
  <1>1. Init => OkayMeansUndisturbed
    BY DEF Init, OkayMeansUndisturbed
  <1>2. TypeInv /\ BehindInv /\ OkayMeansUndisturbed /\ [Next]_vars => OkayMeansUndisturbed'
    <2> SUFFICES ASSUME TypeInv, BehindInv, OkayMeansUndisturbed, [Next]_vars,
                        NEW k \in 1 .. Len(history'),
                        history'[k].entry.access_type \in Kinds
                 PROVE  ~history'[k].disturbed
      BY DEF OkayMeansUndisturbed
    <2>1. CASE UNCHANGED history
      BY <2>1 DEF OkayMeansUndisturbed
    <2>2. CASE StoringStep
      <3>1. NewEntry.access_type \in Kinds => okay
        BY <2>2 DEF StoringStep, NewEntry, Fishy, Kinds
      <3>2. okay => ~disturbed
        BY <2>2 DEF StoringStep, BehindInv, Finished
      <3> QED
        BY <2>2, <3>1, <3>2, HistoryGrows DEF StoringStep, OkayMeansUndisturbed
    <2> QED
      BY <2>1, <2>2, HistoryStep
  <1> QED
    BY TypeAlways, BehindAlways, <1>1, <1>2, PTL DEF Spec

-----------------------------------------------------------------------------
(* The ring buffer holds the most recent data points, and since            *)
(* data_wrapped says only that the last store closed a round, the part of  *)
(* the buffer that is saved is a run of them.                              *)

RingInv ==
  /\ data_count <= Len(history)
  /\ \A i \in 0 .. data_count - 1 :
       data_points[i] = history[Len(history) - data_count + i + 1].entry
  /\ data_wrapped =>
       /\ DATAPOINTS <= Len(history)
       /\ \A i \in 0 .. DATAPOINTS - 1 :
            data_points[i] = history[Len(history) - DATAPOINTS + i + 1].entry

LEMMA RingInit == Init => RingInv
  BY SizesAssumption DEF Init, RingInv

LEMMA StoreKeepsRing ==
  ASSUME TypeInv, RingInv, StoreEntry
  PROVE  RingInv'
  <1> DEFINE n == Len(history)
             D == DATAPOINTS
  <1>1. /\ D \in Nat \ {0} /\ n \in Nat /\ data_count \in 0 .. D - 1 /\ data_count <= n
        /\ Len(history') = n + 1
        /\ data_count' = IF data_count = D - 1 THEN 0 ELSE data_count + 1
        /\ data_wrapped' <=> data_count = D - 1
    BY SizesAssumption, SlotArithmetic, HistoryGrows DEF StoreEntry, RingInv, TypeInv, TypeOK
  <1>2. ASSUME NEW i \in 0 .. data_count
        PROVE  data_points'[i] = history'[n - data_count + i + 1].entry
    <2>1. CASE i = data_count
      <3>1. data_points'[i] = NewEntry
        BY <1>1, <2>1 DEF StoreEntry, TypeInv, TypeOK
      <3>2. history'[n + 1].entry = NewEntry
        BY HistoryGrows
      <3> QED
        BY <1>1, <2>1, <3>1, <3>2
    <2>2. CASE i # data_count
      <3>1. i \in 0 .. data_count - 1 /\ n - data_count + i + 1 \in 1 .. n
        BY <1>1, <2>2
      <3>2. data_points'[i] = data_points[i]
        BY <1>1, <3>1 DEF StoreEntry, TypeInv, TypeOK
      <3>3. history'[n - data_count + i + 1] = history[n - data_count + i + 1]
        BY <3>1, HistoryGrows
      <3> QED
        BY <3>1, <3>2, <3>3 DEF RingInv
    <2> QED
      BY <2>1, <2>2
  <1>3. CASE data_count = D - 1
    <2>1. data_count' = 0 /\ D <= n + 1
      BY <1>1, <1>3
    <2>2. \A i \in 0 .. D - 1 : data_points'[i] = history'[(n + 1) - D + i + 1].entry
      <3> TAKE i \in 0 .. D - 1
      <3>1. i \in 0 .. data_count /\ n - data_count + i + 1 = (n + 1) - D + i + 1
        BY <1>1, <1>3
      <3> QED
        BY <1>2, <3>1
    <2> QED
      BY <1>1, <2>1, <2>2 DEF RingInv
  <1>4. CASE data_count # D - 1
    <2>1. data_count' = data_count + 1 /\ ~data_wrapped'
      BY <1>1, <1>4
    <2>2. \A i \in 0 .. data_count' - 1 :
            data_points'[i] = history'[(n + 1) - data_count' + i + 1].entry
      <3> TAKE i \in 0 .. data_count' - 1
      <3>1. i \in 0 .. data_count /\ n - data_count + i + 1 = (n + 1) - data_count' + i + 1
        BY <1>1, <2>1
      <3> QED
        BY <1>2, <3>1
    <2> QED
      BY <1>1, <2>1, <2>2 DEF RingInv
  <1> QED
    BY <1>3, <1>4

LEMMA RingStep == TypeInv /\ RingInv /\ [Next]_vars => RingInv'
  <1> SUFFICES ASSUME TypeInv, RingInv, [Next]_vars PROVE RingInv'
    OBVIOUS
  <1> USE DEF outvars, taskvars
  <1>1. CASE StoreEntry
    BY <1>1, StoreKeepsRing
  <1>2. CASE UNCHANGED <<data_points, data_count, data_wrapped, history>>
    BY <1>2 DEF RingInv
  <1>3. CASE Kernel
    BY <1>2, <1>3, KernelMove DEF TypeInv
  <1>4. CASE Poll
    BY <1>2, <1>4 DEF Poll, LeaveLoop, SeeNewJob, SeeSameJob, TestSched, TestCpu
  <1>5. CASE Read
    BY <1>2, <1>5 DEF Read, CliNew, CliPreempted, EnterSection, ReadPreemptEnd,
                      ReadPreemptStart, ReadJobCount, ReadSchedCount, ReadCpu, Snapshot
  <1>6. CASE Time \/ Check
    BY <1>2, <1>6 DEF Time, StartTime, EndTime, Check, CheckJobCount, CheckSchedCount,
                      CheckCpu, Validate
  <1>7. CASE Record
    BY <1>1, <1>2, <1>7 DEF Record, StoreCold, StoreHot, StorePreempted, Sti, LeaveSection, Save
  <1>8. CASE UNCHANGED vars
    BY <1>2, <1>8 DEF vars
  <1> QED
    BY <1>3, <1>4, <1>5, <1>6, <1>7, <1>8 DEF Next, Task, Terminated

\* What serialize_data_entry is given (lines 308-309) is a contiguous run of
\* the most recent data points, for every buffer size.
THEOREM SavedAreRecent == Spec => []SavedIsRecent
  <1>1. Init => SavedIsRecent
    BY DEF Init, SavedIsRecent
  <1>2. TypeInv /\ RingInv /\ SavedIsRecent /\ [Next]_vars => SavedIsRecent'
    <2> SUFFICES ASSUME TypeInv, RingInv, SavedIsRecent, [Next]_vars, pc' = "Done"
                 PROVE  SavedIsRecent'
      BY DEF SavedIsRecent
    <2>1. CASE Save
      <3> DEFINE num == IF data_wrapped THEN DATAPOINTS ELSE data_count
      <3>1. num \in 0 .. DATAPOINTS /\ num <= Len(history)
        BY SizesAssumption DEF TypeInv, TypeOK, RingInv
      <3>2. file' = [i \in 1 .. num |-> data_points[i - 1]] /\ UNCHANGED history
        BY <2>1 DEF Save
      <3>3. Len(file') = num
        BY <3>1, <3>2, SizesAssumption
      <3>4. \A i \in 1 .. num : data_points[i - 1] = history[Len(history) - num + i].entry
        <4> TAKE i \in 1 .. num
        <4>1. i - 1 \in 0 .. num - 1 /\ Len(history) - num + (i - 1) + 1 = Len(history) - num + i
          BY <3>1, SizesAssumption DEF TypeInv, TypeOK
        <4> QED
          BY <4>1 DEF RingInv
      <3> QED
        BY <3>1, <3>2, <3>3, <3>4 DEF SavedIsRecent
    <2>2. CASE pc = "Done" /\ UNCHANGED <<file, history>>
      BY <2>2 DEF SavedIsRecent
    <2>3. ~Save => pc = "Done" /\ UNCHANGED <<file, history>>
      <3> SUFFICES ASSUME ~Save PROVE pc = "Done" /\ UNCHANGED <<file, history>>
        OBVIOUS
      <3> USE DEF Goto, outvars, taskvars
      <3>1. CASE Kernel
        BY <3>1, KernelMove DEF TypeInv
      <3>2. CASE Poll
        BY <3>2 DEF Poll, LeaveLoop, SeeNewJob, SeeSameJob, TestSched, TestCpu
      <3>3. CASE Read
        BY <3>3 DEF Read, CliNew, CliPreempted, ReadPreemptEnd, ReadPreemptStart,
                    ReadJobCount, ReadSchedCount, ReadCpu
      <3>4. CASE Time \/ Check
        BY <3>4 DEF Time, StartTime, EndTime, Check, CheckJobCount, CheckSchedCount,
                    CheckCpu, Validate, AfterCheck
      <3>5. CASE Record
        BY <3>5 DEF Record, StoreCold, StoreHot, StorePreempted, Sti
      <3>6. CASE UNCHANGED vars
        BY <3>6 DEF vars
      <3> QED
        BY <3>1, <3>2, <3>3, <3>4, <3>5, <3>6 DEF Next, Task, Terminated
    <2> QED
      BY <2>1, <2>2, <2>3
  <1>3. Spec => []RingInv
    BY TypeAlways, RingInit, RingStep, PTL DEF Spec
  <1> QED
    BY TypeAlways, <1>1, <1>2, <1>3, PTL DEF Spec

-----------------------------------------------------------------------------
(* The order of the data points, again without any assumption on cli().    *)
(* A block is entered because the copy is behind the page, and the field   *)
(* that is behind is read again before the data point is stored.           *)

Trailing ==
  /\ pc # "ReadCpu" /\ cur.cpu # ctrl.cpu => SchedBehind
  /\ pc = "NewCli" \/ (pc = "ReadJob" /\ kind = "C") => JobBehind
  /\ \/ pc \in {"PreCli", "ReadEnd", "ReadStart"}
     \/ pc \in {"ReadJob", "ReadSched"} /\ kind = "P"
     => SchedBehind
  /\ pc \in {"ReadEnd", "ReadStart"} => kind = "P"

\* The copy is at e or past it; past its job when a cold access is under
\* way, past its switch when an access after a preemption is.
Overtaken(e) ==
  /\ e.job_count \in Nat /\ e.sched_count \in Nat
  /\ e.job_count <= cur.job /\ e.sched_count <= cur.sched
  /\ kind = "C" /\ pc \in Measuring \cup {"ReadSched", "ReadCpu", "Store"} => e.job_count < cur.job
  /\ kind = "P" /\ pc \in Measuring \cup {"ReadCpu", "Sti", "Store"} => e.sched_count < cur.sched

PastInv == \A k \in 1 .. Len(history) : Overtaken(history[k].entry)

LEMMA TrailingInit == Init => Trailing /\ PastInv
  <1> SUFFICES ASSUME Init PROVE Trailing /\ PastInv
    OBVIOUS
  <1>1. ctrl.sched = 1 /\ cur.sched = 0 /\ pc = "Test" /\ Len(history) = 0
    BY DEF Init
  <1> QED
    BY <1>1 DEF Trailing, PastInv, SchedBehind

LEMMA TrailingStep == TypeInv /\ BehindInv /\ Trailing /\ [Next]_vars => Trailing'
  <1> SUFFICES ASSUME TypeInv, BehindInv, Trailing, [Next]_vars PROVE Trailing'
    OBVIOUS
  <1> USE DEF Trailing, JobBehind, SchedBehind, Goto, outvars, taskvars
  <1>0. /\ cur \in Page /\ ctrl \in Page /\ kind \in {"C", "H", "P"}
        /\ cur.job \in Nat /\ cur.sched \in Nat /\ ctrl.job \in Nat /\ ctrl.sched \in Nat
        /\ cur.job <= ctrl.job /\ cur.sched <= ctrl.sched
    BY DEF TypeInv, TypeOK, Page, Kinds, BehindInv
  <1>1. CASE Kernel
    <2>1. /\ ctrl'.job \in Nat /\ ctrl'.sched \in Nat
          /\ ctrl.job <= ctrl'.job /\ ctrl.sched <= ctrl'.sched
          /\ ctrl'.cpu # ctrl.cpu => ctrl.sched < ctrl'.sched
          /\ UNCHANGED <<pc, cur, kind>>
      BY <1>1, KernelMove DEF TypeInv, Page
    <2> QED
      BY <1>0, <2>1
  <1>2. CASE LeaveLoop \/ SeeNewJob \/ SeeSameJob \/ TestSched \/ TestCpu
    BY <1>0, <1>2 DEF LeaveLoop, SeeNewJob, SeeSameJob, TestSched, TestCpu
  <1>3. CASE CliNew \/ CliPreempted
    BY <1>3 DEF CliNew, CliPreempted, EnterSection
  <1>4. CASE ReadPreemptEnd \/ ReadPreemptStart
    BY <1>4 DEF ReadPreemptEnd, ReadPreemptStart
  <1>5. CASE ReadJobCount
    <2>1. cur' = [job |-> ctrl.job, sched |-> cur.sched, cpu |-> cur.cpu]
      BY <1>0, <1>5 DEF ReadJobCount, Snapshot, Page
    <2> QED
      BY <1>5, <2>1 DEF ReadJobCount, Snapshot
  <1>6. CASE ReadSchedCount
    BY <1>6 DEF ReadSchedCount, Snapshot
  <1>7. CASE ReadCpu
    <2>1. cur' = [job |-> cur.job, sched |-> cur.sched, cpu |-> ctrl.cpu]
      BY <1>0, <1>7 DEF ReadCpu, Snapshot, Page
    <2> QED
      BY <1>7, <2>1 DEF ReadCpu, Snapshot
  <1>8. CASE Time
    BY <1>8 DEF Time, StartTime, EndTime
  <1>9. CASE Check
    BY <1>9 DEF Check, CheckJobCount, CheckSchedCount, CheckCpu, Validate, AfterCheck
  <1>10. CASE StoreCold \/ StoreHot \/ StorePreempted
    BY <1>10 DEF StoreCold, StoreHot, StorePreempted, StoreEntry
  <1>11. CASE Sti \/ Save
    BY <1>11 DEF Sti, LeaveSection, Save
  <1>12. CASE UNCHANGED vars
    BY <1>12 DEF vars
  <1> QED
    BY <1>1, <1>2, <1>3, <1>4, <1>5, <1>6, <1>7, <1>8, <1>9, <1>10, <1>11, <1>12
    DEF Next, Task, Poll, Read, Record, Terminated

\* A step that stores nothing keeps what has been overtaken so.
LEMMA OvertakenStep ==
  ASSUME TypeInv, BehindInv, Trailing, [Next]_vars, ~StoringStep, NEW e, Overtaken(e)
  PROVE  Overtaken(e)'
  <1> USE DEF Overtaken, Trailing, JobBehind, SchedBehind, Goto, Measuring, outvars, taskvars
  <1>0. /\ cur \in Page /\ ctrl \in Page /\ kind \in {"C", "H", "P"}
        /\ cur.job \in Nat /\ cur.sched \in Nat /\ ctrl.job \in Nat /\ ctrl.sched \in Nat
        /\ cur.job <= ctrl.job /\ cur.sched <= ctrl.sched
    BY DEF TypeInv, TypeOK, Page, Kinds, BehindInv
  <1>1. CASE Kernel
    BY <1>1, KernelMove DEF TypeInv
  <1>2. CASE Poll
    BY <1>2 DEF Poll, LeaveLoop, SeeNewJob, SeeSameJob, TestSched, TestCpu
  <1>3. CASE CliNew \/ CliPreempted
    BY <1>3 DEF CliNew, CliPreempted, EnterSection
  <1>4. CASE ReadPreemptEnd \/ ReadPreemptStart
    BY <1>4 DEF ReadPreemptEnd, ReadPreemptStart
  <1>5. CASE ReadJobCount
    <2>1. cur' = [job |-> ctrl.job, sched |-> cur.sched, cpu |-> cur.cpu]
      BY <1>0, <1>5 DEF ReadJobCount, Snapshot, Page
    <2> QED
      BY <1>0, <1>5, <2>1 DEF ReadJobCount, Snapshot
  <1>6. CASE ReadSchedCount
    <2>1. cur' = [job |-> cur.job, sched |-> ctrl.sched, cpu |-> cur.cpu]
      BY <1>0, <1>6 DEF ReadSchedCount, Snapshot, Page
    <2> QED
      BY <1>0, <1>6, <2>1 DEF ReadSchedCount, Snapshot
  <1>7. CASE ReadCpu
    <2>1. cur' = [job |-> cur.job, sched |-> cur.sched, cpu |-> ctrl.cpu]
      BY <1>0, <1>7 DEF ReadCpu, Snapshot, Page
    <2> QED
      BY <1>0, <1>7, <2>1 DEF ReadCpu, Snapshot
  <1>8. CASE Time
    BY <1>8 DEF Time, StartTime, EndTime
  <1>9. CASE Check
    BY <1>9 DEF Check, CheckJobCount, CheckSchedCount, CheckCpu, Validate, AfterCheck
  <1>10. CASE Sti \/ Save
    BY <1>10 DEF Sti, LeaveSection, Save
  <1>11. CASE UNCHANGED vars
    BY <1>11 DEF vars
  <1>12. ~(StoreCold \/ StoreHot \/ StorePreempted)
    BY DEF StoreCold, StoreHot, StorePreempted, StoringStep, TypeInv, TypeOK
  <1> QED
    BY <1>1, <1>2, <1>3, <1>4, <1>5, <1>6, <1>7, <1>8, <1>9, <1>10, <1>11, <1>12
    DEF Next, Task, Read, Record, Terminated

LEMMA PastStep ==
  TypeInv /\ BehindInv /\ Trailing /\ PastInv /\ [Next]_vars => PastInv'
  <1> SUFFICES ASSUME TypeInv, BehindInv, Trailing, PastInv, [Next]_vars,
                      NEW k \in 1 .. Len(history')
               PROVE  Overtaken(history[k].entry)'
    BY DEF PastInv
  <1>1. CASE ~StoringStep
    <2>1. UNCHANGED history
      BY <1>1, HistoryStep
    <2>2. k \in 1 .. Len(history) /\ history'[k] = history[k]
      BY <2>1
    <2>3. Overtaken(history[k].entry)
      BY <2>2 DEF PastInv
    <2>4. PICK e : e = history[k].entry
      OBVIOUS
    <2>5. Overtaken(e)'
      BY <1>1, <2>3, <2>4, OvertakenStep
    <2> QED
      BY <2>2, <2>4, <2>5 DEF Overtaken
  <1>2. CASE StoringStep
    <2>1. /\ UNCHANGED cur /\ cur.job \in Nat /\ cur.sched \in Nat
          /\ pc' = "Test" \/ (pc' \in {"Start", "Sti"} /\ kind' = "H")
      BY <1>2 DEF StoringStep, StoreCold, StoreHot, StorePreempted, StoreEntry, Goto,
                  TypeInv, TypeOK, Page
    <2>2. CASE k = Len(history) + 1
      <3>1. history'[k].entry.job_count = cur.job /\ history'[k].entry.sched_count = cur.sched
        BY <1>2, <2>2, HistoryGrows DEF StoringStep, NewEntry
      <3> QED
        BY <2>1, <3>1 DEF Overtaken, Measuring
    <2>3. CASE k # Len(history) + 1
      <3>1. k \in 1 .. Len(history) /\ history'[k] = history[k]
        BY <1>2, <2>3, HistoryGrows DEF StoringStep
      <3> QED
        BY <2>1, <3>1 DEF PastInv, Overtaken, Measuring
    <2> QED
      BY <2>2, <2>3
  <1> QED
    BY <1>1, <1>2

\* Data points never go back in time; a cold one starts a later job and one
\* after a preemption follows a later switch (lines 112-121, 221-236).
THEOREM DataPointsAdvance == Spec => []HistoryAdvances
  <1>1. Init => HistoryAdvances
    BY DEF Init, HistoryAdvances
  <1>2. TypeInv /\ PastInv /\ HistoryAdvances /\ [Next]_vars => HistoryAdvances'
    <2> SUFFICES ASSUME TypeInv, PastInv, HistoryAdvances, [Next]_vars PROVE HistoryAdvances'
      OBVIOUS
    <2>1. CASE UNCHANGED history
      BY <2>1 DEF HistoryAdvances
    <2>2. CASE StoringStep
      <3> SUFFICES ASSUME NEW k \in 1 .. Len(history') - 1
                   PROVE  LET e == history'[k].entry
                              f == history'[k + 1].entry
                          IN  /\ e.job_count <= f.job_count
                              /\ e.sched_count <= f.sched_count
                              /\ IsCold(f) => e.job_count < f.job_count
                              /\ IsPreemption(f) => e.sched_count < f.sched_count
        BY DEF HistoryAdvances
      <3>1. k \in 1 .. Len(history) /\ history'[k] = history[k]
        BY <2>2, HistoryGrows DEF StoringStep
      <3>2. CASE k = Len(history)
        <4>1. history'[k + 1].entry = NewEntry
          BY <2>2, <3>2, HistoryGrows DEF StoringStep
        <4>2. Overtaken(history[k].entry)
          BY <3>1 DEF PastInv
        <4>3. /\ NewEntry.job_count = cur.job /\ NewEntry.sched_count = cur.sched
              /\ IsCold(NewEntry) => kind = "C"
              /\ IsPreemption(NewEntry) => kind = "P"
          BY <2>2 DEF StoringStep, NewEntry, IsCold, IsPreemption, Fishy, Kinds
        <4> QED
          BY <2>2, <3>1, <4>1, <4>2, <4>3 DEF Overtaken, StoringStep
      <3>3. CASE k # Len(history)
        <4>1. k \in 1 .. Len(history) - 1 /\ history'[k + 1] = history[k + 1]
          BY <2>2, <3>1, <3>3, HistoryGrows DEF StoringStep
        <4> QED
          BY <3>1, <4>1 DEF HistoryAdvances
      <3> QED
        BY <3>2, <3>3
    <2> QED
      BY <2>1, <2>2, HistoryStep
  <1> QED
    BY TypeAlways, BehindAlways, TrailingInit, TrailingStep, PastStep, <1>1, <1>2, PTL DEF Spec

-----------------------------------------------------------------------------
(* The loop of hot accesses.  While it runs, the data point refcount       *)
(* places before the end of the history is its cold one; a cold data point *)
(* whose loop is over has REFTOTAL successors (lines 143-219).             *)

InHotLoop == kind = "H" /\ pc \in Measuring \cup {"Store"}

SameSnapshot(k) ==
  /\ history[k].ws = curr_ws
  /\ history[k].entry.job_count = cur.job
  /\ history[k].entry.sched_count = cur.sched
  /\ history[k].entry.cpu = cur.cpu

Complete(k) == k + REFTOTAL <= Len(history)

HotInv ==
  /\ \A k \in 1 .. Len(history) :
       IsCold(history[k].entry) =>
         \/ Complete(k)
         \/ InHotLoop /\ k + refcount = Len(history) /\ SameSnapshot(k)
  /\ InHotLoop =>
       /\ Len(history) - refcount >= 1
       /\ IsCold(history[Len(history) - refcount].entry)

\* Outside the steps that store, the loop is neither entered nor left, and
\* nothing it compares changes.
LEMMA HotLoopStays ==
  ASSUME TypeInv, [Next]_vars, ~StoringStep
  PROVE  /\ InHotLoop' <=> InHotLoop
         /\ InHotLoop => UNCHANGED <<curr_ws, cur, refcount>>
  <1> USE DEF InHotLoop, Goto, Measuring, outvars, taskvars
  <1>1. CASE Kernel
    BY <1>1, KernelMove DEF TypeInv
  <1>2. CASE Poll
    BY <1>2 DEF Poll, LeaveLoop, SeeNewJob, SeeSameJob, TestSched, TestCpu
  <1>3. CASE CliNew \/ CliPreempted
    BY <1>3 DEF CliNew, CliPreempted, EnterSection
  <1>4. CASE ReadPreemptEnd \/ ReadPreemptStart
    BY <1>4 DEF ReadPreemptEnd, ReadPreemptStart
  <1>5. CASE ReadJobCount \/ ReadSchedCount \/ ReadCpu
    <2>1. kind # "H"
      BY <1>5 DEF ReadJobCount, ReadSchedCount, ReadCpu, TypeInv, HotBound, Reading
    <2> QED
      BY <1>5, <2>1 DEF ReadJobCount, ReadSchedCount, ReadCpu, Snapshot
  <1>6. CASE Time
    BY <1>6 DEF Time, StartTime, EndTime
  <1>7. CASE Check
    BY <1>7 DEF Check, CheckJobCount, CheckSchedCount, CheckCpu, Validate, AfterCheck
  <1>8. CASE Sti \/ Save
    BY <1>8 DEF Sti, LeaveSection, Save
  <1>9. CASE UNCHANGED vars
    BY <1>9 DEF vars
  <1>10. ~(StoreCold \/ StoreHot \/ StorePreempted)
    BY DEF StoreCold, StoreHot, StorePreempted, StoringStep, TypeInv, TypeOK
  <1> QED
    BY <1>1, <1>2, <1>3, <1>4, <1>5, <1>6, <1>7, <1>8, <1>9, <1>10
    DEF Next, Task, Read, Record, Terminated

\* What the new data point is, by the block that stores it.
LEMMA NewEntryKind ==
  ASSUME TypeInv
  PROVE  /\ IsCold(NewEntry) <=> kind = "C"
         /\ IsHot(NewEntry) <=> kind = "H"
  BY DEF TypeInv, TypeOK, NewEntry, IsCold, IsHot, Fishy, Kinds

LEMMA HotInit == Init => HotInv
  BY DEF Init, HotInv, InHotLoop

LEMMA HotStep == TypeInv /\ HotInv /\ [Next]_vars => HotInv'
  <1> SUFFICES ASSUME TypeInv, HotInv, [Next]_vars PROVE HotInv'
    OBVIOUS
  <1> DEFINE n == Len(history)
  <1>0. REFTOTAL \in Nat \ {0} /\ refcount \in 0 .. REFTOTAL /\ n \in Nat
    BY SizesAssumption DEF TypeInv, TypeOK
  <1>1. CASE ~StoringStep
    <2>1. UNCHANGED history
      BY <1>1, HistoryStep
    <2> QED
      BY <1>1, <2>1, HotLoopStays DEF HotInv, Complete, SameSnapshot
  <1>2. CASE StoringStep
    <2> DEFINE h == [entry |-> NewEntry, ws |-> curr_ws, disturbed |-> disturbed]
    <2>1. /\ Len(history') = n + 1
          /\ \A k \in 1 .. n : history'[k] = history[k]
          /\ history'[n + 1] = h
      BY <1>2, HistoryGrows DEF StoringStep
    <2>2. /\ UNCHANGED <<curr_ws, cur>>
          /\ pc = "Store"
      BY <1>2 DEF StoringStep, StoreEntry
    <2>3. /\ h.entry = NewEntry /\ h.ws = curr_ws
          /\ NewEntry.job_count = cur.job /\ NewEntry.sched_count = cur.sched
          /\ NewEntry.cpu = cur.cpu
      BY DEF NewEntry
    <2>4. CASE StoreCold
      <3>1. /\ kind = "C" /\ kind' = "H" /\ pc' = "Start" /\ refcount' = 0
        BY <2>4 DEF StoreCold, Goto
      <3>2. ~InHotLoop /\ InHotLoop' /\ IsCold(NewEntry)
        BY <3>1, NewEntryKind DEF InHotLoop, Measuring
      <3>3. ASSUME NEW k \in 1 .. n + 1, IsCold(history'[k].entry)
            PROVE  Complete(k)' \/ (k + refcount' = n + 1 /\ SameSnapshot(k)')
        <4>1. CASE k = n + 1
          BY <1>0, <2>1, <2>2, <2>3, <3>1, <4>1 DEF SameSnapshot
        <4>2. CASE k # n + 1
          <5>1. k \in 1 .. n /\ history'[k] = history[k]
            BY <1>0, <2>1, <4>2
          <5>2. Complete(k)
            BY <3>2, <3>3, <5>1 DEF HotInv
          <5> QED
            BY <1>0, <2>1, <5>1, <5>2 DEF Complete
        <4> QED
          BY <4>1, <4>2
      <3>4. Len(history') - refcount' >= 1 /\ IsCold(history'[Len(history') - refcount'].entry)
        BY <1>0, <2>1, <2>3, <3>1, <3>2
      <3> QED
        BY <2>1, <3>2, <3>3, <3>4 DEF HotInv
    <2>5. CASE StoreHot
      <3>1. /\ kind = "H" /\ kind' = "H" /\ refcount' = refcount + 1
            /\ pc' = (IF refcount + 1 < REFTOTAL THEN "Start" ELSE "Sti")
        BY <2>5 DEF StoreHot, Goto
      <3>2. InHotLoop /\ refcount < REFTOTAL /\ ~IsCold(NewEntry)
        BY <2>2, <3>1, NewEntryKind DEF InHotLoop, TypeInv, HotBound
      <3>3. InHotLoop' <=> refcount + 1 < REFTOTAL
        BY <3>1 DEF InHotLoop, Measuring
      <3>4. ASSUME NEW k \in 1 .. n + 1, IsCold(history'[k].entry)
            PROVE  \/ Complete(k)'
                   \/ InHotLoop' /\ k + refcount' = n + 1 /\ SameSnapshot(k)'
        <4>1. k # n + 1
          BY <2>1, <2>3, <3>2, <3>4
        <4>2. k \in 1 .. n /\ history'[k] = history[k]
          BY <1>0, <2>1, <4>1
        <4>3. CASE Complete(k)
          BY <1>0, <2>1, <4>2, <4>3 DEF Complete
        <4>4. CASE k + refcount = n /\ SameSnapshot(k)
          <5>1. SameSnapshot(k)'
            BY <2>2, <4>2, <4>4 DEF SameSnapshot
          <5> QED
            BY <1>0, <2>1, <3>1, <3>3, <4>2, <4>4, <5>1 DEF Complete
        <4> QED
          BY <3>4, <4>2, <4>3, <4>4 DEF HotInv
      <3>5. Len(history') - refcount' >= 1 /\ IsCold(history'[Len(history') - refcount'].entry)
        <4>1. n - refcount >= 1 /\ IsCold(history[n - refcount].entry)
          BY <3>2 DEF HotInv
        <4>2. Len(history') - refcount' = n - refcount /\ n - refcount \in 1 .. n
          BY <1>0, <2>1, <3>1, <4>1
        <4> QED
          BY <2>1, <4>1, <4>2
      <3> QED
        BY <2>1, <3>4, <3>5 DEF HotInv
    <2>6. CASE StorePreempted
      <3>1. kind = "P" /\ kind' = "P"
        BY <2>6 DEF StorePreempted
      <3>2. ~InHotLoop /\ ~InHotLoop' /\ ~IsCold(NewEntry)
        BY <3>1, NewEntryKind DEF InHotLoop
      <3>3. ASSUME NEW k \in 1 .. n + 1, IsCold(history'[k].entry)
            PROVE  Complete(k)'
        <4>1. k # n + 1
          BY <2>1, <2>3, <3>2, <3>3
        <4>2. k \in 1 .. n /\ history'[k] = history[k]
          BY <1>0, <2>1, <4>1
        <4>3. Complete(k)
          BY <3>2, <3>3, <4>2 DEF HotInv
        <4> QED
          BY <1>0, <2>1, <4>2, <4>3 DEF Complete
      <3> QED
        BY <2>1, <3>2, <3>3 DEF HotInv
    <2> QED
      BY <1>2, <2>4, <2>5, <2>6 DEF StoringStep
  <1> QED
    BY <1>1, <1>2

LEMMA HotAlways == Spec => []HotInv
  BY TypeAlways, HotInit, HotStep, PTL DEF Spec

\* Every cold data point is followed by exactly REFTOTAL hot ones of its own
\* snapshot and working set, and no hot one stands anywhere else, for every
\* REFTOTAL and whatever cli() does (lines 143-219).
THEOREM ColdBeforeHot == Spec => []ColdThenHot
  <1>1. Init => ColdThenHot
    BY DEF Init, ColdThenHot
  <1>2. TypeInv /\ HotInv /\ ColdThenHot /\ [Next]_vars => ColdThenHot'
    <2> SUFFICES ASSUME TypeInv, HotInv, ColdThenHot, [Next]_vars PROVE ColdThenHot'
      OBVIOUS
    <2> DEFINE n == Len(history)
               Fields == {"job_count", "sched_count", "cpu"}
    <2>0. REFTOTAL \in Nat \ {0} /\ refcount \in 0 .. REFTOTAL /\ n \in Nat
      BY SizesAssumption DEF TypeInv, TypeOK
    <2>1. CASE UNCHANGED history
      BY <2>1 DEF ColdThenHot
    <2>2. CASE StoringStep
      <3>1. /\ Len(history') = n + 1
            /\ \A k \in 1 .. n : history'[k] = history[k]
            /\ history'[n + 1].entry = NewEntry /\ history'[n + 1].ws = curr_ws
        BY <2>2, HistoryGrows DEF StoringStep
      <3>2. \A f \in Fields : NewEntry[f] = cur[IF f = "job_count" THEN "job"
                                               ELSE IF f = "sched_count" THEN "sched" ELSE "cpu"]
        BY DEF NewEntry
      <3>3. ASSUME NEW k \in 1 .. n + 1, IsCold(history'[k].entry),
                   NEW i \in 1 .. REFTOTAL, k + i <= n + 1
            PROVE  /\ IsHot(history'[k + i].entry)
                   /\ history'[k + i].ws = history'[k].ws
                   /\ \A f \in Fields : history'[k + i].entry[f] = history'[k].entry[f]
        <4>1. k \in 1 .. n /\ history'[k] = history[k]
          BY <2>0, <3>1, <3>3
        <4>2. CASE k + i <= n
          <5>1. k + i \in 1 .. n
            BY <2>0, <4>1, <4>2
          <5>2. history'[k + i] = history[k + i]
            BY <3>1, <5>1
          <5>3. IsCold(history[k].entry) /\ k + i <= Len(history)
            BY <3>3, <4>1, <4>2
          <5>4. /\ IsHot(history[k + i].entry)
                /\ history[k + i].ws = history[k].ws
                /\ \A f \in Fields : history[k + i].entry[f] = history[k].entry[f]
            BY <4>1, <5>3 DEF ColdThenHot
          <5> QED
            BY <4>1, <5>2, <5>4
        <4>3. CASE k + i = n + 1
          <5>1. ~Complete(k) \/ i = REFTOTAL + 1
            BY <2>0, <4>1, <4>3 DEF Complete
          <5>2. InHotLoop /\ SameSnapshot(k)
            BY <2>0, <3>3, <4>1, <5>1 DEF HotInv
          <5>3. IsHot(NewEntry)
            BY <5>2, NewEntryKind DEF InHotLoop
          <5>4. \A f \in Fields : history[k].entry[f] = NewEntry[f]
            BY <3>2, <5>2 DEF SameSnapshot
          <5> QED
            BY <3>1, <4>1, <4>3, <5>2, <5>3, <5>4 DEF SameSnapshot
        <4> QED
          BY <2>0, <3>3, <4>1, <4>2, <4>3
      <3>4. ASSUME NEW k \in 1 .. n + 1, IsHot(history'[k].entry)
            PROVE  \E i \in 1 .. REFTOTAL : k - i >= 1 /\ IsCold(history'[k - i].entry)
        <4>1. CASE k \in 1 .. n
          <5>1. IsHot(history[k].entry)
            BY <3>1, <3>4, <4>1
          <5>2. PICK i \in 1 .. REFTOTAL : k - i >= 1 /\ IsCold(history[k - i].entry)
            BY <4>1, <5>1 DEF ColdThenHot
          <5>3. k - i \in 1 .. n
            BY <2>0, <4>1, <5>2
          <5> QED
            BY <3>1, <5>2, <5>3
        <4>2. CASE k = n + 1
          <5>1. InHotLoop /\ refcount < REFTOTAL
            BY <2>2, <3>1, <3>4, <4>2, NewEntryKind
            DEF StoringStep, InHotLoop, TypeInv, HotBound
          <5>2. n - refcount >= 1 /\ IsCold(history[n - refcount].entry)
            BY <5>1 DEF HotInv
          <5>3. /\ refcount + 1 \in 1 .. REFTOTAL
                /\ k - (refcount + 1) = n - refcount
                /\ n - refcount \in 1 .. n
            BY <2>0, <4>2, <5>1, <5>2
          <5>4. history'[n - refcount] = history[n - refcount]
            BY <3>1, <5>3
          <5> QED
            BY <5>2, <5>3, <5>4
        <4> QED
          BY <2>0, <4>1, <4>2
      <3> QED
        BY <3>1, <3>3, <3>4 DEF ColdThenHot
    <2> QED
      BY <2>1, <2>2, HistoryStep
  <1> QED
    BY TypeAlways, HotAlways, <1>1, <1>2, PTL DEF Spec

-----------------------------------------------------------------------------
(* What else the steps of the specification Measurement presuppose: an     *)
(* ended loop owes no hot access, a job that is measured has a number      *)
(* above 0, and no preemption is measured before the first job.            *)

Unmeasured ==
  /\ kind = "C"
  /\ pc \in {"Test", "NewCli", "ReadJob", "ReadSched", "ReadCpu", "Store", "Save", "Done"}
              \cup Measuring
  /\ pc \in {"Test", "NewCli", "ReadJob", "ReadSched", "ReadCpu"} => curr_ws = 0

SettledInv ==
  /\ kind = "H" /\ ~InHotLoop => refcount = REFTOTAL
  /\ kind = "C" /\ pc \in {"ReadSched", "ReadCpu", "Store"} \cup Measuring => cur.job > 0
  /\ Len(history) = 0 => Unmeasured

LEMMA SettledInit == Init => SettledInv
  BY DEF Init, SettledInv, Unmeasured, Measuring

LEMMA SettledStep == TypeInv /\ BehindInv /\ Trailing /\ SettledInv /\ [Next]_vars => SettledInv'
  <1> SUFFICES ASSUME TypeInv, BehindInv, Trailing, SettledInv, [Next]_vars PROVE SettledInv'
    OBVIOUS
  <1> USE DEF SettledInv, Unmeasured, InHotLoop, Measuring, Goto, outvars, taskvars
  <1>0. /\ REFTOTAL \in Nat \ {0} /\ refcount \in 0 .. REFTOTAL /\ Len(history) \in Nat
        /\ cur \in Page /\ ctrl \in Page /\ cur.job \in Nat /\ ctrl.job \in Nat
        /\ kind \in {"C", "H", "P"}
    BY SizesAssumption DEF TypeInv, TypeOK, Page, Kinds
  <1>1. CASE Kernel
    BY <1>1, KernelMove DEF TypeInv
  <1>2. CASE Poll
    BY <1>0, <1>2 DEF Poll, LeaveLoop, SeeNewJob, SeeSameJob, TestSched, TestCpu
  <1>3. CASE CliNew \/ CliPreempted
    BY <1>0, <1>3 DEF CliNew, CliPreempted, EnterSection
  <1>4. CASE ReadPreemptEnd \/ ReadPreemptStart
    BY <1>0, <1>4 DEF ReadPreemptEnd, ReadPreemptStart, Trailing
  <1>5. CASE ReadJobCount
    <2>1. kind = "C" => ctrl.job > 0
      BY <1>0, <1>5 DEF ReadJobCount, Trailing, JobBehind
    <2>2. cur'.job = ctrl.job /\ kind # "H"
      BY <1>0, <1>5 DEF ReadJobCount, Snapshot, Page, TypeInv, HotBound, Reading
    <2> QED
      BY <1>0, <1>5, <2>1, <2>2 DEF ReadJobCount, Snapshot
  <1>6. CASE ReadSchedCount \/ ReadCpu
    <2>1. cur'.job = cur.job /\ kind # "H"
      BY <1>0, <1>6 DEF ReadSchedCount, ReadCpu, Snapshot, Page, TypeInv, HotBound, Reading
    <2> QED
      BY <1>0, <1>6, <2>1 DEF ReadSchedCount, ReadCpu, Snapshot
  <1>7. CASE Time
    BY <1>0, <1>7 DEF Time, StartTime, EndTime
  <1>8. CASE Check
    BY <1>0, <1>8 DEF Check, CheckJobCount, CheckSchedCount, CheckCpu, Validate, AfterCheck
  <1>9. CASE StoreCold \/ StoreHot \/ StorePreempted
    <2>1. Len(history') = Len(history) + 1
      BY <1>9, HistoryGrows DEF StoreCold, StoreHot, StorePreempted
    <2> QED
      BY <1>0, <1>9, <2>1 DEF StoreCold, StoreHot, StorePreempted, TypeInv, HotBound
  <1>10. CASE Sti \/ Save
    BY <1>0, <1>10 DEF Sti, LeaveSection, Save
  <1>11. CASE UNCHANGED vars
    BY <1>11 DEF vars
  <1> QED
    BY <1>1, <1>2, <1>3, <1>4, <1>5, <1>6, <1>7, <1>8, <1>9, <1>10, <1>11
    DEF Next, Task, Read, Record, Terminated

LEMMA SettledAlways == Spec => [](BehindInv /\ Trailing /\ PastInv /\ SettledInv)
  BY TypeAlways, BehindAlways, TrailingInit, TrailingStep, PastStep, SettledInit, SettledStep,
     PTL DEF Spec

-----------------------------------------------------------------------------
(* The refinement mapping: the log is the history without its annotations, *)
(* and one access after a preemption that is measured but not yet stored.  *)

Entries == [k \in 1 .. Len(history) |-> history[k].entry]
Pending == kind = "P" /\ pc \in {"Sti", "Store"}
Owed == IF kind = "H" THEN REFTOTAL - refcount ELSE 0

LEMMA EntriesAreSeq ==
  ASSUME TypeInv
  PROVE  Entries \in Seq(Entry) /\ Len(Entries) = Len(history)
  <1>1. history \in Seq(Recorded) /\ Len(history) \in Nat
    BY DEF TypeInv, TypeOK
  <1>2. ASSUME NEW k \in 1 .. Len(history)
        PROVE  history[k].entry \in Entry
    <2>1. history[k] \in Recorded
      BY <1>1
    <2> QED
      BY <2>1 DEF Recorded
  <1>3. Entries \in [1 .. Len(history) -> Entry]
    BY <1>2 DEF Entries
  <1> QED
    BY <1>1, <1>3, SeqDef DEF Entries

LEMMA ObservedIs ==
  ASSUME TypeInv
  PROVE  /\ ~Pending => Observed = Entries
         /\ Pending => Observed = Append(Entries, NewEntry)
  <1>1. Observed = Entries \o (IF Pending THEN <<NewEntry>> ELSE <<>>)
    BY DEF Observed, Entries, Pending
  <1>2. Entries \in Seq(Entry) /\ NewEntry \in Entry
    BY EntriesAreSeq, EntryType DEF TypeInv
  <1>3. Entries \o <<>> = Entries
    BY <1>2, ConcatEmptySeq
  <1>4. Append(Entries, NewEntry) = Entries \o <<NewEntry>>
    BY <1>2, AppendIsConcat
  <1> QED
    BY <1>1, <1>3, <1>4

LEMMA EntriesGrow ==
  ASSUME TypeInv, StoreEntry
  PROVE  Entries' = Append(Entries, NewEntry)
  <1> DEFINE n == Len(history)
  <1>1. /\ n \in Nat /\ Len(history') = n + 1
        /\ \A k \in 1 .. n : history'[k] = history[k]
        /\ history'[n + 1].entry = NewEntry
    BY HistoryGrows
  <1>2. Entries \in Seq(Entry) /\ Len(Entries) = n
    BY EntriesAreSeq
  <1>3. Append(Entries, NewEntry) = [k \in 1 .. n + 1 |-> IF k <= n THEN Entries[k] ELSE NewEntry]
    <2> DEFINE longer == Append(Entries, NewEntry)
    <2>1. /\ longer \in Seq(Entry) /\ Len(longer) = n + 1
          /\ \A k \in 1 .. n : longer[k] = Entries[k]
          /\ longer[n + 1] = NewEntry
      BY <1>2, EntryType, AppendProperties DEF TypeInv
    <2>2. longer \in [1 .. n + 1 -> Entry]
      BY <2>1, LenProperties
    <2> HIDE DEF longer
    <2>3. \A k \in 1 .. n + 1 : longer[k] = IF k <= n THEN Entries[k] ELSE NewEntry
      BY <1>1, <2>1
    <2>4. longer = [k \in 1 .. n + 1 |-> IF k <= n THEN Entries[k] ELSE NewEntry]
      BY <2>2, <2>3
    <2> QED
      BY <2>4 DEF longer
  <1>4. Entries' = [k \in 1 .. n + 1 |-> history'[k].entry]
    BY <1>1 DEF Entries
  <1>5. ASSUME NEW k \in 1 .. n + 1
        PROVE  history'[k].entry = IF k <= n THEN Entries[k] ELSE NewEntry
    <2>1. CASE k <= n
      <3>1. k \in 1 .. n
        BY <1>1, <2>1
      <3> QED
        BY <1>1, <2>1, <3>1 DEF Entries
    <2>2. CASE ~(k <= n)
      <3>1. k = n + 1
        BY <1>1, <2>2
      <3> QED
        BY <1>1, <2>2, <3>1
    <2> QED
      BY <2>1, <2>2
  <1> QED
    BY <1>3, <1>4, <1>5

\* With cli() effective and the re-validation behind it, the data point at
\* hand is an observation of the page as it is.
LEMMA EntryIsObservation ==
  ASSUME TypeInv, masks, CleanInv,
         (pc = "Store" /\ kind # "P") \/ (pc = "CheckCpu" /\ kind = "P")
  PROVE  /\ cur.job = ctrl.job /\ cur.sched = ctrl.sched /\ cur.cpu = ctrl.cpu
         /\ pc = "Store" => NewEntry = M!Observation(kind, access_time)
         /\ pc = "CheckCpu" => plen = <<ctrl.sched, ctrl.sched>>
  <1>1. cur.job = ctrl.job /\ cur.sched = ctrl.sched /\ cur.cpu = ctrl.cpu
    BY DEF CleanInv, MaskedInv, Section, Snapped, Measuring
  <1>2. pc = "Store" => okay /\ kind # "P"
    BY DEF CleanInv, MaskedInv, Finished
  <1>3. pc = "CheckCpu" => plen = <<cur.sched, cur.sched>>
    BY DEF CleanInv, LengthInv, Snapped, Measuring
  <1>4. pc = "Store" =>
          NewEntry = [access_type |-> kind, access_time |-> access_time, cpu |-> cur.cpu,
                      job_count |-> cur.job, sched_count |-> cur.sched,
                      preemption_length |-> <<0, 0>>]
    BY <1>2 DEF NewEntry, NoLength
  <1>5. kind # "P" =>
          M!Observation(kind, access_time)
            = [access_type |-> kind, access_time |-> access_time, cpu |-> ctrl.cpu,
               job_count |-> ctrl.job, sched_count |-> ctrl.sched,
               preemption_length |-> <<0, 0>>]
    BY DEF M!Observation
  <1> QED
    BY <1>1, <1>2, <1>3, <1>4, <1>5

\* The last job measured, seen from a cold access and from one after a
\* preemption.
LEMMA LogIsPast ==
  ASSUME TypeInv, CleanInv, PastInv, SettledInv, ~Pending
  PROVE  /\ kind = "C" /\ pc = "Store" => M!LastJob < cur.job
         /\ kind = "P" /\ pc = "CheckCpu" =>
              Observed # <<>> /\ Observed[Len(Observed)].sched_count < cur.sched
  <1>1. Observed = Entries /\ Entries \in Seq(Entry) /\ Len(Entries) = Len(history)
    BY ObservedIs, EntriesAreSeq
  <1>2. Len(history) \in Nat
    BY DEF TypeInv, TypeOK
  <1>3. CASE Len(history) = 0
    <2>1. Unmeasured /\ Observed = <<>>
      BY <1>1, <1>3, EmptySeq DEF SettledInv
    <2> QED
      BY <2>1 DEF M!LastJob, Unmeasured, SettledInv, Measuring
  <1>4. CASE Len(history) # 0
    <2>1. Len(history) \in 1 .. Len(history)
      BY <1>2, <1>4
    <2>2. Overtaken(history[Len(history)].entry)
      BY <2>1 DEF PastInv
    <2>3. Observed # <<>> /\ Observed[Len(Observed)] = history[Len(history)].entry
      BY <1>1, <1>4, <2>1, EmptySeq DEF Entries
    <2> QED
      BY <2>2, <2>3 DEF M!LastJob, Overtaken, Measuring
  <1> QED
    BY <1>3, <1>4

LEMMA KernelRefines ==
  ASSUME TypeInv, masks, CleanInv, SettledInv, Kernel
  PROVE  M!KernelMoves
  <1>1. /\ ctrl.job <= ctrl'.job /\ ctrl.sched <= ctrl'.sched
        /\ ctrl'.cpu # ctrl.cpu => ctrl.sched < ctrl'.sched
        /\ ~np
        /\ UNCHANGED <<pc, taskvars>>
        /\ ctrl \in Page /\ ctrl' \in Page
    BY KernelMove DEF TypeInv, TypeOK, Interruptible
  <1>2. M!Later(ctrl, ctrl')
    BY <1>1 DEF M!Later, Page
  <1>3. ~InHotLoop
    BY <1>1 DEF InHotLoop, CleanInv, MaskedInv, Section
  <1>4. Owed = 0
    BY <1>3, SizesAssumption DEF Owed, SettledInv
  <1>5. UNCHANGED Observed /\ UNCHANGED Owed
    BY <1>1 DEF Observed, NewEntry, Owed, taskvars, outvars
  <1> QED
    BY <1>2, <1>4, <1>5 DEF M!KernelMoves, Owed

\* The steps that neither end a measurement nor store one.
LEMMA QuietRefines ==
  ASSUME TypeInv, masks, CleanInv, SettledInv, [Next]_vars,
         ~Kernel, ~CheckCpu, ~StoringStep
  PROVE  UNCHANGED M!mvars
  <1> USE DEF Goto, outvars, taskvars
  <1>1. UNCHANGED history
    BY HistoryStep
  <1>2. CASE Sti
    <2>1. /\ pc = "Sti" /\ pc' = IF kind = "P" THEN "Store" ELSE "Test"
          /\ UNCHANGED <<ctrl, kind, refcount, NewEntry>>
      BY <1>2 DEF Sti, LeaveSection, NewEntry
    <2> QED
      BY <1>1, <2>1 DEF Observed, M!mvars
  <1>3. CASE ~Sti /\ ~(UNCHANGED vars)
    <2>1. /\ ~Pending /\ ~Pending' /\ UNCHANGED <<ctrl, Owed>>
      <3>1. CASE Poll
        BY <3>1 DEF Poll, LeaveLoop, SeeNewJob, SeeSameJob, TestSched, TestCpu, Pending, Owed
      <3>2. CASE CliNew \/ CliPreempted
        <4>1. Owed = 0
          <5>1. ~InHotLoop
            BY <3>2 DEF CliNew, CliPreempted, InHotLoop, Measuring
          <5>2. kind = "H" => refcount = REFTOTAL
            BY <5>1 DEF SettledInv
          <5> QED
            BY <5>2, SizesAssumption DEF Owed
        <4> QED
          BY <3>2, <4>1 DEF CliNew, CliPreempted, EnterSection, Pending, Owed
      <3>3. CASE ReadPreemptEnd \/ ReadPreemptStart \/ ReadJobCount \/ ReadSchedCount \/ ReadCpu
        BY <3>3 DEF ReadPreemptEnd, ReadPreemptStart, ReadJobCount, ReadSchedCount, ReadCpu,
                    Snapshot, Pending, Owed
      <3>4. CASE Time
        BY <3>4 DEF Time, StartTime, EndTime, Pending, Owed
      <3>5. CASE CheckJobCount \/ CheckSchedCount
        <4>1. cur.job = ctrl.job /\ cur.sched = ctrl.sched
          BY <3>5 DEF CheckJobCount, CheckSchedCount, Validate, CleanInv, MaskedInv, Section,
                      Snapped, Measuring
        <4> QED
          BY <3>5, <4>1 DEF CheckJobCount, CheckSchedCount, Validate, Pending, Owed
      <3>6. CASE Save
        BY <3>6 DEF Save, Pending, Owed
      <3>7. ~(StoreCold \/ StoreHot \/ StorePreempted)
        BY DEF StoreCold, StoreHot, StorePreempted, StoringStep, TypeInv, TypeOK
      <3> QED
        BY <1>3, <3>1, <3>2, <3>3, <3>4, <3>5, <3>6, <3>7
        DEF Next, Task, Read, Check, Record, Terminated
    <2>2. UNCHANGED Observed
      BY <1>1, <2>1 DEF Observed, Pending
    <2> QED
      BY <2>1, <2>2 DEF M!mvars, Owed
  <1>4. CASE UNCHANGED vars
    BY <1>4 DEF vars, Observed, NewEntry, M!mvars
  <1> QED
    BY <1>2, <1>3, <1>4

\* The end of an access after a preemption is where it is observed.
LEMMA CheckRefines ==
  ASSUME TypeInv, masks, CleanInv, PastInv, SettledInv, CheckCpu
  PROVE  M!MeasurePreempted(access_time) \/ UNCHANGED M!mvars
  <1>1. /\ pc = "CheckCpu" /\ pc' = (IF kind = "P" THEN "Sti" ELSE "Store")
        /\ okay' = (cur.cpu = ctrl.cpu)
        /\ UNCHANGED <<ctrl, cur, plen, kind, refcount, access_time, history>>
    BY DEF CheckCpu, Validate, AfterCheck, Goto, outvars
  <1>2. CASE kind # "P"
    <2>1. UNCHANGED Observed
      BY <1>1, <1>2 DEF Observed
    <2> QED
      BY <1>1, <2>1 DEF M!mvars
  <1>3. CASE kind = "P"
    <2> DEFINE e == M!Observation("P", access_time)
    <2>1. /\ cur.job = ctrl.job /\ cur.sched = ctrl.sched /\ cur.cpu = ctrl.cpu
          /\ plen = <<ctrl.sched, ctrl.sched>>
      BY <1>1, <1>3, EntryIsObservation
    <2>2. NewEntry' = e
      BY <1>1, <1>3, <2>1 DEF NewEntry, M!Observation
    <2>3. e \in Entry
      BY DEF TypeInv, TypeOK, Page, Entry, Types, Kinds, M!Observation
    <2>4. Observed = Entries /\ Entries \in Seq(Entry)
      BY <1>1, ObservedIs, EntriesAreSeq DEF Pending
    <2>5. Observed' = Entries \o <<e>>
      BY <1>1, <1>3, <2>2 DEF Observed, Entries
    <2>6. Observed' = Append(Observed, e)
      BY <2>3, <2>4, <2>5, AppendIsConcat
    <2>7. Observed # <<>> /\ Observed[Len(Observed)].sched_count < ctrl.sched
      BY <1>1, <1>3, <2>1, LogIsPast DEF Pending
    <2>8. ctrl.sched \in Nat /\ Observed[Len(Observed)].sched_count \in Nat
      <3>1. Len(Observed) \in 1 .. Len(Observed)
        BY <2>4, <2>7, EmptySeq
      <3>2. Observed[Len(Observed)] \in Entry
        BY <2>4, <3>1
      <3> QED
        BY <3>2 DEF Entry, TypeInv, TypeOK, Page
    <2> QED
      BY <1>1, <1>3, <2>6, <2>7, <2>8 DEF M!MeasurePreempted
  <1> QED
    BY <1>2, <1>3

\* The others are observed where they are stored, and a store of the former
\* is no step of the specification.
LEMMA StoreRefines ==
  ASSUME TypeInv, masks, CleanInv, PastInv, SettledInv, StoringStep
  PROVE  M!MeasureCold(access_time) \/ M!MeasureHot(access_time) \/ UNCHANGED M!mvars
  <1>1. Entries' = Append(Entries, NewEntry) /\ Entries \in Seq(Entry) /\ NewEntry \in Entry
    BY EntriesGrow, EntriesAreSeq, EntryType DEF StoringStep, TypeInv
  <1>2. Entries' \o <<>> = Entries'
    BY <1>1, AppendProperties, ConcatEmptySeq
  <1>3. pc = "Store" /\ UNCHANGED ctrl
    BY DEF StoringStep, StoreEntry
  <1>4. CASE StoreCold
    <2>1. kind = "C" /\ kind' = "H" /\ refcount' = 0
      BY <1>4 DEF StoreCold
    <2>2. Observed = Entries /\ Observed' = Entries'
      BY <1>2, <2>1, ObservedIs DEF Pending, Observed, Entries
    <2>3. NewEntry = M!Observation("C", access_time) /\ cur.job = ctrl.job
      BY <1>3, <2>1, EntryIsObservation
    <2>4. M!LastJob < ctrl.job
      BY <1>3, <2>1, <2>3, LogIsPast DEF Pending
    <2>5. ctrl.job > M!LastJob
      <3>1. M!LastJob \in Nat
        <4>1. CASE Entries = <<>>
          BY <2>2, <4>1 DEF M!LastJob
        <4>2. CASE Entries # <<>>
          <5>1. Entries[Len(Entries)] \in Entry
            BY <1>1, <4>2, EmptySeq
          <5> QED
            BY <2>2, <4>2, <5>1 DEF M!LastJob, Entry
        <4> QED
          BY <4>1, <4>2
      <3> QED
        BY <2>4, <3>1 DEF TypeInv, TypeOK, Page
    <2> QED
      BY <1>1, <1>3, <2>1, <2>2, <2>3, <2>5, SizesAssumption DEF M!MeasureCold
  <1>5. CASE StoreHot
    <2>1. kind = "H" /\ kind' = "H" /\ refcount' = refcount + 1
      BY <1>5 DEF StoreHot
    <2>2. Observed = Entries /\ Observed' = Entries'
      BY <1>2, <2>1, ObservedIs DEF Pending, Observed, Entries
    <2>3. NewEntry = M!Observation("H", access_time)
      BY <1>3, <2>1, EntryIsObservation
    <2>4. refcount < REFTOTAL /\ refcount \in Nat
      BY <1>3, <2>1 DEF TypeInv, TypeOK, HotBound
    <2> QED
      BY <1>1, <1>3, <2>1, <2>2, <2>3, <2>4, SizesAssumption DEF M!MeasureHot
  <1>6. CASE StorePreempted
    <2>1. kind = "P" /\ kind' = "P" /\ pc' = "Test" /\ UNCHANGED refcount
      BY <1>6 DEF StorePreempted, Goto
    <2>2. Observed = Append(Entries, NewEntry)
      BY <1>3, <2>1, ObservedIs DEF Pending
    <2>3. Observed' = Entries'
      BY <1>2, <2>1 DEF Observed, Entries
    <2> QED
      BY <1>1, <1>3, <2>1, <2>2, <2>3 DEF M!mvars
  <1> QED
    BY <1>4, <1>5, <1>6 DEF StoringStep

\* With cli() effective the measuring loop implements the specification
\* Measurement: every data point is one atomic observation of the control
\* page, a job's REFTOTAL hot accesses follow its cold one without the kernel
\* moving, and a switch is measured at most once (lines 112-276).
THEOREM LoopImplementsMeasurement == Spec => ImplementsMeasurement
  <1>1. Init /\ masks => M!MeasurementInit
    <2> SUFFICES ASSUME Init PROVE M!MeasurementInit
      OBVIOUS
    <2>1. ctrl \in M!FirstPages
      BY DEF Init, M!FirstPages
    <2>2. kind = "C" /\ history = <<>>
      BY DEF Init
    <2>3. [k \in 1 .. Len(history) |-> history[k].entry] = <<>>
      BY <2>2
    <2>4. Observed = <<>>
      BY <2>2, <2>3, EmptySeq, ConcatEmptySeq DEF Observed
    <2> QED
      BY <2>1, <2>2, <2>4 DEF M!MeasurementInit
  <1>2. /\ TypeInv /\ CleanInv /\ BehindInv /\ Trailing /\ PastInv /\ SettledInv /\ [Next]_vars
        => [masks => M!MeasurementNext]_(M!mvars)
    <2> SUFFICES ASSUME TypeInv, CleanInv, PastInv, SettledInv, [Next]_vars, masks
                 PROVE  M!MeasurementNext \/ UNCHANGED M!mvars
      OBVIOUS
    <2>1. access_time \in Times
      BY DEF TypeInv, TypeOK
    <2>2. CASE Kernel
      BY <2>2, KernelRefines DEF M!MeasurementNext
    <2>3. CASE CheckCpu
      BY <2>1, <2>3, CheckRefines DEF M!MeasurementNext
    <2>4. CASE StoringStep
      BY <2>1, <2>4, StoreRefines DEF M!MeasurementNext
    <2>5. CASE ~Kernel /\ ~CheckCpu /\ ~StoringStep
      BY <2>5, QuietRefines
    <2> QED
      BY <2>2, <2>3, <2>4, <2>5
  <1> QED
    BY TypeAlways, CleanAlways, SettledAlways, <1>1, <1>2, PTL DEF Spec, ImplementsMeasurement

=============================================================================

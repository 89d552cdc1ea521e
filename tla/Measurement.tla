----------------------------- MODULE Measurement -----------------------------
(***************************************************************************)
(* What the measuring loop of bin/pm_task.c promises when cli() works: each *)
(* data point is one atomic observation of the control page.  A job is     *)
(* observed once with a cold and REFTOTAL times with a hot cache, and the  *)
(* kernel does not move in between; a switch is observed at most once,     *)
(* with its own length.  Nothing is said of the copies, flags and buffers  *)
(* the loop needs for this.                                                *)
(***************************************************************************)
EXTENDS Integers, Sequences

CONSTANTS
  REFTOTAL,      \* hot accesses per job
  Processors,    \* the cpus
  AccessTimes    \* what timing an access can give

VARIABLES
  page,          \* the control page: job, sched, cpu
  log,           \* the data points, oldest first
  owed           \* hot accesses the current job still lacks

mvars == <<page, log, owed>>

LastJob == IF log = <<>> THEN 0 ELSE log[Len(log)].job_count

Observation(type, time) ==
  [access_type |-> type, access_time |-> time,
   cpu |-> page.cpu, job_count |-> page.job, sched_count |-> page.sched,
   preemption_length |-> IF type = "P" THEN <<page.sched, page.sched>> ELSE <<0, 0>>]

\* The first job may have been released when the task first looks.
FirstPages == [job : {0, 1}, sched : {1}, cpu : Processors]

MeasurementInit ==
  /\ page \in FirstPages
  /\ log = <<>>
  /\ owed = 0

\* The kernel switches, migrates, releases a job, or all of this at once.
Later(old, new) ==
  /\ new.job >= old.job
  /\ new.sched >= old.sched
  /\ new.sched = old.sched => new.cpu = old.cpu

KernelMoves ==
  /\ owed = 0
  /\ Later(page, page')
  /\ UNCHANGED <<log, owed>>

MeasureCold(time) ==
  /\ owed = 0
  /\ page.job > LastJob
  /\ log' = Append(log, Observation("C", time))
  /\ owed' = REFTOTAL
  /\ UNCHANGED page

MeasureHot(time) ==
  /\ owed > 0
  /\ log' = Append(log, Observation("H", time))
  /\ owed' = owed - 1
  /\ UNCHANGED page

MeasurePreempted(time) ==
  /\ owed = 0
  /\ log # <<>>
  /\ page.sched > log[Len(log)].sched_count
  /\ log' = Append(log, Observation("P", time))
  /\ UNCHANGED <<page, owed>>

MeasurementNext ==
  \/ KernelMoves
  \/ \E time \in AccessTimes : MeasureCold(time) \/ MeasureHot(time) \/ MeasurePreempted(time)

MeasurementSpec == MeasurementInit /\ [][MeasurementNext]_mvars
=============================================================================

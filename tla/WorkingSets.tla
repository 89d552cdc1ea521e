---------------------------- MODULE WorkingSets ----------------------------
(***************************************************************************)
(* The memory behind the measuring loop: the rows of mem_block that        *)
(* bin/pm_task.c cycles through, the sweeps of include/pm_arch.h over one  *)
(* of them, the caches, and the polluters of bin/pm_polluter.c and         *)
(* bin/memthrash.c that share them.                                        *)
(*                                                                         *)
(* Each data point of Measurement gets as its time the misses of its       *)
(* sweep.  Memory is counted in lines; a cache is the sequence of the      *)
(* lines it holds, the most recently used first.                           *)
(***************************************************************************)
EXTENDS Measurement, LruCache

CONSTANTS
  WSS,           \* lines of a working set, INTS_PER_WSS
  CHUNK,         \* lines one call of readwrite_one_thousand_ints() touches
  CACHESIZE,     \* lines a cache holds
  CacheOf,       \* the cache each cpu goes through
  MaxPollution   \* bound on the lines the polluters touch

ASSUME WorkingSetAssumption ==
  /\ WSS \in Nat \ {0}
  /\ CHUNK \in Nat \ {0}
  /\ CACHESIZE \in Nat \ {0}
  /\ WSS <= 2 * CACHESIZE

VARIABLES
  curr_ws,       \* row of mem_block in use; 0 before the first job
  caches,        \* lines in each cache
  pollution,     \* lines the polluters have touched
  polled         \* has found nothing to measure and is about to touch a line

memvars == <<curr_ws, caches, pollution, polled>>

Caches == {CacheOf[c] : c \in Processors}
Foreign == -1    \* a line of another process

-----------------------------------------------------------------------------
(* Rows and sweeps.                                                        *)

\* Mutant of Row: half of the rows are enough.
RowOfFew(job) == (job % (CACHESIZE \div WSS)) + 2

\* job % NUMWS as the C compiler reads it: NUMWS is an unparenthesised sum.
Row(job) == (job % ((CACHESIZE * 2) \div WSS)) + 2

\* for (; mem_ptr < mem_ptr_end; mem_ptr += 1024): each call of
\* readwrite_one_thousand_ints() goes over CHUNK lines.
SweepLength == CHUNK * ((WSS + CHUNK - 1) \div CHUNK)

\* The lines a sweep of a row reads and, at every fourth integer, stores to,
\* in the order of their addresses.
Sweep(row) == row * WSS .. row * WSS + SweepLength - 1

-----------------------------------------------------------------------------
(* The caches.                                                             *)

Touch(lines, x) == AfterTouching(lines, CACHESIZE, <<x>>)

\* The line at p is touched.
ToFront(lines, p) ==
  [q \in DOMAIN lines |-> lines[IF q = 1 THEN p ELSE IF q <= p THEN q - 1 ELSE q]]

Here == CacheOf[page.cpu]

\* What a sweep of a row is timed as on the current cpu.
Misses(row) ==
  Cardinality({x \in Sweep(row) : ~Hits(caches[Here], CACHESIZE, row * WSS .. x - 1, x)})

\* The lines of a sweep, the last one first.
Latest(row) == [k \in 1 .. SweepLength |-> row * WSS + SweepLength - k]

\* One sweep of a row through the cache of the current cpu.  Every line is
\* stored to, which takes it away from the other caches.
Timed(row) ==
  /\ caches' = [c \in Caches |->
                  IF c = Here THEN AfterTouching(caches[c], CACHESIZE, Latest(row))
                  ELSE Without(caches[c], Sweep(row))]
  /\ curr_ws' = row
  /\ UNCHANGED <<pollution, polled>>

-----------------------------------------------------------------------------
(* The task.                                                               *)

\* A new process: its mem_block is not cached, and what is there is foreign.
\* The pages are locked long before the first job, so what touching them then
\* left in the caches is taken to be gone.
FreshProcess ==
  /\ curr_ws' = 0
  /\ caches' = [c \in Caches |-> [k \in DOMAIN caches[c] |-> Foreign]]
  /\ polled' = FALSE
  /\ UNCHANGED pollution

WorkingSetsInit ==
  /\ curr_ws = 0
  /\ caches = [c \in Caches |-> <<>>]
  /\ pollution = 0
  /\ polled = FALSE

\* while (curr_job_count * task_period < SIMRUNTIME): last is the first job
\* for which this is false.
Running(last) == owed > 0 \/ LastJob < last

ColdAccess ==
  /\ ~polled
  /\ LET row == Row(page.job) IN MeasureCold(Misses(row)) /\ Timed(row)

\* Mutant of HotAccess: the row of the next job is swept.
HotAccessAhead == LET row == Row(page.job + 1) IN MeasureHot(Misses(row)) /\ Timed(row)

HotAccess == MeasureHot(Misses(curr_ws)) /\ Timed(curr_ws)

\* A job released after its number was compared does not change the row.
PreemptedAccess ==
  /\ ~polled
  /\ MeasurePreempted(Misses(curr_ws)) /\ Timed(curr_ws)

\* Neither the job nor the switch has changed.  The job is compared first: it
\* may change before the switch is compared, which then has not changed here
\* either.
Poll ==
  /\ ~polled
  /\ owed = 0
  /\ log # <<>>
  /\ page.job = LastJob
  /\ page.sched = log[Len(log)].sched_count
  /\ polled' = TRUE
  /\ UNCHANGED <<mvars, curr_ws, caches, pollution>>

\* Then a random line of the row is read or written, with interrupts on: by
\* now the task may have been preempted and run on another cpu.  A line that
\* is written is taken away from the other caches.
KeepWarm ==
  /\ polled
  /\ polled' = FALSE
  /\ \E k \in 0 .. WSS - 1, written \in BOOLEAN :
       LET x == curr_ws * WSS + k
       IN  caches' = [c \in Caches |->
                        IF c = Here THEN Touch(caches[c], x)
                        ELSE IF written THEN Without(caches[c], {x}) ELSE caches[c]]
  /\ UNCHANGED <<mvars, curr_ws, pollution>>

-----------------------------------------------------------------------------
(* The kernel and the polluters.                                           *)

\* most bounds sched_count.
Switch(most) ==
  /\ page.sched < most
  /\ \E c \in Processors : page' = [page EXCEPT !.sched = @ + 1, !.cpu = c]
  /\ KernelMoves
  /\ UNCHANGED memvars

Release(last, most) ==
  /\ page.job < last
  /\ \/ page' = [page EXCEPT !.job = @ + 1]
     \/ /\ page.sched < most
        /\ \E c \in Processors :
             page' = [job |-> page.job + 1, sched |-> page.sched + 1, cpu |-> c]
  /\ KernelMoves
  /\ UNCHANGED memvars

\* A polluter touches a random line of its own memory, on any cpu and while
\* the task measures too; the line may be cached already.
Pollute ==
  /\ pollution < MaxPollution
  /\ pollution' = pollution + 1
  /\ \E c \in Caches :
       \/ caches' = [caches EXCEPT ![c] = Capped(<<Foreign>> \o @, CACHESIZE)]
       \/ \E p \in 1 .. Len(caches[c]) :
            /\ caches[c][p] = Foreign
            /\ caches' = [caches EXCEPT ![c] = ToFront(@, p)]
  /\ UNCHANGED <<mvars, curr_ws, polled>>

Measuring(last, most) ==
  /\ Running(last)
  /\ \/ ColdAccess \/ HotAccess \/ PreemptedAccess \/ Poll \/ KeepWarm
     \/ Switch(most) \/ Release(last, most) \/ Pollute

-----------------------------------------------------------------------------
(* Properties.                                                             *)

WSCycle == (CACHESIZE * 2) \div WSS

IsColdAt(k) == log[k].access_type = "C"

\* Between data point k and the one before it the kernel switched at most
\* once, so that the task ran nowhere else in the meantime.
AtMostOneSwitch(k) == log[k].sched_count <= log[k - 1].sched_count + 1

\* "Cache-cold accesses" (pm_task.c:145) are cold because of NUMWS: the first
\* use of a row misses every line of it, and when it comes round again after
\* WSCycle - 1 other jobs were measured through the same cache and no other,
\* at most what those left room for is still there.  (A job that was measured
\* on another cpu too leaves this cache with room for the rows before it, and
\* so does one that visited another cpu between two data points: its write to
\* keep the row warm (pm_task.c:296) then takes a line from this cache.)
ColdAccessesMiss ==
  WSS % CHUNK = 0 =>
    \A k \in 1 .. Len(log) : IsColdAt(k) =>
      LET job == log[k].job_count
          fresh == \A l \in 1 .. k - 1 : IsColdAt(l) => Row(log[l].job_count) # Row(job)
          between ==
            /\ \A n \in job - WSCycle + 1 .. job - 1 :
                 \E l \in 1 .. k - 1 : IsColdAt(l) /\ log[l].job_count = n
            /\ \A l \in 1 .. k - 1 : log[l].job_count > job - WSCycle =>
                 CacheOf[log[l].cpu] = CacheOf[log[k].cpu] /\ AtMostOneSwitch(l + 1)
          room == CACHESIZE - (WSCycle - 1) * WSS
      IN  /\ fresh => log[k].access_time = WSS
          /\ between => log[k].access_time >= WSS - (IF room > 0 THEN room ELSE 0)

\* "Best case" (pm_task.c:176): while a working set and all the pollution so
\* far fit in a cache together, a hot access does not miss.  An access after
\* a preemption that came back to the same cache misses one line at most,
\* however often the task was elsewhere in the meantime: the line it wrote
\* there to keep its row warm (pm_task.c:296), having last compared the
\* switches before it left.  With a single switch it misses none.
HotAccessesHit ==
  WSS % CHUNK = 0 /\ WSS + pollution <= CACHESIZE =>
    \A k \in 1 .. Len(log) :
      /\ log[k].access_type = "H" => log[k].access_time = 0
      /\ log[k].access_type = "P" /\ CacheOf[log[k].cpu] = CacheOf[log[k - 1].cpu] =>
           log[k].access_time <= IF AtMostOneSwitch(k) THEN 0 ELSE 1
=============================================================================

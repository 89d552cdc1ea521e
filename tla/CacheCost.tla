----------------------------- MODULE CacheCost -----------------------------
(***************************************************************************)
(* bin/cache_cost.c: do_random_experiment() and the loop of main() around  *)
(* it.  Each round of the experiment takes a fresh working set from the    *)
(* arena, times one cold and three hot accesses of it with interrupts off, *)
(* migrates (or not), sleeps, and times one more access.                   *)
(*                                                                         *)
(* The memory is a single LRU cache of cache_words words, the largest one  *)
(* of the machine, which all cpus share.  Times are left out; what the     *)
(* model keeps of a timed access is how many of its words missed.          *)
(***************************************************************************)
EXTENDS Arena, LruCache

CONSTANTS
  CacheSizes,    \* words the largest cache can hold
  NumCpus,       \* -m
  SampleCounts,  \* -c; 0 means no limit
  SleepMin, SleepMax,    \* -x and -y
  NsecPerUsec,
  NsecPerSec,    \* the least tv_nsec nanosleep() refuses
  Repetitions    \* -R

ASSUME CacheCostAssumption ==
  /\ CacheSizes \subseteq Nat \ {0}
  /\ NumCpus \in Nat \ {0}
  /\ SampleCounts \subseteq Nat
  /\ SleepMin \in Nat /\ SleepMax \in Nat /\ SleepMin <= SleepMax
  /\ NsecPerUsec \in Nat /\ NsecPerSec \in Nat
  /\ Repetitions \in Nat \ {0}

VARIABLES
  sample_count, best_effort, exit_after,   \* the command line, with size
  cache_words,                     \* the machine
  pc,
  rep,                             \* repetitions begun
  cache,                           \* words cached, most recently used first
  np,                              \* TRUE between cli() and sti()
  cpu,                             \* the cpu this process is bound to
  last_cpu, next_cpu, delay, show,
  preempt_counter, migration_counter,
  hot,                             \* hot accesses timed in this round
  missed,                          \* words that missed in the latest timed access
  src, tgt,                        \* history: where cold and after_resume were timed
  rows                             \* history: the rows of this experiment, by kind

options == <<size, sample_count, best_effort, exit_after, cache_words>>
arenavars == <<arena_pos, mem, last_mem>>
roundvars == <<last_cpu, next_cpu, delay, show>>
counters == <<preempt_counter, migration_counter>>
timing == <<cache, hot, missed, src, tgt>>
vars == <<options, pc, rep, arenavars, np, cpu, roundvars, counters, timing, rows>>

Cpus == 0 .. NumCpus - 1

\* Only whether a counter exceeds sample_count matters, so the model stops
\* counting one above it, ...
Count(n) == IF n <= sample_count THEN n + 1 ELSE n

\* ... and rows two above it, where there would be one too many.
CountRow(n) == IF n <= sample_count + 1 THEN n + 1 ELSE n

Init ==
  /\ ArenaInit
  /\ sample_count \in SampleCounts
  /\ best_effort \in BOOLEAN
  /\ exit_after \in BOOLEAN
  /\ cache_words \in CacheSizes
  /\ pc = "Begin"
  /\ rep = 0
  /\ cache = <<>>
  /\ np = FALSE
  /\ cpu \in Cpus
  /\ last_cpu = 0 /\ next_cpu = 0
  /\ delay = SleepMin
  /\ show = TRUE
  /\ preempt_counter = 0 /\ migration_counter = 0
  /\ hot = 0
  /\ missed = 0
  /\ src = 0 /\ tgt = 0
  /\ rows = [preemption |-> 0, migration |-> 0]

-----------------------------------------------------------------------------
(* The cache.                                                              *)

\* The cache after some words were touched, the last one of them first.
Used(words) == AfterTouching(cache, cache_words, words)

\* A sweep over n words.
Swept(first, n) == [k \in 1 .. n |-> first + n - k]

\* Mutant of Touched: the sweep skips the last word.
TouchedPartly == Used(<<mem>> \o Swept(mem + 1, size - 2))

\* touch_mem() sweeps the working set and its result is stored in mem[0].
Touched == Used(<<mem>> \o Swept(mem + 1, size - 1))

TimedAccess ==
  /\ missed' = Cardinality({w \in mem .. mem + size - 1 : ~Hits(cache, cache_words, mem .. w - 1, w)})
  /\ cache' = Touched

-----------------------------------------------------------------------------
(* One round of the experiment.                                            *)

Goto(from, to) == pc = from /\ pc' = to
Die(from) == Goto(from, "Died")

\* migrate_to(): the cpu may be offline by now.
MigrateTo(target) == cpu' = target

BeginExperiment ==
  /\ Goto("Begin", "Loop")
  /\ MigrateTo(0)
  /\ last_cpu' = 0
  /\ rep' = rep + 1
  /\ ResetArena
  /\ cache' = Used(Swept(0, ARENA_SIZE))
  /\ show' = TRUE
  /\ preempt_counter' = 0 /\ migration_counter' = 0
  /\ rows' = [preemption |-> 0, migration |-> 0]
  /\ UNCHANGED <<options, np, next_cpu, delay, hot, missed, src, tgt>>

\* Mutant of MoreToDo: enough of one kind ends the experiment.
MoreToDoOfOne ==
  \/ sample_count = 0
  \/ /\ sample_count >= preempt_counter
     /\ NumCpus > 1 => sample_count >= migration_counter

MoreToDo ==
  \/ sample_count = 0
  \/ sample_count >= preempt_counter
  \/ NumCpus > 1 /\ sample_count >= migration_counter

EndExperiment ==
  /\ ~MoreToDo
  /\ Goto("Loop", IF rep < Repetitions THEN "Begin" ELSE "Done")
  /\ UNCHANGED <<options, rep, arenavars, np, cpu, roundvars, counters, timing, rows>>

Draw(target) ==
  /\ MoreToDo
  /\ Goto("Loop", "Allocate")
  /\ delay' \in SleepMin .. SleepMax
  /\ next_cpu' = target
  /\ show' = IF sample_count = 0 THEN show
             ELSE IF target = last_cpu THEN sample_count >= preempt_counter
             ELSE sample_count >= migration_counter
  /\ UNCHANGED <<options, rep, arenavars, np, cpu, last_cpu, counters, timing, rows>>

\* pick_cpu(): half of the draws are preemptions, all of them with one cpu.
DrawPreemption == Draw(last_cpu)
DrawMigration == \E c \in Cpus \ {last_cpu} : Draw(c)

\* The working set is taken and interrupts are turned off for the cold and
\* the hot accesses.
TakeMem ==
  /\ Goto("Allocate", "Cold")
  /\ Allocate
  /\ np' = ~best_effort
  /\ hot' = 0
  /\ UNCHANGED <<options, rep, cpu, roundvars, counters, cache, missed, src, tgt, rows>>

AllocateFails ==
  /\ TooLarge
  /\ Die("Allocate")
  /\ UNCHANGED <<options, rep, arenavars, np, cpu, roundvars, counters, timing, rows>>

TimeCold ==
  /\ Goto("Cold", "Hot")
  /\ TimedAccess
  /\ src' = cpu
  /\ UNCHANGED <<options, rep, arenavars, np, cpu, roundvars, counters, hot, tgt, rows>>

TimeHot ==
  /\ hot < 3
  /\ Goto("Hot", "Hot")
  /\ TimedAccess
  /\ hot' = hot + 1
  /\ UNCHANGED <<options, rep, arenavars, np, cpu, roundvars, counters, src, tgt, rows>>

SetNp(from, to, value) ==
  /\ Goto(from, to)
  /\ np' = value
  /\ UNCHANGED <<options, rep, arenavars, cpu, roundvars, counters, timing, rows>>

StiBeforeMigration == hot = 3 /\ SetNp("Hot", "Migrate", FALSE)

Migrate ==
  /\ Goto("Migrate", "Sleep")
  /\ MigrateTo(next_cpu)
  /\ UNCHANGED <<options, rep, arenavars, np, roundvars, counters, timing, rows>>

MigrationFails ==
  /\ Die("Begin") \/ Die("Migrate")
  /\ UNCHANGED <<options, rep, arenavars, np, cpu, roundvars, counters, timing, rows>>

\* sleep_us() fills tv_nsec only, with an int product, and nanosleep() takes
\* it between 0 and a second: longer delays are refused, except those whose
\* product overflows to such a number.
tv_nsec == AsInt(delay * NsecPerUsec)
Sleeps == tv_nsec \in 0 .. NsecPerSec - 1

Sleep == Sleeps /\ SetNp("Sleep", "Resume", ~best_effort)

\* Mutant of SleepFails: nanosleep() is called again with the same delay.
SleepAgain ==
  /\ ~Sleeps
  /\ Goto("Sleep", "Sleep")
  /\ UNCHANGED <<options, rep, arenavars, np, cpu, roundvars, counters, timing, rows>>

SleepFails ==
  /\ ~Sleeps
  /\ Die("Sleep")
  /\ UNCHANGED <<options, rep, arenavars, np, cpu, roundvars, counters, timing, rows>>

TimeResume ==
  /\ Goto("Resume", "Print")
  /\ TimedAccess
  /\ tgt' = cpu
  /\ np' = FALSE
  /\ UNCHANGED <<options, rep, arenavars, cpu, roundvars, counters, hot, src, rows>>

Kind == IF next_cpu = last_cpu THEN "preemption" ELSE "migration"

PrintRow ==
  /\ Goto("Print", "Count")
  /\ rows' = IF show THEN [rows EXCEPT ![Kind] = CountRow(@)] ELSE rows
  /\ UNCHANGED <<options, rep, arenavars, np, cpu, roundvars, counters, timing>>

\* Mutant of CountRound: the next round starts from the old cpu.
CountRoundAndStay ==
  /\ Goto("Count", "Loop")
  /\ IF next_cpu = last_cpu
       THEN /\ preempt_counter' = Count(preempt_counter)
            /\ UNCHANGED migration_counter
       ELSE /\ migration_counter' = Count(migration_counter)
            /\ UNCHANGED preempt_counter
  /\ UNCHANGED <<options, rep, arenavars, np, cpu, next_cpu, delay, show, timing, rows, last_cpu>>

CountRound ==
  /\ Goto("Count", "Loop")
  /\ IF next_cpu = last_cpu
       THEN /\ preempt_counter' = Count(preempt_counter)
            /\ UNCHANGED migration_counter
       ELSE /\ migration_counter' = Count(migration_counter)
            /\ UNCHANGED preempt_counter
  /\ last_cpu' = next_cpu
  /\ UNCHANGED <<options, rep, arenavars, np, cpu, next_cpu, delay, show, timing, rows>>

\* SIGALRM after exit_after seconds: on_sigalarm() exits.  No signal is
\* delivered while interrupts are off.
Alarm ==
  /\ exit_after
  /\ ~np
  /\ pc \notin {"Died", "Done", "Exited"}
  /\ pc' = "Exited"
  /\ UNCHANGED <<options, rep, arenavars, np, cpu, roundvars, counters, timing, rows>>

-----------------------------------------------------------------------------
Finished == pc \in {"Died", "Done", "Exited"}
Returned == Finished /\ UNCHANGED vars

Round == TakeMem \/ AllocateFails \/ TimeCold \/ TimeHot \/ StiBeforeMigration
         \/ Migrate \/ MigrationFails \/ Sleep \/ SleepFails \/ TimeResume
         \/ PrintRow \/ CountRound

Next == BeginExperiment \/ EndExperiment \/ DrawPreemption \/ DrawMigration
        \/ Round \/ Alarm \/ Returned

Spec == Init /\ [][Next]_vars

\* The process runs, random() keeps producing preemptions and migrations,
\* and a signal stays pending until it is delivered.
FairSpec ==
  /\ Spec
  /\ WF_vars(BeginExperiment \/ EndExperiment \/ Round)
  /\ SF_vars(DrawPreemption)
  /\ SF_vars(DrawMigration)
  /\ SF_vars(Alarm)

-----------------------------------------------------------------------------
(* Properties.                                                             *)

\* The arena "must be larger than the largest cache in the system"
\* (cache_cost.c:90).  When it is three times as large, no word of the
\* working set is cached when the cold access is timed; from one and a half
\* times on only mem[0] can be, which is stored to last and read first.  A
\* working set that fits the cache is all there when the hot ones are timed.
ColdIsColdHotIsHot ==
  /\ pc = "Hot" /\ hot = 0 /\ ARENA_SIZE >= 3 * cache_words => missed = size
  /\ pc = "Hot" /\ hot = 0 /\ 2 * ARENA_SIZE >= 3 * cache_words => missed >= size - 1
  /\ pc = "Hot" /\ hot > 0 /\ size <= cache_words => missed = 0

\* The columns SRC and TGT of a row, last_cpu and next_cpu, name the cpus
\* the cold and hot accesses and the one after resuming were timed on, also
\* in the first round of a repetition.
RowsNameTheirCpus ==
  pc = "Print" => last_cpu = src /\ next_cpu = tgt

Ended == pc \in {"Begin", "Done"} /\ rep > 0

\* Whatever the random generator drew, and however much more of one kind
\* than of the other, an experiment that ends by itself has printed as many
\* rows of migrations as of preemptions (none with one cpu): show drops
\* exactly the rows in excess (lines 238-246).  They are never fewer than the
\* experiment was asked for; comparing with >= makes them one more than "-c:
\* Number of generated samples" (line 357).
KindsAreEven ==
  Ended =>
    /\ rows.preemption >= sample_count
    /\ rows.migration = IF NumCpus = 1 THEN 0 ELSE rows.preemption

\* With a sample count or a duration, cache_cost comes to an end.
Ends == sample_count > 0 \/ exit_after => <>Finished
=============================================================================

# CPMD experiments: specifications and proofs

cpmd-experiments measures the cost of *cache-related preemption and migration
delay* (CPMD) under the LITMUS^RT kernel. A real-time task times accesses to its
working set with a cold cache, with a hot one, and after it was preempted or
migrated, and appends the data points to a trace file. An offline pass turns a
trace into overheads (the time of an access after a preemption less that of the
cheapest hot access of the same job), sorts them by the cache level the two cpus
share, and reports maxima and averages. A second program, `cache_cost`, measures
the same quantity without LITMUS^RT.

The numbers end up in schedulability studies. A data point attributed to the
wrong cpu, job or switch, a baseline taken from another job, or a file left out
of a report is not a crash: it is a wrong number nobody sees. That is what these
specifications are about.

Line numbers refer to the files under `src/`.


## 1. The system

### Parts

| part | code | state | operations |
|---|---|---|---|
| measuring loop | `bin/pm_task.c`, `include/pm_common.h` | copies of the control page (`curr_job_count`, `curr_sched_count`, `curr_cpu`), row of `mem_block`, `preemption_length`, `refcount`, ring buffer `data_points` with `data_count` and `data_wrapped` | poll the page; snapshot it; one cold, `REFTOTAL` hot, or one after-preemption access; re-validate; store; save |
| control page and scheduler | LITMUS^RT, used by `bin/pm_task.c` | `job_count`, `sched_count`, `cpu`, `preempt_start`, `preempt_end` | switch to the task (perhaps on another cpu); release the next job |
| trace file | `bin/pm_common.c` 23-174 | the file; the reader's buffer | append the data points of a run in blocks; read a file whole |
| overhead scan | `bin/pm_common.c` 249-432 | five arrays, hot-access counters, the baseline, the last cpu | one pass over the samples |
| rough statistics | `bin/pm_common.c` 176-220 | least, greatest, mean and squared differences per kind | one pass over the times of each kind |
| levels | `bin/pm_common.c` 440-652 | output arrays per cache level | sort overheads by the level two cpus share, in a linear numbering (`get_ovd_plen`) or across the chips (`get_ovd_plen_umaxeon`) |
| pm module | `c2python/pmmodule.c` | four global pointers, `is_loaded` | `load`, `getPreemption`, `getL2Migration`, `getOnChipMigration`, `getOffChipMigration` |
| data analyzer | `data_analysis/pm_data_analyzer.py` (with `pmserialize.py`, `statanalyzer.py`, `defapp.py`) | collected vectors by task set size, minimum sample counts, saved vectors, the csv rows | per file: start a group, load, fetch arrays, save, collect; report |
| cache cost experiment | `bin/cache_cost.c` | arena, bound cpu, counters of preemptions and migrations, delay | reset the arena; draw a target; take memory; time cold, hot and resumed accesses; migrate; sleep; print |
| working sets, access primitives | `bin/pm_task.c` 135-148, `include/pm_arch.h` | rows of `mem_block`; the caches | sweep a row, a thousand integers at a time; keep it warm |
| page map | `bin/pagemap.c` | none; fills an array of its caller | physical addresses of a working set |
| cycle counter, interrupt flag | `include/x86-*.h` | none that outlives a call | time stamps; `cli`/`sti` |
| polluters | `bin/pm_polluter.c`, `bin/memthrash.c` | one array | endless accesses |
| cache topology | `scripts/cachetopology.py` | the caches of each cpu, the migration table | level of a migration; levels there are |
| CPMD model scripts | `scripts/build_cpmd_model.py`, `export_overheads.py`, `cpmd_util.py`, `cpmd_params.py` | the directories `traces`, `completed`, `model`, `ovset` under `results` | obtain traces; group rows by level; filter and sum up; export |
| batch scripts | `scripts/pm_test_*` | none | run the experiments, end them with `killall` |

### How they interact

              caches <──sweeps── pm_task, polluters

    LITMUS^RT kernel ──control page──> pm_task ──append──> trace file
                                                              │ read_sdata_entry
                                                              v
                          pm module <──full_costs── get_valid_ovd
                             │ load / get*
                             v
                       pm_data_analyzer ──> .vbin files, csv, statistics

    cache_cost ──rows──> results/traces ──> results/completed ──> results/model
                             build_cpmd_model.py, with CacheTopology    │
                                               export_overheads.py <────┘

The kernel writes the control page *while* the task reads it: the only real
concurrency on shared memory, and the reason for `cli`/`sti` and for the
re-validation after every timed access. Runs of `pm_task` share the trace file
one after another and are ended with `killall`. The trace file has no record
boundary, no job number and no header: the scan finds the jobs again by counting
hot accesses. The pm module keeps four C arrays alive between calls of the
Python program. `cache_cost` is bound to one cpu at a time and is interrupted by
`SIGALRM`. The model scripts speak to each other and to their own earlier runs
through directories: what a file's existence means depends on who was killed when.

### Which behaviours are hard, and what must hold

* **Reading a page that moves.** Three fields are compared at three different
  times by the poll, copied at three more, and compared again. A data point must
  not be called valid when the kernel moved during its measurement; a preemption
  length must belong to the switch recorded with it.
* **A ring buffer.** What is saved must be a contiguous run of the latest data
  points whatever the buffer did.
* **Recovering structure from a flat file.** Each overhead must be measured
  against its own job's baseline and name the right cpus; nothing valid may be
  lost, across partly invalid jobs and traces that end in the middle.
* **Partial failure.** Killed writers, failed or short writes, failed
  allocations: what is left must be readable and nothing may leak.
* **A cyclic arena and a real cache.** Successive working sets must not share a
  word, and must be out of the cache by the time they are used again.
* **Global state across calls.** Load and fetch in any order must not mix two
  traces.
* **Grouping by look-ahead.** The analyzer decides on a group from the file
  before and on the last file by equality; every file must be reported once,
  at the right level, from its own samples.
* **A chain of parts that trust each other.** The scan trusts the shape of the
  trace, the trace the ring buffer and the writer, and the baseline the caches.
  What an overhead is worth shows only at the end of the chain.
* **Results that outlive the program.** A build interrupted anywhere and started
  again must not mix old rows with new ones, and the two halves of the topology
  code (level of a migration, list of levels) must agree.


## 2. Modules

| module | models | states properties |
|---|---|---|
| `PmTask` | measuring loop and the kernel's side of the control page | yes |
| `Measurement` | what the measuring loop promises when `cli` works; implemented by `PmTask` (INSTANCE) | abstract specification |
| `WorkingSets` | rows, sweeps, caches and polluters behind the data points; EXTENDS `Measurement` | yes |
| `RoughStats` | the loop of `print_rough_stats` and the vectors given to it; EXTENDS `ValidOvd` | yes |
| `PmPipeline` | runs of the task, trace file, scan; composes `WorkingSets`, `TraceFile` (INSTANCE), `ValidOvd` and `RoughStats` | yes |
| `TraceFile` | `serialize_data_entry`, `read_sdata_entry` | yes |
| `ValidOvd` | `get_valid_ovd` | yes |
| `Arena` | `reset_arena`, `allocate`: what the experiment may rely on | yes (abstract) |
| `CacheCost` | `do_random_experiment` and `main`'s loop; EXTENDS `Arena`, whose steps it takes | yes |
| `PageRows` | `get_phys_addrs` and the array `cache_cost` gives it; EXTENDS `CacheCost` | yes |
| `PmModule` | the Python extension, `get_ovd_plen_umaxeon` and `get_ovd_plen` | yes |
| `PmScript` | the scripts that call the extension, in any order; EXTENDS `PmModule` | yes |
| `Analyzer` | `default()` and all it calls; composes `PmModule` (INSTANCE) | yes |
| `CacheTopology` | `cachetopology.py`, operators on a topology | reference definitions |
| `CpmdModel` | `build_cpmd_model.py`, `export_overheads.py`, `cpmd_util.py`; EXTENDS `CacheTopology` | yes |
| `MC*` | instances for TLC | |
| `PmTaskProofs`, `TraceFileProofs`, `PipelineProofs`, `CacheCostProofs`, `PmModuleProofs`, `AnalyzerProofs`, `CpmdProofs` | theorems | |
| `LruCache` | a cache that replaces the least recently used; EXTENDS `Ranking` | |
| `Ranking` | the members of a set of numbers, counted from the smallest; the elements of a sequence, sorted | |
| `CommonLemmas` | lemmas: loops, counting, ranks, sorting and caches | |

### `PmTask`

`pc` names the place in the loop; each read of the control page, each comparison
in the re-validation, each time stamp and each store is an action. `Switch` and
`NextJob` are the kernel; they are enabled wherever interrupts are on, and also
between `cli` and `sti` when `masks` is FALSE: `CliMasks` is the set of values this
constant of a behaviour may take. `cur` collects the
three `curr_` variables, `curr_ws` the row `mem_ptr` points to (0 while it is
still NULL, as it is until the first new job). `plen` keeps the *numbers of the
switches* whose two time stamps were read, so that a length mixed from two
switches can be told apart. Times come from a small set. `StartTime` and the
`Measure` state stand for the access itself. The histories `history` and
`disturbed` exist for the properties only.

The three blocks of the code (lines 124-171, 172-219, 222-263) do the same
snapshot and re-validation; the model says it once with `kind` for the block.
Where they differ the model does: the block after a preemption turns interrupts
back on before it stores, the other two after the last hot access.

### `Measurement`

The abstract specification of the loop: a page, a log of data points, and the
number of hot accesses the current job is still owed. A cold access observes a
job newer than the last one, the hot ones follow before the kernel moves, an
access after a preemption observes a switch newer than the last data point and
carries the length of that switch. Every observation is one step.
`ImplementsMeasurement` maps `PmTask` to it when `masks` holds. The log is the
history, and one entry more between the last comparison of an access after a
preemption and its store (lines 253-276): from then on that data point is fixed,
but interrupts are on again before it is stored, so the kernel may already move.
Were it logged at the store, it would name a page that is gone.

### `WorkingSets`

The steps of `Measurement` with the memory they touch. A cache is a sequence of lines,
most recently used first; `CacheOf` says which cache each cpu goes through. `Timed` is
the loop over `readwrite_one_thousand_ints()`, which stores to every line of `Sweep`, so
a sweep takes its lines away from the other caches. The time of an access is the number
of lines that missed (`Misses`), each given the lines of the sweep before it (`Hits` of
`LruCache`, which `CacheCost` uses too). `Row` is `job % NUMWS` as the compiler reads
it. `Poll` is the test that finds nothing new (`polled`), and `KeepWarm` the random
access of lines 278-296 that follows with interrupts still on: by then the task may have
been preempted and be on another cpu, and the access, if it is a write, takes the line
from the cache the row is in. `Pollute` is one access of a polluter, on any cpu and also
in the middle of a measurement: `cli` keeps the scheduler off one cpu, not the
neighbours off a shared cache. Replacement and coherence are the machine's, not the
repository's; they are external, as is the assumption that a new process finds none of
its rows cached (`init_litmus` locks, and thereby clears, all pages long before the
first job).

### `PmPipeline` and `RoughStats`

`PmPipeline` runs a plan of task runs through the caches, cuts each log to what
the ring buffer hands to `serialize_data_entry()` (`DataPoints`), lets `TraceFile`
append, fail or be killed, and has `get_valid_ovd()` read the file and scan it.
A file cell knows the run and place it is from, so a property can compare the
overhead at the end with the misses at the beginning. `RoughStats` computes with
exact fractions what the loop of `print_rough_stats()` computes in floating point;
`Seen` has its variables for every number of values seen.

### `TraceFile`

A data point is `CELLS` pieces, so that a short write can tear it. The writer's
actions are its system calls; `Killed` and `WriteFails` are possible between any
two of them, `Written` appends all or only the first few cells (`write` may
return less than it was asked to; the code compares with a negative value only).
The reader's actions are its `lseek`, its `read`s, and their failures; reader and
writer exclude each other because the analysis is run after the experiments. The
size `lseek` returns is kept in an int: `INT_MAX` (in cells) is what it can hold,
`FileSize` what is left of a larger one. The buffer is sized by it while the loop reads
to the end of the file; once it stores behind the buffer (`"Overrun"`) the model says
nothing more of the process.

### `ValidOvd`

One action for each of the five allocations, one for each kind of sample, and the
return. `Traces` is a constant: any set of sequences of samples, well-formed or
not. `WellFormed` is the shape `PmTask`'s `ColdThenHot` gives a trace; the
properties about meaning assume it, the types and the leak check do not.
`ColdOf`, `InValidPrefix`, `HasBaseline` and `IsBaseline` say independently of
the scan's counters what the baseline of a data point is.

### `Arena` and `CacheCost`

`Arena` is the abstract view: a position, the piece handed out and the one
before. `CacheCost` adds the process: command line, bound cpu, round, counters,
cache. The cache is one LRU list of words shared by all cpus (the largest cache
of the machine), because the claim in `cache_cost.c:90` is about the largest
cache. A timed access keeps how many of its words missed. `Alarm` may strike
wherever signals are delivered; a signal arriving between `cli` and `sti` stays
pending. Two products are ints and can overflow: sizes in `allocate()` (`AsInt`, with
`INT_MAX` in words) and `microseconds * 1000` in `sleep_us()` (`tv_nsec`): of the delays
that overflow some are negative and refused, others are accepted and too short.
A sleep that is refused ends the program.

### `PmModule` and `Analyzer`

`PmModule` has one action per exported function and error path. Memory is
`"null"`, `"live"` or `"freed"`; freeing freed memory stops the process. That an
array's memory is allocated, sorted into and handed out is explicit; the copying
loop is not. `load()` looks for a failing `malloc()` with `< 0`, which no pointer is,
and passes NULL to `memset()`: any `failed` array stops the process (`"nomem"`), unless
the trace is empty. `Level` says which caches two cpus share by construction of the
machine (`CoresOf`), and is compared with the arithmetic of the C code.

`PmScript` lets a script call the functions in any order and keeps three
histories: what was asked for since the last load, whether a load had L3, and
whether the script was `careful` (three rules, listed in the module). The rules are
what the code needs and does not check; memory may run out all the same.

`PageRows` adds to `CacheCost` the array `phys_addrs`: its length as
`do_random_experiment()` computes it (`wss / getpagesize()`, though `wss` is in KB),
what `get_phys_addrs()` stores into it, and what a row prints of it. The page map may
fail to open, and a look-up to seek or read, which leaves the address without a frame
(`NoFrame`). `malloc()` may give no array: nobody looks, and the process stops when it is
used. What does not fit in the array damages the heap: it may go into the text of
rows not yet written (`spoiled`), or stop the process at any later use of the heap
(`HeapAborts`). Constants scale an int, a KB and a page down to the words of `CacheCost`.

`Analyzer` follows `default()` file by file. Its Python attributes are variables
of the same name; `kept` records which of them `del` removed. A report is the
sequence of rows the code writes, each with the vector its statistics are
computed on. An exception nothing catches leads to `Raised`; a getter that fails
(`GetArrayFails`) raises one too, or stops the process when an earlier getter
has already handed out its array. `mode` is the
choice between reading raw traces, reading them with `--autocap`, and reading
`.vbin` files.

### `CacheTopology` and `CpmdModel`

A topology is a function from cpus to lists of caches; the order of the list is
that of `os.listdir`. `MigrationType` and `MigrationTypes` are the two answers the
code gives, `Nearest` the one their names promise. They agree on a `Regular`
topology: listed by level, one data cache of a level in each list, instruction
caches shared no wider than data caches, all cpus with the same levels.
`migrationType` looks at instruction caches where the table ignores them, and the
table's types are those of cpu 0. A second data cache of a level would start the
list of its type anew (line 67), and the type could go missing from the table
while `migrationType` still answers with it: the proof needed this hypothesis, and
no topology of the run violates it, so TLC had not shown the need.

`CpmdModel` has the two programs' steps as actions and the directories as
variables: a trace is a sequence of lines (the header, or a row with its number of
columns), a file of `completed` the rows grouped so far. Directory and dictionary
order are a choice. `Killed` ends a program anywhere; `End` drops what it had in
memory, and the files it had open lose what was not flushed, at any byte (`Left`,
`CutShort`): the last row can lack words (`Torn`) or digits of its last number.
The same is left where a write or a read fails. `cache_cost` may not start at all,
or leave no file, an empty one, a header, or rows. Every exception has its name in
`why`.

No row of a model is ever written. The format string of
`build_cpmd_model.py` 140-142 is `'...' + '...' % (...)`, and `%` binds before `+`: the
second half alone is applied to the twelve values, its first `%.12e` gets the
name of the type, and the statement raises a `TypeError` (`WriteRow`). So a build that
has anything to sum up sums up one size of one type (`SumUp`, remembered in
`output`), leaves an empty model file, and ends. The loop over further sizes, `close()`
at line 155 and lines 24-32 of `export_overheads.py`, which read rows, are
never executed and have no action.


## 3. Runs

| run | asks | what it shows |
|---|---|---|
| `PmTask_loop` | `cli` works, or does nothing (as the FIXMEs about G-EDF fear): are sections clean, is the re-validation alone enough, are lengths right, is the file shaped as the scan needs, time monotone, the saved run contiguous and newest, does it end, and does the loop implement `Measurement`? | all hold over all interleavings with a buffer that wraps; without `cli` a data point marked okay is still never disturbed, with the kernel moving between any two instructions |
| `PmTask_buffer` *(violation)* | is a full buffer saved once it has wrapped? | no: `data_wrapped` is recomputed at every store and forgets (line 275) |
| `PmTask_jobs` *(violation)* | does a "preemption" belong to the job before it? | no: a job released after the test of the job number and before `cli` is recorded as a preemption of the new job |
| `TraceFile_runs` | three runs killed, failing or torn at any point: what does the reader get? | the file, whole data point by data point, if its size is an int; without torn writes each run is a prefix of itself, cut at a block. Larger files occur, and overrun the buffer |
| `ValidOvd_scan` | are overheads right, complete, and is memory released? And are they, at the end of the chain, the delays the caches caused? | yes, over jobs with every mix of valid and invalid hot accesses, truncated traces, traces that begin inside a job, every failing allocation. From complete runs every overhead is exact; from files with overwritten or killed runs it is where the job is whole and the hot accesses before it come in full groups. Cold accesses miss, hot ones hit, and back on the same cache at most one line is missing; the one-pass statistics are right for every number of values seen |
| `CacheCost_rounds` | are cold accesses cold, rows named after the right cpus, both kinds printed equally often, is the arena respected, does it end? Whose physical addresses does a row show? | yes, over two repetitions with working sets that divide the arena, leave a rest, or are too large, and delays that overflow. The addresses are of the row's own working set or bare offsets, and `phys_addrs` is overrun by sets of more than a page, after which rows may be spoiled and the process aborted anywhere in the heap |
| `PmModule_levels` | are overheads sorted by the level two cpus share, and is a script stopped, over any sequence of calls and failures of `malloc()`? | a careful script's loads sort by level; only want of memory stops it, in `load()` or in a getter after another one; `get_ovd_plen` agrees with `get_ovd_plen_umaxeon` once the cpus are renumbered |
| `PmModule_reload` *(violation)* | and when a load without L3 follows one with it? | no: `samel2` is never NULL again, and the sort divides by 0 |
| `Analyzer_files` | is every file reported once, at each level, from its own samples, for any order of files, and is every C array returned? | yes for distinct files; with `--autocap` groups are even; no array is lost or freed twice unless a getter fails after another one |
| `Analyzer_single` *(violation)* | is 0 reported only where nothing was measured? | no: a vector of one overhead is reported as 0 |
| `CpmdModel_build` | are rows grouped by the nearest level, and is what the build sums up right, whatever failed or was killed before and in whatever order caches and files are listed? | yes; grouping on regular topologies. On the others the run also reaches the `KeyError` and the wrong level |
| `CpmdModel_saved` *(violation)* | are the results saved? | no: the statement that writes the first row raises a `TypeError` |

The five violation runs are disagreements between what the code says of itself
(a comment or a usage text, quoted in `PROJECT.json` under `findings`) and what
it does.

Type invariants are run for `PmTask` and `ValidOvd` and proved for these and `Arena`,
because other invariants rest on them there. Elsewhere TLC itself stops at an index
outside an array or a field a record does not have, and the bound that keeps the
reader of the trace file inside its buffer is part of `ReadsWholeFile`.

### Bounds, and why they are enough

* `PmTask`: `DATAPOINTS` 4 with `REFTOTAL` 2 makes one job (3 data points) and one
  preemption fill the buffer, so that the next job wraps it in every alignment.
  `SIMRUNTIME` 2 and `MaxJob` 2 give a first job, a second, and the end, so that a
  job can be missed or follow a job, and a preemption falls between. `MaxSched` 4
  lets a switch happen at each of the three critical places (before the section,
  between the reads, after) and once more. Two cpus are enough: the code only
  compares for equality. One access time is enough: no code of the loop decides on
  it.
* `TraceFile`: blocks of 2, reads of 3, points of 2 cells: a read begins inside a
  block and inside a torn point. Runs of 0, 3 and 4 points have no block, a block
  and a rest, and an empty rest. Three runs put a whole one after a torn one
  after a killed one. `INT_MAX` 19 lets all but the largest files (of 20 cells and
  more) have a size that is an int.
* `ValidOvd`: two jobs of two hot accesses, up to two data points between them,
  two cpus, three distinct costs of hot accesses; the invalid access is made the
  cheapest, so that counting it shows. The scan carries no state over more than
  one job, so two jobs show what can cross.
* `PmPipeline` (in the same run): working sets of 3 lines and caches of 4 give two
  rows, so the third job returns to the row of the first; a cache of 4 holds one
  row and one foreign line (a hot access still hits) but not two foreign ones,
  and `MaxPollution` 2 reaches both. A job has 3 data points, so a buffer of 5
  (`DATAPOINTS`) wraps inside the second job and, one preemption earlier or later,
  at its border. Blocks of 2 are killed inside a job, reads of 3 begin inside
  a block. One plan has two runs, for files with a run cut before another; the
  other has one run of three jobs, for a wrap followed by whole jobs. Three
  switches put a preemption, a migration and a return into one job, also between
  a polling test and its access. A private
  cache per cpu makes a migration cost what it should; the shared cache is the
  case where nothing migrates.
* `CacheCost`: 9 words, working sets of 1, 4 and 5, caches of 3 and 6: exactly
  three times, and exactly one and a half times as large as the cache, where
  "larger than the largest cache" first holds for whole working sets and
  for all but one word. Counters saturate one above the sample count (`Count`),
  which changes no comparison, and the number of rows two above it (`CountRow`).
  `INT_MAX` 31 and 22 ns per microsecond make the delay 2 overflow to a negative
  number and 3 to one `nanosleep()` takes; sizes do not overflow here.
* `PageRows`: an int of two bytes, one int per KB and pages of two bytes: a KB is two
  bytes and `wss` not the size. The array for 1 KB just fits; 4 KB are four pages,
  for which it has two places (sets of 5 KB get no memory).
* `PmModule`, `PmScript`: 8 cpus on 2 chips, the moves from two of them to all, one
  trace with every level in it and an empty one, with 1, 2 and 4 cores per L2 and without L3;
  calls in any order without bound, with every set of arrays failing.
* `Analyzer`: eleven argument lists, one to four files of up to three sizes, in and
  out of order, doubled, across directories, with empty traces; all three modes,
  with and without L3, with and without a limit; every failure.

* `CpmdModel`: two starts, so that every kill is followed by every program (the
  second one's own kill included). Two sizes and one write cycle, with a trace of
  another cycle on disk: a size has two traces, and a type files of two hosts and of a
  size that is not traced. Five topologies, of which two are regular. Traces have an
  outlier at either end, a level without samples, rows of too few and of too many
  columns, and nothing at all; leftovers have a torn row.

### Fairness

* `PmTask!FairSpec`: weak fairness of the task (the scheduler runs it again after
  every switch: it is the highest-priority work on its cpu again and again) and of
  `NextJob` (the loop never gives up the cpu, so a job exhausts its budget; that
  the task has a period is read back at lines 94-99). The kernel is not assumed to
  leave the task alone, nor to switch. `Terminates` needs both: without the
  second the task polls for ever.
* `CacheCost!FairSpec`: weak fairness of the process, strong fairness of the two
  outcomes of `pick_cpu` (`random()` produces both infinitely often; weak fairness
  would not do, because the choice is only offered once per round) and of `Alarm`,
  which is disabled in every section with interrupts off and must be delivered
  in between.


## 4. What is proved

All theorems are checked by the TLA+ proof system for every value of the
constants allowed by the modules' `ASSUME`s. These exclude zero sizes and
ill-typed sets, and state three facts of the machine: a page holds whole ints and
a working set whole KBs (`PageAssumption`), the cpus of a trace exist and the cores
of a chip are a multiple of `cores_per_l2` (`MachineAssumption`), and a `tss` is a
number (`AnalyzerAssumption`). `CpmdAssumption` says that there is a cpu 0, of which
the scripts speak by number, and that traces and files hold rows of numbers, the
header or a torn row. None bounds a size from above.

**`PmTaskProofs`.** `TypeCorrect`, `SectionsClean`, `LengthsMatch`,
`OkayIsUndisturbed`, `SavedAreRecent`, `DataPointsAdvance`, `ColdBeforeHot`,
`LoopImplementsMeasurement`.

* `TypeInv` is `TypeOK` with a sharper bound on `refcount` by place (`HotBound`).
* `CleanInv` carries the argument about `cli`. If `masks`, then inside the section
  the copies agree with the page field by field as they are read and
  `disturbed` is FALSE from `StartTime` on (`MaskedInv`), and the two switch
  numbers agree with the copy (`LengthInv`). `SectionsAreClean` is not inductive
  without these: it says nothing about the section in progress.
* For `OkayIsUndisturbed` no masking is assumed. The kernel's counters only grow,
  so the copies are never ahead of the page (`BehindInv`); if a copy equals the
  page after `end_time`, the page has not moved since the copy was made. A switch
  raises `sched_count` and a release `job_count`, so comparing both suffices.
* `RingInv`: the slots below `data_count` hold the last `data_count` data points in
  order, and when `data_wrapped` is set all slots hold the last `DATAPOINTS`. These
  are the two runs the code can save, so `SavedIsRecent` follows.
* `Trailing`: a block is only entered because a copy is behind the page, and it
  stays behind until the block has read the field again. `PastInv`: every data
  point stored so far is at most at the copy, and strictly before it once a
  cold or an after-preemption block has read its field. Together they give
  `HistoryAdvances`, with no assumption on `cli`.
* `HotInv`: every cold data point either has `REFTOTAL` successors (`Complete`), or its
  loop is running (`InHotLoop`), it stands `refcount` places before the end, and the
  copies and the row are still those it was stored with. `ColdThenHot` alone does
  not say why the next data point will be hot.
* `LoopImplementsMeasurement` is the refinement: every step of `PmTask`, with `masks`,
  is a step of `Measurement` or leaves its variables alone. It rests on `CleanInv`
  (the copy is the page when a data point is fixed), `PastInv` (what is observed is
  newer than the log) and `SettledInv` (outside the loop no hot access is owed, a
  measured job's number is above 0, and nothing is measured as a preemption
  before the first job). There is one lemma for the kernel, one for the last
  comparison, one for the three stores and one for all the steps that the
  abstract specification does not see.

**`PipelineProofs`.** `TypeCorrect`, `NoArrayLeaks`, `ReportedRight` and `AllReported`
are about the scan, for traces of any length.

* `LiveInv` lists what is allocated at each place.
* `JobInv` relates the counters to the cold access *c* the scan is behind. Up to
  `NUMHOTREADS` samples after *c* the job is `Open`: `total_hot_reads` is the distance
  to *c*, and the other counters and `hot_cost` describe the valid prefix so far.
  From then on it is `Closed`: the counters are reset and `valid_hot_cost` with
  `hot_cost` is the baseline of *c*. Before the first cold access everything is as at
  the start. `WellFormed` makes the count of hot accesses and the distance to *c*
  the same number; without it they drift apart.
* `OutputInv` says of each overhead what `ReportedAreRight` says, and that everything
  reportable among the first `i` samples is there. `ScanInv` is the two under
  `WellFormed`.

`OverheadsDelays` and `CompleteExact` are about the whole way of a data point
(`PmPipeline`), for caches, buffers, blocks and plans of any size. Their invariants
follow the data.

* In a run `JobsInv` holds of the log: behind a cold access stand the hot ones of its job
  (`HotAfter`), before a hot one its cold one (`ColdBefore`). `EndIsKept`: the end of a log
  that the ring buffer still holds has both too, but perhaps not the cold access it
  begins with (`FromStart`). `SavedInv` says this of all runs that have ended.
* The file is that of an instance of `TraceFileProofs`, whose invariants hold of it
  because every step here is a step there (`FileSteps`). `FileShape` reads them as the
  scan needs them: in the file a run is an interval, its places counted from the
  beginning.
* `StageInv`: once the scan begins, `samples` are the data points of the file
  (`Measured`), and stay so. The lemmas about `ValidOvd` hold from any beginning of a
  scan (`ScanStarts`), so `StageAlways` has them for the pipeline.
* `OverheadsDelays` speaks of files that are not well-formed as a whole. In a file
  of valid data points (`MeasuredAreValid`) `total_hot_reads` counts all hot accesses so
  far, modulo `NUMHOTREADS` (`ValidInv`): a job that begins at a multiple (`Aligned`) is
  `Open` and `Closed` as in `JobInv`, whatever came before it. An unbroken piece of one
  run is a job (`PieceIsJob`), and the difference to its baseline its delay
  (`DifferenceIsDelay`).
* `CompleteExact`: if nothing was overwritten or cut short, the file is the runs one after
  the other (`FileIsSaved`), well-formed, and every preemption has a baseline
  (`CompleteIsWellFormed`); `OutputInv` then gives all delays, and `InOrder` that the n-th
  overhead is that of the n-th preemption.

`OnePassRight` is about the loop of `print_rough_stats()`, for vectors of any length.
The loop updates a mean and a sum of squared differences without knowing the final
mean (lines 203-206); `OnePassIsRight` defines both from the values seen so far.

* `FracIs`: `Frac` reduces to lowest terms, so equal values are equal fractions
  (`FracSame`) and each operation is that of the terms one likes (`OperationsAre`).
* With S the sum of the first k values and Q that of their squares, after k values `mi`
  is S/k and `qi` is (kQ - SS)/k (`Statistics`). `Welford` is the identity that
  makes a round of the loop lead from k to k + 1 (`StepIs`).
* Adding up the squared distances to the mean S/n ends at the same (nQ - SS)/n
  (`Scaled`, `SpreadIs`). The sums, the loop and the distances are recursive
  functions; `SameLoop` says that two that begin alike and go on alike are the same.

`HotHit` and `ColdMiss` are about the caches during a run, for rows, caches and chunks of any
size, any number of cpus and jobs, and any order of polluters' accesses. Neither
property is inductive: both speak of the time an access took, and nothing in the log
says where the lines of a row stand now. `WarmInv` adds it, for working sets of whole
chunks (as `WSS % CHUNK = 0` in the two properties), as what the log so far says of the
caches:

* `CourseInv`: jobs and switches of the log are in order and not ahead of the page, and
  as long as the switch of the last data point goes on, its cpu is the page's.
  `RowInv`: the row in use is that of the last cold access. `LinesInv`: nothing is cached
  but foreign lines and rows of this run's cold accesses, so the first use of a row
  misses all of it.
* `TopInv`: while a working set and the pollution fit together, the row in use is within
  the first `WSS + pollution` places of the cache it was last measured through (`AtTop`).
  One line may be missing: a write that was polled for here and is done on another cpu
  takes its line away. After it there is no such write until the switch is measured
  (`PolledInv`, and `AtTop` with `~polled`), and there is none while the task has stayed:
  on the cache of the last data point, with no more than one switch since (`Stayed`). A
  foreign line moves each of the row's by one place at most and adds one to
  `pollution` (`PushedIn`, `MovedToFront`); a line kept warm moves none out of these
  places (`TouchedStayNear`).
* `OrderInv`: if only one cache was used since a cold access, and no two switches lie
  between neighbouring data points (`Steady`), each of the access's lines
  stands before everything that is neither foreign nor of a row used since. Whatever a
  step touches is foreign or of a row in use, and what it does not touch keeps its order
  (`Behind`, `OrderKept`), evictions included.
* When a row comes round after `NUMWS - 1` other jobs in one cache, the rows of these jobs
  differ from it and from one another (`RowsApart`, modulo `NUMWS`), so they are
  `(NUMWS - 1) * WSS` lines (`LinesOfJobs`). By `OrderInv` all of them stand before any of its
  own lines still cached, and so at most `CACHESIZE` less that number can hit (`Distance`,
  `FewHit`): the bound of `ColdAccessesMiss`.
* `AllHot` and `AllCold` are the two properties, restated for one data point at a time; a step
  of a run adds one (`HotStep`, `ColdStep`), and a new run begins with an empty log and
  caches full of foreign lines (`EmptyWarm`).

**`TraceFileProofs`.** `WholeFileIsRead`, `RunsTogether`.

* The reader's arithmetic with symbolic sizes: `Quotient` and `QuotientIs` say what a
  division is (of a file whose size is an int, `IntSized`; of others the reader
  promises nothing), `PointsLeft` and `PointsFit` that a block cut by the end of the file
  holds the data points that are left and a full block no more than there are.
  `ReadInv` says that `pos` is always the end of the last whole data point stored, or
  the end of the file with all of them stored; without the second case nothing rules
  out a further block. `Exclusion` (no task writes while the file is read) keeps the
  size the buffer was allocated for.
* `RunsStayTogether` speaks of the samples of a finished reader, and so of a file that
  many calls wrote. `Whole` reads the run and the number of each data point off the file
  (`RunAt`, `NumberAt`) and says that runs follow one another; `Extent` that the data
  points of a run are one interval, numbered from 0. `TogetherInv` has an extent for
  every run: of a length an ended run may leave (`MayLeave`), and of the length `base`
  for the one that is writing. `RunsInv` ties `base` to the number of blocks written,
  which makes what a killed run leaves whole blocks. `BlockAppended` is the arithmetic
  of appending cells; all of it is about untorn files.

**`PmModuleProofs`.** `CarefulSurvive`, `LoadsSort`, `BothSort`.

* `ScriptInv`: `samel2` is NULL until a load with L3, and an array that is freed was
  asked for since the last load, unless a getter has failed. So a careful call never
  divides by 0, and frees twice only in a getter that fails after another one; the only
  other end is a load that gets no memory.
* `LoadsSort` is `CarefulLoadsSort` in full. `ArrayIsLevel` shows that remainder and two
  divisions find the nearest level (`Level`), which is defined by sets of cpus and not
  by dividing. `SortedInOrder` shows that the loop leaves each array with the
  overheads of its level, all of them and in the order of the trace. `AnalyzerProofs`
  uses both through an INSTANCE.
* `BothSort`: with its cpus renumbered chip by chip a trace is sorted alike by both
  functions. It needs the chips to be made of whole L2 groups (`MachineAssumption`),
  and `LoadedTraces`, that what was loaded is one of the traces.

**`CommonLemmas`.** The library's induction theorems take an operator,
which none of the provers can instantiate. `LoopInduction` states induction for a
*set* of numbers instead, from the least member of its complement; `LoopExists` gives
the trace of a loop whose step is a function, so that a recursive function, which is
a CHOOSE, can be replaced by its equations; `Counting` ties the number of members of a
set of indices to their order, `Ranks` and `NthOf` to the functions of `Ranking`.
`FirstNumbers`, `Places` and `AscendingIs` say that `Ascending` orders a sequence and loses
none of its elements. `TouchedIs` and `UsedIs` say what
touching a sequence of words leaves in a cache. With them `FlattenSeq` and
the loop of `get_ovd_plen_umaxeon` are reasoned about for sequences of any length.

**`AnalyzerProofs`.** `ArraysReturned`, `RowsSound`, `EveryFileReported`,
`AutocapEven`, for command lines of any length, traces of any length, any options
and failures anywhere.

* `ControlInv` types the command line, `k` and `pc`. `ModuleInv` says of the pm module
  that its data are the traces of the current file, sorted, and that after the load an
  array not yet fetched is not freed, and one that was is not live. Between files none
  is live, because the getter that fails frees them all. The process stops only where
  memory ran out, in `load()` or in a getter after another one: never in a first getter.
  `ArraysReturned` follows, and that `ovds` are the overheads of this file (`FileOvds`)
  even though the globals outlive the files.
* `GroupInv`: `valid_ovds_list` has exactly the files of `Group`, which is a run of
  neighbours of one size (`InRun`) that ends before the current file, and before it at
  the last look-ahead. It says nothing of the list once the program has ended, and
  that `kept` is whole as long as a file is to come. It needs distinct
  files: with a name given twice the program takes it for the last one.
* `CountInv`: with `--autocap` the counts are those of one file of the group, the one with
  the fewest preemptions among those seen. The current file is counted before it is
  collected (`Counted`).
* `RowInv`: every row written is of a file of the command line, and its vector a prefix
  of the samples of the file, as long as the mode says (`RowOfFile`). `ReportInv`
  counts: every file reported has one row for each label, and no row is of another file.
  `ReportRows` shows what a report is: the rows of the group in the order of `tss`, none
  twice (`Ranks`, `NthOf`, `FlattenedOf`).
* `VectorIsOfLevel` compares what the analyzer fetched with the reference definition, which
  selects samples by the level two cpus share (`SortedInOrder` again).

**`CacheCostProofs`.** `TypeCorrect`, `StaysInside` and `NeverReuses` are about the
arena for any use of it: `Placed` says that `arena_pos` is the end of the current piece,
and that this piece either begins the arena or leaves room for another piece before it.
That a piece is at most half the arena (`TooLarge`) makes `NoReuse` hold when the next
one wraps. `RowsAreRight`, `EnoughSamples` and `FreshWorkingSets` are about the
experiment. The invariant says at every place of the round where the process runs
(`RunsWhere`), how rows follow the counters (`RowsFollow`: a row is written exactly
while its kind is below the limit), that with one cpu nothing migrates (`AloneStays`),
and what an ended experiment has written (`EndedWithRows`). Every step of the experiment
is one of `Arena` or leaves its variables alone (`UsesTheArena`), which gives
`FreshWorkingSets` the arena's theorems. `RowsHaveTheirAddresses` is about the
experiment that also reads the page map. `OwnStored` says that every slot
`get_phys_addrs()` fills for a row has the address of a page of this row's working set
or none, because the pages looked up begin inside it (`PagesBegin`); `OverrunInv`, that
the array is overrun by sets of more than a page only. Damage to the heap can end the
experiment, but in no step leads it elsewhere (`PageStep`).

`ColdAndHot` is an argument about the order of the words in the cache. A pass over the
arena touches whole working sets, each from `mem[1]` up and then `mem[0]`: `Fresher`
names the words touched after a given one in this pass and the one before, and `Ordered`
says that they all stand before it in the cache. A timed access, cold or hot, first or
repeated, keeps the order (`TouchKeepsOrder`); so does `touch_arena()` (`ResetOrders`)
and a wrap (`WrapKeepsOrder`). When a working set is timed for the first time, the words
fresher than one of its own (`Distance` counts them) are all the others in whole working
sets, which make up more than two thirds of the arena because none is larger than half
of it; for `mem[0]`, read first and stored to last, those outside its own working set,
more than a third. An arena of one and a half times the cache thus makes all words but
`mem[0]` miss, one of three times all of them (`ColdMisses`). `OnTopIs` says that a
working set that fits stays on top of the cache, so the hot accesses hit (`HotHits`).

**`CpmdProofs`.** `GroupedByLevel`, `KnownTypes`, `SummaryRight`, for any number
of cpus and caches, any traces and sizes, any files left by other builds, and
programs killed anywhere.

* About the topology: on a `Regular` one the first shared cache of a list is the
  nearest data cache (`NearestIsFirst`), and a type some cpu can do has a cpu in the
  table of cpu 0 (`CollectedIs`, `NearestIsType`, `TypeIsListed`). This is `KnownTypes`, but for
  the rows of the traces.
* `DirInv` types the directories and says that what the programs listed is still there
  when they use it: the output files of a size are open while it is grouped.
* `GroupInv` says which sizes `group_traces()` is through with, and what that means
  (`IsGrouped`): the rows of a file of type t are in bijection with the lines of that
  type in the traces read so far, whatever the order of files and lines, and
  numbered. Opening the outputs empties them, so the files of an interrupted build
  do not count; a line more extends the bijection by one (`SortedExtends`,
  `MoreGrouped`). `DelaysOfLines` carries it over to the delays.
* `SummaryInv`: `trace_files` has one of the files listed for each type and size
  (`Chosen`), and what is summed up first is the least size of its type (`SizesOrder`,
  `FirstIs`). `RowIs` reads the row off that file. That at least half of the delays lie
  between the cutoffs, and so the extremes are of some, is `IqrKeeps`: the quartiles of
  a sorted list enclose its middle half (`MiddleHalf`), and the cutoffs are never inside
  the quartiles.

### Model-checked only

* Liveness (`Terminates`, `Ends`): fairness and ENABLED are out of the prover's reach.

Every other property of a passing run is stated by a theorem.


## 5. What is not modelled

* **Printing of the rough statistics**: the square root and the conversion from
  cycles; floating-point rounding (`RoughStats` computes exactly).
* **The outlier filter** (`statanalyzer.py`), whose only call is commented out, and
  `defapp.py`: numeric and command-line helpers. The analyzer's report keeps the
  vector instead of its mean.
* **`get_phys_addr`** (`pagemap.c` 56-78): nothing calls it. What `/proc/self/pagemap`
  says is external.
* **`pm_arch.h` for sparc64** (lines 38-1082): the same sweep as the x86 loop, written
  out as 256 times three loads and a store. What the sweep reads is not modelled,
  only which lines.
* **In the pipeline**: short writes (in `TraceFile` alone), a file read while runs are
  still to come, and `cli` without effect (in `PmTask` alone; the scan's treatment
  of the fishy data points it leads to is in `ValidOvd`'s traces).
* **Replacement other than LRU**, and the polluters' own memory: a polluter's line is
  foreign, whichever it is.
* **Reading and saving a topology** (`/sys`, pickle), and means, medians and variances
  of a model row, which is never written. Of the **batch scripts** only the `killall` of
  `pm_test_script` is in the model, as `TraceFile!Killed`.
* **Time.** Outside `WorkingSets` access times are data; there they are misses.

More disagreements between the code and what it says of itself were met while reading.
They have no run of their own, because a line shows them or the models contain
them, and no property asserts what the text says:

* `NUMWS` (`pm_common.h:62`) is an unparenthesised sum, so `job % NUMWS`
  (`pm_task.c:136`) expands to `(job % WSCycle) + 2`: the first two rows of
  `mem_block` are never used. The model says what the code does (`WorkingSet`).
* `cache_cost.c` 238-246 compares with `>=` and so writes `sample_count + 1` rows of
  each kind; line 357 calls the option the "number of generated samples of preemptions
  and migrations". `KindsAreEven` says that both kinds are equally many and not fewer
  than asked for.
* `allocate()` and `sleep_us()` (`cache_cost.c` 118, 125, 155) multiply ints. Sizes of 8 GB
  and more overflow, and so do delays above two seconds: some are refused, some
  end too soon.
* `pm_data_analyzer.py` 347-373 passes the directory of the file that *follows* a
  group to its report, where lines 5-8 say that the path of FILENAME is the directory the
  output is saved in: with files of two directories a group's csv can go to the other one.
* `read_sdata_entry` keeps the size of the file in an int (`pm_common.c` 109, 121). Of a
  file of 2 GB or more it is negative or too small; the loop reads to the end of the
  file all the same and stores behind the array it allocated, where the comment above it
  (101-102) knows an error and a number of samples only. `ReadsWholeFile` and
  `RunsStayTogether` are about files whose size is an int.
* `load()` (`pmmodule.c` 77-97) tests what `malloc()` returned with `< 0`, which is
  never true: it means to report the error, and passes NULL to `memset()` instead.
* A row is cold for the cache it has been pushed out of. "Cache-cold accesses"
  (`pm_task.c:145`) can hit on a cpu whose cache still holds the row from its last
  turn because the jobs in between ran elsewhere, or were measured a second time
  there and so left room in this one; `ColdAccessesMiss` excludes both.
* `memset(&mem_block, 0, sizeof(int) * NUMWS * INTS_PER_WSS)` (`pm_task.c:88`) expands two
  unparenthesised macros and clears about half a row instead of all rows, none of
  those in use. The pages are locked and zero anyway.
* After a wrap of the ring buffer, or behind a run that was killed inside a job, the
  scan counts hot accesses in groups that straddle jobs, and takes a baseline
  from two of them. `OverheadsAreDelays` needs `Aligned`; without it TLC finds an
  overhead of another job's baseline.
* `print_rough_stats` (`pm_common.c:196`) leaves the last value out, also out of minimum
  and maximum, where lines 178-179 say that it prints the statistics of the vector and
  that `samples` is the population size (`OnePassIsRight` is about the values it sees);
  for one and two values prints the first one with a deviation of 0 / -1 or 0 / 0 under
  the root, and for none the 0 of a cleared array.
* `phys_addrs` (`cache_cost.c` 202-213) has room for `wss / getpagesize()` addresses, at
  least one, with `wss` in KB and the page size in bytes: one below working sets of 8
  MB. `get_phys_addrs` stores one for each page: every working set of more than one page
  overruns it, and its row has too few addresses. Line 352 gives `wss` in KB, line 202
  divides it by bytes (`Overruns`). Where the page map cannot be opened the row shows
  the addresses of an earlier row or what `malloc` left.
* `read_valid_data` spells the label `preemtion` (line 124).
* `--autocap` without L3 looks up a vector that does not exist (line 198):
  `AutocapRaises`.
* A getter that cannot allocate its result frees all four arrays, also those an
  earlier getter freed (`pmmodule.c:168`): the process ends there, however careful the
  script was. `CarefulScriptsSurvive` names this case and want of memory in `load()` as the only
  two that end a careful script; the analyzer can meet both.
* `scripts/test_get_arrays.py` calls `load` with three of its five arguments.
* `serialize_data_entry` (`pm_common.c` 68 and 85) compares the result of `write`
  with -1 only: a short write tears the file inside a data point and 0 is returned.
  `TraceFile` models it (`torn`); `RunsStayTogether` is stated without it.
* `cachetopology.py` 39-41 takes the first cache in directory order, so with L3
  listed before L2 every migration inside a chip is one of level 3.
* `organize_filtered_files` (`cpmd_util.py` 58) takes files of any host, and the last one
  listed of a type and size. What is summed up can be another experiment's, also
  of a size that was not traced here; `SummaryIsRight` says that it is all of *one* file.
* The header `cache_cost` writes is read as a row (`build_cpmd_model.py` 64), and
  `int('SRC')` raises a `ValueError`; and line 71 formats eleven columns where the rows
  of `cache_cost` have 13 or more, a `TypeError`. `scripts/README` 48-51 describes both
  programs as steps of one procedure. So no trace of this commit's `cache_cost` is
  grouped: the counterexample of `CpmdModel_saved` has traces of eleven columns without
  a header, which nothing here writes, to get to line 140 at all; rows left in
  `completed` by other hosts get there as well.
* A trace that exists is not obtained again, also when `cache_cost` died and left it
  empty (17); one that could not be made is reported as "Completed" (22-29). A size
  without a row in any trace of a type has an empty file in `completed`, on which
  `apply_iqr` raises (122).


## 6. Plan

Order of work, most important first:

1. *(done)* `PmTask`, `ValidOvd` and their proofs: the path from the control page to
   an overhead.
2. *(done)* `TraceFile`: what lies between the two.
3. *(done)* `Arena`, `CacheCost` and proofs: the experiment takes the arena's steps.
4. *(done)* `PmModule`, `Analyzer`: what becomes of the overheads.
5. *(done)* `CacheTopology` and `CpmdModel`: the tables of `cachetopology.py` against a
   reference definition of shared caches; grouping, filtering and summing up.
6. *(done)* `PmPipeline`: caches, ring buffer, trace file and scan composed.
7. *(done)* An abstract `Measurement` (each data point is one atomic observation of the
   page) implemented by `PmTask` with `masks`, checked and proved; `ColdThenHot` proved.
8. *(done)* `get_ovd_plen`, the rough statistics and the page map; scripts of the pm module.
9. *(done)* Proofs of `ReadsWholeFile`, `CarefulScriptsSurvive` and the arithmetic core of
   `LoadSortsByLevel`; then of `AddressesAreOwn`, `BothSortAlike`, `CarefulLoadsSort`,
   `RunsStayTogether` and the five properties of the analyzer; then of the arguments
   about caches, of `CpmdModel` on topologies and traces of any size, and of the rough
   statistics. No safety property of a passing run is left without a theorem.
10. A reader that looks at a file while runs are still being appended, and a scan of
    fishy data points, in the pipeline.

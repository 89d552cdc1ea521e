------------------------------ MODULE CpmdModel ------------------------------
(***************************************************************************)
(* scripts/build_cpmd_model.py and scripts/export_overheads.py with the    *)
(* helpers of cpmd_util.py: traces of cache_cost are obtained, their rows  *)
(* grouped by type of migration, filtered and summed up for the model      *)
(* files, and the model files exported as tables.                          *)
(*                                                                         *)
(* The two programs leave their results in directories that outlive them.  *)
(* They can be killed at any point, fail to open, read or write a file,    *)
(* and be started again, in any order but one at a time.  Of the           *)
(* statistics the numbers of samples and the extremes are kept.            *)
(*                                                                         *)
(* No row reaches a model file: the statement that writes one raises a     *)
(* TypeError (WriteRow).  What would come after it, the next sizes and     *)
(* types of the build and the rows the export reads, is never executed.    *)
(***************************************************************************)
EXTENDS CacheTopology

CONSTANTS
  Topologies,
  wss_values, writecycle_values,   \* sequences
  TracesOnHand,   \* what results/traces can hold at the start
  Leftovers,      \* what results/completed can hold at the start
  host,           \* the name used for new files of results/completed
  Header,         \* a line that is not a row of numbers
  Torn,           \* a row or a table cut before its last number
  CacheCostOutputs,   \* what cache_cost can leave in a file
  MaxStarts       \* bound on the number of times a program is started

\* Working set sizes are sorted as names padded to five digits.
WssRange == 0 .. 99999
TypeNames == ToSet(LevelName) \cup {"MEMORY", "PREEMPTION"}

Cache == [level : DOMAIN LevelName, type : {"Data", "Instruction", "Unified", "Unknown"},
          shared_cpu_list : Seq(Seq(Nat))]
Timed == [1 .. 4 -> Int]
Measured(cpus) == [src : cpus, tgt : cpus, times : Timed, post_pm : Int, columns : Nat]
Numbered == [count : Nat, times : Timed, post_pm : Int]

\* The topologies are those of a machine the traces can come from.
ASSUME CpmdAssumption ==
  /\ wss_values \in Seq(WssRange) /\ writecycle_values \in Seq(Nat) /\ host \in STRING
  /\ \A t \in Topologies : 0 \in CpusOf(t) /\ \A cpu \in CpusOf(t) : t[cpu] \in Seq(Cache)
  /\ \A f \in TracesOnHand :
       /\ IsFiniteSet(DOMAIN f) /\ DOMAIN f \subseteq WssRange \X Nat
       /\ \A t \in Topologies, c \in DOMAIN f : f[c] \in Seq(Measured(CpusOf(t)) \cup {Header})
  /\ \A t \in Topologies : Header \notin Measured(CpusOf(t))
  /\ \A t \in Topologies, lines \in CacheCostOutputs :
       lines \in Seq(Measured(CpusOf(t)) \cup {Header})
  /\ Torn \notin Numbered
  /\ \A f \in Leftovers :
       /\ IsFiniteSet(DOMAIN f) /\ DOMAIN f \subseteq STRING \X TypeNames \X WssRange
       /\ \A x \in DOMAIN f : f[x] \in Seq(Numbered \cup {Torn})

VARIABLES
  topo,
  starts,
  pc,
  k,             \* the configuration obtain_traces() is at
  wss_left,      \* keys of trace_files group_traces() has still to do
  files_left,    \* files of the current key it has still to read
  wss,
  trace_files,   \* what organize_filtered_files() returned
  migtype,
  overheads,     \* what main() of export_overheads collected and has not written
  traces, completed, model, ovset,     \* the directories under results/
  output,        \* history: what the build summed up last, or nothing
  why            \* history: the exception that ended the last program

listing == <<wss_left, files_left, wss, trace_files, migtype, overheads>>
dirs == <<traces, completed, model, ovset>>
vars == <<topo, starts, pc, k, listing, dirs, output, why>>

-----------------------------------------------------------------------------
Configs == ToSet(wss_values) \X ToSet(writecycle_values)

ConfigAt(n) ==
  <<wss_values[((n - 1) \div Len(writecycle_values)) + 1],
    writecycle_values[((n - 1) % Len(writecycle_values)) + 1]>>

\* f with the values of g where g is defined.
Updated(f, g) == [x \in DOMAIN f \cup DOMAIN g |-> IF x \in DOMAIN g THEN g[x] ELSE f[x]]

Idle == {"Off", "Done", "Raised", "Exported"}

\* What a program kept in memory goes with it.
End(to) ==
  /\ pc' = to
  /\ k' = 1
  /\ wss_left' = {} /\ files_left' = {} /\ wss' = 0
  /\ trace_files' = <<>> /\ migtype' = "none"
  /\ overheads' = <<>>

Init ==
  /\ topo \in Topologies
  /\ starts = 0
  /\ pc = "Off"
  /\ k = 1
  /\ wss_left = {} /\ files_left = {} /\ wss = 0
  /\ trace_files = <<>> /\ migtype = "none"
  /\ overheads = <<>>
  /\ traces \in TracesOnHand
  /\ completed \in Leftovers
  /\ model = <<>>
  /\ ovset = <<>>
  /\ output = <<>>
  /\ why = "none"

Start(to) ==
  /\ pc \in Idle
  /\ starts < MaxStarts
  /\ starts' = starts + 1
  /\ pc' = to
  /\ output' = <<>>
  /\ why' = "none"

\* No exception is caught for good: the handlers raise another one.
Raise(reason) ==
  /\ End("Raised")
  /\ why' = reason

-----------------------------------------------------------------------------
(* obtain_traces()                                                         *)

StartBuild ==
  /\ Start("Obtain")
  /\ UNCHANGED <<topo, k, listing, dirs>>

Obtaining == pc = "Obtain" /\ k <= Len(wss_values) * Len(writecycle_values)

\* A file that is there counts as a trace, however it came about.
SkipTrace ==
  /\ Obtaining
  /\ ConfigAt(k) \in DOMAIN traces
  /\ k' = k + 1
  /\ UNCHANGED <<topo, starts, pc, listing, dirs, output, why>>

\* The background tasks or the shell cannot be started.
ObtainFails ==
  /\ Obtaining
  /\ ConfigAt(k) \notin DOMAIN traces
  /\ Raise("OSError")
  /\ UNCHANGED <<topo, starts, dirs, output>>

\* The shell may not find cache_cost, and cache_cost may fail before it opens
\* its output.
StartCacheCost ==
  /\ Obtaining
  /\ ConfigAt(k) \notin DOMAIN traces
  /\ pc' = "Wait"
  /\ \/ traces' = Updated(traces, [c \in {ConfigAt(k)} |-> <<>>])
     \/ UNCHANGED traces
  /\ UNCHANGED <<topo, starts, k, listing, completed, model, ovset, output, why>>

\* It dies before it prints anything, or prints its header and then rows.
CacheCostLeaves ==
  IF ConfigAt(k) \in DOMAIN traces
    THEN \E lines \in CacheCostOutputs : traces' = [traces EXCEPT ![ConfigAt(k)] = lines]
    ELSE UNCHANGED traces

\* Its exit status is not looked at.
CacheCostEnds ==
  /\ pc = "Wait"
  /\ pc' = "Obtain"
  /\ k' = k + 1
  /\ CacheCostLeaves
  /\ UNCHANGED <<topo, starts, listing, completed, model, ovset, output, why>>

\* The files of results/traces are listed by working set size.
ObtainDone ==
  /\ pc = "Obtain"
  /\ k > Len(wss_values) * Len(writecycle_values)
  /\ pc' = "Group"
  /\ wss_left' = {c[1] : c \in DOMAIN traces}
  /\ UNCHANGED <<topo, starts, k, files_left, wss, trace_files, migtype, overheads, dirs,
                 output, why>>

-----------------------------------------------------------------------------
(* group_traces()                                                          *)

Outputs(w) == {<<host, t, w>> : t \in MigrationTypes(topo)}

\* The keys of a dictionary come in any order.
OpenOutputs ==
  /\ pc = "Group"
  /\ \E w \in wss_left :
       /\ wss' = w
       /\ wss_left' = wss_left \ {w}
       /\ files_left' = {c \in DOMAIN traces : c[1] = w}
       /\ completed' = Updated(completed, [f \in Outputs(w) |-> <<>>])
  /\ pc' = "Read"
  /\ UNCHANGED <<topo, starts, k, trace_files, migtype, overheads, traces, model, ovset,
                 output, why>>

\* One of the files cannot be opened; those before it are empty by then.
OpenFails ==
  /\ pc = "Group"
  /\ \E w \in wss_left : \E emptied \in SUBSET Outputs(w) :
       /\ emptied # Outputs(w)
       /\ completed' = Updated(completed, [f \in emptied |-> <<>>])
  /\ Raise("IOError")
  /\ UNCHANGED <<topo, starts, traces, model, ovset, output>>

TypeOfLine(line) == MigrationType(topo, line.src, line.tgt)

\* The rows of a trace that belong to a file, after those it has.  A row is
\* numbered by its place in the file.
Sorted(lines, f) ==
  LET own == {n \in DOMAIN lines : TypeOfLine(lines[n]) = f[2]}
      old == completed[f]
      Row(n, line) == [count |-> Len(old) + n, times |-> line.times, post_pm |-> line.post_pm]
  IN  old \o [n \in 1 .. Cardinality(own) |-> Row(n, lines[Nth(own, n)])]

Written(lines) == Updated(completed, [f \in Outputs(wss) |-> Sorted(lines, f)])
Write(lines) == completed' = Written(lines)

\* Both cpus are there, counter[] has their type, and the format string takes
\* as many words as the row has.
Fits(line) == line # Header /\ line.columns = 11 /\ TypeOfLine(line) \in MigrationTypes(topo)

\* Why a line does not fit: int() of a word of the header, a word that is
\* missing, counter[], and the format string.
Problem(line) ==
  IF line = Header THEN "ValueError"
  ELSE IF line.columns < 6 THEN "IndexError"
  ELSE IF TypeOfLine(line) \notin MigrationTypes(topo) THEN "KeyError"
  ELSE "TypeError"

\* The lines of a trace up to the first that does not fit.
Fitting(lines) ==
  {n \in 0 .. Len(lines) : \A m \in 1 .. n : Fits(lines[m])}

GroupTrace ==
  /\ pc = "Read"
  /\ \E c \in files_left :
       /\ Len(traces[c]) \in Fitting(traces[c])
       /\ Write(traces[c])
       /\ files_left' = files_left \ {c}
  /\ UNCHANGED <<topo, starts, pc, k, wss_left, wss, trace_files, migtype, overheads,
                 traces, model, ovset, output, why>>

GroupRaises ==
  /\ pc = "Read"
  /\ \E c \in files_left : \E n \in Fitting(traces[c]) :
       /\ n + 1 \in DOMAIN traces[c]
       /\ ~Fits(traces[c][n + 1])
       /\ Write(SubSeq(traces[c], 1, n))
       /\ Raise(Problem(traces[c][n + 1]))
  /\ UNCHANGED <<topo, starts, traces, model, ovset, output>>

\* The first digits of a number.
PowersOfTen == {10, 100, 1000, 10000, 100000, 1000000, 10000000}
Digits(x) == {IF x < 0 THEN -((-x) \div p) ELSE x \div p : p \in PowersOfTen} \ {0}

\* What can be left of rows that were written, but not flushed: the last one
\* may be torn, or lack digits of its last number.
Left(rows) ==
  Prefixes(rows)
  \cup UNION {{SubSeq(rows, 1, n - 1) \o <<last>> :
               last \in {Torn} \cup {[rows[n] EXCEPT !.post_pm = x] : x \in Digits(rows[n].post_pm)}} :
              n \in DOMAIN rows}

\* The files of the current size, each flushed up to a point of its own.
CutShort(files) ==
  LET left == UNION {{<<f, rows>> : rows \in Left(files[f])} : f \in Outputs(wss)}
  IN  \E cut \in [Outputs(wss) -> {x[2] : x \in left}] :
        /\ \A f \in DOMAIN cut : <<f, cut[f]>> \in left
        /\ completed' = Updated(completed, cut)

\* A trace cannot be opened, or read to its end, or an output not be written.
GroupFails ==
  /\ pc = "Read"
  /\ \E c \in files_left : \E n \in Fitting(traces[c]) :
       /\ n + 1 \notin Fitting(traces[c])
       /\ CutShort(Written(SubSeq(traces[c], 1, n)))
  /\ Raise("IOError")
  /\ UNCHANGED <<topo, starts, traces, model, ovset, output>>

NextWss ==
  /\ pc = "Read"
  /\ files_left = {}
  /\ pc' = "Group"
  /\ UNCHANGED <<topo, starts, k, listing, dirs, output, why>>

KeyOf(f) == <<f[2], f[3]>>

\* The files of results/completed are listed; of two for the same type and
\* size, the one listed last is used.
GroupDone ==
  /\ pc = "Group"
  /\ wss_left = {}
  /\ pc' = "Model"
  /\ \E listed \in SUBSET DOMAIN completed :
       /\ \A f \in DOMAIN completed :
            Cardinality({g \in listed : KeyOf(g) = KeyOf(f)}) = 1
       /\ trace_files' = [x \in {KeyOf(f) : f \in listed} |-> CHOOSE f \in listed : KeyOf(f) = x]
  /\ UNCHANGED <<topo, starts, k, wss_left, files_left, wss, migtype, overheads, dirs,
                 output, why>>

-----------------------------------------------------------------------------
(* remove_outliers_and_create_model()                                      *)

ModelTypes == {x[1] : x \in DOMAIN trace_files}

OpenModel ==
  /\ pc = "Model"
  /\ \E t \in ModelTypes :
       /\ migtype' = t
       /\ model' = Updated(model, [x \in {t} |-> <<>>])
  /\ pc' = "Row"
  /\ UNCHANGED <<topo, starts, k, wss_left, files_left, wss, trace_files, overheads,
                 traces, completed, ovset, output, why>>

OpenModelFails ==
  /\ pc = "Model"
  /\ ModelTypes # {}
  /\ Raise("IOError")
  /\ UNCHANGED <<topo, starts, dirs, output>>

MinHot(times) == CHOOSE x \in ToSet(times) : \A y \in ToSet(times) : x <= y

\* The delays of a file, smallest first.
Delays(rows) ==
  Ascending([n \in DOMAIN rows |-> rows[n].post_pm - MinHot(rows[n].times)])

\* Four times scoreatpercentile(seq, 25 * quarter): the value at
\* quarter * (Len(seq) - 1) / 4, interpolated.
Percentile(seq, quarter) ==
  LET at == quarter * (Len(seq) - 1)
      i == at \div 4 + 1
  IN  IF at % 4 = 0 THEN 4 * seq[i]
      ELSE 4 * seq[i] + (at % 4) * (seq[i + 1] - seq[i])

\* Eight times the cutoffs, for an extent of 1.5.
MinCutoff(seq) == 2 * Percentile(seq, 1) - 3 * (Percentile(seq, 3) - Percentile(seq, 1))
MaxCutoff(seq) == 2 * Percentile(seq, 3) + 3 * (Percentile(seq, 3) - Percentile(seq, 1))

\* Mutant of ApplyIqr: the last element is always dropped.
ApplyIqrShort(seq) ==
  LET below == Cardinality({n \in DOMAIN seq : 8 * seq[n] < MinCutoff(seq)})
      upto == Cardinality({n \in DOMAIN seq : 8 * seq[n] <= MaxCutoff(seq)})
  IN  SubSeq(seq, below + 1, IF upto = Len(seq) /\ upto > 1 THEN upto - 1 ELSE upto)

\* The bisections count the elements before the cutoffs.
ApplyIqr(seq) ==
  LET below == Cardinality({n \in DOMAIN seq : 8 * seq[n] < MinCutoff(seq)})
      upto == Cardinality({n \in DOMAIN seq : 8 * seq[n] <= MaxCutoff(seq)})
  IN  SubSeq(seq, below + 1, upto)

\* The first of the sizes of the type, sorted (as names padded to five
\* digits).
FirstSize == Nth({x[2] : x \in {y \in DOMAIN trace_files : y[1] = migtype}}, 1)
FirstFile == completed[trace_files[<<migtype, FirstSize>>]]

\* The handler itself names a variable that is not there.
ReadFails ==
  /\ pc = "Row"
  /\ Raise("NameError")
  /\ UNCHANGED <<topo, starts, dirs, output>>

\* A row lacks its last words, or a word is empty.
ReadRaises ==
  /\ pc = "Row"
  /\ Torn \in ToSet(FirstFile)
  /\ \E reason \in {"IndexError", "ValueError"} : Raise(reason)
  /\ UNCHANGED <<topo, starts, dirs, output>>

\* There is no percentile of nothing.
NothingToSumUp ==
  /\ pc = "Row"
  /\ FirstFile = <<>>
  /\ \E reason \in {"IndexError", "ValueError"} : Raise(reason)
  /\ UNCHANGED <<topo, starts, dirs, output>>

SumUp ==
  /\ pc = "Row"
  /\ FirstFile # <<>>
  /\ Torn \notin ToSet(FirstFile)
  /\ pc' = "Write"
  /\ LET delays == Delays(FirstFile)
         kept == ApplyIqr(delays)
     IN  output' = <<[type |-> migtype, wss |-> FirstSize, samples |-> Len(delays),
                      filtered |-> Len(kept), maximum |-> kept[Len(kept)], minimum |-> kept[1]]>>
  /\ UNCHANGED <<topo, starts, k, listing, dirs, why>>

\* % binds before +, so the second half of the format string is applied to
\* all twelve values: the first number it is to print is the type.
WriteRow ==
  /\ pc = "Write"
  /\ Raise("TypeError")
  /\ UNCHANGED <<topo, starts, dirs, output>>

\* There was nothing in results/completed.
BuildDone ==
  /\ pc = "Model"
  /\ ModelTypes = {}
  /\ End("Done")
  /\ UNCHANGED <<topo, starts, dirs, output, why>>

-----------------------------------------------------------------------------
(* export_overheads.py                                                     *)

StartExport ==
  /\ Start("Export")
  /\ UNCHANGED <<topo, k, listing, dirs>>

\* The table of a model file without rows.
ReadModel ==
  /\ pc = "Export"
  /\ \E t \in DOMAIN model \ DOMAIN overheads :
       overheads' = Updated(overheads, [x \in {t} |-> <<>>])
  /\ UNCHANGED <<topo, starts, pc, k, wss_left, files_left, wss, trace_files, migtype, dirs,
                 output, why>>

\* All the tables are written after the last model file was read.
ReadDone ==
  /\ pc = "Export"
  /\ DOMAIN overheads = DOMAIN model
  /\ pc' = "Tables"
  /\ UNCHANGED <<topo, starts, k, listing, dirs, output, why>>

WriteOvset ==
  /\ pc = "Tables"
  /\ \E t \in DOMAIN overheads :
       /\ migtype' = t
       /\ ovset' = Updated(ovset, [x \in {t} |-> overheads[t]])
       /\ overheads' = [x \in DOMAIN overheads \ {t} |-> overheads[x]]
  /\ UNCHANGED <<topo, starts, pc, k, wss_left, files_left, wss, trace_files, traces,
                 completed, model, output, why>>

\* Listing or reading the model files fails, or a table cannot be written
\* whole.
ExportFails ==
  /\ pc \in {"Export", "Tables"}
  /\ \/ pc = "Export" /\ UNCHANGED ovset
     \/ \E t \in DOMAIN overheads :
          pc = "Tables" /\ ovset' = Updated(ovset, [x \in {t} |-> Torn])
  /\ Raise("IOError")
  /\ UNCHANGED <<topo, starts, traces, completed, model, output>>

ExportDone ==
  /\ pc = "Tables"
  /\ overheads = <<>>
  /\ End("Exported")
  /\ UNCHANGED <<topo, starts, dirs, output, why>>

-----------------------------------------------------------------------------
(* A program is killed.  What it had not flushed of the files it had open  *)
(* is lost; a table is flushed when the next one is opened.                *)

Killed ==
  /\ pc \notin Idle
  /\ End("Off")
  /\ IF pc = "Wait" THEN CacheCostLeaves ELSE UNCHANGED traces
  /\ IF pc = "Read" THEN CutShort(completed) ELSE UNCHANGED completed
  /\ \/ UNCHANGED ovset
     \/ pc = "Tables" /\ migtype \in DOMAIN ovset /\ ovset' = [ovset EXCEPT ![migtype] = Torn]
  /\ UNCHANGED <<topo, starts, model, output, why>>

-----------------------------------------------------------------------------
\* The user starts nothing more.
Finished == pc \in Idle /\ starts = MaxStarts /\ UNCHANGED vars

Obtain == SkipTrace \/ ObtainFails \/ StartCacheCost \/ CacheCostEnds \/ ObtainDone
Group == OpenOutputs \/ OpenFails \/ GroupTrace \/ GroupRaises \/ GroupFails \/ NextWss \/ GroupDone
Model == OpenModel \/ OpenModelFails \/ ReadFails \/ ReadRaises \/ NothingToSumUp \/ SumUp
         \/ WriteRow \/ BuildDone
Export == ReadModel \/ ReadDone \/ WriteOvset \/ ExportFails \/ ExportDone

Next == StartBuild \/ StartExport \/ Obtain \/ Group \/ Model \/ Export \/ Killed \/ Finished

Spec == Init /\ [][Next]_vars

-----------------------------------------------------------------------------
(* Properties.                                                             *)

\* The rows obtained for a size whose migration crosses level t, from all
\* its traces, as delays.
RowsAt(w, t) ==
  UNION {{<<c, n>> : n \in {m \in DOMAIN traces[c] :
                              Nearest(topo, traces[c][m].src, traces[c][m].tgt) = t}} :
         c \in {d \in DOMAIN traces : d[1] = w}}
DelayOf(x) == traces[x[1]][x[2]].post_pm - MinHot(traces[x[1]][x[2]].times)

TracedSizes == {c[1] : c \in DOMAIN traces}
Times(s, x) == Cardinality({n \in DOMAIN s : s[n] = x})

\* "Group all trace replications by the type of migration/WSS"
\* (scripts/README:51): once group_traces() is through, the file of a type
\* and size has exactly the rows of that size between cpus whose nearest
\* common memory is of that type, numbered from 1, whatever was there before
\* and however often it was interrupted.
GroupedByNearestLevel ==
  pc \in {"Model", "Row", "Write", "Done"} /\ Regular(topo) =>
    \A w \in TracedSizes, t \in {Nearest(topo, 0, d) : d \in CpusOf(topo)} :
      LET rows == completed[<<host, t, w>>]
          delays == Delays(rows)
          at == RowsAt(w, t)
      IN  /\ <<host, t, w>> \in DOMAIN completed
          /\ \A n \in DOMAIN rows : rows[n].count = n
          /\ Len(rows) = Cardinality(at)
          /\ \A x \in at :
               Times(delays, DelayOf(x))
                 = Cardinality({y \in at : DelayOf(y) = DelayOf(x)})

\* On a regular topology the list of types migrationTypes() gives is the
\* list of those migrationType() can return: counter[] never fails.
TypesAreKnown == why = "KeyError" => ~Regular(topo)

\* The delays between the cutoffs.
Kept(rows) ==
  LET all == Delays(rows)
  IN  {x \in ToSet(all) : MinCutoff(all) <= 8 * x /\ 8 * x <= MaxCutoff(all)}

\* "Reads completed/ to estimate and generate CPMD model" (scripts/README:55):
\* what is summed up for a type and size stands for all rows of one file of
\* that type and size, whichever host it comes from, with the extremes of
\* exactly those delays that lie between the cutoffs, which are at least half
\* of them; and no file of the type is of a smaller size.
SummaryIsRight ==
  pc = "Write" =>
    LET row == output[1] IN
    /\ \A f \in DOMAIN completed : f[2] = row.type => row.wss <= f[3]
    /\ \E f \in DOMAIN completed :
         /\ KeyOf(f) = <<row.type, row.wss>>
         /\ row.samples = Len(completed[f])
         /\ 2 * row.filtered >= row.samples
         /\ {row.minimum, row.maximum} \subseteq Kept(completed[f])
         /\ \A x \in Kept(completed[f]) : row.minimum <= x /\ x <= row.maximum

\* Violated.  "The results are saved in model/" (scripts/README:57-58): what a build
\* summed up is in the model file of its type when the build has ended.
ResultsAreSaved ==
  pc \in {"Done", "Raised"} /\ output # <<>> => model[output[1].type] # <<>>
=============================================================================

------------------------------ MODULE Analyzer ------------------------------
(***************************************************************************)
(* data_analysis/pm_data_analyzer.py: the loop of default() over the files *)
(* named on the command line, which loads each of them through the pm      *)
(* module (or from the .vbin files of an earlier call), collects the files *)
(* of one working set size and reports them when the next size begins.     *)
(*                                                                         *)
(* A file name is kept as the parts decode() and dirname() find in it.     *)
(* The report of a vector (its maximum and average) is kept as the vector  *)
(* and whether 0 is written in its place.                                  *)
(***************************************************************************)
EXTENDS Ranking, Sequences, SequencesExt

CONSTANTS
  Commands,      \* argument lists: sequences of [dir, wss, tss, trace]
  CoresPerL2,    \* values of --cores-per-l2
  num_phys_cpu,  \* --phys-cpu
  Limits,        \* values of --limit-preempt; 0 means none
  Modes,         \* subset of {"raw", "autocap", "saved"}
  Failures       \* TRUE when files can be unreadable or unwritable, or
                 \* memory runs out in the pm module

VARIABLES
  args, coresL2, limit, mode,            \* the command line
  ptr, data, is_loaded, alive, call, leaked,   \* the pm module
  pc,
  k,                  \* the file being handled
  last_conf,          \* <<>> or the configuration handled before
  valid_ovds_list,    \* tss -> what was collected for it
  min_sample_tss,     \* <<>> or the number of samples for each label
  kept,               \* which of the two attributes were not deleted
  ovds,               \* <<label, vector>> pairs of the current file
  vbin,               \* the saved vectors on disk
  csv                 \* the rows written, in order

command == <<args, coresL2, limit, mode>>
pm == <<ptr, data, is_loaded, alive, call, leaked>>
lists == <<valid_ovds_list, min_sample_tss, kept>>
vars == <<command, pm, pc, k, last_conf, lists, ovds, vbin, csv>>

Traces == UNION {{c[n].trace : n \in DOMAIN c} : c \in Commands}

Pm == INSTANCE PmModule WITH AllocFails <- Failures

\* A tss is a number: int(conf['tss']) raises nothing (lines 147, 229).
ASSUME AnalyzerAssumption ==
  /\ Commands # {} /\ CoresPerL2 \subseteq Nat /\ Limits \subseteq Nat
  /\ \A c \in Commands :
       /\ c \in Seq(ToSet(c))
       /\ \A file \in ToSet(c) :
            DOMAIN file = {"dir", "wss", "tss", "trace"} /\ file.tss \in Int
  /\ Traces \subseteq Seq(Pm!Overhead)
  /\ num_phys_cpu \in Nat \ {0}
  /\ Modes \subseteq {"raw", "autocap", "saved"}
  /\ Failures \in BOOLEAN

-----------------------------------------------------------------------------
ArrayNamed == [preemption |-> "preempt", onchip |-> "samechip",
               offchip |-> "offchip", l2cache |-> "samel2"]

\* The order in which the arrays are fetched.
Labels ==
  IF coresL2 = 0 THEN <<"preemption", "onchip", "offchip">>
  ELSE <<"preemption", "onchip", "offchip", "l2cache">>

\* Only the overheads are kept of what a getter returned.
Overheads(array) == [n \in DOMAIN array |-> array[n].ovd]

conf == args[k]
IsLast == conf = args[Len(args)]

Saved(file, label, vector) == [dir |-> file.dir, wss |-> file.wss, tss |-> file.tss,
                               label |-> label, vector |-> vector]

\* What an earlier call with the same options saved for the files.
SavedBefore ==
  {Saved(args[n], label,
         Overheads(Pm!Sorted(args[n].trace, coresL2, coresL2 # 0)[ArrayNamed[label]])) :
     n \in DOMAIN args, label \in ToSet(Labels)}

Init ==
  /\ args \in Commands
  /\ coresL2 \in CoresPerL2
  /\ limit \in Limits
  /\ mode \in Modes
  /\ Pm!ModuleInit
  /\ pc = "File"
  /\ k = 1
  /\ last_conf = <<>>
  /\ valid_ovds_list = <<>>
  /\ min_sample_tss = <<>>
  /\ kept = {"valid_ovds_list", "min_sample_tss"}
  /\ ovds = <<>>
  /\ vbin = IF mode = "saved" THEN SavedBefore ELSE {}
  /\ csv = <<>>

-----------------------------------------------------------------------------
(* analyze_data()                                                          *)

\* The part of a vector the statistics are computed on.
Used(label, vector) ==
  IF label = "preemption" /\ limit > 0
    THEN SubSeq(vector, 1, IF limit < Len(vector) THEN limit ELSE Len(vector))
  ELSE IF mode = "autocap"
    THEN SubSeq(vector, 1, IF min_sample_tss[label] < Len(vector)
                           THEN min_sample_tss[label] ELSE Len(vector))
  ELSE vector

\* numpy's vector != [] compares element by element: the comparison of one
\* element with none is an empty array, which is false, as for no elements.
LooksEmpty(vector) == Len(vector) <= 1

\* The rows of one tss, in the order of the labels.  The statistics of a
\* vector that looks empty are written as 0.
RowsOf(dname, config, tss) ==
  [n \in DOMAIN valid_ovds_list[tss] |->
     LET label == valid_ovds_list[tss][n][1]
         used == Used(label, valid_ovds_list[tss][n][2])
     IN  [dir |-> dname, wss |-> config.wss, label |-> label, tss |-> tss,
          vector |-> used, zero |-> LooksEmpty(used)]]

\* The rows of all tss, sorted by number.
Report(dname, config) ==
  FlattenSeq([n \in 1 .. Cardinality(DOMAIN valid_ovds_list) |->
                RowsOf(dname, config, Nth(DOMAIN valid_ovds_list, n))])

\* An exception nothing catches ends the program.
Raise(from) ==
  /\ pc = from
  /\ pc' = "Raised"
  /\ UNCHANGED <<command, k, last_conf, lists, ovds, vbin>>

-----------------------------------------------------------------------------
(* default()                                                               *)

\* Mutant of NewGroup: the last file is never looked at this way.
NewGroupButLast == last_conf # <<>> /\ conf.wss # last_conf.wss /\ ~IsLast

NewGroup == last_conf # <<>> /\ conf.wss # last_conf.wss

KeepGroup ==
  /\ pc = "File"
  /\ k <= Len(args)
  /\ ~NewGroup
  /\ pc' = "Process"
  /\ UNCHANGED <<command, pm, k, last_conf, lists, ovds, vbin, csv>>

\* Mutant of StartGroup: the lists are not emptied.
StartGroupKeeping ==
  /\ pc = "File"
  /\ k <= Len(args)
  /\ NewGroup
  /\ "valid_ovds_list" \in kept
  /\ pc' = "Process"
  /\ csv' = csv \o Report(conf.dir, last_conf)
  /\ UNCHANGED <<valid_ovds_list, min_sample_tss>>
  /\ UNCHANGED <<command, pm, k, last_conf, kept, ovds, vbin>>

\* The first file of another size: the files collected so far are reported.
StartGroup ==
  /\ pc = "File"
  /\ k <= Len(args)
  /\ NewGroup
  /\ "valid_ovds_list" \in kept
  /\ pc' = "Process"
  /\ csv' = csv \o Report(conf.dir, last_conf)
  /\ valid_ovds_list' = <<>>
  /\ min_sample_tss' = <<>>
  /\ UNCHANGED <<command, pm, k, last_conf, kept, ovds, vbin>>

\* The list was deleted when the last file was met for the first time.
ListIsGone ==
  /\ "valid_ovds_list" \notin kept
  /\ \/ Raise("File") /\ k <= Len(args) /\ NewGroup
     \/ Raise("Collect")
  /\ UNCHANGED <<pm, csv>>

\* Some of the rows may have been written before.
SomeOf(rows) == \E n \in 0 .. Len(rows) - 1 : csv' = csv \o SubSeq(rows, 1, n)

ReportFails ==
  /\ Failures
  /\ \/ /\ Raise("File")
        /\ k <= Len(args)
        /\ NewGroup
        /\ "valid_ovds_list" \in kept
        /\ SomeOf(Report(conf.dir, last_conf))
     \/ Raise("Last") /\ SomeOf(Report(conf.dir, conf))
  /\ UNCHANGED pm

AllDone ==
  /\ pc = "File"
  /\ k > Len(args)
  /\ pc' = "Done"
  /\ UNCHANGED <<command, pm, k, last_conf, lists, ovds, vbin, csv>>

-----------------------------------------------------------------------------
(* process_raw_data() and read_valid_data()                                *)

LoadFile ==
  /\ mode # "saved"
  /\ pc = "Process"
  /\ pc' = "Get"
  /\ \E failed \in Pm!FailedArrays : Pm!Load(conf.trace, coresL2, failed)
  /\ ovds' = <<>>
  /\ UNCHANGED <<command, k, last_conf, lists, vbin, csv>>

LoadFileFails ==
  /\ Failures
  /\ mode # "saved"
  /\ Raise("Process")
  /\ Pm!LoadFails
  /\ UNCHANGED csv

\* Mutant of GetArray: the third array is asked for twice.
GetArrayTwice ==
  /\ pc = "Get"
  /\ Len(ovds) < Len(Labels)
  /\ LET label == Labels[IF Len(ovds) = 1 THEN 1 ELSE Len(ovds) + 1]
     IN  /\ Pm!Get(ArrayNamed[label])
         /\ alive' => ovds' = Append(ovds, <<label, Overheads(call'.array)>>)
         /\ ~alive' => UNCHANGED ovds
  /\ UNCHANGED <<command, pc, k, last_conf, lists, vbin, csv>>

GetArray ==
  /\ pc = "Get"
  /\ Len(ovds) < Len(Labels)
  /\ LET label == Labels[Len(ovds) + 1]
     IN  /\ Pm!Get(ArrayNamed[label])
         /\ alive' => ovds' = Append(ovds, <<label, Overheads(call'.array)>>)
         /\ ~alive' => UNCHANGED ovds
  /\ UNCHANGED <<command, pc, k, last_conf, lists, vbin, csv>>

\* The result of a getter cannot be allocated: it raises an exception, unless
\* cleanup() frees an array that was handed out before.
GetArrayFails ==
  /\ pc = "Get"
  /\ Len(ovds) < Len(Labels)
  /\ Pm!GetFails(ArrayNamed[Labels[Len(ovds) + 1]])
  /\ IF alive' THEN Raise("Get")
     ELSE UNCHANGED <<command, pc, k, last_conf, lists, ovds, vbin>>
  /\ UNCHANGED csv

CountOf(label) == Len(ovds[CHOOSE n \in DOMAIN ovds : ovds[n][1] = label][2])

Fetched == mode # "saved" /\ pc = "Get" /\ Len(ovds) = Len(Labels)

\* Mutant of Smaller: the larger of the two counts is kept.
SmallerNot == min_sample_tss.preemption < CountOf("preemption")

Smaller == min_sample_tss.preemption > CountOf("preemption")

\* With --autocap the smallest file of the group, by preemptions, decides
\* how many samples are used of each.
Autocap ==
  min_sample_tss' =
    IF mode = "autocap" /\ (min_sample_tss = <<>> \/ Smaller)
    THEN [label \in ToSet(Labels) |-> CountOf(label)]
    ELSE min_sample_tss

\* --autocap looks for the samples of "l2cache", which are not there without
\* L3; and min_sample_tss may be gone.
AutocapRaises == mode = "autocap" /\ (coresL2 = 0 \/ "min_sample_tss" \notin kept)

AutocapFails ==
  /\ Fetched
  /\ AutocapRaises
  /\ Raise("Get")
  /\ UNCHANGED <<pm, csv>>

\* The vectors are saved whole, each to a file of its own.
SaveVectors ==
  /\ Fetched
  /\ ~AutocapRaises
  /\ Autocap
  /\ vbin' = vbin \cup {Saved(conf, ovds[n][1], ovds[n][2]) : n \in DOMAIN ovds}
  /\ pc' = "Collect"
  /\ UNCHANGED <<command, pm, k, last_conf, valid_ovds_list, kept, ovds, csv>>

SaveFails ==
  /\ Failures
  /\ Fetched
  /\ Raise("Get")
  /\ UNCHANGED <<pm, csv>>

\* The label read_valid_data() gives to the vector of a label.
LabelRead(label) == IF label = "preemption" THEN "preemtion" ELSE label

VectorsSaved(label) ==
  {s.vector : s \in {t \in vbin : /\ t.dir = conf.dir /\ t.wss = conf.wss
                                  /\ t.tss = conf.tss /\ t.label = label}}

ReadSaved ==
  /\ mode = "saved"
  /\ pc = "Process"
  /\ pc' = "Collect"
  /\ ovds' = [n \in DOMAIN Labels |->
                <<LabelRead(Labels[n]), CHOOSE v \in VectorsSaved(Labels[n]) : TRUE>>]
  /\ UNCHANGED <<command, pm, k, last_conf, lists, vbin, csv>>

ReadSavedFails ==
  /\ Failures
  /\ mode = "saved"
  /\ Raise("Process")
  /\ UNCHANGED <<pm, csv>>

-----------------------------------------------------------------------------
(* What default() does with the vectors of a file.                         *)

Collected == [tss \in DOMAIN valid_ovds_list \cup {conf.tss} |->
                IF tss = conf.tss THEN ovds ELSE valid_ovds_list[tss]]

NextFile ==
  /\ pc = "Collect"
  /\ "valid_ovds_list" \in kept
  /\ valid_ovds_list' = Collected
  /\ IF IsLast THEN pc' = "Last" /\ UNCHANGED <<k, last_conf>>
     ELSE pc' = "File" /\ k' = k + 1 /\ last_conf' = conf
  /\ UNCHANGED <<command, pm, min_sample_tss, kept, ovds, vbin, csv>>

\* The group the last file belongs to is reported and the list deleted; with
\* it the number of samples, if the file is a group of its own.
LastFile ==
  /\ pc = "Last"
  /\ csv' = csv \o Report(conf.dir, conf)
  /\ kept' = IF NewGroup THEN {} ELSE kept \ {"valid_ovds_list"}
  /\ valid_ovds_list' = <<>>
  /\ pc' = "File"
  /\ k' = k + 1
  /\ UNCHANGED <<command, pm, last_conf, min_sample_tss, ovds, vbin>>

-----------------------------------------------------------------------------
Ended == (pc \in {"Done", "Raised"} \/ ~alive) /\ UNCHANGED vars

Default == KeepGroup \/ StartGroup \/ ListIsGone \/ ReportFails \/ AllDone
Process == LoadFile \/ LoadFileFails \/ GetArray \/ GetArrayFails \/ SaveVectors \/ AutocapFails
           \/ SaveFails \/ ReadSaved \/ ReadSavedFails
Next == Default \/ Process \/ NextFile \/ LastFile \/ Ended

Spec == Init /\ [][Next]_vars

-----------------------------------------------------------------------------
(* Properties.                                                             *)

\* The overheads of a file at one level of the memory hierarchy.
VectorOf(file, label) ==
  LET ks == Pm!OfLevel(file.trace, coresL2, ArrayNamed[label])
  IN  [n \in 1 .. Cardinality(ks) |-> file.trace[Nth(ks, n)].ovd]

Distinct ==
  \A m, n \in DOMAIN args : m # n => <<args[m].wss, args[m].tss>> # <<args[n].wss, args[n].tss>>

FilesFor(row) == {n \in DOMAIN args : args[n].wss = row.wss /\ args[n].tss = row.tss}

\* Every row is computed from the samples of the one file its wss and tss
\* name, at its level: from all of them, or with a limit from the first few.
\* It holds also for what was written before an exception.
RowsAreSound ==
  Distinct /\ mode # "saved" =>
    \A m \in DOMAIN csv :
      /\ Cardinality(FilesFor(csv[m])) = 1
      /\ \A n \in FilesFor(csv[m]) :
           /\ IsPrefix(csv[m].vector, VectorOf(args[n], csv[m].label))
           /\ mode = "raw" /\ ~(limit > 0 /\ csv[m].label = "preemption") =>
                csv[m].vector = VectorOf(args[n], csv[m].label)

\* When the program comes to its end every file has one row for every
\* level, wherever it stands on the command line; and as long as a file is to
\* come, the list its samples are added to (line 352) is there: only a name
\* given twice meets the list deleted behind the last file.
EveryFileIsReported ==
  /\ pc = "Done" /\ Distinct /\ mode # "saved" =>
       \A n \in DOMAIN args, label \in ToSet(Labels) :
         Cardinality({m \in DOMAIN csv : /\ csv[m].wss = args[n].wss
                                         /\ csv[m].tss = args[n].tss
                                         /\ csv[m].label = label}) = 1
  /\ Distinct /\ k <= Len(args) => "valid_ovds_list" \in kept

GroupedBySize ==
  \A m, n \in DOMAIN args :
    m <= n /\ args[m].wss = args[n].wss => \A j \in m .. n : args[j].wss = args[m].wss

\* "Autodetect the minimum number of samples to use for statistics" (line
\* 45): with --autocap all preemption rows of one working set size are
\* computed from equally many samples, those of the smallest file.
AutocapIsEven ==
  pc = "Done" /\ mode = "autocap" /\ limit = 0 /\ Distinct /\ GroupedBySize =>
    \A m \in DOMAIN csv :
      csv[m].label = "preemption" =>
        LET counts == {Len(VectorOf(args[n], "preemption")) :
                         n \in {j \in DOMAIN args : args[j].wss = csv[m].wss}}
        IN  /\ Len(csv[m].vector) \in counts
            /\ \A c \in counts : Len(csv[m].vector) <= c

\* Nothing is lost, and between two files and when an exception ends the
\* program every array was handed out or freed, in whatever order files with
\* and without overheads of a level come.  The process is stopped only for
\* want of memory: in load(), or in a getter after another one, when cleanup()
\* frees once more what was handed out (pmmodule.c:34-41, 161, 168).
ArraysAreReturned ==
  /\ ~leaked
  /\ alive /\ pc # "Get" => \A a \in Pm!Arrays : ptr[a] # "live"
  /\ ~alive => call.result = "nomem" /\ (call.name = "load" \/ ovds # <<>>)

\* "The output is one csv WSS file per ovhd type, tss, max_ovd, avg_ovd"
\* (line 221): only where nothing was measured 0 is written instead of the
\* statistics.
MeasuredIsReported == \A m \in DOMAIN csv : csv[m].zero => csv[m].vector = <<>>
=============================================================================

---------------------------- MODULE CacheTopology ----------------------------
(***************************************************************************)
(* scripts/cachetopology.py: which level of the memory hierarchy a         *)
(* migration crosses.                                                      *)
(*                                                                         *)
(* A topology gives every cpu the list of its caches, in the order         *)
(* os.listdir() named their directories.  A cache is a record of the three *)
(* attributes that are used; shared_cpu_list is the sequence of its        *)
(* elements, <<n>> for a cpu and <<m, n>> for a range.                     *)
(***************************************************************************)
EXTENDS Ranking, Sequences, SequencesExt

CpusOf(topo) == DOMAIN topo
LevelName == <<"L1", "L2", "L3">>

InCpuList(cpu, cpu_list) ==
  \E x \in ToSet(cpu_list) : cpu \in x[1] .. x[Len(x)]

\* Where the list of a cpu has caches that another cpu shares.
SharedAt(topo, source_cpu, dest_cpu) ==
  {i \in DOMAIN topo[source_cpu] : InCpuList(dest_cpu, topo[source_cpu][i].shared_cpu_list)}

\* Mutant of MigrationType: the farthest cache two cpus share.
MigrationTypeFar(topo, source_cpu, dest_cpu) ==
  LET shared == SharedAt(topo, source_cpu, dest_cpu)
  IN  IF source_cpu = dest_cpu THEN "PREEMPTION"
      ELSE IF shared = {} THEN "MEMORY"
      ELSE LevelName[topo[source_cpu][Nth(shared, Cardinality(shared))].level]

\* The first cache in the list that the two cpus share, of whatever type.
MigrationType(topo, source_cpu, dest_cpu) ==
  LET shared == SharedAt(topo, source_cpu, dest_cpu)
  IN  IF source_cpu = dest_cpu THEN "PREEMPTION"
      ELSE IF shared = {} THEN "MEMORY" ELSE LevelName[topo[source_cpu][Nth(shared, 1)].level]

\* A cache takes the cpus no cache before it took; a second one of the same
\* level starts the level's list anew.
AddCache(so_far, cache) ==
  LET here == {d \in so_far.remaining : InCpuList(d, cache.shared_cpu_list)}
  IN  IF cache.type \in {"Instruction", "Unknown"} THEN so_far
      ELSE [table |-> [x \in DOMAIN so_far.table \cup {LevelName[cache.level]} |->
                         IF x = LevelName[cache.level] THEN here ELSE so_far.table[x]],
            remaining |-> so_far.remaining \ here]

MigrationTable(topo, cpu) ==
  LET collected[n \in 0 .. Len(topo[cpu])] ==
        IF n = 0 THEN [table |-> <<>>, remaining |-> CpusOf(topo) \ {cpu}]
        ELSE AddCache(collected[n - 1], topo[cpu][n])
      end == collected[Len(topo[cpu])]
  IN  [x \in DOMAIN end.table \cup {"MEMORY", "PREEMPTION"} |->
         CASE x = "MEMORY" -> end.remaining
           [] x = "PREEMPTION" -> {cpu}
           [] OTHER -> end.table[x]]

\* Mutant of MigrationTypes: a type with one cpu is left out.
MigrationTypesMany(topo) ==
  {x \in DOMAIN MigrationTable(topo, 0) : Cardinality(MigrationTable(topo, 0)[x]) > 1}

\* The types of cpu 0 stand for those of all cpus.
MigrationTypes(topo) ==
  {x \in DOMAIN MigrationTable(topo, 0) : MigrationTable(topo, 0)[x] # {}}

-----------------------------------------------------------------------------
(* What the names mean, whatever the order of the list.                    *)

DataCaches(topo, cpu) == {i \in DOMAIN topo[cpu] : topo[cpu][i].type \in {"Data", "Unified"}}

SharedLevels(topo, s, d) ==
  {topo[s][i].level : i \in DataCaches(topo, s) \cap SharedAt(topo, s, d)}

\* The nearest level of memory through which d sees the data of s.
Nearest(topo, s, d) ==
  IF s = d THEN "PREEMPTION"
  ELSE IF SharedLevels(topo, s, d) = {} THEN "MEMORY"
  ELSE LevelName[CHOOSE l \in SharedLevels(topo, s, d) :
                   \A m \in SharedLevels(topo, s, d) : l <= m]

\* The lists name the caches by level.
InOrder(topo) ==
  \A cpu \in CpusOf(topo) : \A i, j \in DOMAIN topo[cpu] :
    i < j => topo[cpu][i].level <= topo[cpu][j].level

\* A cpu has one data cache of a level.  (With two the table keeps the cpus of
\* the later one only, and a type may be missing.)
SingleDataCaches(topo) ==
  \A cpu \in CpusOf(topo) : \A i, j \in DataCaches(topo, cpu) :
    topo[cpu][i].level = topo[cpu][j].level => i = j

\* No instruction cache is shared by cpus that share no data cache of its
\* level.
InstructionLikeData(topo) ==
  \A s, d \in CpusOf(topo) : \A i \in SharedAt(topo, s, d) :
    s # d => topo[s][i].level \in SharedLevels(topo, s, d)

\* "Assumes every processor can do to all types of migration" (line 52).
Uniform(topo) ==
  \A s \in CpusOf(topo) :
    {Nearest(topo, s, d) : d \in CpusOf(topo)} = {Nearest(topo, 0, d) : d \in CpusOf(topo)}

Regular(topo) ==
  InOrder(topo) /\ SingleDataCaches(topo) /\ InstructionLikeData(topo) /\ Uniform(topo)
=============================================================================

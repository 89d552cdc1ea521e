------------------------------ MODULE PmModule ------------------------------
(***************************************************************************)
(* c2python/pmmodule.c, the Python extension that loads a trace and hands  *)
(* out its overheads by the cache level a migration crosses, together with *)
(* get_ovd_plen_umaxeon() of bin/pm_common.c, which sorts them.            *)
(*                                                                         *)
(* The four arrays are global pointers that outlive every call.  load()    *)
(* allocates them, a getter copies one out and frees it, and no call sets  *)
(* a pointer back to NULL when its memory is gone.  load() looks for       *)
(* failures of malloc() with "< 0", which no pointer is: memset() writes   *)
(* to NULL and the process ends, unless the trace is empty.                *)
(***************************************************************************)
EXTENDS Integers, Sequences, FiniteSets

CONSTANTS
  Traces,        \* what get_valid_ovd() can return
  CoresPerL2,    \* cores_per_l2 of a load; 0 when there is no L3
  num_phys_cpu,
  AllocFails     \* TRUE when memory can run out in load() and in a getter

Overhead == [curr_cpu : Nat, last_cpu : Nat, ovd : Int]

ASSUME ModuleAssumption ==
  /\ Traces \subseteq Seq(Overhead)
  /\ CoresPerL2 \subseteq Nat
  /\ num_phys_cpu \in Nat \ {0}
  /\ AllocFails \in BOOLEAN

Arrays == {"preempt", "samel2", "samechip", "offchip"}

VARIABLES
  ptr,        \* what each pointer holds: "null", "live" or "freed" memory
  data,       \* the overheads last stored by load() in each array
  is_loaded,
  alive,      \* FALSE once the process was stopped by a signal
  call,       \* history: the latest call, its arguments and what it returned
  leaked      \* history: memory that no pointer holds any more

mvars == <<ptr, data, is_loaded, alive, call, leaked>>

ModuleInit ==
  /\ ptr = [a \in Arrays |-> "null"]
  /\ data = [a \in Arrays |-> <<>>]
  /\ is_loaded = FALSE
  /\ alive = TRUE
  /\ call = [name |-> "none"]
  /\ leaked = FALSE

-----------------------------------------------------------------------------
(* get_ovd_plen_umaxeon()                                                  *)

SameChip(o) == o.curr_cpu % num_phys_cpu = o.last_cpu % num_phys_cpu

\* Mutant of SameL2: the cpus of a chip are taken to be numbered in a row.
SameL2InARow(o, cores_per_l2) ==
  o.curr_cpu \div cores_per_l2 = o.last_cpu \div cores_per_l2

SameL2(o, cores_per_l2) ==
  (o.curr_cpu \div num_phys_cpu) \div cores_per_l2
    = (o.last_cpu \div num_phys_cpu) \div cores_per_l2

\* The array an overhead is stored in; hasL2 says that samel2 is not NULL.
ArrayOf(o, cores_per_l2, hasL2) ==
  IF o.curr_cpu = o.last_cpu THEN "preempt"
  ELSE IF ~SameChip(o) THEN "offchip"
  ELSE IF hasL2 /\ SameL2(o, cores_per_l2) THEN "samel2"
  ELSE "samechip"

\* The loop over full_costs: what the arrays hold after k of them.
Sorted(full_costs, cores_per_l2, hasL2) ==
  LET stored[k \in 0 .. Len(full_costs)] ==
        IF k = 0 THEN [a \in Arrays |-> <<>>]
        ELSE [stored[k - 1] EXCEPT ![ArrayOf(full_costs[k], cores_per_l2, hasL2)] =
                Append(@, full_costs[k])]
  IN  stored[Len(full_costs)]

\* The division by cores_per_l2 that looking for a shared L2 takes.
Divides(full_costs) ==
  \E k \in DOMAIN full_costs :
    SameChip(full_costs[k]) /\ full_costs[k].curr_cpu # full_costs[k].last_cpu

-----------------------------------------------------------------------------
(* get_ovd_plen(), its predecessor for cpus numbered in a row per chip,    *)
(* which nothing calls any more.                                           *)

\* Mutant of LinearArrayOf: the chip is looked for before the L2.
LinearArrayOfChipFirst(o, cores_per_l2, cores_per_chip, hasL2) ==
  LET Same(cores) == o.curr_cpu \div cores = o.last_cpu \div cores
  IN  IF o.curr_cpu = o.last_cpu THEN "preempt"
      ELSE IF Same(cores_per_chip) THEN "samechip"
      ELSE IF hasL2 /\ Same(cores_per_l2) THEN "samel2"
      ELSE "offchip"

LinearArrayOf(o, cores_per_l2, cores_per_chip, hasL2) ==
  LET Same(cores) == o.curr_cpu \div cores = o.last_cpu \div cores
  IN  IF o.curr_cpu = o.last_cpu THEN "preempt"
      ELSE IF hasL2 /\ Same(cores_per_l2) THEN "samel2"
      ELSE IF Same(cores_per_chip) THEN "samechip"
      ELSE "offchip"

-----------------------------------------------------------------------------
(* The functions the module exports.                                       *)

\* Mutant of Allocated: an array that has been allocated once is used again.
AllocatedOnce(cores_per_l2) ==
  {a \in Arrays : ptr[a] = "null"} \ (IF cores_per_l2 = 0 THEN {"samel2"} ELSE {})

Allocated(cores_per_l2) ==
  IF cores_per_l2 = 0 THEN Arrays \ {"samel2"} ELSE Arrays

\* The process is stopped by a signal; the result says why.
Crash(name, why) ==
  /\ alive' = FALSE
  /\ call' = [name |-> name, result |-> why]
  /\ UNCHANGED <<ptr, data, is_loaded, leaked>>

Fails(name) ==
  /\ call' = [name |-> name, result |-> "error"]
  /\ UNCHANGED <<ptr, data, is_loaded, alive, leaked>>

\* The arrays in "failed" are those malloc() returns NULL for.
Load(full_costs, cores_per_l2, failed) ==
  LET asks == Allocated(cores_per_l2)
      got == asks \ failed
      hasL2 == "samel2" \in got \/ ("samel2" \notin asks /\ ptr["samel2"] # "null")
  IN  /\ alive
      /\ failed \subseteq asks
      /\ IF failed # {} /\ full_costs # <<>>
           THEN Crash("load", "nomem")
         ELSE IF hasL2 /\ cores_per_l2 = 0 /\ Divides(full_costs)
           THEN Crash("load", "crash")
         ELSE /\ ptr' = [a \in Arrays |-> IF a \in got THEN "live"
                                         ELSE IF a \in asks THEN "null" ELSE ptr[a]]
              /\ data' = Sorted(full_costs, cores_per_l2, hasL2)
              /\ is_loaded' = TRUE
              /\ leaked' = (leaked \/ \E a \in asks : ptr[a] = "live")
              /\ call' = [name |-> "load", result |-> "ok",
                          full_costs |-> full_costs, cores_per_l2 |-> cores_per_l2]
              /\ UNCHANGED alive

FailedArrays == IF AllocFails THEN SUBSET Arrays ELSE {{}}

\* get_valid_ovd() returns -1.
LoadFails == alive /\ Fails("load")

GetBeforeLoad(a) == alive /\ ~is_loaded /\ Fails(a)

\* Freeing what was freed stops the process.
FreeOf(names) == [a \in Arrays |-> IF a \in names /\ ptr[a] = "live" THEN "freed" ELSE ptr[a]]

Released(a) == FreeOf({a})

Get(a) ==
  /\ alive
  /\ is_loaded
  /\ IF ptr[a] = "freed"
       THEN Crash(a, "crash")
       ELSE /\ ptr' = Released(a)
            /\ call' = [name |-> a, result |-> "ok", array |-> data[a]]
            /\ UNCHANGED <<data, is_loaded, alive, leaked>>

\* The result cannot be allocated: cleanup() frees all four arrays.
GetFails(a) ==
  /\ AllocFails
  /\ alive
  /\ is_loaded
  /\ IF \E b \in Arrays : ptr[b] = "freed"
       THEN Crash(a, "nomem")
       ELSE /\ ptr' = FreeOf(Arrays)
            /\ call' = [name |-> a, result |-> "error"]
            /\ UNCHANGED <<data, is_loaded, alive, leaked>>

\* One exported function per array.
GetterOf(a) == Get(a) \/ GetBeforeLoad(a) \/ GetFails(a)
GetPreemption == GetterOf("preempt")
GetL2Migration == GetterOf("samel2")
GetOnChipMigration == GetterOf("samechip")
GetOffChipMigration == GetterOf("offchip")

\* A script that calls the module in any order.
Next ==
  \/ \E t \in Traces, c \in CoresPerL2, failed \in FailedArrays : Load(t, c, failed)
  \/ LoadFails
  \/ GetPreemption \/ GetL2Migration \/ GetOnChipMigration \/ GetOffChipMigration
  \/ ~alive /\ UNCHANGED mvars

Spec == ModuleInit /\ [][Next]_mvars

-----------------------------------------------------------------------------
(* Properties.                                                             *)

\* The caches two cpus share on the machines the function is for: cpus are
\* numbered across the chips, so cpu c is core c \div num_phys_cpu of chip
\* c % num_phys_cpu, and cores_per_l2 neighbouring cores of a chip share L2.
CoresOf(chip, group, cores_per_l2) ==
  {chip + num_phys_cpu * (group * cores_per_l2 + k) : k \in 0 .. cores_per_l2 - 1}

Level(o, cores_per_l2) ==
  IF o.curr_cpu = o.last_cpu THEN "preempt"
  ELSE IF cores_per_l2 > 0 /\ \E chip \in 0 .. num_phys_cpu - 1, group \in 0 .. o.curr_cpu :
            {o.curr_cpu, o.last_cpu} \subseteq CoresOf(chip, group, cores_per_l2)
  THEN "samel2"
  ELSE IF \E chip \in 0 .. num_phys_cpu - 1 :
            {o.curr_cpu, o.last_cpu} \subseteq CoresOf(chip, 0, o.curr_cpu + o.last_cpu + 1)
  THEN "samechip"
  ELSE "offchip"

\* The overheads of a trace, by their numbers, of two cpus at one level.
OfLevel(full_costs, cores_per_l2, level) ==
  {k \in DOMAIN full_costs : Level(full_costs[k], cores_per_l2) = level}

\* An array holds the overheads with the given numbers once each, in order.
Holds(array, full_costs, ks) ==
  /\ Len(array) = Cardinality(ks)
  /\ \A k \in ks : array[Cardinality(ks \cap 1 .. k)] = full_costs[k]

\* A load sorts every overhead of the trace into the array of the nearest
\* level the two cpus share, in the order of the trace and nothing twice;
\* without L2 when cores_per_l2 is 0 ("then all cores in a chip share the L2
\* cache", pmmodule.c:49), whatever was loaded before.
LoadSortsByLevel ==
  call.name = "load" /\ call.result \notin {"error", "nomem"} =>
    /\ alive
    /\ \A a \in Arrays :
         Holds(data[a], call.full_costs, OfLevel(call.full_costs, call.cores_per_l2, a))
=============================================================================

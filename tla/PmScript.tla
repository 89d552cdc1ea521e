------------------------------ MODULE PmScript ------------------------------
(***************************************************************************)
(* Scripts that use the pm module.  PmModule lets them call its functions  *)
(* in any order; the histories kept here tell the careful ones from the    *)
(* others: a careful script                                                *)
(*   - does not load without L3 after a load with L3,                      *)
(*   - asks for an array at most once after each load,                     *)
(*   - asks for nothing more after a getter has failed.                    *)
(* Memory may run out at any time.                                         *)
(***************************************************************************)
EXTENDS PmModule

CONSTANT cores_per_chip

\* What a script tells the module of the machine is so: it has num_phys_cpu
\* chips of cores_per_chip cores, of which cores_per_l2 share an L2.
ASSUME MachineAssumption ==
  /\ cores_per_chip \in Nat \ {0}
  /\ \A c \in CoresPerL2 : c # 0 => cores_per_chip % c = 0
  /\ \A t \in Traces : \A k \in DOMAIN t :
       {t[k].curr_cpu, t[k].last_cpu} \subseteq 0 .. num_phys_cpu * cores_per_chip - 1

VARIABLES
  asked,     \* history: the arrays handed out since the last load
  failed,    \* history: has a getter failed since the last load
  hadL3,     \* history: was there a load with L3
  careful    \* history: has the script kept to the rules above

scriptvars == <<mvars, asked, failed, hadL3, careful>>

ScriptInit ==
  /\ ModuleInit
  /\ asked = {}
  /\ failed = FALSE
  /\ hadL3 = FALSE
  /\ careful = TRUE

LoadNext ==
  \E t \in Traces, c \in CoresPerL2, arrays \in FailedArrays :
    /\ Load(t, c, arrays)
    /\ asked' = {}
    /\ failed' = FALSE
    /\ hadL3' = (hadL3 \/ c > 0)
    /\ careful' = (careful /\ ~(c = 0 /\ hadL3))

FailToLoad == LoadFails /\ UNCHANGED <<asked, failed, hadL3, careful>>

\* One of the four getters: it hands out array a, or fails; before the first
\* load a call changes nothing.
Ask(a, Getter) ==
  /\ Getter
  /\ UNCHANGED hadL3
  /\ \/ /\ Get(a)
        /\ asked' = asked \cup {a}
        /\ UNCHANGED failed
        /\ careful' = (careful /\ a \notin asked /\ ~failed)
     \/ /\ GetFails(a)
        /\ UNCHANGED asked
        /\ failed' = TRUE
        /\ careful' = (careful /\ a \notin asked /\ ~failed)
     \/ /\ GetBeforeLoad(a)
        /\ UNCHANGED <<asked, failed, careful>>

ScriptNext ==
  \/ LoadNext
  \/ FailToLoad
  \/ Ask("preempt", GetPreemption)
  \/ Ask("samel2", GetL2Migration)
  \/ Ask("samechip", GetOnChipMigration)
  \/ Ask("offchip", GetOffChipMigration)
  \/ ~alive /\ UNCHANGED scriptvars

ScriptSpec == ScriptInit /\ [][ScriptNext]_scriptvars

-----------------------------------------------------------------------------
(* Properties.                                                             *)

\* What stops a careful script is want of memory: in load(), or in a getter
\* when an array was handed out before, which cleanup() frees once more
\* (pmmodule.c:34-41, 80-97, 168); both mean to raise an exception instead
\* (117-120, 167).  A getter that fails first, the division by
\* cores_per_l2 (pm_common.c:613) and the globals that outlive the calls are
\* harmless to it, whatever it loads and in whatever order.
CarefulScriptsSurvive ==
  careful /\ ~alive => call.result = "nomem" /\ (call.name # "load" => asked # {})

\* To a careful script every load, with or without L3, sorts the overheads by
\* the nearest level of cache (pmmodule.c:44-51).
CarefulLoadsSort == careful => LoadSortsByLevel

\* The machine of get_ovd_plen_umaxeon() with its cpus numbered chip by chip.
Renumbered(cpu) == (cpu % num_phys_cpu) * cores_per_chip + cpu \div num_phys_cpu

\* "Linux is processing _physical_ CPUs in a linear fashion" (pm_common.c:449):
\* on a machine numbered like that get_ovd_plen() puts every overhead where
\* get_ovd_plen_umaxeon() puts it on the same machine as numbered by Linux.
BothSortAlike ==
  call.name = "load" /\ call.result = "ok" =>
    \A k \in DOMAIN call.full_costs :
      LET o == call.full_costs[k]
          hasL2 == call.cores_per_l2 > 0
          linear == [o EXCEPT !.curr_cpu = Renumbered(@), !.last_cpu = Renumbered(@)]
      IN  ArrayOf(o, call.cores_per_l2, hasL2)
            = LinearArrayOf(linear, call.cores_per_l2, cores_per_chip, hasL2)
=============================================================================

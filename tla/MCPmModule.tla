---------------------------- MODULE MCPmModule ----------------------------
(***************************************************************************)
(* Instances of PmScript for TLC: two chips of four cores, of which two    *)
(* share an L2.                                                            *)
(***************************************************************************)
EXTENDS PmScript

Move(from, to) == [curr_cpu |-> to, last_cpu |-> from, ovd |-> 1]

Cpus == 0 .. 7

\* Every preemption or migration from two cpus, and a trace with all levels.
MCTraces ==
  {<<>>, <<Move(0, 2), Move(3, 3), Move(4, 2), Move(2, 5), Move(1, 3)>>}
  \cup {<<Move(c, d)>> : c \in {0, 5}, d \in Cpus}

AllCores == {0, 2}
SomeCores == {0, 1, 2, 4}
ShortTraces == {<<>>, <<Move(0, 4)>>}
=============================================================================

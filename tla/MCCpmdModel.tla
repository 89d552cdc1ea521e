----------------------------- MODULE MCCpmdModel -----------------------------
(***************************************************************************)
(* Instances of CpmdModel for TLC: four cpus of which two share an L2,     *)
(* with or without an L3, listed in order and out of order, with an        *)
(* instruction cache shared wider than the data caches, and with a cpu     *)
(* that shares nothing.                                                    *)
(***************************************************************************)
EXTENDS CpmdModel

Listed(level, type, list) == [level |-> level, type |-> type, shared_cpu_list |-> list]

L1d(c) == Listed(1, "Data", <<<<c>>>>)
L1i(c) == Listed(1, "Instruction", <<<<c>>>>)
L2(c) == Listed(2, "Unified", IF c \in {0, 1} THEN <<<<0, 1>>>> ELSE <<<<2>>, <<3>>>>)
L3 == Listed(3, "Unified", <<<<0, 3>>>>)

NoL3 == [c \in 0 .. 3 |-> <<L1d(c), L1i(c), L2(c)>>]
WithL3 == [c \in 0 .. 3 |-> <<L1i(c), L1d(c), L2(c), L3>>]
Reversed == [c \in 0 .. 3 |-> <<L3, L2(c), L1i(c), L1d(c)>>]
SharedL1i == [c \in 0 .. 3 |-> <<L1d(c), Listed(1, "Instruction", L2(c).shared_cpu_list), L2(c)>>]
OddOne == [c \in 0 .. 3 |-> IF c = 0 THEN <<L1d(c)>>
                            ELSE IF c = 1 THEN <<L1d(c), Listed(2, "Unified", <<<<1>>>>)>>
                            ELSE <<L1d(c), L2(c)>>]

SomeTopologies == {NoL3, WithL3, Reversed, SharedL1i, OddOne}
OneTopology == {NoL3}

Sizes == <<1, 2>>
Cycles == <<2>>

Row(src, tgt, delay) ==
  [src |-> src, tgt |-> tgt, times |-> <<9, 5, 4, 5>>, post_pm |-> 4 + delay, columns |-> 11]

\* A row as cache_cost prints it, with the addresses of one page, and one that
\* was cut.
Wide == [Row(0, 1, 20) EXCEPT !.columns = 13]
Cut(columns) == [Row(0, 1, 20) EXCEPT !.columns = columns]

\* Preemptions and both kinds of migration.
Long == <<Row(1, 3, 3), Row(3, 3, 60), Row(0, 1, 5)>>
Short == <<Row(1, 0, 4), Row(2, 2, 1), Row(0, 2, 5)>>

MCTraces ==
  {[c \in {<<1, 2>>, <<1, 3>>, <<2, 2>>} |->
      IF c = <<1, 2>> THEN Long ELSE IF c = <<1, 3>> THEN Short ELSE <<Row(0, 2, 5)>>],
   [c \in {<<2, 2>>} |-> Short],
   [c \in {<<1, 2>>, <<2, 2>>} |-> <<Row(0, 0, 5), Cut(IF c = <<2, 2>> THEN 5 ELSE 8)>>],
   <<>>}


MCOutputs == {<<>>, <<Header>>, <<Header, Wide>>}

\* Files of another host, one of them with an outlier at either end, and of a
\* size that is not traced.
Old(n, delay) == [count |-> n, times |-> <<1, 1, 1, 1>>, post_pm |-> 1 + delay]
Delayed == <<3, 2, 90, 2, -80, 3, 2>>
MCLeftovers ==
  {<<>>,
   [f \in {<<"elsewhere", "PREEMPTION", 1>>, <<"litmus", "L2", 4>>} |->
      [n \in 1 .. 7 |-> Old(n, Delayed[n])]],
   [f \in {<<"elsewhere", "MEMORY", 0>>, <<"elsewhere", "L2", 1>>} |-> <<Old(1, 4), Torn>>]}
Nothing == {<<>>}
=============================================================================

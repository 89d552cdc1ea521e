---------------------------- MODULE MCAnalyzer ----------------------------
(***************************************************************************)
(* Instances of Analyzer for TLC: one to four files of up to three working *)
(* set sizes, in order and out of order, in one directory or in two, with  *)
(* more and with fewer preemptions.                                        *)
(***************************************************************************)
EXTENDS Analyzer

O(from, to, ovd) == [curr_cpu |-> to, last_cpu |-> from, ovd |-> ovd]

Many == <<O(0, 0, 1), O(0, 4, 2), O(1, 1, 3), O(0, 2, 4), O(2, 1, 5), O(3, 3, -6)>>
Few == <<O(0, 1, 7), O(2, 2, 8), O(5, 1, 9)>>
Empty == <<>>

F(dir, wss, tss, trace) == [dir |-> dir, wss |-> wss, tss |-> tss, trace |-> trace]

SomeCommands ==
  {<<F("d", 64, 10, Many)>>,
   <<F("d", 64, 10, Many), F("d", 64, 20, Few)>>,
   <<F("d", 64, 10, Few), F("e", 256, 10, Many)>>,
   <<F("d", 64, 20, Many), F("d", 64, 10, Few), F("d", 256, 10, Empty)>>,
   <<F("d", 64, 10, Empty), F("d", 256, 20, Few), F("d", 256, 10, Many)>>,
   <<F("d", 64, 10, Few), F("d", 256, 10, Many), F("d", 64, 20, Many)>>,
   <<F("d", 64, 10, Many), F("d", 256, 10, Few), F("d", 1024, 10, Many), F("d", 1024, 20, Few)>>,
   <<F("d", 64, 10, Many), F("d", 64, 10, Many), F("d", 256, 20, Few)>>,
   <<F("d", 64, 10, Many), F("d", 256, 20, Few), F("d", 64, 10, Many)>>,
   <<F("d", 64, 10, Few), F("d", 64, 20, Many), F("d", 256, 10, Few), F("d", 64, 20, Many)>>,
   <<F("d", 64, 10, Few), F("e", 64, 20, Many), F("c", 256, 10, Few), F("d", 256, 20, Few)>>}

TwoFiles == {<<F("d", 64, 10, Many), F("d", 64, 20, Few)>>}

WithAndWithoutL3 == {0, 2}
WithL3 == {2}
AnyLimit == {0, 1}
NoLimit == {0}
AllModes == {"raw", "autocap", "saved"}
RawMode == {"raw"}
=============================================================================

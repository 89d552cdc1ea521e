----------------------------- MODULE MCValidOvd -----------------------------
(***************************************************************************)
(* An instance of ValidOvd for TLC: trace files of two jobs with up to     *)
(* two preemptions each, the last job possibly cut short, and the files    *)
(* that begin in the middle of a job.                                      *)
(***************************************************************************)
EXTENDS PmPipeline

TwoCpus == {0, 1}
FourTimes == 0 .. 3

Point(type, time, cpu, plen) ==
  [access_type |-> type, access_time |-> time, cpu |-> cpu, preemption_length |-> plen]

\* An invalid hot access is the cheapest of all, so that counting one shows.
HotOn(c) == {Point("H", 1, c, 0), Point("H", 2, c, 0), Point("h", 0, c, 0)}
Job == UNION {{<<Point("C", 3, c, 0), g, h>> : g, h \in HotOn(c)} : c \in TwoCpus}

Preempted == {Point(t, 3, c, 1) : t \in {"P", "p"}, c \in TwoCpus}
Once == {<<>>} \cup {<<p>> : p \in Preempted}
Twice == {<<p, q>> : p, q \in Preempted}

MCTraces ==
  {<<>>}
  \cup {a \o p : a \in Job, p \in Twice}
  \cup {a \o p \o b \o q : a, b \in Job, p, q \in Once}
  \cup {a \o p \o SubSeq(b, 1, n) : a, b \in Job, p \in Once, n \in 1 .. 2}
  \cup {SubSeq(a, 3, 3) \o b \o q : a, b \in Job, q \in Twice}

\* Each cpu has a cache of its own.
OwnCache == [c \in TwoCpus |-> c]

UpTo(last, most) == [last |-> last, most |-> most]
MCPlans ==
  {<<UpTo(2, 2), UpTo(2, 2)>>, <<UpTo(3, 3)>>}
=============================================================================

------------------------------ MODULE TraceFile ------------------------------
(***************************************************************************)
(* The trace file: serialize_data_entry() and read_sdata_entry() of        *)
(* bin/pm_common.c.                                                        *)
(*                                                                         *)
(* Every run of the measuring task appends its data points to the same     *)
(* file, in blocks of SBLOCK_SIZE and a shorter rest.  A run can be killed *)
(* between two writes (scripts/pm_test_script ends every task set with     *)
(* killall), a write can fail, and a write can be short.  The file has no  *)
(* record boundaries, so a data point is kept as the CELLS pieces a short  *)
(* write can cut it into.                                                  *)
(***************************************************************************)
EXTENDS Integers, Sequences, FiniteSets

CONSTANTS
  SBLOCK_SIZE,  \* data points per write
  BLOCK_MUL,    \* data points per read
  CELLS,        \* pieces of a data point a short write can tell apart
  Sizes,        \* numbers of data points a run can save
  Unset,        \* content of a slot of the reader's buffer before it is filled
  MaxRuns,      \* bound on the runs that use the file
  INT_MAX       \* in cells: what the reader's int file_size can hold

ASSUME FileAssumption ==
  /\ SBLOCK_SIZE \in Nat \ {0}
  /\ BLOCK_MUL \in Nat \ {0}
  /\ CELLS \in Nat \ {0}
  /\ Sizes \subseteq Nat
  /\ MaxRuns \in Nat
  /\ INT_MAX \in Nat \ {0}

VARIABLES
  file,      \* the cells on disk, each <<run, data point, piece>>
  run,       \* runs of the task so far
  num,       \* data points of the current run
  base,      \* where the pointer samples stands in data_points
  block,     \* blocks written so far
  wpc,       \* where serialize_data_entry() stands
  runs,      \* history: what each run had to save and how it ended
  torn,      \* history: did a write store less than it was given
  rpc,       \* where read_sdata_entry() stands, or "Overrun"
  pos,       \* file offset of the reader, in cells
  samples,   \* the buffer the reader fills
  j          \* data points it has stored there

wvars == <<run, num, base, block, wpc, runs, torn>>
rvars == <<rpc, pos, samples, j>>
vars == <<file, wvars, rvars>>

-----------------------------------------------------------------------------
Point(r, p) == [c \in 1 .. CELLS |-> <<r, p, c>>]

\* The cells of count data points from samples[first] on.
Block(r, first, count) ==
  [k \in 1 .. count * CELLS |->
     <<r, first + (k - 1) \div CELLS, ((k - 1) % CELLS) + 1>>]

Init ==
  /\ file = <<>>
  /\ run = 0
  /\ num = 0
  /\ base = 0
  /\ block = 0
  /\ wpc = "Idle"
  /\ runs = <<>>
  /\ torn = FALSE
  /\ rpc = "Idle"
  /\ pos = 0
  /\ samples = <<>>
  /\ j = 0

-----------------------------------------------------------------------------
(* serialize_data_entry()                                                  *)

\* The next run of the task calls it; the file is only read when no task
\* runs.
Serialize ==
  /\ wpc = "Idle"
  /\ rpc = "Idle"
  /\ run < MaxRuns
  /\ run' = run + 1
  /\ num' \in Sizes
  /\ base' = 0
  /\ block' = 0
  /\ wpc' = "Open"
  /\ runs' = Append(runs, [num |-> num', outcome |-> "open"])
  /\ UNCHANGED <<file, torn, rvars>>

\* The function returns, or the task is killed in it.
Leave(value) ==
  /\ wpc' = "Idle"
  /\ runs' = [runs EXCEPT ![run].outcome = value]
  /\ UNCHANGED <<run, num, base, block, rvars>>

OpenFails ==
  /\ wpc = "Open"
  /\ Leave("error")
  /\ UNCHANGED <<file, torn>>

OpenFile ==
  /\ wpc = "Open"
  /\ wpc' = "Blocks"
  /\ UNCHANGED <<file, run, num, base, block, runs, torn, rvars>>

\* write() appends all the cells, or only the first few of them.
Written(cells) ==
  \E n \in (IF cells = <<>> THEN {0} ELSE 1 .. Len(cells)) :
    /\ file' = file \o SubSeq(cells, 1, n)
    /\ torn' = (torn \/ n < Len(cells))

\* Mutant of Advance: the pointer stays where it was.
AdvanceNot(here) == here

\* samples = &samples[j]
Advance(here) == here + SBLOCK_SIZE

WriteBlock ==
  /\ wpc = "Blocks"
  /\ block < num \div SBLOCK_SIZE
  /\ Written(Block(run, base, SBLOCK_SIZE))
  /\ base' = Advance(base)
  /\ block' = block + 1
  /\ UNCHANGED <<run, num, wpc, runs, rvars>>

\* What remains is written even when it is nothing.
WriteRest ==
  /\ wpc = "Blocks"
  /\ block = num \div SBLOCK_SIZE
  /\ Written(Block(run, base, num % SBLOCK_SIZE))
  /\ Leave("success")

\* write() returns -1: the blocks written before stay in the file.
WriteFails ==
  /\ wpc = "Blocks"
  /\ Leave("error")
  /\ UNCHANGED <<file, torn>>

\* The task is killed between two system calls.
Killed ==
  /\ wpc # "Idle"
  /\ Leave("killed")
  /\ UNCHANGED <<file, torn>>

-----------------------------------------------------------------------------
(* read_sdata_entry()                                                      *)

\* What lseek(SEEK_END) returns is stored in an int.
FileSize ==
  IF Len(file) <= INT_MAX THEN Len(file)
  ELSE ((Len(file) + INT_MAX + 1) % (2 * INT_MAX + 2)) - (INT_MAX + 1)

\* How many data points it is taken for: -1 is an error, and from another
\* negative number the unsigned division makes a huge one, of which an int
\* keeps some part.
NumSamples ==
  IF FileSize >= 0 THEN {FileSize \div CELLS}
  ELSE IF FileSize = -1 THEN {} ELSE 0 .. INT_MAX

\* The buffer is sized by it.
OpenAndSize ==
  /\ rpc = "Idle"
  /\ wpc = "Idle"
  /\ rpc' = "Read"
  /\ pos' = 0
  /\ \E n \in NumSamples : samples' = [k \in 1 .. n |-> Unset]
  /\ j' = 0
  /\ UNCHANGED <<file, wvars>>

\* Mutant of BytesRead: one block ends the file.
BytesReadOnce == IF pos > 0 THEN 0 ELSE
  IF Len(file) < BLOCK_MUL * CELLS THEN Len(file) ELSE BLOCK_MUL * CELLS

\* read() returns a full block as long as the file has one.
BytesRead ==
  IF Len(file) - pos < BLOCK_MUL * CELLS THEN Len(file) - pos ELSE BLOCK_MUL * CELLS

WholePoints == BytesRead \div CELLS

\* The whole data points of the block are copied; a torn one at its end is
\* dropped.  Behind the buffer they overwrite what is there, and what the
\* process does from then on is left open.
ReadBlock ==
  /\ rpc = "Read"
  /\ BytesRead > 0
  /\ IF j + WholePoints > Len(samples)
       THEN rpc' = "Overrun" /\ UNCHANGED <<pos, samples, j>>
       ELSE /\ samples' = [k \in DOMAIN samples |->
                            IF k \in j + 1 .. j + WholePoints
                            THEN SubSeq(file, pos + (k - j - 1) * CELLS + 1, pos + (k - j) * CELLS)
                            ELSE samples[k]]
            /\ j' = j + WholePoints
            /\ pos' = pos + BytesRead
            /\ UNCHANGED rpc
  /\ UNCHANGED <<file, wvars>>

EndOfFile ==
  /\ rpc = "Read"
  /\ BytesRead = 0
  /\ rpc' = "Done"
  /\ UNCHANGED <<file, wvars, pos, samples, j>>

\* open(), lseek(), malloc() or read() fail: -1, and no samples.
ReadFails ==
  /\ (rpc = "Idle" /\ wpc = "Idle") \/ rpc = "Read"
  /\ rpc' = "Failed"
  /\ samples' = <<>>
  /\ j' = 0
  /\ UNCHANGED <<file, wvars, pos>>

\* The caller is done with the samples, or its process with it.
Release ==
  /\ rpc \in {"Done", "Failed", "Overrun"}
  /\ rpc' = "Idle"
  /\ pos' = 0
  /\ samples' = <<>>
  /\ j' = 0
  /\ UNCHANGED <<file, wvars>>

Writer == Serialize \/ OpenFails \/ OpenFile \/ WriteBlock \/ WriteRest \/ WriteFails \/ Killed
Reader == OpenAndSize \/ ReadBlock \/ EndOfFile \/ ReadFails \/ Release

Next == Writer \/ Reader

Spec == Init /\ [][Next]_vars

-----------------------------------------------------------------------------
(* Properties.                                                             *)

IntSized == Len(file) <= INT_MAX

\* What the reader returns is the file, data point by data point, whatever
\* is in it: no slot is left unset and no whole data point is dropped; and it
\* never stores behind the buffer it sized by the file, as long as that size
\* is an int (lines 121-160).
ReadsWholeFile ==
  IntSized =>
    /\ rpc # "Overrun"
    /\ rpc = "Done" =>
         /\ j = Len(samples)
         /\ j = Len(file) \div CELLS
         /\ \A k \in 1 .. j : samples[k] = SubSeq(file, (k - 1) * CELLS + 1, k * CELLS)

PointsOf(r) == {k \in 1 .. j : \E p \in 0 .. j : samples[k] = Point(r, p)}

\* As long as no write was short, every run leaves a prefix of its data
\* points, whole, in order and with nothing between them; all of them if it
\* succeeds, and otherwise as many as complete blocks hold, which need not
\* end where a job ends.
RunsStayTogether ==
  rpc = "Done" /\ IntSized /\ ~torn =>
    /\ \A k \in 1 .. j : \E r \in 1 .. run : k \in PointsOf(r)
    /\ \A k \in 2 .. j :
         LET prev == samples[k - 1][1]
             this == samples[k][1]
         IN  \/ this[1] = prev[1] /\ this[2] = prev[2] + 1
             \/ this[1] > prev[1] /\ this[2] = 0
    /\ j > 0 => samples[1][1][2] = 0
    /\ \A r \in 1 .. run :
         LET n == Cardinality(PointsOf(r))
         IN  n = runs[r].num \/ (runs[r].outcome # "success" /\ n < runs[r].num
                                  /\ n % SBLOCK_SIZE = 0)
=============================================================================

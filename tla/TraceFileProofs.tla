--------------------------- MODULE TraceFileProofs ---------------------------
(***************************************************************************)
(* The reader of the trace file returns the whole file, for files, blocks  *)
(* and data points of any size and any number of runs, whether they were   *)
(* killed or their writes were short; and what the runs wrote in whole is  *)
(* there run by run.                                                       *)
(***************************************************************************)
EXTENDS TraceFile, SequenceTheorems, FiniteSetTheorems, TLAPS

-----------------------------------------------------------------------------
(* Division by the size of a data point.                                   *)

\* The quotient is the number that many times the divisor fits.
LEMMA Quotient ==
  ASSUME NEW a \in Nat, NEW c \in Nat \ {0}
  PROVE  /\ a \div c \in Nat
         /\ (a \div c) * c <= a
         /\ a < (a \div c) * c + c
  OBVIOUS

\* And it is the only such number.
LEMMA QuotientIs ==
  ASSUME NEW a \in Nat, NEW c \in Nat \ {0}, NEW q \in Nat, q * c <= a, a < q * c + c
  PROVE  a \div c = q
  OBVIOUS

LEMMA Multiple ==
  ASSUME NEW a \in Nat, NEW b \in Nat, NEW c \in Nat \ {0}
  PROVE  /\ a * c \in Nat
         /\ (a + b) * c = a * c + b * c
         /\ (a - b) * c = a * c - b * c
         /\ a <= b => a * c <= b * c
         /\ a * c < b * c => a < b
  OBVIOUS

\* A file of n cells has w whole data points of c cells.  From the j-th on,
\* w - j are left ...
LEMMA PointsLeft ==
  ASSUME NEW n \in Nat, NEW w \in Nat, NEW seen \in 0 .. w, NEW c \in Nat \ {0},
         w * c <= n, n < w * c + c
  PROVE  (n - seen * c) \div c = w - seen
  <1> DEFINE left == w - seen
  <1>1. left \in Nat /\ w * c \in Nat /\ seen * c \in Nat /\ left * c = w * c - seen * c
    BY Multiple
  <1>2. seen * c <= w * c
    BY Multiple
  <1>3. n - seen * c \in Nat /\ left * c <= n - seen * c /\ n - seen * c < left * c + c
    BY <1>1, <1>2
  <1> HIDE DEF left
  <1>4. (n - seen * c) \div c = left
    BY <1>1, <1>3, QuotientIs
  <1> QED
    BY <1>4 DEF left

\* ... and b more that are there are among them.
LEMMA PointsFit ==
  ASSUME NEW n \in Nat, NEW w \in Nat, NEW seen \in Nat, NEW b \in Nat, NEW c \in Nat \ {0},
         n < w * c + c, seen * c + b * c <= n
  PROVE  seen + b <= w
  <1>1. (seen + b) * c = seen * c + b * c /\ (w + 1) * c = w * c + 1 * c
    BY Multiple
  <1>2. seen * c \in Nat /\ b * c \in Nat /\ w * c \in Nat /\ 1 * c = c
    BY Multiple
  <1>3. (seen + b) * c < (w + 1) * c
    BY <1>1, <1>2
  <1>4. seen + b < w + 1
    BY <1>3, Multiple
  <1> QED
    BY <1>4

\* The cells of the k-th of them are in the file.
LEMMA PointInFile ==
  ASSUME NEW n \in Nat, NEW w \in Nat, NEW k \in 1 .. w, NEW c \in Nat \ {0}, w * c <= n
  PROVE  /\ (k - 1) * c + 1 \in Int
         /\ k * c \in Int
         /\ \A i \in (k - 1) * c + 1 .. k * c : i \in 1 .. n
  <1>1. k * c \in Nat /\ (k - 1) * c \in Nat /\ w * c \in Nat
    BY Multiple
  <1>2. k * c <= w * c
    BY Multiple
  <1> QED
    BY <1>1, <1>2

-----------------------------------------------------------------------------
(* The invariant.                                                          *)

Cell == Nat \X Int \X Int
Slot == Seq(Cell) \cup {Unset}

\* The file holds cells, and the next block to be written has a place.
FileInv ==
  /\ file \in Seq(Cell)
  /\ run \in Nat
  /\ base \in Nat
  /\ num \in Nat

\* No task runs while the file is read, so it stays as it was sized.
Exclusion == rpc # "Idle" => wpc = "Idle"

\* The reader has stored the data points before pos, in their slots; behind a
\* block cut short by the end of the file there is no further one.
Reading ==
  /\ rpc \in {"Read", "Done"}
  /\ samples \in Seq(Slot)
  /\ Len(samples) = Len(file) \div CELLS
  /\ j \in 0 .. Len(samples)
  /\ pos \in 0 .. Len(file)
  /\ pos = j * CELLS \/ (pos = Len(file) /\ j = Len(samples))
  /\ rpc = "Done" => j = Len(samples)
  /\ \A k \in 1 .. j : samples[k] = SubSeq(file, (k - 1) * CELLS + 1, k * CELLS)

ReadInv ==
  IF rpc \in {"Read", "Done", "Overrun"} THEN IntSized => Reading
  ELSE samples = <<>> /\ j = 0

TraceInv == FileInv /\ Exclusion /\ ReadInv

LEMMA InvInit == Init => TraceInv
  BY DEF Init, TraceInv, FileInv, Exclusion, ReadInv

\* The cells of a block are cells.
LEMMA BlockType ==
  ASSUME NEW r \in Nat, NEW first \in Nat, NEW count \in Nat
  PROVE  Block(r, first, count) \in Seq(Cell)
  <1>1. count * CELLS \in Nat
    BY FileAssumption
  <1>2. ASSUME NEW k \in 1 .. count * CELLS
        PROVE  <<r, first + (k - 1) \div CELLS, ((k - 1) % CELLS) + 1>> \in Cell
    <2>1. (k - 1) \div CELLS \in Int /\ (k - 1) % CELLS \in Int
      BY <1>1, FileAssumption
    <2> QED
      BY <2>1 DEF Cell
  <1>3. Block(r, first, count) \in [1 .. count * CELLS -> Cell]
    BY <1>2 DEF Block
  <1> QED
    BY <1>1, <1>3, SeqDef

\* What a write stores, all or some of it, leaves a file of cells.
LEMMA WrittenType ==
  ASSUME file \in Seq(Cell), NEW cells \in Seq(Cell), Written(cells)
  PROVE  file' \in Seq(Cell)
  <1>1. PICK n \in (IF cells = <<>> THEN {0} ELSE 1 .. Len(cells)) :
          file' = file \o SubSeq(cells, 1, n)
    BY DEF Written
  <1>2. n \in 0 .. Len(cells)
    BY LenProperties, EmptySeq
  <1>3. \A i \in 1 .. n : cells[i] \in Cell
    BY <1>2, ElementOfSeq, LenProperties
  <1>4. SubSeq(cells, 1, n) \in Seq(Cell)
    BY <1>2, <1>3, SubSeqProperties, LenProperties
  <1> QED
    BY <1>1, <1>4, ConcatProperties

-----------------------------------------------------------------------------
(* The steps.                                                              *)

LEMMA WriterStep == TraceInv /\ Writer => TraceInv'
  <1> SUFFICES ASSUME TraceInv, Writer PROVE TraceInv'
    OBVIOUS
  <1> USE FileAssumption
  <1>1. rpc = "Idle" /\ UNCHANGED rvars
    BY DEF TraceInv, Exclusion, Writer, Serialize, OpenFails, OpenFile, WriteBlock, WriteRest,
           WriteFails, Killed, Leave
  <1>2. Exclusion' /\ ReadInv'
    BY <1>1 DEF TraceInv, Exclusion, ReadInv, rvars
  <1>3. FileInv'
    <2>1. CASE Serialize
      BY <2>1 DEF Serialize, TraceInv, FileInv
    <2>2. CASE OpenFails \/ OpenFile \/ WriteFails \/ Killed
      BY <2>2 DEF OpenFails, OpenFile, WriteFails, Killed, Leave, TraceInv, FileInv
    <2>3. CASE WriteBlock
      <3>1. Block(run, base, SBLOCK_SIZE) \in Seq(Cell)
        BY BlockType DEF TraceInv, FileInv
      <3>2. file' \in Seq(Cell)
        BY <2>3, <3>1, WrittenType DEF WriteBlock, TraceInv, FileInv
      <3> QED
        BY <2>3, <3>2 DEF WriteBlock, Advance, TraceInv, FileInv
    <2>4. CASE WriteRest
      <3>1. num % SBLOCK_SIZE \in Nat
        BY DEF TraceInv, FileInv
      <3>2. Block(run, base, num % SBLOCK_SIZE) \in Seq(Cell)
        BY <3>1, BlockType DEF TraceInv, FileInv
      <3>3. file' \in Seq(Cell)
        BY <2>4, <3>2, WrittenType DEF WriteRest, TraceInv, FileInv
      <3> QED
        BY <2>4, <3>3 DEF WriteRest, Leave, TraceInv, FileInv
    <2> QED
      BY <2>1, <2>2, <2>3, <2>4 DEF Writer
  <1> QED
    BY <1>2, <1>3 DEF TraceInv

\* A block read fills the slots of the data points that are whole in it.
LEMMA BlockIsRead == TraceInv /\ ReadBlock => ReadInv'
  <1> SUFFICES ASSUME TraceInv, ReadBlock PROVE ReadInv'
    OBVIOUS
  <1>0. /\ rpc = "Read" /\ rpc' \in {"Read", "Overrun"} /\ file' = file /\ BytesRead > 0
        /\ IntSized' <=> IntSized
    BY DEF ReadBlock, IntSized
  <1> SUFFICES ASSUME IntSized, Reading PROVE Reading'
    BY <1>0 DEF ReadInv, TraceInv
  <1> USE FileAssumption
  <1>2. /\ file \in Seq(Cell) /\ samples \in Seq(Slot) /\ DOMAIN samples = 1 .. Len(samples)
        /\ Len(samples) = Len(file) \div CELLS
        /\ \A k \in 1 .. j : samples[k] = SubSeq(file, (k - 1) * CELLS + 1, k * CELLS)
    BY LenProperties DEF TraceInv, FileInv, Reading
  <1>3. /\ Len(file) \in Nat /\ Len(samples) \in Nat
        /\ j \in 0 .. Len(samples) /\ pos \in 0 .. Len(file)
    BY <1>2, LenProperties DEF Reading
  <1>4. BytesRead \in Nat /\ pos + BytesRead <= Len(file)
    <2>1. BLOCK_MUL * CELLS \in Nat
      BY Multiple
    <2> QED
      BY <1>3, <2>1 DEF BytesRead
  <1>5. pos = j * CELLS
    BY <1>0, <1>3, <1>4 DEF Reading
  <1>6. Len(samples) * CELLS <= Len(file) /\ Len(file) < Len(samples) * CELLS + CELLS
    BY <1>2, <1>3, Quotient
  <1>7. /\ WholePoints \in Nat
        /\ j + WholePoints <= Len(samples)
        /\ \/ pos + BytesRead = (j + WholePoints) * CELLS
           \/ pos + BytesRead = Len(file) /\ j + WholePoints = Len(samples)
    <2>1. CASE Len(file) - pos < BLOCK_MUL * CELLS
      <3>1. BytesRead = Len(file) - j * CELLS
        BY <1>5, <2>1 DEF BytesRead
      <3>2. WholePoints = Len(samples) - j
        BY <1>3, <1>6, <3>1, PointsLeft DEF WholePoints
      <3>3. pos + BytesRead = Len(file)
        BY <1>3, <2>1 DEF BytesRead
      <3> QED
        BY <1>3, <3>2, <3>3
    <2>2. CASE ~(Len(file) - pos < BLOCK_MUL * CELLS)
      <3>1. BytesRead = BLOCK_MUL * CELLS
        BY <2>2 DEF BytesRead
      <3>2. WholePoints = BLOCK_MUL
        <4>1. BLOCK_MUL * CELLS \in Nat /\ BLOCK_MUL * CELLS < BLOCK_MUL * CELLS + CELLS
          BY Multiple
        <4> QED
          BY <3>1, <4>1, QuotientIs DEF WholePoints
      <3>3. (j + BLOCK_MUL) * CELLS = pos + BytesRead
        BY <1>3, <1>5, <3>1, Multiple
      <3>4. j * CELLS + BLOCK_MUL * CELLS <= Len(file)
        BY <1>4, <1>5, <3>1
      <3>5. j + BLOCK_MUL <= Len(samples)
        BY <1>3, <1>6, <3>4, PointsFit
      <3> QED
        BY <3>2, <3>3, <3>5
    <2> QED
      BY <2>1, <2>2
  <1> DEFINE Filled ==
        [k \in DOMAIN samples |->
           IF k \in j + 1 .. j + WholePoints
           THEN SubSeq(file, pos + (k - j - 1) * CELLS + 1, pos + (k - j) * CELLS)
           ELSE samples[k]]
  <1>1. /\ rpc' = "Read" /\ samples' = Filled
        /\ j' = j + WholePoints /\ pos' = pos + BytesRead
    <2>1. ~(j + WholePoints > Len(samples))
      BY <1>3, <1>7
    <2> QED
      BY <1>0, <2>1 DEF ReadBlock
  <1>8. ASSUME NEW k \in 1 .. j + WholePoints
        PROVE  samples'[k] = SubSeq(file, (k - 1) * CELLS + 1, k * CELLS)
    <2>1. k \in DOMAIN samples
      BY <1>2, <1>3, <1>7
    <2>2. CASE k \in j + 1 .. j + WholePoints
      <3>1. samples'[k] = SubSeq(file, pos + (k - j - 1) * CELLS + 1, pos + (k - j) * CELLS)
        BY <1>1, <2>1, <2>2
      <3>2. /\ pos + (k - j - 1) * CELLS + 1 = (k - 1) * CELLS + 1
            /\ pos + (k - j) * CELLS = k * CELLS
        BY <1>3, <1>5, <1>7
      <3> QED
        BY <3>1, <3>2
    <2>3. CASE k \notin j + 1 .. j + WholePoints
      <3>1. k \in 1 .. j /\ samples'[k] = samples[k]
        BY <1>1, <1>3, <1>7, <2>1, <2>3
      <3> QED
        BY <1>2, <3>1
    <2> QED
      BY <2>2, <2>3
  <1>9. samples' \in Seq(Slot) /\ Len(samples') = Len(samples)
    <2>1. ASSUME NEW k \in 1 .. Len(samples) PROVE samples'[k] \in Slot
      <3>1. CASE k \in j + 1 .. j + WholePoints
        <4>1. samples'[k] = SubSeq(file, (k - 1) * CELLS + 1, k * CELLS)
          BY <1>3, <1>7, <1>8, <3>1
        <4>2. /\ (k - 1) * CELLS + 1 \in Int /\ k * CELLS \in Int
              /\ \A i \in (k - 1) * CELLS + 1 .. k * CELLS : i \in 1 .. Len(file)
          BY <1>3, <1>6, <2>1, PointInFile
        <4>3. \A i \in (k - 1) * CELLS + 1 .. k * CELLS : file[i] \in Cell
          BY <1>2, <4>2, ElementOfSeq
        <4> QED
          BY <4>1, <4>2, <4>3, SubSeqProperties DEF Slot
      <3>2. CASE k \notin j + 1 .. j + WholePoints
        <4>1. samples'[k] = samples[k]
          BY <1>1, <1>2, <3>2
        <4> QED
          BY <1>2, <4>1, ElementOfSeq
      <3> QED
        BY <3>1, <3>2
    <2>2. samples' = [k \in 1 .. Len(samples) |-> samples'[k]]
      BY <1>1, <1>2
    <2>3. samples' \in [1 .. Len(samples) -> Slot]
      BY <2>1, <2>2
    <2>4. samples' \in Seq(Slot)
      BY <1>2, <2>3, SeqDef
    <2> QED
      BY <1>2, <2>3, <2>4, LenProperties
  <1>10. pos' \in 0 .. Len(file)
    BY <1>0, <1>1, <1>3, <1>4
  <1>11. /\ j' \in 0 .. Len(samples')
         /\ pos' = j' * CELLS \/ (pos' = Len(file') /\ j' = Len(samples'))
         /\ Len(samples') = Len(file') \div CELLS
    BY <1>0, <1>1, <1>2, <1>3, <1>7, <1>9
  <1> QED
    BY <1>0, <1>1, <1>8, <1>9, <1>10, <1>11 DEF Reading

LEMMA ReaderStep == TraceInv /\ Reader => TraceInv'
  <1> SUFFICES ASSUME TraceInv, Reader PROVE TraceInv'
    OBVIOUS
  <1> USE FileAssumption
  <1>1. FileInv'
    BY DEF TraceInv, FileInv, Reader, OpenAndSize, ReadBlock, EndOfFile, ReadFails, Release, wvars
  <1>2. Exclusion'
    BY DEF TraceInv, Exclusion, Reader, OpenAndSize, ReadBlock, EndOfFile, ReadFails, Release, wvars
  <1>3. ReadInv'
    <2>1. CASE OpenAndSize
      <3> SUFFICES ASSUME IntSized PROVE Reading'
        BY <2>1 DEF OpenAndSize, ReadInv, IntSized
      <3>1. Len(file) \in Nat /\ Len(file) \div CELLS \in Nat
        BY LenProperties, Quotient DEF TraceInv, FileInv
      <3>2. samples' \in [1 .. Len(file) \div CELLS -> Slot]
        <4>1. FileSize = Len(file) /\ Len(file) >= 0
          BY <3>1 DEF IntSized, FileSize
        <4>2. NumSamples = {Len(file) \div CELLS}
          BY <4>1 DEF NumSamples
        <4> QED
          BY <2>1, <4>2 DEF OpenAndSize, Slot
      <3>3. samples' \in Seq(Slot)
        BY <3>1, <3>2, SeqDef
      <3>4. Len(samples') = Len(file) \div CELLS
        BY <3>1, <3>2, <3>3, LenProperties
      <3> QED
        <4>1. rpc' = "Read" /\ pos' = 0 /\ j' = 0 /\ file' = file
          BY <2>1 DEF OpenAndSize
        <4>2. 0 * CELLS = 0
          OBVIOUS
        <4>3. j' \in 0 .. Len(samples') /\ pos' \in 0 .. Len(file') /\ pos' = j' * CELLS
          BY <3>1, <3>4, <4>1, <4>2
        <4> QED
          BY <3>1, <3>3, <3>4, <4>1, <4>3 DEF Reading
    <2>2. CASE ReadBlock
      BY <2>2, BlockIsRead
    <2>3. CASE EndOfFile
      <3> SUFFICES ASSUME IntSized, Reading PROVE Reading'
        BY <2>3 DEF EndOfFile, ReadInv, TraceInv, IntSized
      <3>1. /\ rpc = "Read" /\ rpc' = "Done" /\ BytesRead = 0
            /\ UNCHANGED <<file, pos, samples, j>>
        BY <2>3 DEF EndOfFile
      <3>2. /\ Len(file) \in Nat /\ Len(samples) \in Nat
            /\ Len(samples) = Len(file) \div CELLS
            /\ j \in 0 .. Len(samples) /\ pos \in 0 .. Len(file)
        BY <3>1, LenProperties DEF TraceInv, FileInv, Reading
      <3>3. BLOCK_MUL * CELLS > 0
        OBVIOUS
      <3>4. pos = Len(file)
        BY <3>1, <3>2, <3>3 DEF BytesRead
      <3>5. CASE pos = j * CELLS
        <4>1. Len(file) \div CELLS = j
          BY <3>2, <3>4, <3>5, QuotientIs
        <4> QED
          BY <3>1, <3>2, <4>1 DEF Reading
      <3>6. CASE j = Len(samples)
        BY <3>1, <3>6 DEF Reading
      <3> QED
        BY <3>1, <3>5, <3>6 DEF Reading
    <2>4. CASE ReadFails
      BY <2>4 DEF ReadFails, ReadInv
    <2>5. CASE Release
      BY <2>5 DEF Release, ReadInv
    <2> QED
      BY <2>1, <2>2, <2>3, <2>4, <2>5 DEF Reader
  <1> QED
    BY <1>1, <1>2, <1>3 DEF TraceInv

-----------------------------------------------------------------------------
(* The theorems.                                                           *)

\* The writer and the reader are where the code has them, and what is in the
\* file and the buffer is what they have put there so far.
THEOREM InvHolds == Spec => []TraceInv
  <1>1. TraceInv /\ [Next]_vars => TraceInv'
    <2>1. TraceInv /\ UNCHANGED vars => TraceInv'
      BY DEF TraceInv, FileInv, Exclusion, ReadInv, Reading, IntSized, vars, wvars, rvars
    <2> QED
      BY <2>1, WriterStep, ReaderStep DEF Next
  <1> QED
    BY <1>1, InvInit, PTL DEF Spec

\* The reader of pm_common.c:116 returns the file data point by data point
\* and never stores behind the buffer it allocated, however the runs that
\* wrote the file ended, as long as its size is an int.
THEOREM WholeFileIsRead == Spec => []ReadsWholeFile
  <1>1. TraceInv => ReadsWholeFile
    <2> SUFFICES ASSUME TraceInv PROVE ReadsWholeFile
      OBVIOUS
    <2>1. CASE rpc \in {"Read", "Done", "Overrun"}
      BY <2>1 DEF TraceInv, ReadInv, Reading, ReadsWholeFile
    <2>2. CASE rpc \notin {"Read", "Done", "Overrun"}
      BY <2>2 DEF ReadsWholeFile
    <2> QED
      BY <2>1, <2>2
  <1> QED
    BY <1>1, InvHolds, PTL

-----------------------------------------------------------------------------
(* The runs that wrote the file.                                           *)

\* The data points of a file f that is written in whole, the run each is from
\* and its number there.
Points(f) == Len(f) \div CELLS
RunAt(f, k) == f[(k - 1) * CELLS + 1][1]
NumberAt(f, k) == f[(k - 1) * CELLS + 1][2]

\* A file written by the runs up to the last one.
Whole(f, last) ==
  /\ Len(f) = Points(f) * CELLS
  /\ \A k \in 1 .. Points(f), c \in 1 .. CELLS :
       f[(k - 1) * CELLS + c] = <<RunAt(f, k), NumberAt(f, k), c>>
  /\ \A k \in 1 .. Points(f) : RunAt(f, k) \in 1 .. last
  /\ \A k, l \in 1 .. Points(f) : k <= l => RunAt(f, k) <= RunAt(f, l)

\* Run r wrote the n data points behind the first s, and no other.
Extent(f, r, s, n) ==
  /\ s \in Nat /\ n \in Nat /\ s + n <= Points(f)
  /\ \A k \in 1 .. Points(f) : RunAt(f, k) = r <=> k \in s + 1 .. s + n
  /\ \A k \in s + 1 .. s + n : NumberAt(f, k) = k - s - 1

\* How many a run may have written when it has ended.
MayLeave(record, n) ==
  \/ n = record.num
  \/ record.outcome # "success" /\ n < record.num /\ n % SBLOCK_SIZE = 0

Left(f, r, record) == \E s, n \in 0 .. Points(f) : Extent(f, r, s, n) /\ MayLeave(record, n)

Outcomes == {"open", "success", "error", "killed"}

RunsInv ==
  /\ runs \in Seq([num : Nat, outcome : Outcomes]) /\ Len(runs) = run
  /\ wpc # "Idle" =>
       /\ run > 0 /\ runs[run] = [num |-> num, outcome |-> "open"]
       /\ block \in Nat /\ block <= num \div SBLOCK_SIZE /\ base = block * SBLOCK_SIZE

TogetherInv ==
  ~torn =>
    /\ Whole(file, run)
    /\ \A r \in 1 .. run : r < run \/ wpc = "Idle" => Left(file, r, runs[r])
    /\ wpc # "Idle" => Extent(file, run, Points(file) - base, base)

LEMMA PointsAreNumbers ==
  ASSUME NEW f, Len(f) \in Nat
  PROVE  Points(f) \in Nat
BY Quotient, FileAssumption DEF Points

\* The place of a piece in a row of data points.
LEMMA PieceOf ==
  ASSUME NEW n \in Nat, NEW i \in 1 .. n, NEW c \in 1 .. CELLS
  PROVE  /\ (i - 1) * CELLS + c \in 1 .. n * CELLS
         /\ ((i - 1) * CELLS + c - 1) \div CELLS = i - 1
         /\ ((i - 1) * CELLS + c - 1) % CELLS = c - 1
<1> USE FileAssumption
<1>1. /\ i * CELLS \in Nat /\ (i - 1) * CELLS \in Nat /\ n * CELLS \in Nat
      /\ i * CELLS <= n * CELLS /\ (i - 1) * CELLS = i * CELLS - CELLS
  <2>1. i \in Nat /\ i - 1 \in Nat /\ 1 \in Nat
    OBVIOUS
  <2>2. i * CELLS \in Nat /\ (i - 1) * CELLS \in Nat /\ n * CELLS \in Nat
    BY <2>1, Multiple
  <2>3. i * CELLS <= n * CELLS
    BY <2>1, Multiple
  <2>4. (i - 1) * CELLS = i * CELLS - 1 * CELLS /\ 1 * CELLS = CELLS
    BY <2>1, Multiple
  <2> QED
    BY <2>2, <2>3, <2>4
<1>2. (i - 1) * CELLS + c \in 1 .. n * CELLS
  BY <1>1
<1>3. ((i - 1) * CELLS + c - 1) \div CELLS = i - 1
  <2>1. (i - 1) * CELLS + c - 1 \in Nat /\ i - 1 \in Nat
    BY <1>1
  <2> QED
    BY <1>1, <2>1, QuotientIs
<1>4. ((i - 1) * CELLS + c - 1) % CELLS = c - 1
  <2> DEFINE a == (i - 1) * CELLS + c - 1
  <2>1. a \in Nat
    BY <1>1
  <2>2. a = CELLS * (a \div CELLS) + (a % CELLS)
    <3> HIDE DEF a
    <3> QED
      BY <2>1
  <2>3. CELLS * (i - 1) = (i - 1) * CELLS
    OBVIOUS
  <2> QED
    BY <1>1, <1>3, <2>2, <2>3
<1> QED
  BY <1>2, <1>3, <1>4

\* The file g has count data points of run r more than f with its w.
Added(f, g, w, r, first, count) ==
  /\ Len(g) = (w + count) * CELLS /\ Points(g) = w + count /\ Points(f) = w
  /\ \A k \in 1 .. w, c \in 1 .. CELLS : g[(k - 1) * CELLS + c] = f[(k - 1) * CELLS + c]
  /\ \A k \in w + 1 .. w + count, c \in 1 .. CELLS :
       g[(k - 1) * CELLS + c] = <<r, first + (k - w - 1), c>>
  /\ \A k \in 1 .. w : RunAt(g, k) = RunAt(f, k) /\ NumberAt(g, k) = NumberAt(f, k)
  /\ \A k \in w + 1 .. w + count : RunAt(g, k) = r /\ NumberAt(g, k) = first + (k - w - 1)

\* A block written whole adds its data points behind those of the file.
LEMMA BlockAppended ==
  ASSUME NEW f \in Seq(Cell), NEW r \in Nat, NEW first \in Nat, NEW count \in Nat,
         NEW w \in Nat, Len(f) = w * CELLS
  PROVE  Added(f, f \o Block(r, first, count), w, r, first, count)
<1> USE FileAssumption
<1> DEFINE b == Block(r, first, count)
           g == f \o b
<1>1. /\ b \in Seq(Cell) /\ Len(b) = count * CELLS /\ count * CELLS \in Nat
      /\ w * CELLS \in Nat
  <2>1. b \in Seq(Cell)
    BY BlockType
  <2>2. count * CELLS \in Nat
    BY Multiple
  <2>3. Len(b) = count * CELLS
    BY <2>2 DEF Block
  <2>4. w * CELLS \in Nat
    BY Multiple
  <2> QED
    BY <2>1, <2>2, <2>3, <2>4
<1>2. ASSUME NEW i \in 1 .. count, NEW c \in 1 .. CELLS
      PROVE  b[(i - 1) * CELLS + c] = <<r, first + (i - 1), c>>
  <2>1. /\ (i - 1) * CELLS + c \in 1 .. count * CELLS
        /\ ((i - 1) * CELLS + c - 1) \div CELLS = i - 1
        /\ ((i - 1) * CELLS + c - 1) % CELLS = c - 1
    BY PieceOf
  <2> DEFINE a == (i - 1) * CELLS + c
  <2> HIDE DEF a
  <2>2. b[a] = <<r, first + (a - 1) \div CELLS, ((a - 1) % CELLS) + 1>>
    BY <2>1 DEF Block, a
  <2> HIDE DEF b
  <2>3. (a - 1) \div CELLS = i - 1 /\ ((a - 1) % CELLS) + 1 = c
    <3>1. (c - 1) + 1 = c
      OBVIOUS
    <3> QED
      BY <2>1, <3>1 DEF a
  <2>4. b[a] = <<r, first + (i - 1), c>>
    BY <2>2, <2>3
  <2> QED
    BY <2>4 DEF a
<1>3. /\ Len(g) = Len(f) + Len(b)
      /\ \A a \in 1 .. Len(f) : g[a] = f[a]
      /\ \A a \in 1 .. Len(b) : g[Len(f) + a] = b[a]
  <2> HIDE DEF b, g
  <2>0. g = f \o b
    BY DEF g
  <2>1. /\ Len(g) = Len(f) + Len(b)
        /\ \A a \in 1 .. Len(f) + Len(b) : g[a] = IF a <= Len(f) THEN f[a] ELSE b[a - Len(f)]
    BY <1>1, <2>0, ConcatProperties
  <2>2. Len(f) \in Nat /\ Len(b) \in Nat
    BY <1>1
  <2>3. \A a \in 1 .. Len(f) : a \in 1 .. Len(f) + Len(b) /\ a <= Len(f)
    BY <2>2
  <2>4. \A a \in 1 .. Len(b) : /\ Len(f) + a \in 1 .. Len(f) + Len(b)
                               /\ ~(Len(f) + a <= Len(f)) /\ (Len(f) + a) - Len(f) = a
    BY <2>2
  <2> QED
    BY <2>1, <2>3, <2>4
<1> HIDE DEF b, g
<1>4. Len(g) = (w + count) * CELLS /\ Points(g) = w + count /\ Points(f) = w
  <2>1. Len(g) = (w + count) * CELLS
    BY <1>1, <1>3, Multiple
  <2>2. /\ (w + count) * CELLS \in Nat /\ w + count \in Nat
        /\ (w + count) * CELLS < (w + count) * CELLS + CELLS
        /\ w * CELLS < w * CELLS + CELLS
    BY <1>1, Multiple
  <2>3. ((w + count) * CELLS) \div CELLS = w + count /\ (w * CELLS) \div CELLS = w
    BY <1>1, <2>2, QuotientIs
  <2> QED
    BY <2>1, <2>3 DEF Points
<1>5. ASSUME NEW k \in 1 .. w, NEW c \in 1 .. CELLS
      PROVE  g[(k - 1) * CELLS + c] = f[(k - 1) * CELLS + c]
  <2>1. (k - 1) * CELLS + c \in 1 .. Len(f)
    BY PieceOf
  <2> QED
    BY <1>3, <2>1
<1>6. ASSUME NEW k \in w + 1 .. w + count, NEW c \in 1 .. CELLS
      PROVE  g[(k - 1) * CELLS + c] = <<r, first + (k - w - 1), c>>
  <2>1. PICK i \in 1 .. count : i = k - w /\ k = w + i /\ i - 1 = k - w - 1
    OBVIOUS
  <2>2. (i - 1) * CELLS + c \in 1 .. Len(b)
    BY <1>1, PieceOf
  <2>3. (k - 1) * CELLS = w * CELLS + (i - 1) * CELLS
    <3>1. k - 1 = w + (i - 1) /\ i - 1 \in Nat
      BY <2>1
    <3> QED
      BY <3>1, Multiple
  <2>4. (k - 1) * CELLS + c = Len(f) + ((i - 1) * CELLS + c)
    BY <1>1, <2>2, <2>3
  <2>5. g[(k - 1) * CELLS + c] = b[(i - 1) * CELLS + c]
    BY <1>3, <2>2, <2>4
  <2> QED
    BY <1>2, <2>1, <2>5
<1>7. 1 \in 1 .. CELLS
  OBVIOUS
<1>8. \A k \in 1 .. w : RunAt(g, k) = RunAt(f, k) /\ NumberAt(g, k) = NumberAt(f, k)
  BY <1>5, <1>7 DEF RunAt, NumberAt
<1>9. ASSUME NEW k \in w + 1 .. w + count
      PROVE  RunAt(g, k) = r /\ NumberAt(g, k) = first + (k - w - 1)
  <2>1. g[(k - 1) * CELLS + 1] = <<r, first + (k - w - 1), 1>>
    BY <1>6, <1>7
  <2> QED
    BY <2>1 DEF RunAt, NumberAt
<1>10. Added(f, g, w, r, first, count)
  BY <1>4, <1>5, <1>6, <1>8, <1>9 DEF Added
<1> QED
  BY <1>10 DEF g, b

\* So it is written in whole again, if the run is the last one.
LEMMA WholeAgain ==
  ASSUME NEW w \in Nat, NEW count \in Nat, NEW first \in Nat, NEW r \in Nat \ {0},
         NEW f, NEW g, Added(f, g, w, r, first, count), Whole(f, r)
  PROVE  Whole(g, r)
<1>1. w = Points(f)
  BY DEF Added
<1>2. /\ Len(g) = (w + count) * CELLS /\ Points(g) = w + count
      /\ \A k \in 1 .. w, c \in 1 .. CELLS : g[(k - 1) * CELLS + c] = f[(k - 1) * CELLS + c]
      /\ \A k \in w + 1 .. w + count, c \in 1 .. CELLS :
           g[(k - 1) * CELLS + c] = <<r, first + (k - w - 1), c>>
  BY DEF Added
<1>4. \A k \in 1 .. w : RunAt(g, k) = RunAt(f, k) /\ NumberAt(g, k) = NumberAt(f, k)
  BY DEF Added
<1>5. \A k \in w + 1 .. w + count : RunAt(g, k) = r /\ NumberAt(g, k) = first + (k - w - 1)
  BY DEF Added
<1>6. \A k \in 1 .. w + count : k \in 1 .. w \/ k \in w + 1 .. w + count
  OBVIOUS
<1>7. ASSUME NEW k \in 1 .. w + count, NEW c \in 1 .. CELLS
      PROVE  g[(k - 1) * CELLS + c] = <<RunAt(g, k), NumberAt(g, k), c>>
  <2>1. CASE k \in 1 .. w
    <3>1. f[(k - 1) * CELLS + c] = <<RunAt(f, k), NumberAt(f, k), c>>
      BY <1>1, <2>1 DEF Whole
    <3> QED
      BY <1>2, <1>4, <2>1, <3>1
  <2>2. CASE k \in w + 1 .. w + count
    BY <1>2, <1>5, <2>2
  <2> QED
    BY <1>6, <2>1, <2>2
<1>8. \A k \in 1 .. w : RunAt(g, k) \in 1 .. r
  BY <1>1, <1>4 DEF Whole
<1>9. \A k \in 1 .. w + count : RunAt(g, k) \in 1 .. r
  <2>1. r \in 1 .. r
    OBVIOUS
  <2> QED
    BY <1>5, <1>6, <1>8, <2>1
<1>10. ASSUME NEW k \in 1 .. w + count, NEW l \in 1 .. w + count, k <= l
       PROVE  RunAt(g, k) <= RunAt(g, l)
  <2>1. CASE l \in 1 .. w
    <3>1. k \in 1 .. w
      BY <1>10, <2>1
    <3>2. RunAt(f, k) <= RunAt(f, l)
      BY <1>1, <1>10, <2>1, <3>1 DEF Whole
    <3> QED
      BY <1>4, <2>1, <3>1, <3>2
  <2>2. CASE l \in w + 1 .. w + count
    <3>1. RunAt(g, l) = r /\ RunAt(g, k) \in 1 .. r
      BY <1>5, <1>9, <2>2
    <3> QED
      BY <3>1
  <2> QED
    BY <1>6, <2>1, <2>2
<1> QED
  BY <1>2, <1>7, <1>9, <1>10 DEF Whole

\* The extents of earlier runs stay ...
LEMMA ExtentsStay ==
  ASSUME NEW w \in Nat, NEW count \in Nat, NEW first \in Nat, NEW r \in Nat \ {0},
         NEW f, NEW g, Added(f, g, w, r, first, count),
         NEW q, q # r, NEW s, NEW n, Extent(f, q, s, n)
  PROVE  Extent(g, q, s, n)
<1>1. w = Points(f)
  BY DEF Added
<1>2. /\ Points(g) = w + count
      /\ \A k \in 1 .. w : RunAt(g, k) = RunAt(f, k) /\ NumberAt(g, k) = NumberAt(f, k)
      /\ \A k \in w + 1 .. w + count : RunAt(g, k) = r
  BY DEF Added
<1>3. /\ s \in Nat /\ n \in Nat /\ s + n <= w
      /\ \A k \in 1 .. w : RunAt(f, k) = q <=> k \in s + 1 .. s + n
      /\ \A k \in s + 1 .. s + n : NumberAt(f, k) = k - s - 1
  BY <1>1 DEF Extent
<1>4. \A k \in s + 1 .. s + n : k \in 1 .. w
  BY <1>3
<1>5. \A k \in w + 1 .. w + count : k \notin s + 1 .. s + n
  BY <1>3
<1>6. s + n <= w + count
  BY <1>3
<1>7. \A k \in 1 .. w + count : k \in 1 .. w \/ k \in w + 1 .. w + count
  OBVIOUS
<1>8. \A k \in 1 .. w + count : RunAt(g, k) = q <=> k \in s + 1 .. s + n
  BY <1>2, <1>3, <1>5, <1>7
<1>9. \A k \in s + 1 .. s + n : NumberAt(g, k) = k - s - 1
  BY <1>2, <1>3, <1>4
<1> QED
  BY <1>2, <1>3, <1>6, <1>8, <1>9 DEF Extent

\* ... and that of the current run grows.
LEMMA ExtentGrows ==
  ASSUME NEW w \in Nat, NEW count \in Nat, NEW first \in Nat, NEW r \in Nat \ {0},
         NEW f, NEW g, Added(f, g, w, r, first, count),
         Extent(f, r, Points(f) - first, first)
  PROVE  Extent(g, r, Points(g) - (first + count), first + count)
<1>1. w = Points(f)
  BY DEF Added
<1>2. /\ Points(g) = w + count
      /\ \A k \in 1 .. w : RunAt(g, k) = RunAt(f, k) /\ NumberAt(g, k) = NumberAt(f, k)
      /\ \A k \in w + 1 .. w + count : RunAt(g, k) = r /\ NumberAt(g, k) = first + (k - w - 1)
  BY DEF Added
<1>3. PICK s : s = w - first
  OBVIOUS
<1>4. Extent(f, r, s, first)
  BY <1>1, <1>3
<1>5. /\ s \in Nat /\ s + first = w
      /\ \A k \in 1 .. w : RunAt(f, k) = r <=> k \in s + 1 .. s + first
      /\ \A k \in s + 1 .. s + first : NumberAt(f, k) = k - s - 1
  <2>1. s \in Nat
    BY <1>4 DEF Extent
  <2>2. s + first = w
    BY <1>3, <2>1
  <2> QED
    BY <1>1, <1>4, <2>1, <2>2 DEF Extent
<1>6. PICK n \in Nat : n = first + count
  OBVIOUS
<1>7. s + n = w + count /\ Points(g) - n = s
  BY <1>2, <1>3, <1>5, <1>6
<1>8. /\ \A k \in 1 .. w + count : k \in 1 .. w \/ k \in w + 1 .. w + count
      /\ \A k \in s + 1 .. w + count : k \in s + 1 .. w \/ k \in w + 1 .. w + count
      /\ \A k \in 1 .. w : k \in s + 1 .. w + count <=> k \in s + 1 .. w
      /\ \A k \in w + 1 .. w + count : k \in s + 1 .. w + count /\ first + (k - w - 1) = k - s - 1
      /\ \A k \in s + 1 .. w : k \in 1 .. w
  BY <1>5
<1>9. \A k \in 1 .. w + count : RunAt(g, k) = r <=> k \in s + 1 .. w + count
  BY <1>2, <1>5, <1>8
<1>10. \A k \in s + 1 .. w + count : NumberAt(g, k) = k - s - 1
  BY <1>2, <1>5, <1>8
<1>11. Extent(g, r, s, n)
  BY <1>2, <1>5, <1>6, <1>7, <1>9, <1>10 DEF Extent
<1> QED
  BY <1>6, <1>7, <1>11

\* All cells of a block are written unless the file is torn.
LEMMA WrittenWhole ==
  ASSUME NEW cells \in Seq(Cell), Written(cells), ~torn', file \in Seq(Cell)
  PROVE  file' = file \o cells /\ ~torn
<1>1. PICK n \in (IF cells = <<>> THEN {0} ELSE 1 .. Len(cells)) :
        file' = file \o SubSeq(cells, 1, n) /\ torn' = (torn \/ n < Len(cells))
  BY DEF Written
<1>2. Len(cells) \in Nat /\ n \in 0 .. Len(cells)
  BY LenProperties, EmptySeq
<1>3. ~(n < Len(cells)) /\ ~torn
  BY <1>1, Zenon
<1>4. n = Len(cells)
  BY <1>2, <1>3
<1>5. SubSeq(cells, 1, n) = cells
  BY <1>4, SubSeqFull
<1> QED
  BY <1>1, <1>3, <1>5

-----------------------------------------------------------------------------
(* The steps.                                                              *)

LEMMA RunsInit == Init => RunsInv /\ TogetherInv
<1> SUFFICES ASSUME Init PROVE RunsInv /\ TogetherInv
  OBVIOUS
<1>1. file = <<>> /\ Len(file) = 0 /\ run = 0 /\ runs = <<>> /\ wpc = "Idle"
  BY DEF Init
<1>2. Points(file) = 0
  <2>1. 0 * CELLS = 0 /\ CELLS \in Nat \ {0}
    BY FileAssumption
  <2>2. 0 \div CELLS = 0
    BY <2>1, QuotientIs
  <2> QED
    BY <1>1, <2>2 DEF Points
<1>3. Whole(file, run)
  BY <1>1, <1>2, FileAssumption DEF Whole
<1>4. RunsInv
  BY <1>1 DEF RunsInv
<1> QED
  BY <1>1, <1>3, <1>4 DEF TogetherInv

LEMMA RunsStep == TraceInv /\ RunsInv /\ Writer => RunsInv'
<1> SUFFICES ASSUME TraceInv, RunsInv, Writer PROVE RunsInv'
  OBVIOUS
<1> DEFINE R == [num : Nat, outcome : Outcomes]
<1>1. /\ runs \in Seq(R) /\ Len(runs) = run /\ run \in Nat /\ num \in Nat
      /\ wpc # "Idle" => run > 0 /\ runs[run] = [num |-> num, outcome |-> "open"]
  BY DEF RunsInv, TraceInv, FileInv
<1>2. CASE Serialize
  <2>1. /\ num' \in Nat /\ base' = 0 /\ block' = 0 /\ wpc' = "Open" /\ run' = run + 1
        /\ runs' = Append(runs, [num |-> num', outcome |-> "open"])
    BY <1>2, FileAssumption DEF Serialize
  <2>2. [num |-> num', outcome |-> "open"] \in R
    BY <2>1 DEF Outcomes
  <2> HIDE DEF R
  <2>3. /\ runs' \in Seq(R) /\ Len(runs') = run + 1
        /\ runs'[run + 1] = [num |-> num', outcome |-> "open"]
    BY <1>1, <2>1, <2>2, AppendProperties
  <2>4. SBLOCK_SIZE \in Nat \ {0}
    BY FileAssumption
  <2>5. num' \div SBLOCK_SIZE \in Nat
    BY <2>1, <2>4, Quotient
  <2>6. 0 <= num' \div SBLOCK_SIZE /\ 0 = 0 * SBLOCK_SIZE /\ run + 1 > 0
    BY <1>1, <2>4, <2>5
  <2> QED
    BY <2>1, <2>3, <2>6 DEF RunsInv, R
<1>3. ASSUME NEW v \in Outcomes, Leave(v), wpc # "Idle" PROVE RunsInv'
  <2>1. /\ wpc' = "Idle" /\ runs' = [runs EXCEPT ![run].outcome = v] /\ run' = run
    BY <1>3 DEF Leave
  <2>2. run \in 1 .. Len(runs)
    BY <1>1, <1>3
  <2>3. runs[run] \in R
    BY <1>1, <2>2, ElementOfSeq
  <2>4. [runs[run] EXCEPT !.outcome = v] \in R
    BY <2>3
  <2>5. runs' = [runs EXCEPT ![run] = [runs[run] EXCEPT !.outcome = v]]
    BY <2>1
  <2> HIDE DEF R
  <2>6. runs' \in Seq(R) /\ Len(runs') = run
    BY <1>1, <2>2, <2>4, <2>5, ExceptSeq
  <2> QED
    BY <2>1, <2>6 DEF RunsInv, R
<1>4. CASE OpenFails \/ WriteFails \/ Killed \/ WriteRest
  <2>1. \E v \in Outcomes : Leave(v) /\ wpc # "Idle"
    BY <1>4 DEF OpenFails, WriteFails, Killed, WriteRest, Outcomes
  <2> QED
    BY <1>3, <2>1
<1>5. CASE OpenFile
  BY <1>5 DEF OpenFile, RunsInv
<1>6. CASE WriteBlock
  <2>1. /\ wpc = "Blocks" /\ block < num \div SBLOCK_SIZE /\ base' = base + SBLOCK_SIZE
        /\ block' = block + 1 /\ UNCHANGED <<run, num, wpc, runs>>
    BY <1>6 DEF WriteBlock, Advance
  <2>2. SBLOCK_SIZE \in Nat \ {0}
    BY FileAssumption
  <2>3. block \in Nat /\ base = block * SBLOCK_SIZE /\ num \div SBLOCK_SIZE \in Nat
    BY <1>1, <2>1, <2>2, Quotient DEF RunsInv
  <2>4. (block + 1) * SBLOCK_SIZE = block * SBLOCK_SIZE + SBLOCK_SIZE
    <3>1. 1 \in Nat /\ 1 * SBLOCK_SIZE = SBLOCK_SIZE
      BY <2>2
    <3> QED
      BY <2>2, <2>3, <3>1, Multiple
  <2>5. block + 1 \in Nat /\ block + 1 <= num \div SBLOCK_SIZE
    BY <2>1, <2>3
  <2> QED
    BY <2>1, <2>3, <2>4, <2>5 DEF RunsInv
<1> QED
  BY <1>2, <1>4, <1>5, <1>6 DEF Writer

\* What is recorded of a run that has ended stays.
LEMMA EndedStay ==
  ASSUME RunsInv, run \in Nat, NEW r \in 1 .. run, r < run \/ wpc = "Idle",
         \/ \E v : runs' = Append(runs, v)
         \/ \E v : runs' = [runs EXCEPT ![run].outcome = v] /\ wpc # "Idle"
  PROVE  runs'[r] = runs[r]
<1> DEFINE R == [num : Nat, outcome : Outcomes]
<1>1. Len(runs) = run /\ r \in 1 .. Len(runs) /\ runs \in Seq(R)
  BY DEF RunsInv
<1> HIDE DEF R
<1>2. CASE \E v : runs' = Append(runs, v)
  BY <1>1, <1>2
<1>3. CASE \E v : runs' = [runs EXCEPT ![run].outcome = v] /\ wpc # "Idle"
  <2>1. r # run
    BY <1>3
  <2> QED
    BY <1>1, <1>3, <2>1
<1> QED
  BY <1>2, <1>3

\* The next run begins behind what is there.
LEMMA NextRunStarts ==
  ASSUME TraceInv, RunsInv, TogetherInv, Serialize
  PROVE  TogetherInv'
<1>1. /\ wpc = "Idle" /\ wpc' = "Open" /\ run' = run + 1 /\ base' = 0 /\ UNCHANGED <<file, torn>>
      /\ runs' = Append(runs, [num |-> num', outcome |-> "open"])
      /\ run \in Nat /\ file \in Seq(Cell)
  BY DEF Serialize, TraceInv, FileInv
<1> SUFFICES ASSUME ~torn PROVE TogetherInv'
  BY <1>1 DEF TogetherInv
<1>2. /\ Whole(file, run)
      /\ \A r \in 1 .. run : Left(file, r, runs[r])
  BY <1>1 DEF TogetherInv
<1>3. Points(file) \in Nat
  <2>1. Len(file) \in Nat
    BY <1>1, LenProperties
  <2> QED
    BY <2>1, Quotient, FileAssumption DEF Points
<1>4. Whole(file, run + 1)
  <2>1. \A k \in 1 .. Points(file) : RunAt(file, k) \in 1 .. run + 1
    BY <1>1, <1>2 DEF Whole
  <2> QED
    BY <1>2, <2>1 DEF Whole
<1>5. ASSUME NEW r \in 1 .. run PROVE Left(file, r, runs'[r])
  <2>1. runs'[r] = runs[r]
    BY <1>1, EndedStay
  <2> QED
    BY <1>2, <2>1
<1>6. Extent(file, run + 1, Points(file), 0)
  <2>1. \A k \in 1 .. Points(file) : RunAt(file, k) # run + 1
    BY <1>1, <1>2 DEF Whole
  <2> QED
    BY <1>3, <2>1 DEF Extent
<1>7. Extent(file, run + 1, Points(file) - 0, 0)
  <2>1. Points(file) - 0 = Points(file)
    BY <1>3
  <2> QED
    BY <1>6, <2>1
<1>8. \A r \in 1 .. run + 1 : r < run + 1 => r \in 1 .. run
  BY <1>1
<1>9. \A r \in 1 .. run' : r < run' \/ wpc' = "Idle" => Left(file', r, runs'[r])
  BY <1>1, <1>5, <1>8
<1> QED
  BY <1>1, <1>4, <1>7, <1>9 DEF TogetherInv

\* How many data points of a run whole blocks make.
LEMMA WholeBlocks ==
  ASSUME TraceInv, RunsInv, wpc # "Idle"
  PROVE  /\ base <= num /\ base % SBLOCK_SIZE = 0
         /\ block = num \div SBLOCK_SIZE => base + (num % SBLOCK_SIZE) = num
<1>1. /\ block \in Nat /\ block <= num \div SBLOCK_SIZE /\ base = block * SBLOCK_SIZE
      /\ num \in Nat /\ SBLOCK_SIZE \in Nat \ {0}
  BY FileAssumption DEF RunsInv, TraceInv, FileInv
<1>2. PICK q \in Nat : q = num \div SBLOCK_SIZE
  BY <1>1, Quotient
<1>3. q * SBLOCK_SIZE <= num /\ q * SBLOCK_SIZE \in Nat /\ block * SBLOCK_SIZE \in Nat
  BY <1>1, <1>2, Quotient, Multiple
<1>4. block * SBLOCK_SIZE <= q * SBLOCK_SIZE
  BY <1>1, <1>2, Multiple
<1>5. base <= num /\ base \in Nat
  BY <1>1, <1>3, <1>4
<1>6. \A a \in Nat : a = SBLOCK_SIZE * (a \div SBLOCK_SIZE) + (a % SBLOCK_SIZE) /\ a % SBLOCK_SIZE \in Nat
  BY <1>1
<1>7. SBLOCK_SIZE * block = block * SBLOCK_SIZE /\ SBLOCK_SIZE * q = q * SBLOCK_SIZE
  BY <1>1, <1>2
<1>8. base \div SBLOCK_SIZE = block
  <2>1. base < block * SBLOCK_SIZE + SBLOCK_SIZE /\ block * SBLOCK_SIZE <= base
    BY <1>1, <1>3
  <2> QED
    BY <1>1, <1>5, <2>1, QuotientIs
<1>9. base % SBLOCK_SIZE = 0
  <2>1. base = SBLOCK_SIZE * block + (base % SBLOCK_SIZE) /\ base % SBLOCK_SIZE \in Nat
    BY <1>5, <1>6, <1>8
  <2>2. base = SBLOCK_SIZE * block
    BY <1>1, <1>7
  <2> QED
    BY <1>5, <2>1, <2>2
<1>10. ASSUME block = num \div SBLOCK_SIZE PROVE base + (num % SBLOCK_SIZE) = num
  <2>1. num = SBLOCK_SIZE * q + (num % SBLOCK_SIZE)
    BY <1>1, <1>2, <1>6
  <2>2. base = SBLOCK_SIZE * q
    BY <1>1, <1>2, <1>7, <1>10
  <2> QED
    BY <2>1, <2>2
<1> QED
  BY <1>5, <1>9, <1>10

\* What the earlier runs left is there behind a further block.
LEMMA LeftStays ==
  ASSUME NEW w \in Nat, NEW count \in Nat, NEW first \in Nat, NEW r \in Nat \ {0},
         NEW f, NEW g, Added(f, g, w, r, first, count),
         NEW q, q # r, NEW record, Left(f, q, record)
  PROVE  Left(g, q, record)
<1>1. Points(f) = w /\ Points(g) = w + count
  BY DEF Added
<1>2. PICK s \in 0 .. w, n \in 0 .. w : Extent(f, q, s, n) /\ MayLeave(record, n)
  BY <1>1 DEF Left
<1>3. Extent(g, q, s, n)
  BY <1>2, ExtentsStay
<1>4. s \in 0 .. Points(g) /\ n \in 0 .. Points(g)
  BY <1>1
<1> QED
  BY <1>2, <1>3, <1>4 DEF Left

\* The current run ends with n of its data points in the file.
LEMMA RunEnds ==
  ASSUME RunsInv, run \in Nat, wpc # "Idle", NEW v, Leave(v), NEW n,
         file' \in Seq(Cell), Whole(file', run), Extent(file', run, Points(file') - n, n),
         MayLeave([num |-> num, outcome |-> v], n),
         \A r \in 1 .. run : r < run => Left(file', r, runs[r])
  PROVE  TogetherInv'
<1>1. /\ wpc' = "Idle" /\ run' = run /\ runs' = [runs EXCEPT ![run].outcome = v]
  BY DEF Leave
<1>2. /\ runs \in Seq([num : Nat, outcome : Outcomes]) /\ Len(runs) = run /\ run > 0
      /\ runs[run] = [num |-> num, outcome |-> "open"]
  BY DEF RunsInv
<1>3. runs'[run] = [num |-> num, outcome |-> v]
  <2>1. run \in DOMAIN runs
    BY <1>2, LenProperties
  <2>2. runs'[run] = [runs[run] EXCEPT !.outcome = v]
    BY <1>1, <2>1
  <2> QED
    BY <1>2, <2>2
<1>4. ASSUME NEW r \in 1 .. run, r < run PROVE Left(file', r, runs'[r])
  <2>1. runs'[r] = runs[r]
    BY <1>1, <1>4, EndedStay
  <2> QED
    BY <1>4, <2>1
<1>5. Left(file', run, runs'[run])
  <2>1. PICK s : s = Points(file') - n
    OBVIOUS
  <2>2. Extent(file', run, s, n)
    BY <2>1
  <2>3. s \in Nat /\ n \in Nat /\ s + n <= Points(file')
    BY <2>2 DEF Extent
  <2>4. Points(file') \in Nat
    BY LenProperties, PointsAreNumbers
  <2>5. s \in 0 .. Points(file') /\ n \in 0 .. Points(file')
    BY <2>3, <2>4
  <2> QED
    BY <1>3, <2>2, <2>5 DEF Left
<1>6. \A r \in 1 .. run : r < run \/ r = run
  OBVIOUS
<1>7. \A r \in 1 .. run' : Left(file', r, runs'[r])
  BY <1>1, <1>4, <1>5, <1>6
<1> QED
  BY <1>1, <1>7 DEF TogetherInv

\* A run that fails or is killed leaves the whole blocks it wrote.
LEMMA EndsUnwritten ==
  ASSUME TraceInv, RunsInv, TogetherInv, wpc # "Idle", UNCHANGED <<file, torn>>,
         NEW v, v # "success", Leave(v)
  PROVE  TogetherInv'
<1> SUFFICES ASSUME ~torn PROVE TogetherInv'
  BY DEF TogetherInv
<1>1. /\ Whole(file, run) /\ Extent(file, run, Points(file) - base, base) /\ run \in Nat
      /\ \A r \in 1 .. run : r < run => Left(file, r, runs[r])
      /\ file' = file /\ file' \in Seq(Cell)
  BY DEF TogetherInv, TraceInv, FileInv
<1>2. MayLeave([num |-> num, outcome |-> v], base)
  <2>1. base <= num /\ base % SBLOCK_SIZE = 0 /\ base \in Nat /\ num \in Nat
    BY WholeBlocks DEF TraceInv, FileInv
  <2> QED
    BY <2>1 DEF MayLeave
<1> QED
  BY <1>1, <1>2, RunEnds

\* A block adds data points of the current run, and nothing else changes.
LEMMA BlockIsAdded ==
  ASSUME TraceInv, RunsInv, TogetherInv, wpc # "Idle", ~torn', NEW count \in Nat,
         Written(Block(run, base, count))
  PROVE  /\ file' \in Seq(Cell) /\ Whole(file', run)
         /\ \A r \in 1 .. run : r < run => Left(file', r, runs[r])
         /\ Extent(file', run, Points(file') - (base + count), base + count)
<1>1. /\ file \in Seq(Cell) /\ run \in Nat \ {0} /\ run \in Nat /\ base \in Nat
  BY DEF TraceInv, FileInv, RunsInv
<1>2. Block(run, base, count) \in Seq(Cell)
  BY <1>1, BlockType
<1>3. file' = file \o Block(run, base, count) /\ ~torn
  BY <1>1, <1>2, WrittenWhole
<1>4. /\ Whole(file, run) /\ Extent(file, run, Points(file) - base, base)
      /\ \A r \in 1 .. run : r < run => Left(file, r, runs[r])
  BY <1>3 DEF TogetherInv
<1>5. PICK w \in Nat : w = Points(file)
  BY <1>1, LenProperties, PointsAreNumbers
<1>6. Len(file) = w * CELLS
  BY <1>4, <1>5 DEF Whole
<1>7. Added(file, file', w, run, base, count)
  <2>1. Added(file, file \o Block(run, base, count), w, run, base, count)
    BY <1>1, <1>6, BlockAppended
  <2> QED
    BY <1>3, <2>1
<1>8. Whole(file', run)
  BY <1>1, <1>4, <1>7, WholeAgain
<1>9. ASSUME NEW r \in 1 .. run, r < run PROVE Left(file', r, runs[r])
  <2>1. Left(file, r, runs[r]) /\ r # run
    BY <1>1, <1>4, <1>9
  <2> QED
    BY <1>1, <1>7, <2>1, LeftStays
<1>10. Extent(file', run, Points(file') - (base + count), base + count)
  BY <1>1, <1>4, <1>7, ExtentGrows
<1>11. file' \in Seq(Cell)
  BY <1>1, <1>2, WrittenType
<1> QED
  BY <1>8, <1>9, <1>10, <1>11

LEMMA TogetherStep == TraceInv /\ RunsInv /\ TogetherInv /\ Writer => TogetherInv'
<1> SUFFICES ASSUME TraceInv, RunsInv, TogetherInv, Writer PROVE TogetherInv'
  OBVIOUS
<1>1. CASE Serialize
  BY <1>1, NextRunStarts
<1>2. CASE OpenFails
  BY <1>2, EndsUnwritten DEF OpenFails
<1>3. CASE OpenFile
  BY <1>3 DEF OpenFile, TogetherInv
<1>4. CASE WriteBlock
  <2> SUFFICES ASSUME ~torn' PROVE TogetherInv'
    BY DEF TogetherInv
  <2>1. /\ wpc = "Blocks" /\ wpc' = wpc /\ run' = run /\ runs' = runs
        /\ base' = base + SBLOCK_SIZE /\ Written(Block(run, base, SBLOCK_SIZE))
    BY <1>4 DEF WriteBlock, Advance
  <2>2. /\ Whole(file', run)
        /\ \A r \in 1 .. run : r < run => Left(file', r, runs[r])
        /\ Extent(file', run, Points(file') - (base + SBLOCK_SIZE), base + SBLOCK_SIZE)
    BY <2>1, BlockIsAdded, FileAssumption
  <2> QED
    BY <2>1, <2>2 DEF TogetherInv
<1>5. CASE WriteRest
  <2> SUFFICES ASSUME ~torn' PROVE TogetherInv'
    BY DEF TogetherInv
  <2>1. /\ wpc = "Blocks" /\ block = num \div SBLOCK_SIZE /\ Leave("success")
        /\ Written(Block(run, base, num % SBLOCK_SIZE))
    BY <1>5 DEF WriteRest
  <2>2. num % SBLOCK_SIZE \in Nat /\ run \in Nat
    BY FileAssumption DEF TraceInv, FileInv
  <2>3. base + (num % SBLOCK_SIZE) = num
    BY <2>1, WholeBlocks
  <2>4. /\ file' \in Seq(Cell) /\ Whole(file', run)
        /\ \A r \in 1 .. run : r < run => Left(file', r, runs[r])
        /\ Extent(file', run, Points(file') - num, num)
    BY <2>1, <2>2, <2>3, BlockIsAdded
  <2>5. MayLeave([num |-> num, outcome |-> "success"], num)
    BY DEF MayLeave
  <2> QED
    BY <2>1, <2>2, <2>4, <2>5, RunEnds
<1>6. CASE WriteFails
  BY <1>6, EndsUnwritten DEF WriteFails
<1>7. CASE Killed
  BY <1>7, EndsUnwritten DEF Killed
<1> QED
  BY <1>1, <1>2, <1>3, <1>4, <1>5, <1>6, <1>7 DEF Writer

\* The reader leaves the file and its runs as they are.
LEMMA ReadersStep ==
  RunsInv /\ TogetherInv /\ UNCHANGED <<file, wvars>> => RunsInv' /\ TogetherInv'
BY DEF RunsInv, TogetherInv, wvars

LEMMA RunsAlways == Spec => [](TraceInv /\ RunsInv /\ TogetherInv)
<1>1. TraceInv /\ RunsInv /\ TogetherInv /\ [Next]_vars => RunsInv' /\ TogetherInv'
  <2>1. Reader => UNCHANGED <<file, wvars>>
    BY DEF Reader, OpenAndSize, ReadBlock, EndOfFile, ReadFails, Release
  <2>2. UNCHANGED vars => UNCHANGED <<file, wvars>>
    BY DEF vars
  <2> QED
    BY <2>1, <2>2, RunsStep, TogetherStep, ReadersStep DEF Next
<1> QED
  BY <1>1, RunsInit, InvHolds, PTL DEF Spec

-----------------------------------------------------------------------------
(* What the reader makes of it.                                            *)

LEMMA PointIs ==
  /\ \A r, p : Point(r, p)[1] = <<r, p, 1>>
  /\ \A r, p, s, q : Point(r, p) = Point(s, q) => r = s /\ p = q
<1>1. \A r, p : Point(r, p)[1] = <<r, p, 1>>
  BY FileAssumption DEF Point
<1> QED
  BY <1>1

\* A slot holds the data point of its run.
LEMMA SlotIs ==
  ASSUME TraceInv, Whole(file, run), rpc = "Done", IntSized, NEW k \in 1 .. j
  PROVE  samples[k] = Point(RunAt(file, k), NumberAt(file, k))
<1>1. /\ samples[k] = SubSeq(file, (k - 1) * CELLS + 1, k * CELLS)
      /\ j = Points(file) /\ j \in Nat /\ file \in Seq(Cell) /\ Len(file) \in Nat
      /\ CELLS \in Nat \ {0}
  <2>1. file \in Seq(Cell) /\ Len(file) \in Nat
    BY LenProperties DEF TraceInv, FileInv
  <2>2. CELLS \in Nat \ {0}
    BY FileAssumption
  <2> QED
    BY <2>1, <2>2, Quotient DEF TraceInv, ReadInv, Reading, Points
<1>2. PICK a \in Nat : a = (k - 1) * CELLS
  <2>1. k - 1 \in Nat
    BY <1>1
  <2> QED
    BY <1>1, <2>1, Multiple
<1>3. k * CELLS = a + CELLS
  <2>1. k = (k - 1) + 1 /\ k - 1 \in Nat /\ 1 \in Nat /\ 1 * CELLS = CELLS
    BY <1>1
  <2>2. ((k - 1) + 1) * CELLS = (k - 1) * CELLS + 1 * CELLS
    BY <1>1, <2>1, Multiple
  <2> QED
    BY <1>2, <2>1, <2>2
<1>4. samples[k] = [c \in 1 .. CELLS |-> file[a + c]]
  <2>1. samples[k] = SubSeq(file, a + 1, a + CELLS)
    BY <1>1, <1>2, <1>3
  <2> QED
    BY <1>1, <2>1
<1>5. \A c \in 1 .. CELLS : file[a + c] = <<RunAt(file, k), NumberAt(file, k), c>>
  BY <1>1, <1>2 DEF Whole
<1> QED
  BY <1>4, <1>5 DEF Point

\* In a file nothing was torn from, the runs follow one another.
LEMMA TogetherIs == TraceInv /\ RunsInv /\ TogetherInv => RunsStayTogether
<1> SUFFICES ASSUME TraceInv, RunsInv, TogetherInv, rpc = "Done", IntSized, ~torn
             PROVE  /\ \A k \in 1 .. j : \E r \in 1 .. run : k \in PointsOf(r)
                    /\ \A k \in 2 .. j :
                         LET prev == samples[k - 1][1]
                             this == samples[k][1]
                         IN  \/ this[1] = prev[1] /\ this[2] = prev[2] + 1
                             \/ this[1] > prev[1] /\ this[2] = 0
                    /\ j > 0 => samples[1][1][2] = 0
                    /\ \A r \in 1 .. run :
                         LET n == Cardinality(PointsOf(r))
                         IN  n = runs[r].num \/ (runs[r].outcome # "success" /\ n < runs[r].num
                                                  /\ n % SBLOCK_SIZE = 0)
  BY DEF RunsStayTogether
<1> DEFINE R(k) == RunAt(file, k)
           N(k) == NumberAt(file, k)
<1>1. /\ Whole(file, run) /\ run \in Nat
      /\ \A r \in 1 .. run : Left(file, r, runs[r])
  BY DEF TogetherInv, TraceInv, Exclusion, FileInv
<1>2. j = Points(file) /\ j \in Nat
  <2>1. Len(file) \in Nat
    BY LenProperties DEF TraceInv, FileInv
  <2> QED
    BY <2>1, PointsAreNumbers DEF TraceInv, ReadInv, Reading, Points
<1>3. \A k \in 1 .. j : R(k) \in 1 .. run
  BY <1>1, <1>2 DEF Whole
<1>4. \A k, l \in 1 .. j : k <= l => R(k) <= R(l)
  BY <1>1, <1>2 DEF Whole
<1>5. ASSUME NEW r \in 1 .. run
      PROVE  \E s, n \in 0 .. j : /\ MayLeave(runs[r], n) /\ s + n <= j
                                  /\ \A k \in 1 .. j : R(k) = r <=> k \in s + 1 .. s + n
                                  /\ \A k \in s + 1 .. s + n : N(k) = k - s - 1
  BY <1>1, <1>2 DEF Left, Extent
<1>6. \A k \in 1 .. j : samples[k] = Point(R(k), N(k))
  BY <1>1, SlotIs
<1> HIDE DEF R, N
<1>7. \A k \in 1 .. j : samples[k][1] = <<R(k), N(k), 1>>
  BY <1>6, PointIs
<1>8. ASSUME NEW k \in 1 .. j
      PROVE  \E s \in 0 .. j : N(k) = k - s - 1 /\ s < k /\ \A l \in s + 1 .. k : R(l) = R(k)
  <2>1. PICK s \in 0 .. j, n \in 0 .. j :
          /\ s + n <= j
          /\ \A l \in 1 .. j : R(l) = R(k) <=> l \in s + 1 .. s + n
          /\ \A l \in s + 1 .. s + n : N(l) = l - s - 1
    BY <1>3, <1>5
  <2>2. k \in s + 1 .. s + n
    BY <2>1
  <2>3. s < k /\ \A l \in s + 1 .. k : l \in 1 .. j /\ l \in s + 1 .. s + n
    BY <1>2, <2>1, <2>2
  <2> QED
    BY <2>1, <2>2, <2>3
<1>9. \A k \in 1 .. j : N(k) \in 0 .. j
  <2> SUFFICES ASSUME NEW k \in 1 .. j PROVE N(k) \in 0 .. j
    OBVIOUS
  <2>1. PICK s \in 0 .. j : N(k) = k - s - 1 /\ s < k
    BY <1>8
  <2> QED
    BY <1>2, <2>1
<1>10. \A r : PointsOf(r) = {k \in 1 .. j : R(k) = r}
  <2> SUFFICES ASSUME NEW r, NEW k \in 1 .. j
               PROVE  (\E p \in 0 .. j : samples[k] = Point(r, p)) <=> R(k) = r
    BY DEF PointsOf
  <2>1. ASSUME NEW p, samples[k] = Point(r, p) PROVE R(k) = r
    BY <1>6, <2>1, PointIs
  <2>2. ASSUME R(k) = r PROVE \E p \in 0 .. j : samples[k] = Point(r, p)
    BY <1>6, <1>9, <2>2
  <2> QED
    BY <2>1, <2>2
<1>11. \A k \in 1 .. j : \E r \in 1 .. run : k \in PointsOf(r)
  BY <1>3, <1>10
<1>12. ASSUME NEW k \in 2 .. j
       PROVE  LET prev == samples[k - 1][1]
                  this == samples[k][1]
              IN  \/ this[1] = prev[1] /\ this[2] = prev[2] + 1
                  \/ this[1] > prev[1] /\ this[2] = 0
  <2>1. k \in 1 .. j /\ k - 1 \in 1 .. j /\ k \in Int
    BY <1>2
  <2>2. R(k - 1) <= R(k) /\ R(k) \in Int /\ R(k - 1) \in Int
    BY <1>3, <1>4, <2>1
  <2>3. CASE R(k) = R(k - 1)
    <3>1. PICK s \in 0 .. j, n \in 0 .. j :
            /\ \A l \in 1 .. j : R(l) = R(k) <=> l \in s + 1 .. s + n
            /\ \A l \in s + 1 .. s + n : N(l) = l - s - 1
      BY <1>3, <1>5, <2>1
    <3>2. N(k) = k - s - 1 /\ N(k - 1) = (k - 1) - s - 1
      BY <2>1, <2>3, <3>1
    <3>3. N(k) = N(k - 1) + 1
      BY <2>1, <3>2
    <3> QED
      BY <1>7, <2>1, <2>3, <3>3
  <2>4. CASE R(k) # R(k - 1)
    <3>1. PICK s \in 0 .. j : N(k) = k - s - 1 /\ s < k /\ \A l \in s + 1 .. k : R(l) = R(k)
      BY <1>8, <2>1
    <3>2. ~(k - 1 \in s + 1 .. k)
      BY <2>4, <3>1
    <3>3. N(k) = 0
      BY <2>1, <3>1, <3>2
    <3>4. R(k) > R(k - 1)
      BY <2>2, <2>4
    <3> QED
      BY <1>7, <2>1, <3>3, <3>4
  <2> QED
    BY <2>3, <2>4
<1>13. ASSUME j > 0 PROVE samples[1][1][2] = 0
  <2>1. 1 \in 1 .. j
    BY <1>2, <1>13
  <2>2. PICK s \in 0 .. j : N(1) = 1 - s - 1 /\ s < 1
    BY <1>8, <2>1
  <2>3. N(1) = 0
    BY <2>2
  <2> QED
    BY <1>7, <2>1, <2>3
<1>14. ASSUME NEW r \in 1 .. run PROVE MayLeave(runs[r], Cardinality(PointsOf(r)))
  <2>1. PICK s \in 0 .. j, n \in 0 .. j :
          /\ MayLeave(runs[r], n) /\ s + n <= j
          /\ \A k \in 1 .. j : R(k) = r <=> k \in s + 1 .. s + n
    BY <1>5
  <2>2. \A k \in s + 1 .. s + n : k \in 1 .. j
    BY <1>2, <2>1
  <2>3. PointsOf(r) = s + 1 .. s + n
    BY <1>10, <2>1, <2>2
  <2>4. Cardinality(s + 1 .. s + n) = n
    <3>1. s + 1 \in Int /\ s + n \in Int /\ n \in Nat
      BY <1>2
    <3>2. Cardinality(s + 1 .. s + n) = IF s + 1 > s + n THEN 0 ELSE (s + n) - (s + 1) + 1
      BY <3>1, FS_Interval
    <3> QED
      BY <3>1, <3>2
  <2> QED
    BY <2>1, <2>3, <2>4
<1> QED
  BY <1>11, <1>12, <1>13, <1>14 DEF MayLeave

\* In the samples the reader of pm_common.c:116 returns, every run has a
\* prefix of its data points, whole, in order and with no other run's between
\* them, as long as no write of serialize_data_entry() (line 22) was short and
\* the size of the file is an int.
THEOREM RunsTogether == Spec => []RunsStayTogether
  BY RunsAlways, TogetherIs, PTL
=============================================================================

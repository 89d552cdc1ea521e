--------------------------- MODULE AnalyzerProofs ---------------------------
(***************************************************************************)
(* The analyzer reports every file it is given once, with the overheads of *)
(* that file, on command lines of any length and for traces of any length. *)
(***************************************************************************)
EXTENDS Analyzer, CommonLemmas, SequenceTheorems

\* The lemmas about sorting are those of PmModuleProofs that hold whatever the
\* traces and the scripts; they are cited for no trace and an idle script.
Srt == INSTANCE PmModuleProofs
         WITH AllocFails <- FALSE, Traces <- {}, CoresPerL2 <- {}, cores_per_chip <- 1,
              asked <- {}, failed <- FALSE, hadL3 <- FALSE, careful <- TRUE

-----------------------------------------------------------------------------
(* The rows of all parts one after the other.                              *)

\* The elements of two sequences put together.
LEMMA Together ==
  ASSUME NEW D, NEW s \in Seq(D), NEW t \in Seq(D)
  PROVE  /\ s \o t \in Seq(D)
         /\ DOMAIN s = 1 .. Len(s) /\ DOMAIN t = 1 .. Len(t)
         /\ Len(s) \in Nat /\ Len(t) \in Nat
         /\ DOMAIN (s \o t) = 1 .. Len(s) + Len(t)
         /\ \A m \in 1 .. Len(s) : (s \o t)[m] = s[m]
         /\ \A j \in 1 .. Len(t) : (s \o t)[Len(s) + j] = t[j]
         /\ \A m \in DOMAIN (s \o t) : m \in 1 .. Len(s) \/ \E j \in 1 .. Len(t) : m = Len(s) + j
<1>1. s \o t \in Seq(D) /\ Len(s \o t) = Len(s) + Len(t) /\ Len(s) \in Nat /\ Len(t) \in Nat
  BY ConcatProperties, LenProperties
<1>2. \A m \in 1 .. Len(s) + Len(t) : (s \o t)[m] = IF m <= Len(s) THEN s[m] ELSE t[m - Len(s)]
  BY ConcatProperties
<1>3. DOMAIN s = 1 .. Len(s) /\ DOMAIN t = 1 .. Len(t) /\ DOMAIN (s \o t) = 1 .. Len(s) + Len(t)
  BY <1>1
<1>4. \A m \in 1 .. Len(s) : (s \o t)[m] = s[m]
  BY <1>1, <1>2
<1>5. \A j \in 1 .. Len(t) : (s \o t)[Len(s) + j] = t[j]
  <2> SUFFICES ASSUME NEW j \in 1 .. Len(t) PROVE (s \o t)[Len(s) + j] = t[j]
    OBVIOUS
  <2>1. Len(s) + j \in 1 .. Len(s) + Len(t) /\ ~(Len(s) + j <= Len(s)) /\ (Len(s) + j) - Len(s) = j
    BY <1>1
  <2> QED
    BY <1>2, <2>1
<1>6. ASSUME NEW m \in 1 .. Len(s) + Len(t), m \notin 1 .. Len(s)
      PROVE  \E j \in 1 .. Len(t) : m = Len(s) + j
  <2>1. m - Len(s) \in 1 .. Len(t) /\ m = Len(s) + (m - Len(s))
    BY <1>1, <1>6
  <2> QED
    BY <2>1
<1> QED
  BY <1>1, <1>3, <1>4, <1>5, <1>6

\* Every element of a part is in the whole, nothing else is, and nothing is
\* there twice that is not twice in the parts.
LEMMA Flattened ==
  ASSUME NEW n \in Nat, NEW D, NEW parts \in [1 .. n -> Seq(D)]
  PROVE  /\ FlattenSeq(parts) \in Seq(D)
         /\ \A m \in DOMAIN FlattenSeq(parts) : \E i \in 1 .. n : \E j \in DOMAIN parts[i] :
              FlattenSeq(parts)[m] = parts[i][j]
         /\ \A i \in 1 .. n : \A j \in DOMAIN parts[i] : \E m \in DOMAIN FlattenSeq(parts) :
              FlattenSeq(parts)[m] = parts[i][j]
         /\ (\A h, i \in 1 .. n : \A g \in DOMAIN parts[h], j \in DOMAIN parts[i] :
               parts[h][g] = parts[i][j] => h = i /\ g = j)
            => \A l, m \in DOMAIN FlattenSeq(parts) :
                 FlattenSeq(parts)[l] = FlattenSeq(parts)[m] => l = m
<1>0. PICK flat : FirstParts(flat, n, D, parts)
  BY FlattenedOf
<1>1. /\ flat \in [0 .. n -> Seq(D)] /\ flat[0] = <<>>
      /\ \A i \in 1 .. n : flat[i] = flat[i - 1] \o parts[i]
      /\ FlattenSeq(parts) = flat[n]
  BY <1>0 DEF FirstParts
<1> DEFINE Apart == \A h, i \in 1 .. n : \A g \in DOMAIN parts[h], j \in DOMAIN parts[i] :
                      parts[h][g] = parts[i][j] => h = i /\ g = j
           Within(s, i) == \A m \in DOMAIN s : \E h \in 1 .. i : \E j \in DOMAIN parts[h] :
                             s[m] = parts[h][j]
           Holding(s, i) == \A h \in 1 .. i : \A j \in DOMAIN parts[h] : \E m \in DOMAIN s :
                              s[m] = parts[h][j]
           Once(s) == Apart => \A l, m \in DOMAIN s : s[l] = s[m] => l = m
           S == {i \in 0 .. n : Within(flat[i], i) /\ Holding(flat[i], i) /\ Once(flat[i])}
<1>2. 0 \in S
  <2>1. DOMAIN flat[0] = {} /\ 1 .. 0 = {}
    BY <1>1
  <2> QED
    BY <2>1
<1>3. \A i \in 0 .. n - 1 : i \in S => i + 1 \in S
  <2> SUFFICES ASSUME NEW i \in 0 .. n - 1, i \in S PROVE i + 1 \in S
    OBVIOUS
  <2> DEFINE s == flat[i]
             t == parts[i + 1]
  <2>1. /\ i + 1 \in 1 .. n /\ i \in 0 .. n /\ s \in Seq(D) /\ t \in Seq(D)
        /\ flat[i + 1] = s \o t
        /\ 1 .. i + 1 = (1 .. i) \cup {i + 1} /\ i + 1 \notin 1 .. i /\ i \in Nat
    <3>1. i + 1 \in 1 .. n /\ i \in 0 .. n /\ (i + 1) - 1 = i /\ i \in Nat
      OBVIOUS
    <3>2. s \in Seq(D) /\ t \in Seq(D)
      <4> DEFINE Q == Seq(D)
      <4> HIDE DEF Q
      <4> QED
        BY <1>1, <3>1 DEF Q
    <3>3. flat[i + 1] = s \o t
      BY <1>1, <3>1
    <3>4. 1 .. i + 1 = (1 .. i) \cup {i + 1} /\ i + 1 \notin 1 .. i
      BY <3>1
    <3> HIDE DEF s, t
    <3> QED
      BY <3>1, <3>2, <3>3, <3>4
  <2>2. /\ DOMAIN s = 1 .. Len(s) /\ DOMAIN t = 1 .. Len(t)
        /\ Len(s) \in Nat /\ Len(t) \in Nat
        /\ DOMAIN (s \o t) = 1 .. Len(s) + Len(t)
        /\ \A m \in 1 .. Len(s) : (s \o t)[m] = s[m]
        /\ \A j \in 1 .. Len(t) : (s \o t)[Len(s) + j] = t[j]
        /\ \A m \in DOMAIN (s \o t) : m \in 1 .. Len(s) \/ \E j \in 1 .. Len(t) : m = Len(s) + j
    <3> HIDE DEF s, t
    <3> QED
      BY <2>1, Together
  <2>3. Within(s, i) /\ Holding(s, i) /\ Once(s)
    OBVIOUS
  <2> DEFINE u == s \o t
  <2> HIDE DEF u, s, t
  <2>4. /\ \A m \in 1 .. Len(s) : m \in DOMAIN u /\ u[m] = s[m]
        /\ \A j \in 1 .. Len(t) : Len(s) + j \in DOMAIN u /\ u[Len(s) + j] = t[j]
    BY <2>2 DEF u
  <2>5. Within(u, i + 1)
    <3> SUFFICES ASSUME NEW m \in DOMAIN u
                 PROVE  \E h \in 1 .. i + 1 : \E j \in DOMAIN parts[h] : u[m] = parts[h][j]
      OBVIOUS
    <3>1. CASE m \in 1 .. Len(s)
      <4>1. PICK h \in 1 .. i : \E j \in DOMAIN parts[h] : s[m] = parts[h][j]
        BY <2>2, <2>3, <3>1
      <4> QED
        BY <2>1, <2>4, <3>1, <4>1
    <3>2. CASE \E j \in 1 .. Len(t) : m = Len(s) + j
      <4>1. PICK j \in 1 .. Len(t) : m = Len(s) + j
        BY <3>2
      <4>2. j \in DOMAIN parts[i + 1] /\ u[m] = parts[i + 1][j] /\ i + 1 \in 1 .. i + 1
        BY <2>1, <2>2, <2>4, <4>1 DEF t
      <4> QED
        BY <4>2
    <3> QED
      BY <2>2, <3>1, <3>2 DEF u
  <2>6. Holding(u, i + 1)
    <3> SUFFICES ASSUME NEW h \in 1 .. i + 1, NEW j \in DOMAIN parts[h]
                 PROVE  \E m \in DOMAIN u : u[m] = parts[h][j]
      OBVIOUS
    <3>1. CASE h \in 1 .. i
      <4>1. PICK m \in DOMAIN s : s[m] = parts[h][j]
        BY <2>3, <3>1
      <4> QED
        BY <2>2, <2>4, <4>1
    <3>2. CASE h = i + 1
      BY <2>2, <2>4, <3>2 DEF t
    <3> QED
      BY <2>1, <3>1, <3>2
  <2>7. Once(u)
    <3> SUFFICES ASSUME Apart, NEW l \in DOMAIN u, NEW m \in DOMAIN u, u[l] = u[m], l # m
                 PROVE  FALSE
      OBVIOUS
    <3> HIDE DEF Apart
    <3>1. ASSUME NEW a \in 1 .. Len(s), NEW b \in 1 .. Len(t), u[a] = u[Len(s) + b] PROVE FALSE
      <4>1. s[a] = t[b] /\ a \in DOMAIN s /\ b \in DOMAIN parts[i + 1]
        BY <2>2, <2>4, <3>1 DEF t
      <4>2. PICK h \in 1 .. i : \E j \in DOMAIN parts[h] : s[a] = parts[h][j]
        BY <2>3, <4>1
      <4>3. PICK j \in DOMAIN parts[h] : s[a] = parts[h][j]
        BY <4>2
      <4>4. h \in 1 .. n /\ h # i + 1 /\ parts[h][j] = parts[i + 1][b]
        BY <2>1, <4>1, <4>3 DEF t
      <4> QED
        BY <2>1, <4>1, <4>4 DEF Apart
    <3>2. CASE l \in 1 .. Len(s) /\ m \in 1 .. Len(s)
      <4>1. s[l] = s[m] /\ l \in DOMAIN s /\ m \in DOMAIN s
        BY <2>2, <2>4, <3>2
      <4> QED
        BY <2>3, <4>1
    <3>3. CASE \E a \in 1 .. Len(t), b \in 1 .. Len(t) : l = Len(s) + a /\ m = Len(s) + b
      <4>1. PICK a \in 1 .. Len(t), b \in 1 .. Len(t) : l = Len(s) + a /\ m = Len(s) + b
        BY <3>3
      <4>2. parts[i + 1][a] = parts[i + 1][b] /\ a \in DOMAIN parts[i + 1] /\ b \in DOMAIN parts[i + 1]
        BY <2>2, <2>4, <4>1 DEF t
      <4>3. a = b
        BY <2>1, <4>2 DEF Apart
      <4> QED
        BY <4>1, <4>3
    <3>4. /\ l \in 1 .. Len(s) \/ \E a \in 1 .. Len(t) : l = Len(s) + a
          /\ m \in 1 .. Len(s) \/ \E b \in 1 .. Len(t) : m = Len(s) + b
      BY <2>2 DEF u
    <3> QED
      BY <3>1, <3>2, <3>3, <3>4
  <2>8. flat[i + 1] = u /\ i + 1 \in 0 .. n
    BY <2>1 DEF u
  <2> HIDE DEF Within, Holding, Once
  <2> QED
    BY <2>5, <2>6, <2>7, <2>8
<1>4. n \in S
  <2> HIDE DEF S
  <2>1. \A i \in 0 .. n : i \in S
    BY <1>2, <1>3, LoopInduction
  <2> QED
    BY <2>1
<1>5. flat[n] \in Seq(D)
  <2> DEFINE Q == Seq(D)
  <2> HIDE DEF Q
  <2> QED
    BY <1>1 DEF Q
<1>6. Within(flat[n], n) /\ Holding(flat[n], n) /\ Once(flat[n])
  <2> HIDE DEF Within, Holding, Once
  <2> QED
    BY <1>4
<1>7. /\ FlattenSeq(parts) \in Seq(D) /\ Within(FlattenSeq(parts), n)
      /\ Holding(FlattenSeq(parts), n) /\ Once(FlattenSeq(parts))
  <2> HIDE DEF Within, Holding, Once
  <2> QED
    BY <1>1, <1>5, <1>6, Zenon
<1> HIDE DEF S
<1> QED
  BY <1>7, Zenon

-----------------------------------------------------------------------------
(* The command line and the arrays of the pm module.                       *)

\* What the pm module hands out of a file at one level, and all of it.
FileVector(n, label) ==
  Overheads(Pm!Sorted(args[n].trace, coresL2, coresL2 # 0)[ArrayNamed[label]])

FileOvds(n) == [j \in 1 .. Len(Labels) |-> <<Labels[j], FileVector(n, Labels[j])>>]

InFile == {"Process", "Get", "Collect", "Last"}

ControlInv ==
  /\ args \in Commands /\ coresL2 \in CoresPerL2 /\ limit \in Limits /\ mode \in Modes
  /\ k \in 1 .. Len(args) + 1
  /\ pc \in InFile \cup {"File", "Done", "Raised"}
  /\ pc \in InFile => k <= Len(args)
  /\ pc = "Done" => k = Len(args) + 1
  /\ pc = "Get" => mode # "saved"

\* After load() no array fetched is allocated and no other is freed; between
\* two files and behind an exception none is allocated, and never one for a
\* level that is not asked for.  Only want of memory stops the process.
ModuleInv ==
  /\ leaked = FALSE /\ alive \in BOOLEAN
  /\ ptr \in [Pm!Arrays -> {"null", "live", "freed"}]
  /\ coresL2 = 0 => ptr["samel2"] = "null"
  /\ ~alive => /\ call.result = "nomem" /\ (call.name = "load" \/ ovds # <<>>)
               /\ pc = "Get" /\ Len(ovds) # Len(Labels)
  /\ alive /\ pc # "Get" => \A a \in Pm!Arrays : ptr[a] # "live"
  /\ alive /\ pc = "Get" =>
       /\ is_loaded = TRUE
       /\ data = Pm!Sorted(args[k].trace, coresL2, coresL2 # 0)
       /\ Len(ovds) \in 0 .. Len(Labels)
       /\ ovds = [j \in 1 .. Len(ovds) |-> FileOvds(k)[j]]
       /\ \A j \in 1 .. Len(Labels) :
            ptr[ArrayNamed[Labels[j]]] # IF j <= Len(ovds) THEN "live" ELSE "freed"
  /\ pc = "Collect" =>
       /\ DOMAIN ovds = 1 .. Len(Labels)
       /\ mode # "saved" => ovds = FileOvds(k)

\* The labels name the arrays load() allocates, each once.
LEMMA LabelsOfArrays ==
  /\ Len(Labels) \in {3, 4} /\ DOMAIN Labels = 1 .. Len(Labels)
  /\ \A i, j \in 1 .. Len(Labels) :
       /\ Labels[i] = Labels[j] => i = j
       /\ ArrayNamed[Labels[i]] = ArrayNamed[Labels[j]] => i = j
  /\ \A j \in 1 .. Len(Labels) : ArrayNamed[Labels[j]] \in Pm!Allocated(coresL2)
  /\ \A a \in Pm!Allocated(coresL2) : \E j \in 1 .. Len(Labels) : a = ArrayNamed[Labels[j]]
  /\ Labels[1] = "preemption"
<1>1. CASE coresL2 # 0
  <2>1. Labels = <<"preemption", "onchip", "offchip", "l2cache">>
    BY <1>1 DEF Labels
  <2>2. Pm!Allocated(coresL2) = {"preempt", "samel2", "samechip", "offchip"}
    BY <1>1 DEF Pm!Allocated, Pm!Arrays
  <2> QED
    BY <2>1, <2>2 DEF ArrayNamed
<1>2. CASE coresL2 = 0
  <2>1. Labels = <<"preemption", "onchip", "offchip">>
    BY <1>2 DEF Labels
  <2>2. Pm!Allocated(coresL2) = {"preempt", "samechip", "offchip"}
    BY <1>2 DEF Pm!Allocated, Pm!Arrays
  <2> QED
    BY <2>1, <2>2 DEF ArrayNamed
<1> QED
  BY <1>1, <1>2

\* Every step keeps the command line, and with it what is to be reported.
LEMMA CommandStays ==
  [Next]_vars => UNCHANGED <<args, coresL2, limit, mode>>
<1>1. ASSUME NEW p, Raise(p) PROVE UNCHANGED command
  BY <1>1 DEF Raise
<1>2. ASSUME Default PROVE UNCHANGED command
  BY <1>1, <1>2 DEF Default, KeepGroup, StartGroup, ListIsGone, ReportFails, AllDone
<1>3. ASSUME Process PROVE UNCHANGED command
  BY <1>1, <1>3 DEF Process, LoadFile, LoadFileFails, GetArray, GetArrayFails, SaveVectors, AutocapFails,
                    SaveFails, ReadSaved, ReadSavedFails
<1>4. ASSUME NextFile \/ LastFile PROVE UNCHANGED command
  BY <1>4 DEF NextFile, LastFile
<1>5. ASSUME UNCHANGED vars PROVE UNCHANGED command
  BY <1>5 DEF vars
<1> QED
  BY <1>2, <1>3, <1>4, <1>5 DEF Next, Ended, command

\* A getter that fails raises an exception or stops the process.
LEMMA FailCases ==
  GetArrayFails =>
    /\ csv' = csv /\ pc = "Get"
    /\ Raise("Get") \/ UNCHANGED <<command, pc, k, last_conf, lists, ovds, vbin>>
  BY DEF GetArrayFails

LEMMA OvdsStay ==
  ASSUME UNCHANGED <<args, coresL2, limit, mode>>
  PROVE  /\ Labels' = Labels
         /\ \A n, label : FileVector(n, label)' = FileVector(n, label)
         /\ \A n : FileOvds(n)' = FileOvds(n)
  BY DEF Labels, FileVector, FileOvds

LEMMA ControlInit == Init => ControlInv
<1> SUFFICES ASSUME Init PROVE ControlInv
  OBVIOUS
<1>1. Len(args) \in Nat
  BY AnalyzerAssumption DEF Init
<1> QED
  BY <1>1 DEF Init, ControlInv, InFile

LEMMA ControlStep == ControlInv /\ [Next]_vars => ControlInv'
<1> SUFFICES ASSUME ControlInv, [Next]_vars PROVE ControlInv'
  OBVIOUS
<1> USE DEF ControlInv, InFile
<1>1. UNCHANGED <<args, coresL2, limit, mode>> /\ Len(args) \in Nat
  BY CommandStays, AnalyzerAssumption
<1>2. ASSUME NEW p, Raise(p) PROVE ControlInv'
  BY <1>1, <1>2 DEF Raise
<1>3. CASE Default
  <2>1. CASE KeepGroup
    BY <1>1, <2>1 DEF KeepGroup
  <2>2. CASE StartGroup
    BY <1>1, <2>2 DEF StartGroup
  <2>3. CASE ListIsGone \/ ReportFails
    BY <1>2, <2>3 DEF ListIsGone, ReportFails
  <2>4. CASE AllDone
    BY <1>1, <2>4 DEF AllDone
  <2> QED
    BY <1>3, <2>1, <2>2, <2>3, <2>4 DEF Default
<1>4. CASE Process
  <2>1. CASE LoadFile
    BY <1>1, <2>1 DEF LoadFile
  <2>2. CASE LoadFileFails \/ AutocapFails \/ SaveFails \/ ReadSavedFails
    BY <1>2, <2>2 DEF LoadFileFails, AutocapFails, SaveFails, ReadSavedFails
  <2>3. CASE GetArray
    BY <1>1, <2>3 DEF GetArray
  <2>4. CASE SaveVectors
    BY <1>1, <2>4 DEF SaveVectors, Fetched
  <2>5. CASE ReadSaved
    BY <1>1, <2>5 DEF ReadSaved
  <2>6. CASE GetArrayFails
    <3>1. CASE Raise("Get")
      BY <1>2, <3>1
    <3>2. CASE UNCHANGED <<k, pc>>
      BY <1>1, <3>2
    <3> QED
      BY <2>6, <3>1, <3>2, FailCases
  <2> QED
    BY <1>4, <2>1, <2>2, <2>3, <2>4, <2>5, <2>6 DEF Process
<1>5. CASE NextFile \/ LastFile
  BY <1>1, <1>5 DEF NextFile, LastFile
<1>6. CASE UNCHANGED vars
  BY <1>1, <1>6 DEF vars
<1> QED
  BY <1>3, <1>4, <1>5, <1>6 DEF Next, Ended

LEMMA ModuleInit == Init => ModuleInv
  BY DEF Init, Pm!ModuleInit, ModuleInv, Pm!Arrays

\* When the last array has been fetched none is left.
LEMMA FetchedAll ==
  ASSUME ControlInv, ModuleInv, Fetched
  PROVE  /\ alive /\ ovds = FileOvds(k) /\ DOMAIN ovds = 1 .. Len(Labels)
         /\ \A a \in Pm!Arrays : ptr[a] # "live"
<1> USE DEF ModuleInv, Fetched
<1>0. alive
  OBVIOUS
<1>1. ovds = FileOvds(k)
  <2>1. ovds = [j \in 1 .. Len(Labels) |-> FileOvds(k)[j]]
    BY <1>0
  <2> QED
    BY <2>1 DEF FileOvds
<1>2. ASSUME NEW a \in Pm!Arrays PROVE ptr[a] # "live"
  <2>1. CASE a \in Pm!Allocated(coresL2)
    <3>1. PICK j \in 1 .. Len(Labels) : a = ArrayNamed[Labels[j]]
      BY <2>1, LabelsOfArrays
    <3> QED
      BY <1>0, <3>1
  <2>2. CASE a \notin Pm!Allocated(coresL2)
    BY <2>2 DEF Pm!Allocated, Pm!Arrays
  <2> QED
    BY <2>1, <2>2
<1> QED
  BY <1>0, <1>1, <1>2 DEF FileOvds

\* Where nothing is done with the module, between two files or when all was
\* fetched, none of its arrays is allocated.
LEMMA ModuleStays ==
  ASSUME ControlInv, ModuleInv, [Next]_vars, UNCHANGED pm,
         pc # "Get" \/ Fetched, pc' \notin {"Get", "Collect"}
  PROVE  ModuleInv'
<1>1. UNCHANGED <<args, coresL2, limit, mode>>
  BY CommandStays
<1>2. alive /\ \A a \in Pm!Arrays : ptr[a] # "live"
  BY FetchedAll DEF ModuleInv
<1> QED
  BY <1>1, <1>2 DEF ModuleInv, pm

\* The pm module is used as PmModuleProofs has it.
LEMMA SortingApplies ==
  /\ Srt!ModuleAssumption /\ Srt!MachineAssumption
  /\ \A t, c, h : Srt!Sorted(t, c, h) = Pm!Sorted(t, c, h)
  /\ \A o, c : Srt!Level(o, c) = Pm!Level(o, c)
  /\ Srt!Overhead = Pm!Overhead /\ Srt!Arrays = Pm!Arrays
  /\ \A S : Srt!Cardinality(S) = Cardinality(S)
<1>1. Srt!Overhead = Pm!Overhead /\ Srt!Arrays = Pm!Arrays
  BY DEF Srt!Overhead, Pm!Overhead, Srt!Arrays, Pm!Arrays
<1>2. Srt!ModuleAssumption /\ Srt!MachineAssumption
  <2>1. num_phys_cpu \in Nat \ {0}
    BY AnalyzerAssumption
  <2> QED
    BY <2>1 DEF Srt!ModuleAssumption, Srt!MachineAssumption
<1>3. \A t, c, h : Srt!Sorted(t, c, h) = Pm!Sorted(t, c, h)
  BY DEF Srt!Sorted, Pm!Sorted, Srt!ArrayOf, Pm!ArrayOf, Srt!SameChip, Pm!SameChip,
         Srt!SameL2, Pm!SameL2, Srt!Arrays, Pm!Arrays
<1>4. \A o, c : Srt!Level(o, c) = Pm!Level(o, c)
  BY DEF Srt!Level, Pm!Level, Srt!CoresOf, Pm!CoresOf
<1>5. \A S : Srt!Cardinality(S) = Cardinality(S)
  BY DEF Srt!Cardinality, Cardinality
<1> QED
  BY <1>1, <1>2, <1>3, <1>4, <1>5

LEMMA LoadKeepsModule ==
  ASSUME ControlInv, ModuleInv, LoadFile
  PROVE  ModuleInv'
<1>1. PICK failed \in Pm!FailedArrays : Pm!Load(args[k].trace, coresL2, failed)
  BY DEF LoadFile, conf
<1> DEFINE asks == Pm!Allocated(coresL2)
           got == asks \ failed
           t == args[k].trace
           hasL2 == "samel2" \in got \/ ("samel2" \notin asks /\ ptr["samel2"] # "null")
<1>2. /\ UNCHANGED <<args, coresL2, limit, mode, k>> /\ pc = "Process" /\ pc' = "Get"
      /\ ovds' = <<>> /\ alive
  BY <1>1 DEF LoadFile, command, Pm!Load
<1>3. Labels' = Labels /\ Len(Labels) \in {3, 4} /\ Len(ovds') = 0
  BY <1>2, LabelsOfArrays, OvdsStay
<1>4. CASE failed # {} /\ t # <<>>
  <2>1. Pm!Crash("load", "nomem")
    BY <1>1, <1>4 DEF Pm!Load
  <2>2. ~alive' /\ UNCHANGED <<ptr, leaked>> /\ call'.name = "load" /\ call'.result = "nomem"
    BY <2>1 DEF Pm!Crash
  <2>3. alive' \in BOOLEAN
    BY <2>1 DEF Pm!Crash
  <2> QED
    BY <1>2, <1>3, <2>2, <2>3 DEF ModuleInv
<1>5. CASE ~(failed # {} /\ t # <<>>)
  <2>1. ASSUME coresL2 = 0 PROVE hasL2 = FALSE
    BY <2>1 DEF Pm!Allocated, ModuleInv
  <2>2. /\ ptr' = [a \in Pm!Arrays |-> IF a \in got THEN "live"
                                       ELSE IF a \in asks THEN "null" ELSE ptr[a]]
        /\ data' = Pm!Sorted(t, coresL2, hasL2)
        /\ is_loaded' = TRUE
        /\ leaked' = (leaked \/ \E a \in asks : ptr[a] = "live")
        /\ alive' = alive
    <3>1. ~(hasL2 /\ coresL2 = 0 /\ Pm!Divides(t))
      BY <2>1, Zenon
    <3> QED
      BY <1>1, <1>5, <3>1 DEF Pm!Load
  <2>3. asks \subseteq Pm!Arrays /\ \A a \in asks : ptr[a] # "live"
    BY <1>2 DEF ModuleInv, Pm!Allocated
  <2>4. alive' /\ alive' \in BOOLEAN /\ leaked' = FALSE
    BY <1>2, <2>2, <2>3 DEF ModuleInv
  <2>5. data' = Pm!Sorted(t, coresL2, coresL2 # 0)
    <3>1. CASE coresL2 = 0
      BY <2>1, <2>2, <3>1
    <3>2. CASE coresL2 # 0 /\ failed = {}
      <4>1. hasL2 = TRUE
        BY <3>2 DEF Pm!Allocated, Pm!Arrays
      <4> QED
        BY <2>2, <3>2, <4>1
    <3>3. CASE t = <<>>
      <4>1. \A c, h, i : Srt!Sorted(<<>>, c, h) = Srt!Sorted(<<>>, c, i)
        BY SortingApplies, Srt!EmptySorted
      <4>2. \A c, h, i : Pm!Sorted(<<>>, c, h) = Pm!Sorted(<<>>, c, i)
        BY <4>1, SortingApplies
      <4> QED
        BY <2>2, <3>3, <4>2
    <3> QED
      BY <1>5, <3>1, <3>2, <3>3
  <2>6. /\ ptr' \in [Pm!Arrays -> {"null", "live", "freed"}]
        /\ coresL2' = 0 => ptr'["samel2"] = "null"
        /\ \A a \in asks : ptr'[a] # "freed"
    <3>1. "samel2" \in Pm!Arrays /\ (coresL2 = 0 => "samel2" \notin asks)
      BY DEF Pm!Allocated, Pm!Arrays
    <3> HIDE DEF asks
    <3> QED
      BY <1>2, <2>2, <2>3, <3>1 DEF ModuleInv
  <2>7. ovds' = [j \in 1 .. Len(ovds') |-> FileOvds(k)'[j]] /\ Len(ovds') \in 0 .. Len(Labels')
    BY <1>2, <1>3
  <2>8. \A j \in 1 .. Len(Labels') :
          ptr'[ArrayNamed[Labels'[j]]] # IF j <= Len(ovds') THEN "live" ELSE "freed"
    BY <1>3, <2>6, LabelsOfArrays
  <2>9. data' = Pm!Sorted(args'[k'].trace, coresL2', coresL2' # 0)
    BY <1>2, <2>5
  <2> HIDE DEF asks, hasL2, got, t
  <2> QED
    BY <1>2, <2>2, <2>4, <2>6, <2>7, <2>8, <2>9 DEF ModuleInv
<1> QED
  BY <1>4, <1>5

\* A sequence of the first members of another grows by the next.
LEMMA OneMore ==
  ASSUME NEW n \in Nat, NEW c \in 0 .. n - 1, NEW D, NEW f \in [1 .. n -> D]
  PROVE  /\ Append([j \in 1 .. c |-> f[j]], f[c + 1]) = [j \in 1 .. c + 1 |-> f[j]]
         /\ Len([j \in 1 .. c + 1 |-> f[j]]) = c + 1
<1> DEFINE s == [j \in 1 .. c |-> f[j]]
           t == [j \in 1 .. c + 1 |-> f[j]]
<1>1. s \in Seq(D) /\ t \in Seq(D) /\ Len(s) = c /\ Len(t) = c + 1 /\ f[c + 1] \in D
  OBVIOUS
<1>2. (\A j \in 1 .. c : s[j] = f[j]) /\ \A j \in 1 .. c + 1 : t[j] = f[j]
  OBVIOUS
<1> HIDE DEF s, t
<1> DEFINE u == Append(s, f[c + 1])
<1>3. /\ u \in Seq(D) /\ Len(u) = c + 1
      /\ u[c + 1] = f[c + 1] /\ \A j \in 1 .. c : u[j] = s[j]
  BY <1>1, AppendProperties
<1>4. \A j \in 1 .. c + 1 : u[j] = t[j]
  BY <1>2, <1>3
<1> HIDE DEF u
<1>5. u = t
  BY <1>1, <1>3, <1>4, SeqEqual
<1> QED
  BY <1>1, <1>5 DEF u, s, t

LEMMA GetKeepsModule ==
  ASSUME ControlInv, ModuleInv, GetArray
  PROVE  ModuleInv'
<1> DEFINE c == Len(ovds)
           label == Labels[c + 1]
           a == ArrayNamed[label]
<1>1. /\ UNCHANGED <<args, coresL2, limit, mode, k, pc>> /\ pc = "Get" /\ c < Len(Labels)
      /\ Pm!Get(a) /\ alive' => ovds' = Append(ovds, <<label, Overheads(call'.array)>>)
      /\ Pm!Get(a)
  BY DEF GetArray, command
<1>2. /\ c + 1 \in 1 .. Len(Labels) /\ c \in 0 .. Len(Labels) - 1 /\ c \in Nat
      /\ Len(Labels) \in Nat /\ a \in Pm!Arrays /\ ptr[a] # "freed" /\ alive
  <2>0. alive
    BY <1>1 DEF Pm!Get
  <2>1. c \in 0 .. Len(Labels) /\ Len(Labels) \in Nat
    BY <1>1, <2>0, LabelsOfArrays DEF ModuleInv
  <2>2. c + 1 \in 1 .. Len(Labels) /\ ~(c + 1 <= c)
    BY <1>1, <2>1
  <2>3. a \in Pm!Arrays
    BY <2>2, LabelsOfArrays DEF Pm!Allocated, Pm!Arrays
  <2> HIDE DEF c
  <2>4. ptr[a] # IF c + 1 <= c THEN "live" ELSE "freed"
    BY <1>1, <2>0, <2>2 DEF ModuleInv, c
  <2> QED
    BY <1>1, <2>0, <2>1, <2>2, <2>3, <2>4
<1> HIDE DEF a, label
<1>3. /\ ptr' = [b \in Pm!Arrays |-> IF b \in {a} /\ ptr[b] = "live" THEN "freed" ELSE ptr[b]]
      /\ call'.array = data[a]
      /\ UNCHANGED <<data, is_loaded, alive, leaked>>
  BY <1>1, <1>2 DEF Pm!Get, Pm!Released, Pm!FreeOf
<1>4. ovds' = [j \in 1 .. c + 1 |-> FileOvds(k)[j]] /\ Len(ovds') = c + 1
  <2>1. ovds' = Append(ovds, <<label, FileVector(k, label)>>)
    <3>1. Overheads(call'.array) = FileVector(k, label)
      BY <1>1, <1>2, <1>3 DEF ModuleInv, FileVector, a
    <3> QED
      BY <1>1, <1>2, <1>3, <3>1
  <2> DEFINE f == FileOvds(k)
             D == {f[j] : j \in 1 .. Len(Labels)}
  <2>2. f = [j \in 1 .. Len(Labels) |-> f[j]] /\ f[c + 1] = <<label, FileVector(k, label)>>
    BY <1>2 DEF FileOvds, label
  <2>3. ovds = [j \in 1 .. c |-> f[j]]
    BY <1>1, <1>2 DEF ModuleInv
  <2> HIDE DEF f, c
  <2>4. f \in [1 .. Len(Labels) -> D]
    BY <2>2
  <2> HIDE DEF D
  <2>5. /\ Append([j \in 1 .. c |-> f[j]], f[c + 1]) = [j \in 1 .. c + 1 |-> f[j]]
        /\ Len([j \in 1 .. c + 1 |-> f[j]]) = c + 1
    BY <1>2, <2>4, OneMore
  <2> QED
    BY <2>1, <2>2, <2>3, <2>5 DEF f
<1>5. /\ ptr' \in [Pm!Arrays -> {"null", "live", "freed"}]
      /\ coresL2' = 0 => ptr'["samel2"] = "null"
  BY <1>1, <1>3 DEF ModuleInv, Pm!Arrays
<1>6. \A j \in 1 .. Len(Labels) :
        ptr'[ArrayNamed[Labels[j]]] # IF j <= c + 1 THEN "live" ELSE "freed"
  <2> SUFFICES ASSUME NEW j \in 1 .. Len(Labels)
               PROVE  ptr'[ArrayNamed[Labels[j]]] # IF j <= c + 1 THEN "live" ELSE "freed"
    OBVIOUS
  <2>1. ptr[ArrayNamed[Labels[j]]] # IF j <= c THEN "live" ELSE "freed"
    BY <1>1, <1>2 DEF ModuleInv
  <2>2. ArrayNamed[Labels[j]] \in Pm!Arrays
    BY LabelsOfArrays DEF Pm!Allocated, Pm!Arrays
  <2>3. ArrayNamed[Labels[j]] = a <=> j = c + 1
    <3> HIDE DEF c
    <3> QED
      BY <1>2, LabelsOfArrays DEF a, label
  <2> HIDE DEF c
  <2> DEFINE b == ArrayNamed[Labels[j]]
  <2> HIDE DEF b
  <2>4. ptr'[b] = IF b = a /\ ptr[b] = "live" THEN "freed" ELSE ptr[b]
    BY <1>2, <1>3, <2>2 DEF b
  <2> QED
    BY <1>2, <2>1, <2>3, <2>4 DEF b
<1>7. Labels' = Labels /\ FileOvds(k)' = FileOvds(k) /\ is_loaded' = TRUE
      /\ data' = Pm!Sorted(args'[k'].trace, coresL2', coresL2' # 0)
      /\ alive' /\ alive' \in BOOLEAN /\ leaked' = FALSE
  BY <1>1, <1>2, <1>3, OvdsStay DEF ModuleInv, FileOvds, FileVector
<1> HIDE DEF c
<1>8. Len(ovds') \in 0 .. Len(Labels')
  BY <1>2, <1>4, <1>7
<1> QED
  BY <1>1, <1>4, <1>5, <1>6, <1>7, <1>8 DEF ModuleInv

\* The first getter to fail frees all arrays and raises an exception; one
\* that fails later may free what was handed out.
LEMMA FailKeepsModule ==
  ASSUME ControlInv, ModuleInv, GetArrayFails
  PROVE  ModuleInv'
<1> DEFINE a == ArrayNamed[Labels[Len(ovds) + 1]]
<1>1. pc = "Get" /\ Len(ovds) < Len(Labels) /\ Pm!GetFails(a) /\ alive
  BY DEF GetArrayFails, Pm!GetFails
<1>2. /\ UNCHANGED <<args, coresL2, limit, mode, k, ovds>>
      /\ pc' = IF alive' THEN "Raised" ELSE pc
  BY DEF GetArrayFails, Raise, command
<1>3. Labels' = Labels /\ Len(Labels) \in Nat
  BY <1>2, OvdsStay, LabelsOfArrays
<1> HIDE DEF a
<1>4. CASE \E b \in Pm!Arrays : ptr[b] = "freed"
  <2>1. Pm!Crash(a, "nomem")
    BY <1>1, <1>4 DEF Pm!GetFails
  <2>2. ~alive' /\ UNCHANGED <<ptr, leaked>> /\ call'.result = "nomem" /\ alive' \in BOOLEAN
    BY <2>1 DEF Pm!Crash
  <2>3. ASSUME ovds = <<>> PROVE FALSE
    <3>1. PICK b \in Pm!Arrays : ptr[b] = "freed"
      BY <1>4
    <3>2. b \in Pm!Allocated(coresL2)
      BY <3>1 DEF Pm!Allocated, ModuleInv
    <3>3. PICK j \in 1 .. Len(Labels) : b = ArrayNamed[Labels[j]]
      BY <3>2, LabelsOfArrays
    <3>4. Len(ovds) = 0 /\ ~(j <= 0)
      BY <1>3, <2>3
    <3> QED
      BY <1>1, <3>1, <3>3, <3>4 DEF ModuleInv
  <2>4. Len(ovds) # Len(Labels)
    BY <1>1, <1>3 DEF ModuleInv
  <2> QED
    BY <1>1, <1>2, <1>3, <2>2, <2>3, <2>4 DEF ModuleInv
<1>5. CASE ~ \E b \in Pm!Arrays : ptr[b] = "freed"
  <2>1. /\ ptr' = [b \in Pm!Arrays |-> IF b \in Pm!Arrays /\ ptr[b] = "live" THEN "freed" ELSE ptr[b]]
        /\ UNCHANGED <<alive, leaked>>
    BY <1>1, <1>5 DEF Pm!GetFails, Pm!FreeOf
  <2>2. /\ ptr' \in [Pm!Arrays -> {"null", "live", "freed"}]
        /\ coresL2' = 0 => ptr'["samel2"] = "null"
        /\ \A b \in Pm!Arrays : ptr'[b] # "live"
    BY <1>2, <2>1 DEF ModuleInv, Pm!Arrays
  <2> QED
    BY <1>1, <1>2, <2>1, <2>2 DEF ModuleInv
<1> QED
  BY <1>4, <1>5

LEMMA ModuleStep == ControlInv /\ ModuleInv /\ [Next]_vars => ModuleInv'
<1> SUFFICES ASSUME ControlInv, ModuleInv, [Next]_vars PROVE ModuleInv'
  OBVIOUS
<1>1. UNCHANGED <<args, coresL2, limit, mode>>
  BY CommandStays
<1>2. Labels' = Labels /\ \A n : FileOvds(n)' = FileOvds(n)
  BY <1>1, OvdsStay
<1>3. CASE Default
  BY <1>3, ModuleStays DEF Default, KeepGroup, StartGroup, ListIsGone, ReportFails, AllDone, Raise
<1>4. CASE LoadFile
  BY <1>4, LoadKeepsModule
<1>5. CASE LoadFileFails
  <2>1. ptr' = ptr /\ alive' = alive /\ alive /\ leaked' = leaked /\ pc = "Process" /\ pc' = "Raised"
    BY <1>5 DEF LoadFileFails, Pm!LoadFails, Pm!Fails, Raise
  <2> QED
    BY <1>1, <2>1 DEF ModuleInv
<1>6. CASE GetArray
  BY <1>6, GetKeepsModule
<1>7. CASE SaveVectors
  <2>1. /\ alive /\ ovds = FileOvds(k) /\ DOMAIN ovds = 1 .. Len(Labels)
        /\ \A a \in Pm!Arrays : ptr[a] # "live"
    BY <1>7, FetchedAll DEF SaveVectors
  <2>2. UNCHANGED <<ptr, alive, leaked, k, ovds>> /\ pc' = "Collect"
    BY <1>7 DEF SaveVectors, pm
  <2>3. FileOvds(k)' = FileOvds(k)
    BY <1>1, <2>2 DEF FileOvds, FileVector, Labels
  <2> QED
    BY <1>1, <1>2, <2>1, <2>2, <2>3 DEF ModuleInv
<1>8. CASE AutocapFails \/ SaveFails \/ ReadSavedFails
  BY <1>8, ModuleStays DEF AutocapFails, SaveFails, ReadSavedFails, Raise
<1>9. CASE ReadSaved
  <2>1. /\ UNCHANGED <<ptr, alive, leaked, k>> /\ pc = "Process" /\ pc' = "Collect"
        /\ mode = "saved" /\ DOMAIN ovds' = DOMAIN Labels
    BY <1>9 DEF ReadSaved, pm
  <2>2. DOMAIN ovds' = 1 .. Len(Labels)
    BY <2>1, LabelsOfArrays
  <2> QED
    BY <1>1, <1>2, <2>1, <2>2 DEF ModuleInv
<1>10. CASE NextFile \/ LastFile
  BY <1>10, ModuleStays DEF NextFile, LastFile
<1>11. CASE UNCHANGED vars
  <2>1. FileOvds(k)' = FileOvds(k)
    BY <1>11 DEF vars, command, FileOvds, FileVector, Labels
  <2> QED
    BY <1>1, <1>2, <1>11, <2>1 DEF ModuleInv, vars, pm
<1>12. CASE GetArrayFails
  BY <1>12, FailKeepsModule
<1> QED
  BY <1>3, <1>4, <1>5, <1>6, <1>7, <1>8, <1>9, <1>10, <1>11, <1>12 DEF Next, Process, Ended

LEMMA ModuleAlways == Spec => [](ControlInv /\ ModuleInv)
  BY ControlInit, ControlStep, ModuleInit, ModuleStep, PTL DEF Spec

\* Whatever files are named and in whatever order, and wherever memory runs
\* out: nothing is lost, between two files and behind an exception every
\* array was handed out or freed, and only load() and a getter that fails
\* behind another one stop the process (pm_data_analyzer.py:143-157,
\* pmmodule.c:34-41, 58-318).
THEOREM ArraysReturned == Spec => []ArraysAreReturned
<1>1. ControlInv /\ ModuleInv => ArraysAreReturned
  BY DEF ModuleInv, ArraysAreReturned
<1> QED
  BY <1>1, ModuleAlways, PTL

-----------------------------------------------------------------------------
(* The files collected since the working set size last changed, and those  *)
(* reported.                                                               *)

\* From file m on to file n all have the working set size of n.
InRun(m, n) == m <= n /\ \A j \in m .. n : args[j].wss = args[n].wss

\* The files valid_ovds_list is for.
Group ==
  IF k > Len(args) THEN {}
  ELSE IF pc = "File" THEN {m \in 1 .. k - 1 : InRun(m, k - 1)}
  ELSE IF pc = "Last" THEN {m \in 1 .. k : InRun(m, k)}
  ELSE {m \in 1 .. k - 1 : InRun(m, k)}

Reported == {m \in 1 .. k - 1 : m \notin Group}

\* What valid_ovds_list has for a file.
HasOvds(o, n) ==
  /\ DOMAIN o = 1 .. Len(Labels)
  /\ mode # "saved" => o = FileOvds(n)

Running == pc \notin {"Done", "Raised"}

ListInv ==
  /\ DOMAIN valid_ovds_list = {args[m].tss : m \in Group}
  /\ \A m \in Group : HasOvds(valid_ovds_list[args[m].tss], m)

GroupInv ==
  Distinct =>
    /\ k = 1 => last_conf = <<>>
    /\ k > 1 /\ k <= Len(args) => last_conf = args[k - 1]
    /\ k <= Len(args) => {"valid_ovds_list", "min_sample_tss"} \subseteq kept
    /\ pc = "Last" => k = Len(args)
    /\ Running => ListInv

\* With --autocap min_sample_tss counts the samples of the smallest file so
\* far, by preemptions.
Counted == IF pc = "Collect" THEN Group \cup {k} ELSE Group
Samples(n, label) == Len(FileVector(n, label))

CountInv ==
  Distinct /\ mode = "autocap" /\ Running /\ k <= Len(args) =>
    /\ Counted = {} => min_sample_tss = <<>>
    /\ Counted # {} =>
         \E n \in Counted :
           /\ min_sample_tss = [label \in ToSet(Labels) |-> Samples(n, label)]
           /\ \A m \in Counted : Samples(n, "preemption") <= Samples(m, "preemption")

\* A row of the n-th file.
RowOfFile(row, n) ==
  /\ row.wss = args[n].wss /\ row.tss = args[n].tss
  /\ mode # "saved" =>
       /\ row.label \in ToSet(Labels)
       /\ IsPrefix(row.vector, FileVector(n, row.label))
       /\ mode = "raw" /\ ~(limit > 0 /\ row.label = "preemption") =>
            row.vector = FileVector(n, row.label)
       /\ mode = "autocap" /\ limit = 0 /\ row.label = "preemption" =>
            \E j \in 1 .. Len(args) :
              /\ InRun(j, n) \/ InRun(n, j)
              /\ Len(row.vector) = Samples(j, "preemption")
              /\ \A i \in 1 .. Len(args) :
                   InRun(i, n) \/ InRun(n, i) => Samples(j, "preemption") <= Samples(i, "preemption")

RowInv ==
  Distinct => \A m \in DOMAIN csv : \E n \in 1 .. Len(args) : RowOfFile(csv[m], n)

RowFor(row, n, label) == row.wss = args[n].wss /\ row.tss = args[n].tss /\ row.label = label

\* Every file reported has one row of every label, and no other has any.
ReportInv ==
  Distinct /\ pc # "Raised" =>
    /\ \A m \in DOMAIN csv : \E n \in Reported :
         csv[m].wss = args[n].wss /\ csv[m].tss = args[n].tss
    /\ mode # "saved" =>
         \A n \in Reported, j \in 1 .. Len(Labels) :
           /\ \E m \in DOMAIN csv : RowFor(csv[m], n, Labels[j])
           /\ \A l, m \in DOMAIN csv :
                RowFor(csv[l], n, Labels[j]) /\ RowFor(csv[m], n, Labels[j]) => l = m

LEMMA ArgsAre ==
  ASSUME ControlInv
  PROVE  /\ Len(args) \in Nat /\ DOMAIN args = 1 .. Len(args)
         /\ \A n \in 1 .. Len(args) : args[n] # <<>> /\ args[n].tss \in Int
         /\ k \in Nat /\ 1 <= k /\ k <= Len(args) + 1
<1>1. /\ args \in Seq(ToSet(args))
      /\ \A file \in ToSet(args) : DOMAIN file = {"dir", "wss", "tss", "trace"} /\ file.tss \in Int
  BY AnalyzerAssumption DEF ControlInv
<1>2. Len(args) \in Nat /\ DOMAIN args = 1 .. Len(args)
  BY <1>1
<1>3. \A n \in 1 .. Len(args) : args[n] \in ToSet(args)
  BY <1>2 DEF ToSet
<1>4. \A file \in ToSet(args) : file # <<>>
  <2>1. DOMAIN <<>> = {}
    OBVIOUS
  <2> QED
    BY <1>1, <2>1
<1> QED
  BY <1>1, <1>2, <1>3, <1>4 DEF ControlInv

\* The last name is met last, and a group is new when its size is.
LEMMA LastIsLast ==
  ASSUME ControlInv, Distinct, k <= Len(args)
  PROVE  IsLast <=> k = Len(args)
<1>1. k \in DOMAIN args /\ Len(args) \in DOMAIN args
  BY ArgsAre
<1> QED
  BY <1>1 DEF Distinct, IsLast, conf

LEMMA NewGroupIs ==
  ASSUME ControlInv, GroupInv, Distinct, k <= Len(args)
  PROVE  NewGroup <=> k > 1 /\ args[k].wss # args[k - 1].wss
<1>1. CASE k = 1
  BY <1>1 DEF GroupInv, NewGroup
<1>2. CASE k > 1
  <2>1. last_conf = args[k - 1] /\ last_conf # <<>>
    BY <1>2, ArgsAre DEF GroupInv
  <2> QED
    BY <1>2, <2>1 DEF NewGroup, conf
<1> QED
  BY <1>1, <1>2, ArgsAre

\* How runs grow: by the next file of the same size, and not beyond it.
LEMMA Runs ==
  ASSUME ControlInv, NEW n \in 1 .. Len(args)
  PROVE  /\ InRun(n, n)
         /\ \A m \in 1 .. n : InRun(m, n) => args[m].wss = args[n].wss
         /\ n > 1 /\ args[n].wss = args[n - 1].wss =>
              \A m \in 1 .. n - 1 : InRun(m, n) <=> InRun(m, n - 1)
         /\ n > 1 /\ args[n].wss # args[n - 1].wss => \A m \in 1 .. n - 1 : ~InRun(m, n)
<1> USE DEF InRun
<1>0. n \in Nat
  BY ArgsAre
<1>1. InRun(n, n)
  BY <1>0
<1>2. \A m \in 1 .. n : InRun(m, n) => args[m].wss = args[n].wss
  BY <1>0
<1>3. ASSUME n > 1, args[n].wss = args[n - 1].wss, NEW m \in 1 .. n - 1
      PROVE  InRun(m, n) <=> InRun(m, n - 1)
  <2>1. m .. n = (m .. n - 1) \cup {n} /\ m <= n /\ m <= n - 1
    BY <1>0
  <2> QED
    BY <1>3, <2>1
<1>4. ASSUME n > 1, args[n].wss # args[n - 1].wss, NEW m \in 1 .. n - 1 PROVE ~InRun(m, n)
  <2>1. n - 1 \in m .. n
    BY <1>0
  <2> QED
    BY <1>4, <2>1
<1> QED
  BY <1>1, <1>2, <1>3, <1>4

LEMMA RunsStay ==
  ASSUME args' = args
  PROVE  /\ \A m, n : InRun(m, n)' = InRun(m, n)
         /\ Distinct' = Distinct
  BY DEF InRun, Distinct

\* The files of a group are of one size, and told apart by their tss.
LEMMA GroupIsRun ==
  ASSUME ControlInv, Distinct, k <= Len(args)
  PROVE  /\ Group \subseteq 1 .. k
         /\ pc = "File" => Group \subseteq 1 .. k - 1 /\ \A m \in Group : args[m].wss = args[k - 1].wss
         /\ pc # "File" => \A m \in Group : args[m].wss = args[k].wss
         /\ pc \notin {"File", "Last"} => k \notin Group
         /\ \A m, n \in Group : args[m].tss = args[n].tss => m = n
<1>1. k \in 1 .. Len(args) /\ Len(args) \in Nat /\ DOMAIN args = 1 .. Len(args) /\ k \in Nat
  BY ArgsAre
<1>2. CASE pc = "File"
  <2>1. Group = {m \in 1 .. k - 1 : InRun(m, k - 1)}
    BY <1>1, <1>2 DEF Group
  <2>2. ASSUME NEW m \in Group PROVE args[m].wss = args[k - 1].wss /\ m \in 1 .. Len(args)
    <3>1. m \in 1 .. k - 1 /\ InRun(m, k - 1) /\ k - 1 \in 1 .. Len(args)
      BY <1>1, <2>1
    <3> QED
      BY <1>1, <3>1, Runs
  <2>3. \A m, n \in Group : args[m].tss = args[n].tss => m = n
    BY <1>1, <2>2 DEF Distinct
  <2> QED
    BY <1>1, <1>2, <2>1, <2>2, <2>3
<1>3. CASE pc # "File"
  <2>1. /\ Group \subseteq {m \in 1 .. k : InRun(m, k)}
        /\ pc # "Last" => Group = {m \in 1 .. k - 1 : InRun(m, k)}
    BY <1>1, <1>3 DEF Group
  <2>2. ASSUME NEW m \in Group PROVE args[m].wss = args[k].wss /\ m \in 1 .. Len(args)
    <3>1. m \in 1 .. k /\ InRun(m, k)
      BY <2>1
    <3> QED
      BY <1>1, <3>1, Runs
  <2>3. \A m, n \in Group : args[m].tss = args[n].tss => m = n
    BY <1>1, <2>2 DEF Distinct
  <2> QED
    BY <1>1, <1>3, <2>1, <2>2, <2>3
<1> QED
  BY <1>2, <1>3

\* What a step does to the group.
LEMMA GroupKept ==
  ASSUME ControlInv, GroupInv, Distinct, KeepGroup
  PROVE  Group' = Group /\ Running
<1>1. /\ k \in 1 .. Len(args) /\ args' = args /\ k' = k /\ pc = "File" /\ pc' = "Process"
      /\ k \in Nat /\ Len(args) \in Nat
  BY ArgsAre DEF KeepGroup, command
<1>2. \A m, n : InRun(m, n)' = InRun(m, n)
  BY <1>1, RunsStay
<1>3. Group = {m \in 1 .. k - 1 : InRun(m, k - 1)} /\ Group' = {m \in 1 .. k - 1 : InRun(m, k)'}
  BY <1>1 DEF Group
<1>4. \A m \in 1 .. k - 1 : InRun(m, k) <=> InRun(m, k - 1)
  <2>1. CASE k = 1
    BY <2>1
  <2>2. CASE k > 1
    <3>1. args[k].wss = args[k - 1].wss
      BY <1>1, <2>2, NewGroupIs DEF KeepGroup
    <3> QED
      BY <1>1, <2>2, <3>1, Runs
  <2> QED
    BY <1>1, <2>1, <2>2
<1> HIDE DEF Group
<1> QED
  BY <1>1, <1>2, <1>3, <1>4 DEF Running

LEMMA GroupStarted ==
  ASSUME ControlInv, GroupInv, Distinct, StartGroup
  PROVE  Group' = {}
<1>1. /\ k \in 1 .. Len(args) /\ args' = args /\ k' = k /\ pc = "File" /\ pc' = "Process"
      /\ k \in Nat /\ Len(args) \in Nat
  BY ArgsAre DEF StartGroup, command
<1>3. Group' = {m \in 1 .. k - 1 : InRun(m, k)}
  BY <1>1 DEF Group, InRun
<1>4. \A m \in 1 .. k - 1 : ~InRun(m, k)
  <2>1. k > 1 /\ args[k].wss # args[k - 1].wss
    BY <1>1, NewGroupIs DEF StartGroup
  <2> QED
    BY <1>1, <2>1, Runs
<1> QED
  BY <1>3, <1>4

LEMMA GroupGrown ==
  ASSUME ControlInv, Distinct, NextFile
  PROVE  Group' = Group \cup {k}
<1>1. /\ k \in 1 .. Len(args) /\ args' = args /\ pc = "Collect"
      /\ (IsLast <=> k = Len(args)) /\ k \in Nat /\ Len(args) \in Nat
  <2>1. pc = "Collect" /\ k <= Len(args) /\ args' = args
    BY DEF NextFile, command, ControlInv, InFile
  <2>2. k \in Nat /\ Len(args) \in Nat /\ 1 <= k
    BY ArgsAre
  <2> QED
    BY <2>1, <2>2, LastIsLast
<1>3. Group = {m \in 1 .. k - 1 : InRun(m, k)}
  BY <1>1 DEF Group
<1>4. InRun(k, k)
  BY <1>1, Runs
<1>5. CASE k = Len(args)
  <2>1. pc' = "Last" /\ k' = k
    BY <1>1, <1>5 DEF NextFile
  <2>2. Group' = {m \in 1 .. k : InRun(m, k)}
    BY <1>1, <2>1 DEF Group, InRun
  <2>3. 1 .. k = (1 .. k - 1) \cup {k}
    BY <1>1
  <2> QED
    BY <1>3, <1>4, <2>2, <2>3
<1>6. CASE k # Len(args)
  <2>1. pc' = "File" /\ k' = k + 1
    BY <1>1, <1>6 DEF NextFile
  <2>2. Group' = {m \in 1 .. k : InRun(m, k)}
    <3>1. ~(k + 1 > Len(args)) /\ (k + 1) - 1 = k
      BY <1>1, <1>6
    <3> QED
      BY <1>1, <2>1, <3>1 DEF Group, InRun
  <2>3. 1 .. k = (1 .. k - 1) \cup {k}
    BY <1>1
  <2> QED
    BY <1>3, <1>4, <2>2, <2>3
<1> QED
  BY <1>5, <1>6

LEMMA GroupStays ==
  ASSUME UNCHANGED <<args, k>>, pc' = pc \/ {pc, pc'} \subseteq {"Process", "Get", "Collect"}
  PROVE  Group' = Group
  BY DEF Group, InRun

\* Nor do the vectors collected change with what they are collected in.
LEMMA ListStays ==
  ASSUME UNCHANGED <<args, coresL2, limit, mode, valid_ovds_list>>, Group' = Group, ListInv
  PROVE  ListInv'
<1>1. \A o, n : HasOvds(o, n)' = HasOvds(o, n)
  BY OvdsStay DEF HasOvds
<1> QED
  BY <1>1 DEF ListInv

LEMMA ListEmptied ==
  ASSUME valid_ovds_list' = <<>>, Group' = {}
  PROVE  ListInv'
  BY DEF ListInv

LEMMA ListGrown ==
  ASSUME ControlInv, ModuleInv, GroupInv, Distinct, NextFile
  PROVE  ListInv'
<1>1. /\ UNCHANGED <<args, coresL2, limit, mode>> /\ pc = "Collect" /\ k \in 1 .. Len(args)
      /\ valid_ovds_list' = Collected /\ DOMAIN args = 1 .. Len(args)
  BY ArgsAre DEF NextFile, command, ControlInv, InFile
<1>2. \A o, n : HasOvds(o, n)' = HasOvds(o, n)
  BY <1>1, OvdsStay DEF HasOvds
<1>3. ListInv
  BY <1>1 DEF GroupInv, Running
<1>4. Group' = Group \cup {k}
  BY GroupGrown
<1>5. HasOvds(ovds, k)
  BY <1>1 DEF ModuleInv, HasOvds
<1>6. \A m \in Group : args[m].tss # args[k].tss
  <2> SUFFICES ASSUME NEW m \in Group PROVE args[m].tss # args[k].tss
    OBVIOUS
  <2>1. Group \subseteq 1 .. k /\ args[m].wss = args[k].wss /\ k \notin Group
    BY <1>1, GroupIsRun
  <2>2. m \in DOMAIN args /\ k \in DOMAIN args /\ m # k
    BY <1>1, <2>1
  <2> QED
    BY <2>1, <2>2 DEF Distinct
<1>7. /\ DOMAIN Collected = DOMAIN valid_ovds_list \cup {args[k].tss}
      /\ Collected[args[k].tss] = ovds
      /\ \A m \in Group : Collected[args[m].tss] = valid_ovds_list[args[m].tss]
  BY <1>3, <1>6 DEF Collected, conf, ListInv
<1> HIDE DEF Group, Collected, HasOvds
<1>8. DOMAIN Collected = {args[m].tss : m \in Group \cup {k}}
  BY <1>3, <1>7 DEF ListInv
<1>9. \A m \in Group \cup {k} : HasOvds(Collected[args[m].tss], m)
  BY <1>3, <1>5, <1>7 DEF ListInv
<1> QED
  BY <1>1, <1>2, <1>4, <1>8, <1>9 DEF ListInv

LEMMA GroupInit == Init => GroupInv
<1> SUFFICES ASSUME Init PROVE GroupInv
  OBVIOUS
<1>1. Group = {} /\ DOMAIN valid_ovds_list = {}
  BY DEF Init, Group
<1> QED
  BY <1>1 DEF Init, GroupInv, ListInv

LEMMA GroupStep == ControlInv /\ ModuleInv /\ GroupInv /\ [Next]_vars => GroupInv'
<1> SUFFICES ASSUME ControlInv, ModuleInv, GroupInv, [Next]_vars, Distinct PROVE GroupInv'
  <2>1. [Next]_vars => Distinct' = Distinct
    BY CommandStays, RunsStay
  <2> QED
    BY <2>1 DEF GroupInv
<1>1. UNCHANGED <<args, coresL2, limit, mode>> /\ Len(args) \in Nat /\ k \in Nat /\ 1 <= k
  BY CommandStays, ArgsAre
<1>2. /\ k = 1 => last_conf = <<>>
      /\ k > 1 /\ k <= Len(args) => last_conf = args[k - 1]
      /\ k <= Len(args) => {"valid_ovds_list", "min_sample_tss"} \subseteq kept
      /\ pc = "Last" => k = Len(args)
      /\ Running => ListInv
  BY DEF GroupInv
<1>3. ASSUME UNCHANGED <<k, last_conf, kept>>, pc' # "Last" \/ pc' = pc, Running' => ListInv' PROVE GroupInv'
  BY <1>1, <1>2, <1>3 DEF GroupInv
<1>4. ASSUME NEW p, Raise(p) PROVE GroupInv'
  BY <1>3, <1>4 DEF Raise, lists, Running
<1>5. CASE KeepGroup
  BY <1>1, <1>2, <1>3, <1>5, GroupKept, ListStays DEF KeepGroup, lists
<1>6. CASE StartGroup
  BY <1>3, <1>6, GroupStarted, ListEmptied DEF StartGroup
<1>7. CASE ListIsGone \/ ReportFails \/ LoadFileFails \/ AutocapFails \/ SaveFails \/ ReadSavedFails
  BY <1>4, <1>7 DEF ListIsGone, ReportFails, LoadFileFails, AutocapFails, SaveFails, ReadSavedFails
<1>8. CASE AllDone
  BY <1>3, <1>8 DEF AllDone, lists, Running
<1>9. CASE LoadFile \/ GetArray \/ SaveVectors \/ ReadSaved
  <2>1. /\ UNCHANGED <<k, last_conf, kept, valid_ovds_list>>
        /\ {pc, pc'} \subseteq {"Process", "Get", "Collect"}
    BY <1>9 DEF LoadFile, GetArray, SaveVectors, ReadSaved, Fetched, lists
  <2>2. ListInv'
    BY <1>1, <1>2, <2>1, GroupStays, ListStays DEF Running
  <2> QED
    BY <1>3, <2>1, <2>2
<1>10. CASE NextFile
  <2>1. ListInv' /\ (IsLast <=> k = Len(args)) /\ k <= Len(args) /\ kept' = kept
    <3>1. pc = "Collect" /\ k <= Len(args) /\ kept' = kept
      BY <1>10 DEF NextFile, ControlInv, InFile
    <3> QED
      BY <1>10, <3>1, ListGrown, LastIsLast
  <2>2. CASE IsLast
    <3>1. pc' = "Last" /\ UNCHANGED <<k, last_conf>>
      BY <1>10, <2>2 DEF NextFile
    <3> QED
      BY <1>1, <1>2, <2>1, <2>2, <3>1 DEF GroupInv
  <2>3. CASE ~IsLast
    <3>1. pc' = "File" /\ k' = k + 1 /\ last_conf' = args[k]
      BY <1>10, <2>3 DEF NextFile, conf
    <3>2. k' > 1 /\ k' - 1 = k
      BY <1>1, <3>1
    <3> QED
      BY <1>1, <1>2, <2>1, <3>1, <3>2 DEF GroupInv
  <2> QED
    BY <2>2, <2>3
<1>11. CASE LastFile
  <2>1. k = Len(args) /\ k' = k + 1 /\ pc' = "File" /\ valid_ovds_list' = <<>>
    BY <1>2, <1>11 DEF LastFile
  <2>2. k' > Len(args) /\ k' # 1
    BY <1>1, <2>1
  <2>3. Group' = {}
    BY <1>1, <2>2 DEF Group
  <2>4. ListInv'
    BY <2>1, <2>3, ListEmptied
  <2> QED
    BY <1>1, <2>1, <2>2, <2>4 DEF GroupInv
<1>12. CASE UNCHANGED vars
  <2>1. UNCHANGED <<k, pc, last_conf, kept, valid_ovds_list>>
    BY <1>12 DEF vars, lists
  <2>2. Running => ListInv'
    BY <1>1, <1>2, <2>1, GroupStays, ListStays
  <2> QED
    BY <1>3, <2>1, <2>2 DEF Running
<1>13. CASE GetArrayFails
  <2>1. CASE Raise("Get")
    BY <1>4, <2>1
  <2>2. CASE UNCHANGED <<k, pc, last_conf, lists>>
    <3>1. pc = "Get" /\ ListInv'
      BY <1>1, <1>2, <1>13, <2>2, FailCases, GroupStays, ListStays DEF Running, lists
    <3> QED
      BY <1>3, <2>2, <3>1 DEF lists
  <2> QED
    BY <1>13, <2>1, <2>2, FailCases
<1> QED
  BY <1>5, <1>6, <1>7, <1>8, <1>9, <1>10, <1>11, <1>12, <1>13 DEF Next, Default, Process, Ended

-----------------------------------------------------------------------------
(* The vectors, and how --autocap counts them.                             *)

\* The array of a file at a level.
FileArray(n, label) == Pm!Sorted(args[n].trace, coresL2, coresL2 # 0)[ArrayNamed[label]]

LEMMA TraceOf ==
  ASSUME ControlInv, NEW n \in 1 .. Len(args)
  PROVE  args[n].trace \in Seq(Pm!Overhead) /\ coresL2 \in Nat
<1>1. n \in DOMAIN args
  BY ArgsAre
<1>2. args[n].trace \in Traces
  BY <1>1 DEF Traces, ControlInv
<1> QED
  BY <1>2, AnalyzerAssumption DEF ControlInv

LEMMA ArrayOfLabel ==
  ASSUME NEW label \in ToSet(Labels)
  PROVE  ArrayNamed[label] \in Pm!Arrays
<1>1. PICK j \in 1 .. Len(Labels) : label = Labels[j]
  BY LabelsOfArrays DEF ToSet
<1> QED
  BY <1>1, LabelsOfArrays DEF Pm!Allocated, Pm!Arrays

LEMMA ArrayType ==
  ASSUME ControlInv, NEW n \in 1 .. Len(args), NEW label \in ToSet(Labels)
  PROVE  FileArray(n, label) \in Seq(Pm!Overhead)
<1> DEFINE t == args[n].trace
           a == ArrayNamed[label]
<1>1. t \in Seq(Srt!Overhead) /\ a \in Srt!Arrays
  BY TraceOf, ArrayOfLabel, SortingApplies
<1> HIDE DEF t, a
<1>2. PICK stored \in [0 .. Len(t) -> [Srt!Arrays -> Seq(Srt!Overhead)]] :
        Srt!Sorted(t, coresL2, coresL2 # 0) = stored[Len(t)]
  BY <1>1, SortingApplies, Srt!LoopStores
<1>3. Srt!Sorted(t, coresL2, coresL2 # 0)[a] \in Seq(Srt!Overhead)
  <2>1. Len(t) \in 0 .. Len(t)
    BY <1>1
  <2> DEFINE Q == Seq(Srt!Overhead)
  <2> HIDE DEF Q
  <2> QED
    BY <1>1, <1>2, <2>1 DEF Q
<1> QED
  BY <1>3, SortingApplies DEF FileArray, t, a

LEMMA VectorType ==
  ASSUME ControlInv, NEW n \in 1 .. Len(args), NEW label \in ToSet(Labels)
  PROVE  FileVector(n, label) \in Seq(Int) /\ Samples(n, label) \in Nat
<1> DEFINE array == FileArray(n, label)
<1>1. array \in Seq(Pm!Overhead)
  BY ArrayType
<1>2. FileVector(n, label) = [j \in DOMAIN array |-> array[j].ovd]
  BY DEF FileVector, FileArray, Overheads
<1> HIDE DEF array
<1>3. \A j \in 1 .. Len(array) : array[j].ovd \in Int
  <2>1. \A j \in 1 .. Len(array) : array[j] \in Pm!Overhead
    BY <1>1, ElementOfSeq
  <2> QED
    BY <2>1 DEF Pm!Overhead
<1>4. DOMAIN array = 1 .. Len(array) /\ Len(array) \in Nat
  BY <1>1, LenProperties
<1> QED
  BY <1>2, <1>3, <1>4 DEF Samples

\* What the pm module hands out are the overheads whose cpus are at the level.
LEMMA VectorIsOfLevel ==
  ASSUME ControlInv, NEW n \in 1 .. Len(args), NEW label \in ToSet(Labels)
  PROVE  FileVector(n, label) = VectorOf(args[n], label)
<1> DEFINE t == args[n].trace
           a == ArrayNamed[label]
           c == coresL2
           ks == Pm!OfLevel(t, c, a)
           array == FileArray(n, label)
<1>1. /\ t \in Seq(Srt!Overhead) /\ a \in Srt!Arrays /\ c \in Nat
      /\ Srt!ModuleAssumption /\ Srt!MachineAssumption
      /\ array \in Seq(Pm!Overhead)
  BY TraceOf, ArrayOfLabel, ArrayType, SortingApplies
<1>2. (c # 0) = (c > 0)
  <2>1. c # 0 <=> c > 0
    BY <1>1
  <2> QED
    BY <2>1
<1>3. Srt!SortedInto(a, t, c, c # 0) = ks
  <2>1. Srt!SortedInto(a, t, c, c # 0) = {k_1 \in DOMAIN t : Srt!ArrayOf(t[k_1], c, c > 0) = a}
    <3> HIDE DEF t, a, c
    <3> QED
      BY <1>2 DEF Srt!SortedInto
  <2>2. \A j \in DOMAIN t : Srt!ArrayOf(t[j], c, c > 0) = Pm!Level(t[j], c)
    <3> HIDE DEF t, c
    <3>1. \A j \in DOMAIN t : t[j] \in Srt!Overhead
      BY <1>1, ElementOfSeq, LenProperties
    <3> QED
      BY <1>1, <3>1, SortingApplies, Srt!ArrayIsLevel
  <2>3. ks = {j \in DOMAIN t : Pm!Level(t[j], c) = a}
    BY DEF Pm!OfLevel
  <2> HIDE DEF t, a, c, ks
  <2> QED
    BY <2>1, <2>2, <2>3
<1>4. Len(array) = Cardinality(ks) /\ \A j \in ks : array[Cardinality(ks \cap 1 .. j)] = t[j]
  <2>1. Srt!Sorted(t, c, c # 0)[a] = array
    BY SortingApplies DEF FileArray
  <2> HIDE DEF t, a, c, ks, array
  <2>2. Srt!Holds(array, t, ks)
    BY <1>1, <1>3, <2>1, Srt!SortedInOrder
  <2> QED
    BY <2>2, SortingApplies DEF Srt!Holds
<1>5. ks \in SUBSET (1 .. Len(t)) /\ Len(t) \in Nat
  BY <1>1 DEF Pm!OfLevel
<1>6. VectorOf(args[n], label) = [j \in 1 .. Cardinality(ks) |-> t[Nth(ks, j)].ovd]
  BY DEF VectorOf
<1>7. FileVector(n, label) = [j \in DOMAIN array |-> array[j].ovd]
  BY DEF FileVector, FileArray, Overheads
<1> HIDE DEF t, a, c, ks, array
<1>8. IsFiniteSet(ks) /\ ks \in SUBSET Int
  <2>1. IsFiniteSet(1 .. Len(t))
    BY <1>5, FS_Interval
  <2> QED
    <3>1. IsFiniteSet(ks)
      BY <1>5, <2>1, FS_Subset
    <3>2. \A j \in 1 .. Len(t) : j \in Int
      BY <1>5
    <3> QED
      BY <1>5, <3>1, <3>2
<1>9. \A j \in 1 .. Cardinality(ks) : Nth(ks, j) \in ks /\ Rank(ks, Nth(ks, j)) = j
  BY <1>8, NthOf
<1>10. \A j \in ks : Rank(ks, j) = Cardinality(ks \cap 1 .. j)
  <2> SUFFICES ASSUME NEW j \in ks PROVE Rank(ks, j) = Cardinality(ks \cap 1 .. j)
    OBVIOUS
  <2>1. {y \in ks : y <= j} = ks \cap 1 .. j
    <3>1. \A y \in ks : y <= j <=> y \in 1 .. j
      BY <1>5
    <3> QED
      BY <3>1, Zenon
  <2> QED
    BY <2>1 DEF Rank
<1>11. \A j \in 1 .. Cardinality(ks) : array[j] = t[Nth(ks, j)]
  BY <1>4, <1>9, <1>10
<1>12. DOMAIN array = 1 .. Cardinality(ks)
  BY <1>1, <1>4, LenProperties
<1> QED
  BY <1>6, <1>7, <1>11, <1>12

\* The smallest file of some: its samples are what min_sample_tss counts.
Smallest(n, files) ==
  /\ n \in files
  /\ min_sample_tss = [label \in ToSet(Labels) |-> Samples(n, label)]
  /\ \A m \in files : Samples(n, "preemption") <= Samples(m, "preemption")

CountsOf(files) ==
  /\ files = {} => min_sample_tss = <<>>
  /\ files # {} => \E n : Smallest(n, files)

LEMMA CountInvIs ==
  CountInv <=> (Distinct /\ mode = "autocap" /\ Running /\ k <= Len(args) => CountsOf(Counted))
  BY DEF CountInv, CountsOf, Smallest

LEMMA CountsStay ==
  ASSUME UNCHANGED <<args, coresL2, limit, mode, min_sample_tss>>, NEW files, CountsOf(files)
  PROVE  CountsOf(files)'
<1>1. /\ Labels' = Labels /\ \A n, label : Samples(n, label)' = Samples(n, label)
  BY OvdsStay DEF Samples
<1> QED
  BY <1>1 DEF CountsOf, Smallest

LEMMA PreemptionIsLabel == "preemption" \in ToSet(Labels)
<1>1. 1 \in DOMAIN Labels
  BY LabelsOfArrays
<1> QED
  BY <1>1, LabelsOfArrays DEF ToSet

LEMMA CountOfIs ==
  ASSUME ovds = FileOvds(k), NEW label \in ToSet(Labels)
  PROVE  CountOf(label) = Samples(k, label)
<1>1. DOMAIN ovds = 1 .. Len(Labels) /\ \A n \in 1 .. Len(Labels) : ovds[n] = <<Labels[n], FileVector(k, Labels[n])>>
  BY DEF FileOvds
<1>2. \E n \in DOMAIN ovds : ovds[n][1] = label
  BY <1>1, LabelsOfArrays DEF ToSet
<1> DEFINE n == CHOOSE n \in DOMAIN ovds : ovds[n][1] = label
<1>3. n \in 1 .. Len(Labels) /\ ovds[n][1] = label
  BY <1>1, <1>2
<1>4. CountOf(label) = Len(ovds[n][2])
  BY DEF CountOf
<1> HIDE DEF n
<1>5. ovds[n][2] = FileVector(k, label)
  BY <1>1, <1>3
<1> QED
  BY <1>4, <1>5 DEF Samples

LEMMA SaveCounts ==
  ASSUME ControlInv, ModuleInv, GroupInv, CountInv, Distinct, mode = "autocap", SaveVectors
  PROVE  CountsOf(Group \cup {k})'
<1>1. /\ UNCHANGED <<args, coresL2, limit, mode, k>> /\ Fetched /\ pc = "Get" /\ pc' = "Collect"
      /\ k \in 1 .. Len(args)
      /\ min_sample_tss' = IF min_sample_tss = <<>> \/ Smaller
                           THEN [label \in ToSet(Labels) |-> CountOf(label)] ELSE min_sample_tss
  BY ArgsAre DEF SaveVectors, Fetched, command, Autocap, ControlInv, InFile
<1>2. /\ Labels' = Labels /\ (\A n, label : Samples(n, label)' = Samples(n, label))
      /\ Group' = Group
  BY <1>1, OvdsStay, GroupStays DEF Samples
<1>3. \A label \in ToSet(Labels) : CountOf(label) = Samples(k, label)
  BY <1>1, FetchedAll, CountOfIs
<1>4. [label \in ToSet(Labels) |-> CountOf(label)] = [label \in ToSet(Labels) |-> Samples(k, label)]
  BY <1>3
<1> DEFINE P(n) == Samples(n, "preemption")
           Counts(n) == [label \in ToSet(Labels) |-> Samples(n, label)]
<1>5. \A n \in 1 .. Len(args) : P(n) \in Nat
  BY VectorType, PreemptionIsLabel
<1>6. Group \subseteq 1 .. Len(args)
  BY <1>1, GroupIsRun, ArgsAre
<1>7. CountsOf(Group)
  BY <1>1, CountInvIs DEF Counted, Running
<1>8. CountOf("preemption") = P(k) /\ "preemption" \in ToSet(Labels)
  BY <1>3, PreemptionIsLabel
<1>9. CASE Group = {}
  <2>1. min_sample_tss' = Counts(k)
    BY <1>1, <1>4, <1>7, <1>9 DEF CountsOf
  <2>2. Smallest(k, {k})'
    <3> HIDE DEF Group
    <3>1. P(k) <= P(k)
      BY <1>1, <1>5
    <3> QED
      BY <1>1, <1>2, <2>1, <3>1 DEF Smallest
  <2> HIDE DEF Group
  <2> QED
    BY <1>1, <1>2, <1>9, <2>2 DEF CountsOf
<1>10. CASE Group # {}
  <2>1. PICK n : Smallest(n, Group)
    BY <1>7, <1>10 DEF CountsOf
  <2>2. n \in Group /\ min_sample_tss = Counts(n) /\ \A m \in Group : P(n) <= P(m)
    BY <2>1 DEF Smallest
  <2>3. min_sample_tss # <<>> /\ min_sample_tss.preemption = P(n)
    <3>1. DOMAIN min_sample_tss # {} /\ min_sample_tss.preemption = P(n)
      BY <1>8, <2>2
    <3>2. DOMAIN <<>> = {}
      OBVIOUS
    <3> QED
      BY <3>1, <3>2
  <2>4. Smaller <=> P(n) > P(k)
    BY <1>8, <2>3 DEF Smaller
  <2>j. PICK j : j = IF P(n) > P(k) THEN k ELSE n
    OBVIOUS
  <2>5. j \in Group \cup {k} /\ min_sample_tss' = Counts(j)
    BY <1>1, <1>4, <2>2, <2>3, <2>4, <2>j
  <2>6. \A m \in Group \cup {k} : P(j) <= P(m)
    <3>1. \A m \in Group \cup {k} : P(m) \in Nat
      BY <1>1, <1>5, <1>6
    <3> HIDE DEF P, Group
    <3> QED
      BY <2>2, <2>j, <3>1
  <2> HIDE DEF Group
  <2>7. Smallest(j, Group \cup {k})'
    BY <1>1, <1>2, <2>5, <2>6 DEF Smallest
  <2> QED
    BY <2>7 DEF CountsOf
<1> QED
  BY <1>9, <1>10

LEMMA CountInit == Init => CountInv
<1> SUFFICES ASSUME Init PROVE CountInv
  OBVIOUS
<1>1. Counted = {} /\ min_sample_tss = <<>>
  BY DEF Init, Counted, Group
<1> QED
  BY <1>1 DEF CountInv

LEMMA CountStep == ControlInv /\ ModuleInv /\ GroupInv /\ CountInv /\ [Next]_vars => CountInv'
<1> SUFFICES ASSUME ControlInv, ModuleInv, GroupInv, CountInv, [Next]_vars,
                    Distinct, mode = "autocap", Running', k' <= Len(args)
             PROVE  CountsOf(Counted)'
  <2>1. [Next]_vars => UNCHANGED <<args, mode>> /\ Distinct' = Distinct
    BY CommandStays, RunsStay
  <2>2. CountInv' <=> (Distinct' /\ mode' = "autocap" /\ Running' /\ k' <= Len(args') => CountsOf(Counted)')
    BY DEF CountInv, CountsOf, Smallest
  <2> QED
    BY <2>1, <2>2
<1>1. UNCHANGED <<args, coresL2, limit, mode>> /\ Len(args) \in Nat /\ k \in Nat /\ 1 <= k
  BY CommandStays, ArgsAre
<1>2. Running /\ k <= Len(args) => CountsOf(Counted)
  BY CountInvIs
<1>3. ASSUME UNCHANGED min_sample_tss, Counted' = Counted, Running, k <= Len(args)
      PROVE  CountsOf(Counted)'
  BY <1>1, <1>2, <1>3, CountsStay
<1>4. ASSUME NEW p, Raise(p) PROVE FALSE
  BY <1>4 DEF Raise, Running
<1>5. CASE KeepGroup
  BY <1>3, <1>5, GroupKept DEF KeepGroup, lists, Counted
<1>6. CASE StartGroup
  BY <1>6, GroupStarted DEF StartGroup, Counted, CountsOf
<1>7. CASE ListIsGone \/ ReportFails \/ LoadFileFails \/ AutocapFails \/ SaveFails \/ ReadSavedFails
  BY <1>4, <1>7 DEF ListIsGone, ReportFails, LoadFileFails, AutocapFails, SaveFails, ReadSavedFails
<1>8. CASE AllDone
  BY <1>8 DEF AllDone, Running
<1>9. CASE LoadFile \/ GetArray
  <2>1. /\ UNCHANGED <<k, min_sample_tss>> /\ {pc, pc'} \subseteq {"Process", "Get"}
    BY <1>9 DEF LoadFile, GetArray, lists
  <2> QED
    BY <1>1, <1>3, <2>1, GroupStays DEF Counted, Running
<1>10. CASE SaveVectors
  <2>1. Counted' = (Group \cup {k})'
    BY <1>10 DEF SaveVectors, Counted
  <2> QED
    BY <1>10, <2>1, SaveCounts
<1>11. CASE ReadSaved
  BY <1>11 DEF ReadSaved
<1>12. CASE NextFile
  <2>1. pc = "Collect" /\ pc' # "Collect" /\ min_sample_tss' = min_sample_tss /\ Running /\ k <= Len(args)
    BY <1>12 DEF NextFile, Running, ControlInv, InFile
  <2>2. Counted = Group \cup {k} /\ Counted' = Group'
    BY <2>1 DEF Counted
  <2> QED
    BY <1>3, <1>12, <2>1, <2>2, GroupGrown
<1>13. CASE LastFile
  BY <1>1, <1>13 DEF LastFile, GroupInv
<1>14. CASE UNCHANGED vars
  <2>1. UNCHANGED <<k, pc, min_sample_tss>>
    BY <1>14 DEF vars, lists
  <2> QED
    BY <1>1, <1>3, <2>1, GroupStays DEF Counted, Running
<1>15. CASE GetArrayFails
  <2>1. CASE Raise("Get")
    BY <1>4, <2>1
  <2>2. CASE UNCHANGED <<k, pc, lists>>
    <3>1. pc = "Get" /\ k <= Len(args)
      BY <1>15, FailCases DEF ControlInv, InFile
    <3> QED
      BY <1>1, <1>3, <2>2, <3>1, GroupStays DEF Counted, Running, lists
  <2> QED
    BY <1>15, <2>1, <2>2, FailCases
<1> QED
  BY <1>5, <1>6, <1>7, <1>8, <1>9, <1>10, <1>11, <1>12, <1>13, <1>14, <1>15
     DEF Next, Default, Process, Ended

-----------------------------------------------------------------------------
(* What is written of a group.                                             *)

\* Any sequence is one of its own elements.
LEMMA OfElements ==
  ASSUME NEW D, NEW s \in Seq(D)
  PROVE  s \in Seq(ToSet(s)) /\ DOMAIN s = 1 .. Len(s) /\ Len(s) \in Nat
  BY DEF ToSet

\* The row of the n-th file with its j-th label.
TheRow(dname, config, n, j) == RowsOf(dname, config, args[n].tss)[j]

LEMMA TheRowIs ==
  ASSUME ListInv, NEW n \in Group, NEW dname, NEW config
  PROVE  /\ DOMAIN RowsOf(dname, config, args[n].tss) = 1 .. Len(Labels)
         /\ \A j \in 1 .. Len(Labels) :
              LET row == TheRow(dname, config, n, j)
              IN  /\ row.dir = dname /\ row.wss = config.wss /\ row.tss = args[n].tss
                  /\ mode # "saved" =>
                       row.label = Labels[j] /\ row.vector = Used(Labels[j], FileVector(n, Labels[j]))
<1>1. HasOvds(valid_ovds_list[args[n].tss], n)
  BY DEF ListInv
<1>2. DOMAIN valid_ovds_list[args[n].tss] = 1 .. Len(Labels)
  BY <1>1 DEF HasOvds
<1>3. ASSUME mode # "saved", NEW j \in 1 .. Len(Labels)
      PROVE  valid_ovds_list[args[n].tss][j] = <<Labels[j], FileVector(n, Labels[j])>>
  BY <1>1, <1>3 DEF HasOvds, FileOvds
<1>4. DOMAIN RowsOf(dname, config, args[n].tss) = 1 .. Len(Labels)
  BY <1>2 DEF RowsOf
<1>5. ASSUME NEW j \in 1 .. Len(Labels)
      PROVE  /\ TheRow(dname, config, n, j).dir = dname
             /\ TheRow(dname, config, n, j).wss = config.wss
             /\ TheRow(dname, config, n, j).tss = args[n].tss
             /\ TheRow(dname, config, n, j).label = valid_ovds_list[args[n].tss][j][1]
             /\ TheRow(dname, config, n, j).vector =
                  Used(valid_ovds_list[args[n].tss][j][1], valid_ovds_list[args[n].tss][j][2])
  BY <1>2 DEF TheRow, RowsOf
<1> QED
  BY <1>3, <1>4, <1>5

\* The sizes of task sets of a group can be put in order.
LEMMA SizesOfGroup ==
  ASSUME ControlInv, Distinct, ListInv, k <= Len(args)
  PROVE  DOMAIN valid_ovds_list \in SUBSET Int /\ IsFiniteSet(DOMAIN valid_ovds_list)
<1> DEFINE S == DOMAIN valid_ovds_list
           f == [m \in Group |-> args[m].tss]
<1>1. /\ Group \subseteq 1 .. k /\ k \in Nat /\ Len(args) \in Nat
      /\ \A n \in 1 .. Len(args) : args[n].tss \in Int
  BY GroupIsRun, ArgsAre
<1>2. S = {args[m].tss : m \in Group}
  BY DEF ListInv
<1> HIDE DEF S
<1>3. f \in Surjection(Group, S)
  BY <1>2 DEF Surjection
<1>4. IsFiniteSet(Group)
  <2>1. IsFiniteSet(1 .. k)
    BY <1>1, FS_Interval
  <2> HIDE DEF Group
  <2> QED
    BY <1>1, <2>1, FS_Subset
<1>5. IsFiniteSet(S)
  BY <1>3, <1>4, FS_Surjection
<1>6. S \in SUBSET Int
  <2>1. \A m \in Group : m \in 1 .. Len(args)
    BY <1>1
  <2>2. \A m \in Group : args[m].tss \in Int
    BY <1>1, <2>1
  <2> HIDE DEF Group
  <2> QED
    BY <1>2, <2>2
<1> QED
  BY <1>5, <1>6 DEF S

LEMMA ReportRows ==
  ASSUME ControlInv, Distinct, ListInv, k <= Len(args), NEW dname, NEW config
  PROVE  LET rows == Report(dname, config)
         IN  /\ rows \in Seq(ToSet(rows))
             /\ \A m \in DOMAIN rows : \E n \in Group : \E j \in 1 .. Len(Labels) :
                  rows[m] = TheRow(dname, config, n, j)
             /\ \A n \in Group, j \in 1 .. Len(Labels) : \E m \in DOMAIN rows :
                  rows[m] = TheRow(dname, config, n, j)
             /\ mode # "saved" =>
                  \A l, m \in DOMAIN rows :
                    rows[l].tss = rows[m].tss /\ rows[l].label = rows[m].label => l = m
<1> DEFINE S == DOMAIN valid_ovds_list
           c == Cardinality(S)
           parts == [i \in 1 .. c |-> RowsOf(dname, config, Nth(S, i))]
           D == {TheRow(dname, config, n, j) : n \in Group, j \in 1 .. Len(Labels)}
           rows == FlattenSeq(parts)
<1>1. S \in SUBSET Int /\ IsFiniteSet(S) /\ S = {args[n].tss : n \in Group}
  BY SizesOfGroup DEF ListInv
<1>2. /\ c \in Nat
      /\ \A i \in 1 .. c : Nth(S, i) \in S /\ Rank(S, Nth(S, i)) = i
      /\ \A x \in S : Nth(S, Rank(S, x)) = x /\ Rank(S, x) \in 1 .. c
  BY <1>1, NthOf, Ranks
<1>3. Report(dname, config) = rows
  BY DEF Report
<1>4. Len(Labels) \in Nat
  BY LabelsOfArrays
<1> HIDE DEF S, c
<1>5. \A i \in 1 .. c : \E n \in Group :
        /\ Nth(S, i) = args[n].tss
        /\ DOMAIN parts[i] = 1 .. Len(Labels)
        /\ \A j \in 1 .. Len(Labels) : parts[i][j] = TheRow(dname, config, n, j)
  <2> SUFFICES ASSUME NEW i \in 1 .. c
               PROVE  \E n \in Group :
                        /\ Nth(S, i) = args[n].tss
                        /\ DOMAIN parts[i] = 1 .. Len(Labels)
                        /\ \A j \in 1 .. Len(Labels) : parts[i][j] = TheRow(dname, config, n, j)
    OBVIOUS
  <2>1. PICK n \in Group : Nth(S, i) = args[n].tss
    BY <1>1, <1>2
  <2>2. parts[i] = RowsOf(dname, config, args[n].tss)
    BY <2>1
  <2> HIDE DEF parts
  <2>r. DOMAIN RowsOf(dname, config, args[n].tss) = 1 .. Len(Labels)
    BY TheRowIs
  <2>3. DOMAIN parts[i] = 1 .. Len(Labels)
    BY <2>2, <2>r
  <2>4. \A j \in 1 .. Len(Labels) : parts[i][j] = TheRow(dname, config, n, j)
    BY <2>2 DEF TheRow
  <2> QED
    BY <2>1, <2>3, <2>4, Zenon
<1>6. \A n \in Group : Rank(S, args[n].tss) \in 1 .. c /\ Nth(S, Rank(S, args[n].tss)) = args[n].tss
  BY <1>1, <1>2
<1>7. parts \in [1 .. c -> Seq(D)]
  <2>1. ASSUME NEW i \in 1 .. c PROVE parts[i] \in Seq(D)
    <3> DEFINE p == parts[i]
    <3>1. PICK n \in Group : DOMAIN p = 1 .. Len(Labels)
                             /\ \A j \in 1 .. Len(Labels) : p[j] = TheRow(dname, config, n, j)
      BY <1>5
    <3>2. \A j \in 1 .. Len(Labels) : p[j] \in D
      BY <3>1
    <3>3. p = [j \in 1 .. Len(Labels) |-> p[j]]
      <4>1. p = [j \in DOMAIN p |-> p[j]]
        BY DEF RowsOf
      <4> HIDE DEF p
      <4> QED
        BY <3>1, <4>1
    <3> HIDE DEF p, D
    <3>4. p \in Seq(D)
      BY <1>4, <3>2, <3>3
    <3> QED
      BY <3>4 DEF p
  <2> DEFINE Q == Seq(D)
  <2>2. \A i \in 1 .. c : parts[i] \in Q
    BY <2>1
  <2> HIDE DEF Q
  <2> QED
    BY <2>2 DEF Q
<1> DEFINE Apart == \A h, i \in 1 .. c : \A g \in DOMAIN parts[h], j \in DOMAIN parts[i] :
                      parts[h][g] = parts[i][j] => h = i /\ g = j
<1>8. mode # "saved" => Apart
  <2> SUFFICES ASSUME mode # "saved", NEW h \in 1 .. c, NEW i \in 1 .. c,
                      NEW g \in DOMAIN parts[h], NEW j \in DOMAIN parts[i], parts[h][g] = parts[i][j]
               PROVE  h = i /\ g = j
    OBVIOUS
  <2> HIDE DEF parts
  <2>1. PICK m \in Group : /\ Nth(S, h) = args[m].tss /\ g \in 1 .. Len(Labels)
                           /\ parts[h][g] = TheRow(dname, config, m, g)
    BY <1>5
  <2>2. PICK n \in Group : /\ Nth(S, i) = args[n].tss /\ j \in 1 .. Len(Labels)
                           /\ parts[i][j] = TheRow(dname, config, n, j)
    BY <1>5
  <2>3. parts[h][g].tss = args[m].tss /\ parts[h][g].label = Labels[g]
    BY <2>1, TheRowIs
  <2>4. parts[i][j].tss = args[n].tss /\ parts[i][j].label = Labels[j]
    BY <2>2, TheRowIs
  <2>5. Nth(S, h) = Nth(S, i) /\ Labels[g] = Labels[j]
    BY <2>1, <2>2, <2>3, <2>4
  <2> QED
    BY <1>2, <2>1, <2>2, <2>5, LabelsOfArrays
<1>9. /\ rows \in Seq(D)
      /\ \A m \in DOMAIN rows : \E i \in 1 .. c : \E j \in DOMAIN parts[i] : rows[m] = parts[i][j]
      /\ \A i \in 1 .. c : \A j \in DOMAIN parts[i] : \E m \in DOMAIN rows : rows[m] = parts[i][j]
      /\ Apart => \A l, m \in DOMAIN rows : rows[l] = rows[m] => l = m
  <2> HIDE DEF parts, D
  <2> QED
    BY <1>2, <1>7, Flattened
<1> HIDE DEF parts, rows, D, Apart
<1>10. rows \in Seq(ToSet(rows))
  BY <1>9, OfElements
<1>11. ASSUME NEW m \in DOMAIN rows
       PROVE  \E n \in Group : \E j \in 1 .. Len(Labels) : rows[m] = TheRow(dname, config, n, j)
  <2>1. PICK i \in 1 .. c : \E j \in DOMAIN parts[i] : rows[m] = parts[i][j]
    BY <1>9
  <2>2. PICK j \in DOMAIN parts[i] : rows[m] = parts[i][j]
    BY <2>1
  <2> QED
    BY <1>5, <2>2
<1>12. ASSUME NEW n \in Group, NEW j \in 1 .. Len(Labels)
       PROVE  \E m \in DOMAIN rows : rows[m] = TheRow(dname, config, n, j)
  <2> DEFINE i == Rank(S, args[n].tss)
  <2>1. i \in 1 .. c /\ Nth(S, i) = args[n].tss
    BY <1>6
  <2> HIDE DEF i
  <2>2. PICK o \in Group : /\ Nth(S, i) = args[o].tss /\ DOMAIN parts[i] = 1 .. Len(Labels)
                           /\ \A h \in 1 .. Len(Labels) : parts[i][h] = TheRow(dname, config, o, h)
    BY <1>5, <2>1
  <2>3. parts[i][j] = TheRow(dname, config, n, j)
    BY <2>1, <2>2 DEF TheRow
  <2> QED
    BY <1>9, <2>1, <2>2, <2>3
<1>13. ASSUME mode # "saved", NEW l \in DOMAIN rows, NEW m \in DOMAIN rows,
              rows[l].tss = rows[m].tss, rows[l].label = rows[m].label
       PROVE  l = m
  <2>1. PICK g \in Group : \E i \in 1 .. Len(Labels) : rows[l] = TheRow(dname, config, g, i)
    BY <1>11
  <2>2. PICK i \in 1 .. Len(Labels) : rows[l] = TheRow(dname, config, g, i)
    BY <2>1
  <2>3. PICK n \in Group : \E j \in 1 .. Len(Labels) : rows[m] = TheRow(dname, config, n, j)
    BY <1>11
  <2>4. PICK j \in 1 .. Len(Labels) : rows[m] = TheRow(dname, config, n, j)
    BY <2>3
  <2>5. args[g].tss = args[n].tss /\ Labels[i] = Labels[j]
    BY <1>13, <2>2, <2>4, TheRowIs
  <2>6. rows[l] = rows[m]
    BY <2>2, <2>4, <2>5, LabelsOfArrays DEF TheRow
  <2> QED
    BY <1>8, <1>9, <1>13, <2>6
<1> QED
  BY <1>3, <1>10, <1>11, <1>12, <1>13

\* Where a run ends its files are reported, all files of it.
LEMMA EndOfRun ==
  ASSUME ControlInv, NEW e \in 1 .. Len(args),
         e = Len(args) \/ args[e + 1].wss # args[e].wss,
         NEW n \in 1 .. e, InRun(n, e)
  PROVE  /\ args[n].wss = args[e].wss
         /\ \A i \in 1 .. Len(args) : (InRun(i, n) \/ InRun(n, i)) <=> (i \in 1 .. e /\ InRun(i, e))
<1>0. Len(args) \in Nat /\ e \in Nat /\ n \in Nat /\ n <= e /\ e <= Len(args) /\ 1 <= n
  <2>1. Len(args) \in Nat
    BY ArgsAre
  <2> QED
    BY <2>1
<1>1. \A j \in n .. e : args[j].wss = args[e].wss
  BY DEF InRun
<1>2. args[n].wss = args[e].wss
  BY <1>0, <1>1
<1>4. ASSUME NEW i \in 1 .. Len(args), InRun(i, n) PROVE i \in 1 .. e /\ InRun(i, e)
  <2>1. i <= n /\ \A j \in i .. n : args[j].wss = args[n].wss
    BY <1>4 DEF InRun
  <2>2. \A j \in i .. e : j \in i .. n \/ j \in n .. e
    BY <1>0, <2>1
  <2> QED
    BY <1>0, <1>1, <1>2, <2>1, <2>2 DEF InRun
<1>5. ASSUME NEW i \in 1 .. Len(args), InRun(n, i) PROVE i \in 1 .. e /\ InRun(i, e)
  <2>1. n <= i /\ \A j \in n .. i : args[j].wss = args[i].wss
    BY <1>5 DEF InRun
  <2>2. i <= e
    <3> SUFFICES ASSUME i > e PROVE FALSE
      BY <1>0
    <3>1. e \in n .. i /\ e + 1 \in n .. i /\ e # Len(args)
      BY <1>0, <2>1
    <3> QED
      BY <2>1, <3>1
  <2>3. \A j \in i .. e : j \in n .. e
    BY <1>0, <2>1
  <2> QED
    BY <1>0, <1>1, <2>1, <2>2, <2>3 DEF InRun
<1>6. ASSUME NEW i \in 1 .. e, InRun(i, e) PROVE InRun(i, n) \/ InRun(n, i)
  <2>1. \A j \in i .. e : args[j].wss = args[e].wss
    BY <1>6 DEF InRun
  <2>2. i <= n \/ n <= i
    BY <1>0
  <2>3. CASE i <= n
    <3>1. \A j \in i .. n : j \in i .. e
      BY <1>0
    <3> QED
      BY <1>2, <2>1, <2>3, <3>1 DEF InRun
  <2>4. CASE n <= i
    <3>1. (\A j \in n .. i : j \in n .. e) /\ i \in n .. e
      BY <1>0, <2>4
    <3> QED
      BY <1>1, <2>4, <3>1 DEF InRun
  <2> QED
    BY <2>2, <2>3, <2>4
<1> QED
  BY <1>2, <1>4, <1>5, <1>6

\* The first members of a sequence are a prefix of it.
LEMMA Shortened ==
  ASSUME NEW D, NEW v \in Seq(D), NEW n \in Nat
  PROVE  LET m == IF n < Len(v) THEN n ELSE Len(v)
         IN  /\ IsPrefix(SubSeq(v, 1, m), v) /\ IsPrefix(v, v)
             /\ Len(SubSeq(v, 1, m)) = m
<1> DEFINE m == IF n < Len(v) THEN n ELSE Len(v)
           s == SubSeq(v, 1, m)
<1>1. Len(v) \in Nat /\ m \in Nat /\ m <= Len(v)
  OBVIOUS
<1> HIDE DEF m
<1>2. s \in Seq(D) /\ Len(s) = m /\ \A i \in 1 .. m : s[i] = v[i]
  BY <1>1, SubSeqProperties
<1>3. IsPrefix(s, v)
  <2> HIDE DEF s
  <2> QED
    BY <1>1, <1>2 DEF IsPrefix
<1>4. IsPrefix(v, v)
  BY <1>1 DEF IsPrefix
<1> QED
  BY <1>2, <1>3, <1>4 DEF m

LEMMA RowsAreOfFiles ==
  ASSUME ControlInv, GroupInv, CountInv, Distinct, Running, pc # "Collect", k <= Len(args),
         NEW e \in 1 .. Len(args), e = Len(args) \/ args[e + 1].wss # args[e].wss,
         Group = {m \in 1 .. e : InRun(m, e)}, NEW dname,
         NEW n \in Group, NEW j \in 1 .. Len(Labels)
  PROVE  RowOfFile(TheRow(dname, args[e], n, j), n)
<1> DEFINE row == TheRow(dname, args[e], n, j)
           label == Labels[j]
           v == FileVector(n, label)
<1>1. ListInv /\ n \in 1 .. Len(args) /\ Len(args) \in Nat /\ n \in 1 .. e /\ InRun(n, e)
  <2>1. Len(args) \in Nat
    BY ArgsAre
  <2>2. n \in 1 .. e /\ InRun(n, e)
    OBVIOUS
  <2>3. ListInv
    BY DEF GroupInv
  <2>4. n \in 1 .. Len(args)
    BY <2>1, <2>2
  <2> QED
    BY <2>1, <2>2, <2>3, <2>4
<1>a. \A o \in Group : o \in 1 .. Len(args)
  BY <1>1
<1>2. /\ args[n].wss = args[e].wss
      /\ \A i \in 1 .. Len(args) : (InRun(i, n) \/ InRun(n, i)) <=> i \in Group
  BY <1>1, EndOfRun
<1>3. /\ row.wss = args[e].wss /\ row.tss = args[n].tss
      /\ mode # "saved" => row.label = label /\ row.vector = Used(label, v)
  BY <1>1, TheRowIs
<1>4. label \in ToSet(Labels)
  BY LabelsOfArrays DEF ToSet
<1>5. v \in Seq(Int) /\ Samples(n, label) = Len(v) /\ Len(v) \in Nat
  BY <1>1, <1>4, VectorType DEF Samples
<1>6. limit \in Nat /\ mode \in {"raw", "autocap", "saved"}
  BY AnalyzerAssumption DEF ControlInv
<1>7. ASSUME mode = "autocap"
      PROVE  \E o \in Group : /\ \A l \in ToSet(Labels) : min_sample_tss[l] = Samples(o, l) /\ Samples(o, l) \in Nat
                              /\ \A m \in Group : Samples(o, "preemption") <= Samples(m, "preemption")
  <2>1. CountsOf(Group)
    BY <1>7, CountInvIs DEF Counted
  <2>2. PICK o : Smallest(o, Group)
    BY <2>1 DEF CountsOf
  <2>3. o \in Group /\ o \in 1 .. Len(args)
    BY <1>a, <2>2 DEF Smallest
  <2>4. \A l \in ToSet(Labels) : Samples(o, l) \in Nat
    BY <2>3, VectorType
  <2> QED
    BY <2>2, <2>3, <2>4 DEF Smallest
<1> HIDE DEF row, v, label, Group
<1>8. ASSUME mode # "saved" PROVE IsPrefix(row.vector, v)
  <2>1. CASE label = "preemption" /\ limit > 0
    <3>1. row.vector = SubSeq(v, 1, IF limit < Len(v) THEN limit ELSE Len(v))
      BY <1>3, <1>8, <2>1 DEF Used
    <3> QED
      BY <1>5, <1>6, <3>1, Shortened
  <2>2. CASE ~(label = "preemption" /\ limit > 0) /\ mode = "autocap"
    <3>1. PICK c \in Nat : min_sample_tss[label] = c
      BY <1>4, <1>7, <2>2
    <3>2. row.vector = SubSeq(v, 1, IF c < Len(v) THEN c ELSE Len(v))
      BY <1>3, <1>8, <2>2, <3>1 DEF Used
    <3> QED
      BY <1>5, <3>2, Shortened
  <2>3. CASE ~(label = "preemption" /\ limit > 0) /\ mode # "autocap"
    <3>1. row.vector = v
      BY <1>3, <1>8, <2>3 DEF Used
    <3>2. 0 \in Nat
      OBVIOUS
    <3> QED
      BY <1>5, <3>1, <3>2, Shortened
  <2> QED
    BY <2>1, <2>2, <2>3
<1>9. ASSUME mode = "raw", ~(limit > 0 /\ label = "preemption") PROVE row.vector = v
  BY <1>3, <1>9 DEF Used
<1>10. ASSUME mode = "autocap", limit = 0, label = "preemption"
       PROVE  \E o \in Group : /\ Len(row.vector) = Samples(o, "preemption")
                               /\ \A m \in Group : Samples(o, "preemption") <= Samples(m, "preemption")
  <2>1. PICK o \in Group : /\ min_sample_tss[label] = Samples(o, label) /\ Samples(o, label) \in Nat
                           /\ \A m \in Group : Samples(o, "preemption") <= Samples(m, "preemption")
    BY <1>4, <1>7, <1>10
  <2>2. row.vector = SubSeq(v, 1, IF Samples(o, label) < Len(v) THEN Samples(o, label) ELSE Len(v))
    BY <1>3, <1>10, <2>1 DEF Used
  <2>3. Len(row.vector) = IF Samples(o, label) < Len(v) THEN Samples(o, label) ELSE Len(v)
    BY <1>5, <2>1, <2>2, Shortened
  <2>4. Samples(o, label) <= Len(v)
    BY <1>5, <1>10, <2>1
  <2>5. Len(row.vector) = Samples(o, label)
    BY <1>5, <2>1, <2>3, <2>4
  <2> QED
    BY <1>10, <2>1, <2>5
<1>11. ASSUME mode = "autocap", limit = 0, label = "preemption"
       PROVE  \E i \in 1 .. Len(args) :
                /\ InRun(i, n) \/ InRun(n, i)
                /\ Len(row.vector) = Samples(i, "preemption")
                /\ \A m \in 1 .. Len(args) :
                     InRun(m, n) \/ InRun(n, m) => Samples(i, "preemption") <= Samples(m, "preemption")
  <2>1. PICK o \in Group : /\ Len(row.vector) = Samples(o, "preemption")
                           /\ \A m \in Group : Samples(o, "preemption") <= Samples(m, "preemption")
    BY <1>10, <1>11
  <2>2. o \in 1 .. Len(args)
    BY <1>a
  <2> QED
    BY <1>2, <2>1, <2>2
<1> QED
  BY <1>2, <1>3, <1>4, <1>8, <1>9, <1>11 DEF RowOfFile, row, v, label

-----------------------------------------------------------------------------
(* The rows written so far.                                                *)

\* A report is due: the group ends with the file before the current one, or
\* with the current one, the last.
Reporting(dname, config) ==
  /\ dname = conf.dir
  /\ \/ pc = "File" /\ NewGroup /\ config = last_conf
     \/ pc = "Last" /\ config = conf

LEMMA ReportOfFiles ==
  ASSUME ControlInv, GroupInv, CountInv, Distinct, k <= Len(args),
         NEW dname, NEW config, Reporting(dname, config)
  PROVE  /\ ListInv
         /\ \A n \in Group : config.wss = args[n].wss
         /\ \A n \in Group, j \in 1 .. Len(Labels) : RowOfFile(TheRow(dname, config, n, j), n)
<1>1. Len(args) \in Nat /\ k \in Nat /\ 1 <= k
  BY ArgsAre
<1>2. PICK e \in 1 .. Len(args) :
        /\ e = Len(args) \/ args[e + 1].wss # args[e].wss
        /\ Group = {m \in 1 .. e : InRun(m, e)}
        /\ config = args[e]
        /\ pc = "File" => e = k - 1
        /\ pc # "File" => e = k
  <2>1. CASE pc = "File"
    <3>1. NewGroup /\ config = last_conf /\ dname = args[k].dir
      BY <2>1 DEF Reporting, conf
    <3>2. k > 1 /\ args[k].wss # args[k - 1].wss
      BY <3>1, NewGroupIs
    <3>3. last_conf = args[k - 1]
      BY <3>2 DEF GroupInv
    <3>4. Group = {m \in 1 .. k - 1 : InRun(m, k - 1)}
      BY <1>1, <2>1 DEF Group
    <3>5. k - 1 \in 1 .. Len(args) /\ k - 1 # Len(args) /\ (k - 1) + 1 = k
      BY <1>1, <3>2
    <3> QED
      BY <2>1, <3>1, <3>2, <3>3, <3>4, <3>5
  <2>2. CASE pc = "Last"
    <3>1. config = args[k] /\ dname = args[k].dir /\ k = Len(args)
      BY <2>2 DEF Reporting, conf, GroupInv
    <3>2. Group = {m \in 1 .. k : InRun(m, k)}
      BY <1>1, <2>2 DEF Group
    <3> QED
      BY <1>1, <2>2, <3>1, <3>2
  <2> QED
    BY <2>1, <2>2 DEF Reporting
<1>3. Running /\ pc # "Collect" /\ ListInv
  BY DEF Reporting, Running, GroupInv
<1> HIDE DEF Group
<1>4. \A n \in Group : config.wss = args[n].wss
  BY <1>2, EndOfRun
<1>5. \A n \in Group, j \in 1 .. Len(Labels) : RowOfFile(TheRow(dname, config, n, j), n)
  BY <1>2, <1>3, RowsAreOfFiles
<1> QED
  BY <1>3, <1>4, <1>5

CsvInv == Distinct => csv \in Seq(ToSet(csv))

LEMMA RowStays ==
  ASSUME UNCHANGED <<args, coresL2, limit, mode>>
  PROVE  \A row, n : RowOfFile(row, n)' = RowOfFile(row, n)
  BY DEF RowOfFile, InRun, Samples, FileVector, Labels

LEMMA RowsKept ==
  ASSUME UNCHANGED <<args, coresL2, limit, mode, csv>>, CsvInv, RowInv
  PROVE  CsvInv' /\ RowInv'
<1>1. \A row, n : RowOfFile(row, n)' = RowOfFile(row, n)
  BY RowStays
<1>2. CsvInv'
  BY DEF CsvInv, Distinct
<1>3. RowInv'
  BY <1>1 DEF RowInv, Distinct
<1> QED
  BY <1>2, <1>3

LEMMA RowsAdded ==
  ASSUME UNCHANGED <<args, coresL2, limit, mode>>, CsvInv, RowInv, ControlInv, Distinct,
         NEW rows, rows \in Seq(ToSet(rows)), csv' = csv \o rows,
         \A m \in DOMAIN rows : \E n \in 1 .. Len(args) : RowOfFile(rows[m], n)
  PROVE  CsvInv' /\ RowInv'
<1> DEFINE D == ToSet(csv) \cup ToSet(rows)
<1>1. csv \in Seq(D) /\ rows \in Seq(D)
  <2>1. ToSet(csv) \subseteq D /\ ToSet(rows) \subseteq D
    OBVIOUS
  <2> HIDE DEF D
  <2> QED
    BY <2>1, SeqMonotonic DEF CsvInv
<1> HIDE DEF D
<1>2. /\ csv \o rows \in Seq(D)
      /\ DOMAIN csv = 1 .. Len(csv) /\ DOMAIN rows = 1 .. Len(rows)
      /\ \A m \in 1 .. Len(csv) : (csv \o rows)[m] = csv[m]
      /\ \A j \in 1 .. Len(rows) : (csv \o rows)[Len(csv) + j] = rows[j]
      /\ \A m \in DOMAIN (csv \o rows) :
           m \in 1 .. Len(csv) \/ \E j \in 1 .. Len(rows) : m = Len(csv) + j
  BY ONLY <1>1, Together, SMT
<1>3. CsvInv'
  <2>1. csv \o rows \in Seq(ToSet(csv \o rows))
    BY <1>2, OfElements
  <2> QED
    BY <2>1 DEF CsvInv
<1>4. ASSUME NEW m \in DOMAIN csv' PROVE \E n \in 1 .. Len(args) : RowOfFile(csv'[m], n)
  <2>1. CASE m \in 1 .. Len(csv)
    BY <1>2, <2>1 DEF RowInv
  <2>2. CASE \E j \in 1 .. Len(rows) : m = Len(csv) + j
    <3>1. PICK j \in 1 .. Len(rows) : m = Len(csv) + j
      BY <2>2
    <3>2. csv'[m] = rows[j] /\ j \in DOMAIN rows
      BY <1>2, <3>1
    <3> QED
      BY <3>2
  <2> QED
    BY <1>2, <2>1, <2>2
<1>5. \A row, n : RowOfFile(row, n)' = RowOfFile(row, n)
  BY RowStays
<1>6. RowInv'
  BY <1>4, <1>5 DEF RowInv, Distinct
<1> QED
  BY <1>3, <1>6

\* All rows of a report or only some of them, they are rows of files.
LEMMA RowsReported ==
  ASSUME ControlInv, GroupInv, CountInv, CsvInv, RowInv, UNCHANGED <<args, coresL2, limit, mode>>,
         Distinct, k <= Len(args), NEW dname, NEW config, Reporting(dname, config),
         NEW rows, NEW c \in Nat, c <= Len(Report(dname, config)),
         rows = SubSeq(Report(dname, config), 1, c), csv' = csv \o rows
  PROVE  CsvInv' /\ RowInv'
<1> DEFINE all == Report(dname, config)
<1>1. /\ all \in Seq(ToSet(all))
      /\ \A m \in DOMAIN all : \E n \in Group : \E j \in 1 .. Len(Labels) :
           all[m] = TheRow(dname, config, n, j)
  BY ReportOfFiles, ReportRows
<1>2. \A n \in Group, j \in 1 .. Len(Labels) : RowOfFile(TheRow(dname, config, n, j), n)
  BY ReportOfFiles
<1>3. Group \subseteq 1 .. Len(args)
  BY GroupIsRun, ArgsAre
<1> HIDE DEF all
<1>4. \A m \in DOMAIN all : \E n \in 1 .. Len(args) : RowOfFile(all[m], n)
  BY <1>1, <1>2, <1>3
<1>5. DOMAIN all = 1 .. Len(all) /\ Len(all) \in Nat
  BY <1>1, LenProperties
<1>6. /\ rows \in Seq(ToSet(all)) /\ Len(rows) = c
      /\ \A i \in 1 .. c : rows[i] = all[i]
  <2>1. c \in Nat /\ c <= Len(all) /\ rows = SubSeq(all, 1, c)
    BY DEF all
  <2>2. \A i \in 1 .. c : all[i] \in ToSet(all)
    BY <1>5, <2>1 DEF ToSet
  <2> DEFINE D == ToSet(all)
  <2>3. all \in Seq(D) /\ \A i \in 1 .. c : all[i] \in D
    BY <1>1, <2>2
  <2> HIDE DEF D
  <2>4. rows \in Seq(D) /\ Len(rows) = c /\ \A i \in 1 .. c : rows[i] = all[i]
    BY <2>1, <2>3
  <2> QED
    BY <2>4 DEF D
<1>7. rows \in Seq(ToSet(rows)) /\ DOMAIN rows = 1 .. c
  BY <1>6, OfElements
<1>8. \A m \in DOMAIN rows : m \in DOMAIN all
  <2>1. c <= Len(all)
    BY DEF all
  <2> QED
    BY <1>5, <1>7, <2>1
<1>9. \A m \in DOMAIN rows : \E n \in 1 .. Len(args) : RowOfFile(rows[m], n)
  BY <1>4, <1>6, <1>7, <1>8
<1> QED
  BY <1>7, <1>9, RowsAdded

\* Where the program reports, and what it writes.
LEMMA Reports ==
  ASSUME ControlInv, GroupInv, CountInv, Distinct, StartGroup \/ LastFile
  PROVE  /\ k <= Len(args)
         /\ \E dname, config : Reporting(dname, config) /\ csv' = csv \o Report(dname, config)
<1>1. CASE StartGroup
  <2>1. Reporting(conf.dir, last_conf)
    BY <1>1 DEF StartGroup, Reporting
  <2> QED
    BY <1>1, <2>1 DEF StartGroup
<1>2. CASE LastFile
  <2>1. Reporting(conf.dir, conf) /\ k <= Len(args)
    BY <1>2 DEF LastFile, Reporting, ControlInv, InFile
  <2> QED
    BY <1>2, <2>1 DEF LastFile
<1> QED
  BY <1>1, <1>2

LEMMA RowInit == Init => CsvInv /\ RowInv
<1> SUFFICES ASSUME Init PROVE CsvInv /\ RowInv
  OBVIOUS
<1>1. DOMAIN csv = {} /\ csv \in Seq(ToSet(csv))
  BY DEF Init
<1> QED
  BY <1>1 DEF CsvInv, RowInv

LEMMA RowStep ==
  ControlInv /\ GroupInv /\ CountInv /\ CsvInv /\ RowInv /\ [Next]_vars => CsvInv' /\ RowInv'
<1> SUFFICES ASSUME ControlInv, GroupInv, CountInv, CsvInv, RowInv, [Next]_vars, Distinct
             PROVE  CsvInv' /\ RowInv'
  <2>1. [Next]_vars => Distinct' = Distinct
    BY CommandStays, RunsStay
  <2> QED
    BY <2>1 DEF CsvInv, RowInv
<1>1. UNCHANGED <<args, coresL2, limit, mode>>
  BY CommandStays
<1>2. ASSUME csv' = csv PROVE CsvInv' /\ RowInv'
  BY <1>1, <1>2, RowsKept
<1>3. CASE StartGroup \/ LastFile
  <2>1. k <= Len(args)
    BY <1>3, Reports
  <2>2. PICK dname, config : Reporting(dname, config) /\ csv' = csv \o Report(dname, config)
    BY <1>3, Reports
  <2> DEFINE all == Report(dname, config)
  <2>3. all \in Seq(ToSet(all))
    BY <2>1, <2>2, ReportOfFiles, ReportRows
  <2>4. all = SubSeq(all, 1, Len(all)) /\ Len(all) \in Nat /\ Len(all) <= Len(all)
    <3> HIDE DEF all
    <3>1. Len(all) \in Nat
      BY <2>3, LenProperties
    <3> QED
      BY <2>3, <3>1, SubSeqFull
  <2> QED
    BY <1>1, <2>1, <2>2, <2>4, RowsReported
<1>4. CASE ReportFails
  <2>1. PICK dname, config : /\ Reporting(dname, config) /\ SomeOf(Report(dname, config))
                             /\ k <= Len(args)
    <3>1. CASE pc = "File"
      <4>1. Reporting(conf.dir, last_conf) /\ SomeOf(Report(conf.dir, last_conf)) /\ k <= Len(args)
        BY <1>4, <3>1 DEF ReportFails, Reporting, Raise
      <4> QED
        BY <4>1
    <3>2. CASE pc # "File"
      <4>1. Reporting(conf.dir, conf) /\ SomeOf(Report(conf.dir, conf)) /\ k <= Len(args)
        BY <1>4, <3>2 DEF ReportFails, Reporting, Raise, ControlInv, InFile
      <4> QED
        BY <4>1
    <3> QED
      BY <3>1, <3>2
  <2> DEFINE all == Report(dname, config)
  <2>2. PICK c \in 0 .. Len(all) - 1 : csv' = csv \o SubSeq(all, 1, c)
    BY <2>1 DEF SomeOf
  <2>3. Len(all) \in Nat
    <3>1. all \in Seq(ToSet(all))
      BY <2>1, ReportOfFiles, ReportRows
    <3> HIDE DEF all
    <3> QED
      BY <3>1, LenProperties
  <2>4. c \in Nat /\ c <= Len(all)
    <3> HIDE DEF all
    <3> QED
      BY <2>2, <2>3
  <2> QED
    BY <1>1, <2>1, <2>2, <2>4, RowsReported
<1>5. CASE KeepGroup \/ ListIsGone \/ AllDone
  BY <1>2, <1>5 DEF KeepGroup, ListIsGone, AllDone
<1>6. CASE Process
  BY <1>2, <1>6 DEF Process, LoadFile, LoadFileFails, GetArray, GetArrayFails, SaveVectors, AutocapFails,
                    SaveFails, ReadSaved, ReadSavedFails
<1>7. CASE NextFile
  BY <1>2, <1>7 DEF NextFile
<1>8. CASE UNCHANGED vars
  BY <1>2, <1>8 DEF vars
<1> QED
  BY <1>3, <1>4, <1>5, <1>6, <1>7, <1>8 DEF Next, Default, Ended

LEMMA RowsAlways ==
  Spec => [](ControlInv /\ ModuleInv /\ GroupInv /\ CountInv /\ CsvInv /\ RowInv)
<1> DEFINE Inv == ControlInv /\ ModuleInv /\ GroupInv /\ CountInv /\ CsvInv /\ RowInv
<1>1. Init => Inv
  BY ControlInit, ModuleInit, GroupInit, CountInit, RowInit
<1>2. Inv /\ [Next]_vars => Inv'
  BY ControlStep, ModuleStep, GroupStep, CountStep, RowStep
<1> QED
  BY <1>1, <1>2, PTL DEF Spec

\* Two files of one size and one number of tasks are one file.
LEMMA OneFile ==
  ASSUME ControlInv, Distinct, NEW m \in 1 .. Len(args), NEW n \in 1 .. Len(args),
         args[m].wss = args[n].wss, args[m].tss = args[n].tss
  PROVE  m = n
  BY ArgsAre DEF Distinct

LEMMA ReportStays ==
  ASSUME UNCHANGED <<args, coresL2, limit, mode, csv>>, Reported' = Reported, pc # "Raised", ReportInv
  PROVE  ReportInv'
<1>1. Labels' = Labels /\ \A row, n, label : RowFor(row, n, label)' = RowFor(row, n, label)
  BY OvdsStay DEF RowFor
<1> QED
  BY <1>1 DEF ReportInv, Distinct

\* A report adds the rows of the group to those of the files before it.
LEMMA ReportGrown ==
  ASSUME ControlInv, GroupInv, CountInv, CsvInv, ReportInv, Distinct, k <= Len(args),
         pc # "Raised", UNCHANGED <<args, coresL2, limit, mode>>,
         NEW dname, NEW config, Reporting(dname, config), csv' = csv \o Report(dname, config),
         Reported' = Reported \cup Group
  PROVE  ReportInv'
<1> DEFINE rows == Report(dname, config)
           D == ToSet(csv) \cup ToSet(rows)
           RowAt(m, n, j) == RowFor(csv'[m], n, Labels[j])
<1>1. ListInv /\ \A n \in Group : config.wss = args[n].wss
  BY ReportOfFiles
<1>2. /\ rows \in Seq(ToSet(rows))
      /\ \A m \in DOMAIN rows : \E n \in Group : \E j \in 1 .. Len(Labels) :
           rows[m] = TheRow(dname, config, n, j)
      /\ \A n \in Group, j \in 1 .. Len(Labels) : \E m \in DOMAIN rows :
           rows[m] = TheRow(dname, config, n, j)
      /\ mode # "saved" =>
           \A l, m \in DOMAIN rows :
             rows[l].tss = rows[m].tss /\ rows[l].label = rows[m].label => l = m
  BY <1>1, ReportRows
<1>3. /\ Group \subseteq 1 .. Len(args) /\ Reported \subseteq 1 .. Len(args)
      /\ \A n \in Reported : n \notin Group
  BY GroupIsRun, ArgsAre DEF Reported
<1>4. ASSUME NEW n \in Group, NEW j \in 1 .. Len(Labels)
      PROVE  LET row == TheRow(dname, config, n, j)
             IN  /\ row.wss = args[n].wss /\ row.tss = args[n].tss
                 /\ mode # "saved" => row.label = Labels[j]
  BY <1>1, TheRowIs
<1> HIDE DEF rows
<1>5. csv \in Seq(D) /\ rows \in Seq(D)
  <2>1. ToSet(csv) \subseteq D /\ ToSet(rows) \subseteq D
    OBVIOUS
  <2> HIDE DEF D
  <2> QED
    BY <1>2, <2>1, SeqMonotonic DEF CsvInv
<1> HIDE DEF D
<1>6. /\ DOMAIN csv = 1 .. Len(csv) /\ DOMAIN rows = 1 .. Len(rows)
      /\ Len(csv) \in Nat /\ Len(rows) \in Nat
      /\ DOMAIN (csv \o rows) = 1 .. Len(csv) + Len(rows)
      /\ \A m \in 1 .. Len(csv) : (csv \o rows)[m] = csv[m]
      /\ \A j \in 1 .. Len(rows) : (csv \o rows)[Len(csv) + j] = rows[j]
      /\ \A m \in DOMAIN (csv \o rows) :
           m \in 1 .. Len(csv) \/ \E j \in 1 .. Len(rows) : m = Len(csv) + j
  BY <1>5, Together
<1>7. csv' = csv \o rows
  BY DEF rows
<1> DEFINE Old(m) == m \in DOMAIN csv /\ csv'[m] = csv[m]
           New(m) == \E j \in DOMAIN rows : m = Len(csv) + j /\ csv'[m] = rows[j]
<1>8. \A m \in DOMAIN csv' : Old(m) \/ New(m)
  BY <1>6, <1>7
<1>9. /\ \A m \in DOMAIN csv : m \in DOMAIN csv' /\ Old(m)
      /\ \A j \in DOMAIN rows : Len(csv) + j \in DOMAIN csv' /\ csv'[Len(csv) + j] = rows[j]
  BY <1>6, <1>7
\* The old rows are of files reported before, the new ones of the group.
<1>10. ASSUME NEW m, Old(m)
       PROVE  \E n \in Reported : csv'[m].wss = args[n].wss /\ csv'[m].tss = args[n].tss
  BY <1>10 DEF ReportInv
<1>11. ASSUME NEW m, New(m)
       PROVE  \E n \in Group : csv'[m].wss = args[n].wss /\ csv'[m].tss = args[n].tss
  <2>1. PICK i \in DOMAIN rows : csv'[m] = rows[i]
    BY <1>11
  <2>2. PICK n \in Group : \E j \in 1 .. Len(Labels) : rows[i] = TheRow(dname, config, n, j)
    BY <1>2
  <2> QED
    BY <1>4, <2>1, <2>2
<1>12. ASSUME NEW m, NEW n \in Reported, NEW j, RowAt(m, n, j) PROVE ~New(m)
  <2> SUFFICES ASSUME New(m) PROVE FALSE
    OBVIOUS
  <2>1. PICK o \in Group : csv'[m].wss = args[o].wss /\ csv'[m].tss = args[o].tss
    BY <1>11
  <2>2. o = n
    BY <1>3, <1>12, <2>1, OneFile DEF RowFor
  <2> QED
    BY <1>3, <2>2
<1>13. ASSUME NEW m, NEW n \in Group, NEW j, RowAt(m, n, j) PROVE ~Old(m)
  <2> SUFFICES ASSUME Old(m) PROVE FALSE
    OBVIOUS
  <2>1. PICK o \in Reported : csv'[m].wss = args[o].wss /\ csv'[m].tss = args[o].tss
    BY <1>10
  <2>2. o = n
    BY <1>3, <1>13, <2>1, OneFile DEF RowFor
  <2> QED
    BY <1>3, <2>2
<1>14. ASSUME NEW m \in DOMAIN csv'
       PROVE  \E n \in Reported \cup Group : csv'[m].wss = args[n].wss /\ csv'[m].tss = args[n].tss
  <2>1. CASE Old(m)
    <3>1. PICK n \in Reported : csv'[m].wss = args[n].wss /\ csv'[m].tss = args[n].tss
      BY <1>10, <2>1
    <3>2. n \in Reported \cup Group
      BY <3>1
    <3> QED
      BY <3>1, <3>2
  <2>2. CASE New(m)
    <3>1. PICK n \in Group : csv'[m].wss = args[n].wss /\ csv'[m].tss = args[n].tss
      BY <1>11, <2>2
    <3>2. n \in Reported \cup Group
      BY <3>1
    <3> QED
      BY <3>1, <3>2
  <2> HIDE DEF Old, New
  <2> QED
    BY <1>8, <2>1, <2>2
<1>15. ASSUME mode # "saved", NEW n \in Reported, NEW j \in 1 .. Len(Labels)
       PROVE  /\ \E m \in DOMAIN csv' : RowAt(m, n, j)
              /\ \A l, m \in DOMAIN csv' : RowAt(l, n, j) /\ RowAt(m, n, j) => l = m
  <2>1. /\ \E m \in DOMAIN csv : RowFor(csv[m], n, Labels[j])
        /\ \A l, m \in DOMAIN csv :
             RowFor(csv[l], n, Labels[j]) /\ RowFor(csv[m], n, Labels[j]) => l = m
    BY <1>15 DEF ReportInv
  <2>2. \E m \in DOMAIN csv' : RowAt(m, n, j)
    BY <1>9, <2>1
  <2>3. ASSUME NEW l \in DOMAIN csv', NEW m \in DOMAIN csv', RowAt(l, n, j), RowAt(m, n, j) PROVE l = m
    <3>1. Old(l) /\ Old(m)
      BY <1>8, <1>12, <2>3
    <3> QED
      BY <2>1, <2>3, <3>1
  <2> QED
    BY <2>2, <2>3
<1>16. ASSUME mode # "saved", NEW n \in Group, NEW j \in 1 .. Len(Labels)
       PROVE  /\ \E m \in DOMAIN csv' : RowAt(m, n, j)
              /\ \A l, m \in DOMAIN csv' : RowAt(l, n, j) /\ RowAt(m, n, j) => l = m
  <2>1. PICK i \in DOMAIN rows : rows[i] = TheRow(dname, config, n, j)
    BY <1>2
  <2>2. RowAt(Len(csv) + i, n, j)
    BY <1>4, <1>9, <1>16, <2>1 DEF RowFor
  <2>3. ASSUME NEW l \in DOMAIN csv', NEW m \in DOMAIN csv', RowAt(l, n, j), RowAt(m, n, j) PROVE l = m
    <3>1. New(l) /\ New(m)
      BY <1>8, <1>13, <2>3
    <3>2. PICK g \in DOMAIN rows, h \in DOMAIN rows :
            /\ l = Len(csv) + g /\ csv'[l] = rows[g]
            /\ m = Len(csv) + h /\ csv'[m] = rows[h]
      BY <3>1
    <3>3. rows[g].tss = rows[h].tss /\ rows[g].label = rows[h].label
      BY <2>3, <3>2 DEF RowFor
    <3>4. g = h
      BY <1>2, <1>16, <3>3
    <3> QED
      BY <3>2, <3>4
  <2> QED
    BY <1>9, <2>1, <2>2, <2>3
<1>17. ASSUME mode # "saved", NEW n \in Reported \cup Group, NEW j \in 1 .. Len(Labels)
       PROVE  /\ \E m \in DOMAIN csv' : RowAt(m, n, j)
              /\ \A l, m \in DOMAIN csv' : RowAt(l, n, j) /\ RowAt(m, n, j) => l = m
  <2> HIDE DEF RowAt
  <2>1. n \in Reported \/ n \in Group
    OBVIOUS
  <2> QED
    BY <1>15, <1>16, <1>17, <2>1
<1> HIDE DEF Old, New
<1>18. /\ Labels' = Labels /\ args' = args /\ mode' = mode /\ Distinct' = Distinct
       /\ Reported' = Reported \cup Group
  BY OvdsStay DEF Distinct
<1>19. \A m \in DOMAIN csv' : \E n \in Reported' : csv'[m].wss = args'[n].wss /\ csv'[m].tss = args'[n].tss
  BY <1>14, <1>18
<1>20. ASSUME mode' # "saved", NEW n \in Reported', NEW j \in 1 .. Len(Labels')
       PROVE  /\ \E m \in DOMAIN csv' : RowFor(csv[m], n, Labels[j])'
              /\ \A l, m \in DOMAIN csv' :
                   RowFor(csv[l], n, Labels[j])' /\ RowFor(csv[m], n, Labels[j])' => l = m
  <2>1. n \in Reported \cup Group /\ j \in 1 .. Len(Labels) /\ mode # "saved"
    BY <1>18, <1>20
  <2>2. /\ \E m \in DOMAIN csv' : RowAt(m, n, j)
        /\ \A l, m \in DOMAIN csv' : RowAt(l, n, j) /\ RowAt(m, n, j) => l = m
    BY <1>17, <2>1
  <2>3. \A m \in DOMAIN csv' : RowFor(csv[m], n, Labels[j])' <=> RowAt(m, n, j)
    BY <1>18 DEF RowFor
  <2> HIDE DEF RowAt
  <2> QED
    BY <2>2, <2>3
<1> QED
  BY <1>19, <1>20 DEF ReportInv

LEMMA ReportInit == Init => ReportInv
<1> SUFFICES ASSUME Init PROVE ReportInv
  OBVIOUS
<1>1. DOMAIN csv = {} /\ Reported = {}
  BY DEF Init, Reported
<1> QED
  BY <1>1 DEF ReportInv

LEMMA ReportStep ==
  ControlInv /\ ModuleInv /\ GroupInv /\ CountInv /\ CsvInv /\ ReportInv /\ [Next]_vars => ReportInv'
<1> SUFFICES ASSUME ControlInv, ModuleInv, GroupInv, CountInv, CsvInv, ReportInv, [Next]_vars,
                    Distinct, pc' # "Raised"
             PROVE  ReportInv'
  <2>1. [Next]_vars => Distinct' = Distinct
    BY CommandStays, RunsStay
  <2> QED
    BY <2>1 DEF ReportInv
<1>1. UNCHANGED <<args, coresL2, limit, mode>> /\ Len(args) \in Nat /\ k \in Nat /\ 1 <= k
  BY CommandStays, ArgsAre
<1>2. ASSUME csv' = csv, k' = k, Group' = Group, pc # "Raised" PROVE ReportInv'
  <2>1. Reported' = Reported
    BY <1>2 DEF Reported
  <2> QED
    BY <1>1, <1>2, <2>1, ReportStays
<1>3. CASE KeepGroup
  BY <1>2, <1>3, GroupKept DEF KeepGroup
<1>4. CASE StartGroup
  <2>1. Group' = {} /\ pc = "File" /\ k' = k /\ k <= Len(args)
    BY <1>4, GroupStarted DEF StartGroup
  <2>2. Group \subseteq 1 .. k - 1
    BY <2>1, GroupIsRun
  <2>3. Reported' = Reported \cup Group
    <3> HIDE DEF Group
    <3> QED
      BY <2>1, <2>2 DEF Reported
  <2>4. PICK dname, config : Reporting(dname, config) /\ csv' = csv \o Report(dname, config)
    BY <1>4, Reports
  <2> QED
    BY <1>1, <2>1, <2>3, <2>4, ReportGrown
<1>5. CASE LastFile
  <2>1. pc = "Last" /\ k = Len(args) /\ k' = k + 1
    BY <1>5 DEF LastFile, GroupInv
  <2>2. Group' = {}
    BY <1>1, <2>1 DEF Group
  <2>3. Group \subseteq 1 .. k /\ k \in Group
    <3>1. Group = {m \in 1 .. k : InRun(m, k)}
      BY <1>1, <2>1 DEF Group
    <3>2. InRun(k, k)
      BY <1>1, <2>1, Runs
    <3> QED
      BY <1>1, <3>1, <3>2
  <2>4. Reported' = Reported \cup Group
    <3>1. (k + 1) - 1 = k /\ 1 .. k = (1 .. k - 1) \cup {k}
      BY <1>1
    <3> HIDE DEF Group
    <3> QED
      BY <2>1, <2>2, <2>3, <3>1 DEF Reported
  <2>5. PICK dname, config : Reporting(dname, config) /\ csv' = csv \o Report(dname, config)
    BY <1>5, Reports
  <2> QED
    BY <1>1, <2>1, <2>4, <2>5, ReportGrown
<1>6. CASE AllDone
  <2>1. Group = {} /\ Group' = {}
    BY <1>1, <1>6 DEF AllDone, Group
  <2> QED
    BY <1>2, <1>6, <2>1 DEF AllDone
<1>7. CASE ListIsGone \/ ReportFails \/ LoadFileFails \/ AutocapFails \/ SaveFails \/ ReadSavedFails
  BY <1>7 DEF ListIsGone, ReportFails, LoadFileFails, AutocapFails, SaveFails, ReadSavedFails, Raise
<1>8. CASE LoadFile \/ GetArray \/ SaveVectors \/ ReadSaved
  <2>1. k' = k /\ csv' = csv /\ {pc, pc'} \subseteq {"Process", "Get", "Collect"}
    BY <1>8 DEF LoadFile, GetArray, SaveVectors, ReadSaved, Fetched
  <2> QED
    BY <1>1, <1>2, <2>1, GroupStays
<1>9. CASE NextFile
  <2>1. Group' = Group \cup {k} /\ csv' = csv /\ pc = "Collect" /\ (k' = k \/ k' = k + 1)
    BY <1>9, GroupGrown DEF NextFile
  <2>2. Group \subseteq 1 .. k - 1
    <3>1. Group = {m \in 1 .. k - 1 : InRun(m, k)}
      BY <2>1 DEF Group, ControlInv, InFile
    <3> QED
      BY <3>1
  <2>3. Reported' = Reported
    <3>1. (k + 1) - 1 = k /\ 1 .. k = (1 .. k - 1) \cup {k} /\ k \notin 1 .. k - 1
      BY <1>1
    <3> HIDE DEF Group
    <3> QED
      BY <2>1, <2>2, <3>1 DEF Reported
  <2> QED
    BY <1>1, <2>1, <2>3, ReportStays
<1>10. CASE UNCHANGED vars
  <2>1. k' = k /\ pc' = pc /\ csv' = csv
    BY <1>10 DEF vars
  <2> QED
    BY <1>1, <1>2, <2>1, GroupStays
<1>11. CASE GetArrayFails
  <2>1. CASE Raise("Get")
    BY <2>1 DEF Raise
  <2>2. CASE UNCHANGED <<k, pc>>
    <3>1. pc = "Get" /\ csv' = csv
      BY <1>11, FailCases
    <3> QED
      BY <1>1, <1>2, <2>2, <3>1, GroupStays
  <2> QED
    BY <1>11, <2>1, <2>2, FailCases
<1> QED
  BY <1>3, <1>4, <1>5, <1>6, <1>7, <1>8, <1>9, <1>10, <1>11 DEF Next, Default, Process, Ended

-----------------------------------------------------------------------------
(* The reports.                                                            *)

LEMMA FileOfRow ==
  ASSUME ControlInv, Distinct, RowInv, NEW m \in DOMAIN csv
  PROVE  \E n \in 1 .. Len(args) : RowOfFile(csv[m], n) /\ FilesFor(csv[m]) = {n}
<1>1. PICK n \in 1 .. Len(args) : RowOfFile(csv[m], n)
  BY DEF RowInv
<1>2. \A o \in FilesFor(csv[m]) : o = n
  BY <1>1, ArgsAre, OneFile DEF FilesFor, RowOfFile
<1>3. n \in FilesFor(csv[m])
  BY <1>1, ArgsAre DEF FilesFor, RowOfFile
<1> QED
  BY <1>1, <1>2, <1>3

\* Whatever ends the program, every row written is computed from the samples
\* of the one file its wss and tss name, at its level: from all of them, or
\* from the first few (pm_data_analyzer.py:226-265, 340-383).
THEOREM RowsSound == Spec => []RowsAreSound
<1>1. ControlInv /\ RowInv => RowsAreSound
  <2> SUFFICES ASSUME ControlInv, RowInv, Distinct, mode # "saved", NEW m \in DOMAIN csv
               PROVE  /\ Cardinality(FilesFor(csv[m])) = 1
                      /\ \A n \in FilesFor(csv[m]) :
                           /\ IsPrefix(csv[m].vector, VectorOf(args[n], csv[m].label))
                           /\ mode = "raw" /\ ~(limit > 0 /\ csv[m].label = "preemption") =>
                                csv[m].vector = VectorOf(args[n], csv[m].label)
    BY DEF RowsAreSound
  <2>1. PICK n \in 1 .. Len(args) : RowOfFile(csv[m], n) /\ FilesFor(csv[m]) = {n}
    BY FileOfRow
  <2>2. Cardinality({n}) = 1
    BY FS_Singleton
  <2>3. /\ csv[m].label \in ToSet(Labels)
        /\ IsPrefix(csv[m].vector, FileVector(n, csv[m].label))
        /\ mode = "raw" /\ ~(limit > 0 /\ csv[m].label = "preemption") =>
             csv[m].vector = FileVector(n, csv[m].label)
    BY <2>1 DEF RowOfFile
  <2>4. FileVector(n, csv[m].label) = VectorOf(args[n], csv[m].label)
    BY <2>3, VectorIsOfLevel
  <2> QED
    BY <2>1, <2>2, <2>3, <2>4
<1> QED
  BY <1>1, RowsAlways, PTL

\* Every file named once has one row of every label when the program comes to
\* its end, first and last files and groups of one file included; and the
\* list deleted behind the last file is not missed
\* (pm_data_analyzer.py:330-383).
THEOREM EveryFileReported == Spec => []EveryFileIsReported
<1> DEFINE Inv == ControlInv /\ ModuleInv /\ GroupInv /\ CountInv /\ CsvInv /\ ReportInv
<1>1. Init => Inv
  BY ControlInit, ModuleInit, GroupInit, CountInit, RowInit, ReportInit
<1>2. Inv /\ RowInv /\ [Next]_vars => Inv'
  BY ControlStep, ModuleStep, GroupStep, CountStep, RowStep, ReportStep
<1>3. Inv => EveryFileIsReported
  <2> SUFFICES ASSUME Inv, Distinct PROVE EveryFileIsReported
    BY DEF EveryFileIsReported
  <2>1. ASSUME pc = "Done", mode # "saved", NEW n \in DOMAIN args, NEW label \in ToSet(Labels)
        PROVE  Cardinality({m \in DOMAIN csv : /\ csv[m].wss = args[n].wss
                                               /\ csv[m].tss = args[n].tss
                                               /\ csv[m].label = label}) = 1
    <3>1. k = Len(args) + 1 /\ Len(args) \in Nat /\ n \in 1 .. Len(args)
      BY <2>1, ArgsAre DEF ControlInv
    <3>2. Group = {} /\ (Len(args) + 1) - 1 = Len(args)
      BY <3>1 DEF Group
    <3>3. n \in Reported
      <4> HIDE DEF Group
      <4> QED
        BY <3>1, <3>2 DEF Reported
    <3>4. PICK j \in 1 .. Len(Labels) : label = Labels[j]
      BY LabelsOfArrays DEF ToSet
    <3>5. PICK m \in DOMAIN csv : RowFor(csv[m], n, label)
      BY <2>1, <3>3, <3>4 DEF ReportInv
    <3>6. \A l \in DOMAIN csv : RowFor(csv[l], n, label) => l = m
      BY <2>1, <3>3, <3>4, <3>5 DEF ReportInv
    <3>7. {l \in DOMAIN csv : /\ csv[l].wss = args[n].wss
                              /\ csv[l].tss = args[n].tss
                              /\ csv[l].label = label} = {m}
      BY <3>5, <3>6 DEF RowFor
    <3> QED
      BY <3>7, FS_Singleton
  <2>2. k <= Len(args) => "valid_ovds_list" \in kept
    BY DEF GroupInv
  <2> QED
    BY <2>1, <2>2 DEF EveryFileIsReported
<1> QED
  BY <1>1, <1>2, <1>3, RowsAlways, PTL DEF Spec

\* With --autocap the preemption rows of one size are computed from as many
\* samples as its smallest file has (pm_data_analyzer.py:45, 192-208,
\* 258-263).
THEOREM AutocapEven == Spec => []AutocapIsEven
<1>1. ControlInv /\ RowInv => AutocapIsEven
  <2> SUFFICES ASSUME ControlInv, RowInv, mode = "autocap", limit = 0, Distinct, GroupedBySize,
                      NEW m \in DOMAIN csv, csv[m].label = "preemption"
               PROVE  LET counts == {Len(VectorOf(args[n], "preemption")) :
                                       n \in {j \in DOMAIN args : args[j].wss = csv[m].wss}}
                      IN  /\ Len(csv[m].vector) \in counts
                          /\ \A c \in counts : Len(csv[m].vector) <= c
    BY DEF AutocapIsEven
  <2> DEFINE files == {j \in DOMAIN args : args[j].wss = csv[m].wss}
  <2>1. PICK n \in 1 .. Len(args) : RowOfFile(csv[m], n)
    BY FileOfRow
  <2>2. PICK i \in 1 .. Len(args) :
          /\ InRun(i, n) \/ InRun(n, i)
          /\ Len(csv[m].vector) = Samples(i, "preemption")
          /\ \A j \in 1 .. Len(args) :
               InRun(j, n) \/ InRun(n, j) => Samples(i, "preemption") <= Samples(j, "preemption")
    BY <2>1 DEF RowOfFile
  <2>3. Len(args) \in Nat /\ DOMAIN args = 1 .. Len(args) /\ args[n].wss = csv[m].wss
    BY <2>1, ArgsAre DEF RowOfFile
  <2>4. \A j \in files : j \in 1 .. Len(args) /\ (InRun(j, n) \/ InRun(n, j))
    <3> SUFFICES ASSUME NEW j \in files PROVE InRun(j, n) \/ InRun(n, j)
      BY <2>3
    <3>1. j \in DOMAIN args /\ n \in DOMAIN args /\ args[j].wss = args[n].wss /\ (j <= n \/ n <= j)
      BY <2>3
    <3> QED
      BY <3>1 DEF InRun, GroupedBySize
  <2>5. i \in files
    <3>1. i \in DOMAIN args
      BY <2>2, <2>3 DEF InRun
    <3>2. args[i].wss = args[n].wss
      <4>1. CASE InRun(i, n)
        <5>1. i \in i .. n
          BY <2>3, <4>1 DEF InRun
        <5> QED
          BY <4>1, <5>1 DEF InRun
      <4>2. CASE InRun(n, i)
        <5>1. n \in n .. i
          BY <2>3, <4>2 DEF InRun
        <5> QED
          BY <4>2, <5>1 DEF InRun
      <4> QED
        BY <2>2, <4>1, <4>2
    <3> QED
      BY <2>3, <3>1, <3>2
  <2>6. \A j \in files : Samples(j, "preemption") = Len(VectorOf(args[j], "preemption"))
    BY <2>3, VectorIsOfLevel, PreemptionIsLabel DEF Samples
  <2> HIDE DEF files
  <2>7. /\ Len(csv[m].vector) = Len(VectorOf(args[i], "preemption"))
        /\ \A j \in files : Len(csv[m].vector) <= Len(VectorOf(args[j], "preemption"))
    BY <2>2, <2>4, <2>5, <2>6
  <2> QED
    BY <2>5, <2>7 DEF files
<1> QED
  BY <1>1, RowsAlways, PTL
=============================================================================

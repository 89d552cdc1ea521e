----------------------------- MODULE RoughStats -----------------------------
(***************************************************************************)
(* The statistics get_valid_ovd() of bin/pm_common.c prints: it collects   *)
(* the times of the valid accesses of each kind during its scan and        *)
(* print_rough_stats() runs over each vector once.  Floating-point numbers *)
(* are exact fractions here; the square root and the division that follow  *)
(* the loop are left out.                                                  *)
(***************************************************************************)
EXTENDS ValidOvd, Ranking, SequencesExt, FiniteSetsExt

\* The times in valid_c_samples, valid_h_samples or valid_p_samples after
\* the first n samples.
Collected(type, n) ==
  LET valid == {k \in 1 .. n : samples[k].access_type = type}
  IN  [k \in 1 .. Cardinality(valid) |-> samples[Nth(valid, k)].access_time]

-----------------------------------------------------------------------------
(* Fractions with a positive denominator.                                  *)

Frac(n, d) ==
  LET g == Max({k \in 1 .. d : d % k = 0 /\ n % k = 0})
  IN  [num |-> n \div g, den |-> d \div g]
Plus(a, b) == Frac(a.num * b.den + b.num * a.den, a.den * b.den)
Minus(a, b) == Frac(a.num * b.den - b.num * a.den, a.den * b.den)
Product(a, b) == Frac(a.num * b.num, a.den * b.den)
Over(a, n) == Frac(a.num, a.den * n)
Whole(n) == [num |-> n, den |-> 1]

-----------------------------------------------------------------------------
(* print_rough_stats()                                                     *)

\* The arrays are cleared when they are allocated.
First(vector) == IF vector = <<>> THEN 0 ELSE vector[1]

\* Mutant of Step: the new mean is used where the old one should be.
StepLate(acc, n, value) ==
  LET mi == Plus(acc.mi, Over(Minus(Whole(value), acc.mi), n + 1))
      num_diff == Minus(Whole(value), mi)
  IN  [min |-> Smaller(acc.min, value),
       max |-> IF value > acc.max THEN value ELSE acc.max,
       mi |-> mi,
       qi |-> Plus(acc.qi, Over(Product(Whole(n), Product(num_diff, num_diff)), n + 1))]

\* One round of the loop, for vector[i].
Step(acc, n, value) ==
  LET num_diff == Minus(Whole(value), acc.mi)
  IN  [min |-> Smaller(acc.min, value),
       max |-> IF value > acc.max THEN value ELSE acc.max,
       mi |-> Plus(acc.mi, Over(num_diff, n + 1)),
       qi |-> Plus(acc.qi, Over(Product(Whole(n), Product(num_diff, num_diff)), n + 1))]

\* The loop's variables when it has seen the first n values.  For n values to
\* see there must be more: the loop, for (i = 1; i < (samples - 1); i++), ends
\* before the last one.
Seen(vector, n) ==
  LET stats[k \in 0 .. n - 1] ==
        IF k = 0 THEN [min |-> First(vector), max |-> First(vector),
                       mi |-> Whole(First(vector)), qi |-> Whole(0)]
        ELSE Step(stats[k - 1], k, vector[k + 1])
  IN  stats[n - 1]

-----------------------------------------------------------------------------
(* Properties.                                                             *)

Printed == pc = "Done" /\ result >= 0

\* The loop never knows the mean it takes the squared distances to
\* (lines 198-206).  Even so, whenever it has seen n values its variables are
\* their least, their greatest and their mean, and qi is the sum of their
\* squared distances to that mean.  This says nothing of the last value,
\* which the loop does not see although "samples is the size of the
\* population" (line 179): what is printed is not about the whole vector.
OnePassIsRight ==
  Printed =>
    \A type \in {"C", "H", "P"} :
      LET vector == Collected(type, num_samples) IN
      \A n \in 1 .. Len(vector) - 1 :
        LET seen == Seen(vector, n)
            counted == SubSeq(vector, 1, n)
            sum[k \in 0 .. n] == IF k = 0 THEN 0 ELSE sum[k - 1] + counted[k]
            mean == Frac(sum[n], n)
            Squared(x) == Product(Minus(Whole(x), mean), Minus(Whole(x), mean))
            squares[k \in 0 .. n] ==
              IF k = 0 THEN Whole(0) ELSE Plus(squares[k - 1], Squared(counted[k]))
        IN  /\ seen.min = Min({counted[k] : k \in 1 .. n})
            /\ seen.max = Max({counted[k] : k \in 1 .. n})
            /\ seen.mi = mean
            /\ seen.qi = squares[n]
=============================================================================

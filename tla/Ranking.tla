------------------------------- MODULE Ranking -------------------------------
(***************************************************************************)
(* The members of a finite set of numbers, counted from the smallest, and  *)
(* the elements of a sequence of numbers likewise.                         *)
(***************************************************************************)
EXTENDS Integers, FiniteSets, Sequences

Rank(S, x) == Cardinality({y \in S : y <= x})
Nth(S, n) == CHOOSE x \in S : Rank(S, x) = n

\* The elements of s, sorted: an element comes behind the smaller ones and
\* behind its equals that come before it in s.
Place(s, n) == Cardinality({m \in DOMAIN s : s[m] < s[n] \/ (s[m] = s[n] /\ m <= n)})
Ascending(s) == SubSeq([k \in DOMAIN s |-> s[CHOOSE n \in DOMAIN s : Place(s, n) = k]], 1, Len(s))
=============================================================================

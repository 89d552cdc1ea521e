------------------------------ MODULE LruCache ------------------------------
(***************************************************************************)
(* A cache with least-recently-used replacement: the sequence of what it   *)
(* holds, the most recently used first, in room for so many.               *)
(***************************************************************************)
EXTENDS Ranking, Sequences

Capped(held, room) == SubSeq(held, 1, IF Len(held) < room THEN Len(held) ELSE room)

\* What it holds outside W, in its order.
Without(held, W) ==
  LET ks == {k \in DOMAIN held : held[k] \notin W}
  IN  [n \in 1 .. Cardinality(ks) |-> held[Nth(ks, n)]]

\* The cache after the words were touched, the last one of them first.
AfterTouching(held, room, words) ==
  Capped(words \o Without(held, {words[k] : k \in DOMAIN words}), room)

\* When the words of a set were touched before it, w still hits if together
\* with those in front of it they leave room.
Hits(held, room, before, w) ==
  \E p \in 1 .. Len(held) :
    /\ held[p] = w
    /\ p + Cardinality(before \ {held[q] : q \in 1 .. p - 1}) <= room
=============================================================================

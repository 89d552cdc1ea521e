-------------------------------- MODULE Arena --------------------------------
(***************************************************************************)
(* The static memory arena of bin/cache_cost.c, as its callers see it: it  *)
(* is reset, and then handed out piece by piece, wrapping to its beginning *)
(* when the rest is too small.  A process asks for pieces of one size      *)
(* only, its working set size.                                             *)
(*                                                                         *)
(* Bound: only working sets whose number of words is an int are modelled.  *)
(* For 8 GiB and more the product in size overflows (cache_cost.c:118).    *)
(***************************************************************************)
EXTENDS Integers

CONSTANTS
  ARENA_SIZE,   \* words in the arena
  Sizes,        \* working set sizes, in words
  INT_MAX

ASSUME ArenaAssumption ==
  /\ INT_MAX \in Nat
  /\ ARENA_SIZE \in 1 .. INT_MAX
  /\ Sizes \subseteq 1 .. INT_MAX

VARIABLES
  size,        \* wss * INTS_IN_1KB
  arena_pos,   \* the first word not handed out since the last wrap
  mem,         \* first word of the current working set
  last_mem     \* history: first word of the working set before it

NoMem == -1

\* The int a product is stored as.
AsInt(n) ==
  LET low == n % (2 * INT_MAX + 2)
  IN  IF low <= INT_MAX THEN low ELSE low - (2 * INT_MAX + 2)

avars == <<size, arena_pos, mem, last_mem>>

ArenaInit ==
  /\ size \in Sizes
  /\ arena_pos = 0
  /\ mem = NoMem
  /\ last_mem = NoMem

\* reset_arena() touches every word, so what was handed out before counts as
\* forgotten.
ResetArena ==
  /\ arena_pos' = 0
  /\ mem' = NoMem
  /\ last_mem' = NoMem
  /\ UNCHANGED size

\* Mutant of TooLarge: only what exceeds the whole arena is refused.
TooLargeForAll == size > ARENA_SIZE

\* ARENA_SIZE is unsigned: a product that overflowed to a negative number
\* counts as large, too.
TooLarge == AsInt(size * 2) < 0 \/ AsInt(size * 2) > ARENA_SIZE

\* Mutant of MustWrap: the last word does not count.
MustWrapLate == arena_pos + size > ARENA_SIZE + 1

MustWrap == arena_pos + size > ARENA_SIZE

\* allocate(); deallocate() does nothing.
Allocate ==
  /\ ~TooLarge
  /\ mem' = IF MustWrap THEN 0 ELSE arena_pos
  /\ arena_pos' = mem' + size
  /\ last_mem' = mem
  /\ UNCHANGED size

ArenaNext == ResetArena \/ Allocate

ArenaSpec == ArenaInit /\ [][ArenaNext]_avars

-----------------------------------------------------------------------------
(* Properties.                                                             *)

\* arena_pos never leaves the arena, so arena + arena_pos is a valid pointer.
ArenaTypeOK ==
  /\ size \in Sizes
  /\ arena_pos \in 0 .. ARENA_SIZE
  /\ mem \in 0 .. ARENA_SIZE \cup {NoMem}
  /\ last_mem \in 0 .. ARENA_SIZE \cup {NoMem}

\* The words of a working set that starts at m.
Words(m) == m .. m + size - 1

\* What allocate() hands out lies inside the arena.
InsideArena == mem # NoMem => Words(mem) \subseteq 0 .. ARENA_SIZE - 1

\* "Don't allow re-use between allocations" (cache_cost.c:121): a working
\* set shares no word with the one before it, also where the arena wraps.
NoReuse ==
  mem # NoMem /\ last_mem # NoMem => Words(mem) \cap Words(last_mem) = {}
=============================================================================

------------------------------ MODULE PageRows ------------------------------
(***************************************************************************)
(* The physical addresses in the rows of bin/cache_cost.c.  A row ends     *)
(* with the addresses get_phys_addrs() of bin/pagemap.c finds for the      *)
(* pages of the working set.  They go through the array phys_addrs, whose  *)
(* length do_random_experiment() computes from wss, which is in KB, as if  *)
(* it were in bytes.                                                       *)
(*                                                                         *)
(* /proc/self/pagemap is external: it cannot always be opened, it cannot   *)
(* be read for every page, and the frame it gives for a page is named by   *)
(* the first int of the page.                                              *)
(***************************************************************************)
EXTENDS CacheCost

CONSTANTS
  INTSIZE,       \* bytes of an int
  INTS_IN_1KB,
  PAGESIZE,      \* bytes of a page, a multiple of INTSIZE
  Unset,         \* what malloc() leaves in an array
  NoFrame        \* the address of frame 0: only an offset in a page

ASSUME PageAssumption ==
  /\ INTSIZE \in Nat \ {0}
  /\ INTS_IN_1KB \in Nat \ {0}
  /\ PAGESIZE \in Nat \ {0}
  /\ PAGESIZE % INTSIZE = 0
  /\ \A s \in Sizes : s % INTS_IN_1KB = 0      \* wss is a number of KBs

VARIABLES
  phys_addrs,    \* <<>> when malloc() gave NULL
  overrun,       \* has this experiment stored past the end of phys_addrs
  spoiled        \* has that gone into the text of its rows, in outfile's buffer

pagevars == <<phys_addrs, overrun, spoiled>>
rowvars == <<vars, pagevars>>

wss == size \div INTS_IN_1KB

num_pages == LET pages == wss \div PAGESIZE IN IF pages = 0 THEN 1 ELSE pages

PageInit ==
  /\ Init
  /\ phys_addrs = <<>>
  /\ overrun = FALSE
  /\ spoiled = FALSE

-----------------------------------------------------------------------------
(* get_phys_addrs()                                                        *)

\* Steps of PAGESIZE from the first byte of the working set to its end.
Pages == (size * INTSIZE + PAGESIZE - 1) \div PAGESIZE

\* while (virt_addr < virt_addr_end && count < num_addr), with wss as num_addr.
count == IF Pages < wss THEN Pages ELSE wss

\* Mutant of AddressOf: the step is taken before the look-up.
AddressOfNext(p) == mem + p * (PAGESIZE \div INTSIZE)

\* The address stored as the p-th.
AddressOf(p) == mem + (p - 1) * (PAGESIZE \div INTSIZE)

Overruns == count > num_pages

\* The pagemap is open.  Where get_desc() can neither seek nor read, its
\* descriptor is 0.  What does not fit in phys_addrs goes to the heap behind
\* it, where outfile keeps what it has not written yet.
StoreAddrs ==
  /\ \E found \in SUBSET (1 .. num_pages) :
       phys_addrs' = [p \in 1 .. num_pages |->
                        IF p > count THEN phys_addrs[p]
                        ELSE IF p \in found THEN AddressOf(p)
                        ELSE NoFrame]
  /\ overrun' = (overrun \/ Overruns)
  /\ \E spoils \in BOOLEAN : spoiled' = (spoiled \/ (Overruns /\ spoils))

\* fopen() may fail instead.
GetPhysAddrs == phys_addrs # <<>> /\ (StoreAddrs \/ UNCHANGED pagevars)

-----------------------------------------------------------------------------
(* do_random_experiment()                                                  *)

\* The array is allocated before the arena is reset; nobody looks whether it
\* was.
BeginPages ==
  /\ BeginExperiment
  /\ phys_addrs' \in {[p \in 1 .. num_pages |-> Unset], <<>>}
  /\ overrun' = FALSE
  /\ spoiled' = FALSE

PrintPages ==
  /\ PrintRow
  /\ IF show THEN GetPhysAddrs ELSE UNCHANGED pagevars

\* Without the array, storing an address or printing the first one stops the
\* process.
NullArray ==
  /\ show
  /\ phys_addrs = <<>>
  /\ Die("Print")
  /\ UNCHANGED <<options, rep, arenavars, np, cpu, roundvars, counters, timing, rows, pagevars>>

\* The heap behind the array is damaged.  The loop that damages it, a later
\* fprintf(), fopen(), malloc() or free() may stop the process.
HeapAborts ==
  /\ \/ (overrun \/ (show /\ phys_addrs # <<>> /\ Overruns)) /\ Die("Print")
     \/ overrun /\ ~MoreToDo /\ Die("Loop")
     \/ overrun /\ Die("Begin")
  /\ UNCHANGED <<options, rep, arenavars, np, cpu, roundvars, counters, timing, rows, pagevars>>

WithPages(Step) == Step /\ UNCHANGED pagevars

RoundPages == PrintPages \/ NullArray \/ HeapAborts \/ WithPages(pc # "Print" /\ Round)

PageNext ==
  \/ BeginPages
  \/ RoundPages
  \/ WithPages(EndExperiment)
  \/ WithPages(DrawPreemption)
  \/ WithPages(DrawMigration)
  \/ WithPages(Alarm)
  \/ WithPages(Returned)

PageSpec == PageInit /\ [][PageNext]_rowvars

\* As for the experiment without its addresses.
FairPageSpec ==
  /\ PageSpec
  /\ WF_rowvars(BeginPages \/ WithPages(EndExperiment) \/ RoundPages)
  /\ SF_rowvars(WithPages(DrawPreemption))
  /\ SF_rowvars(WithPages(DrawMigration))
  /\ SF_rowvars(WithPages(Alarm))

-----------------------------------------------------------------------------
(* Properties.                                                             *)

OwnAddress(p) ==
  /\ phys_addrs[p] \in Words(mem)
  /\ phys_addrs[p] = mem + (p - 1) * (PAGESIZE \div INTSIZE)

\* "PHYS ADDR" (cache_cost.c:234): when the pagemap can be opened for a row,
\* none of the addresses printed in it is left over from an earlier row or
\* from malloc(), although num_pages is no number of pages: the p-th is that
\* of the p-th page of the working set, or the bare offset where the pagemap
\* has no answer.  That holds of the text, too, unless an overrun spoils it,
\* and phys_addrs (line 213) is overrun by working sets of more than a page
\* only.  (By nearly all of these it is: the length divides "WSS size in kB",
\* line 352, by a number of bytes.)
AddressesAreOwn ==
  /\ [][PrintPages /\ show /\ StoreAddrs /\ ~spoiled' =>
          \A p \in 1 .. num_pages : phys_addrs'[p] = NoFrame \/ OwnAddress(p)']_rowvars
  /\ [](spoiled \/ overrun => size * INTSIZE > PAGESIZE)
=============================================================================

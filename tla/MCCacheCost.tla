---------------------------- MODULE MCCacheCost ----------------------------
(***************************************************************************)
(* Instances of PageRows for TLC.  An arena of 9 words is three times as   *)
(* large as the smaller cache and one and a half times as large as the     *)
(* other.  Working sets of 1 word divide it, those of 4 leave a word over  *)
(* at the wrap and those of 5 are too large.  A KB is one word of two      *)
(* bytes, and so is a page: the array for the working set of 1 KB just     *)
(* fits, and that of 4 KB is counted as two pages.                         *)
(*                                                                         *)
(* The product of the delay 2 overflows to a negative number, that of 3 to *)
(* one that nanosleep() takes.                                             *)
(***************************************************************************)
EXTENDS PageRows

SomeSizes == {1, 4, 5}
Caches == {3, 6}
OneOrNone == {0, 1}
=============================================================================

------------------------------ MODULE MCPmTask ------------------------------
(***************************************************************************)
(* Instances of PmTask for TLC.  Every access takes the same time.         *)
(***************************************************************************)
EXTENDS PmTask

OneTime == {1}
Masks == {TRUE}
MasksOrNot == {TRUE, FALSE}
=============================================================================

---------------------------- MODULE MCTraceFile ----------------------------
(***************************************************************************)
(* Instances of TraceFile for TLC: runs that save nothing, a block and a   *)
(* rest, and exactly two blocks.                                           *)
(***************************************************************************)
EXTENDS TraceFile

RunSizes == {0, 3, 4}
=============================================================================

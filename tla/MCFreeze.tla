------------------------------ MODULE MCFreeze ------------------------------
(***************************************************************************)
(* Instances of Freeze for TLC: one or two tasks.                          *)
(***************************************************************************)
EXTENDS FreezeProperties, TLC

CONSTANTS t1, t2
Tasks == Permutations(Task)
=============================================================================

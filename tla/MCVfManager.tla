---------------------------- MODULE MCVfManager ----------------------------
(***************************************************************************)
(* VfManager for TLC.                                                      *)
(***************************************************************************)
EXTENDS VfManager, TLC

Symmetry == Permutations(Procs)
=============================================================================

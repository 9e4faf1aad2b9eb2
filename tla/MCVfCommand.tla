----------------------------- MODULE MCVfCommand -----------------------------
(***************************************************************************)
(* VfCommand for TLC: two clients and two starts of a server, alike among  *)
(* themselves.                                                             *)
(***************************************************************************)
EXTENDS VfCommand, TLC

Symmetry == Permutations(Clients) \cup Permutations(Starts)
=============================================================================

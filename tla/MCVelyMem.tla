----------------------------- MODULE MCVelyMem -----------------------------
(***************************************************************************)
(* VelyMem for TLC: interchangeable addresses, and the behaviours in which *)
(* no request errors out.                                                  *)
(***************************************************************************)
EXTENDS VelyMem, TLC

Symmetry == Permutations(Blocks)

ErrorFree == (phase = "request" /\ phase' = "sweep") => EndRequest

SpecErrorFree == Init /\ [][Next /\ ErrorFree]_vars
=============================================================================

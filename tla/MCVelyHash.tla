----------------------------- MODULE MCVelyHash -----------------------------
(***************************************************************************)
(* VelyHash for TLC: with 10 buckets three of the four keys share the      *)
(* first bucket; with 12 they are apart, one of them in the first bucket.  *)
(***************************************************************************)
EXTENDS VelyHash

MCCode == [k \in Keys |-> CASE k = "a" -> 10 [] k = "b" -> 20
                            [] k = "c" -> 60 [] OTHER -> 35]
=============================================================================

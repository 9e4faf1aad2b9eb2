----------------------------- MODULE MCVelyTree -----------------------------
(***************************************************************************)
(* VelyTree for TLC.  While the tree has keys of Few only, every statement *)
(* is taken, and each key has a value of its own, one has two.  Beyond     *)
(* that TLC has every tree that inserting and deleting makes of all the    *)
(* keys, and no cursor: with twelve keys a deletion rotates twice on its   *)
(* way up, which it does with no smaller tree.                             *)
(***************************************************************************)
EXTENDS VelyTree

CONSTANT Few

MCValues == [k \in Keys |-> IF k = 4 THEN {k, 10 + k} ELSE {k}]

Grow == \E k \in Keys \ Inner : WriteTree(k, k, FALSE)

Shrink == \E k \in Inner : DeleteTree(k)

Plain == Exists /\ cursor = NULL /\ \A k \in Inner : t.node[k].data = k

MCNext ==
    \/ Inner \subseteq Few /\ Next /\ Inner' \subseteq Few
    \/ Plain /\ Grow
    \/ Plain /\ Shrink

MCSpec == Init /\ [][MCNext]_vars

\* Nothing reads call: states that differ in it alone are one for TLC.
MCView == <<t, cursor, fine>>
=============================================================================

------------------------------ MODULE VelyMap ------------------------------
(***************************************************************************)
(* What the statements on a tree promise an application (docs/new-tree,    *)
(* write-tree, read-tree, delete-tree, use-cursor): a map from keys to     *)
(* values that is read by key or by the order of the keys, and a cursor    *)
(* that moves along the order.  VelyTree is shown to implement it.         *)
(*                                                                         *)
(* A statement is one step: call is its name, what it was given and what   *)
(* it gave back.                                                           *)
(***************************************************************************)
EXTENDS Integers, FiniteSets

CONSTANTS Keys, Values

VARIABLES
    map,
    cur,    \* the key that the cursor is on
    fine,   \* the last move of the cursor found a key
    call    \* the last statement with its arguments and its results

NoKey == 0
NoValue == 0

Lesser(m, k) == {j \in DOMAIN m : j < k}
Greater(m, k) == {j \in DOMAIN m : j > k}
Smallest(S) == CHOOSE j \in S : \A i \in S : j <= i
Largest(S) == CHOOSE j \in S : \A i \in S : i <= j

\* The key that a read-tree with this clause finds, NoKey for none.
Sought(m, clause, k) ==
    LET S == CASE clause = "key" -> DOMAIN m \cap {k}
               [] clause = "lesser" -> Lesser(m, k)
               [] clause = "lesser-equal" -> Lesser(m, k + 1)
               [] clause = "greater" -> Greater(m, k)
               [] clause = "greater-equal" -> Greater(m, k - 1)
               [] OTHER -> DOMAIN m
    IN IF S = {} THEN NoKey
       ELSE IF clause \in {"lesser", "lesser-equal", "max-key"} THEN Largest(S)
       ELSE Smallest(S)

Questions ==
    {"key", "lesser", "lesser-equal", "greater", "greater-equal"} \X Keys
        \cup {<<"min-key", NoKey>>, <<"max-key", NoKey>>}

Init == map = <<>> /\ cur = NoKey /\ fine = TRUE /\ call = <<>>

Value(k) == IF k \in DOMAIN map THEN map[k] ELSE NoValue

\* What an application may put in place of the value it found.
Updates(k) == {NoValue} \cup (IF k = NoKey THEN {} ELSE Values[k])

Updated(k, u) == IF u = NoValue THEN map ELSE [map EXCEPT ![k] = u]

New(sorted) ==
    map = <<>> /\ call' = <<"new-tree", sorted>> /\ UNCHANGED <<map, cur, fine>>

\* A key that is in the tree is not written again.
Write(k, v, keep) ==
    LET new == k \notin DOMAIN map
    IN /\ call' = <<"write-tree", k, v, keep, new>>
       /\ map' = IF new THEN [j \in DOMAIN map \cup {k} |-> IF j = k THEN v ELSE map[j]]
                  ELSE map
       /\ cur' = IF ~keep THEN cur ELSE IF new THEN k ELSE NoKey
       /\ fine' = (keep \/ fine)

Read(clause, k) ==
    LET found == Sought(map, clause, k)
    IN \E u \in Updates(found), keep \in BOOLEAN :
          /\ call' = <<"read-tree", clause, k, u, keep, found, Value(found)>>
          /\ map' = Updated(found, u)
          /\ cur' = IF keep THEN found ELSE cur
          /\ fine' = (keep \/ fine)

\* A delete moves or takes away a cursor on the deleted key, and it may take
\* away a cursor on the next greater key; every other cursor stays.
Delete(k) ==
    LET next == Sought(map, "greater", k)
        there == k \in DOMAIN map
    IN /\ call' = <<"delete-tree", k, there, Value(k)>>
       /\ map' = [j \in DOMAIN map \ {k} |-> map[j]]
       /\ cur' \in IF there /\ cur \in {k, next} THEN {NoKey, next} ELSE {cur}
       /\ fine' = (fine \/ cur' = NoKey)

\* A cursor whose last move found nothing stays where it was, but what is there is
\* not given to current before another move finds a key: see the README.
Move(clause) ==
    LET found == IF clause # "current" THEN Sought(map, clause, cur)
                 ELSE IF fine THEN cur ELSE NoKey
    IN /\ cur # NoKey
       /\ fine' = (found # NoKey)
       /\ \E u \in Updates(found) :
             /\ call' = <<"use-cursor", clause, u, found, Value(found)>>
             /\ map' = Updated(found, u)
             /\ cur' = IF found = NoKey THEN cur ELSE found

Count == call' = <<"get-tree", Cardinality(DOMAIN map)>> /\ UNCHANGED <<map, cur, fine>>

\* Only a tree without keys can be purged; purging another one is an error,
\* with which the request ends, and the tree too unless it has process scope.
Purge ==
    LET allowed == map = <<>>
    IN /\ call' = <<"purge-tree", allowed>>
       /\ map' \in {map, <<>>}
       /\ cur' = NoKey /\ fine' = TRUE

Next == \/ \E s \in BOOLEAN : New(s)
        \/ \E k \in Keys, keep \in BOOLEAN : \E v \in Values[k] : Write(k, v, keep)
        \/ \E k \in Keys : Delete(k)
        \/ \E c \in {"current", "lesser", "greater"} : Move(c)
        \/ Count
        \/ Purge
        \/ \E q \in Questions : Read(q[1], q[2])

Spec == Init /\ [][Next]_<<map, cur, fine, call>>
=============================================================================

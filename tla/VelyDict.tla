------------------------------ MODULE VelyDict ------------------------------
(***************************************************************************)
(* What the statements on a hash promise an application (docs/new-hash,    *)
(* write-hash, read-hash, resize-hash, purge-hash): a map from keys to     *)
(* values, and a traversal that returns every element that was there at    *)
(* its begin and was not deleted since, and none twice.  An element added  *)
(* meanwhile may be returned or not.  VelyHash is shown to implement it.   *)
(*                                                                         *)
(* A statement is one step: call is its name, what it was given and what   *)
(* it gave back.                                                           *)
(***************************************************************************)
CONSTANTS Keys, Values, NULL

VARIABLES
    dict,   \* the map
    due,    \* what the traversal still has to return
    done,   \* what it has returned
    call    \* the last statement with its arguments and its results

vars == <<dict, due, done, call>>

Init == dict = <<>> /\ due = {} /\ done = {} /\ call = <<>>

Value(k) == IF k \in DOMAIN dict THEN dict[k] ELSE NULL

\* The old value comes back, NULL for a new key.
Write(k, v) ==
    /\ call' = <<"write-hash", k, v, Value(k)>>
    /\ dict' = [j \in DOMAIN dict \cup {k} |-> IF j = k THEN v ELSE dict[j]]
    /\ UNCHANGED <<due, done>>

Read(k) == call' = <<"read-hash", k, Value(k)>> /\ UNCHANGED <<dict, due, done>>

Delete(k) ==
    /\ call' = <<"read-hash delete", k, Value(k)>>
    /\ dict' = [j \in DOMAIN dict \ {k} |-> dict[j]]
    /\ due' = due \ {k}
    /\ done' = done \ {k}

Begin ==
    /\ call' = <<"traverse begin">>
    /\ due' = DOMAIN dict /\ done' = {}
    /\ UNCHANGED dict

Traverse(k) ==
    /\ k \in DOMAIN dict \ done
    /\ call' = <<"traverse", k, dict[k]>>
    /\ due' = due \ {k}
    /\ done' = done \cup {k}
    /\ UNCHANGED dict

End == due = {} /\ call' = <<"traverse", NULL, NULL>> /\ UNCHANGED <<dict, due, done>>

\* A new table, and one without its elements or with all of them in other
\* places; a traversal has to begin again.
Again == due' = {} /\ done' = {}

New == dict = <<>> /\ call' = <<"new-hash">> /\ UNCHANGED dict /\ Again

Resize == call' = <<"resize-hash">> /\ UNCHANGED dict /\ Again

Purge == call' = <<"purge-hash">> /\ dict' = <<>> /\ Again

Next ==
    \/ \E k \in Keys, v \in Values : Write(k, v)
    \/ \E k \in Keys : Read(k) \/ Delete(k) \/ Traverse(k)
    \/ Begin
    \/ End
    \/ New
    \/ Resize
    \/ Purge

Spec == Init /\ [][Next]_vars
=============================================================================

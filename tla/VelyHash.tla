------------------------------ MODULE VelyHash ------------------------------
(***************************************************************************)
(* The hash table of an application (hash.c) under the statements that v1  *)
(* generates calls for: new-hash, write-hash, read-hash with and without   *)
(* traverse, resize-hash, get-hash and purge-hash.                         *)
(*                                                                         *)
(* A bucket is the sequence of its list, named by the keys of the entries; *)
(* the values are kept beside.  The 32-bit hash code of a key is a         *)
(* constant, so that an instance can choose which keys collide.            *)
(***************************************************************************)
EXTENDS Integers, Sequences, SequencesExt, FiniteSets

CONSTANTS
    Keys,
    Values,
    Code,    \* the FNV-1a code of each key, before it is reduced
    Sizes,   \* what an application asks for as the number of buckets
    NULL

ASSUME CodeAssumption == Code \in [Keys -> Nat]
ASSUME SizesAssumption == Sizes \subseteq Nat
ASSUME NullAssumption == NULL \notin Keys /\ NULL \notin Values

MinSize == 10

VARIABLES
    h,          \* the table: buckets, val, tot, dnext and dcurr
    call,       \* history: the last statement, its arguments and its results
    due, done   \* history: what the traversal owes, and what it returned

vars == <<h, call, due, done>>

NoHash == [buckets |-> <<>>, val |-> <<>>, tot |-> 0, dnext |-> 0, dcurr |-> NULL]

Init == h = NoHash /\ call = <<>> /\ due = {} /\ done = {}

Exists == h.buckets # <<>>
-----------------------------------------------------------------------------
(* The operations of hash.c on a table g                                   *)

NumBuckets(g) == Cardinality(DOMAIN g.buckets)

ComputeHash(g, k) == Code[k] % NumBuckets(g)

First(bucket) == IF bucket = <<>> THEN NULL ELSE Head(bucket)

Place(bucket, k) == CHOOSE i \in DOMAIN bucket : bucket[i] = k

After(bucket, k) ==
    IF Place(bucket, k) = Len(bucket) THEN NULL ELSE bucket[Place(bucket, k) + 1]

Rewind(g) == [g EXCEPT !.dnext = 0, !.dcurr = First(g.buckets[0])]

Created(size) ==
    Rewind([NoHash EXCEPT !.buckets =
               [b \in 0 .. (IF size < MinSize THEN MinSize ELSE size) - 1 |-> <<>>]])

\* vely_find_hash goes through the one bucket of the key.
Find(g, k) ==
    IF k \in ToSet(g.buckets[ComputeHash(g, k)]) THEN g.val[k] ELSE NULL

\* vely_add_hash replaces the value in place, or puts an entry at the head.
Add(g, k, v) ==
    IF Find(g, k) # NULL
    THEN [g EXCEPT !.val[k] = v]
    ELSE [g EXCEPT !.buckets[ComputeHash(g, k)] = <<k>> \o @,
                   !.val = [j \in DOMAIN @ \cup {k} |-> IF j = k THEN v ELSE @[j]],
                   !.tot = @ + 1]

\* The traversal stands on dcurr, which a deletion moves to the next entry.
BugCurrentAfter(g, k, next) == g.dcurr

CurrentAfter(g, k, next) == IF g.dcurr = k THEN next ELSE g.dcurr

DelEntry(g, k) ==
    LET b == ComputeHash(g, k)
    IN [g EXCEPT !.buckets[b] = RemoveAt(@, Place(@, k)),
                 !.val = [j \in DOMAIN @ \ {k} |-> @[j]],
                 !.dcurr = CurrentAfter(g, k, After(g.buckets[b], k)),
                 !.tot = @ - 1]

\* vely_next_hash: the next bucket that has an entry, when dcurr is NULL.
NextBucket(g) ==
    LET later == {b \in DOMAIN g.buckets : b > g.dnext /\ g.buckets[b] # <<>>}
    IN IF later = {} THEN NumBuckets(g)
       ELSE CHOOSE b \in later : \A c \in later : b <= c

Ended(g) ==
    \/ g.dnext = NumBuckets(g)
    \/ g.dcurr = NULL /\ NextBucket(g) = NumBuckets(g)

NextKey(g) == IF Ended(g) THEN NULL
              ELSE IF g.dcurr # NULL THEN g.dcurr ELSE Head(g.buckets[NextBucket(g)])

Advance(g) ==
    IF Ended(g) THEN [g EXCEPT !.dnext = NumBuckets(g)]
    ELSE [g EXCEPT !.dnext = IF g.dcurr # NULL THEN @ ELSE NextBucket(g),
                   !.dcurr = After(g.buckets[ComputeHash(g, NextKey(g))], NextKey(g))]

\* The whole table in the order of a traversal from its beginning.
InOrder(g) ==
    LET upto[n \in 0 .. NumBuckets(g)] ==
            IF n = 0 THEN <<>> ELSE upto[n - 1] \o g.buckets[n - 1]
    IN upto[NumBuckets(g)]

AddAll(g, order, val) ==
    LET table[n \in 0 .. Len(order)] ==
            IF n = 0 THEN g ELSE Add(table[n - 1], order[n], val[order[n]])
    IN table[Len(order)]

\* vely_resize_hash adds every entry to a new table; the position of the
\* traversal is that of the empty table made in between.
BugResize(g, size) ==
    AddAll(Created(size),
           SelectSeq(InOrder(g), LAMBDA k : ComputeHash(g, k) >= g.dnext), g.val)

Resize(g, size) == AddAll(Created(size), InOrder(g), g.val)
-----------------------------------------------------------------------------
(* The statements                                                          *)

NewHash(size) ==
    /\ ~Exists
    /\ h' = Created(size)
    /\ due' = {} /\ done' = {}
    /\ call' = <<"new-hash">>

\* vely_add_hash returns the value it replaces, NULL for none.
WriteHash(k, v) ==
    /\ Exists
    /\ h' = Add(h, k, v)
    /\ call' = <<"write-hash", k, v, Find(h, k)>>
    /\ UNCHANGED <<due, done>>

ReadHash(k) ==
    /\ Exists
    /\ call' = <<"read-hash", k, Find(h, k)>>
    /\ UNCHANGED <<h, due, done>>

\* read-hash with delete: the value is saved before the entry goes.
ReadHashDelete(k) ==
    /\ Exists
    /\ h' = IF Find(h, k) = NULL THEN h ELSE DelEntry(h, k)
    /\ due' = due \ {k}
    /\ done' = done \ {k}
    /\ call' = <<"read-hash delete", k, Find(h, k)>>

TraverseBegin ==
    /\ Exists
    /\ h' = Rewind(h)
    /\ due' = ToSet(InOrder(h)) /\ done' = {}
    /\ call' = <<"traverse begin">>

\* vely_next_hash leaves the value as it was when there are no more.
Traverse ==
    LET k == NextKey(h)
    IN /\ Exists
       /\ h' = Advance(h)
       /\ due' = due \ {k}
       /\ done' = IF k = NULL THEN done ELSE done \cup {k}
       /\ call' = <<"traverse", k, IF k = NULL THEN NULL ELSE h.val[k]>>

ResizeHash(size) ==
    /\ Exists
    /\ h' = Resize(h, size)
    /\ due' = {} /\ done' = {}
    /\ call' = <<"resize-hash">>

\* purge-hash makes an empty table of the same size; with delete it makes none.
PurgeHash(delete) ==
    /\ Exists
    /\ h' = IF delete THEN NoHash ELSE Created(NumBuckets(h))
    /\ due' = {} /\ done' = {}
    /\ call' = <<"purge-hash">>

Next ==
    \/ \E s \in Sizes : NewHash(s) \/ ResizeHash(s)
    \/ \E k \in Keys, v \in Values : WriteHash(k, v)
    \/ \E k \in Keys : ReadHash(k) \/ ReadHashDelete(k)
    \/ TraverseBegin
    \/ Traverse
    \/ \E d \in BOOLEAN : PurgeHash(d)

Spec == Init /\ [][Next]_vars
-----------------------------------------------------------------------------
(* Properties                                                              *)

\* The table is sound: each key is in one entry, in the bucket that a search
\* for it reads, whatever was resized since; tot counts the entries; and the
\* traversal stands on an entry of its bucket, never on one that was freed.
TableSound ==
    Exists =>
        /\ \A b \in DOMAIN h.buckets : \A i \in DOMAIN h.buckets[b] :
              /\ ComputeHash(h, h.buckets[b][i]) = b
              /\ \A j \in DOMAIN h.buckets[b] :
                    h.buckets[b][i] = h.buckets[b][j] => i = j
        /\ h.tot = Len(InOrder(h))
        /\ h.dnext \in 0 .. NumBuckets(h)
        /\ h.dcurr # NULL => h.dcurr \in ToSet(h.buckets[h.dnext])

Stored == IF Exists THEN {k \in Keys : Find(h, k) # NULL} ELSE {}

Dict == INSTANCE VelyDict WITH dict <- [k \in Stored |-> Find(h, k)]

\* Every statement is the one of the dictionary with the same arguments and
\* gives back what that gives back: a search finds what was last written under
\* its key and not deleted, across collisions and resize-hash, which loses
\* nothing; write-hash returns the value it replaces; and a traversal returns
\* all that was there when it began and was not deleted since, each once and
\* with its value, while elements are added and deleted, the current one
\* included (docs/read-hash).
ImplementsDict == Dict!Spec
=============================================================================

------------------------------ MODULE VelyTree ------------------------------
(***************************************************************************)
(* The tree of an application (tree.c) under the statements that v1        *)
(* generates calls for: new-tree, write-tree, read-tree, delete-tree,      *)
(* use-cursor and purge-tree.                                              *)
(*                                                                         *)
(* A node is named after the key it holds; when delete moves a key into    *)
(* another node, that node is renamed once the statement is done.  Above   *)
(* the root is the dummy node orig_tree->tree, whose lesser_node is the    *)
(* root; a tree without keys has a root without a key.  Keys are numbers:  *)
(* that their comparison as strings is a total order is left out.          *)
(***************************************************************************)
EXTENDS Integers

CONSTANTS
    Keys,
    Values   \* of each key the values an application keeps under it

ASSUME KeysAssumption == Keys \subseteq Nat \ {0}
ASSUME ValuesAssumption == DOMAIN Values = Keys /\ \A k \in Keys : 0 \notin Values[k]

NULL == 0       \* no node
Dummy == -1     \* orig_tree->tree
Blank == -2     \* the root without a key

VARIABLES
    t,       \* the tree: node, min, max, count and sorted
    cursor,  \* the node of the last cursor the application kept, or NULL
    fine,    \* the status of that cursor is VV_OKAY
    call     \* history: the last statement, its arguments and its results

vars == <<t, cursor, fine, call>>

Empty(h) == [l |-> NULL, g |-> NULL, h |-> h, prev |-> NULL, next |-> NULL,
             data |-> NULL]

\* vv_tree_create with vv_tree_create_root; calloc makes heights 0.
Created(sorted) ==
    [node |-> [n \in {Dummy, Blank} |->
                  IF n = Dummy THEN [Empty(0) EXCEPT !.l = Blank] ELSE Empty(0)],
     min |-> NULL, max |-> NULL, count |-> 0, sorted |-> sorted]

NoTree == [node |-> <<>>, min |-> NULL, max |-> NULL, count |-> 0,
           sorted |-> TRUE]

Init == t = NoTree /\ cursor = NULL /\ fine = TRUE /\ call = <<>>

Exists == DOMAIN t.node # {}
-----------------------------------------------------------------------------
(* Heights, rotations and balance.  A side is "l" or "g".                  *)

Other(side) == IF side = "l" THEN "g" ELSE "l"

H(n, x) == IF x = NULL THEN 0 ELSE n[x].h

\* Nothing reads the height of the dummy node; it is left at 0.
Height(n, x) ==
    LET l == H(n, n[x].l)
        g == H(n, n[x].g)
    IN IF x = Dummy THEN n ELSE [n EXCEPT ![x].h = 1 + IF l > g THEN l ELSE g]

SetParent(n, p, dir, x) == [n EXCEPT ![p][dir] = x]

\* vv_tree_rotate_right for side "l", vv_tree_rotate_left for side "g": the
\* child on that side takes the place of x.  Its own height is not computed.
Rotate(n, p, dir, x, side) ==
    LET c == n[x][side]
        up == SetParent(n, p, dir, c)
        done == [up EXCEPT ![c][Other(side)] = x, ![x][side] = n[c][Other(side)]]
    IN Height(Height(done, x), p)

BugLower(n, p, dir, x, side) == Height(Rotate(n, p, dir, x, side), x)

Lower(n, p, dir, x, side) ==
    LET c == n[x][side]
        inner == H(n, n[c][Other(side)]) > H(n, n[c][side])
        ready == IF inner THEN Rotate(n, x, side, c, Other(side)) ELSE n
    IN Height(Rotate(ready, p, dir, x, side), x)

Balance(n, p, dir, x) ==
    LET m == Height(n, x)
        factor == H(m, m[x].l) - H(m, m[x].g)
    IN CASE factor >= 2 -> Lower(m, p, dir, x, "l")
         [] factor <= -2 -> Lower(m, p, dir, x, "g")
         [] OTHER -> m

BalanceBoth(n, p, dir, x, side) ==
    LET m == IF n[x][side] = NULL THEN n ELSE Balance(n, x, side, n[x][side])
    IN Balance(m, p, dir, x)

-----------------------------------------------------------------------------
(* Insert                                                                  *)

Grown(n, x, r) == [y \in DOMAIN n \cup {x} |-> IF y = x THEN r ELSE n[y]]
Shrunk(n, x) == [y \in DOMAIN n \ {x} |-> n[y]]

BugLinkBeside(n, x, k, side) ==
    LET out == IF side = "l" THEN "prev" ELSE "next"
        in == IF side = "l" THEN "next" ELSE "prev"
    IN [n EXCEPT ![k][out] = n[x][out], ![x][out] = k, ![k][in] = x]

\* The new node k in the ordered list, next to its parent x.
LinkBeside(n, x, k, side) ==
    LET out == IF side = "l" THEN "prev" ELSE "next"
        in == IF side = "l" THEN "next" ELSE "prev"
        far == n[x][out]
        m == IF far = NULL THEN n ELSE [n EXCEPT ![far][in] = k]
    IN [m EXCEPT ![k][out] = far, ![x][out] = k, ![k][in] = x]

\* The part of vv_tree_insert that fills a node without a key.
Filled(s, k) ==
    [s EXCEPT !.count = @ + 1,
              !.min = IF s.sorted /\ s.node[k].prev = NULL THEN k ELSE @,
              !.max = IF s.sorted /\ s.node[k].next = NULL THEN k ELSE @]

NewLeaf(v) == [Empty(1) EXCEPT !.data = v]

InsertLeaf(s, x, k, v, side) ==
    LET n == [Grown(s.node, k, NewLeaf(v)) EXCEPT ![x][side] = k]
    IN Filled([s EXCEPT !.node =
                  IF s.sorted THEN LinkBeside(n, x, k, side) ELSE n], k)

InsertRoot(s, k, v) ==
    Filled([s EXCEPT !.node =
               [Grown(Shrunk(@, Blank), k, NewLeaf(v)) EXCEPT ![Dummy].l = k]], k)

RECURSIVE Insert(_, _, _, _, _, _)
Insert(s, p, dir, x, k, v) ==
    LET side == IF k < x THEN "l" ELSE "g"
        below == Insert(s, x, side, s.node[x][side], k, v)
    IN IF x = k THEN s
       ELSE IF s.node[x][side] = NULL THEN InsertLeaf(s, x, k, v, side)
       ELSE [below EXCEPT !.node = BalanceBoth(@, p, dir, x, side)]
-----------------------------------------------------------------------------
(* Search                                                                  *)

Top == t.node[Dummy].l

\* Go down from x; on the way note the last node on the side that is sought.
RECURSIVE Descend(_, _, _, _, _)
Descend(x, k, want, equal, last) ==
    IF x = NULL THEN last
    ELSE IF x = k /\ equal THEN x
    ELSE IF k < x \/ (k = x /\ want = "lesser")
    THEN Descend(t.node[x].l, k, want, equal, IF want = "greater" THEN x ELSE last)
    ELSE Descend(t.node[x].g, k, want, equal, IF want = "lesser" THEN x ELSE last)

SearchLesserEqual(k, equal) ==
    IF Top = Blank THEN NULL ELSE Descend(Top, k, "lesser", equal, NULL)

SearchGreaterEqual(k, equal) ==
    IF Top = Blank THEN NULL ELSE Descend(Top, k, "greater", equal, NULL)

Search(k) ==
    IF Top = Blank THEN NULL ELSE Descend(Top, k, "equal", TRUE, NULL)

RECURSIVE Outermost(_, _)
Outermost(x, side) ==
    IF t.node[x][side] = NULL THEN x ELSE Outermost(t.node[x][side], side)

MinKey == IF t.count = 0 THEN NULL
          ELSE IF t.sorted THEN t.min ELSE Outermost(Top, "l")

MaxKey == IF t.count = 0 THEN NULL
          ELSE IF t.sorted THEN t.max ELSE Outermost(Top, "g")
-----------------------------------------------------------------------------
(* Delete                                                                  *)

\* The node x out of the ordered list.
Unlink(s, x) ==
    LET a == s.node[x].prev
        b == s.node[x].next
        n == IF a = NULL THEN s.node ELSE [s.node EXCEPT ![a].next = b]
    IN [s EXCEPT !.node = IF b = NULL THEN n ELSE [n EXCEPT ![b].prev = a],
                 !.min = IF a = NULL THEN b ELSE @,
                 !.max = IF b = NULL THEN a ELSE @]

\* The node x in the place that the leaf has in the list.
TakePlace(s, leaf, x) ==
    LET a == s.node[leaf].prev
        b == s.node[leaf].next
        n == [s.node EXCEPT ![x].prev = a, ![x].next = b]
        m == IF a = NULL THEN n ELSE [n EXCEPT ![a].next = x]
    IN [s EXCEPT !.node = IF b = NULL THEN m ELSE [m EXCEPT ![b].prev = x],
                 !.min = IF a = NULL THEN x ELSE @,
                 !.max = IF b = NULL THEN x ELSE @]

BugMoveLeaf(s, p, dir, leaf, x) ==
    LET r == IF s.sorted THEN TakePlace(Unlink(s, x), leaf, x) ELSE s
    IN [r EXCEPT !.node = Shrunk(SetParent(@, p, dir, @[leaf].g), leaf)]

\* vv_tree_find_leaf_del at its last node: x takes list position and data of
\* the leaf, the parent of the leaf its greater node.
MoveLeaf(s, p, dir, leaf, x) ==
    LET r == IF s.sorted THEN TakePlace(Unlink(s, x), leaf, x) ELSE s
        n == [r.node EXCEPT ![x].data = r.node[leaf].data]
    IN [r EXCEPT !.node = Shrunk(SetParent(n, p, dir, n[leaf].g), leaf)]

RECURSIVE FindLeafDel(_, _, _, _, _)
FindLeafDel(s, p, dir, y, x) ==
    LET below == FindLeafDel(s, y, "l", s.node[y].l, x)
    IN IF s.node[y].l = NULL THEN MoveLeaf(s, p, dir, y, x)
       ELSE [below EXCEPT !.node = BalanceBoth(@, p, dir, y, "l")]

\* The node with the key, without a greater node and with one.
DropNode(s, p, dir, x) ==
    LET r == [s EXCEPT !.node = SetParent(@, p, dir, s.node[x].l)]
        u == IF s.sorted THEN Unlink(r, x) ELSE r
    IN [u EXCEPT !.node = Shrunk(@, x)]

ReplaceNode(s, p, dir, x) ==
    LET r == FindLeafDel(s, x, "g", s.node[x].g, x)
    IN [r EXCEPT !.node = BalanceBoth(@, p, dir, x, "g")]

RECURSIVE DeleteKey(_, _, _, _, _)
DeleteKey(s, p, dir, x, k) ==
    LET side == IF k < x THEN "l" ELSE "g"
        below == DeleteKey(s, x, side, s.node[x][side], k)
    IN IF x = k
       THEN [(IF s.node[x].g = NULL THEN DropNode(s, p, dir, x)
              ELSE ReplaceNode(s, p, dir, x)) EXCEPT !.count = @ - 1]
       ELSE IF s.node[x][side] = NULL THEN s
       ELSE [below EXCEPT !.node = BalanceBoth(@, p, dir, x, side)]

\* A node that kept its place and took another key is named after that key.
Renamed(s, old, new) ==
    LET Name(x) == IF x = old THEN new ELSE x
        R(r) == [r EXCEPT !.l = Name(@), !.g = Name(@),
                          !.prev = Name(@), !.next = Name(@)]
    IN [s EXCEPT !.node = [x \in {Name(y) : y \in DOMAIN s.node} |->
                              R(s.node[IF x = new THEN old ELSE x])],
                 !.min = Name(@), !.max = Name(@)]

\* The key that moves into the node of k: the smallest one of the greater side.
Heir(k) == IF t.node[k].g = NULL THEN NULL ELSE Outermost(t.node[k].g, "l")

\* vv_tree_delete_f makes a new root without a key when the last node went.
NewRoot(s) ==
    IF s.node[Dummy].l # NULL THEN s
    ELSE [s EXCEPT !.node = [Grown(@, Blank, Empty(0)) EXCEPT ![Dummy].l = Blank]]

\* vv_tree_delete_f and, for write-tree, vv_tree_insert_f.
DeleteF(k) ==
    LET s == DeleteKey(t, Dummy, "l", Top, k)
    IN IF Top = Blank \/ s.count = t.count THEN t
       ELSE NewRoot(IF Heir(k) = NULL THEN s ELSE Renamed(s, k, Heir(k)))

InsertF(k, v) ==
    IF Top = Blank THEN InsertRoot(t, k, v) ELSE Insert(t, Dummy, "l", Top, k, v)
-----------------------------------------------------------------------------
(* The statements                                                          *)

NewTree(sorted) ==
    /\ ~Exists
    /\ t' = Created(sorted)
    /\ call' = <<"new-tree", sorted>>
    /\ UNCHANGED <<cursor, fine>>

\* With the clause new-cursor (keep) the application keeps the cursor.
WriteTree(k, v, keep) ==
    /\ Exists
    /\ t' = InsertF(k, v)
    /\ fine' = (keep \/ fine)
    /\ LET new == t'.count # t.count
       IN /\ cursor' = IF ~keep THEN cursor ELSE IF new THEN k ELSE NULL
          /\ call' = <<"write-tree", k, v, keep, new>>

\* The node a read-tree finds.
Sought(clause, k) ==
    CASE clause = "key" -> Search(k)
      [] clause = "lesser" -> SearchLesserEqual(k, FALSE)
      [] clause = "lesser-equal" -> SearchLesserEqual(k, TRUE)
      [] clause = "greater" -> SearchGreaterEqual(k, FALSE)
      [] clause = "greater-equal" -> SearchGreaterEqual(k, TRUE)
      [] clause = "min-key" -> MinKey
      [] clause = "max-key" -> MaxKey

Value(x) == IF x = NULL THEN NULL ELSE t.node[x].data

\* The clause update-value, NULL for none; the value is read before it.
Updates(x) == {NULL} \cup (IF x = NULL THEN {} ELSE Values[x])

Updated(x, u) == IF u = NULL THEN t ELSE [t EXCEPT !.node[x].data = u]

ReadTree(clause, k, keep) ==
    LET x == Sought(clause, k)
    IN /\ Exists
       /\ cursor' = IF keep THEN x ELSE cursor
       /\ fine' = (keep \/ fine)
       /\ \E u \in Updates(x) :
             /\ t' = Updated(x, u)
             /\ call' = <<"read-tree", clause, k, u, keep, x, Value(x)>>

\* The cursor is a pointer: on a deleted key it now finds the heir, if any, and
\* on the heir it is left with a node that is freed.
DeleteTree(k) ==
    LET there == t'.count # t.count
    IN /\ Exists
       /\ t' = DeleteF(k)
       /\ cursor' = CASE there /\ cursor = k -> Heir(k)
                      [] there /\ cursor # k /\ cursor = Heir(k) -> NULL
                      [] OTHER -> cursor
       /\ fine' = (fine \/ cursor' = NULL)
       /\ call' = <<"delete-tree", k, there, IF there THEN Value(k) ELSE NULL>>

\* use-cursor with current, get-lesser or get-greater.  The first looks at the
\* status of the statement before it.
Step(clause) ==
    IF clause = "current" THEN IF fine THEN cursor ELSE NULL
    ELSE IF t.sorted THEN t.node[cursor][IF clause = "lesser" THEN "prev" ELSE "next"]
    ELSE IF clause = "lesser" THEN SearchLesserEqual(cursor, FALSE)
    ELSE SearchGreaterEqual(cursor, FALSE)

UseCursor(clause) ==
    LET x == Step(clause)
    IN /\ Exists /\ cursor # NULL
       /\ cursor' = IF x = NULL THEN cursor ELSE x
       /\ fine' = (x # NULL)
       /\ \E u \in Updates(x) :
             /\ t' = Updated(x, u)
             /\ call' = <<"use-cursor", clause, u, x, Value(x)>>

\* get-tree with count.
GetTree ==
    /\ Exists
    /\ call' = <<"get-tree", t.count>>
    /\ UNCHANGED <<t, cursor, fine>>

PurgeTree ==
    /\ Exists /\ t.count = 0
    /\ t' = NoTree /\ cursor' = NULL /\ fine' = TRUE
    /\ call' = <<"purge-tree", TRUE>>

\* For a tree that has keys vv_tree_purge_f reports an error; the request ends,
\* and its memory with it unless the tree has the scope of the process.
PurgeError ==
    /\ Exists /\ t.count # 0
    /\ t' \in {t, NoTree} /\ cursor' = NULL /\ fine' = TRUE
    /\ call' = <<"purge-tree", FALSE>>

Questions ==
    {"key", "lesser", "lesser-equal", "greater", "greater-equal"} \X Keys
        \cup {<<"min-key", NULL>>, <<"max-key", NULL>>}

Next ==
    \/ \E s \in BOOLEAN : NewTree(s)
    \/ \E k \in Keys, keep \in BOOLEAN : \E v \in Values[k] : WriteTree(k, v, keep)
    \/ \E q \in Questions, keep \in BOOLEAN : ReadTree(q[1], q[2], keep)
    \/ \E k \in Keys : DeleteTree(k)
    \/ \E c \in {"current", "lesser", "greater"} : UseCursor(c)
    \/ GetTree
    \/ PurgeTree
    \/ PurgeError

Spec == Init /\ [][Next]_vars
-----------------------------------------------------------------------------
(* Properties                                                              *)

Inner == DOMAIN t.node \cap Keys

RECURSIVE TrueHeight(_)
TrueHeight(x) ==
    IF x = NULL THEN 0
    ELSE LET l == TrueHeight(t.node[x].l)
             g == TrueHeight(t.node[x].g)
         IN 1 + IF l > g THEN l ELSE g

\* "Used in tests to prove the tree is always perfectly balanced no matter
\* what" (tree.c:636): at every node the true heights of the two sides differ
\* by one at most, whatever was inserted and deleted.
Balanced ==
    \A x \in Inner :
        TrueHeight(t.node[x].l) - TrueHeight(t.node[x].g) \in -1 .. 1

\* The ordered list of a sorted tree is exactly the keys in their order: its
\* ends are min and max, and each link leads to the next key and back.
ListInOrder ==
    (Exists /\ t.sorted) =>
        /\ t.min = IF Inner = {} THEN NULL ELSE CHOOSE k \in Inner : \A j \in Inner : k <= j
        /\ t.max = IF Inner = {} THEN NULL ELSE CHOOSE k \in Inner : \A j \in Inner : j <= k
        /\ \A x \in Inner :
              LET b == t.node[x].next
              IN /\ (b = NULL) = (x = t.max)
                 /\ b # NULL => /\ b > x /\ t.node[b].prev = x
                                /\ \A j \in Inner : j <= x \/ b <= j
                 /\ (t.node[x].prev = NULL) = (x = t.min)

Map == INSTANCE VelyMap WITH map <- [k \in Inner |-> t.node[k].data],
                             cur <- cursor

\* Tree, list and cursor do what the documents of the statements say: every
\* statement is the one of the ordered map with the same arguments and gives
\* back what that gives back.  Every clause of read-tree finds the key it asks
\* for, with and without the ordered list, nothing is lost but what is deleted,
\* get-tree counts it, and a value stays with its key while keys move from node
\* to node.
ImplementsMap == Map!Spec
=============================================================================

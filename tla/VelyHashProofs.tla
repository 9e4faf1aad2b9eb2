--------------------------- MODULE VelyHashProofs ---------------------------
(***************************************************************************)
(* Proofs about VelyHash, for any keys and values, any hash codes and      *)
(* collisions, and tables of any size: the table stays sound, and the      *)
(* statements on it implement VelyDict.                                    *)
(*                                                                         *)
(* Good says of a table with n buckets that each entry is in one place,    *)
(* and Ahead which entries a traversal has before it.  What InOrder and    *)
(* AddAll compute is proved by induction over the naturals, which is       *)
(* stated for sets (Upwards).                                              *)
(***************************************************************************)
EXTENDS VelyHash, FiniteSetTheorems, SequenceTheorems, WellFoundedInduction, TLAPS

Maps == UNION {[D -> Values] : D \in SUBSET Keys}

ATable(n) == [buckets : [0 .. n - 1 -> Seq(Keys)], val : Maps, tot : Nat,
              dnext : 0 .. n, dcurr : Keys \cup {NULL}]

\* Each entry is in the bucket of its key, once.
InPlace(g, n) ==
    \A b \in 0 .. n - 1 : \A i \in 1 .. Len(g.buckets[b]) : Code[g.buckets[b][i]] % n = b

NoRepeat(s) == \A i, j \in 1 .. Len(s) : s[i] = s[j] => i = j

Once(g, n) == \A b \in 0 .. n - 1 : NoRepeat(g.buckets[b])

\* The values are those of the entries.
Valued(g, n) == \A k \in Keys : k \in DOMAIN g.val <=> k \in ToSet(g.buckets[Code[k] % n])

\* The traversal stands on an entry of its bucket.
Standing(g, n) ==
    g.dcurr # NULL => g.dnext < n /\ g.dcurr \in ToSet(g.buckets[g.dnext])

Good(g, n) ==
    /\ n \in Nat \ {0} /\ g \in ATable(n)
    /\ InPlace(g, n) /\ Once(g, n) /\ Valued(g, n) /\ Standing(g, n)
    /\ g.tot = Len(InOrder(g))

\* The traversal has the entry of k before it.
Ahead(g, n, k) ==
    \/ Code[k] % n > g.dnext
    \/ /\ Code[k] % n = g.dnext /\ g.dcurr # NULL
       /\ Place(g.buckets[g.dnext], g.dcurr) <= Place(g.buckets[g.dnext], k)

\* What the traversal owes is before it, what it returned is not.
Traversed(g, n) ==
    /\ due \subseteq DOMAIN g.val /\ \A k \in due : Ahead(g, n, k)
    /\ done \subseteq DOMAIN g.val /\ \A k \in done : ~Ahead(g, n, k)

IInv == IF Exists THEN Good(h, NumBuckets(h)) /\ Traversed(h, NumBuckets(h))
                  ELSE h = NoHash /\ due = {} /\ done = {}

-----------------------------------------------------------------------------
(* Induction, and what the recursive definitions compute                   *)

(* A set of numbers that is not empty has a least one.                     *)
LEMMA Least ==
  ASSUME NEW S, S \subseteq Nat, S # {}
  PROVE  \E m \in S : \A n \in S : m <= n
<1>1. PICK R : R = OpToRel(<, Nat)
  OBVIOUS
<1>2. IsWellFoundedOn(R, Nat)
  BY <1>1, NatLessThanWellFounded
<1>3. PICK m \in S : \A n \in S : ~(<<n, m>> \in R)
  BY <1>2, WFMin
<1>4. ASSUME NEW n \in S PROVE m <= n
  <2>1. m \in Nat /\ n \in Nat
    OBVIOUS
  <2>2. ~(<<n, m>> \in R)
    BY <1>3
  <2>3. ~(n < m)
    BY <1>1, <2>1, <2>2 DEF OpToRel
  <2>4. QED
    BY <2>1, <2>3
<1>5. QED
  BY <1>4

(* A set that has 0, and with each number the next one, has all up to N.   *)
LEMMA Upwards ==
  ASSUME NEW N \in Nat, NEW S, 0 \in S, \A n \in 0 .. N - 1 : n \in S => n + 1 \in S
  PROVE  0 .. N \subseteq S
<1>1. PICK T : T = {n \in 0 .. N : n \notin S}
  OBVIOUS
<1>2. SUFFICES ASSUME T # {} PROVE FALSE
  BY <1>1
<1>3. T \subseteq Nat
  BY <1>1
<1>4. PICK m \in T : \A n \in T : m <= n
  BY <1>2, <1>3, Least
<1>5. m # 0 /\ m - 1 \in 0 .. N - 1
  BY <1>1, <1>4
<1>6. m - 1 \in S
  BY <1>1, <1>4, <1>5
<1>7. QED
  BY <1>1, <1>5, <1>6

(* The buckets one behind the other can be had for any number of buckets.  *)
LEMMA UptoExists ==
  ASSUME NEW N \in Nat, NEW B \in [0 .. N - 1 -> Seq(Keys)]
  PROVE  \E u \in [0 .. N -> Seq(Keys)] :
            u = [n \in 0 .. N |-> IF n = 0 THEN <<>> ELSE u[n - 1] \o B[n - 1]]
<1> DEFINE IsUpto(u, m) ==
               u = [n \in 0 .. m |-> IF n = 0 THEN <<>> ELSE u[n - 1] \o B[n - 1]]
           Some(m) == \E u \in [0 .. m -> Seq(Keys)] : IsUpto(u, m)
<1> HIDE DEF Some
<1>1. PICK S : S = {m \in 0 .. N : Some(m)}
  OBVIOUS
<1>2. 0 \in S
  <2>1. PICK u : u = [n \in 0 .. 0 |-> <<>>]
    OBVIOUS
  <2>2. u \in [0 .. 0 -> Seq(Keys)]
    BY <2>1
  <2>3. u = [n \in 0 .. 0 |-> IF n = 0 THEN <<>> ELSE u[n - 1] \o B[n - 1]]
    BY <2>1
  <2>4. Some(0)
    BY <2>2, <2>3 DEF Some
  <2>5. QED
    BY <1>1, <2>4
<1>3. ASSUME NEW m \in 0 .. N - 1, m \in S PROVE m + 1 \in S
  <2>1. PICK u \in [0 .. m -> Seq(Keys)] :
           u = [n \in 0 .. m |-> IF n = 0 THEN <<>> ELSE u[n - 1] \o B[n - 1]]
    BY <1>1, <1>3 DEF Some
  <2>2. PICK s : s = u[m] \o B[m]
    OBVIOUS
  <2>3. u[m] \in Seq(Keys) /\ B[m] \in Seq(Keys)
    OBVIOUS
  <2>4. s \in Seq(Keys)
    BY <2>2, <2>3, ConcatProperties
  <2>5. PICK w : w = [n \in 0 .. m + 1 |-> IF n = m + 1 THEN s ELSE u[n]]
    OBVIOUS
  <2>6. w \in [0 .. m + 1 -> Seq(Keys)]
    BY <2>4, <2>5
  <2>7. ASSUME NEW n \in 0 .. m + 1
        PROVE  w[n] = IF n = 0 THEN <<>> ELSE w[n - 1] \o B[n - 1]
    <3>1. CASE n = m + 1
      <4>1. w[n] = s /\ n # 0 /\ n - 1 = m /\ w[m] = u[m]
        BY <2>5, <3>1
      <4>2. QED
        BY <2>2, <4>1
    <3>2. CASE n # m + 1
      <4>1. n \in 0 .. m /\ w[n] = u[n] /\ (n # 0 => w[n - 1] = u[n - 1])
        BY <2>5, <3>2
      <4>2. u[n] = IF n = 0 THEN <<>> ELSE u[n - 1] \o B[n - 1]
        BY <2>1, <4>1
      <4>3. QED
        BY <4>1, <4>2
    <3>3. QED
      BY <3>1, <3>2
  <2>8. w = [n \in 0 .. m + 1 |-> IF n = 0 THEN <<>> ELSE w[n - 1] \o B[n - 1]]
    BY <2>6, <2>7
  <2>9. Some(m + 1)
    BY <2>6, <2>8 DEF Some
  <2>10. QED
    BY <1>1, <1>3, <2>9
<1>4. 0 .. N \subseteq S
  BY <1>2, <1>3, Upwards
<1>5. N \in S
  BY <1>4
<1>6. QED
  BY <1>1, <1>5 DEF Some

(* The number of buckets of a table, and the bucket of a key.              *)
LEMMA TableFacts ==
  ASSUME NEW n \in Nat \ {0}, NEW g, g.buckets \in [0 .. n - 1 -> Seq(Keys)]
  PROVE  /\ NumBuckets(g) = n /\ DOMAIN g.buckets = 0 .. n - 1
         /\ g.buckets # <<>>
         /\ \A k \in Keys : ComputeHash(g, k) = Code[k] % n /\ Code[k] % n \in 0 .. n - 1
         /\ \A b \in 0 .. n - 1 : g.buckets[b] \in Seq(Keys)
<1>1. DOMAIN g.buckets = 0 .. n - 1
  OBVIOUS
<1>2. Cardinality(0 .. n - 1) = n
  BY FS_Interval
<1>3. NumBuckets(g) = n
  BY <1>1, <1>2 DEF NumBuckets
<1>4. g.buckets # <<>>
  <2>1. 0 \in DOMAIN g.buckets /\ 0 \notin DOMAIN <<>>
    BY <1>1
  <2>2. QED
    BY <2>1
<1>5. ASSUME NEW k \in Keys
      PROVE  ComputeHash(g, k) = Code[k] % n /\ Code[k] % n \in 0 .. n - 1
  <2>1. Code[k] \in Nat
    BY CodeAssumption
  <2>2. Code[k] % n \in 0 .. n - 1
    BY <2>1
  <2>3. QED
    BY <1>3, <2>2 DEF ComputeHash
<1>6. QED
  BY <1>1, <1>3, <1>4, <1>5

\* u[i] is what the first i of n buckets hold, one behind the other.
Upto(u, B, n) == /\ u \in [0 .. n -> Seq(Keys)] /\ u[0] = <<>>
                 /\ \A i \in 0 .. n - 1 : u[i + 1] = u[i] \o B[i]

(* InOrder is all the buckets one behind the other.                        *)
LEMMA InOrderFacts ==
  ASSUME NEW n \in Nat \ {0}, NEW g, g.buckets \in [0 .. n - 1 -> Seq(Keys)]
  PROVE  \E u : Upto(u, g.buckets, n) /\ InOrder(g) = u[n]
<1>1. NumBuckets(g) = n
  BY TableFacts
<1>2. PICK B : B = g.buckets
  OBVIOUS
<1>3. B \in [0 .. n - 1 -> Seq(Keys)]
  BY <1>2
<1>4. PICK v \in [0 .. n -> Seq(Keys)] :
         v = [i \in 0 .. n |-> IF i = 0 THEN <<>> ELSE v[i - 1] \o B[i - 1]]
  BY <1>3, UptoExists
<1>5. PICK u : u = CHOOSE w : w = [i \in 0 .. n |-> IF i = 0 THEN <<>> ELSE w[i - 1] \o B[i - 1]]
  OBVIOUS
<1>6. u = [i \in 0 .. n |-> IF i = 0 THEN <<>> ELSE u[i - 1] \o B[i - 1]]
  BY <1>4, <1>5
<1>7. InOrder(g) = u[n]
  BY <1>1, <1>2, <1>5 DEF InOrder
<1>8. DOMAIN u = 0 .. n /\ u[0] = <<>>
  BY <1>6
<1>9. ASSUME NEW i \in 0 .. n - 1 PROVE u[i + 1] = u[i] \o B[i]
  <2>1. i + 1 \in 0 .. n /\ i + 1 # 0 /\ (i + 1) - 1 = i
    OBVIOUS
  <2>2. \A m \in 0 .. n : m # 0 => u[m] = u[m - 1] \o B[m - 1]
    BY <1>6
  <2>3. QED
    BY <2>1, <2>2
<1>10. PICK S : S = {i \in 0 .. n : u[i] \in Seq(Keys)}
  OBVIOUS
<1>11. 0 \in S
  <2>1. <<>> \in Seq(Keys) /\ 0 \in 0 .. n
    BY EmptySeq
  <2>2. u[0] \in Seq(Keys)
    BY <1>8, <2>1
  <2>3. QED
    BY <1>10, <2>1, <2>2
<1>12. ASSUME NEW i \in 0 .. n - 1, i \in S PROVE i + 1 \in S
  <2>1. u[i] \in Seq(Keys) /\ B[i] \in Seq(Keys)
    BY <1>3, <1>10, <1>12
  <2>2. u[i] \o B[i] \in Seq(Keys)
    BY <2>1, ConcatProperties
  <2>3. u[i + 1] = u[i] \o B[i]
    BY <1>9
  <2>4. i + 1 \in 0 .. n
    OBVIOUS
  <2>5. QED
    BY <1>10, <2>2, <2>3, <2>4
<1>13. 0 .. n \subseteq S
  BY <1>11, <1>12, Upwards
<1>14. u \in [0 .. n -> Seq(Keys)]
  BY <1>6, <1>10, <1>13
<1>15. Upto(u, g.buckets, n)
  BY <1>2, <1>8, <1>9, <1>14 DEF Upto
<1>16. QED
  BY <1>7, <1>15

(* The members of two sequences one behind the other.                      *)
LEMMA ConcatSet ==
  ASSUME NEW s \in Seq(Keys), NEW t \in Seq(Keys)
  PROVE  ToSet(s \o t) = ToSet(s) \cup ToSet(t)
<1>1. \A q : ToSet(q) = Range(q)
  BY DEF Range, ToSet
<1>2. Range(s \o t) = Range(s) \cup Range(t)
  BY RangeConcatenation
<1>3. QED
  BY <1>1, <1>2

(* The members of InOrder are those of the buckets.                        *)
LEMMA InOrderSet ==
  ASSUME NEW n \in Nat \ {0}, NEW g, g.buckets \in [0 .. n - 1 -> Seq(Keys)]
  PROVE  /\ InOrder(g) \in Seq(Keys)
         /\ \A k : k \in ToSet(InOrder(g)) <=> \E b \in 0 .. n - 1 : k \in ToSet(g.buckets[b])
<1>0. PICK u : Upto(u, g.buckets, n) /\ InOrder(g) = u[n]
  BY InOrderFacts
<1>1. /\ u \in [0 .. n -> Seq(Keys)] /\ u[0] = <<>> /\ InOrder(g) = u[n]
      /\ \A i \in 0 .. n - 1 : u[i + 1] = u[i] \o g.buckets[i]
  BY <1>0 DEF Upto
<1> DEFINE Right(i) ==
             \A k : k \in ToSet(u[i]) <=> \E b \in 0 .. i - 1 : k \in ToSet(g.buckets[b])
<1> HIDE DEF Right
<1>2. PICK S : S = {i \in 0 .. n : Right(i)}
  OBVIOUS
<1>3. 0 \in S
  <2>1. ToSet(u[0]) = {} /\ 0 .. 0 - 1 = {}
    BY <1>1 DEF ToSet
  <2>2. Right(0)
    BY <2>1 DEF Right
  <2>3. QED
    BY <1>2, <2>2
<1>4. ASSUME NEW i \in 0 .. n - 1, i \in S PROVE i + 1 \in S
  <2>1. u[i] \in Seq(Keys) /\ g.buckets[i] \in Seq(Keys)
    <3>1. i \in 0 .. n
      OBVIOUS
    <3>2. u[i] \in Seq(Keys)
      BY <1>1, <3>1
    <3>3. g.buckets[i] \in Seq(Keys)
      OBVIOUS
    <3>4. QED
      BY <3>2, <3>3
  <2>2. u[i + 1] = u[i] \o g.buckets[i]
    BY <1>1
  <2>3. ToSet(u[i + 1]) = ToSet(u[i]) \cup ToSet(g.buckets[i])
    BY <2>1, <2>2, ConcatSet
  <2>4. 0 .. (i + 1) - 1 = (0 .. i - 1) \cup {i}
    OBVIOUS
  <2>5. \A k : k \in ToSet(u[i]) <=> \E b \in 0 .. i - 1 : k \in ToSet(g.buckets[b])
    BY <1>2, <1>4 DEF Right
  <2>6. Right(i + 1)
    BY <2>3, <2>4, <2>5 DEF Right
  <2>7. i + 1 \in 0 .. n
    OBVIOUS
  <2>8. QED
    BY <1>2, <2>6, <2>7
<1>5. 0 .. n \subseteq S
  BY <1>3, <1>4, Upwards
<1>6. Right(n)
  BY <1>2, <1>5
<1>7. u[n] \in Seq(Keys)
  BY <1>1
<1>8. QED
  BY <1>1, <1>6, <1>7 DEF Right

\* Of n buckets only the one at c has another length.
Longer(before, after, n, c, d) ==
    /\ before.buckets \in [0 .. n - 1 -> Seq(Keys)] /\ after.buckets \in [0 .. n - 1 -> Seq(Keys)]
    /\ \A b \in (0 .. n - 1) \ {c} : after.buckets[b] = before.buckets[b]
    /\ Len(after.buckets[c]) = Len(before.buckets[c]) + d

(* When one bucket is longer by d, so is the whole.                        *)
LEMMA InOrderLen ==
  ASSUME NEW n \in Nat \ {0}, NEW before, NEW after, NEW c \in 0 .. n - 1, NEW d \in Int,
         Longer(before, after, n, c, d)
  PROVE  Len(InOrder(after)) = Len(InOrder(before)) + d
<1>0. /\ before.buckets \in [0 .. n - 1 -> Seq(Keys)] /\ after.buckets \in [0 .. n - 1 -> Seq(Keys)]
      /\ \A b \in (0 .. n - 1) \ {c} : after.buckets[b] = before.buckets[b]
      /\ Len(after.buckets[c]) = Len(before.buckets[c]) + d
  BY DEF Longer
<1>1. PICK w : Upto(w, before.buckets, n) /\ InOrder(before) = w[n]
  BY <1>0, InOrderFacts
<1>2. PICK v : Upto(v, after.buckets, n) /\ InOrder(after) = v[n]
  BY <1>0, InOrderFacts
<1> DEFINE Right(i) == Len(v[i]) = Len(w[i]) + (IF i > c THEN d ELSE 0)
<1> HIDE DEF Right
<1>3. PICK S : S = {i \in 0 .. n : Right(i)}
  OBVIOUS
<1>4. 0 \in S
  <2>1. Len(w[0]) = 0 /\ Len(v[0]) = 0
    BY <1>1, <1>2 DEF Upto
  <2>2. Right(0)
    BY <2>1 DEF Right
  <2>3. QED
    BY <1>3, <2>2
<1>5. ASSUME NEW i \in 0 .. n - 1, i \in S PROVE i + 1 \in S
  <2>1. /\ w[i] \in Seq(Keys) /\ before.buckets[i] \in Seq(Keys)
        /\ v[i] \in Seq(Keys) /\ after.buckets[i] \in Seq(Keys)
    <3>1. i \in 0 .. n
      OBVIOUS
    <3>2. w[i] \in Seq(Keys) /\ v[i] \in Seq(Keys)
      BY <1>1, <1>2, <3>1 DEF Upto
    <3>3. before.buckets[i] \in Seq(Keys) /\ after.buckets[i] \in Seq(Keys)
      BY <1>0
    <3>4. QED
      BY <3>2, <3>3
  <2>2. w[i + 1] = w[i] \o before.buckets[i] /\ v[i + 1] = v[i] \o after.buckets[i]
    BY <1>1, <1>2 DEF Upto
  <2>3. Len(w[i + 1]) = Len(w[i]) + Len(before.buckets[i])
    BY <2>1, <2>2, ConcatProperties
  <2>4. Len(v[i + 1]) = Len(v[i]) + Len(after.buckets[i])
    BY <2>1, <2>2, ConcatProperties
  <2>5. Len(v[i]) = Len(w[i]) + (IF i > c THEN d ELSE 0)
    BY <1>3, <1>5 DEF Right
  <2>6. Len(after.buckets[i]) = Len(before.buckets[i]) + (IF i = c THEN d ELSE 0)
    <3>1. CASE i = c
      BY <1>0, <3>1
    <3>2. CASE i # c
      <4>1. after.buckets[i] = before.buckets[i] /\ Len(before.buckets[i]) \in Nat
        BY <1>0, <2>1, <3>2, LenProperties
      <4>2. QED
        BY <3>2, <4>1
    <3>3. QED
      BY <3>1, <3>2
  <2>7. /\ Len(w[i]) \in Nat /\ Len(v[i]) \in Nat
        /\ Len(after.buckets[i]) \in Nat /\ Len(before.buckets[i]) \in Nat
    BY <2>1, LenProperties
  <2>8. Len(v[i + 1]) = Len(w[i + 1]) + (IF i + 1 > c THEN d ELSE 0)
    <3>1. PICK lu, lg : lu = Len(w[i]) /\ lg = Len(before.buckets[i])
      OBVIOUS
    <3>2. lu \in Nat /\ lg \in Nat
      BY <2>7, <3>1
    <3>3. Len(v[i + 1]) = (lu + (IF i > c THEN d ELSE 0)) + (lg + (IF i = c THEN d ELSE 0))
      BY <2>4, <2>5, <2>6, <3>1
    <3>4. Len(w[i + 1]) = lu + lg
      BY <2>3, <3>1
    <3>5. \/ i > c /\ i # c /\ i + 1 > c
          \/ ~(i > c) /\ i = c /\ i + 1 > c
          \/ ~(i > c) /\ i # c /\ ~(i + 1 > c)
      OBVIOUS
    <3>6. QED
      BY <3>2, <3>3, <3>4, <3>5
  <2>9. Right(i + 1) /\ i + 1 \in 0 .. n
    BY <2>8 DEF Right
  <2>10. QED
    BY <1>3, <2>9
<1>6. 0 .. n \subseteq S
  BY <1>4, <1>5, Upwards
<1>7. Right(n) /\ n > c
  BY <1>3, <1>6
<1>8. QED
  BY <1>1, <1>2, <1>7 DEF Right

(* A table of empty buckets has nothing.                                   *)
LEMMA InOrderEmpty ==
  ASSUME NEW n \in Nat \ {0}, NEW g, g.buckets = [b \in 0 .. n - 1 |-> <<>>]
  PROVE  Len(InOrder(g)) = 0
<1>1. g.buckets \in [0 .. n - 1 -> Seq(Keys)]
  BY EmptySeq
<1>2. InOrder(g) \in Seq(Keys)
      /\ \A k : k \in ToSet(InOrder(g)) <=> \E b \in 0 .. n - 1 : k \in ToSet(g.buckets[b])
  BY <1>1, InOrderSet
<1>3. \A b \in 0 .. n - 1 : ToSet(g.buckets[b]) = {}
  BY DEF ToSet
<1>4. ToSet(InOrder(g)) = {}
  BY <1>2, <1>3
<1>5. SUFFICES ASSUME Len(InOrder(g)) # 0 PROVE FALSE
  OBVIOUS
<1>6. 1 \in DOMAIN InOrder(g)
  BY <1>2, <1>5
<1>7. QED
  BY <1>4, <1>6 DEF ToSet

-----------------------------------------------------------------------------
(* Buckets                                                                 *)

(* A member of a bucket is at its place.                                   *)
LEMMA PlaceFacts ==
  ASSUME NEW s \in Seq(Keys), NEW k \in ToSet(s)
  PROVE  /\ Place(s, k) \in 1 .. Len(s) /\ s[Place(s, k)] = k
         /\ NoRepeat(s) => \A i \in 1 .. Len(s) : s[i] = k => i = Place(s, k)
<1>1. DOMAIN s = 1 .. Len(s)
  OBVIOUS
<1>2. \E i \in DOMAIN s : s[i] = k
  BY DEF ToSet
<1>3. Place(s, k) \in DOMAIN s /\ s[Place(s, k)] = k
  BY <1>2 DEF Place
<1>4. QED
  BY <1>1, <1>3 DEF NoRepeat

(* An entry at the head moves the others by one.                           *)
LEMMA ConsFacts ==
  ASSUME NEW s \in Seq(Keys), NEW k \in Keys, k \notin ToSet(s), NoRepeat(s)
  PROVE  \E t : /\ t = <<k>> \o s /\ t \in Seq(Keys) /\ Len(t) = Len(s) + 1
                /\ NoRepeat(t) /\ ToSet(t) = ToSet(s) \cup {k}
                /\ \A x \in ToSet(s) : Place(t, x) = Place(s, x) + 1
<1>1. PICK t : t = <<k>> \o s
  OBVIOUS
<1>2. <<k>> \in Seq(Keys) /\ Len(<<k>>) = 1 /\ <<k>>[1] = k
  OBVIOUS
<1>3. /\ t \in Seq(Keys) /\ Len(t) = Len(s) + 1
      /\ \A i \in 1 .. Len(s) + 1 : t[i] = IF i <= 1 THEN <<k>>[i] ELSE s[i - 1]
  BY <1>1, <1>2, ConcatProperties
<1>4. Len(s) \in Nat /\ DOMAIN s = 1 .. Len(s) /\ DOMAIN t = 1 .. Len(s) + 1
  BY <1>3
<1>5. t[1] = k /\ \A i \in 1 .. Len(s) : t[i + 1] = s[i]
  <2>1. t[1] = k
    BY <1>2, <1>3, <1>4
  <2>2. ASSUME NEW i \in 1 .. Len(s) PROVE t[i + 1] = s[i]
    <3>1. i + 1 \in 1 .. Len(s) + 1 /\ ~(i + 1 <= 1) /\ (i + 1) - 1 = i
      BY <1>4
    <3>2. QED
      BY <1>3, <3>1
  <2>3. QED
    BY <2>1, <2>2
<1>6. \A i \in 1 .. Len(s) : s[i] # k
  BY <1>4 DEF ToSet
<1>7. NoRepeat(t)
  <2>1. ASSUME NEW i \in 1 .. Len(t), NEW j \in 1 .. Len(t), t[i] = t[j] PROVE i = j
    <3>1. (i = 1 \/ i - 1 \in 1 .. Len(s)) /\ (j = 1 \/ j - 1 \in 1 .. Len(s))
      BY <1>3, <1>4
    <3>2. (i # 1 => t[i] = s[i - 1]) /\ (j # 1 => t[j] = s[j - 1])
      BY <1>3, <1>4
    <3>3. CASE i # 1 /\ j # 1
      <4>1. i - 1 = j - 1
        BY <2>1, <3>1, <3>2, <3>3 DEF NoRepeat
      <4>2. QED
        BY <4>1
    <3>4. QED
      BY <1>5, <1>6, <2>1, <3>1, <3>2, <3>3
  <2>2. QED
    BY <2>1 DEF NoRepeat
<1>8. ToSet(t) = ToSet(s) \cup {k}
  <2>1. ToSet(<<k>>) = {k}
    BY DEF ToSet
  <2>2. ToSet(<<k>> \o s) = ToSet(<<k>>) \cup ToSet(s)
    BY <1>2, ConcatSet
  <2>3. QED
    BY <1>1, <2>1, <2>2
<1>9. ASSUME NEW x \in ToSet(s) PROVE Place(t, x) = Place(s, x) + 1
  <2>1. Place(s, x) \in 1 .. Len(s) /\ s[Place(s, x)] = x
    BY PlaceFacts
  <2>2. t[Place(s, x) + 1] = x
    BY <1>5, <2>1
  <2>3. Place(s, x) + 1 \in 1 .. Len(t)
    BY <1>3, <1>4, <2>1
  <2>4. x \in ToSet(t)
    BY <1>8
  <2>5. QED
    BY <1>3, <1>7, <2>2, <2>3, <2>4, PlaceFacts
<1>10. QED
  BY <1>1, <1>3, <1>7, <1>8, <1>9

(* An entry that is taken out moves those behind it by one.                *)
LEMMA RemoveFacts ==
  ASSUME NEW s \in Seq(Keys), NEW k \in ToSet(s), NoRepeat(s)
  PROVE  \E t : /\ t = RemoveAt(s, Place(s, k)) /\ t \in Seq(Keys) /\ Len(t) = Len(s) - 1
                /\ NoRepeat(t) /\ ToSet(t) = ToSet(s) \ {k}
                /\ \A x \in ToSet(t) :
                      Place(t, x) = IF Place(s, x) < Place(s, k) THEN Place(s, x)
                                                                 ELSE Place(s, x) - 1
<1>1. PICK p : p = Place(s, k)
  OBVIOUS
<1>2. p \in 1 .. Len(s) /\ s[p] = k
  BY <1>1, PlaceFacts
<1>3. Len(s) \in Nat /\ DOMAIN s = 1 .. Len(s) /\ \A i \in 1 .. Len(s) : s[i] \in Keys
  OBVIOUS
<1>4. PICK l : l = SubSeq(s, 1, p - 1)
  OBVIOUS
<1>5. PICK r : r = SubSeq(s, p + 1, Len(s))
  OBVIOUS
<1>6. l \in Seq(Keys) /\ Len(l) = p - 1 /\ \A i \in 1 .. p - 1 : l[i] = s[i]
  <2>1. 1 \in Int /\ p - 1 \in Int /\ \A i \in 1 .. p - 1 : s[i] \in Keys
    BY <1>2, <1>3
  <2>2. /\ l \in Seq(Keys) /\ Len(l) = IF 1 <= p - 1 THEN (p - 1) - 1 + 1 ELSE 0
        /\ \A i \in 1 .. (p - 1) - 1 + 1 : l[i] = s[1 + i - 1]
    BY <1>4, <2>1, SubSeqProperties
  <2>3. Len(l) = p - 1
    BY <1>2, <2>2
  <2>4. ASSUME NEW i \in 1 .. p - 1 PROVE l[i] = s[i]
    <3>1. i \in 1 .. (p - 1) - 1 + 1 /\ 1 + i - 1 = i
      BY <1>2
    <3>2. QED
      BY <2>2, <3>1
  <2>5. QED
    BY <2>2, <2>3, <2>4
<1>7. r \in Seq(Keys) /\ Len(r) = Len(s) - p /\ \A i \in 1 .. Len(s) - p : r[i] = s[p + i]
  <2>1. p + 1 \in Int /\ Len(s) \in Int /\ \A i \in p + 1 .. Len(s) : s[i] \in Keys
    BY <1>2, <1>3
  <2>2. /\ r \in Seq(Keys) /\ Len(r) = IF p + 1 <= Len(s) THEN Len(s) - (p + 1) + 1 ELSE 0
        /\ \A i \in 1 .. Len(s) - (p + 1) + 1 : r[i] = s[(p + 1) + i - 1]
    BY <1>5, <2>1, SubSeqProperties
  <2>3. Len(r) = Len(s) - p
    <3>1. Len(r) = IF p + 1 <= Len(s) THEN Len(s) - (p + 1) + 1 ELSE 0
      BY <2>2
    <3>2. p \in Nat /\ Len(s) \in Nat /\ p <= Len(s)
      BY <1>2, <1>3
    <3>3. QED
      BY <3>1, <3>2
  <2>4. ASSUME NEW i \in 1 .. Len(s) - p PROVE r[i] = s[p + i]
    <3>1. i \in 1 .. Len(s) - (p + 1) + 1 /\ (p + 1) + i - 1 = p + i
      BY <1>2, <1>3
    <3>2. QED
      BY <2>2, <3>1
  <2>5. QED
    BY <2>2, <2>3, <2>4
<1>8. PICK t : t = l \o r
  OBVIOUS
<1>9. t = RemoveAt(s, Place(s, k))
  BY <1>1, <1>4, <1>5, <1>8 DEF RemoveAt
<1>10. /\ t \in Seq(Keys) /\ Len(t) = Len(l) + Len(r)
       /\ \A i \in 1 .. Len(l) + Len(r) : t[i] = IF i <= Len(l) THEN l[i] ELSE r[i - Len(l)]
  BY <1>6, <1>7, <1>8, ConcatProperties
<1>11. Len(t) = Len(s) - 1
  BY <1>2, <1>3, <1>6, <1>7, <1>10
<1>12. ASSUME NEW i \in 1 .. Len(t) PROVE t[i] = IF i < p THEN s[i] ELSE s[i + 1]
  <2>1. i \in 1 .. Len(l) + Len(r) /\ Len(l) = p - 1
    BY <1>6, <1>10
  <2>2. CASE i < p
    <3>1. i <= Len(l) /\ i \in 1 .. p - 1
      BY <1>2, <2>1, <2>2
    <3>2. QED
      BY <1>6, <1>10, <2>1, <2>2, <3>1
  <2>3. CASE ~(i < p)
    <3>1. ~(i <= Len(l)) /\ i - Len(l) \in 1 .. Len(s) - p /\ p + (i - Len(l)) = i + 1
      BY <1>2, <1>3, <1>11, <2>1, <2>3
    <3>2. t[i] = r[i - Len(l)]
      BY <1>10, <2>1, <3>1
    <3>3. r[i - Len(l)] = s[p + (i - Len(l))]
      BY <1>7, <3>1
    <3>4. QED
      BY <2>3, <3>1, <3>2, <3>3
  <2>4. QED
    BY <2>2, <2>3
<1>13. DOMAIN t = 1 .. Len(t) /\ Len(t) \in Nat
  BY <1>10
<1>14. ASSUME NEW i \in 1 .. Len(t)
       PROVE  \E j \in 1 .. Len(s) : t[i] = s[j] /\ j # p /\ i = IF j < p THEN j ELSE j - 1
  <2>1. CASE i < p
    BY <1>3, <1>11, <1>12, <2>1
  <2>2. CASE ~(i < p)
    <3>1. i + 1 \in 1 .. Len(s) /\ i + 1 # p /\ ~(i + 1 < p) /\ (i + 1) - 1 = i
      BY <1>2, <1>3, <1>11, <2>2
    <3>2. QED
      BY <1>12, <2>2, <3>1
  <2>3. QED
    BY <2>1, <2>2
<1>15. ASSUME NEW j \in 1 .. Len(s), j # p
       PROVE  \E i \in 1 .. Len(t) : t[i] = s[j] /\ i = IF j < p THEN j ELSE j - 1
  <2>1. CASE j < p
    <3>1. j \in 1 .. Len(t)
      BY <1>2, <1>3, <1>11, <2>1
    <3>2. QED
      BY <1>12, <2>1, <3>1
  <2>2. CASE ~(j < p)
    <3>1. j - 1 \in 1 .. Len(t) /\ ~(j - 1 < p) /\ (j - 1) + 1 = j
      BY <1>2, <1>3, <1>11, <1>15, <2>2
    <3>2. QED
      BY <1>12, <2>2, <3>1
  <2>3. QED
    BY <2>1, <2>2
<1>16. NoRepeat(t)
  <2>1. ASSUME NEW a \in 1 .. Len(t), NEW b \in 1 .. Len(t), t[a] = t[b] PROVE a = b
    <3>1. PICK i \in 1 .. Len(s) : t[a] = s[i] /\ i # p /\ a = IF i < p THEN i ELSE i - 1
      BY <1>14
    <3>2. PICK j \in 1 .. Len(s) : t[b] = s[j] /\ j # p /\ b = IF j < p THEN j ELSE j - 1
      BY <1>14
    <3>3. i = j
      BY <2>1, <3>1, <3>2 DEF NoRepeat
    <3>4. QED
      BY <3>1, <3>2, <3>3
  <2>2. QED
    BY <2>1 DEF NoRepeat
<1>17. ToSet(t) = ToSet(s) \ {k}
  <2>1. ASSUME NEW x \in ToSet(t) PROVE x \in ToSet(s) \ {k}
    <3>1. PICK i \in 1 .. Len(t) : t[i] = x
      BY <1>13 DEF ToSet
    <3>2. PICK j \in 1 .. Len(s) : t[i] = s[j] /\ j # p
      BY <1>14
    <3>3. s[j] # k
      BY <1>2, <3>2 DEF NoRepeat
    <3>4. QED
      BY <1>3, <3>1, <3>2, <3>3 DEF ToSet
  <2>2. ASSUME NEW x \in ToSet(s) \ {k} PROVE x \in ToSet(t)
    <3>1. PICK j \in 1 .. Len(s) : s[j] = x
      BY <1>3 DEF ToSet
    <3>2. j # p
      BY <1>2, <3>1
    <3>3. PICK i \in 1 .. Len(t) : t[i] = s[j]
      BY <1>15, <3>2
    <3>4. QED
      BY <1>13, <3>1, <3>3 DEF ToSet
  <2>3. QED
    BY <2>1, <2>2
<1>18. ASSUME NEW x \in ToSet(t)
       PROVE  Place(t, x) = IF Place(s, x) < Place(s, k) THEN Place(s, x) ELSE Place(s, x) - 1
  <2>1. x \in ToSet(s) /\ x # k
    BY <1>17
  <2>2. Place(s, x) \in 1 .. Len(s) /\ s[Place(s, x)] = x
    BY <2>1, PlaceFacts
  <2>3. Place(s, x) # p
    BY <1>2, <2>1, <2>2
  <2>4. PICK i \in 1 .. Len(t) : /\ t[i] = s[Place(s, x)]
                                 /\ i = IF Place(s, x) < p THEN Place(s, x) ELSE Place(s, x) - 1
    BY <1>15, <2>2, <2>3
  <2>5. i = Place(t, x)
    BY <1>10, <1>16, <2>2, <2>4, PlaceFacts
  <2>6. QED
    BY <1>1, <2>4, <2>5
<1>19. QED
  BY <1>9, <1>10, <1>11, <1>16, <1>17, <1>18

-----------------------------------------------------------------------------
(* Tables                                                                  *)

(* The map with k written, and the map without k.                          *)
Written(m, k, v) == [j \in DOMAIN m \cup {k} |-> IF j = k THEN v ELSE m[j]]
Deleted(m, k) == [j \in DOMAIN m \ {k} |-> m[j]]

(* Writing and deleting a key of a map.                                    *)
LEMMA MapFacts ==
  ASSUME NEW m \in Maps
  PROVE  /\ DOMAIN m \subseteq Keys /\ \A k \in DOMAIN m : m[k] \in Values
         /\ \A k \in Keys, v \in Values : Written(m, k, v) \in Maps
         /\ \A k \in DOMAIN m, v \in Values : [m EXCEPT ![k] = v] = Written(m, k, v)
         /\ \A k \in Keys : Deleted(m, k) \in Maps
<1>1. PICK D \in SUBSET Keys : m \in [D -> Values]
  BY DEF Maps
<1>2. ASSUME NEW k \in Keys, NEW v \in Values PROVE Written(m, k, v) \in Maps
  <2>1. Written(m, k, v) \in [D \cup {k} -> Values] /\ D \cup {k} \in SUBSET Keys
    BY <1>1 DEF Written
  <2>2. QED
    BY <2>1 DEF Maps
<1>3. ASSUME NEW k \in DOMAIN m, NEW v \in Values
      PROVE  [m EXCEPT ![k] = v] = Written(m, k, v)
  <2>1. DOMAIN m \cup {k} = DOMAIN m
    OBVIOUS
  <2>2. QED
    BY <1>1, <2>1 DEF Written
<1>4. ASSUME NEW k \in Keys PROVE Deleted(m, k) \in Maps
  <2>1. Deleted(m, k) \in [D \ {k} -> Values] /\ D \ {k} \in SUBSET Keys
    BY <1>1 DEF Deleted
  <2>2. QED
    BY <2>1 DEF Maps
<1>5. DOMAIN m \subseteq Keys /\ \A k \in DOMAIN m : m[k] \in Values
  BY <1>1
<1>6. QED
  BY <1>2, <1>3, <1>4, <1>5

(* The map without anything.                                               *)
LEMMA EmptyMap == <<>> \in Maps /\ DOMAIN <<>> = {}
<1>1. <<>> \in Seq(Values) /\ Len(<<>>) = 0
  BY EmptySeq
<1>2. <<>> \in [1 .. 0 -> Values] /\ 1 .. 0 = {}
  BY <1>1, LenProperties
<1>3. QED
  BY <1>2 DEF Maps

(* A new table.                                                            *)
LEMMA CreatedFacts ==
  ASSUME NEW size \in Nat
  PROVE  \E n \in Nat \ {0} : /\ Good(Created(size), n) /\ Created(size).val = <<>>
                              /\ Created(size).buckets = [b \in 0 .. n - 1 |-> <<>>]
                              /\ Created(size).dcurr = NULL
<1>1. PICK n : n = IF size < MinSize THEN MinSize ELSE size
  OBVIOUS
<1>2. n \in Nat \ {0}
  BY <1>1 DEF MinSize
<1>3. PICK B : B = [b \in 0 .. n - 1 |-> <<>>]
  OBVIOUS
<1>4. B \in [0 .. n - 1 -> Seq(Keys)] /\ B[0] = <<>>
  BY <1>2, <1>3, EmptySeq
<1>5. PICK g : g = Created(size)
  OBVIOUS
<1>6. g = [buckets |-> B, val |-> <<>>, tot |-> 0, dnext |-> 0, dcurr |-> NULL]
  BY <1>1, <1>3, <1>4, <1>5 DEF Created, Rewind, First, NoHash
<1>7. g \in ATable(n)
  BY <1>2, <1>4, <1>6, EmptyMap DEF ATable
<1>8. /\ g.buckets = B /\ g.val = <<>> /\ g.tot = 0 /\ g.dcurr = NULL
  BY <1>6
<1>9. \A b \in 0 .. n - 1 : B[b] = <<>> /\ Len(B[b]) = 0 /\ ToSet(B[b]) = {}
  BY <1>3 DEF ToSet
<1>10. \A k \in Keys : Code[k] % n \in 0 .. n - 1
  BY <1>2, <1>4, <1>8, TableFacts
<1>11. InPlace(g, n) /\ Once(g, n) /\ Valued(g, n) /\ Standing(g, n)
  <2>1. InPlace(g, n)
    BY <1>8, <1>9 DEF InPlace
  <2>2. Once(g, n)
    BY <1>8, <1>9 DEF Once, NoRepeat
  <2>3. Valued(g, n)
    BY <1>8, <1>9, <1>10, EmptyMap DEF Valued
  <2>4. QED
    BY <1>8, <2>1, <2>2, <2>3 DEF Standing
<1>12. Len(InOrder(g)) = 0
  BY <1>2, <1>3, <1>8, InOrderEmpty
<1>13. Good(g, n)
  BY <1>2, <1>7, <1>8, <1>11, <1>12 DEF Good
<1>14. QED
  BY <1>2, <1>3, <1>5, <1>8, <1>13

(* The parts of a good table.                                              *)
LEMMA GoodFacts ==
  ASSUME NEW g, NEW n, Good(g, n)
  PROVE  /\ n \in Nat \ {0} /\ g.buckets \in [0 .. n - 1 -> Seq(Keys)]
         /\ g.val \in Maps /\ g.tot \in Nat /\ g.dnext \in 0 .. n /\ g.dcurr \in Keys \cup {NULL}
         /\ NumBuckets(g) = n /\ g.buckets # <<>>
         /\ \A k \in Keys : /\ ComputeHash(g, k) = Code[k] % n /\ Code[k] % n \in 0 .. n - 1
                            /\ g.buckets[Code[k] % n] \in Seq(Keys)
                            /\ NoRepeat(g.buckets[Code[k] % n])
         /\ \A b \in 0 .. n - 1 : \A k \in ToSet(g.buckets[b]) : k \in Keys /\ Code[k] % n = b
<1>1. /\ n \in Nat \ {0} /\ g.buckets \in [0 .. n - 1 -> Seq(Keys)]
      /\ g.val \in Maps /\ g.tot \in Nat /\ g.dnext \in 0 .. n /\ g.dcurr \in Keys \cup {NULL}
  BY DEF Good, ATable
<1>2. /\ NumBuckets(g) = n /\ g.buckets # <<>>
      /\ \A k \in Keys : ComputeHash(g, k) = Code[k] % n /\ Code[k] % n \in 0 .. n - 1
      /\ \A b \in 0 .. n - 1 : g.buckets[b] \in Seq(Keys)
  BY <1>1, TableFacts
<1>3. \A b \in 0 .. n - 1 : NoRepeat(g.buckets[b])
  BY DEF Good, Once
<1>4. ASSUME NEW b \in 0 .. n - 1, NEW k \in ToSet(g.buckets[b])
      PROVE  k \in Keys /\ Code[k] % n = b
  <2>1. g.buckets[b] \in Seq(Keys)
    BY <1>2
  <2>2. Place(g.buckets[b], k) \in 1 .. Len(g.buckets[b])
        /\ g.buckets[b][Place(g.buckets[b], k)] = k
    BY <2>1, PlaceFacts
  <2>3. QED
    BY <2>1, <2>2 DEF Good, InPlace
<1>5. QED
  BY <1>1, <1>2, <1>3, <1>4

(* A search finds the value of a key that has an entry.                    *)
LEMMA FindFacts ==
  ASSUME NEW g, NEW n, Good(g, n), NEW k \in Keys
  PROVE  /\ Find(g, k) # NULL <=> k \in DOMAIN g.val
         /\ k \in DOMAIN g.val => Find(g, k) = g.val[k]
<1>1. ComputeHash(g, k) = Code[k] % n /\ g.val \in Maps
  BY GoodFacts
<1>2. k \in DOMAIN g.val <=> k \in ToSet(g.buckets[Code[k] % n])
  BY DEF Good, Valued
<1>3. k \in DOMAIN g.val => g.val[k] # NULL
  BY <1>1, MapFacts, NullAssumption
<1>4. QED
  BY <1>1, <1>2, <1>3 DEF Find

\* g with the bucket t at c, the values m, d entries more and x as dcurr.
Changed(g, c, t, m, d, x) ==
    [buckets |-> [g.buckets EXCEPT ![c] = t], val |-> m, tot |-> g.tot + d,
     dnext |-> g.dnext, dcurr |-> x]

\* t is a bucket at c for the values m, with d entries more than that of g.
Fits(g, n, c, t, m, d) ==
    /\ Len(t) = Len(g.buckets[c]) + d /\ NoRepeat(t)
    /\ \A k \in ToSet(t) : Code[k] % n = c
    /\ \A k \in Keys : k \in DOMAIN m <=> IF Code[k] % n = c THEN k \in ToSet(t)
                                                             ELSE k \in DOMAIN g.val

(* A table of which one bucket was changed.                                *)
LEMMA ChangeGood ==
  ASSUME NEW g, NEW n, Good(g, n), NEW c \in 0 .. n - 1, NEW t \in Seq(Keys), NEW m \in Maps,
         NEW d \in Int, NEW x \in Keys \cup {NULL},
         Fits(g, n, c, t, m, d), Standing(Changed(g, c, t, m, d, x), n)
  PROVE  Good(Changed(g, c, t, m, d, x), n)
<1> PICK r : r = Changed(g, c, t, m, d, x)
  OBVIOUS
<1>0. /\ Len(t) = Len(g.buckets[c]) + d /\ NoRepeat(t) /\ Standing(r, n)
      /\ \A k \in ToSet(t) : Code[k] % n = c
      /\ \A k \in Keys : k \in DOMAIN m <=> IF Code[k] % n = c THEN k \in ToSet(t)
                                                               ELSE k \in DOMAIN g.val
  BY DEF Fits
<1>1. /\ n \in Nat \ {0} /\ g.buckets \in [0 .. n - 1 -> Seq(Keys)]
      /\ g.tot \in Nat /\ g.dnext \in 0 .. n
      /\ \A k \in Keys : Code[k] % n \in 0 .. n - 1
  BY GoodFacts
<1>2. PICK B : B = [g.buckets EXCEPT ![c] = t]
  OBVIOUS
<1>3. /\ B \in [0 .. n - 1 -> Seq(Keys)] /\ B[c] = t
      /\ \A b \in (0 .. n - 1) \ {c} : B[b] = g.buckets[b]
  BY <1>1, <1>2
<1>4. /\ r.buckets = B /\ r.val = m /\ r.tot = g.tot + d /\ r.dnext = g.dnext /\ r.dcurr = x
  BY <1>2 DEF Changed
<1>5. Len(InOrder(r)) = Len(InOrder(g)) + d
  <2>1. Longer(g, r, n, c, d)
    BY <1>0, <1>1, <1>3, <1>4 DEF Longer
  <2>2. n \in Nat \ {0}
    BY <1>1
  <2>3. QED
    BY <2>1, <2>2, InOrderLen
<1>6. r.tot = Len(InOrder(r))
  BY <1>4, <1>5 DEF Good
<1>7. InOrder(r) \in Seq(Keys)
  BY <1>1, <1>3, <1>4, InOrderSet
<1>8. r.tot \in Nat
  BY <1>6, <1>7, LenProperties
<1>9. r \in ATable(n)
  <2>1. r = [buckets |-> B, val |-> m, tot |-> r.tot, dnext |-> g.dnext, dcurr |-> x]
    BY <1>2, <1>4 DEF Changed
  <2>2. QED
    BY <1>1, <1>3, <1>8, <2>1 DEF ATable
<1>10. InPlace(r, n)
  <2>1. ASSUME NEW b \in 0 .. n - 1, NEW i \in 1 .. Len(B[b]) PROVE Code[B[b][i]] % n = b
    <3>1. CASE b = c
      <4>1. t[i] \in ToSet(t)
        BY <1>3, <3>1 DEF ToSet
      <4>2. QED
        BY <1>0, <1>3, <3>1, <4>1
    <3>2. CASE b # c
      BY <1>3, <3>2 DEF Good, InPlace
    <3>3. QED
      BY <3>1, <3>2
  <2>2. QED
    BY <1>4, <2>1 DEF InPlace
<1>11. Once(r, n)
  BY <1>0, <1>3, <1>4 DEF Good, Once
<1>12. Valued(r, n)
  <2>1. ASSUME NEW k \in Keys PROVE k \in DOMAIN m <=> k \in ToSet(B[Code[k] % n])
    <3>1. CASE Code[k] % n = c
      BY <1>0, <1>3, <3>1
    <3>2. CASE Code[k] % n # c
      <4>1. B[Code[k] % n] = g.buckets[Code[k] % n]
        BY <1>1, <1>3, <3>2
      <4>2. k \in DOMAIN g.val <=> k \in ToSet(g.buckets[Code[k] % n])
        BY DEF Good, Valued
      <4>3. QED
        BY <1>0, <3>2, <4>1, <4>2
    <3>3. QED
      BY <3>1, <3>2
  <2>2. QED
    BY <1>4, <2>1 DEF Valued
<1>13. QED
  BY <1>0, <1>1, <1>6, <1>9, <1>10, <1>11, <1>12 DEF Good

(* vely_add_hash writes one key, and moves no other entry past the         *)
(* traversal.                                                              *)
LEMMA AddFacts ==
  ASSUME NEW g, NEW n, Good(g, n), NEW k \in Keys, NEW v \in Values
  PROVE  \E r : /\ r = Add(g, k, v) /\ Good(r, n) /\ r.val = Written(g.val, k, v)
                /\ \A x \in DOMAIN g.val : Ahead(r, n, x) <=> Ahead(g, n, x)
<1>1. /\ n \in Nat \ {0} /\ g.buckets \in [0 .. n - 1 -> Seq(Keys)]
      /\ g.val \in Maps /\ g.tot \in Nat /\ g.dnext \in 0 .. n /\ g.dcurr \in Keys \cup {NULL}
  BY GoodFacts
<1>2. g = [buckets |-> g.buckets, val |-> g.val, tot |-> g.tot, dnext |-> g.dnext,
           dcurr |-> g.dcurr]
  BY DEF Good, ATable
<1>3. PICK c : c = Code[k] % n
  OBVIOUS
<1>4. PICK s : s = g.buckets[c]
  OBVIOUS
<1>5. /\ c \in 0 .. n - 1 /\ ComputeHash(g, k) = c /\ s \in Seq(Keys) /\ NoRepeat(s)
      /\ \A x \in ToSet(s) : x \in Keys /\ Code[x] % n = c
  BY <1>3, <1>4, GoodFacts
<1>6. PICK m : m = Written(g.val, k, v)
  OBVIOUS
<1>7. m \in Maps /\ DOMAIN m = DOMAIN g.val \cup {k} /\ DOMAIN g.val \subseteq Keys
  <2>1. m \in Maps /\ DOMAIN g.val \subseteq Keys
    BY <1>1, <1>6, MapFacts
  <2>2. DOMAIN m = DOMAIN g.val \cup {k}
    BY <1>6 DEF Written
  <2>3. QED
    BY <2>1, <2>2
<1>8. k \in DOMAIN g.val <=> k \in ToSet(s)
  BY <1>3, <1>4 DEF Good, Valued
<1>9. Find(g, k) # NULL <=> k \in DOMAIN g.val
  BY FindFacts
<1>10. PICK r : r = Add(g, k, v)
  OBVIOUS
<1>11. CASE k \in DOMAIN g.val
  <2>1. r = [g EXCEPT !.val = m]
    <3>1. r = [g EXCEPT !.val[k] = v]
      BY <1>9, <1>10, <1>11 DEF Add
    <3>2. [g.val EXCEPT ![k] = v] = m
      BY <1>1, <1>6, <1>11, MapFacts
    <3>3. QED
      BY <1>2, <3>1, <3>2
  <2>2. r = [buckets |-> g.buckets, val |-> m, tot |-> g.tot, dnext |-> g.dnext,
             dcurr |-> g.dcurr]
    BY <1>2, <2>1
  <2>3. /\ r.buckets = g.buckets /\ r.val = m /\ r.tot = g.tot /\ r.dnext = g.dnext
        /\ r.dcurr = g.dcurr
    BY <2>2
  <2>4. DOMAIN m = DOMAIN g.val
    BY <1>7, <1>11
  <2>5. r \in ATable(n)
    BY <1>1, <1>7, <2>2 DEF ATable
  <2>6. InOrder(r) = InOrder(g)
    BY <2>3 DEF InOrder, NumBuckets
  <2>7. Good(r, n)
    BY <1>1, <2>3, <2>4, <2>5, <2>6 DEF Good, InPlace, Once, Valued, Standing
  <2>8. \A x \in DOMAIN g.val : Ahead(r, n, x) <=> Ahead(g, n, x)
    BY <2>3 DEF Ahead
  <2>9. QED
    BY <1>6, <1>10, <2>3, <2>7, <2>8
<1>12. CASE k \notin DOMAIN g.val
  <2>1. PICK t : /\ t = <<k>> \o s /\ t \in Seq(Keys) /\ Len(t) = Len(s) + 1
                 /\ NoRepeat(t) /\ ToSet(t) = ToSet(s) \cup {k}
                 /\ \A x \in ToSet(s) : Place(t, x) = Place(s, x) + 1
    BY <1>5, <1>8, <1>12, ConsFacts
  <2>2. PICK B : B = [g.buckets EXCEPT ![c] = t]
    OBVIOUS
  <2>3. r = [buckets |-> B, val |-> m, tot |-> g.tot + 1, dnext |-> g.dnext, dcurr |-> g.dcurr]
    <3>1. ~(Find(g, k) # NULL)
      BY <1>9, <1>12
    <3>2. r = [g EXCEPT !.buckets[c] = <<k>> \o @,
                        !.val = [j \in DOMAIN @ \cup {k} |-> IF j = k THEN v ELSE @[j]],
                        !.tot = @ + 1]
      BY <1>5, <1>10, <3>1 DEF Add
    <3>3. [g.buckets EXCEPT ![c] = <<k>> \o @] = B
      BY <1>4, <2>1, <2>2
    <3>4. [j \in DOMAIN g.val \cup {k} |-> IF j = k THEN v ELSE g.val[j]] = m
      BY <1>6 DEF Written
    <3>5. QED
      BY <1>2, <3>2, <3>3, <3>4
  <2>4. /\ r.buckets = B /\ r.val = m /\ r.dnext = g.dnext /\ r.dcurr = g.dcurr
    BY <2>3
  <2>5. /\ B[c] = t /\ \A b \in (0 .. n - 1) \ {c} : B[b] = g.buckets[b]
    BY <1>1, <1>5, <2>2
  <2>6. Standing(r, n)
    <3>1. g.dcurr # NULL => g.dnext < n /\ g.dcurr \in ToSet(g.buckets[g.dnext])
      BY DEF Good, Standing
    <3>2. g.dnext < n => ToSet(g.buckets[g.dnext]) \subseteq ToSet(B[g.dnext])
      <4>1. CASE g.dnext = c
        BY <1>4, <2>1, <2>5, <4>1
      <4>2. CASE g.dnext # c /\ g.dnext < n
        <5>1. g.dnext \in (0 .. n - 1) \ {c}
          BY <1>1, <4>2
        <5>2. B[g.dnext] = g.buckets[g.dnext]
          BY <2>5, <5>1
        <5>3. QED
          BY <5>2
      <4>3. QED
        BY <4>1, <4>2
    <3>3. QED
      BY <2>4, <3>1, <3>2 DEF Standing
  <2>7. \A x \in ToSet(t) : Code[x] % n = c
    BY <1>3, <1>5, <2>1
  <2>8. \A x \in Keys : x \in DOMAIN m <=> IF Code[x] % n = c THEN x \in ToSet(t)
                                                              ELSE x \in DOMAIN g.val
    BY <1>3, <1>4, <1>7, <2>1 DEF Good, Valued
  <2>9. Len(t) = Len(g.buckets[c]) + 1
    BY <1>4, <2>1
  <2>10. Good(r, n)
    <3>1. r = Changed(g, c, t, m, 1, g.dcurr)
      BY <2>2, <2>3 DEF Changed
    <3>2. Fits(g, n, c, t, m, 1)
      BY <2>1, <2>7, <2>8, <2>9 DEF Fits
    <3>3. Standing(Changed(g, c, t, m, 1, g.dcurr), n)
      BY <2>6, <3>1
    <3>4. Good(Changed(g, c, t, m, 1, g.dcurr), n)
      <4>1. c \in 0 .. n - 1 /\ t \in Seq(Keys) /\ m \in Maps /\ g.dcurr \in Keys \cup {NULL}
        BY <1>1, <1>5, <1>7, <2>1
      <4>2. QED
        BY <3>2, <3>3, <4>1, ChangeGood
    <3>5. QED
      BY <3>1, <3>4
  <2>11. ASSUME NEW x \in DOMAIN g.val PROVE Ahead(r, n, x) <=> Ahead(g, n, x)
    <3>1. CASE g.dnext = c /\ Code[x] % n = c /\ g.dcurr # NULL
      <4>1. x \in ToSet(s) /\ g.dcurr \in ToSet(s)
        BY <1>4, <1>7, <3>1 DEF Good, Valued, Standing
      <4>2. Place(t, x) = Place(s, x) + 1 /\ Place(t, g.dcurr) = Place(s, g.dcurr) + 1
        BY <2>1, <4>1
      <4>3. Place(s, x) \in 1 .. Len(s) /\ Place(s, g.dcurr) \in 1 .. Len(s)
        BY <1>5, <4>1, PlaceFacts
      <4>4. Place(t, g.dcurr) <= Place(t, x) <=> Place(s, g.dcurr) <= Place(s, x)
        BY <4>2, <4>3
      <4>5. QED
        BY <1>4, <2>4, <2>5, <3>1, <4>4 DEF Ahead
    <3>2. CASE g.dnext # c \/ Code[x] % n # c \/ g.dcurr = NULL
      <4>1. CASE g.dcurr = NULL \/ Code[x] % n # g.dnext
        BY <2>4, <4>1 DEF Ahead
      <4>2. CASE g.dcurr # NULL /\ Code[x] % n = g.dnext
        <5>1. g.dnext # c /\ g.dnext \in 0 .. n - 1
          BY <1>1, <3>2, <4>2 DEF Good, Standing
        <5>2. B[g.dnext] = g.buckets[g.dnext]
          BY <2>5, <5>1
        <5>3. QED
          BY <2>4, <5>2 DEF Ahead
      <4>3. QED
        BY <4>1, <4>2
    <3>3. QED
      BY <3>1, <3>2
  <2>12. QED
    BY <1>6, <1>10, <2>4, <2>10, <2>11
<1>13. QED
  BY <1>11, <1>12

\* f[i] is the table g with the first i keys of order added.
Table(f, g, order, val) ==
    f = [i \in 0 .. Len(order) |-> IF i = 0 THEN g ELSE Add(f[i - 1], order[i], val[order[i]])]

(* The tables in between can be had for any number of keys.                *)
LEMMA TableExists ==
  ASSUME NEW g, NEW order \in Seq(Keys), NEW val
  PROVE  \E f : Table(f, g, order, val)
<1> DEFINE IsTable(f, m) ==
               f = [i \in 0 .. m |-> IF i = 0 THEN g ELSE Add(f[i - 1], order[i], val[order[i]])]
           Some(m) == \E f : IsTable(f, m)
<1> HIDE DEF Some
<1>1. Len(order) \in Nat
  BY LenProperties
<1>2. PICK S : S = {m \in 0 .. Len(order) : Some(m)}
  OBVIOUS
<1>3. 0 \in S
  <2>1. PICK f : f = [i \in 0 .. 0 |-> g]
    OBVIOUS
  <2>2. IsTable(f, 0)
    BY <2>1
  <2>3. Some(0)
    BY <2>2 DEF Some
  <2>4. QED
    BY <1>1, <1>2, <2>3
<1>4. ASSUME NEW m \in 0 .. Len(order) - 1, m \in S PROVE m + 1 \in S
  <2>1. PICK f : IsTable(f, m)
    BY <1>2, <1>4 DEF Some
  <2>2. PICK r : r = Add(f[m], order[m + 1], val[order[m + 1]])
    OBVIOUS
  <2>3. PICK w : w = [i \in 0 .. m + 1 |-> IF i = m + 1 THEN r ELSE f[i]]
    OBVIOUS
  <2>4. ASSUME NEW i \in 0 .. m + 1
        PROVE  w[i] = IF i = 0 THEN g ELSE Add(w[i - 1], order[i], val[order[i]])
    <3>1. CASE i = m + 1
      <4>1. w[i] = r /\ i # 0 /\ i - 1 = m /\ w[m] = f[m]
        BY <1>1, <2>3, <3>1
      <4>2. QED
        BY <2>2, <3>1, <4>1
    <3>2. CASE i # m + 1
      <4>1. i \in 0 .. m /\ w[i] = f[i] /\ (i # 0 => w[i - 1] = f[i - 1])
        BY <1>1, <2>3, <3>2
      <4>2. f[i] = IF i = 0 THEN g ELSE Add(f[i - 1], order[i], val[order[i]])
        BY <2>1, <4>1
      <4>3. QED
        BY <4>1, <4>2
    <3>3. QED
      BY <3>1, <3>2
  <2>5. IsTable(w, m + 1)
    BY <2>3, <2>4
  <2>6. Some(m + 1)
    BY <2>5 DEF Some
  <2>7. m + 1 \in 0 .. Len(order)
    BY <1>1
  <2>8. QED
    BY <1>2, <2>6, <2>7
<1>5. 0 .. Len(order) \subseteq S
  BY <1>1, <1>3, <1>4, Upwards
<1>6. Some(Len(order))
  BY <1>1, <1>2, <1>5
<1>7. QED
  BY <1>6 DEF Some, Table

(* All the keys of a sequence are added, with their values.                *)
LEMMA AddAllFacts ==
  ASSUME NEW g, NEW n, Good(g, n), g.val = <<>>, NEW order \in Seq(Keys), NEW val \in Maps,
         ToSet(order) = DOMAIN val
  PROVE  \E r : r = AddAll(g, order, val) /\ Good(r, n) /\ r.val = val
<1>1. Len(order) \in Nat /\ DOMAIN order = 1 .. Len(order)
  BY LenProperties
<1>2. PICK f : f = CHOOSE t : Table(t, g, order, val)
  OBVIOUS
<1>3. Table(f, g, order, val)
  BY <1>2, TableExists
<1>4. f[0] = g /\ \A i \in 0 .. Len(order) - 1 :
                     f[i + 1] = Add(f[i], order[i + 1], val[order[i + 1]])
  <2>1. \A i \in 0 .. Len(order) :
           f[i] = IF i = 0 THEN g ELSE Add(f[i - 1], order[i], val[order[i]])
    BY <1>3 DEF Table
  <2>2. f[0] = g
    BY <1>1, <2>1
  <2>3. ASSUME NEW i \in 0 .. Len(order) - 1
        PROVE  f[i + 1] = Add(f[i], order[i + 1], val[order[i + 1]])
    <3>1. i + 1 \in 0 .. Len(order) /\ i + 1 # 0 /\ (i + 1) - 1 = i
      BY <1>1
    <3>2. QED
      BY <2>1, <3>1
  <2>4. QED
    BY <2>2, <2>3
<1> DEFINE Right(i) == /\ Good(f[i], n)
                       /\ DOMAIN f[i].val = {order[j] : j \in 1 .. i}
                       /\ \A k \in DOMAIN f[i].val : f[i].val[k] = val[k]
<1> HIDE DEF Right
<1>5. PICK S : S = {i \in 0 .. Len(order) : Right(i)}
  OBVIOUS
<1>6. 0 \in S
  <2>1. DOMAIN f[0].val = {} /\ {order[j] : j \in 1 .. 0} = {}
    BY <1>4, EmptyMap
  <2>2. Right(0)
    BY <1>4, <2>1 DEF Right
  <2>3. QED
    BY <1>1, <1>5, <2>2
<1>7. ASSUME NEW i \in 0 .. Len(order) - 1, i \in S PROVE i + 1 \in S
  <2>1. /\ Good(f[i], n) /\ DOMAIN f[i].val = {order[j] : j \in 1 .. i}
        /\ \A k \in DOMAIN f[i].val : f[i].val[k] = val[k]
    BY <1>5, <1>7 DEF Right
  <2>2. PICK k : k = order[i + 1]
    OBVIOUS
  <2>3. i + 1 \in 1 .. Len(order) /\ k \in Keys
    BY <1>1, <2>2
  <2>4. k \in DOMAIN val /\ val[k] \in Values
    <3>1. k \in ToSet(order)
      BY <1>1, <2>2, <2>3 DEF ToSet
    <3>2. QED
      BY <3>1, MapFacts
  <2>5. PICK p : p = f[i]
    OBVIOUS
  <2>6. PICK r : r = Add(p, k, val[k]) /\ Good(r, n) /\ r.val = Written(p.val, k, val[k])
    BY <2>1, <2>3, <2>4, <2>5, AddFacts
  <2>7. f[i + 1] = r
    BY <1>4, <2>2, <2>5, <2>6
  <2>8. {order[j] : j \in 1 .. i + 1} = {order[j] : j \in 1 .. i} \cup {k}
    <3>1. 1 .. i + 1 = (1 .. i) \cup {i + 1}
      BY <1>1
    <3>2. QED
      BY <2>2, <3>1
  <2>9. DOMAIN r.val = {order[j] : j \in 1 .. i + 1}
    BY <2>1, <2>5, <2>6, <2>8 DEF Written
  <2>10. \A x \in DOMAIN r.val : r.val[x] = val[x]
    BY <2>1, <2>5, <2>6 DEF Written
  <2>11. Right(i + 1)
    BY <2>6, <2>7, <2>9, <2>10 DEF Right
  <2>12. i + 1 \in 0 .. Len(order)
    BY <1>1
  <2>13. QED
    BY <1>5, <2>11, <2>12
<1>8. 0 .. Len(order) \subseteq S
  BY <1>1, <1>6, <1>7, Upwards
<1>9. Right(Len(order))
  BY <1>1, <1>5, <1>8
<1>10. PICK r : r = f[Len(order)]
  OBVIOUS
<1>11. /\ Good(r, n) /\ DOMAIN r.val = ToSet(order)
       /\ \A k \in DOMAIN r.val : r.val[k] = val[k]
  BY <1>1, <1>9, <1>10 DEF Right, ToSet
<1>12. r.val = val
  <2>1. r.val \in Maps
    BY <1>11, GoodFacts
  <2>2. DOMAIN r.val = DOMAIN val
    BY <1>11
  <2>3. QED
    BY <1>11, <2>1, <2>2 DEF Maps
<1>13. r = AddAll(g, order, val)
  BY <1>2, <1>10 DEF AddAll, Table
<1>14. QED
  BY <1>11, <1>12, <1>13

(* The keys of the table in the order of a traversal are those with values. *)
LEMMA InOrderKeys ==
  ASSUME NEW g, NEW n, Good(g, n)
  PROVE  InOrder(g) \in Seq(Keys) /\ ToSet(InOrder(g)) = DOMAIN g.val
<1>1. /\ n \in Nat \ {0} /\ g.buckets \in [0 .. n - 1 -> Seq(Keys)] /\ g.val \in Maps
      /\ \A k \in Keys : Code[k] % n \in 0 .. n - 1
      /\ \A b \in 0 .. n - 1 : \A k \in ToSet(g.buckets[b]) : k \in Keys /\ Code[k] % n = b
  BY GoodFacts
<1>2. PICK order : order = InOrder(g)
  OBVIOUS
<1>3. /\ order \in Seq(Keys)
      /\ \A k : k \in ToSet(order) <=> \E b \in 0 .. n - 1 : k \in ToSet(g.buckets[b])
  BY <1>1, <1>2, InOrderSet
<1>4. DOMAIN g.val \subseteq Keys
  BY <1>1, MapFacts
<1>5. \A k \in Keys : k \in DOMAIN g.val <=> k \in ToSet(g.buckets[Code[k] % n])
  BY DEF Good, Valued
<1>6. ToSet(order) = DOMAIN g.val
  BY <1>1, <1>3, <1>4, <1>5
<1>7. QED
  BY <1>2, <1>3, <1>6

(* vely_resize_hash keeps every key and its value, whatever the new size.  *)
LEMMA ResizeFacts ==
  ASSUME NEW g, NEW n, Good(g, n), NEW size \in Nat
  PROVE  \E r, m : r = Resize(g, size) /\ Good(r, m) /\ r.val = g.val
<1>1. g.val \in Maps
  BY GoodFacts
<1>2. PICK order : order = InOrder(g)
  OBVIOUS
<1>3. order \in Seq(Keys) /\ ToSet(order) = DOMAIN g.val
  BY <1>2, InOrderKeys
<1>4. PICK c : c = Created(size)
  OBVIOUS
<1>5. PICK m : Good(c, m) /\ c.val = <<>>
  BY <1>4, CreatedFacts
<1>6. PICK r : r = AddAll(c, order, g.val) /\ Good(r, m) /\ r.val = g.val
  BY <1>1, <1>3, <1>5, AddAllFacts
<1>7. QED
  BY <1>2, <1>4, <1>6 DEF Resize

(* The entry behind k is the first of those that come after k.             *)
LEMMA AfterFacts ==
  ASSUME NEW s \in Seq(Keys), NEW k \in ToSet(s), NoRepeat(s)
  PROVE  /\ After(s, k) \in ToSet(s) \cup {NULL} /\ After(s, k) # k /\ NULL \notin ToSet(s)
         /\ \A x \in ToSet(s) : (After(s, k) # NULL /\ Place(s, After(s, k)) <= Place(s, x))
                                   <=> Place(s, k) < Place(s, x)
<1>1. PICK p : p = Place(s, k)
  OBVIOUS
<1>2. p \in 1 .. Len(s) /\ s[p] = k /\ Len(s) \in Nat /\ DOMAIN s = 1 .. Len(s)
  BY <1>1, PlaceFacts
<1>3. \A x \in ToSet(s) : x \in Keys /\ x # NULL /\ Place(s, x) \in 1 .. Len(s)
  <2>1. ASSUME NEW x \in ToSet(s) PROVE x \in Keys /\ Place(s, x) \in 1 .. Len(s)
    BY PlaceFacts DEF ToSet
  <2>2. QED
    BY <2>1, NullAssumption
<1>4. CASE p = Len(s)
  <2>1. After(s, k) = NULL
    BY <1>1, <1>4 DEF After
  <2>2. QED
    BY <1>1, <1>2, <1>3, <1>4, <2>1
<1>5. CASE p # Len(s)
  <2>1. After(s, k) = s[p + 1] /\ p + 1 \in 1 .. Len(s)
    BY <1>1, <1>2, <1>5 DEF After
  <2>2. PICK y : y = s[p + 1]
    OBVIOUS
  <2>3. y \in ToSet(s)
    BY <1>2, <2>1, <2>2 DEF ToSet
  <2>4. Place(s, y) = p + 1
    BY <2>1, <2>2, <2>3, PlaceFacts
  <2>5. y # k
    BY <1>1, <1>2, <2>4
  <2>6. QED
    BY <1>1, <1>2, <1>3, <2>1, <2>2, <2>3, <2>4, <2>5
<1>6. QED
  BY <1>4, <1>5

(* vely_del_hash_entry takes one key out, and the traversal has the same   *)
(* others before it.                                                       *)
LEMMA DelFacts ==
  ASSUME NEW g, NEW n, Good(g, n), NEW k \in DOMAIN g.val
  PROVE  \E r : /\ r = DelEntry(g, k) /\ Good(r, n) /\ r.val = Deleted(g.val, k)
                /\ \A x \in DOMAIN r.val : Ahead(r, n, x) <=> Ahead(g, n, x)
<1>1. /\ n \in Nat \ {0} /\ g.buckets \in [0 .. n - 1 -> Seq(Keys)]
      /\ g.val \in Maps /\ g.tot \in Nat /\ g.dnext \in 0 .. n /\ g.dcurr \in Keys \cup {NULL}
  BY GoodFacts
<1>2. g = [buckets |-> g.buckets, val |-> g.val, tot |-> g.tot, dnext |-> g.dnext,
           dcurr |-> g.dcurr]
  BY DEF Good, ATable
<1>3. k \in Keys /\ DOMAIN g.val \subseteq Keys
  BY <1>1, MapFacts
<1>4. PICK c : c = Code[k] % n
  OBVIOUS
<1>5. PICK s : s = g.buckets[c]
  OBVIOUS
<1>6. /\ c \in 0 .. n - 1 /\ ComputeHash(g, k) = c /\ s \in Seq(Keys) /\ NoRepeat(s)
      /\ \A x \in ToSet(s) : x \in Keys /\ Code[x] % n = c
  BY <1>3, <1>4, <1>5, GoodFacts
<1>7. \A x \in Keys : Code[x] % n = c => (x \in DOMAIN g.val <=> x \in ToSet(s))
  BY <1>5 DEF Good, Valued
<1>8. k \in ToSet(s)
  BY <1>3, <1>4, <1>7
<1>9. PICK t : /\ t = RemoveAt(s, Place(s, k)) /\ t \in Seq(Keys) /\ Len(t) = Len(s) - 1
               /\ NoRepeat(t) /\ ToSet(t) = ToSet(s) \ {k}
               /\ \A x \in ToSet(t) :
                     Place(t, x) = IF Place(s, x) < Place(s, k) THEN Place(s, x)
                                                                ELSE Place(s, x) - 1
  BY <1>6, <1>8, RemoveFacts
<1>10. PICK a : a = After(s, k)
  OBVIOUS
<1>11. /\ a \in ToSet(s) \cup {NULL} /\ a # k /\ NULL \notin ToSet(s)
       /\ \A x \in ToSet(s) : (a # NULL /\ Place(s, a) <= Place(s, x)) <=> Place(s, k) < Place(s, x)
  BY <1>6, <1>8, <1>10, AfterFacts
<1>12. ASSUME NEW x \in ToSet(t), NEW y \in ToSet(t)
       PROVE  /\ Place(t, x) <= Place(t, y) <=> Place(s, x) <= Place(s, y)
              /\ Place(s, k) < Place(s, y) <=> Place(s, k) <= Place(s, y)
  <2>1. x \in ToSet(s) /\ y \in ToSet(s) /\ x # k /\ y # k
    BY <1>9
  <2>2. /\ Place(s, x) \in 1 .. Len(s) /\ s[Place(s, x)] = x
        /\ Place(s, y) \in 1 .. Len(s) /\ s[Place(s, y)] = y
        /\ Place(s, k) \in 1 .. Len(s) /\ s[Place(s, k)] = k
    BY <1>6, <1>8, <2>1, PlaceFacts
  <2>3. Place(s, x) # Place(s, k) /\ Place(s, y) # Place(s, k)
    BY <2>1, <2>2
  <2>4. Place(t, x) = (IF Place(s, x) < Place(s, k) THEN Place(s, x) ELSE Place(s, x) - 1)
        /\ Place(t, y) = (IF Place(s, y) < Place(s, k) THEN Place(s, y) ELSE Place(s, y) - 1)
    BY <1>9
  <2>5. PICK px, py, pk : px = Place(s, x) /\ py = Place(s, y) /\ pk = Place(s, k)
    OBVIOUS
  <2>6. px \in Nat /\ py \in Nat /\ pk \in Nat /\ px # pk /\ py # pk
    BY <2>2, <2>3, <2>5
  <2>7. QED
    BY <2>4, <2>5, <2>6
<1>13. PICK m : m = Deleted(g.val, k)
  OBVIOUS
<1>14. m \in Maps /\ DOMAIN m = DOMAIN g.val \ {k}
  BY <1>1, <1>3, <1>13, MapFacts DEF Deleted
<1>15. PICK z : z = CurrentAfter(g, k, a)
  OBVIOUS
<1>16. (g.dcurr = k => z = a) /\ (g.dcurr # k => z = g.dcurr)
  BY <1>15 DEF CurrentAfter
<1>17. z \in Keys \cup {NULL}
  BY <1>1, <1>6, <1>11, <1>16
<1>18. PICK r : r = DelEntry(g, k)
  OBVIOUS
<1>19. PICK B : B = [g.buckets EXCEPT ![c] = t]
  OBVIOUS
<1>20. r = [buckets |-> B, val |-> m, tot |-> g.tot + (-1), dnext |-> g.dnext, dcurr |-> z]
  <2>1. r = [g EXCEPT !.buckets[c] = RemoveAt(@, Place(@, k)),
                      !.val = [j \in DOMAIN @ \ {k} |-> @[j]],
                      !.dcurr = CurrentAfter(g, k, After(g.buckets[c], k)),
                      !.tot = @ - 1]
    BY <1>6, <1>18 DEF DelEntry
  <2>2. [g.buckets EXCEPT ![c] = RemoveAt(@, Place(@, k))] = B
    BY <1>5, <1>9, <1>19
  <2>3. [j \in DOMAIN g.val \ {k} |-> g.val[j]] = m
    BY <1>13 DEF Deleted
  <2>4. CurrentAfter(g, k, After(g.buckets[c], k)) = z /\ g.tot - 1 = g.tot + (-1)
    BY <1>1, <1>5, <1>10, <1>15
  <2>5. QED
    BY <1>2, <2>1, <2>2, <2>3, <2>4
<1>21. r.buckets = B /\ r.val = m /\ r.dnext = g.dnext /\ r.dcurr = z
  BY <1>20
<1>22. B[c] = t /\ \A b \in (0 .. n - 1) \ {c} : B[b] = g.buckets[b]
  BY <1>1, <1>6, <1>19
<1>23. g.dcurr # NULL => /\ g.dnext \in 0 .. n - 1 /\ g.dcurr \in ToSet(g.buckets[g.dnext])
                         /\ g.dcurr \in Keys /\ Code[g.dcurr] % n = g.dnext
  <2>1. g.dcurr # NULL => g.dnext \in 0 .. n - 1 /\ g.dcurr \in ToSet(g.buckets[g.dnext])
    BY <1>1 DEF Good, Standing
  <2>2. QED
    BY <2>1, GoodFacts
<1>24. g.dcurr = k => g.dnext = c
  BY <1>3, <1>4, <1>23, NullAssumption
<1>25. Standing(r, n)
  <2>1. CASE g.dcurr = k
    <3>1. z # NULL => z \in ToSet(t)
      BY <1>9, <1>11, <1>16, <2>1
    <3>2. QED
      BY <1>1, <1>6, <1>21, <1>22, <1>24, <2>1, <3>1 DEF Standing
  <2>2. CASE g.dcurr # k
    <3>1. CASE g.dnext = c
      <4>1. z # NULL => z \in ToSet(t)
        BY <1>5, <1>9, <1>16, <1>23, <2>2, <3>1
      <4>2. QED
        BY <1>1, <1>6, <1>21, <1>22, <3>1, <4>1 DEF Standing
    <3>2. CASE g.dnext # c
      BY <1>1, <1>16, <1>21, <1>22, <1>23, <2>2, <3>2 DEF Standing
    <3>3. QED
      BY <3>1, <3>2
  <2>3. QED
    BY <2>1, <2>2
<1>26. Good(r, n)
  <2>1. \A x \in ToSet(t) : Code[x] % n = c
    BY <1>6, <1>9
  <2>2. \A x \in Keys : x \in DOMAIN m <=> IF Code[x] % n = c THEN x \in ToSet(t)
                                                              ELSE x \in DOMAIN g.val
    BY <1>4, <1>7, <1>9, <1>14
  <2>3. Len(t) = Len(g.buckets[c]) + (-1) /\ -1 \in Int
    BY <1>5, <1>6, <1>9
  <2>4. QED
    <3>1. r = Changed(g, c, t, m, -1, z)
      BY <1>19, <1>20 DEF Changed
    <3>2. Fits(g, n, c, t, m, -1)
      BY <1>9, <2>1, <2>2, <2>3 DEF Fits
    <3>3. Standing(Changed(g, c, t, m, -1, z), n)
      BY <1>25, <3>1
    <3>4. Good(Changed(g, c, t, m, -1, z), n)
      BY <1>6, <1>9, <1>14, <1>17, <2>3, <3>2, <3>3, ChangeGood
    <3>5. QED
      BY <3>1, <3>4
<1>27. ASSUME NEW x \in DOMAIN m PROVE Ahead(r, n, x) <=> Ahead(g, n, x)
  <2>1. x \in Keys /\ x \in DOMAIN g.val /\ x # k
    BY <1>3, <1>14
  <2>2. CASE Code[x] % n # g.dnext
    BY <1>21, <2>2 DEF Ahead
  <2>3. CASE Code[x] % n = g.dnext /\ g.dnext # c
    <3>1. g.dnext \in 0 .. n - 1
      BY <2>1, <2>3, GoodFacts
    <3>2. B[g.dnext] = g.buckets[g.dnext] /\ z = g.dcurr
      BY <1>16, <1>22, <1>24, <2>3, <3>1
    <3>3. QED
      BY <1>21, <3>2 DEF Ahead
  <2>4. CASE Code[x] % n = g.dnext /\ g.dnext = c
    <3>1. x \in ToSet(t)
      BY <1>7, <1>9, <2>1, <2>4
    <3>2. CASE g.dcurr = k
      <4>1. Ahead(g, n, x) <=> Place(s, k) <= Place(s, x)
        <5>1. ~(Code[x] % n > g.dnext) /\ g.dcurr # NULL
          BY <1>3, <1>6, <2>4, <3>2, NullAssumption
        <5>2. QED
          BY <1>5, <2>4, <3>2, <5>1 DEF Ahead
      <4>2. Ahead(r, n, x) <=> (a # NULL /\ Place(t, a) <= Place(t, x))
        <5>1. ~(Code[x] % n > g.dnext)
          BY <1>6, <2>4
        <5>2. QED
          BY <1>16, <1>21, <1>22, <2>4, <3>2, <5>1 DEF Ahead
      <4>3. a # NULL => a \in ToSet(t)
        BY <1>9, <1>11
      <4>4. (a # NULL /\ Place(t, a) <= Place(t, x)) <=> (a # NULL /\ Place(s, a) <= Place(s, x))
        BY <1>12, <3>1, <4>3
      <4>5. x \in ToSet(s)
        BY <1>9, <3>1
      <4>6. QED
        BY <1>11, <1>12, <3>1, <4>1, <4>2, <4>4, <4>5
    <3>3. CASE g.dcurr # k
      <4>1. ~(Code[x] % n > g.dnext) /\ z = g.dcurr
        BY <1>6, <1>16, <2>4, <3>3
      <4>2. z # NULL => z \in ToSet(t)
        BY <1>5, <1>9, <1>23, <2>4, <3>3, <4>1
      <4>3. Ahead(g, n, x) <=> (z # NULL /\ Place(s, z) <= Place(s, x))
        BY <1>5, <2>4, <4>1 DEF Ahead
      <4>4. Ahead(r, n, x) <=> (z # NULL /\ Place(t, z) <= Place(t, x))
        BY <1>21, <1>22, <2>4, <4>1 DEF Ahead
      <4>5. QED
        BY <1>12, <3>1, <4>2, <4>3, <4>4
    <3>4. QED
      BY <3>2, <3>3
  <2>5. QED
    BY <2>2, <2>3, <2>4
<1>28. QED
  BY <1>13, <1>18, <1>21, <1>26, <1>27

(* The next bucket that has an entry.                                      *)
LEMMA NextBucketFacts ==
  ASSUME NEW g, NEW n, Good(g, n)
  PROVE  \/ /\ NextBucket(g) = n
            /\ \A x \in DOMAIN g.val : ~(Code[x] % n > g.dnext)
         \/ /\ NextBucket(g) \in 0 .. n - 1 /\ NextBucket(g) > g.dnext
            /\ g.buckets[NextBucket(g)] # <<>>
            /\ \A x \in DOMAIN g.val : Code[x] % n > g.dnext => Code[x] % n >= NextBucket(g)
<1>1. /\ n \in Nat \ {0} /\ g.buckets \in [0 .. n - 1 -> Seq(Keys)] /\ NumBuckets(g) = n
      /\ g.val \in Maps /\ g.dnext \in 0 .. n
      /\ \A k \in Keys : Code[k] % n \in 0 .. n - 1
  BY GoodFacts
<1>2. PICK later : later = {b \in DOMAIN g.buckets : b > g.dnext /\ g.buckets[b] # <<>>}
  OBVIOUS
<1>3. later \subseteq 0 .. n - 1
  BY <1>1, <1>2
<1>4. ASSUME NEW x \in DOMAIN g.val, Code[x] % n > g.dnext PROVE Code[x] % n \in later
  <2>1. x \in Keys
    BY <1>1, MapFacts
  <2>2. x \in ToSet(g.buckets[Code[x] % n])
    BY <2>1 DEF Good, Valued
  <2>3. g.buckets[Code[x] % n] # <<>>
    BY <2>2 DEF ToSet
  <2>4. QED
    BY <1>1, <1>2, <1>4, <2>1, <2>3
<1>5. CASE later = {}
  BY <1>1, <1>2, <1>4, <1>5 DEF NextBucket
<1>6. CASE later # {}
  <2>1. \E b \in later : \A c \in later : b <= c
    <3>1. later \subseteq Nat
      BY <1>1, <1>3
    <3>2. QED
      BY <1>6, <3>1, Least
  <2>2. NextBucket(g) = CHOOSE b \in later : \A c \in later : b <= c
    BY <1>2, <1>6 DEF NextBucket
  <2>3. NextBucket(g) \in later /\ \A c \in later : NextBucket(g) <= c
    BY <2>1, <2>2
  <2>4. NextBucket(g) \in 0 .. n - 1 /\ NextBucket(g) > g.dnext /\ g.buckets[NextBucket(g)] # <<>>
    BY <1>2, <1>3, <2>3
  <2>5. ASSUME NEW x \in DOMAIN g.val, Code[x] % n > g.dnext PROVE Code[x] % n >= NextBucket(g)
    <3>1. Code[x] % n \in later /\ Code[x] % n \in 0 .. n - 1
      BY <1>3, <1>4, <2>5
    <3>2. NextBucket(g) <= Code[x] % n
      BY <2>3, <3>1
    <3>3. QED
      BY <2>4, <3>1, <3>2
  <2>6. QED
    BY <2>4, <2>5
<1>7. QED
  BY <1>5, <1>6

Moved(g, b, x) ==
    [buckets |-> g.buckets, val |-> g.val, tot |-> g.tot, dnext |-> b, dcurr |-> x]

(* A table on which the traversal has gone on to another place.            *)
LEMMA MoveGood ==
  ASSUME NEW g, NEW n, Good(g, n), NEW b \in 0 .. n, NEW x \in Keys \cup {NULL},
         x # NULL => b < n /\ x \in ToSet(g.buckets[b])
  PROVE  Good(Moved(g, b, x), n)
<1> PICK r : r = Moved(g, b, x)
  OBVIOUS
<1>1. r.buckets = g.buckets /\ r.val = g.val /\ r.tot = g.tot /\ r.dnext = b /\ r.dcurr = x
  BY DEF Moved
<1>2. r \in ATable(n)
  BY GoodFacts DEF ATable, Moved
<1>3. InOrder(r) = InOrder(g)
  BY <1>1 DEF InOrder, NumBuckets
<1>4. QED
  BY <1>1, <1>2, <1>3 DEF Good, InPlace, Once, Valued, Standing

(* vely_next_hash ends with nothing before the traversal, or takes the     *)
(* first entry before it.                                                  *)
LEMMA AdvanceFacts ==
  ASSUME NEW g, NEW n, Good(g, n)
  PROVE  \E r : /\ r = Advance(g) /\ Good(r, n) /\ r.val = g.val
                /\ \/ NextKey(g) = NULL /\ \A x \in DOMAIN g.val : ~Ahead(g, n, x) /\ ~Ahead(r, n, x)
                   \/ /\ NextKey(g) \in DOMAIN g.val /\ Ahead(g, n, NextKey(g))
                      /\ \A x \in DOMAIN g.val :
                            Ahead(r, n, x) <=> Ahead(g, n, x) /\ x # NextKey(g)
<1>1. /\ n \in Nat \ {0} /\ g.buckets \in [0 .. n - 1 -> Seq(Keys)] /\ NumBuckets(g) = n
      /\ g.val \in Maps /\ g.tot \in Nat /\ g.dnext \in 0 .. n /\ g.dcurr \in Keys \cup {NULL}
      /\ \A k \in Keys : Code[k] % n \in 0 .. n - 1 /\ ComputeHash(g, k) = Code[k] % n
      /\ \A b \in 0 .. n - 1 : \A k \in ToSet(g.buckets[b]) : k \in Keys /\ Code[k] % n = b
  BY GoodFacts
<1>2. g = [buckets |-> g.buckets, val |-> g.val, tot |-> g.tot, dnext |-> g.dnext,
           dcurr |-> g.dcurr]
  BY DEF Good, ATable
<1>3. DOMAIN g.val \subseteq Keys
  BY <1>1, MapFacts
<1>4. \A x \in Keys : x \in DOMAIN g.val <=> x \in ToSet(g.buckets[Code[x] % n])
  BY DEF Good, Valued
<1>5. g.dcurr # NULL => g.dnext \in 0 .. n - 1 /\ g.dcurr \in ToSet(g.buckets[g.dnext])
  BY <1>1 DEF Good, Standing
<1>6. PICK r : r = Advance(g)
  OBVIOUS
<1>7. PICK nb : nb = NextBucket(g)
  OBVIOUS
<1>8. \/ /\ nb = n /\ \A x \in DOMAIN g.val : ~(Code[x] % n > g.dnext)
      \/ /\ nb \in 0 .. n - 1 /\ nb > g.dnext /\ g.buckets[nb] # <<>>
         /\ \A x \in DOMAIN g.val : Code[x] % n > g.dnext => Code[x] % n >= nb
  BY <1>7, NextBucketFacts
<1>9. Ended(g) <=> g.dnext = n \/ (g.dcurr = NULL /\ nb = n)
  BY <1>1, <1>7 DEF Ended
<1>10. CASE Ended(g)
  <2>1. g.dcurr = NULL
    BY <1>1, <1>5, <1>9, <1>10
  <2>2. \A x \in DOMAIN g.val : Code[x] % n \in 0 .. n - 1
    BY <1>1, <1>3
  <2>3. \A x \in DOMAIN g.val : ~(Code[x] % n > g.dnext)
    BY <1>1, <1>8, <1>9, <1>10, <2>2
  <2>4. \A x \in DOMAIN g.val : ~Ahead(g, n, x)
    BY <2>1, <2>3 DEF Ahead
  <2>5. r = [buckets |-> g.buckets, val |-> g.val, tot |-> g.tot, dnext |-> n, dcurr |-> g.dcurr]
    BY <1>1, <1>2, <1>6, <1>10 DEF Advance
  <2>6. Good(r, n)
    <3>1. n \in 0 .. n
      BY <1>1
    <3>2. Good(Moved(g, n, g.dcurr), n)
      BY <1>1, <2>1, <3>1, MoveGood
    <3>3. QED
      BY <2>5, <3>2 DEF Moved
  <2>7. r.val = g.val /\ r.dnext = n /\ r.dcurr = NULL
    BY <2>1, <2>5
  <2>8. \A x \in DOMAIN g.val : ~Ahead(r, n, x)
    BY <1>1, <2>2, <2>7 DEF Ahead
  <2>9. NextKey(g) = NULL
    BY <1>10 DEF NextKey
  <2>10. QED
    BY <1>6, <2>4, <2>6, <2>7, <2>8, <2>9
<1>11. CASE ~Ended(g)
  <2>1. PICK b : b = IF g.dcurr # NULL THEN g.dnext ELSE nb
    OBVIOUS
  <2>2. PICK k : k = NextKey(g)
    OBVIOUS
  <2>3. k = IF g.dcurr # NULL THEN g.dcurr ELSE Head(g.buckets[nb])
    BY <1>7, <1>11, <2>2 DEF NextKey
  <2>4. b \in 0 .. n - 1
    BY <1>5, <1>8, <1>9, <1>11, <2>1
  <2>5. PICK s : s = g.buckets[b]
    OBVIOUS
  <2>6. s \in Seq(Keys) /\ NoRepeat(s)
    BY <1>1, <2>4, <2>5 DEF Good, Once
  <2>7. k \in ToSet(s) /\ (g.dcurr = NULL => Place(s, k) = 1)
    <3>1. CASE g.dcurr # NULL
      BY <1>5, <2>1, <2>3, <2>5, <3>1
    <3>2. CASE g.dcurr = NULL
      <4>1. s # <<>> /\ k = Head(s)
        BY <1>8, <1>9, <1>11, <2>1, <2>3, <2>5, <3>2
      <4>2. 1 \in 1 .. Len(s) /\ DOMAIN s = 1 .. Len(s) /\ k = s[1]
        BY <2>6, <4>1
      <4>3. k \in ToSet(s)
        BY <4>2 DEF ToSet
      <4>4. QED
        BY <2>6, <4>2, <4>3, PlaceFacts
    <3>3. QED
      BY <3>1, <3>2
  <2>8. k \in Keys /\ Code[k] % n = b /\ k \in DOMAIN g.val
    BY <1>1, <1>4, <2>4, <2>5, <2>7
  <2>9. PICK a : a = After(s, k)
    OBVIOUS
  <2>10. /\ a \in ToSet(s) \cup {NULL} /\ a # k /\ NULL \notin ToSet(s)
         /\ \A x \in ToSet(s) :
               (a # NULL /\ Place(s, a) <= Place(s, x)) <=> Place(s, k) < Place(s, x)
    BY <2>6, <2>7, <2>9, AfterFacts
  <2>11. r = [buckets |-> g.buckets, val |-> g.val, tot |-> g.tot, dnext |-> b, dcurr |-> a]
    <3>1. ComputeHash(g, NextKey(g)) = b
      BY <1>1, <2>2, <2>8
    <3>2. r = [g EXCEPT !.dnext = IF g.dcurr # NULL THEN @ ELSE NextBucket(g),
                        !.dcurr = After(g.buckets[ComputeHash(g, NextKey(g))], NextKey(g))]
      BY <1>6, <1>11 DEF Advance
    <3>3. (IF g.dcurr # NULL THEN g.dnext ELSE NextBucket(g)) = b
      BY <1>7, <2>1
    <3>4. After(g.buckets[ComputeHash(g, NextKey(g))], NextKey(g)) = a
      BY <2>2, <2>5, <2>9, <3>1
    <3>5. r = [g EXCEPT !.dnext = b, !.dcurr = a]
      BY <1>2, <3>2, <3>3, <3>4
    <3>6. QED
      BY <1>2, <3>5
  <2>12. Good(r, n)
    <3>1. a \in Keys \cup {NULL} /\ b \in 0 .. n
      BY <1>1, <2>4, <2>5, <2>10
    <3>2. a # NULL => b < n /\ a \in ToSet(g.buckets[b])
      BY <1>1, <2>4, <2>5, <2>10
    <3>3. QED
      <4>1. Good(Moved(g, b, a), n)
        BY <3>1, <3>2, MoveGood
      <4>2. QED
        BY <2>11, <4>1 DEF Moved
  <2>13. r.buckets = g.buckets /\ r.val = g.val /\ r.dnext = b /\ r.dcurr = a
    BY <2>11
  <2>14. ASSUME NEW x \in DOMAIN g.val
         PROVE  /\ Ahead(g, n, x) <=> Code[x] % n > b \/ (Code[x] % n = b /\ Place(s, k) <= Place(s, x))
                /\ Ahead(r, n, x) <=> Code[x] % n > b \/ (Code[x] % n = b /\ Place(s, k) < Place(s, x))
                /\ Code[x] % n = b => x \in ToSet(s) /\ Place(s, x) \in 1 .. Len(s)
    <3>1. x \in Keys /\ Code[x] % n \in 0 .. n - 1
      BY <1>1, <1>3
    <3>2. Code[x] % n = b => x \in ToSet(s) /\ Place(s, x) \in 1 .. Len(s)
      BY <1>4, <2>5, <2>6, <3>1, PlaceFacts
    <3>3. Ahead(r, n, x) <=> Code[x] % n > b \/ (Code[x] % n = b /\ Place(s, k) < Place(s, x))
      BY <2>5, <2>10, <2>13, <3>2 DEF Ahead
    <3>4. Ahead(g, n, x) <=> Code[x] % n > b \/ (Code[x] % n = b /\ Place(s, k) <= Place(s, x))
      <4>1. CASE g.dcurr # NULL
        BY <2>1, <2>3, <2>5, <4>1 DEF Ahead
      <4>2. CASE g.dcurr = NULL
        <5>1. Ahead(g, n, x) <=> Code[x] % n > g.dnext
          BY <4>2 DEF Ahead
        <5>2. b = nb /\ nb > g.dnext /\ (Code[x] % n > g.dnext => Code[x] % n >= nb)
          BY <1>8, <1>9, <1>11, <2>1, <4>2
        <5>3. Code[x] % n > g.dnext <=> Code[x] % n > b \/ Code[x] % n = b
          BY <1>1, <2>4, <3>1, <5>2
        <5>4. Code[x] % n = b => Place(s, k) <= Place(s, x)
          BY <2>7, <3>2, <4>2
        <5>5. QED
          BY <5>1, <5>3, <5>4
      <4>3. QED
        BY <4>1, <4>2
    <3>5. QED
      BY <3>2, <3>3, <3>4
  <2>15. Place(s, k) \in 1 .. Len(s) /\ s[Place(s, k)] = k
    BY <2>6, <2>7, PlaceFacts
  <2>16. Ahead(g, n, k)
    BY <2>8, <2>14, <2>15
  <2>17. ASSUME NEW x \in DOMAIN g.val PROVE Ahead(r, n, x) <=> Ahead(g, n, x) /\ x # k
    <3>1. CASE x = k
      BY <2>4, <2>8, <2>14, <2>15, <3>1
    <3>2. CASE x # k /\ Code[x] % n = b
      <4>1. Place(s, x) \in 1 .. Len(s) /\ s[Place(s, x)] = x
        BY <2>6, <2>14, <3>2, PlaceFacts
      <4>2. Place(s, x) # Place(s, k)
        BY <2>15, <3>2, <4>1
      <4>3. Place(s, k) < Place(s, x) <=> Place(s, k) <= Place(s, x)
        BY <2>15, <4>1, <4>2
      <4>4. QED
        BY <2>14, <3>2, <4>3
    <3>3. CASE x # k /\ Code[x] % n # b
      BY <2>14, <3>3
    <3>4. QED
      BY <3>1, <3>2, <3>3
  <2>18. QED
    BY <1>6, <2>2, <2>8, <2>12, <2>13, <2>16, <2>17
<1>12. QED
  BY <1>10, <1>11
(* A traversal begins before every entry.                                  *)
LEMMA RewindFacts ==
  ASSUME NEW g, NEW n, Good(g, n)
  PROVE  \E r : /\ r = Rewind(g) /\ Good(r, n) /\ r.val = g.val
                /\ \A x \in DOMAIN g.val : Ahead(r, n, x)
<1>1. /\ n \in Nat \ {0} /\ g.buckets \in [0 .. n - 1 -> Seq(Keys)] /\ g.val \in Maps
      /\ \A k \in Keys : Code[k] % n \in 0 .. n - 1
      /\ \A b \in 0 .. n - 1 : \A k \in ToSet(g.buckets[b]) : k \in Keys
  BY GoodFacts
<1>2. PICK s : s = g.buckets[0]
  OBVIOUS
<1>3. s \in Seq(Keys) /\ NoRepeat(s) /\ \A k \in ToSet(s) : k \in Keys
  BY <1>1, <1>2 DEF Good, Once
<1>4. PICK a : a = First(s)
  OBVIOUS
<1>5. \/ s = <<>> /\ a = NULL
      \/ a \in ToSet(s) /\ a # NULL /\ Place(s, a) = 1
  <2>1. CASE s = <<>>
    BY <1>4, <2>1 DEF First
  <2>2. CASE s # <<>>
    <3>1. 1 \in 1 .. Len(s) /\ DOMAIN s = 1 .. Len(s) /\ a = s[1]
      BY <1>3, <1>4, <2>2 DEF First
    <3>2. a \in ToSet(s)
      BY <3>1 DEF ToSet
    <3>3. Place(s, a) = 1
      BY <1>3, <3>1, <3>2, PlaceFacts
    <3>4. QED
      BY <1>3, <3>2, <3>3, NullAssumption
  <2>3. QED
    BY <2>1, <2>2
<1>6. a \in Keys \cup {NULL} /\ (a # NULL => 0 < n /\ a \in ToSet(g.buckets[0])) /\ 0 \in 0 .. n
  BY <1>1, <1>2, <1>3, <1>5
<1>7. PICK r : r = [buckets |-> g.buckets, val |-> g.val, tot |-> g.tot, dnext |-> 0,
                    dcurr |-> a]
  OBVIOUS
<1>8. Good(r, n)
  <2>1. Good(Moved(g, 0, a), n)
    BY <1>6, MoveGood
  <2>2. QED
    BY <1>7, <2>1 DEF Moved
<1>9. r = Rewind(g)
  <2>1. g = [buckets |-> g.buckets, val |-> g.val, tot |-> g.tot, dnext |-> g.dnext,
             dcurr |-> g.dcurr]
    BY DEF Good, ATable
  <2>2. Rewind(g) = [g EXCEPT !.dnext = 0, !.dcurr = a]
    BY <1>2, <1>4 DEF Rewind
  <2>3. QED
    BY <1>7, <2>1, <2>2
<1>10. r.buckets = g.buckets /\ r.val = g.val /\ r.dnext = 0 /\ r.dcurr = a
  BY <1>7
<1>11. ASSUME NEW x \in DOMAIN g.val PROVE Ahead(r, n, x)
  <2>1. x \in Keys /\ Code[x] % n \in 0 .. n - 1 /\ x \in ToSet(g.buckets[Code[x] % n])
    BY <1>1, MapFacts DEF Good, Valued
  <2>2. CASE Code[x] % n = 0
    <3>1. x \in ToSet(s)
      BY <1>2, <2>1, <2>2
    <3>2. Place(s, x) \in 1 .. Len(s)
      BY <1>3, <3>1, PlaceFacts
    <3>3. s # <<>>
      BY <1>3, <3>2
    <3>4. Place(s, a) <= Place(s, x) /\ a # NULL
      BY <1>3, <1>5, <3>2, <3>3
    <3>5. QED
      BY <1>2, <1>10, <2>2, <3>4 DEF Ahead
  <2>3. CASE Code[x] % n # 0
    BY <1>10, <2>1, <2>3 DEF Ahead
  <2>4. QED
    BY <2>2, <2>3
<1>12. QED
  BY <1>8, <1>9, <1>10, <1>11

(* What a search finds in a table is its values.                           *)
LEMMA DictFacts ==
  ASSUME NEW g, NEW n, Good(g, n)
  PROVE  [k \in {j \in Keys : Find(g, j) # NULL} |-> Find(g, k)] = g.val
<1>1. g.val \in Maps
  BY GoodFacts
<1>2. DOMAIN g.val \subseteq Keys
  BY <1>1, MapFacts
<1>3. g.val = [k \in DOMAIN g.val |-> g.val[k]]
  BY <1>1 DEF Maps
<1>4. {j \in Keys : Find(g, j) # NULL} = DOMAIN g.val
  BY <1>2, FindFacts
<1>5. \A k \in DOMAIN g.val : Find(g, k) = g.val[k]
  BY <1>2, FindFacts
<1>6. QED
  BY <1>3, <1>4, <1>5

-----------------------------------------------------------------------------
(* The statements                                                          *)

\* What an application sees of the table.
Contents == [k \in Stored |-> Find(h, k)]

(* What it sees is the values of the table.                                *)
LEMMA SeenIsHeld == IInv => Contents = h.val
<1>1. CASE Exists
  BY <1>1, DictFacts DEF IInv, Contents, Stored
<1>2. CASE ~Exists
  BY <1>2 DEF IInv, Contents, Stored, NoHash
<1>3. QED
  BY <1>1, <1>2

(* Initially there is no table.                                            *)
LEMMA Initially == Init => IInv
BY DEF Init, IInv, Exists, NoHash

(* A good table with a traversal in order keeps the invariant.             *)
LEMMA GoodAfter ==
  ASSUME NEW n, Good(h', n),
         (due \subseteq DOMAIN h.val)' /\ \A k \in due' : Ahead(h', n, k),
         (done \subseteq DOMAIN h.val)' /\ \A k \in done' : ~Ahead(h', n, k)
  PROVE  IInv'
<1>1. NumBuckets(h') = n /\ h'.buckets # <<>>
  BY GoodFacts
<1>2. QED
  BY <1>1 DEF IInv, Exists, Traversed

(* new-hash makes a table without anything.                                *)
LEMMA NewHashStep ==
  ASSUME IInv, NEW s \in Sizes, NewHash(s)
  PROVE  IInv' /\ h'.val = <<>>
<1>1. s \in Nat
  BY SizesAssumption
<1>2. PICK n \in Nat \ {0} : Good(h', n) /\ h'.val = <<>>
  BY <1>1, CreatedFacts DEF NewHash
<1>3. due' = {} /\ done' = {}
  BY DEF NewHash
<1>4. QED
  BY <1>2, <1>3, GoodAfter

(* write-hash writes one key.                                              *)
LEMMA WriteHashStep ==
  ASSUME IInv, NEW k \in Keys, NEW v \in Values, WriteHash(k, v)
  PROVE  IInv' /\ h'.val = Written(h.val, k, v)
<1>1. PICK n : n = NumBuckets(h)
  OBVIOUS
<1>2. Good(h, n) /\ Traversed(h, n)
  BY <1>1 DEF IInv, WriteHash
<1>3. /\ Good(h', n) /\ h'.val = Written(h.val, k, v)
      /\ \A x \in DOMAIN h.val : Ahead(h', n, x) <=> Ahead(h, n, x)
  BY <1>2, AddFacts DEF WriteHash
<1>4. due' = due /\ done' = done /\ DOMAIN h'.val = DOMAIN h.val \cup {k}
  BY <1>3 DEF WriteHash, Written
<1>5. /\ due' \subseteq DOMAIN h'.val /\ \A x \in due' : Ahead(h', n, x)
      /\ done' \subseteq DOMAIN h'.val /\ \A x \in done' : ~Ahead(h', n, x)
  BY <1>2, <1>3, <1>4 DEF Traversed
<1>6. QED
  BY <1>3, <1>5, GoodAfter

(* read-hash with delete takes one key out, if it is there.                *)
LEMMA ReadHashDeleteStep ==
  ASSUME IInv, NEW k \in Keys, ReadHashDelete(k)
  PROVE  IInv' /\ h'.val = Deleted(h.val, k)
<1>1. PICK n : n = NumBuckets(h)
  OBVIOUS
<1>2. Good(h, n) /\ Traversed(h, n)
  BY <1>1 DEF IInv, ReadHashDelete
<1>3. /\ Good(h', n) /\ h'.val = Deleted(h.val, k)
      /\ \A x \in DOMAIN h'.val : Ahead(h', n, x) <=> Ahead(h, n, x)
  <2>1. CASE k \in DOMAIN h.val
    <3>1. h' = DelEntry(h, k)
      BY <1>2, <2>1, FindFacts DEF ReadHashDelete
    <3>2. QED
      BY <1>2, <2>1, <3>1, DelFacts
  <2>2. CASE k \notin DOMAIN h.val
    <3>1. h' = h
      BY <1>2, <2>2, FindFacts DEF ReadHashDelete
    <3>2. h.val = [j \in DOMAIN h.val |-> h.val[j]] /\ DOMAIN h.val \ {k} = DOMAIN h.val
      BY <1>2, <2>2, GoodFacts DEF Maps
    <3>3. h.val = Deleted(h.val, k)
      BY <3>2 DEF Deleted
    <3>4. QED
      BY <1>2, <3>1, <3>3
  <2>3. QED
    BY <2>1, <2>2
<1>4. due' = due \ {k} /\ done' = done \ {k} /\ DOMAIN h'.val = DOMAIN h.val \ {k}
  BY <1>3 DEF ReadHashDelete, Deleted
<1>5. /\ due' \subseteq DOMAIN h'.val /\ \A x \in due' : Ahead(h', n, x)
      /\ done' \subseteq DOMAIN h'.val /\ \A x \in done' : ~Ahead(h', n, x)
  BY <1>2, <1>3, <1>4 DEF Traversed
<1>6. QED
  BY <1>3, <1>5, GoodAfter

(* A traversal begins with all the elements before it.                     *)
LEMMA TraverseBeginStep ==
  ASSUME IInv, TraverseBegin
  PROVE  IInv' /\ h'.val = h.val /\ due' = DOMAIN h.val
<1>1. PICK n : n = NumBuckets(h)
  OBVIOUS
<1>2. Good(h, n)
  BY <1>1 DEF IInv, TraverseBegin
<1>3. Good(h', n) /\ h'.val = h.val /\ \A x \in DOMAIN h.val : Ahead(h', n, x)
  BY <1>2, RewindFacts DEF TraverseBegin
<1>4. due' = DOMAIN h.val /\ done' = {}
  BY <1>2, InOrderKeys DEF TraverseBegin
<1>5. QED
  BY <1>3, <1>4, GoodAfter

(* A traversal returns an element that it did not return before, or ends   *)
(* when it owes none.                                                      *)
LEMMA TraverseStep ==
  ASSUME IInv, Traverse, NEW key, key = NextKey(h)
  PROVE  /\ IInv' /\ h'.val = h.val
         /\ \/ key = NULL /\ due = {} /\ done' = done
            \/ key \in DOMAIN h.val \ done /\ key # NULL
<1>1. PICK n : n = NumBuckets(h)
  OBVIOUS
<1>2. Good(h, n) /\ Traversed(h, n)
  BY <1>1 DEF IInv, Traverse
<1>3. /\ Good(h', n) /\ h'.val = h.val
      /\ \/ key = NULL /\ \A x \in DOMAIN h.val : ~Ahead(h, n, x) /\ ~Ahead(h', n, x)
         \/ /\ key \in DOMAIN h.val /\ Ahead(h, n, key)
            /\ \A x \in DOMAIN h.val : Ahead(h', n, x) <=> Ahead(h, n, x) /\ x # key
  BY <1>2, AdvanceFacts DEF Traverse
<1>4. NULL \notin DOMAIN h.val
  BY <1>2, GoodFacts, MapFacts, NullAssumption
<1>5. due' = due \ {key} /\ done' = IF key = NULL THEN done ELSE done \cup {key}
  BY DEF Traverse
<1>6. CASE key = NULL /\ \A x \in DOMAIN h.val : ~Ahead(h, n, x) /\ ~Ahead(h', n, x)
  <2>1. due = {} /\ due' = {} /\ done' = done
    BY <1>2, <1>5, <1>6 DEF Traversed
  <2>2. done' \subseteq DOMAIN h'.val /\ \A x \in done' : ~Ahead(h', n, x)
    BY <1>2, <1>3, <1>6, <2>1 DEF Traversed
  <2>3. IInv'
    BY <1>3, <2>1, <2>2, GoodAfter
  <2>4. QED
    BY <1>3, <1>6, <2>1, <2>3
<1>7. CASE /\ key \in DOMAIN h.val /\ Ahead(h, n, key)
           /\ \A x \in DOMAIN h.val : Ahead(h', n, x) <=> Ahead(h, n, x) /\ x # key
  <2>1. key # NULL /\ key \notin done
    BY <1>2, <1>4, <1>7 DEF Traversed
  <2>2. due' \subseteq DOMAIN h'.val /\ \A x \in due' : Ahead(h', n, x)
    BY <1>2, <1>3, <1>5, <1>7 DEF Traversed
  <2>3. done' \subseteq DOMAIN h'.val /\ \A x \in done' : ~Ahead(h', n, x)
    BY <1>2, <1>3, <1>5, <1>7, <2>1 DEF Traversed
  <2>4. IInv'
    BY <1>3, <2>2, <2>3, GoodAfter
  <2>5. QED
    BY <1>3, <1>7, <2>1, <2>4
<1>8. QED
  BY <1>3, <1>6, <1>7

(* resize-hash keeps all the elements.                                     *)
LEMMA ResizeHashStep ==
  ASSUME IInv, NEW s \in Sizes, ResizeHash(s)
  PROVE  IInv' /\ h'.val = h.val
<1>1. s \in Nat /\ Good(h, NumBuckets(h))
  BY SizesAssumption DEF IInv, ResizeHash
<1>2. PICK m : Good(h', m) /\ h'.val = h.val
  BY <1>1, ResizeFacts DEF ResizeHash
<1>3. due' = {} /\ done' = {}
  BY DEF ResizeHash
<1>4. QED
  BY <1>2, <1>3, GoodAfter

(* purge-hash leaves an empty table, or none.                              *)
LEMMA PurgeHashStep ==
  ASSUME IInv, NEW d \in BOOLEAN, PurgeHash(d)
  PROVE  IInv' /\ h'.val = <<>>
<1>1. due' = {} /\ done' = {} /\ h' = IF d THEN NoHash ELSE Created(NumBuckets(h))
  BY DEF PurgeHash
<1>2. CASE d
  BY <1>1, <1>2 DEF IInv, Exists, NoHash
<1>3. CASE ~d
  <2>1. NumBuckets(h) \in Nat
    BY DEF IInv, PurgeHash, Good
  <2>2. PICK n \in Nat \ {0} : Good(h', n) /\ h'.val = <<>>
    BY <1>1, <1>3, <2>1, CreatedFacts
  <2>3. QED
    BY <1>1, <2>2, GoodAfter
<1>4. QED
  BY <1>2, <1>3

(* A read changes neither the table nor what a traversal owes.             *)
LEMMA SameTable ==
  ASSUME IInv, h' = h, due' = due, done' = done
  PROVE  IInv'
<1>1. NumBuckets(h') = NumBuckets(h)
  OBVIOUS
<1>2. QED
  BY <1>1 DEF IInv, Exists, Traversed

(* Every step keeps the invariant.                                         *)
LEMMA Inductive == IInv /\ [Next]_vars => IInv'
<1> SUFFICES ASSUME IInv, [Next]_vars PROVE IInv'
  OBVIOUS
<1>1. ASSUME NEW s \in Sizes, NewHash(s) PROVE IInv'
  BY <1>1, NewHashStep
<1>2. ASSUME NEW s \in Sizes, ResizeHash(s) PROVE IInv'
  BY <1>2, ResizeHashStep
<1>3. ASSUME NEW k \in Keys, NEW v \in Values, WriteHash(k, v) PROVE IInv'
  BY <1>3, WriteHashStep
<1>4. ASSUME NEW k \in Keys, ReadHash(k) \/ ReadHashDelete(k) PROVE IInv'
  <2>1. CASE ReadHashDelete(k)
    BY <2>1, ReadHashDeleteStep
  <2>2. CASE ReadHash(k)
    <3>1. h' = h /\ due' = due /\ done' = done
      BY <2>2 DEF ReadHash
    <3>2. QED
      BY <3>1, SameTable
  <2>3. QED
    BY <1>4, <2>1, <2>2
<1>5. CASE TraverseBegin
  BY <1>5, TraverseBeginStep
<1>6. CASE Traverse
  BY <1>6, TraverseStep
<1>7. ASSUME NEW d \in BOOLEAN, PurgeHash(d) PROVE IInv'
  BY <1>7, PurgeHashStep
<1>8. CASE UNCHANGED vars
  <2>1. h' = h /\ due' = due /\ done' = done
    BY <1>8 DEF vars
  <2>2. QED
    BY <2>1, SameTable
<1>9. QED
  BY <1>1, <1>2, <1>3, <1>4, <1>5, <1>6, <1>7, <1>8 DEF Next

(* The invariant holds in every state.                                     *)
LEMMA Invariant == Spec => []IInv
BY Initially, Inductive, PTL DEF Spec

(* A good table is sound.                                                  *)
LEMMA GoodIsSound == IInv => TableSound
<1> SUFFICES ASSUME IInv, Exists PROVE TableSound
  BY DEF TableSound
<1>1. PICK n : n = NumBuckets(h)
  OBVIOUS
<1>2. Good(h, n)
  BY <1>1 DEF IInv
<1>3. /\ n \in Nat \ {0} /\ h.buckets \in [0 .. n - 1 -> Seq(Keys)] /\ h.dnext \in 0 .. n
      /\ \A k \in Keys : ComputeHash(h, k) = Code[k] % n
  BY <1>2, GoodFacts
<1>4. ASSUME NEW b \in DOMAIN h.buckets, NEW i \in DOMAIN h.buckets[b]
      PROVE  /\ ComputeHash(h, h.buckets[b][i]) = b
             /\ \A j \in DOMAIN h.buckets[b] : h.buckets[b][i] = h.buckets[b][j] => i = j
  <2>1. b \in 0 .. n - 1 /\ h.buckets[b] \in Seq(Keys)
    BY <1>3
  <2>2. DOMAIN h.buckets[b] = 1 .. Len(h.buckets[b]) /\ h.buckets[b][i] \in Keys
    BY <2>1
  <2>3. Code[h.buckets[b][i]] % n = b
    BY <1>2, <2>1, <2>2 DEF Good, InPlace
  <2>4. NoRepeat(h.buckets[b])
    BY <1>2, <2>1 DEF Good, Once
  <2>5. QED
    BY <1>3, <2>2, <2>3, <2>4 DEF NoRepeat
<1>5. h.tot = Len(InOrder(h)) /\ Standing(h, n)
  BY <1>2 DEF Good
<1>6. h.dcurr # NULL => h.dcurr \in ToSet(h.buckets[h.dnext])
  BY <1>5 DEF Standing
<1>7. h.dnext \in 0 .. NumBuckets(h)
  BY <1>1, <1>3
<1>8. QED
  BY <1>4, <1>5, <1>6, <1>7 DEF TableSound

(* The hash table stays sound: every key is in one entry and in the bucket *)
(* where a search looks for it, the total counts the entries, and the      *)
(* traversal never stands on an entry that was deleted.                    *)
THEOREM TableIsSound == Spec => []TableSound
BY Invariant, GoodIsSound, PTL

(* What a search returns is what the dictionary has.                       *)
LEMMA SearchFindsValue ==
  ASSUME IInv, Exists, NEW k \in Keys
  PROVE  Find(h, k) = Dict!Value(k)
<1>1. PICK n : n = NumBuckets(h)
  OBVIOUS
<1>2. Good(h, n)
  BY <1>1 DEF IInv
<1>3. Find(h, k) = IF k \in DOMAIN h.val THEN h.val[k] ELSE NULL
  BY <1>2, FindFacts
<1>4. Contents = h.val
  BY SeenIsHeld
<1>5. QED
  BY <1>3, <1>4 DEF Dict!Value, Contents

(* A step on a good table is a step of the dictionary.                     *)
LEMMA StepIsDictStep ==
  ASSUME IInv, IInv', [Next]_vars
  PROVE  [Dict!Next]_(Dict!vars)
<1>1. Contents = h.val /\ Contents' = h'.val
  <2>1. Contents = h.val
    BY SeenIsHeld
  <2>2. (Contents = h.val)'
    BY SeenIsHeld, PTL
  <2>3. QED
    BY <2>1, <2>2
<1>2. ASSUME NEW s \in Sizes, NewHash(s) PROVE Dict!New
  <2>1. h.val = <<>> /\ h'.val = <<>>
    BY <1>2, NewHashStep DEF IInv, NewHash, NoHash
  <2>2. due' = {} /\ done' = {} /\ call' = <<"new-hash">>
    BY <1>2 DEF NewHash
  <2>3. QED
    BY <1>1, <2>1, <2>2 DEF Dict!New, Dict!Again, Contents
<1>3. ASSUME NEW s \in Sizes, ResizeHash(s) PROVE Dict!Resize
  <2>1. h'.val = h.val
    BY <1>3, ResizeHashStep
  <2>2. due' = {} /\ done' = {} /\ call' = <<"resize-hash">>
    BY <1>3 DEF ResizeHash
  <2>3. QED
    BY <1>1, <2>1, <2>2 DEF Dict!Resize, Dict!Again, Contents
<1>4. ASSUME NEW k \in Keys, NEW v \in Values, WriteHash(k, v) PROVE Dict!Write(k, v)
  <2>1. h'.val = Written(h.val, k, v)
    BY <1>4, WriteHashStep
  <2>2. UNCHANGED <<due, done>> /\ call' = <<"write-hash", k, v, Find(h, k)>>
    BY <1>4 DEF WriteHash
  <2>3. Find(h, k) = Dict!Value(k)
    BY <1>4, SearchFindsValue DEF WriteHash
  <2>4. QED
    BY <1>1, <2>1, <2>2, <2>3 DEF Dict!Write, Contents, Written
<1>5. ASSUME NEW k \in Keys, ReadHash(k) PROVE Dict!Read(k)
  <2>1. h'.val = h.val
    BY <1>5 DEF ReadHash
  <2>2. UNCHANGED <<due, done>> /\ call' = <<"read-hash", k, Find(h, k)>>
    BY <1>5 DEF ReadHash
  <2>3. Find(h, k) = Dict!Value(k)
    BY <1>5, SearchFindsValue DEF ReadHash
  <2>4. QED
    BY <1>1, <2>1, <2>2, <2>3 DEF Dict!Read, Contents
<1>6. ASSUME NEW k \in Keys, ReadHashDelete(k) PROVE Dict!Delete(k)
  <2>1. h'.val = Deleted(h.val, k)
    BY <1>6, ReadHashDeleteStep
  <2>2. /\ due' = due \ {k} /\ done' = done \ {k}
        /\ call' = <<"read-hash delete", k, Find(h, k)>>
    BY <1>6 DEF ReadHashDelete
  <2>3. Find(h, k) = Dict!Value(k)
    BY <1>6, SearchFindsValue DEF ReadHashDelete
  <2>4. QED
    BY <1>1, <2>1, <2>2, <2>3 DEF Dict!Delete, Contents, Deleted
<1>7. ASSUME TraverseBegin PROVE Dict!Begin
  <2>1. h'.val = h.val /\ due' = DOMAIN h.val
    BY <1>7, TraverseBeginStep
  <2>2. done' = {} /\ call' = <<"traverse begin">>
    BY <1>7 DEF TraverseBegin
  <2>3. QED
    BY <1>1, <2>1, <2>2 DEF Dict!Begin, Contents
<1>8. ASSUME Traverse PROVE Dict!End \/ \E k \in Keys : Dict!Traverse(k)
  <2>1. PICK key : key = NextKey(h)
    OBVIOUS
  <2>2. /\ h'.val = h.val
        /\ \/ key = NULL /\ due = {} /\ done' = done
           \/ key \in DOMAIN h.val \ done /\ key # NULL
    BY <1>8, <2>1, TraverseStep
  <2>3. /\ due' = due \ {key} /\ done' = IF key = NULL THEN done ELSE done \cup {key}
        /\ call' = <<"traverse", key, IF key = NULL THEN NULL ELSE h.val[key]>>
    BY <1>8, <2>1 DEF Traverse
  <2>4. CASE key = NULL /\ due = {} /\ done' = done
    BY <1>1, <2>2, <2>3, <2>4 DEF Dict!End, Contents
  <2>5. CASE key \in DOMAIN h.val \ done /\ key # NULL
    <3>1. Dict!Traverse(key)
      BY <1>1, <2>2, <2>3, <2>5 DEF Dict!Traverse, Contents
    <3>2. h.val \in Maps
      BY <1>8 DEF IInv, Traverse, Good, ATable
    <3>3. key \in Keys
      BY <2>5, <3>2, MapFacts
    <3>4. QED
      BY <3>1, <3>3
  <2>6. QED
    BY <2>2, <2>4, <2>5
<1>9. ASSUME NEW d \in BOOLEAN, PurgeHash(d) PROVE Dict!Purge
  <2>1. h'.val = <<>>
    BY <1>9, PurgeHashStep
  <2>2. due' = {} /\ done' = {} /\ call' = <<"purge-hash">>
    BY <1>9 DEF PurgeHash
  <2>3. QED
    BY <1>1, <2>1, <2>2 DEF Dict!Purge, Dict!Again, Contents
<1>10. CASE UNCHANGED vars
  BY <1>1, <1>10 DEF vars, Dict!vars, Contents
<1>11. QED
  BY <1>2, <1>3, <1>4, <1>5, <1>6, <1>7, <1>8, <1>9, <1>10 DEF Next, Dict!Next

(* The hash implements the dictionary: whatever collides, and however      *)
(* often it is resized, each statement does and returns what the           *)
(* dictionary does and returns for the same arguments; a search finds what *)
(* was written last and not deleted, and a traversal returns each element  *)
(* that was there once, with its value.                                    *)
THEOREM HashImplementsDict == Spec => ImplementsDict
<1>1. Init => Dict!Init
  <2>1. ASSUME Init PROVE Contents = <<>>
    BY <2>1, Initially, SeenIsHeld DEF Init, NoHash
  <2>2. QED
    BY <2>1 DEF Init, Dict!Init, Contents
<1>2. IInv /\ IInv' /\ [Next]_vars => [Dict!Next]_(Dict!vars)
  BY StepIsDictStep
<1>3. QED
  BY <1>1, <1>2, Invariant, PTL DEF Spec, ImplementsDict, Dict!Spec

=============================================================================

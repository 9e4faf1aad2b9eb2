--------------------------- MODULE VelyTextProofs ---------------------------
(***************************************************************************)
(* Proofs about VelyJson and VelyInput, which take apart the text that a   *)
(* worker gets.  The two have nothing in common but this module.           *)
(*                                                                         *)
(* ListStaysInBounds: for documents of any length, any limit of nesting    *)
(* and any order of documents, interrupts and left over characters, the    *)
(* static array list is used outside of its bounds by an array that is the *)
(* whole document, and by no other document (OutsideIsRoot).               *)
(* Depth counts the calls on the stack that were made for a member of an   *)
(* object.  A malformed document can make list_c larger than that, never   *)
(* smaller by more than the one that a running array has taken back.       *)
(*                                                                         *)
(* TextIsFlattened: a document that the grammar accepts is stored value by *)
(* value, each under the names and indexes that lead up to it.  While the  *)
(* document is one that Flattened speaks of, Match holds between what the  *)
(* grammar has open and wants, and what the parser has: one call for each  *)
(* object and array (StackOK), with the flag that stands for the want, and *)
(* in list, up to list_c, the member of each object that is open, with the *)
(* index of the array which that member opened (ListOK).  The proof takes  *)
(* the tokens one by one (TokenKeeps), and from Match the name of a value  *)
(* in list is that of the grammar (NameIsRight).                           *)
(*                                                                         *)
(* CookiesAreSent and SearchFinds: cookies are sent as they were set, and  *)
(* parameters are found, whatever a client sends.  Until the header ends,  *)
(* the cookie that a search finds is the only one of the program of its    *)
(* name (Intended); and no step moves a parameter or removes one           *)
(* (ParamsKept).  That the input of a request makes a list of parameters   *)
(* is induction over the URL and the path (CutCounts, FromPathFacts).      *)
(*                                                                         *)
(* ParamsAreRight: each parameter is of the pair of its "=", or of its     *)
(* segment of the path.  CutRead says what the strings are after k words   *)
(* of a URL, PathRead what the parameters are after k segments.            *)
(***************************************************************************)
EXTENDS VelyJson, VelyInput, FiniteSetTheorems, SequenceTheorems, WellFoundedInduction, TLAPS

\* What a call has noted.
Frames == [colon : BOOLEAN, name : BOOLEAN, arr : BOOLEAN, obj : BOOLEAN,
           isarr : BOOLEAN, isobj : BOOLEAN, by : {"root", ":", "[", ","}]

\* An array is not an object, and its calls are those for its elements.
Calls(s) ==
    /\ s \in Seq(Frames) /\ Len(s) > 0
    /\ \A k \in 1 .. Len(s) : s[k].isarr => ~s[k].name /\ ~s[k].colon /\ ~s[k].isobj
    /\ ~s[1].isarr
    /\ \A k \in 2 .. Len(s) : s[k - 1].isarr <=> s[k].by # ":"

\* What the running call has noted.
Running(f) ==
    /\ f.isarr => f.arr
    /\ f.isobj => f.name \/ f.colon \/ f.obj

\* The calls for members of objects, among the first k.
Members(s, k) == {j \in 2 .. k : s[j].by = ":"}

Depth(s, k) == Cardinality(Members(s, k))

\* The stack is one of calls that fit, and list_c is as large as the depth.
Good(s, c) ==
    /\ Calls(s) /\ Running(s[Len(s)])
    /\ c \in Int /\ c <= MaxNested - 2
    /\ c >= Depth(s, Len(s)) - (IF s[Len(s)].isarr THEN 1 ELSE 0)
    /\ Len(s) = 1 /\ ~s[1].colon /\ ~s[1].name /\ ~s[1].arr /\ ~s[1].obj => c = 0

\* The inductive invariant of ListInBounds.
IInv == /\ phase = "parse" => Good(stack, list_c)
        /\ phase = "undefined" => Len(stack) = 1 /\ ~Top.isobj

-----------------------------------------------------------------------------
(* VelyJson: the calls and list_c                                          *)

(* The depth of a stack, call by call.                                     *)
LEMMA DepthFacts ==
  ASSUME NEW s, NEW n \in Nat \ {0}
  PROVE  /\ Depth(s, n) \in Nat /\ Depth(s, 1) = 0
         /\ Depth(s, n + 1) = Depth(s, n) + (IF s[n + 1].by = ":" THEN 1 ELSE 0)
         /\ n > 1 /\ s[2].by = ":" => Depth(s, n) > 0
<1>1. ASSUME NEW k \in Nat \ {0} PROVE IsFiniteSet(Members(s, k)) /\ Depth(s, k) \in Nat
  <2>1. IsFiniteSet(2 .. k)
    BY FS_Interval
  <2>2. Members(s, k) \in SUBSET (2 .. k)
    BY DEF Members
  <2>3. IsFiniteSet(Members(s, k))
    BY <2>1, <2>2, FS_Subset
  <2>4. QED
    BY <2>3, FS_CardinalityType DEF Depth
<1>2. Depth(s, 1) = 0
  <2>1. Members(s, 1) = {}
    BY DEF Members
  <2>2. QED
    BY <2>1, FS_EmptySet DEF Depth
<1>3. Depth(s, n + 1) = Depth(s, n) + (IF s[n + 1].by = ":" THEN 1 ELSE 0)
  <2>1. CASE s[n + 1].by = ":"
    <3>1. Members(s, n + 1) = Members(s, n) \cup {n + 1} /\ n + 1 \notin Members(s, n)
      BY <2>1 DEF Members
    <3>2. Cardinality(Members(s, n) \cup {n + 1}) = Cardinality(Members(s, n)) + 1
      BY <1>1, <3>1, FS_AddElement
    <3>3. QED
      BY <2>1, <3>1, <3>2 DEF Depth
  <2>2. CASE s[n + 1].by # ":"
    <3>1. Members(s, n + 1) = Members(s, n)
      BY <2>2 DEF Members
    <3>2. QED
      BY <1>1, <2>2, <3>1 DEF Depth
  <2>3. QED
    BY <2>1, <2>2
<1>4. ASSUME n > 1, s[2].by = ":" PROVE Depth(s, n) > 0
  <2>1. 2 \in Members(s, n)
    BY <1>4 DEF Members
  <2>2. Depth(s, n) # 0
    BY <1>1, <2>1, FS_EmptySet DEF Depth
  <2>3. QED
    BY <1>1, <2>2
<1>5. QED
  BY <1>1, <1>2, <1>3, <1>4

(* The depth is of the calls alone.                                        *)
LEMMA DepthSame ==
  ASSUME NEW s, NEW t, NEW n \in Nat, \A k \in 2 .. n : t[k].by = s[k].by
  PROVE  Depth(t, n) = Depth(s, n)
<1>1. Members(t, n) = Members(s, n)
  BY DEF Members
<1>2. QED
  BY <1>1 DEF Depth

(* The stack with another frame in place of the running one.               *)
LEMMA SetFacts ==
  ASSUME NEW s \in Seq(Frames), Len(s) > 0, NEW f \in Frames
  PROVE  \E t : /\ t = Append(Front(s), f) /\ t \in Seq(Frames) /\ Len(t) = Len(s)
                /\ t[Len(s)] = f /\ \A k \in 1 .. Len(s) - 1 : t[k] = s[k]
<1>1. PICK n : n = Len(s)
  OBVIOUS
<1>2. n \in Nat \ {0} /\ \A k \in 1 .. n : s[k] \in Frames
  BY <1>1, LenProperties
<1>3. PICK r : r = Front(s)
  OBVIOUS
<1>4. r \in Seq(Frames) /\ Len(r) = n - 1 /\ \A k \in 1 .. n - 1 : r[k] = s[k]
  <2>1. /\ SubSeq(s, 1, n - 1) \in Seq(Frames)
        /\ Len(SubSeq(s, 1, n - 1)) = IF 1 <= n - 1 THEN (n - 1) - 1 + 1 ELSE 0
        /\ \A k \in 1 .. (n - 1) - 1 + 1 : SubSeq(s, 1, n - 1)[k] = s[1 + k - 1]
    BY <1>1, <1>2, SubSeqProperties
  <2>2. r = SubSeq(s, 1, n - 1)
    BY <1>1, <1>3 DEF Front
  <2>3. Len(r) = n - 1
    BY <1>2, <2>1, <2>2
  <2>4. ASSUME NEW k \in 1 .. n - 1 PROVE r[k] = s[k]
    <3>1. k \in 1 .. (n - 1) - 1 + 1 /\ 1 + k - 1 = k
      BY <1>2
    <3>2. QED
      BY <2>1, <2>2, <3>1
  <2>5. QED
    BY <2>1, <2>2, <2>3, <2>4
<1>5. PICK t : t = Append(r, f)
  OBVIOUS
<1>6. t \in Seq(Frames) /\ Len(t) = n /\ t[n] = f /\ \A k \in 1 .. n - 1 : t[k] = r[k]
  <2>1. t \in Seq(Frames) /\ Len(t) = Len(r) + 1
    BY <1>4, <1>5, AppendProperties
  <2>2. (\A k \in 1 .. Len(r) : t[k] = r[k]) /\ t[Len(r) + 1] = f
    BY <1>4, <1>5, AppendProperties
  <2>3. QED
    BY <1>2, <1>4, <2>1, <2>2
<1>7. QED
  BY <1>1, <1>3, <1>4, <1>5, <1>6

(* The parts of a good stack.                                              *)
LEMMA GoodFacts ==
  ASSUME NEW s, NEW c, Good(s, c), NEW n, n = Len(s)
  PROVE  /\ s \in Seq(Frames) /\ n \in Nat \ {0} /\ c \in Int /\ c <= MaxNested - 2
         /\ Depth(s, n) \in Nat /\ (n > 1 => Depth(s, n) > 0) /\ (s[n].isarr => n > 1)
         /\ c >= Depth(s, n) - (IF s[n].isarr THEN 1 ELSE 0)
         /\ \A k \in 1 .. n : s[k] \in Frames
<1>1. /\ s \in Seq(Frames) /\ Len(s) > 0 /\ ~s[1].isarr
      /\ \A k \in 2 .. Len(s) : s[k - 1].isarr <=> s[k].by # ":"
  BY DEF Good, Calls
<1>2. n \in Nat \ {0} /\ \A k \in 1 .. n : s[k] \in Frames
  BY <1>1, LenProperties
<1>3. n > 1 => s[2].by = ":"
  <2>1. ASSUME n > 1 PROVE s[1].isarr <=> s[2].by # ":"
    <3>1. 2 \in 2 .. Len(s) /\ 2 - 1 = 1
      BY <1>2, <2>1
    <3>2. QED
      BY <1>1, <3>1
  <2>2. QED
    BY <1>1, <2>1
<1>4. Depth(s, n) \in Nat /\ (n > 1 => Depth(s, n) > 0)
  BY <1>2, <1>3, DepthFacts
<1>5. s[n].isarr => n > 1
  BY <1>1, <1>2
<1>6. /\ c \in Int /\ c <= MaxNested - 2
      /\ c >= Depth(s, n) - (IF s[n].isarr THEN 1 ELSE 0)
  BY DEF Good
<1>7. QED
  BY <1>1, <1>2, <1>4, <1>5, <1>6

\* The running call goes on as f.
GoesOn(f, s, n) ==
    /\ f \in Frames /\ f.by = s[n].by /\ (n = 1 => ~f.isarr)
    /\ f.isarr => ~f.name /\ ~f.colon /\ ~f.isobj

(* The calls with another frame in place of the running one.               *)
LEMMA SetCalls ==
  ASSUME NEW s, Calls(s), NEW n, n = Len(s), NEW f, GoesOn(f, s, n)
  PROVE  \E t : /\ t = Append(Front(s), f) /\ Calls(t) /\ Len(t) = n /\ t[n] = f
                /\ \A k \in 1 .. n - 1 : t[k] = s[k]
                /\ Depth(t, n) = Depth(s, n)
<1>1. /\ s \in Seq(Frames) /\ Len(s) > 0 /\ ~s[1].isarr
      /\ \A k \in 1 .. n : s[k].isarr => ~s[k].name /\ ~s[k].colon /\ ~s[k].isobj
      /\ \A k \in 2 .. n : s[k - 1].isarr <=> s[k].by # ":"
  BY DEF Calls
<1>2. n \in Nat \ {0}
  BY <1>1, LenProperties
<1>3. /\ f \in Frames /\ f.by = s[n].by /\ (n = 1 => ~f.isarr)
      /\ f.isarr => ~f.name /\ ~f.colon /\ ~f.isobj
  BY DEF GoesOn
<1>4. PICK t : /\ t = Append(Front(s), f) /\ t \in Seq(Frames) /\ Len(t) = n
               /\ t[n] = f /\ \A k \in 1 .. n - 1 : t[k] = s[k]
  <2>1. Len(s) > 0 /\ s \in Seq(Frames) /\ f \in Frames
    BY <1>1, <1>3
  <2>2. PICK t : /\ t = Append(Front(s), f) /\ t \in Seq(Frames) /\ Len(t) = Len(s)
                 /\ t[Len(s)] = f /\ \A k \in 1 .. Len(s) - 1 : t[k] = s[k]
    BY <2>1, SetFacts
  <2>3. QED
    BY <2>2
<1>5. \A k \in 1 .. n : t[k].by = s[k].by
  <2>1. ASSUME NEW k \in 1 .. n PROVE t[k].by = s[k].by
    <3>1. k = n \/ k \in 1 .. n - 1
      BY <1>2
    <3>2. QED
      BY <1>3, <1>4, <3>1
  <2>2. QED
    BY <2>1
<1>6. Depth(t, n) = Depth(s, n)
  BY <1>2, <1>5, DepthSame
<1>7. Calls(t)
  <2>1. ASSUME NEW k \in 1 .. n, t[k].isarr PROVE ~t[k].name /\ ~t[k].colon /\ ~t[k].isobj
    <3>1. k = n \/ k \in 1 .. n - 1
      BY <1>2
    <3>2. QED
      BY <1>1, <1>3, <1>4, <2>1, <3>1
  <2>2. ~t[1].isarr
    <3>1. n = 1 \/ 1 \in 1 .. n - 1
      BY <1>2
    <3>2. QED
      BY <1>1, <1>3, <1>4, <3>1
  <2>3. ASSUME NEW k \in 2 .. n PROVE t[k - 1].isarr <=> t[k].by # ":"
    <3>1. k - 1 \in 1 .. n - 1 /\ k \in 1 .. n
      BY <1>2
    <3>2. t[k - 1] = s[k - 1] /\ t[k].by = s[k].by
      BY <1>4, <1>5, <3>1
    <3>3. QED
      BY <1>1, <3>2
  <2>4. QED
    BY <1>2, <1>4, <2>1, <2>2, <2>3 DEF Calls
<1>8. QED
  BY <1>4, <1>6, <1>7

(* The running call goes on without another call.                          *)
LEMMA SetGood ==
  ASSUME NEW s, NEW c, Good(s, c), NEW n, n = Len(s), NEW f, GoesOn(f, s, n), Running(f),
         f.isarr = s[n].isarr, f.colon \/ f.name \/ f.arr \/ f.obj
  PROVE  Good(Append(Front(s), f), c)
<1>1. Calls(s)
  BY DEF Good
<1>2. PICK t : /\ t = Append(Front(s), f) /\ Calls(t) /\ Len(t) = n /\ t[n] = f
               /\ \A k \in 1 .. n - 1 : t[k] = s[k]
               /\ Depth(t, n) = Depth(s, n)
  BY <1>1, SetCalls
<1>3. /\ c \in Int /\ c <= MaxNested - 2
      /\ c >= Depth(s, n) - (IF s[n].isarr THEN 1 ELSE 0)
  BY GoodFacts
<1>4. Good(t, c)
  BY <1>2, <1>3 DEF Good
<1>5. QED
  BY <1>2, <1>4

\* The running call goes on as f and calls, and e is list_c then.
Calling(f, s, n, by, e) ==
    /\ GoesOn(f, s, n)
    /\ by \in {":", "[", ","} /\ (f.isarr <=> by # ":")
    /\ e \in Int /\ e <= MaxNested - 2
    /\ e >= Depth(s, n) + (IF by = ":" THEN 1 ELSE 0)

(* The call that is made is in order.                                      *)
LEMMA CallGood ==
  ASSUME NEW s, NEW c, Good(s, c), NEW n, n = Len(s), NEW f, NEW by, NEW e,
         Calling(f, s, n, by, e)
  PROVE  Good(Append(Append(Front(s), f), [Frame EXCEPT !.by = by]), e)
<1>0. /\ GoesOn(f, s, n)
      /\ by \in {":", "[", ","} /\ (f.isarr <=> by # ":")
      /\ e \in Int /\ e <= MaxNested - 2
      /\ e >= Depth(s, n) + (IF by = ":" THEN 1 ELSE 0)
  BY DEF Calling
<1>1. Calls(s) /\ n \in Nat \ {0}
  BY GoodFacts DEF Good
<1>2. PICK t : /\ t = Append(Front(s), f) /\ Calls(t) /\ Len(t) = n /\ t[n] = f
               /\ \A k \in 1 .. n - 1 : t[k] = s[k]
               /\ Depth(t, n) = Depth(s, n)
  <2>1. Calls(s) /\ GoesOn(f, s, n)
    BY <1>0, <1>1
  <2>2. QED
    BY <2>1, SetCalls
<1>3. PICK a : a = [Frame EXCEPT !.by = by]
  OBVIOUS
<1>4. a \in Frames /\ a.by = by /\ ~a.isarr /\ ~a.isobj
  BY <1>0, <1>3 DEF Frame, Frames
<1>5. PICK u : u = Append(t, a)
  OBVIOUS
<1>6. t \in Seq(Frames)
  BY <1>2 DEF Calls
<1>7. /\ u \in Seq(Frames) /\ Len(u) = n + 1 /\ u[n + 1] = a
      /\ \A k \in 1 .. n : u[k] = t[k]
  BY <1>2, <1>4, <1>5, <1>6, AppendProperties
<1>8. Calls(u)
  <2>1. ASSUME NEW k \in 1 .. n + 1, u[k].isarr PROVE ~u[k].name /\ ~u[k].colon /\ ~u[k].isobj
    <3>1. k = n + 1 \/ k \in 1 .. n
      BY <1>1
    <3>2. QED
      BY <1>2, <1>4, <1>7, <2>1, <3>1 DEF Calls
  <2>2. ~u[1].isarr
    BY <1>1, <1>2, <1>7 DEF Calls
  <2>3. ASSUME NEW k \in 2 .. n + 1 PROVE u[k - 1].isarr <=> u[k].by # ":"
    <3>1. CASE k = n + 1
      <4>1. u[k - 1] = f /\ u[k] = a
        BY <1>1, <1>2, <1>7, <3>1
      <4>2. QED
        BY <1>0, <1>4, <4>1
    <3>2. CASE k # n + 1
      <4>1. k \in 2 .. n /\ k - 1 \in 1 .. n /\ k \in 1 .. n
        BY <1>1, <3>2
      <4>2. u[k - 1] = t[k - 1] /\ u[k] = t[k]
        BY <1>7, <4>1
      <4>3. t[k - 1].isarr <=> t[k].by # ":"
        BY <1>2, <4>1 DEF Calls
      <4>4. QED
        BY <4>2, <4>3
    <3>3. QED
      BY <3>1, <3>2
  <2>4. QED
    BY <1>1, <1>7, <2>1, <2>2, <2>3 DEF Calls
<1>9. Depth(u, n + 1) = Depth(s, n) + (IF by = ":" THEN 1 ELSE 0)
  <2>1. Depth(u, n) = Depth(t, n)
    BY <1>1, <1>7, DepthSame
  <2>2. Depth(u, n + 1) = Depth(u, n) + (IF u[n + 1].by = ":" THEN 1 ELSE 0)
    BY <1>1, DepthFacts
  <2>3. QED
    BY <1>2, <1>4, <1>7, <2>1, <2>2
<1>10. Running(u[Len(u)])
  BY <1>4, <1>7 DEF Running
<1>11. e >= Depth(u, Len(u)) - (IF u[Len(u)].isarr THEN 1 ELSE 0)
  <2>1. u[Len(u)].isarr = FALSE
    BY <1>4, <1>7 DEF Frames
  <2>2. Depth(s, n) \in Nat
    BY GoodFacts
  <2>3. QED
    <3>1. e >= Depth(u, n + 1) /\ Len(u) = n + 1 /\ Depth(u, n + 1) \in Nat
      <4>1. PICK x : x = Depth(s, n) + (IF by = ":" THEN 1 ELSE 0)
        OBVIOUS
      <4>2. x \in Nat /\ e >= x
        <5>1. CASE by = ":"
          BY <1>0, <2>2, <4>1, <5>1
        <5>2. CASE by # ":"
          <6>1. x = Depth(s, n) + 0 /\ e >= Depth(s, n) + 0
            BY <1>0, <4>1, <5>2
          <6>2. QED
            BY <2>2, <6>1
        <5>3. QED
          BY <5>1, <5>2
      <4>3. Depth(u, n + 1) = x
        BY <1>9, <4>1
      <4>4. QED
        BY <1>7, <4>2, <4>3
    <3>2. e >= Depth(u, Len(u)) /\ Depth(u, Len(u)) \in Nat
      BY <3>1
    <3>3. QED
      BY <2>1, <3>2
<1>12. Len(u) # 1
  BY <1>1, <1>7
<1>13. Good(u, e)
  BY <1>0, <1>8, <1>10, <1>11, <1>12 DEF Good
<1>14. QED
  BY <1>2, <1>3, <1>5, <1>13

\* The calls that are left when the running one returns.
Left(s) ==
    IF Front(s) = <<>> THEN <<>>
    ELSE Append(Front(Front(s)), Resume(Last(Front(s)), Last(s).by))

(* A call returns, and what it has taken back was added for it.            *)
LEMMA ReturnGood ==
  ASSUME NEW s, NEW c, Good(s, c), NEW n, n = Len(s), NEW e \in Int, e <= c,
         e >= Depth(s, n) - 1
  PROVE  Left(s) = <<>> \/ Good(Left(s), e)
<1>1. /\ s \in Seq(Frames) /\ n \in Nat \ {0} /\ c \in Int /\ c <= MaxNested - 2
      /\ \A k \in 1 .. n :
            s[k] \in Frames /\ (s[k].isarr => ~s[k].name /\ ~s[k].colon /\ ~s[k].isobj)
      /\ \A k \in 2 .. n : s[k - 1].isarr <=> s[k].by # ":"
  BY GoodFacts DEF Good, Calls
<1>2. PICK r : r = Front(s)
  OBVIOUS
<1>3. r \in Seq(Frames) /\ Len(r) = n - 1 /\ \A k \in 1 .. n - 1 : r[k] = s[k]
  <2>1. /\ SubSeq(s, 1, n - 1) \in Seq(Frames)
        /\ Len(SubSeq(s, 1, n - 1)) = IF 1 <= n - 1 THEN (n - 1) - 1 + 1 ELSE 0
        /\ \A k \in 1 .. (n - 1) - 1 + 1 : SubSeq(s, 1, n - 1)[k] = s[1 + k - 1]
    BY <1>1, SubSeqProperties
  <2>2. r = SubSeq(s, 1, n - 1)
    BY <1>2 DEF Front
  <2>3. Len(r) = n - 1
    BY <1>1, <2>1, <2>2
  <2>4. ASSUME NEW k \in 1 .. n - 1 PROVE r[k] = s[k]
    <3>1. k \in 1 .. (n - 1) - 1 + 1 /\ 1 + k - 1 = k
      BY <1>1
    <3>2. QED
      BY <2>1, <2>2, <3>1
  <2>5. QED
    BY <2>1, <2>2, <2>3, <2>4
<1>4. CASE n = 1
  <2>1. r = <<>>
    BY <1>3, <1>4, EmptySeq
  <2>2. QED
    BY <1>2, <2>1 DEF Left
<1>5. CASE n > 1
  <2>1. PICK m : m = n - 1
    OBVIOUS
  <2>2. m \in Nat \ {0} /\ m + 1 = n /\ m \in 1 .. n - 1 /\ n \in 2 .. n
    BY <1>1, <1>5, <2>1
  <2>3. r # <<>> /\ Last(r) = s[m] /\ Last(s) = s[n]
    BY <1>3, <2>1, <2>2 DEF Last
  <2>4. PICK f : f = Resume(s[m], s[n].by)
    OBVIOUS
  <2>5. s[m] \in Frames /\ (s[m].isarr <=> s[n].by # ":")
    BY <1>1, <2>2
  <2>6. /\ f \in Frames /\ f.by = s[m].by /\ f.isarr = s[m].isarr /\ f.isobj = s[m].isobj
        /\ f.name = s[m].name /\ f.colon = s[m].colon /\ (s[n].by = ":" => f.obj)
        /\ (s[n].by # ":" => f.arr)
    BY <2>4, <2>5 DEF Resume, Frames
  <2>7. Calls(r)
    <3>1. ~r[1].isarr
      BY <1>1, <1>3, <2>2 DEF Good, Calls
    <3>2. ASSUME NEW k \in 1 .. m PROVE r[k].isarr => ~r[k].name /\ ~r[k].colon /\ ~r[k].isobj
      BY <1>1, <1>3, <2>1, <2>2
    <3>3. ASSUME NEW k \in 2 .. m PROVE r[k - 1].isarr <=> r[k].by # ":"
      <4>1. k - 1 \in 1 .. n - 1 /\ k \in 1 .. n - 1 /\ k \in 2 .. n
        BY <2>1, <2>2
      <4>2. r[k - 1] = s[k - 1] /\ r[k] = s[k]
        BY <1>3, <4>1
      <4>3. QED
        BY <1>1, <4>1, <4>2
    <3>4. QED
      BY <1>3, <2>1, <2>2, <3>1, <3>2, <3>3 DEF Calls
  <2>8. r[m] = s[m]
    BY <1>3, <2>2
  <2>9. GoesOn(f, r, m)
    <3>1. m = 1 => ~f.isarr
      BY <2>6, <2>7, <2>8 DEF Calls
    <3>2. f.isarr => ~f.name /\ ~f.colon /\ ~f.isobj
      <4>1. s[m].isarr => ~s[m].name /\ ~s[m].colon /\ ~s[m].isobj
        BY <1>1, <2>2
      <4>2. QED
        BY <2>6, <4>1
    <3>3. QED
      BY <2>6, <2>8, <3>1, <3>2 DEF GoesOn
  <2>10. PICK t : /\ t = Append(Front(r), f) /\ Calls(t) /\ Len(t) = m /\ t[m] = f
                  /\ \A k \in 1 .. m - 1 : t[k] = r[k]
                  /\ Depth(t, m) = Depth(r, m)
    BY <1>3, <2>1, <2>7, <2>9, SetCalls
  <2>11. Depth(s, n) = Depth(t, m) + (IF s[n].by = ":" THEN 1 ELSE 0) /\ Depth(t, m) \in Nat
    <3>1. Depth(s, m + 1) = Depth(s, m) + (IF s[m + 1].by = ":" THEN 1 ELSE 0)
      BY <2>2, DepthFacts
    <3>2. \A k \in 2 .. m : r[k].by = s[k].by
      BY <1>3, <2>1, <2>2
    <3>3. Depth(r, m) = Depth(s, m)
      BY <2>2, <3>2, DepthSame
    <3>4. Depth(t, m) \in Nat
      BY <2>2, DepthFacts
    <3>5. QED
      BY <2>2, <2>10, <3>1, <3>3, <3>4
  <2>12. e >= Depth(t, m) - (IF t[m].isarr THEN 1 ELSE 0)
    BY <2>5, <2>6, <2>10, <2>11
  <2>13. Running(f)
    <3>1. CASE s[n].by = ":"
      BY <2>5, <2>6, <3>1 DEF Running
    <3>2. CASE s[n].by # ":"
      BY <2>5, <2>6, <2>9, <3>2 DEF Running, GoesOn
    <3>3. QED
      BY <3>1, <3>2
  <2>14. m = 1 => t[1].arr \/ t[1].obj
    BY <2>6, <2>10
  <2>15. Good(t, e)
    <3>1. e <= MaxNested - 2
      BY <1>1, MaxNestedAssumption
    <3>2. QED
      BY <2>10, <2>12, <2>13, <2>14, <3>1 DEF Good
  <2>16. t = Left(s)
    BY <1>2, <2>3, <2>4, <2>10 DEF Left
  <2>17. QED
    BY <2>15, <2>16
<1>6. QED
  BY <1>1, <1>4, <1>5

-----------------------------------------------------------------------------
(* The parser                                                              *)

\* What may be assigned.
Fine(o) == o.ec = "error" \/ o.stack = <<>> \/ Good(o.stack, o.list_c)

(* An outcome that changes nothing of the stack.                           *)
LEMMA NowFacts ==
  /\ Now.stack = stack /\ Now.list_c = list_c /\ Now.ec = ec
  /\ Error.ec = "error"
  /\ \A f : /\ SetTop(f).stack = Append(Front(stack), f) /\ SetTop(f).list_c = list_c
            /\ SetTop(f).list = list /\ SetTop(f).nodes = nodes /\ SetTop(f).ec = ec
BY DEF Now, Error, SetTop

\* An outcome, as the record of what it assigns.
AnOutcome(s, l, c, v, x) == [stack |-> s, list |-> l, list_c |-> c, nodes |-> v, ec |-> x]

(* Nothing changes, or the running frame alone.                            *)
LEMMA SetTopIs ==
  /\ Now = AnOutcome(stack, list, list_c, nodes, ec)
  /\ \A f : SetTop(f) = AnOutcome(Append(Front(stack), f), list, list_c, nodes, ec)
BY DEF SetTop, Now, AnOutcome

(* The running frame and list_c change, and an index is counted.           *)
LEMMA CountedIs ==
  ASSUME NEW f
  PROVE  [SetTop(f) EXCEPT !.list_c = @ - 1, !.list = NextIndex(list_c - 1)]
         = AnOutcome(Append(Front(stack), f), NextIndex(list_c - 1), list_c - 1, nodes, ec)
<1>1. PICK o : o = SetTop(f)
  OBVIOUS
<1>2. PICK s, y, d : s = Append(Front(stack), f) /\ y = NextIndex(list_c - 1) /\ d = list_c - 1
  OBVIOUS
<1>3. o = AnOutcome(s, list, list_c, nodes, ec)
  BY <1>1, <1>2, SetTopIs
<1>4. o.list_c = list_c
  BY <1>3 DEF AnOutcome
<1>5. PICK p : p = [o EXCEPT !.list_c = d]
  OBVIOUS
<1>6. p = AnOutcome(s, list, d, nodes, ec)
  BY <1>3, <1>5 DEF AnOutcome
<1>7. [p EXCEPT !.list = y] = AnOutcome(s, y, d, nodes, ec)
  BY <1>6 DEF AnOutcome
<1>8. [o EXCEPT !.list_c = d, !.list = y] = [p EXCEPT !.list = y]
  BY <1>5
<1>9. QED
  BY <1>1, <1>2, <1>4, <1>7, <1>8

(* A return takes the running call off the stack.                          *)
LEMMA ReturnFacts ==
  ASSUME NEW s, NEW l, NEW c, NEW v, NEW x
  PROVE  LET o == AnOutcome(s, l, c, v, x)
         IN Return(o).stack = Left(s) /\ Return(o).list_c = c /\ Return(o).ec = x
BY DEF Return, Left, AnOutcome

(* A call is refused, or put on the stack.                                 *)
LEMMA CallFacts ==
  ASSUME NEW s, NEW l, NEW c \in Int, NEW v, NEW x, NEW by
  PROVE  LET o == AnOutcome(s, l, c, v, x)
         IN \/ Call(o, by).ec = "error"
            \/ /\ Call(o, by).stack = Append(s, [Frame EXCEPT !.by = by])
               /\ Call(o, by).list_c = c + 1 /\ c + 1 < MaxNested - 1
BY MaxNestedAssumption DEF Call, TooDeep, AnOutcome

(* The running call.                                                       *)
LEMMA TopFacts ==
  ASSUME Good(stack, list_c), NEW n, n = Len(stack)
  PROVE  /\ Top = stack[n] /\ Top \in Frames /\ Running(Top)
         /\ Top.isarr => ~Top.name /\ ~Top.colon /\ ~Top.isobj
         /\ n = 1 => ~Top.isarr
         /\ n = 1 /\ ~Top.colon /\ ~Top.name /\ ~Top.arr /\ ~Top.obj => list_c = 0
<1>1. n \in Nat \ {0} /\ stack[n] \in Frames
  BY GoodFacts
<1>2. Top = stack[n]
  BY DEF Top, Last
<1>3. stack[n].isarr => ~stack[n].name /\ ~stack[n].colon /\ ~stack[n].isobj
  BY <1>1 DEF Good, Calls
<1>4. Running(stack[n]) /\ (n = 1 => ~stack[n].isarr)
  BY <1>1 DEF Good, Calls
<1>5. n = 1 /\ ~stack[n].colon /\ ~stack[n].name /\ ~stack[n].arr /\ ~stack[n].obj => list_c = 0
  BY DEF Good
<1>6. QED
  BY <1>1, <1>2, <1>3, <1>4, <1>5

(* A value is added and its call returns.                                  *)
LEMMA AddJsonFine ==
  ASSUME Good(stack, list_c), ~Top.isarr, NEW tok
  PROVE  Fine(AddJson(tok))
<1>1. PICK n : n = Len(stack)
  OBVIOUS
<1>2. list_c \in Int /\ Depth(stack, n) \in Nat /\ list_c >= Depth(stack, n)
  <2>1. /\ list_c \in Int /\ Depth(stack, n) \in Nat
        /\ list_c >= Depth(stack, n) - (IF stack[n].isarr THEN 1 ELSE 0)
    BY <1>1, GoodFacts
  <2>2. ~stack[n].isarr
    BY <1>1, TopFacts
  <2>3. QED
    BY <2>1, <2>2
<1>3. list_c - 1 \in Int /\ list_c - 1 <= list_c /\ list_c - 1 >= Depth(stack, n) - 1
  BY <1>2
<1>4. Left(stack) = <<>> \/ Good(Left(stack), list_c - 1)
  BY <1>1, <1>3, ReturnGood
<1>5. PICK v : v = Append(nodes, [name |-> Fullname(list, list_c), value |-> tok])
  OBVIOUS
<1>6. AddJson(tok) = Return(AnOutcome(stack, list, list_c - 1, v, ec))
  <2>1. AddJson(tok) = Return([Now EXCEPT !.nodes = Append(@, [name |-> Fullname(list, list_c),
                                                              value |-> tok]),
                                          !.list_c = @ - 1])
    BY DEF AddJson
  <2>2. [Now EXCEPT !.nodes = Append(@, [name |-> Fullname(list, list_c), value |-> tok]),
                    !.list_c = @ - 1]
        = AnOutcome(stack, list, list_c - 1, v, ec)
    <3>1. Now.nodes = nodes /\ Now.list_c = list_c
      BY NowFacts DEF Now
    <3>2. [Now EXCEPT !.nodes = v, !.list_c = list_c - 1]
          = AnOutcome(stack, list, list_c - 1, v, ec)
      <4>1. PICK p : p = [Now EXCEPT !.nodes = v]
        OBVIOUS
      <4>2. p = AnOutcome(stack, list, list_c, v, ec)
        BY <4>1, SetTopIs DEF AnOutcome
      <4>3. [p EXCEPT !.list_c = list_c - 1] = AnOutcome(stack, list, list_c - 1, v, ec)
        BY <4>2 DEF AnOutcome
      <4>4. QED
        BY <4>1, <4>3
    <3>3. QED
      BY <1>5, <3>1, <3>2
  <2>3. QED
    BY <2>1, <2>2
<1>7. AddJson(tok).stack = Left(stack) /\ AddJson(tok).list_c = list_c - 1
  BY <1>6, ReturnFacts
<1>8. QED
  BY <1>4, <1>7 DEF Fine

(* The end of an object.                                                   *)
LEMMA EndObjectFine ==
  ASSUME Good(stack, list_c)
  PROVE  Fine(EndObject)
<1>1. CASE Top.colon \/ Top.arr \/ Top.name
  BY <1>1, NowFacts DEF EndObject, Fine
<1>2. CASE ~(Top.colon \/ Top.arr \/ Top.name)
  <2>1. PICK n : n = Len(stack)
    OBVIOUS
  <2>2. list_c \in Int /\ Depth(stack, n) \in Nat /\ list_c >= Depth(stack, n)
    <3>1. /\ list_c \in Int /\ Depth(stack, n) \in Nat
          /\ list_c >= Depth(stack, n) - (IF stack[n].isarr THEN 1 ELSE 0)
      BY <2>1, GoodFacts
    <3>2. ~stack[n].isarr
      BY <1>2, <2>1, TopFacts DEF Running
    <3>3. QED
      BY <3>1, <3>2
  <2>3. list_c - 1 \in Int /\ list_c - 1 <= list_c /\ list_c - 1 >= Depth(stack, n) - 1
    BY <2>2
  <2>4. Left(stack) = <<>> \/ Good(Left(stack), list_c - 1)
    BY <2>1, <2>3, ReturnGood
  <2>5. EndObject = Return(AnOutcome(stack, list, list_c - 1, nodes, ec))
    <3>1. Now.list_c = list_c
      BY NowFacts
    <3>2. EndObject = Return([Now EXCEPT !.list_c = list_c - 1])
      BY <1>2, <3>1 DEF EndObject
    <3>3. [Now EXCEPT !.list_c = list_c - 1] = AnOutcome(stack, list, list_c - 1, nodes, ec)
      BY SetTopIs DEF AnOutcome
    <3>4. QED
      BY <3>2, <3>3
  <2>6. EndObject.stack = Left(stack) /\ EndObject.list_c = list_c - 1
    BY <2>5, ReturnFacts
  <2>7. QED
    BY <2>4, <2>6 DEF Fine
<1>3. QED
  BY <1>1, <1>2

(* The end of an array.                                                    *)
LEMMA EndArrayFine ==
  ASSUME Good(stack, list_c)
  PROVE  Fine(EndArray)
<1>1. CASE Top.colon \/ Top.obj \/ Top.name
  BY <1>1, NowFacts DEF EndArray, Fine
<1>2. CASE ~(Top.colon \/ Top.obj \/ Top.name)
  <2>1. PICK n : n = Len(stack)
    OBVIOUS
  <2>2. list_c \in Int /\ list_c <= list_c /\ list_c >= Depth(stack, n) - 1
    BY <2>1, GoodFacts
  <2>3. Left(stack) = <<>> \/ Good(Left(stack), list_c)
    BY <2>1, <2>2, ReturnGood
  <2>4. PICK l : l = [list EXCEPT ![list_c].index = -1]
    OBVIOUS
  <2>5. EndArray = Return(AnOutcome(stack, l, list_c, nodes, ec))
    <3>1. EndArray = Return([Now EXCEPT !.list[list_c].index = -1])
      BY <1>2 DEF EndArray
    <3>2. [Now EXCEPT !.list[list_c].index = -1] = AnOutcome(stack, l, list_c, nodes, ec)
      BY <2>4 DEF Now, AnOutcome
    <3>3. QED
      BY <3>1, <3>2
  <2>6. EndArray.stack = Left(stack) /\ EndArray.list_c = list_c
    BY <2>5, ReturnFacts
  <2>7. QED
    BY <2>3, <2>6 DEF Fine
<1>3. QED
  BY <1>1, <1>2

(* The running call goes on, and has noted what comes next.                *)
LEMMA SetTopFine ==
  ASSUME Good(stack, list_c), NEW f \in Frames, f.by = Top.by, f.isarr = Top.isarr, Running(f),
         f.isarr => ~f.name /\ ~f.colon /\ ~f.isobj,
         f.colon \/ f.name \/ f.arr \/ f.obj
  PROVE  Good(Append(Front(stack), f), list_c)
<1>1. PICK n : n = Len(stack)
  OBVIOUS
<1>2. Top = stack[n] /\ (n = 1 => ~Top.isarr)
  BY <1>1, TopFacts
<1>3. GoesOn(f, stack, n)
  BY <1>2 DEF GoesOn
<1>4. QED
  BY <1>1, <1>2, <1>3, SetGood

(* The beginning of an object.                                             *)
LEMMA BeginObjectFine ==
  ASSUME Good(stack, list_c)
  PROVE  Fine(BeginObject)
<1>1. CASE ~ValueExpected
  BY <1>1, NowFacts DEF BeginObject, Fine
<1>2. CASE ValueExpected
  <2>1. PICK f : f = [Top EXCEPT !.name = TRUE, !.isobj = TRUE]
    OBVIOUS
  <2>2. Top \in Frames /\ ~Top.isarr
    BY <1>2, TopFacts DEF ValueExpected, Running
  <2>3. f \in Frames /\ f.by = Top.by /\ f.isarr = Top.isarr /\ ~f.isarr /\ f.name
    BY <2>1, <2>2 DEF Frames
  <2>4. Running(f)
    BY <2>3 DEF Running
  <2>5. Good(Append(Front(stack), f), list_c)
    BY <2>3, <2>4, SetTopFine
  <2>6. BeginObject = SetTop(f)
    BY <1>2, <2>1 DEF BeginObject
  <2>7. QED
    BY <2>5, <2>6, NowFacts DEF Fine
<1>3. QED
  BY <1>1, <1>2

\* The running call may go on as f and call, when list_c has become c.
MayCall(f, by, c) ==
    /\ f \in Frames /\ f.by = Top.by
    /\ f.isarr => ~f.name /\ ~f.colon /\ ~f.isobj
    /\ f.isarr => Len(stack) > 1
    /\ by \in {":", "[", ","} /\ (f.isarr <=> by # ":")
    /\ c \in Int /\ c + 1 >= Depth(stack, Len(stack)) + (IF by = ":" THEN 1 ELSE 0)

(* A call that the limits allow leaves the stack good.                     *)
LEMMA CallFine ==
  ASSUME Good(stack, list_c), NEW f, NEW by, NEW c, NEW l, MayCall(f, by, c)
  PROVE  Fine(Call(AnOutcome(Append(Front(stack), f), l, c, nodes, ec), by))
<1>0. c \in Int
  BY DEF MayCall
<1>1. PICK n : n = Len(stack)
  OBVIOUS
<1>2. PICK t : t = Append(Front(stack), f)
  OBVIOUS
<1>3. PICK r : r = Call(AnOutcome(t, l, c, nodes, ec), by)
  OBVIOUS
<1>4. \/ r.ec = "error"
      \/ /\ r.stack = Append(t, [Frame EXCEPT !.by = by])
         /\ r.list_c = c + 1 /\ c + 1 < MaxNested - 1
  BY <1>0, <1>3, CallFacts
<1>5. ASSUME r.stack = Append(t, [Frame EXCEPT !.by = by]), r.list_c = c + 1,
             c + 1 < MaxNested - 1
      PROVE  Good(r.stack, r.list_c)
  <2>1. Top = stack[n]
    BY <1>1, TopFacts
  <2>2. GoesOn(f, stack, n)
    <3>1. f \in Frames /\ f.by = stack[n].by
      BY <2>1 DEF MayCall
    <3>2. (n = 1 => ~f.isarr) /\ (f.isarr => ~f.name /\ ~f.colon /\ ~f.isobj)
      <4>1. f.isarr => ~f.name /\ ~f.colon /\ ~f.isobj /\ Len(stack) > 1
        BY DEF MayCall
      <4>2. QED
        BY <1>1, <4>1
    <3>3. QED
      BY <3>1, <3>2 DEF GoesOn
  <2>3. c + 1 \in Int /\ c + 1 <= MaxNested - 2
    BY <1>0, <1>5, MaxNestedAssumption
  <2>4. Calling(f, stack, n, by, c + 1)
    BY <1>1, <2>2, <2>3 DEF Calling, MayCall
  <2>5. Good(Append(Append(Front(stack), f), [Frame EXCEPT !.by = by]), c + 1)
    BY <1>1, <2>4, CallGood
  <2>6. QED
    BY <1>2, <1>5, <2>5
<1>6. Fine(r)
  BY <1>4, <1>5 DEF Fine
<1>7. QED
  BY <1>2, <1>3, <1>6

(* The beginning of an array, in an object.                                *)
LEMMA BeginArrayFine ==
  ASSUME Good(stack, list_c), ~Outside
  PROVE  Fine(BeginArray)
<1>1. CASE ~ValueExpected
  BY <1>1, NowFacts DEF BeginArray, Fine
<1>2. CASE ValueExpected
  <2>1. PICK n : n = Len(stack)
    OBVIOUS
  <2>2. PICK f : f = [Top EXCEPT !.isarr = TRUE]
    OBVIOUS
  <2>3. /\ Top \in Frames /\ ~Top.isarr /\ ~Top.isobj /\ ~Top.name /\ ~Top.colon
        /\ Top = stack[n] /\ n # 1
    <3>1. list_c \in Int
      BY GoodFacts
    <3>2. list_c > 0
      BY <1>2, <3>1 DEF Outside
    <3>3. QED
      BY <1>2, <2>1, <3>2, TopFacts DEF ValueExpected, Running
  <2>4. f \in Frames /\ f.by = Top.by /\ f.isarr /\ ~f.name /\ ~f.colon /\ ~f.isobj
    BY <2>2, <2>3 DEF Frames
  <2>5. /\ list_c \in Int /\ Depth(stack, n) \in Nat /\ n \in Nat \ {0}
        /\ list_c >= Depth(stack, n) - (IF stack[n].isarr THEN 1 ELSE 0)
    BY <2>1, GoodFacts
  <2>6. list_c >= Depth(stack, n)
    BY <2>3, <2>5
  <2>7. PICK l : l = NextIndex(list_c - 1)
    OBVIOUS
  <2>8. BeginArray = Call(AnOutcome(Append(Front(stack), f), l, list_c - 1, nodes, ec), "[")
    <3>1. BeginArray = Call([SetTop(f) EXCEPT !.list_c = @ - 1,
                                              !.list = NextIndex(list_c - 1)], "[")
      BY <1>2, <2>2 DEF BeginArray
    <3>2. SetTop(f) = AnOutcome(Append(Front(stack), f), list, list_c, nodes, ec)
      BY SetTopIs
    <3>3. [SetTop(f) EXCEPT !.list_c = @ - 1, !.list = NextIndex(list_c - 1)]
          = AnOutcome(Append(Front(stack), f), l, list_c - 1, nodes, ec)
      BY <2>7, CountedIs
    <3>4. QED
      BY <3>1, <3>3
  <2>9. /\ list_c - 1 \in Int /\ "[" \in {":", "[", ","} /\ "[" # ":"
        /\ (list_c - 1) + 1 >= Depth(stack, Len(stack)) + (IF "[" = ":" THEN 1 ELSE 0)
        /\ Len(stack) > 1
    BY <2>1, <2>3, <2>5, <2>6
  <2>10. Fine(Call(AnOutcome(Append(Front(stack), f), l, list_c - 1, nodes, ec), "["))
    <3>1. MayCall(f, "[", list_c - 1)
      BY <2>4, <2>9 DEF MayCall
    <3>2. QED
      BY <3>1, CallFine
  <2>11. QED
    BY <2>8, <2>10
<1>3. QED
  BY <1>1, <1>2

(* The colon behind the name of a member.                                  *)
LEMMA ColonFine ==
  ASSUME Good(stack, list_c), Top.colon \/ Top.arr \/ Top.obj \/ Top.name
  PROVE  Fine(Colon)
<1>1. CASE Top.arr \/ Top.obj \/ Top.name
  BY <1>1, NowFacts DEF Colon, Fine
<1>2. CASE ~(Top.arr \/ Top.obj \/ Top.name)
  <2>1. PICK n : n = Len(stack)
    OBVIOUS
  <2>2. PICK f : f = [Top EXCEPT !.colon = FALSE]
    OBVIOUS
  <2>3. Top \in Frames /\ ~Top.isarr /\ Top = stack[n]
    BY <1>2, <2>1, TopFacts DEF Running
  <2>4. f \in Frames /\ f.by = Top.by /\ ~f.isarr
    BY <2>2, <2>3 DEF Frames
  <2>5. /\ list_c \in Int /\ Depth(stack, n) \in Nat
        /\ list_c >= Depth(stack, n) - (IF stack[n].isarr THEN 1 ELSE 0)
    BY <2>1, GoodFacts
  <2>6. list_c >= Depth(stack, n)
    BY <2>3, <2>5
  <2>7. Colon = Call(AnOutcome(Append(Front(stack), f), list, list_c, nodes, ec), ":")
    <3>1. Colon = Call(SetTop(f), ":")
      BY <1>2, <2>2 DEF Colon
    <3>2. QED
      BY <3>1, SetTopIs
  <2>8. /\ ":" \in {":", "[", ","}
        /\ list_c + 1 >= Depth(stack, Len(stack)) + (IF ":" = ":" THEN 1 ELSE 0)
    BY <2>1, <2>5, <2>6
  <2>9. Fine(Call(AnOutcome(Append(Front(stack), f), list, list_c, nodes, ec), ":"))
    <3>1. MayCall(f, ":", list_c)
      BY <2>4, <2>5, <2>8 DEF MayCall
    <3>2. QED
      BY <3>1, CallFine
  <2>10. QED
    BY <2>7, <2>9
<1>3. QED
  BY <1>1, <1>2

(* A comma: the next member, or the next element.                          *)
LEMMA CommaFine ==
  ASSUME Good(stack, list_c)
  PROVE  Fine(Comma)
<1>1. PICK cleared : cleared = [Top EXCEPT !.arr = FALSE, !.obj = FALSE]
  OBVIOUS
<1>2. PICK n : n = Len(stack)
  OBVIOUS
<1>3. /\ Top \in Frames /\ Top = stack[n] /\ (n = 1 => ~Top.isarr)
      /\ Top.isarr => ~Top.name /\ ~Top.colon /\ ~Top.isobj
  BY <1>2, TopFacts
<1>4. /\ cleared \in Frames /\ cleared.by = Top.by /\ cleared.isarr = Top.isarr
      /\ cleared.isobj = Top.isobj /\ cleared.name = Top.name /\ cleared.colon = Top.colon
  BY <1>1, <1>3 DEF Frames
<1>5. CASE Top.colon \/ Top.name
  BY <1>5, NowFacts DEF Comma, Fine
<1>6. CASE ~(Top.colon \/ Top.name) /\ Top.isobj
  <2>1. PICK f : f = [cleared EXCEPT !.name = TRUE]
    OBVIOUS
  <2>2. f \in Frames /\ f.by = Top.by /\ f.isarr = Top.isarr /\ ~f.isarr /\ f.name
    BY <1>3, <1>4, <1>6, <2>1 DEF Frames
  <2>3. Running(f)
    BY <2>2 DEF Running
  <2>4. Good(Append(Front(stack), f), list_c)
    BY <2>2, <2>3, SetTopFine
  <2>5. Comma = SetTop(f)
    BY <1>1, <1>6, <2>1 DEF Comma
  <2>6. QED
    BY <2>4, <2>5, NowFacts DEF Fine
<1>7. CASE ~(Top.colon \/ Top.name) /\ ~Top.isobj /\ Top.isarr
  <2>1. PICK l : l = NextIndex(list_c)
    OBVIOUS
  <2>2. Comma = Call(AnOutcome(Append(Front(stack), cleared), l, list_c, nodes, ec), ",")
    <3>1. Comma = Call([SetTop(cleared) EXCEPT !.list = NextIndex(list_c)], ",")
      BY <1>1, <1>7 DEF Comma
    <3>2. SetTop(cleared) = AnOutcome(Append(Front(stack), cleared), list, list_c, nodes, ec)
      BY SetTopIs
    <3>3. [SetTop(cleared) EXCEPT !.list = NextIndex(list_c)]
          = AnOutcome(Append(Front(stack), cleared), l, list_c, nodes, ec)
      BY <2>1, <3>2 DEF AnOutcome
    <3>4. QED
      BY <3>1, <3>3
  <2>3. /\ list_c \in Int /\ Depth(stack, n) \in Nat /\ n \in Nat \ {0}
        /\ list_c >= Depth(stack, n) - (IF stack[n].isarr THEN 1 ELSE 0)
    BY <1>2, GoodFacts
  <2>4. list_c + 1 >= Depth(stack, n)
    BY <2>3
  <2>5. /\ "," \in {":", "[", ","} /\ "," # ":" /\ Len(stack) > 1
        /\ list_c + 1 >= Depth(stack, Len(stack)) + (IF "," = ":" THEN 1 ELSE 0)
    BY <1>2, <1>3, <1>7, <2>3, <2>4
  <2>6. Fine(Call(AnOutcome(Append(Front(stack), cleared), l, list_c, nodes, ec), ","))
    <3>1. MayCall(cleared, ",", list_c)
      BY <1>3, <1>4, <1>7, <2>3, <2>5 DEF MayCall
    <3>2. QED
      BY <3>1, CallFine
  <2>7. QED
    BY <2>2, <2>6
<1>8. CASE ~(Top.colon \/ Top.name) /\ ~Top.isobj /\ ~Top.isarr
  BY <1>8, NowFacts DEF Comma, Fine
<1>9. QED
  BY <1>5, <1>6, <1>7, <1>8

(* A string: the name of a member, or a value.                             *)
LEMMA StringFine ==
  ASSUME Good(stack, list_c), NEW tok
  PROVE  Fine(String(tok))
<1>1. CASE Top.colon \/ Top.arr \/ Top.obj
  BY <1>1, NowFacts DEF String, Fine
<1>2. CASE ~(Top.colon \/ Top.arr \/ Top.obj) /\ Top.name
  <2>1. PICK f : f = [Top EXCEPT !.name = FALSE, !.colon = TRUE]
    OBVIOUS
  <2>2. Top \in Frames /\ ~Top.isarr
    BY <1>2, TopFacts DEF Running
  <2>3. f \in Frames /\ f.by = Top.by /\ f.isarr = Top.isarr /\ ~f.isarr /\ f.colon
    BY <2>1, <2>2 DEF Frames
  <2>4. Running(f)
    BY <2>3 DEF Running
  <2>5. Good(Append(Front(stack), f), list_c)
    BY <2>3, <2>4, SetTopFine
  <2>6. String(tok) = [SetTop(f) EXCEPT !.list[list_c].name = tok]
    BY <1>2, <2>1 DEF String
  <2>7. SetTop(f) = AnOutcome(Append(Front(stack), f), list, list_c, nodes, ec)
    BY SetTopIs
  <2>8. String(tok).stack = Append(Front(stack), f) /\ String(tok).list_c = list_c
    BY <2>6, <2>7 DEF AnOutcome
  <2>9. QED
    BY <2>5, <2>8 DEF Fine
<1>3. CASE ~(Top.colon \/ Top.arr \/ Top.obj) /\ ~Top.name
  <2>1. ~Top.isarr
    BY <1>3, TopFacts DEF Running
  <2>2. Fine(AddJson(tok))
    BY <2>1, AddJsonFine
  <2>3. String(tok) = AddJson(tok)
    BY <1>3 DEF String
  <2>4. QED
    BY <2>2, <2>3
<1>4. QED
  BY <1>1, <1>2, <1>3

(* A number, true, false or null.                                          *)
LEMMA OtherValueFine ==
  ASSUME Good(stack, list_c), NEW tok
  PROVE  Fine(OtherValue(tok))
<1>1. CASE ValueExpected
  <2>1. ~Top.isarr
    BY <1>1, TopFacts DEF Running, ValueExpected
  <2>2. QED
    BY <1>1, <2>1, AddJsonFine DEF OtherValue
<1>2. CASE ~ValueExpected
  BY <1>2, NowFacts DEF OtherValue, Fine
<1>3. QED
  BY <1>1, <1>2

(* Whatever the switch sees, what it does leaves the stack good.           *)
LEMMA OutcomeFine ==
  ASSUME Good(stack, list_c), NEW tok, InScope(tok), ~(tok = "[" /\ Outside)
  PROVE  Fine(Outcome(tok))
<1>1. CASE tok = "{"
  <2>1. Outcome(tok) = BeginObject
    BY <1>1, TokensAssumption DEF Outcome, OneChar, Space
  <2>2. QED
    BY <2>1, BeginObjectFine
<1>2. CASE tok = "}"
  <2>1. Outcome(tok) = EndObject
    BY <1>2, TokensAssumption DEF Outcome, OneChar, Space
  <2>2. QED
    BY <2>1, EndObjectFine
<1>3. CASE tok = "["
  <2>1. Outcome(tok) = BeginArray
    BY <1>3, TokensAssumption DEF Outcome, OneChar, Space
  <2>2. ~Outside
    BY <1>3
  <2>3. QED
    BY <2>1, <2>2, BeginArrayFine
<1>4. CASE tok = "]"
  <2>1. Outcome(tok) = EndArray
    BY <1>4, TokensAssumption DEF Outcome, OneChar, Space
  <2>2. QED
    BY <2>1, EndArrayFine
<1>5. CASE tok = ":"
  <2>1. Outcome(tok) = Colon
    BY <1>5, TokensAssumption DEF Outcome, OneChar, Space
  <2>2. Top.colon \/ Top.arr \/ Top.obj \/ Top.name
    BY <1>5 DEF InScope
  <2>3. QED
    BY <2>1, <2>2, ColonFine
<1>6. CASE tok = ","
  <2>1. Outcome(tok) = Comma
    BY <1>6, TokensAssumption DEF Outcome, OneChar, Space
  <2>2. QED
    BY <2>1, CommaFine
<1>7. CASE tok = Space
  <2>1. Outcome(tok) = Now
    BY <1>7, TokensAssumption DEF Outcome, OneChar, Space
  <2>2. QED
    BY <2>1, NowFacts DEF Fine
<1>8. CASE tok \in Strings
  <2>1. Outcome(tok) = String(tok)
    BY <1>8, TokensAssumption DEF Outcome, OneChar, Space
  <2>2. QED
    BY <2>1, StringFine
<1>9. CASE tok \in Literal
  <2>1. Outcome(tok) = OtherValue(tok)
    BY <1>9, TokensAssumption DEF Outcome, OneChar, Space
  <2>2. QED
    BY <2>1, OtherValueFine
<1>10. CASE tok \notin OneChar \cup Strings \cup Literal
  <2>1. Outcome(tok) = Error
    BY <1>10 DEF Outcome, OneChar, Space
  <2>2. QED
    BY <2>1, NowFacts DEF Fine
<1>11. QED
  BY <1>1, <1>2, <1>3, <1>4, <1>5, <1>6, <1>7, <1>8, <1>9, <1>10 DEF OneChar

(* What is fine may be assigned.                                           *)
LEMMA AssignKeeps ==
  ASSUME NEW o, Fine(o), Assign(o)
  PROVE  IInv'
BY DEF Fine, Assign, IInv

(* list[-1] is used by an array that is the whole document, and no other.  *)
LEMMA OutsideIsRoot ==
  ASSUME Good(stack, list_c), Outside
  PROVE  Len(stack) = 1 /\ ~Top.isobj
<1>1. PICK n : n = Len(stack)
  OBVIOUS
<1>2. /\ n \in Nat \ {0} /\ list_c \in Int /\ Depth(stack, n) \in Nat
      /\ n > 1 => Depth(stack, n) > 0
      /\ list_c >= Depth(stack, n) - (IF stack[n].isarr THEN 1 ELSE 0)
  BY <1>1, GoodFacts
<1>3. ValueExpected /\ list_c - 1 < 0
  BY DEF Outside
<1>4. Top = stack[n] /\ ~Top.isarr /\ ~Top.isobj
  BY <1>1, <1>3, TopFacts DEF ValueExpected, Running
<1>5. Depth(stack, n) = 0
  BY <1>2, <1>3, <1>4
<1>6. QED
  BY <1>1, <1>2, <1>4, <1>5

(* Every step keeps the invariant.                                         *)
LEMMA Inductive == IInv /\ [Next]_vars => IInv'
<1> SUFFICES ASSUME IInv, [Next]_vars PROVE IInv'
  OBVIOUS
<1>1. CASE NewJson
  <2>1. stack' = <<Frame>> /\ list_c' = 0 /\ phase' = "parse"
    BY <1>1 DEF NewJson
  <2>2. PICK s : s = <<Frame>>
    OBVIOUS
  <2>3. /\ s \in Seq(Frames) /\ Len(s) = 1 /\ s[1] = Frame
        /\ ~Frame.isarr /\ ~Frame.isobj
    BY <2>2 DEF Frame, Frames
  <2>4. Calls(s) /\ Running(s[Len(s)])
    BY <2>3 DEF Calls, Running
  <2>5. Depth(s, 1) = 0
    BY DepthFacts
  <2>6. 0 >= Depth(s, Len(s)) - (IF s[Len(s)].isarr THEN 1 ELSE 0)
    BY <2>3, <2>5
  <2>7. Good(s, 0)
    BY <2>4, <2>6, MaxNestedAssumption DEF Good
  <2>8. QED
    BY <2>1, <2>2, <2>7 DEF IInv
<1>2. ASSUME NEW tok \in Tokens, Parse(tok) PROVE IInv'
  <2>1. Good(stack, list_c) /\ InScope(Seen(tok)) /\ ~(Seen(tok) = "[" /\ Outside)
    BY <1>2 DEF Parse, IInv
  <2>2. PICK o : o = IF nulled # NULL /\ tok \notin OneChar THEN Error ELSE Outcome(Seen(tok))
    OBVIOUS
  <2>3. Fine(Error) /\ Fine(Outcome(Seen(tok)))
    BY <2>1, OutcomeFine, NowFacts DEF Fine
  <2>4. Fine(o) /\ Assign(o)
    BY <1>2, <2>2, <2>3 DEF Parse
  <2>5. QED
    BY <2>4, AssignKeeps
<1>3. ASSUME NEW tok \in Tokens, Interrupt(tok) PROVE IInv'
  <2>1. PICK o : o = [Outcome(tok) EXCEPT !.ec = "error"]
    OBVIOUS
  <2>2. Assign(o)
    BY <1>3, <2>1 DEF Interrupt
  <2>3. phase' \notin {"parse", "undefined"}
    BY <2>1, <2>2 DEF Assign
  <2>4. QED
    BY <2>3 DEF IInv
<1>4. ASSUME NEW tok \in Tokens, Trail(tok) PROVE IInv'
  BY <1>4 DEF Trail, IInv
<1>5. CASE EndDocument
  BY <1>5 DEF EndDocument, IInv
<1>6. CASE UNCHANGED vars
  BY <1>6 DEF vars, IInv, Top
<1>7. ASSUME NEW tok \in Tokens, BeginOutside(tok) PROVE IInv'
  <2>1. Good(stack, list_c) /\ Outside /\ phase' = "undefined" /\ stack' = stack
    BY <1>7 DEF BeginOutside, IInv
  <2>2. Len(stack) = 1 /\ ~Top.isobj
    BY <2>1, OutsideIsRoot
  <2>3. QED
    BY <2>1, <2>2 DEF IInv, Top
<1>8. QED
  BY <1>1, <1>2, <1>3, <1>4, <1>5, <1>6, <1>7 DEF Next

(* What is put into the array list stays inside of it.                     *)
LEMMA GoodInBounds == IInv => ListInBounds
<1> SUFFICES ASSUME IInv, Good(stack, list_c) PROVE list_c \in 0 .. MaxNested - 2
  BY DEF IInv, ListInBounds
<1>1. PICK n : n = Len(stack)
  OBVIOUS
<1>2. /\ n \in Nat \ {0} /\ list_c \in Int /\ list_c <= MaxNested - 2
      /\ Depth(stack, n) \in Nat /\ (n > 1 => Depth(stack, n) > 0) /\ (stack[n].isarr => n > 1)
      /\ list_c >= Depth(stack, n) - (IF stack[n].isarr THEN 1 ELSE 0)
  BY <1>1, GoodFacts
<1>3. list_c >= 0
  BY <1>2
<1>4. QED
  BY <1>2, <1>3, MaxNestedAssumption

(* The static array list of the parser is used outside of its bounds only  *)
(* by an array that is the whole document, at its first character: for     *)
(* documents of any length, well-formed or not, and any limit of nesting.  *)
THEOREM ListStaysInBounds == Spec => []ListInBounds
<1>1. Init => IInv
  BY DEF Init, IInv
<1>2. QED
  BY <1>1, Inductive, GoodInBounds, PTL DEF Spec

-----------------------------------------------------------------------------
(* The grammar and the parser                                              *)

\* What the reference has open.
Opens == [kind : {"obj", "arr"}, name : Tokens \cup {NULL}, index : Int]

\* What list may hold.
Lists == [0 .. MaxNested - 1 -> [name : Tokens \cup {NULL}, index : Int]]

\* What the grammar wants inside of a document.
Wants == {"value", "name", "colon", "comma"}

\* What is open: an array is the value of a member, and each level of objects
\* is that of one of them.
OpenOK(open, want) ==
    /\ open \in Seq(Opens)
    /\ want \in Wants
    /\ want \in {"name", "colon"} => Len(open) > 0 /\ open[Len(open)].kind = "obj"
    /\ want = "comma" => Len(open) > 0
    /\ \A j \in 1 .. Len(open) : open[j].kind = "arr" => j > 1 /\ open[j - 1].kind = "obj"
    /\ \A i \in 1 .. Level(open, Len(open)) :
           \E j \in 1 .. Len(open) : open[j].kind = "obj" /\ Level(open, j) = i

\* The call at j of the stack, when the grammar has open and wants want.
FrameFor(open, want, j, f) ==
    /\ f \in Frames
    /\ f.by = ":" <=> j > 1 /\ open[j - 1].kind = "obj"
    /\ f.isobj <=> j <= Len(open) /\ open[j].kind = "obj"
    /\ f.isarr <=> j <= Len(open) /\ open[j].kind = "arr"
    /\ f.name <=> j = Len(open) /\ want = "name"
    /\ f.colon <=> j = Len(open) /\ want = "colon"
    /\ f.obj <=> j = Len(open) /\ want = "comma" /\ open[j].kind = "obj"
    /\ f.arr <=> j = Len(open) /\ want = "comma" /\ open[j].kind = "arr"

\* The calls are those of what is open, and of the value that is wanted.
StackOK(open, want, s) ==
    /\ s \in Seq(Frames)
    /\ Len(s) = Len(open) + (IF want = "value" THEN 1 ELSE 0)
    /\ \A j \in 1 .. Len(s) : FrameFor(open, want, j, s[j])

\* The static list has the members on the way, with the indexes of their arrays.
Listed(open, want, l, j) ==
    LET e == l[Level(open, j) - 1]
    IN /\ e.index = Index(open, j)
       /\ \/ j = Len(open) /\ want = "name"
          \/ e.name = open[j].name /\ open[j].name \notin Escaped

ListOK(open, want, l) ==
    /\ l \in Lists
    /\ \A j \in 1 .. Len(open) : open[j].kind = "obj" => Listed(open, want, l, j)
    /\ \A i \in Level(open, Len(open)) .. MaxNested - 1 : l[i].index = -1

\* The parser is where the grammar is.
Match(open, want, s, l, c) ==
    /\ OpenOK(open, want) /\ StackOK(open, want, s) /\ ListOK(open, want, l)
    /\ c = Level(open, Len(open)) - (IF want = "value" THEN 0 ELSE 1)
    /\ c <= MaxNested - 2

(* The parser follows the grammar.                                         *)
Follows ==
    ref.ok /\ ~ref.odd /\ fresh =>
        /\ phase = "parse" =>
               /\ nulled = NULL /\ ec = "ok" /\ nodes = ref.nodes
               /\ Match(ref.open, ref.want, stack, list, list_c)
        /\ phase = "tail" =>
               /\ nulled = NULL /\ ec = "ok" /\ nodes = ref.nodes
               /\ ref.open = <<>> /\ ref.want = "end"
        /\ phase = "done" /\ ref.want = "end" =>
               /\ ParsedRight
               /\ last \notin Literal => nulled = NULL

-----------------------------------------------------------------------------
(* A sequence without its last element.                                    *)
LEMMA FrontFacts ==
  ASSUME NEW S, NEW s \in Seq(S), Len(s) > 0
  PROVE  /\ Front(s) \in Seq(S) /\ Len(Front(s)) = Len(s) - 1
         /\ \A k \in 1 .. Len(s) - 1 : Front(s)[k] = s[k]
<1>1. PICK n : n = Len(s)
  OBVIOUS
<1>2. n \in Nat \ {0} /\ \A k \in 1 .. n - 1 : s[k] \in S
  BY <1>1, LenProperties
<1>3. /\ SubSeq(s, 1, n - 1) \in Seq(S)
      /\ Len(SubSeq(s, 1, n - 1)) = IF 1 <= n - 1 THEN (n - 1) - 1 + 1 ELSE 0
      /\ \A k \in 1 .. (n - 1) - 1 + 1 : SubSeq(s, 1, n - 1)[k] = s[1 + k - 1]
  BY <1>2, SubSeqProperties
<1>4. PICK r : r = Front(s)
  OBVIOUS
<1>5. r = SubSeq(s, 1, n - 1)
  BY <1>1, <1>4 DEF Front
<1>6. Len(r) = n - 1
  BY <1>2, <1>3, <1>5
<1>7. ASSUME NEW k \in 1 .. n - 1 PROVE r[k] = s[k]
  <2>1. k \in 1 .. (n - 1) - 1 + 1 /\ 1 + k - 1 = k
    BY <1>2
  <2>2. QED
    BY <1>3, <1>5, <2>1
<1>8. QED
  BY <1>1, <1>3, <1>4, <1>5, <1>6, <1>7

\* The objects among the first k that are open.
Objs(open, k) == {j \in 1 .. k : open[j].kind = "obj"}

(* The levels, one by one.                                                 *)
LEMMA LevelFacts ==
  ASSUME NEW open, NEW k \in Nat
  PROVE  /\ Level(open, k) \in Nat /\ Level(open, 0) = 0
         /\ Level(open, k + 1) = Level(open, k) + (IF open[k + 1].kind = "obj" THEN 1 ELSE 0)
<1>1. \A m \in Nat : IsFiniteSet(Objs(open, m)) /\ Level(open, m) = Cardinality(Objs(open, m))
  <2>1. ASSUME NEW m \in Nat PROVE IsFiniteSet(Objs(open, m))
    <3>1. IsFiniteSet(1 .. m) /\ Objs(open, m) \in SUBSET (1 .. m)
      BY FS_Interval DEF Objs
    <3>2. QED
      BY <3>1, FS_Subset
  <2>2. \A m \in Nat : Level(open, m) = Cardinality(Objs(open, m))
    BY DEF Level, Objs
  <2>3. QED
    BY <2>1, <2>2
<1>2. Level(open, k) \in Nat
  BY <1>1, FS_CardinalityType
<1>3. Level(open, 0) = 0
  <2>1. Objs(open, 0) = {}
    BY DEF Objs
  <2>2. QED
    BY <1>1, <2>1, FS_EmptySet
<1>4. CASE open[k + 1].kind = "obj"
  <2>1. Objs(open, k + 1) = Objs(open, k) \cup {k + 1} /\ k + 1 \notin Objs(open, k)
    BY <1>4 DEF Objs
  <2>2. Cardinality(Objs(open, k) \cup {k + 1}) = Cardinality(Objs(open, k)) + 1
    BY <1>1, <2>1, FS_AddElement
  <2>3. /\ Level(open, k + 1) = Cardinality(Objs(open, k + 1))
        /\ Level(open, k) = Cardinality(Objs(open, k))
    BY <1>1
  <2>4. Level(open, k + 1) = Level(open, k) + 1
    BY <2>1, <2>2, <2>3
  <2>5. QED
    BY <1>2, <1>3, <1>4, <2>4
<1>5. CASE open[k + 1].kind # "obj"
  <2>1. Objs(open, k + 1) = Objs(open, k)
    BY <1>5 DEF Objs
  <2>2. QED
    BY <1>1, <1>2, <1>3, <1>5, <2>1
<1>6. QED
  BY <1>2, <1>3, <1>4, <1>5

(* Levels are of the kinds alone.                                          *)
LEMMA LevelSame ==
  ASSUME NEW open, NEW other, NEW k \in Nat, \A j \in 1 .. k : other[j].kind = open[j].kind
  PROVE  Level(other, k) = Level(open, k)
<1>1. {j \in 1 .. k : other[j].kind = "obj"} = {j \in 1 .. k : open[j].kind = "obj"}
  OBVIOUS
<1>2. QED
  BY <1>1 DEF Level

(* They grow, from each object to the next.                                *)
LEMMA LevelGrows ==
  ASSUME NEW open, NEW i \in Nat \ {0}, NEW j \in Nat, i < j
  PROVE  /\ Level(open, i) <= Level(open, j)
         /\ open[j].kind = "obj" => Level(open, i) < Level(open, j)
         /\ open[i].kind = "obj" => Level(open, i) >= 1
<1>1. ASSUME NEW a \in Nat, NEW b \in Nat, a <= b PROVE Level(open, a) <= Level(open, b)
  <2>1. IsFiniteSet(Objs(open, b))
    <3>1. IsFiniteSet(1 .. b) /\ Objs(open, b) \in SUBSET (1 .. b)
      BY FS_Interval DEF Objs
    <3>2. QED
      BY <3>1, FS_Subset
  <2>2. Objs(open, a) \in SUBSET Objs(open, b)
    BY <1>1 DEF Objs
  <2>3. QED
    BY <2>1, <2>2, FS_Subset DEF Level, Objs
<1>2. Level(open, i) <= Level(open, j - 1) /\ Level(open, j - 1) <= Level(open, j)
  <2>1. i <= j - 1 /\ j - 1 \in Nat /\ j - 1 <= j
    OBVIOUS
  <2>2. QED
    BY <1>1, <2>1
<1>3. \A k \in Nat : Level(open, k) \in Nat
  BY LevelFacts
<1>4. open[j].kind = "obj" => Level(open, j) = Level(open, j - 1) + 1
  <2>1. j - 1 \in Nat /\ (j - 1) + 1 = j
    OBVIOUS
  <2>2. Level(open, (j - 1) + 1)
        = Level(open, j - 1) + (IF open[(j - 1) + 1].kind = "obj" THEN 1 ELSE 0)
    BY <2>1, LevelFacts
  <2>3. QED
    BY <1>3, <2>1, <2>2
<1>5. open[i].kind = "obj" => Level(open, i) >= 1
  <2>1. i - 1 \in Nat /\ (i - 1) + 1 = i
    OBVIOUS
  <2>2. Level(open, (i - 1) + 1)
        = Level(open, i - 1) + (IF open[(i - 1) + 1].kind = "obj" THEN 1 ELSE 0)
    BY <2>1, LevelFacts
  <2>3. QED
    BY <1>3, <2>1, <2>2
<1>6. j - 1 \in Nat /\ Level(open, i) \in Nat /\ Level(open, j - 1) \in Nat /\ Level(open, j) \in Nat
  BY <1>3
<1>7. QED
  BY <1>2, <1>4, <1>5, <1>6

(* The numbers of a match.                                                 *)
LEMMA MatchFacts ==
  ASSUME NEW open, NEW want, NEW s, NEW l, NEW c, Match(open, want, s, l, c),
         NEW n, n = Len(open)
  PROVE  /\ n \in Nat /\ open \in Seq(Opens) /\ DOMAIN open = 1 .. n
         /\ \A j \in 1 .. n : open[j] \in Opens
         /\ s \in Seq(Frames) /\ Len(s) \in Nat
         /\ \A j \in 1 .. Len(s) : FrameFor(open, want, j, s[j])
         /\ want = "value" => Len(s) = n + 1 /\ Level(open, n) = c
         /\ want # "value" => n > 0 /\ Len(s) = n /\ Level(open, n) = c + 1
         /\ c \in 0 .. MaxNested - 2
<1>1. /\ open \in Seq(Opens) /\ want \in Wants
      /\ want \in {"name", "colon"} => n > 0 /\ open[n].kind = "obj"
      /\ want = "comma" => n > 0
      /\ \A j \in 1 .. n : open[j].kind = "arr" => j > 1 /\ open[j - 1].kind = "obj"
  BY DEF Match, OpenOK
<1>2. n \in Nat /\ DOMAIN open = 1 .. n /\ \A j \in 1 .. n : open[j] \in Opens
  BY <1>1, LenProperties
<1>3. /\ s \in Seq(Frames) /\ Len(s) = n + (IF want = "value" THEN 1 ELSE 0)
      /\ \A j \in 1 .. Len(s) : FrameFor(open, want, j, s[j])
  BY DEF Match, StackOK
<1>4. Level(open, n) \in Nat
  BY <1>2, LevelFacts
<1>5. c = Level(open, n) - (IF want = "value" THEN 0 ELSE 1) /\ c <= MaxNested - 2
  BY DEF Match
<1>6. want # "value" => n > 0
  BY <1>1 DEF Wants
<1>7. n > 0 => Level(open, n) >= 1
  <2>1. SUFFICES ASSUME n > 0 PROVE Level(open, n) >= 1
    OBVIOUS
  <2>2. n \in 1 .. n /\ open[n].kind \in {"obj", "arr"}
    BY <1>2, <2>1 DEF Opens
  <2>3. CASE open[n].kind = "obj"
    <3>1. n < n + 1 /\ n \in Nat \ {0} /\ n + 1 \in Nat
      BY <1>2, <2>1
    <3>2. QED
      BY <2>3, <3>1, LevelGrows
  <2>4. CASE open[n].kind = "arr"
    <3>1. n > 1 /\ open[n - 1].kind = "obj"
      BY <1>1, <2>2, <2>4
    <3>2. n - 1 \in Nat \ {0} /\ n - 1 < n
      BY <1>2, <3>1
    <3>3. Level(open, n - 1) <= Level(open, n) /\ Level(open, n - 1) >= 1
      BY <1>2, <3>1, <3>2, LevelGrows
    <3>4. Level(open, n - 1) \in Nat
      BY <3>2, LevelFacts
    <3>5. QED
      BY <1>4, <3>3, <3>4
  <2>5. QED
    BY <2>2, <2>3, <2>4
<1>8. CASE want = "value"
  BY <1>1, <1>2, <1>3, <1>4, <1>5, <1>8, MaxNestedAssumption
<1>9. CASE want # "value"
  <2>1. Len(s) = n /\ c = Level(open, n) - 1 /\ n > 0
    BY <1>2, <1>3, <1>5, <1>6, <1>9
  <2>2. c \in 0 .. MaxNested - 2 /\ Level(open, n) = c + 1
    BY <1>4, <1>5, <1>7, <2>1, MaxNestedAssumption
  <2>3. QED
    BY <1>1, <1>2, <1>3, <1>9, <2>1, <2>2
<1>10. QED
  BY <1>8, <1>9

(* The name that the parser makes of its list is that of the grammar.      *)
LEMMA NameIsRight ==
  ASSUME NEW s, NEW l, NEW c, Match(ref.open, "value", s, l, c)
  PROVE  Fullname(l, c) = RefName
<1>1. PICK open : open = ref.open
  OBVIOUS
<1>2. PICK n : n = Len(open)
  OBVIOUS
<1>3. n \in Nat /\ DOMAIN open = 1 .. n /\ c \in Nat /\ Level(open, n) = c
  BY <1>1, <1>2, MatchFacts
<1>4. \A i \in 1 .. c : \E j \in 1 .. n : open[j].kind = "obj" /\ Level(open, j) = i
  BY <1>1, <1>2, <1>3 DEF Match, OpenOK
<1>5. \A j \in 1 .. n : open[j].kind = "obj" =>
          /\ l[Level(open, j) - 1].index = Index(open, j)
          /\ l[Level(open, j) - 1].name = open[j].name
          /\ open[j].name \notin Escaped
  BY <1>1, <1>2 DEF Match, ListOK, Listed
<1> DEFINE at(i) == CHOOSE j \in 1 .. n : open[j].kind = "obj" /\ Level(open, j) = i
<1>6. \A i \in 1 .. c : /\ at(i) \in 1 .. n /\ open[at(i)].kind = "obj"
                        /\ Level(open, at(i)) = i
  BY <1>4
<1>7. RefName = [i \in 1 .. c |-> [name |-> open[at(i)].name, index |-> Index(open, at(i))]]
  BY <1>1, <1>2, <1>3 DEF RefName
<1> HIDE DEF at
<1>8. \A i \in 1 .. c : /\ l[i - 1].name = open[at(i)].name
                        /\ l[i - 1].index = Index(open, at(i))
                        /\ l[i - 1].name \notin Escaped
  BY <1>5, <1>6
<1>9. PICK full : full = [i \in 1 .. c |-> [name |-> l[i - 1].name, index |-> l[i - 1].index]]
  OBVIOUS
<1>10. full = RefName
  BY <1>7, <1>8, <1>9
<1>11. {i \in DOMAIN full : full[i].name \in Escaped} = {}
  BY <1>8, <1>9
<1>12. QED
  BY <1>9, <1>10, <1>11 DEF Fullname

-----------------------------------------------------------------------------
(* What is open                                                            *)

(* The same kinds are open.                                                *)
LEMMA OpenSame ==
  ASSUME NEW open, NEW want, OpenOK(open, want), NEW n, n = Len(open),
         NEW other \in Seq(Opens), Len(other) = n,
         \A j \in 1 .. n : other[j].kind = open[j].kind,
         NEW then \in Wants,
         then \in {"name", "colon"} => n > 0 /\ open[n].kind = "obj",
         then = "comma" => n > 0
  PROVE  /\ OpenOK(other, then)
         /\ \A k \in 0 .. n : Level(other, k) = Level(open, k)
<1>1. n \in Nat
  BY LenProperties DEF OpenOK
<1>2. \A k \in 0 .. n : Level(other, k) = Level(open, k)
  <2>1. ASSUME NEW k \in 0 .. n PROVE Level(other, k) = Level(open, k)
    <3>1. k \in Nat /\ \A j \in 1 .. k : other[j].kind = open[j].kind
      BY <1>1
    <3>2. QED
      BY <3>1, LevelSame
  <2>2. QED
    BY <2>1
<1>3. ASSUME NEW j \in 1 .. n, other[j].kind = "arr" PROVE j > 1 /\ other[j - 1].kind = "obj"
  <2>1. j > 1 /\ open[j - 1].kind = "obj"
    BY <1>3 DEF OpenOK
  <2>2. j - 1 \in 1 .. n
    BY <1>1, <2>1
  <2>3. QED
    BY <2>1, <2>2
<1>4. ASSUME NEW i \in 1 .. Level(other, n)
      PROVE  \E j \in 1 .. n : other[j].kind = "obj" /\ Level(other, j) = i
  <2>1. i \in 1 .. Level(open, n)
    BY <1>1, <1>2
  <2>2. PICK j \in 1 .. n : open[j].kind = "obj" /\ Level(open, j) = i
    BY <2>1 DEF OpenOK
  <2>3. j \in 0 .. n
    BY <1>1
  <2>4. QED
    BY <1>2, <2>2, <2>3
<1>5. then \in {"name", "colon"} => n > 0 /\ other[n].kind = "obj"
  BY <1>1
<1>6. QED
  BY <1>2, <1>3, <1>4, <1>5 DEF OpenOK

(* An object or an array is opened.                                        *)
LEMMA OpenMore ==
  ASSUME NEW open, OpenOK(open, "value"), NEW n, n = Len(open), NEW e \in Opens,
         e.kind = "arr" => n > 0 /\ open[n].kind = "obj",
         NEW then \in Wants, then \in {"name", "colon"} => e.kind = "obj"
  PROVE  \E other : /\ other = Append(open, e) /\ OpenOK(other, then)
                    /\ Len(other) = n + 1 /\ other[n + 1] = e
                    /\ \A j \in 1 .. n : other[j] = open[j]
                    /\ \A k \in 0 .. n : Level(other, k) = Level(open, k)
                    /\ Level(other, n + 1) = Level(open, n) + (IF e.kind = "obj" THEN 1 ELSE 0)
<1>1. open \in Seq(Opens) /\ n \in Nat
  BY LenProperties DEF OpenOK
<1>2. PICK other : other = Append(open, e)
  OBVIOUS
<1>3. /\ other \in Seq(Opens) /\ Len(other) = n + 1 /\ other[n + 1] = e
      /\ \A j \in 1 .. n : other[j] = open[j]
  BY <1>1, <1>2, AppendProperties
<1>4. \A k \in 0 .. n : Level(other, k) = Level(open, k)
  <2>1. ASSUME NEW k \in 0 .. n PROVE Level(other, k) = Level(open, k)
    <3>1. k \in Nat /\ \A j \in 1 .. k : other[j].kind = open[j].kind
      BY <1>1, <1>3
    <3>2. QED
      BY <3>1, LevelSame
  <2>2. QED
    BY <2>1
<1>5. /\ Level(other, n + 1) = Level(open, n) + (IF e.kind = "obj" THEN 1 ELSE 0)
      /\ Level(open, n) \in Nat
  <2>1. Level(other, n + 1) = Level(other, n) + (IF other[n + 1].kind = "obj" THEN 1 ELSE 0)
    BY <1>1, LevelFacts
  <2>2. Level(other, n) = Level(open, n) /\ Level(open, n) \in Nat
    <3>1. n \in 0 .. n
      BY <1>1
    <3>2. QED
      BY <1>1, <1>4, <3>1, LevelFacts
  <2>3. QED
    BY <1>3, <2>1, <2>2
<1>6. ASSUME NEW j \in 1 .. n + 1, other[j].kind = "arr"
      PROVE  j > 1 /\ other[j - 1].kind = "obj"
  <2>1. CASE j = n + 1
    BY <1>1, <1>3, <1>6, <2>1
  <2>2. CASE j # n + 1
    <3>1. j \in 1 .. n
      BY <1>1, <2>2
    <3>2. j > 1 /\ open[j - 1].kind = "obj"
      BY <1>3, <1>6, <3>1 DEF OpenOK
    <3>3. j - 1 \in 1 .. n
      BY <1>1, <3>1, <3>2
    <3>4. QED
      BY <1>3, <3>2, <3>3
  <2>3. QED
    BY <2>1, <2>2
<1>7. ASSUME NEW i \in 1 .. Level(other, n + 1)
      PROVE  \E j \in 1 .. n + 1 : other[j].kind = "obj" /\ Level(other, j) = i
  <2>1. CASE i \in 1 .. Level(open, n)
    <3>1. PICK j \in 1 .. n : open[j].kind = "obj" /\ Level(open, j) = i
      BY <2>1 DEF OpenOK
    <3>2. j \in 0 .. n /\ j \in 1 .. n + 1
      BY <1>1
    <3>3. QED
      BY <1>3, <1>4, <3>1, <3>2
  <2>2. CASE i \notin 1 .. Level(open, n)
    <3>1. e.kind = "obj" /\ i = Level(other, n + 1)
      BY <1>5, <2>2
    <3>2. n + 1 \in 1 .. n + 1
      BY <1>1
    <3>3. QED
      BY <1>3, <3>1, <3>2
  <2>3. QED
    BY <2>1, <2>2
<1>8. Len(other) > 0 /\ (then \in {"name", "colon"} => other[Len(other)].kind = "obj")
  BY <1>1, <1>3
<1>9. OpenOK(other, then)
  BY <1>3, <1>6, <1>7, <1>8 DEF OpenOK
<1>10. QED
  BY <1>2, <1>3, <1>4, <1>5, <1>9

(* The last one is closed, inside of another.                              *)
LEMMA OpenLess ==
  ASSUME NEW open, OpenOK(open, "comma"), NEW n, n = Len(open), n > 1
  PROVE  \E other : /\ other = Front(open) /\ OpenOK(other, "comma")
                    /\ Len(other) = n - 1
                    /\ \A j \in 1 .. n - 1 : other[j] = open[j]
                    /\ \A k \in 0 .. n - 1 : Level(other, k) = Level(open, k)
                    /\ Level(open, n)
                       = Level(other, n - 1) + (IF open[n].kind = "obj" THEN 1 ELSE 0)
<1>1. open \in Seq(Opens) /\ n \in Nat
  BY LenProperties DEF OpenOK
<1>2. PICK other : other = Front(open)
  OBVIOUS
<1>3. /\ other \in Seq(Opens) /\ Len(other) = n - 1
      /\ \A j \in 1 .. n - 1 : other[j] = open[j]
  BY <1>1, <1>2, FrontFacts
<1>4. \A k \in 0 .. n - 1 : Level(other, k) = Level(open, k)
  <2>1. ASSUME NEW k \in 0 .. n - 1 PROVE Level(other, k) = Level(open, k)
    <3>1. k \in Nat /\ \A j \in 1 .. k : other[j].kind = open[j].kind
      BY <1>1, <1>3
    <3>2. QED
      BY <3>1, LevelSame
  <2>2. QED
    BY <2>1
<1>5. /\ Level(open, n) = Level(other, n - 1) + (IF open[n].kind = "obj" THEN 1 ELSE 0)
      /\ Level(other, n - 1) \in Nat
  <2>1. n - 1 \in Nat /\ (n - 1) + 1 = n /\ n - 1 \in 0 .. n - 1
    BY <1>1
  <2>2. Level(open, (n - 1) + 1)
        = Level(open, n - 1) + (IF open[(n - 1) + 1].kind = "obj" THEN 1 ELSE 0)
    BY <2>1, LevelFacts
  <2>3. Level(open, n - 1) = Level(other, n - 1) /\ Level(open, n - 1) \in Nat
    BY <1>4, <2>1, LevelFacts
  <2>4. QED
    BY <2>1, <2>2, <2>3
<1>6. ASSUME NEW j \in 1 .. n - 1, other[j].kind = "arr"
      PROVE  j > 1 /\ other[j - 1].kind = "obj"
  <2>1. j \in 1 .. n
    BY <1>1
  <2>2. j > 1 /\ open[j - 1].kind = "obj"
    BY <1>3, <1>6, <2>1 DEF OpenOK
  <2>3. j - 1 \in 1 .. n - 1
    BY <1>1, <2>2
  <2>4. QED
    BY <1>3, <2>2, <2>3
<1>7. ASSUME NEW i \in 1 .. Level(other, n - 1)
      PROVE  \E j \in 1 .. n - 1 : other[j].kind = "obj" /\ Level(other, j) = i
  <2>1. i \in 1 .. Level(open, n)
    BY <1>5
  <2>2. PICK j \in 1 .. n : open[j].kind = "obj" /\ Level(open, j) = i
    BY <2>1 DEF OpenOK
  <2>3. j # n
    BY <1>5, <2>2
  <2>4. j \in 1 .. n - 1 /\ j \in 0 .. n - 1
    BY <1>1, <2>3
  <2>5. QED
    BY <1>3, <1>4, <2>2, <2>4
<1>8. OpenOK(other, "comma")
  BY <1>1, <1>3, <1>6, <1>7 DEF OpenOK, Wants
<1>9. QED
  BY <1>2, <1>3, <1>4, <1>5, <1>8

-----------------------------------------------------------------------------
(* The stack                                                               *)

\* What has become of g when the call that it has made by returns.
GoneOn(f, g, by) ==
    /\ f \in Frames /\ f.by = g.by /\ f.isarr = g.isarr /\ f.isobj = g.isobj
    /\ f.name = g.name /\ f.colon = g.colon
    /\ by = ":" => f.obj /\ f.arr = g.arr
    /\ by # ":" => f.arr /\ f.obj = g.obj

(* A frame goes on behind a value.                                         *)
LEMMA ResumeFacts ==
  ASSUME NEW g \in Frames, NEW by, NEW f, f = Resume(g, by)
  PROVE  GoneOn(f, g, by)
<1>1. CASE by = ":"
  <2>1. f = [g EXCEPT !.obj = TRUE]
    BY <1>1 DEF Resume
  <2>2. /\ f \in Frames /\ f.by = g.by /\ f.isarr = g.isarr /\ f.isobj = g.isobj
        /\ f.name = g.name /\ f.colon = g.colon
    BY <2>1 DEF Frames
  <2>3. f.arr = g.arr /\ f.obj = TRUE
    BY <2>1 DEF Frames
  <2>4. QED
    BY <1>1, <2>2, <2>3 DEF GoneOn
<1>2. CASE by # ":"
  <2>1. f = [g EXCEPT !.arr = TRUE]
    BY <1>2 DEF Resume
  <2>2. /\ f \in Frames /\ f.by = g.by /\ f.isarr = g.isarr /\ f.isobj = g.isobj
        /\ f.name = g.name /\ f.colon = g.colon
    BY <2>1 DEF Frames
  <2>3. f.obj = g.obj /\ f.arr = TRUE
    BY <2>1 DEF Frames
  <2>4. QED
    BY <1>2, <2>2, <2>3 DEF GoneOn
<1>3. QED
  BY <1>1, <1>2

(* What is left when a call returns.                                       *)
LEMMA LeftFacts ==
  ASSUME NEW s \in Seq(Frames), NEW m, m = Len(s), m > 0
  PROVE  /\ m = 1 => Left(s) = <<>>
         /\ m > 1 => \E t : /\ t = Left(s) /\ t \in Seq(Frames) /\ Len(t) = m - 1
                            /\ t[m - 1] = Resume(s[m - 1], s[m].by)
                            /\ \A k \in 1 .. m - 2 : t[k] = s[k]
<1>1. m \in Nat \ {0} /\ \A k \in 1 .. m : s[k] \in Frames
  BY LenProperties
<1>2. PICK r : r = Front(s)
  OBVIOUS
<1>3. r \in Seq(Frames) /\ Len(r) = m - 1 /\ \A k \in 1 .. m - 1 : r[k] = s[k]
  BY <1>2, FrontFacts
<1>4. CASE m = 1
  <2>1. r = <<>>
    BY <1>3, <1>4, EmptySeq
  <2>2. QED
    BY <1>2, <1>4, <2>1 DEF Left
<1>5. CASE m > 1
  <2>1. r # <<>> /\ Last(r) = s[m - 1] /\ Last(s) = s[m]
    <3>1. m - 1 \in 1 .. m - 1
      BY <1>1, <1>5
    <3>2. QED
      BY <1>3, <1>5, <3>1 DEF Last
  <2>2. PICK f : f = Resume(s[m - 1], s[m].by)
    OBVIOUS
  <2>3. f \in Frames
    <3>1. s[m - 1] \in Frames
      BY <1>1, <1>5
    <3>2. QED
      BY <2>2, <3>1, ResumeFacts DEF GoneOn
  <2>4. PICK t : /\ t = Append(Front(r), f) /\ t \in Seq(Frames) /\ Len(t) = Len(r)
                 /\ t[Len(r)] = f /\ \A k \in 1 .. Len(r) - 1 : t[k] = r[k]
    <3>1. Len(r) > 0 /\ r \in Seq(Frames)
      BY <1>1, <1>3, <1>5
    <3>2. QED
      BY <2>3, <3>1, SetFacts
  <2>5. t = Left(s)
    BY <1>2, <2>1, <2>2, <2>4 DEF Left
  <2>6. ASSUME NEW k \in 1 .. m - 2 PROVE t[k] = s[k]
    <3>1. k \in 1 .. Len(r) - 1 /\ k \in 1 .. m - 1
      BY <1>1, <1>3
    <3>2. QED
      BY <1>3, <2>4, <3>1
  <2>7. QED
    BY <1>1, <1>3, <1>5, <2>2, <2>4, <2>5, <2>6
<1>6. QED
  BY <1>1, <1>4, <1>5

(* Frames below the one that runs go by the kinds alone.                   *)
LEMMA FrameBelow ==
  ASSUME NEW open, NEW want, NEW j \in Nat \ {0}, NEW f, FrameFor(open, want, j, f),
         NEW other, NEW then, Len(open) \in Nat, Len(other) \in Nat,
         j <= Len(open), j = Len(open) => want = "value",
         j <= Len(other), j = Len(other) => then = "value",
         other[j].kind = open[j].kind, j > 1 => other[j - 1].kind = open[j - 1].kind
  PROVE  FrameFor(other, then, j, f)
<1>1. f \in Frames
  BY DEF FrameFor
<1>2. f.by = ":" <=> j > 1 /\ other[j - 1].kind = "obj"
  BY DEF FrameFor
<1>3. (f.isobj <=> j <= Len(other) /\ other[j].kind = "obj")
      /\ (f.isarr <=> j <= Len(other) /\ other[j].kind = "arr")
  BY DEF FrameFor
<1>4. ~f.name /\ ~f.colon /\ ~f.obj /\ ~f.arr
  BY DEF FrameFor
<1>5. ~(j = Len(other) /\ then \in {"name", "colon", "comma"})
  OBVIOUS
<1>6. QED
  BY <1>1, <1>2, <1>3, <1>4, <1>5 DEF FrameFor

(* The running frame changes, and what is wanted then is no value.         *)
LEMMA StackSet ==
  ASSUME NEW open, NEW want, NEW s, StackOK(open, want, s), NEW n, n = Len(open), n \in Nat,
         NEW other, NEW then, NEW m, m = Len(other), m \in Nat \ {0}, then # "value",
         Len(s) = m,
         \A j \in 1 .. m - 1 : other[j].kind = open[j].kind,
         NEW f, FrameFor(other, then, m, f)
  PROVE  StackOK(other, then, Append(Front(s), f))
<1>1. /\ s \in Seq(Frames) /\ Len(s) = n + (IF want = "value" THEN 1 ELSE 0)
      /\ \A j \in 1 .. m : FrameFor(open, want, j, s[j])
  BY DEF StackOK
<1>2. f \in Frames
  BY DEF FrameFor
<1>3. PICK t : /\ t = Append(Front(s), f) /\ t \in Seq(Frames) /\ Len(t) = m /\ t[m] = f
               /\ \A k \in 1 .. m - 1 : t[k] = s[k]
  <2>1. s \in Seq(Frames) /\ Len(s) > 0
    BY <1>1
  <2>2. PICK t : /\ t = Append(Front(s), f) /\ t \in Seq(Frames) /\ Len(t) = Len(s)
                 /\ t[Len(s)] = f /\ \A k \in 1 .. Len(s) - 1 : t[k] = s[k]
    BY <1>2, <2>1, SetFacts
  <2>3. QED
    BY <2>2
<1>4. ASSUME NEW j \in 1 .. m PROVE FrameFor(other, then, j, t[j])
  <2>1. CASE j = m
    BY <1>3, <2>1
  <2>2. CASE j # m
    <3>1. j \in 1 .. m - 1 /\ j \in Nat \ {0} /\ j < m /\ (j > 1 => j - 1 \in 1 .. m - 1)
      BY <2>2
    <3>2. n = m \/ (n = m - 1 /\ want = "value")
      BY <1>1
    <3>3. j <= n /\ (j = n => want = "value")
      BY <3>1, <3>2
    <3>4. FrameFor(open, want, j, t[j])
      BY <1>1, <1>3, <3>1
    <3>5. other[j].kind = open[j].kind /\ (j > 1 => other[j - 1].kind = open[j - 1].kind)
      BY <3>1
    <3>6. QED
      BY <3>1, <3>3, <3>4, <3>5, FrameBelow
  <2>3. QED
    BY <2>1, <2>2
<1>5. QED
  BY <1>3, <1>4 DEF StackOK

\* What calls for a value in an object, or in an array.
CallsFor(by, kind) == by \in IF kind = "obj" THEN {":"} ELSE {"[", ","}

(* The frame of a call.                                                    *)
LEMMA CallsForFacts ==
  ASSUME NEW by, NEW kind, CallsFor(by, kind), NEW a, a = [Frame EXCEPT !.by = by]
  PROVE  /\ a \in Frames /\ (a.by = ":" <=> kind = "obj")
         /\ ~a.isarr /\ ~a.isobj /\ ~a.name /\ ~a.colon /\ ~a.obj /\ ~a.arr
<1>1. by \in {":", "[", ","}
  BY DEF CallsFor
<1>2. by = ":" <=> kind = "obj"
  BY DEF CallsFor
<1>3. a \in Frames /\ a.by = by
  BY <1>1 DEF Frame, Frames
<1>4. ~a.isarr /\ ~a.isobj /\ ~a.name /\ ~a.colon /\ ~a.obj /\ ~a.arr
  BY <1>1 DEF Frame, Frames
<1>5. QED
  BY <1>2, <1>3, <1>4

(* A call is made for a value, from a frame that has noted nothing.        *)
LEMMA StackCall ==
  ASSUME NEW open, NEW want, NEW s, StackOK(open, want, s), NEW n, n = Len(open), n \in Nat,
         NEW other, NEW m, m = Len(other), m \in Nat \ {0}, Len(s) = m,
         \A j \in 1 .. m - 1 : other[j].kind = open[j].kind,
         NEW f, FrameFor(other, "value", m, f), NEW by, CallsFor(by, other[m].kind)
  PROVE  StackOK(other, "value", Append(Append(Front(s), f), [Frame EXCEPT !.by = by]))
<1>1. /\ s \in Seq(Frames) /\ Len(s) = n + (IF want = "value" THEN 1 ELSE 0)
      /\ \A j \in 1 .. m : FrameFor(open, want, j, s[j])
  BY DEF StackOK
<1>2. f \in Frames
  BY DEF FrameFor
<1>3. PICK t : /\ t = Append(Front(s), f) /\ t \in Seq(Frames) /\ Len(t) = m /\ t[m] = f
               /\ \A k \in 1 .. m - 1 : t[k] = s[k]
  <2>1. s \in Seq(Frames) /\ Len(s) > 0
    BY <1>1
  <2>2. PICK t : /\ t = Append(Front(s), f) /\ t \in Seq(Frames) /\ Len(t) = Len(s)
                 /\ t[Len(s)] = f /\ \A k \in 1 .. Len(s) - 1 : t[k] = s[k]
    BY <1>2, <2>1, SetFacts
  <2>3. QED
    BY <2>2
<1>4. PICK a : a = [Frame EXCEPT !.by = by]
  OBVIOUS
<1>5. /\ a \in Frames /\ (a.by = ":" <=> other[m].kind = "obj")
      /\ ~a.isarr /\ ~a.isobj /\ ~a.name /\ ~a.colon /\ ~a.obj /\ ~a.arr
  BY <1>4, CallsForFacts
<1>6. PICK u : u = Append(t, a)
  OBVIOUS
<1>7. /\ u \in Seq(Frames) /\ Len(u) = m + 1 /\ u[m + 1] = a
      /\ \A k \in 1 .. m : u[k] = t[k]
  BY <1>3, <1>5, <1>6, AppendProperties
<1>8. ASSUME NEW j \in 1 .. m + 1 PROVE FrameFor(other, "value", j, u[j])
  <2>1. CASE j = m + 1
    <3>1. ~(j <= m) /\ j > 1 /\ j - 1 = m /\ u[j] = a /\ j # m
      BY <1>7, <2>1
    <3>2. QED
      BY <1>5, <3>1 DEF FrameFor
  <2>2. CASE j = m
    BY <1>3, <1>7, <2>2
  <2>3. CASE j < m
    <3>1. j \in 1 .. m - 1 /\ j \in Nat \ {0} /\ (j > 1 => j - 1 \in 1 .. m - 1)
      BY <2>3
    <3>2. n = m \/ (n = m - 1 /\ want = "value")
      BY <1>1
    <3>3. j <= n /\ (j = n => want = "value")
      BY <2>3, <3>1, <3>2
    <3>4. FrameFor(open, want, j, u[j])
      <4>1. j \in 1 .. m
        BY <3>1
      <4>2. QED
        BY <1>1, <1>3, <1>7, <3>1, <4>1
    <3>5. other[j].kind = open[j].kind /\ (j > 1 => other[j - 1].kind = open[j - 1].kind)
      BY <3>1
    <3>6. QED
      BY <2>3, <3>1, <3>3, <3>4, <3>5, FrameBelow
  <2>4. QED
    BY <2>1, <2>2, <2>3
<1>9. QED
  BY <1>3, <1>4, <1>6, <1>7, <1>8 DEF StackOK

(* A call returns to the one that has m open.                              *)
LEMMA StackReturn ==
  ASSUME NEW open, NEW want, NEW s, StackOK(open, want, s), NEW n, n = Len(open), n \in Nat,
         NEW other, NEW m, m = Len(other), m \in Nat \ {0}, Len(s) = m + 1,
         \A j \in 1 .. m : other[j].kind = open[j].kind,
         other[m].kind \in {"obj", "arr"}
  PROVE  StackOK(other, "comma", Left(s))
<1>1. /\ s \in Seq(Frames) /\ Len(s) = n + (IF want = "value" THEN 1 ELSE 0)
      /\ \A j \in 1 .. m + 1 : FrameFor(open, want, j, s[j])
  BY DEF StackOK
<1>2. PICK t : /\ t = Left(s) /\ t \in Seq(Frames) /\ Len(t) = m
               /\ t[m] = Resume(s[m], s[m + 1].by)
               /\ \A k \in 1 .. m - 1 : t[k] = s[k]
  <2>1. PICK z : z = m + 1
    OBVIOUS
  <2>2. z = Len(s) /\ z > 0 /\ z > 1 /\ z - 1 = m /\ z - 2 = m - 1
    BY <2>1
  <2>3. \E t : /\ t = Left(s) /\ t \in Seq(Frames) /\ Len(t) = z - 1
               /\ t[z - 1] = Resume(s[z - 1], s[z].by)
               /\ \A k \in 1 .. z - 2 : t[k] = s[k]
    <3>1. s \in Seq(Frames)
      BY <1>1
    <3>2. QED
      BY <2>2, <3>1, LeftFacts
  <2>4. QED
    BY <2>1, <2>2, <2>3
<1>3. n = m + 1 \/ (n = m /\ want = "value")
  BY <1>1
<1>4. s[m + 1].by = ":" <=> other[m].kind = "obj"
  <2>1. FrameFor(open, want, m + 1, s[m + 1]) /\ m + 1 > 1 /\ (m + 1) - 1 = m
    BY <1>1
  <2>2. s[m + 1].by = ":" <=> open[m].kind = "obj"
    BY <2>1 DEF FrameFor
  <2>3. QED
    BY <2>2
<1>5. FrameFor(other, "value", m, s[m])
  <2>1. FrameFor(open, want, m, s[m]) /\ m <= n /\ (m = n => want = "value")
    BY <1>1, <1>3
  <2>2. other[m].kind = open[m].kind /\ (m > 1 => other[m - 1].kind = open[m - 1].kind)
    OBVIOUS
  <2>3. QED
    BY <2>1, <2>2, FrameBelow
<1>6. FrameFor(other, "comma", m, t[m])
  <2>1. PICK g : g = s[m]
    OBVIOUS
  <2>2. /\ g \in Frames /\ (g.by = ":" <=> m > 1 /\ other[m - 1].kind = "obj")
        /\ (g.isobj <=> other[m].kind = "obj") /\ (g.isarr <=> other[m].kind = "arr")
        /\ ~g.name /\ ~g.colon /\ ~g.obj /\ ~g.arr
    BY <1>5, <2>1 DEF FrameFor
  <2>3. t[m] = Resume(g, s[m + 1].by)
    BY <1>2, <2>1
  <2>4. GoneOn(t[m], g, s[m + 1].by)
    BY <2>2, <2>3, ResumeFacts
  <2>5. /\ t[m] \in Frames /\ (t[m].by = ":" <=> m > 1 /\ other[m - 1].kind = "obj")
        /\ (t[m].isobj <=> other[m].kind = "obj") /\ (t[m].isarr <=> other[m].kind = "arr")
        /\ ~t[m].name /\ ~t[m].colon
    BY <2>2, <2>4 DEF GoneOn
  <2>6. (t[m].obj <=> other[m].kind = "obj") /\ (t[m].arr <=> other[m].kind = "arr")
    BY <1>4, <2>2, <2>4 DEF GoneOn
  <2>7. QED
    BY <2>5, <2>6 DEF FrameFor
<1>7. ASSUME NEW j \in 1 .. m PROVE FrameFor(other, "comma", j, t[j])
  <2>1. CASE j = m
    BY <1>6, <2>1
  <2>2. CASE j # m
    <3>1. j \in 1 .. m - 1 /\ j \in Nat \ {0} /\ j < m /\ j < n
          /\ (j > 1 => j - 1 \in 1 .. m)
      BY <1>3, <2>2
    <3>2. FrameFor(open, want, j, t[j])
      <4>1. j \in 1 .. m + 1
        BY <3>1
      <4>2. QED
        BY <1>1, <1>2, <3>1, <4>1
    <3>3. other[j].kind = open[j].kind /\ (j > 1 => other[j - 1].kind = open[j - 1].kind)
      BY <3>1
    <3>4. QED
      BY <3>1, <3>2, <3>3, FrameBelow
  <2>3. QED
    BY <2>1, <2>2
<1>8. QED
  BY <1>2, <1>7 DEF StackOK

-----------------------------------------------------------------------------
(* The list                                                                *)

(* An entry that did not change still stands for its member.               *)
LEMMA ListedStays ==
  ASSUME NEW open, NEW want, NEW l, NEW j, Listed(open, want, l, j),
         ~(j = Len(open) /\ want = "name"),
         NEW other, NEW then, NEW k, Level(other, j) = Level(open, j),
         Index(other, j) = Index(open, j), other[j].name = open[j].name,
         k[Level(open, j) - 1] = l[Level(open, j) - 1]
  PROVE  Listed(other, then, k, j)
BY DEF Listed

(* The places of the members: one each, in their order.                    *)
LEMMA Places ==
  ASSUME NEW open, NEW n \in Nat, NEW j \in 1 .. n, open[j].kind = "obj"
  PROVE  /\ Level(open, j) \in Nat \ {0} /\ Level(open, n) \in Nat
         /\ Level(open, j) <= Level(open, n)
         /\ j < n /\ open[n].kind = "obj" => Level(open, j) < Level(open, n)
<1>1. Level(open, j) \in Nat /\ Level(open, n) \in Nat
  BY LevelFacts
<1>2. Level(open, j) >= 1
  <2>1. j < j + 1 /\ j \in Nat \ {0} /\ j + 1 \in Nat
    OBVIOUS
  <2>2. QED
    BY <2>1, LevelGrows
<1>3. CASE j = n
  BY <1>1, <1>2, <1>3
<1>4. CASE j < n
  <2>1. j \in Nat \ {0}
    OBVIOUS
  <2>2. QED
    BY <1>1, <1>2, <1>4, <2>1, LevelGrows
<1>5. QED
  BY <1>3, <1>4

(* The list is that of the members: its parts.                             *)
LEMMA ListFacts ==
  ASSUME NEW open, NEW want, NEW s, NEW l, NEW c, Match(open, want, s, l, c),
         NEW n, n = Len(open)
  PROVE  /\ l \in Lists
         /\ \A j \in 1 .. n : open[j].kind = "obj" => Listed(open, want, l, j)
         /\ \A i \in Level(open, n) .. MaxNested - 1 : l[i].index = -1
         /\ \A j \in 1 .. n : open[j].kind = "arr" => j > 1 /\ open[j - 1].kind = "obj"
         /\ c <= MaxNested - 2
BY DEF Match, ListOK, OpenOK

(* The name of an entry of the list changes.                               *)
LEMMA ListName ==
  ASSUME NEW l \in Lists, NEW i \in 0 .. MaxNested - 1, NEW x \in Tokens \cup {NULL}
  PROVE  \E k : /\ k = [l EXCEPT ![i].name = x] /\ k \in Lists
                /\ k[i].name = x /\ k[i].index = l[i].index
                /\ \A h \in 0 .. MaxNested - 1 : h # i => k[h] = l[h]
<1>1. PICK e : e = [l[i] EXCEPT !.name = x]
  OBVIOUS
<1>2. PICK k : k = [l EXCEPT ![i] = e]
  OBVIOUS
<1>3. e \in [name : Tokens \cup {NULL}, index : Int] /\ e.name = x /\ e.index = l[i].index
  BY <1>1 DEF Lists
<1>4. k \in Lists /\ k[i] = e /\ \A h \in 0 .. MaxNested - 1 : h # i => k[h] = l[h]
  BY <1>2, <1>3 DEF Lists
<1>5. k = [l EXCEPT ![i].name = x]
  BY <1>1, <1>2
<1>6. QED
  BY <1>3, <1>4, <1>5

(* Its index changes.                                                      *)
LEMMA ListIndex ==
  ASSUME NEW l \in Lists, NEW i \in 0 .. MaxNested - 1, NEW x \in Int
  PROVE  \E k : /\ k = [l EXCEPT ![i].index = x] /\ k \in Lists
                /\ k[i].index = x /\ k[i].name = l[i].name
                /\ \A h \in 0 .. MaxNested - 1 : h # i => k[h] = l[h]
<1>1. PICK e : e = [l[i] EXCEPT !.index = x]
  OBVIOUS
<1>2. PICK k : k = [l EXCEPT ![i] = e]
  OBVIOUS
<1>3. e \in [name : Tokens \cup {NULL}, index : Int] /\ e.index = x /\ e.name = l[i].name
  BY <1>1 DEF Lists
<1>4. k \in Lists /\ k[i] = e /\ \A h \in 0 .. MaxNested - 1 : h # i => k[h] = l[h]
  BY <1>2, <1>3 DEF Lists
<1>5. k = [l EXCEPT ![i].index = x]
  BY <1>1, <1>2
<1>6. QED
  BY <1>3, <1>4, <1>5

-----------------------------------------------------------------------------
(* The steps, one by one                                                   *)

(* The fields of the call that runs.                                       *)
LEMMA RunningFrame ==
  ASSUME NEW open, NEW want, NEW s, NEW l, NEW c, Match(open, want, s, l, c),
         NEW n, n = Len(open), NEW m, m = Len(s), NEW g, g = s[m]
  PROVE  /\ m \in Nat \ {0} /\ g \in Frames
         /\ g.by = ":" <=> m > 1 /\ open[m - 1].kind = "obj"
         /\ want = "value" => ~g.isobj /\ ~g.isarr
         /\ want # "value" => /\ m = n
                              /\ g.isobj <=> open[n].kind = "obj"
                              /\ g.isarr <=> open[n].kind = "arr"
         /\ g.name <=> want = "name"
         /\ g.colon <=> want = "colon"
         /\ g.obj <=> want = "comma" /\ open[n].kind = "obj"
         /\ g.arr <=> want = "comma" /\ open[n].kind = "arr"
<1>1. /\ n \in Nat /\ m \in Nat /\ (want = "value" => m = n + 1)
      /\ (want # "value" => n > 0 /\ m = n)
      /\ \A j \in 1 .. m : FrameFor(open, want, j, s[j])
  <2>1. /\ n \in Nat /\ Len(s) \in Nat
        /\ \A j \in 1 .. Len(s) : FrameFor(open, want, j, s[j])
    BY MatchFacts
  <2>2. want = "value" => Len(s) = n + 1
    BY MatchFacts
  <2>3. want # "value" => n > 0 /\ Len(s) = n
    BY MatchFacts
  <2>4. QED
    BY <2>1, <2>2, <2>3
<1>2. m \in Nat \ {0} /\ FrameFor(open, want, m, g)
  BY <1>1
<1>3. CASE want = "value"
  BY <1>1, <1>2, <1>3 DEF FrameFor
<1>4. CASE want # "value"
  BY <1>1, <1>2, <1>4 DEF FrameFor
<1>5. QED
  BY <1>3, <1>4


(* What makes a frame that of the last one that is open.                   *)
LEMMA FrameTop ==
  ASSUME NEW other, NEW then, NEW n \in Nat, n = Len(other), NEW f \in Frames,
         f.by = ":" <=> n > 1 /\ other[n - 1].kind = "obj",
         f.isobj <=> other[n].kind = "obj", f.isarr <=> other[n].kind = "arr",
         f.name <=> then = "name", f.colon <=> then = "colon",
         f.obj <=> then = "comma" /\ other[n].kind = "obj",
         f.arr <=> then = "comma" /\ other[n].kind = "arr"
  PROVE  FrameFor(other, then, n, f)
BY DEF FrameFor

(* The name of a member is read.                                           *)
LEMMA MatchName ==
  ASSUME NEW open, NEW s, NEW l, NEW c, Match(open, "name", s, l, c), NEW n, n = Len(open),
         NEW tok \in Strings \ Escaped,
         NEW f, f = [s[n] EXCEPT !.name = FALSE, !.colon = TRUE]
  PROVE  Match([open EXCEPT ![n].name = tok], "colon", Append(Front(s), f),
               [l EXCEPT ![c].name = tok], c)
<1>1. /\ n \in Nat \ {0} /\ open \in Seq(Opens) /\ DOMAIN open = 1 .. n
      /\ open[n] \in Opens /\ s \in Seq(Frames) /\ Len(s) = n
      /\ Level(open, n) = c + 1 /\ c \in 0 .. MaxNested - 2
  <2>1. /\ n \in Nat /\ open \in Seq(Opens) /\ DOMAIN open = 1 .. n
        /\ \A j \in 1 .. n : open[j] \in Opens
        /\ s \in Seq(Frames) /\ c \in 0 .. MaxNested - 2
    BY MatchFacts
  <2>2. n > 0 /\ Len(s) = n /\ Level(open, n) = c + 1
    BY MatchFacts
  <2>3. QED
    BY <2>1, <2>2
<1>2. open[n].kind = "obj" /\ OpenOK(open, "name") /\ StackOK(open, "name", s)
  BY DEF Match, OpenOK
<1>3. tok \in Tokens \cup {NULL} /\ tok \notin Escaped
  BY DEF Tokens
<1>4. PICK e : e = [open[n] EXCEPT !.name = tok]
  OBVIOUS
<1>5. e \in Opens /\ e.name = tok /\ e.kind = open[n].kind /\ e.index = open[n].index
  BY <1>1, <1>3, <1>4 DEF Opens
<1>6. PICK other : other = [open EXCEPT ![n] = e]
  OBVIOUS
<1>7. /\ other \in Seq(Opens) /\ Len(other) = n /\ other[n] = e
      /\ \A j \in 1 .. n : j # n => other[j] = open[j]
  BY <1>1, <1>5, <1>6, ExceptSeq
<1>8. \A j \in 1 .. n : other[j].kind = open[j].kind /\ other[j].index = open[j].index
  BY <1>5, <1>7
<1>9. OpenOK(other, "colon") /\ \A k \in 0 .. n : Level(other, k) = Level(open, k)
  <2>1. "colon" \in Wants /\ n > 0
    BY <1>1 DEF Wants
  <2>2. QED
    BY <1>2, <1>7, <1>8, <2>1, OpenSame
<1>10. StackOK(other, "colon", Append(Front(s), f))
  <2>1. PICK g : g = s[n]
    OBVIOUS
  <2>2. /\ g \in Frames /\ (g.by = ":" <=> n > 1 /\ open[n - 1].kind = "obj")
        /\ g.isobj /\ ~g.isarr /\ ~g.obj /\ ~g.arr
    BY <1>1, <1>2, <2>1, RunningFrame
  <2>3. f \in Frames /\ f.by = g.by /\ f.isobj = g.isobj /\ f.isarr = g.isarr
    BY <2>1, <2>2 DEF Frames
  <2>4. f.obj = g.obj /\ f.arr = g.arr /\ f.name = FALSE /\ f.colon = TRUE
    BY <2>1, <2>2 DEF Frames
  <2>5. n > 1 => other[n - 1].kind = open[n - 1].kind
    BY <1>1, <1>8
  <2>6. FrameFor(other, "colon", n, f)
    <3>1. f.by = ":" <=> n > 1 /\ other[n - 1].kind = "obj"
      BY <1>1, <2>2, <2>3, <2>5
    <3>2. f.isobj /\ ~f.isarr /\ other[n].kind = "obj"
      <4>1. f.isobj /\ ~f.isarr
        BY <2>2, <2>3
      <4>2. n \in 1 .. n
        BY <1>1
      <4>3. QED
        BY <1>2, <1>8, <4>1, <4>2
    <3>3. f.name = FALSE /\ f.colon = TRUE /\ ~f.obj /\ ~f.arr
      BY <2>2, <2>4
    <3>4. QED
      BY <1>1, <1>7, <2>3, <3>1, <3>2, <3>3, FrameTop
  <2>7. \A j \in 1 .. n - 1 : other[j].kind = open[j].kind
    BY <1>1, <1>8
  <2>8. QED
    BY <1>1, <1>2, <1>7, <2>6, <2>7, StackSet
<1>11. PICK k : /\ k = [l EXCEPT ![c].name = tok] /\ k \in Lists
                /\ k[c].name = tok /\ k[c].index = l[c].index
                /\ \A h \in 0 .. MaxNested - 1 : h # c => k[h] = l[h]
  <2>1. l \in Lists /\ c \in 0 .. MaxNested - 1
    BY <1>1, ListFacts, MaxNestedAssumption
  <2>2. QED
    BY <1>3, <2>1, ListName
<1>12. ASSUME NEW j \in 1 .. n, other[j].kind = "obj" PROVE Listed(other, "colon", k, j)
  <2>1. open[j].kind = "obj" /\ Listed(open, "name", l, j)
    BY <1>8, <1>12, ListFacts
  <2>2. Level(other, j) = Level(open, j) /\ Index(other, j) = Index(open, j)
    <3>1. j \in 0 .. n /\ (j < n => j + 1 \in 1 .. n)
      BY <1>1
    <3>2. QED
      BY <1>7, <1>8, <1>9, <3>1 DEF Index
  <2>3. CASE j = n
    <3>1. Level(open, j) - 1 = c
      BY <1>1, <2>3
    <3>2. QED
      BY <1>3, <1>5, <1>7, <1>11, <2>1, <2>2, <2>3, <3>1 DEF Listed
  <2>4. CASE j # n
    <3>1. Level(open, j) \in Nat \ {0} /\ Level(open, j) < Level(open, n)
      BY <1>1, <1>2, <2>1, <2>4, Places
    <3>2. Level(open, j) - 1 \in 0 .. MaxNested - 1 /\ Level(open, j) - 1 # c
      BY <1>1, <3>1, MaxNestedAssumption
    <3>3. k[Level(open, j) - 1] = l[Level(open, j) - 1] /\ other[j].name = open[j].name
      BY <1>7, <1>11, <2>4, <3>2
    <3>4. QED
      BY <2>1, <2>2, <2>4, <3>3, ListedStays
  <2>5. QED
    BY <2>3, <2>4
<1>13. ASSUME NEW i \in Level(other, n) .. MaxNested - 1 PROVE k[i].index = -1
  <2>1. Level(other, n) = Level(open, n)
    BY <1>1, <1>9
  <2>2. i \in Level(open, n) .. MaxNested - 1 /\ i \in 0 .. MaxNested - 1 /\ i # c
    BY <1>1, <2>1
  <2>3. QED
    BY <1>11, <2>2, ListFacts
<1>14. c = Level(other, n) - 1 /\ c <= MaxNested - 2
  BY <1>1, <1>9, MaxNestedAssumption
<1>15. Match(other, "colon", Append(Front(s), f), k, c)
  BY <1>7, <1>9, <1>10, <1>11, <1>12, <1>13, <1>14 DEF Match, ListOK
<1>16. other = [open EXCEPT ![n].name = tok]
  BY <1>4, <1>6
<1>17. QED
  BY <1>11, <1>15, <1>16

(* The numbers when no value is wanted.                                    *)
LEMMA InsideFacts ==
  ASSUME NEW open, NEW want, NEW s, NEW l, NEW c, Match(open, want, s, l, c),
         want # "value", NEW n, n = Len(open)
  PROVE  /\ n \in Nat \ {0} /\ open \in Seq(Opens) /\ DOMAIN open = 1 .. n
         /\ \A j \in 1 .. n : open[j] \in Opens
         /\ s \in Seq(Frames) /\ Len(s) = n
         /\ Level(open, n) = c + 1 /\ c \in 0 .. MaxNested - 2
         /\ OpenOK(open, want) /\ StackOK(open, want, s)
<1>1. /\ n \in Nat /\ open \in Seq(Opens) /\ DOMAIN open = 1 .. n
      /\ \A j \in 1 .. n : open[j] \in Opens
      /\ s \in Seq(Frames) /\ c \in 0 .. MaxNested - 2
  BY MatchFacts
<1>2. n > 0 /\ Len(s) = n /\ Level(open, n) = c + 1
  BY MatchFacts
<1>3. OpenOK(open, want) /\ StackOK(open, want, s)
  BY DEF Match
<1>4. QED
  BY <1>1, <1>2, <1>3

(* The numbers when a value is wanted.                                     *)
LEMMA ValueFacts ==
  ASSUME NEW open, NEW s, NEW l, NEW c, Match(open, "value", s, l, c), NEW n, n = Len(open)
  PROVE  /\ n \in Nat /\ open \in Seq(Opens) /\ DOMAIN open = 1 .. n
         /\ \A j \in 1 .. n : open[j] \in Opens
         /\ s \in Seq(Frames) /\ Len(s) = n + 1
         /\ Level(open, n) = c /\ c \in 0 .. MaxNested - 2
         /\ OpenOK(open, "value") /\ StackOK(open, "value", s)
<1>1. /\ n \in Nat /\ open \in Seq(Opens) /\ DOMAIN open = 1 .. n
      /\ \A j \in 1 .. n : open[j] \in Opens
      /\ s \in Seq(Frames) /\ c \in 0 .. MaxNested - 2
  BY MatchFacts
<1>2. Len(s) = n + 1 /\ Level(open, n) = c
  BY MatchFacts
<1>3. OpenOK(open, "value") /\ StackOK(open, "value", s)
  BY DEF Match
<1>4. QED
  BY <1>1, <1>2, <1>3

(* Nothing is opened or closed, and the list stays.                        *)
LEMMA ListKeeps ==
  ASSUME NEW open, NEW want, NEW s, NEW l, NEW c, Match(open, want, s, l, c),
         NEW then, then = "name" \/ want # "name"
  PROVE  ListOK(open, then, l)
<1>1. ASSUME NEW j \in 1 .. Len(open), open[j].kind = "obj" PROVE Listed(open, then, l, j)
  <2>1. Listed(open, want, l, j)
    BY <1>1, ListFacts
  <2>2. QED
    BY <2>1 DEF Listed
<1>2. QED
  BY <1>1, ListFacts DEF ListOK

(* A value is read, and its call returns.                                  *)
LEMMA MatchValue ==
  ASSUME NEW open, NEW s, NEW l, NEW c, Match(open, "value", s, l, c), NEW n, n = Len(open)
  PROVE  /\ n = 0 => Left(s) = <<>>
         /\ n > 0 => Match(open, "comma", Left(s), l, c - 1)
<1>1. /\ n \in Nat /\ open \in Seq(Opens) /\ s \in Seq(Frames) /\ Len(s) = n + 1
      /\ Level(open, n) = c /\ c \in 0 .. MaxNested - 2
      /\ OpenOK(open, "value") /\ StackOK(open, "value", s)
      /\ \A j \in 1 .. n : open[j] \in Opens
  BY ValueFacts
<1>2. CASE n = 0
  <2>1. 1 = Len(s) /\ 1 > 0
    BY <1>1, <1>2
  <2>2. PICK m : m = 1
    OBVIOUS
  <2>3. m = Len(s) /\ m > 0
    BY <2>1, <2>2
  <2>4. Left(s) = <<>>
    BY <1>1, <2>2, <2>3, LeftFacts
  <2>5. QED
    BY <1>2, <2>4
<1>3. CASE n > 0
  <2>1. "comma" \in Wants
    BY DEF Wants
  <2>2. OpenOK(open, "comma")
    BY <1>1, <1>3, <2>1, OpenSame
  <2>3. n \in Nat \ {0} /\ open[n].kind \in {"obj", "arr"}
    BY <1>1, <1>3 DEF Opens
  <2>4. StackOK(open, "comma", Left(s))
    BY <1>1, <2>3, StackReturn
  <2>5. ListOK(open, "comma", l)
    BY ListKeeps
  <2>6. c - 1 = Level(open, n) - 1 /\ c - 1 <= MaxNested - 2
    BY <1>1, MaxNestedAssumption
  <2>7. Match(open, "comma", Left(s), l, c - 1)
    BY <2>2, <2>4, <2>5, <2>6 DEF Match
  <2>8. QED
    BY <1>3, <2>7
<1>4. QED
  BY <1>1, <1>2, <1>3

(* The colon behind a name: a call for the value.                          *)
LEMMA MatchColon ==
  ASSUME NEW open, NEW s, NEW l, NEW c, Match(open, "colon", s, l, c), NEW n, n = Len(open),
         NEW f, f = [s[n] EXCEPT !.colon = FALSE], c + 1 <= MaxNested - 2
  PROVE  Match(open, "value", Append(Append(Front(s), f), [Frame EXCEPT !.by = ":"]), l, c + 1)
<1>1. /\ n \in Nat \ {0} /\ open \in Seq(Opens) /\ s \in Seq(Frames) /\ Len(s) = n
      /\ Level(open, n) = c + 1 /\ c \in 0 .. MaxNested - 2
      /\ OpenOK(open, "colon") /\ StackOK(open, "colon", s)
  BY InsideFacts
<1>2. open[n].kind = "obj"
  BY <1>1 DEF OpenOK
<1>3. OpenOK(open, "value")
  <2>1. "value" \in Wants
    BY DEF Wants
  <2>2. QED
    BY <1>1, <2>1, OpenSame
<1>4. FrameFor(open, "value", n, f)
  <2>1. PICK g : g = s[n]
    OBVIOUS
  <2>2. /\ g \in Frames /\ (g.by = ":" <=> n > 1 /\ open[n - 1].kind = "obj")
        /\ g.isobj /\ ~g.isarr /\ ~g.obj /\ ~g.arr /\ ~g.name
    BY <1>1, <1>2, <2>1, RunningFrame
  <2>3. f \in Frames /\ f.by = g.by /\ f.isobj = g.isobj /\ f.isarr = g.isarr
    BY <2>1, <2>2 DEF Frames
  <2>4. f.obj = g.obj /\ f.arr = g.arr /\ f.name = g.name /\ f.colon = FALSE
    BY <2>1, <2>2 DEF Frames
  <2>5. f.by = ":" <=> n > 1 /\ open[n - 1].kind = "obj"
    BY <2>2, <2>3
  <2>6. f.isobj /\ ~f.isarr /\ ~f.obj /\ ~f.arr /\ ~f.name /\ ~f.colon
    BY <2>2, <2>3, <2>4
  <2>7. QED
    BY <1>1, <1>2, <2>3, <2>5, <2>6, FrameTop
<1>5. StackOK(open, "value", Append(Append(Front(s), f), [Frame EXCEPT !.by = ":"]))
  <2>1. CallsFor(":", open[n].kind)
    BY <1>2 DEF CallsFor
  <2>2. QED
    BY <1>1, <1>4, <2>1, StackCall
<1>6. ListOK(open, "value", l)
  BY ListKeeps
<1>7. c + 1 = Level(open, n) - 0
  BY <1>1
<1>8. QED
  BY <1>3, <1>5, <1>6, <1>7 DEF Match

(* A comma in an object: the name of the next member.                      *)
LEMMA MatchNextMember ==
  ASSUME NEW open, NEW s, NEW l, NEW c, Match(open, "comma", s, l, c), NEW n, n = Len(open),
         open[n].kind = "obj",
         NEW e, e = [s[n] EXCEPT !.arr = FALSE, !.obj = FALSE],
         NEW f, f = [e EXCEPT !.name = TRUE]
  PROVE  Match(open, "name", Append(Front(s), f), l, c)
<1>1. /\ n \in Nat \ {0} /\ open \in Seq(Opens) /\ s \in Seq(Frames) /\ Len(s) = n
      /\ Level(open, n) = c + 1 /\ c \in 0 .. MaxNested - 2
      /\ OpenOK(open, "comma") /\ StackOK(open, "comma", s)
  BY InsideFacts
<1>2. "name" \in Wants
  BY DEF Wants
<1>3. OpenOK(open, "name")
  BY <1>1, <1>2, OpenSame
<1>4. FrameFor(open, "name", n, f)
  <2>1. PICK g : g = s[n]
    OBVIOUS
  <2>2. /\ g \in Frames /\ (g.by = ":" <=> n > 1 /\ open[n - 1].kind = "obj")
        /\ g.isobj /\ ~g.isarr /\ ~g.name /\ ~g.colon
    BY <1>1, <2>1, RunningFrame
  <2>3. e \in Frames /\ e.by = g.by /\ e.isobj = g.isobj /\ e.isarr = g.isarr
    BY <2>1, <2>2 DEF Frames
  <2>4. e.obj = FALSE /\ e.arr = FALSE /\ e.name = g.name /\ e.colon = g.colon
    BY <2>1, <2>2 DEF Frames
  <2>5. f \in Frames /\ f.by = e.by /\ f.isobj = e.isobj /\ f.isarr = e.isarr
    BY <2>3 DEF Frames
  <2>6. f.obj = e.obj /\ f.arr = e.arr /\ f.name = TRUE /\ f.colon = e.colon
    BY <2>3 DEF Frames
  <2>7. f.by = ":" <=> n > 1 /\ open[n - 1].kind = "obj"
    BY <2>2, <2>3, <2>5
  <2>8. f.isobj /\ ~f.isarr /\ ~f.obj /\ ~f.arr /\ f.name /\ ~f.colon
    BY <2>2, <2>3, <2>4, <2>5, <2>6
  <2>9. QED
    BY <1>1, <2>5, <2>7, <2>8, FrameTop
<1>5. StackOK(open, "name", Append(Front(s), f))
  BY <1>1, <1>4, StackSet
<1>6. ListOK(open, "name", l)
  BY ListKeeps
<1>7. c = Level(open, n) - 1 /\ c <= MaxNested - 2
  BY <1>1, MaxNestedAssumption
<1>8. QED
  BY <1>3, <1>5, <1>6, <1>7 DEF Match

(* A comma in an array: a call for the next element.                       *)
LEMMA MatchNextElement ==
  ASSUME NEW open, NEW s, NEW l, NEW c, Match(open, "comma", s, l, c), NEW n, n = Len(open),
         open[n].kind = "arr", c + 1 <= MaxNested - 2,
         NEW f, f = [s[n] EXCEPT !.arr = FALSE, !.obj = FALSE]
  PROVE  Match([open EXCEPT ![n].index = @ + 1], "value",
               Append(Append(Front(s), f), [Frame EXCEPT !.by = ","]),
               [l EXCEPT ![c].index = @ + 1], c + 1)
<1>1. /\ n \in Nat \ {0} /\ open \in Seq(Opens) /\ DOMAIN open = 1 .. n
      /\ \A j \in 1 .. n : open[j] \in Opens
      /\ s \in Seq(Frames) /\ Len(s) = n
      /\ Level(open, n) = c + 1 /\ c \in 0 .. MaxNested - 2
      /\ OpenOK(open, "comma") /\ StackOK(open, "comma", s)
  BY InsideFacts
<1>2. n > 1 /\ open[n - 1].kind = "obj"
  BY <1>1 DEF OpenOK
<1>3. PICK x : x = open[n].index + 1
  OBVIOUS
<1>4. PICK e : e = [open[n] EXCEPT !.index = x]
  OBVIOUS
<1>5. /\ x \in Int /\ open[n].index \in Int
      /\ e \in Opens /\ e.name = open[n].name /\ e.kind = open[n].kind /\ e.index = x
  BY <1>1, <1>3, <1>4 DEF Opens
<1>6. PICK other : other = [open EXCEPT ![n] = e]
  OBVIOUS
<1>7. /\ other \in Seq(Opens) /\ Len(other) = n /\ other[n] = e
      /\ \A j \in 1 .. n : j # n => other[j] = open[j]
  BY <1>1, <1>5, <1>6, ExceptSeq
<1>8. \A j \in 1 .. n : other[j].kind = open[j].kind
  BY <1>5, <1>7
<1>9. OpenOK(other, "value") /\ \A k \in 0 .. n : Level(other, k) = Level(open, k)
  <2>1. "value" \in Wants
    BY DEF Wants
  <2>2. QED
    BY <1>1, <1>7, <1>8, <2>1, OpenSame
<1>10. FrameFor(other, "value", n, f)
  <2>1. PICK g : g = s[n]
    OBVIOUS
  <2>2. /\ g \in Frames /\ (g.by = ":" <=> n > 1 /\ open[n - 1].kind = "obj")
        /\ ~g.isobj /\ g.isarr /\ ~g.name /\ ~g.colon
    BY <1>1, <2>1, RunningFrame
  <2>3. f \in Frames /\ f.by = g.by /\ f.isobj = g.isobj /\ f.isarr = g.isarr
    BY <2>1, <2>2 DEF Frames
  <2>4. f.obj = FALSE /\ f.arr = FALSE /\ f.name = g.name /\ f.colon = g.colon
    BY <2>1, <2>2 DEF Frames
  <2>5. other[n - 1].kind = open[n - 1].kind /\ other[n].kind = "arr"
    BY <1>1, <1>2, <1>8
  <2>6. f.by = ":" <=> n > 1 /\ other[n - 1].kind = "obj"
    BY <1>1, <2>2, <2>3, <2>5
  <2>7. ~f.isobj /\ f.isarr /\ ~f.obj /\ ~f.arr /\ ~f.name /\ ~f.colon
    BY <2>2, <2>3, <2>4
  <2>8. QED
    BY <1>1, <1>7, <2>3, <2>5, <2>6, <2>7, FrameTop
<1>11. StackOK(other, "value", Append(Append(Front(s), f), [Frame EXCEPT !.by = ","]))
  <2>1. CallsFor(",", other[n].kind)
    <3>1. other[n].kind = "arr"
      BY <1>1, <1>8
    <3>2. QED
      BY <3>1 DEF CallsFor
  <2>2. \A j \in 1 .. n - 1 : other[j].kind = open[j].kind
    BY <1>1, <1>8
  <2>3. PICK m, v : m = n /\ v = ","
    OBVIOUS
  <2>4. /\ StackOK(open, "comma", s) /\ n \in Nat /\ m = Len(other) /\ m \in Nat \ {0}
        /\ Len(s) = m /\ FrameFor(other, "value", m, f) /\ CallsFor(v, other[m].kind)
        /\ \A j \in 1 .. m - 1 : other[j].kind = open[j].kind
    BY <1>1, <1>7, <1>10, <2>1, <2>2, <2>3
  <2>5. StackOK(other, "value", Append(Append(Front(s), f), [Frame EXCEPT !.by = v]))
    BY <2>4, StackCall
  <2>6. QED
    BY <2>3, <2>5
<1>12. Level(open, n - 1) = c + 1
  <2>1. n - 1 \in Nat /\ (n - 1) + 1 = n
    BY <1>1
  <2>2. Level(open, (n - 1) + 1)
        = Level(open, n - 1) + (IF open[(n - 1) + 1].kind = "obj" THEN 1 ELSE 0)
    BY <2>1, LevelFacts
  <2>3. Level(open, n - 1) \in Nat
    BY <2>1, LevelFacts
  <2>4. QED
    BY <1>1, <2>1, <2>2, <2>3
<1>13. Listed(open, "comma", l, n - 1) /\ l[c].index = open[n].index
  <2>1. n - 1 \in 1 .. n /\ n - 1 < Len(open) /\ (n - 1) + 1 = n
    BY <1>1, <1>2
  <2>2. Listed(open, "comma", l, n - 1)
    BY <1>2, <2>1, ListFacts
  <2>3. Index(open, n - 1) = open[n].index
    BY <2>1 DEF Index
  <2>4. Level(open, n - 1) - 1 = c
    BY <1>1, <1>12
  <2>5. QED
    BY <2>2, <2>3, <2>4 DEF Listed
<1>14. PICK k : /\ k = [l EXCEPT ![c].index = x] /\ k \in Lists
                /\ k[c].index = x /\ k[c].name = l[c].name
                /\ \A h \in 0 .. MaxNested - 1 : h # c => k[h] = l[h]
  <2>1. l \in Lists /\ c \in 0 .. MaxNested - 1 /\ x \in Int
    BY <1>1, <1>5, ListFacts, MaxNestedAssumption
  <2>2. QED
    BY <2>1, ListIndex
<1>15. ASSUME NEW j \in 1 .. n, other[j].kind = "obj" PROVE Listed(other, "value", k, j)
  <2>1. open[j].kind = "obj" /\ Listed(open, "comma", l, j) /\ j # n
    BY <1>8, <1>15, ListFacts
  <2>2. Level(other, j) = Level(open, j) /\ other[j].name = open[j].name
    <3>1. j \in 0 .. n
      BY <1>1
    <3>2. QED
      BY <1>7, <1>9, <2>1, <3>1
  <2>3. CASE j = n - 1
    <3>1. j < n /\ j + 1 = n /\ Level(open, j) - 1 = c
      BY <1>1, <1>12, <2>3
    <3>2. Index(other, j) = x
      <4>1. other[j + 1].kind = "arr" /\ other[j + 1].index = x
        BY <1>5, <1>7, <3>1
      <4>2. QED
        BY <1>7, <3>1, <4>1 DEF Index
    <3>3. l[c].name = open[j].name /\ open[j].name \notin Escaped
      BY <1>1, <2>1, <3>1 DEF Listed
    <3>4. QED
      BY <1>14, <2>2, <3>1, <3>2, <3>3 DEF Listed
  <2>4. CASE j # n - 1
    <3>1. n - 1 \in Nat /\ j \in 1 .. n - 1 /\ j < n - 1
      BY <1>1, <2>1, <2>4
    <3>2. Level(open, j) \in Nat \ {0} /\ Level(open, j) < Level(open, n - 1)
      BY <1>2, <2>1, <3>1, Places
    <3>3. Level(open, j) - 1 \in 0 .. MaxNested - 1 /\ Level(open, j) - 1 # c
      BY <1>1, <1>12, <3>2, MaxNestedAssumption
    <3>4. k[Level(open, j) - 1] = l[Level(open, j) - 1]
      BY <1>14, <3>3
    <3>5. Index(other, j) = Index(open, j)
      <4>1. j + 1 \in 1 .. n /\ j + 1 # n
        BY <1>1, <3>1
      <4>2. QED
        BY <1>7, <4>1 DEF Index
    <3>6. QED
      BY <2>1, <2>2, <3>4, <3>5, ListedStays
  <2>5. QED
    BY <2>3, <2>4
<1>16. ASSUME NEW i \in Level(other, n) .. MaxNested - 1 PROVE k[i].index = -1
  <2>1. Level(other, n) = Level(open, n)
    BY <1>1, <1>9
  <2>2. i \in Level(open, n) .. MaxNested - 1 /\ i \in 0 .. MaxNested - 1 /\ i # c
    BY <1>1, <2>1
  <2>3. QED
    BY <1>14, <2>2, ListFacts
<1>17. c + 1 = Level(other, n) - 0
  BY <1>1, <1>9
<1>18. PICK t : t = Append(Append(Front(s), f), [Frame EXCEPT !.by = ","])
  OBVIOUS
<1>19. Match(other, "value", t, k, c + 1)
  BY <1>7, <1>9, <1>11, <1>14, <1>15, <1>16, <1>17, <1>18 DEF Match, ListOK
<1>20. other = [open EXCEPT ![n].index = @ + 1]
  BY <1>3, <1>4, <1>6
<1>21. k = [l EXCEPT ![c].index = @ + 1]
  BY <1>3, <1>13, <1>14
<1>22. QED
  BY <1>18, <1>19, <1>20, <1>21

(* The beginning of an object.                                             *)
LEMMA MatchObject ==
  ASSUME NEW open, NEW s, NEW l, NEW c, Match(open, "value", s, l, c), NEW m, m = Len(s),
         NEW f, f = [s[m] EXCEPT !.name = TRUE, !.isobj = TRUE]
  PROVE  Match(Append(open, [kind |-> "obj", name |-> NULL, index |-> -1]), "name",
               Append(Front(s), f), l, c)
<1>1. PICK n : n = Len(open)
  OBVIOUS
<1>2. /\ n \in Nat /\ s \in Seq(Frames) /\ m = n + 1
      /\ Level(open, n) = c /\ c \in 0 .. MaxNested - 2
      /\ OpenOK(open, "value") /\ StackOK(open, "value", s)
  BY <1>1, ValueFacts
<1>3. PICK e : e = [kind |-> "obj", name |-> NULL, index |-> -1]
  OBVIOUS
<1>4. e \in Opens /\ e.kind = "obj" /\ e.name = NULL /\ e.index = -1
  BY <1>3 DEF Opens
<1>5. PICK other : /\ other = Append(open, e) /\ OpenOK(other, "name")
                   /\ Len(other) = n + 1 /\ other[n + 1] = e
                   /\ \A j \in 1 .. n : other[j] = open[j]
                   /\ \A k \in 0 .. n : Level(other, k) = Level(open, k)
                   /\ Level(other, n + 1)
                      = Level(open, n) + (IF e.kind = "obj" THEN 1 ELSE 0)
  <2>1. "name" \in Wants /\ e.kind # "arr"
    BY <1>4 DEF Wants
  <2>2. QED
    BY <1>1, <1>2, <1>4, <2>1, OpenMore
<1>6. FrameFor(other, "name", m, f)
  <2>1. PICK g : g = s[m]
    OBVIOUS
  <2>2. /\ m \in Nat \ {0} /\ g \in Frames /\ (g.by = ":" <=> m > 1 /\ open[m - 1].kind = "obj")
        /\ ~g.isobj /\ ~g.isarr /\ ~g.colon /\ ~g.obj /\ ~g.arr
    BY <2>1, RunningFrame
  <2>3. f \in Frames /\ f.by = g.by /\ f.isobj = TRUE /\ f.isarr = g.isarr
    BY <2>1, <2>2 DEF Frames
  <2>4. f.obj = g.obj /\ f.arr = g.arr /\ f.name = TRUE /\ f.colon = g.colon
    BY <2>1, <2>2 DEF Frames
  <2>5. m > 1 => other[m - 1] = open[m - 1]
    BY <1>2, <1>5
  <2>6. f.by = ":" <=> m > 1 /\ other[m - 1].kind = "obj"
    BY <2>2, <2>3, <2>5
  <2>7. f.isobj /\ ~f.isarr /\ ~f.obj /\ ~f.arr /\ f.name /\ ~f.colon
    BY <2>2, <2>3, <2>4
  <2>8. m \in Nat /\ m = Len(other) /\ other[m].kind = "obj"
    BY <1>2, <1>4, <1>5
  <2>9. QED
    BY <2>3, <2>6, <2>7, <2>8, FrameTop
<1>7. StackOK(other, "name", Append(Front(s), f))
  <2>1. /\ StackOK(open, "value", s) /\ n \in Nat /\ m = Len(other) /\ m \in Nat \ {0}
        /\ Len(s) = m /\ FrameFor(other, "name", m, f) /\ "name" # "value"
        /\ \A j \in 1 .. m - 1 : other[j].kind = open[j].kind
    BY <1>2, <1>5, <1>6
  <2>2. QED
    BY <1>1, <2>1, StackSet
<1>8. Level(other, m) = c + 1
  BY <1>2, <1>4, <1>5
<1>9. ASSUME NEW j \in 1 .. m, other[j].kind = "obj" PROVE Listed(other, "name", l, j)
  <2>1. CASE j = m
    <3>1. Level(other, j) - 1 = c /\ c \in Level(open, n) .. MaxNested - 1
      BY <1>2, <1>8, <2>1, MaxNestedAssumption
    <3>2. l[c].index = -1
      BY <1>1, <3>1, ListFacts
    <3>3. Index(other, j) = -1
      BY <1>2, <1>5, <2>1 DEF Index
    <3>4. QED
      BY <1>2, <1>5, <2>1, <3>1, <3>2, <3>3 DEF Listed
  <2>2. CASE j # m
    <3>1. j \in 1 .. n /\ j \in 0 .. n
      BY <1>2, <2>2
    <3>2. open[j].kind = "obj" /\ other[j].name = open[j].name /\ Level(other, j) = Level(open, j)
      BY <1>5, <1>9, <3>1
    <3>3. Listed(open, "value", l, j)
      BY <1>1, <3>1, <3>2, ListFacts
    <3>4. Index(other, j) = Index(open, j)
      <4>1. CASE j = n
        BY <1>1, <1>2, <1>4, <1>5, <4>1 DEF Index
      <4>2. CASE j # n
        <5>1. j < n /\ j < n + 1 /\ j + 1 \in 1 .. n
          BY <1>2, <3>1, <4>2
        <5>2. QED
          BY <1>1, <1>5, <5>1 DEF Index
      <4>3. QED
        BY <4>1, <4>2
    <3>5. QED
      BY <3>2, <3>3, <3>4, ListedStays
  <2>3. QED
    BY <2>1, <2>2
<1>10. ASSUME NEW i \in Level(other, m) .. MaxNested - 1 PROVE l[i].index = -1
  <2>1. i \in Level(open, n) .. MaxNested - 1
    BY <1>2, <1>8
  <2>2. QED
    BY <1>1, <2>1, ListFacts
<1>11. l \in Lists
  BY ListFacts
<1>12. c = Level(other, m) - 1 /\ c <= MaxNested - 2 /\ m = Len(other)
  BY <1>2, <1>5, <1>8, MaxNestedAssumption
<1>13. Match(other, "name", Append(Front(s), f), l, c)
  BY <1>5, <1>7, <1>9, <1>10, <1>11, <1>12 DEF Match, ListOK
<1>14. QED
  BY <1>3, <1>5, <1>13

(* The beginning of an array, the value of a member.                       *)
LEMMA MatchArray ==
  ASSUME NEW open, NEW s, NEW l, NEW c, Match(open, "value", s, l, c),
         open # <<>>, open[Len(open)].kind = "obj", NEW m, m = Len(s),
         NEW f, f = [s[m] EXCEPT !.isarr = TRUE]
  PROVE  Match(Append(open, [kind |-> "arr", name |-> NULL, index |-> 0]), "value",
               Append(Append(Front(s), f), [Frame EXCEPT !.by = "["]),
               [l EXCEPT ![c - 1].index = @ + 1], c)
<1>1. PICK n : n = Len(open)
  OBVIOUS
<1>2. /\ n \in Nat /\ s \in Seq(Frames) /\ m = n + 1 /\ open \in Seq(Opens)
      /\ Level(open, n) = c /\ c \in 0 .. MaxNested - 2
      /\ OpenOK(open, "value") /\ StackOK(open, "value", s)
  BY <1>1, ValueFacts
<1>3. n > 0 /\ open[n].kind = "obj"
  BY <1>1, <1>2, EmptySeq
<1>4. PICK e : e = [kind |-> "arr", name |-> NULL, index |-> 0]
  OBVIOUS
<1>5. e \in Opens /\ e.kind = "arr" /\ e.name = NULL /\ e.index = 0
  BY <1>4 DEF Opens
<1>6. PICK other : /\ other = Append(open, e) /\ OpenOK(other, "value")
                   /\ Len(other) = n + 1 /\ other[n + 1] = e
                   /\ \A j \in 1 .. n : other[j] = open[j]
                   /\ \A k \in 0 .. n : Level(other, k) = Level(open, k)
                   /\ Level(other, n + 1)
                      = Level(open, n) + (IF e.kind = "obj" THEN 1 ELSE 0)
  <2>1. PICK w : w = "value"
    OBVIOUS
  <2>2. w \in Wants /\ w \notin {"name", "colon"}
    BY <2>1 DEF Wants
  <2>3. OpenOK(open, "value") /\ n = Len(open) /\ e \in Opens
    BY <1>1, <1>2, <1>5
  <2>4. (e.kind = "arr" => n > 0 /\ open[n].kind = "obj") /\ w \in Wants
        /\ (w \in {"name", "colon"} => e.kind = "obj")
    BY <1>3, <2>2
  <2>5. \E x : /\ x = Append(open, e) /\ OpenOK(x, w)
               /\ Len(x) = n + 1 /\ x[n + 1] = e
               /\ \A j \in 1 .. n : x[j] = open[j]
               /\ \A k \in 0 .. n : Level(x, k) = Level(open, k)
               /\ Level(x, n + 1)
                      = Level(open, n) + (IF e.kind = "obj" THEN 1 ELSE 0)
    BY <1>3, <2>2, <2>3, <2>4, OpenMore, SMTT(30)
  <2>6. QED
    BY <2>1, <2>5
<1>7. FrameFor(other, "value", m, f)
  <2>1. PICK g : g = s[m]
    OBVIOUS
  <2>2. /\ m \in Nat \ {0} /\ g \in Frames /\ (g.by = ":" <=> m > 1 /\ open[m - 1].kind = "obj")
        /\ ~g.isobj /\ ~g.isarr /\ ~g.colon /\ ~g.obj /\ ~g.arr /\ ~g.name
    BY <2>1, RunningFrame
  <2>3. f \in Frames /\ f.by = g.by /\ f.isobj = g.isobj /\ f.isarr = TRUE
    BY <2>1, <2>2 DEF Frames
  <2>4. f.obj = g.obj /\ f.arr = g.arr /\ f.name = g.name /\ f.colon = g.colon
    BY <2>1, <2>2 DEF Frames
  <2>5. m > 1 => other[m - 1] = open[m - 1]
    BY <1>2, <1>6
  <2>6. f.by = ":" <=> m > 1 /\ other[m - 1].kind = "obj"
    BY <2>2, <2>3, <2>5
  <2>7. ~f.isobj /\ f.isarr /\ ~f.obj /\ ~f.arr /\ ~f.name /\ ~f.colon
    BY <2>2, <2>3, <2>4
  <2>8. m \in Nat /\ m = Len(other) /\ other[m].kind = "arr"
    BY <1>2, <1>5, <1>6
  <2>9. QED
    BY <2>3, <2>6, <2>7, <2>8, FrameTop
<1>8. StackOK(other, "value", Append(Append(Front(s), f), [Frame EXCEPT !.by = "["]))
  <2>1. PICK v : v = "["
    OBVIOUS
  <2>2. CallsFor(v, other[m].kind)
    BY <1>2, <1>5, <1>6, <2>1 DEF CallsFor
  <2>3. /\ StackOK(open, "value", s) /\ n \in Nat /\ m = Len(other) /\ m \in Nat \ {0}
        /\ Len(s) = m /\ FrameFor(other, "value", m, f)
        /\ \A j \in 1 .. m - 1 : other[j].kind = open[j].kind
    BY <1>2, <1>6, <1>7
  <2>4. StackOK(other, "value", Append(Append(Front(s), f), [Frame EXCEPT !.by = v]))
    BY <1>1, <2>2, <2>3, StackCall
  <2>5. QED
    BY <2>1, <2>4
<1>9. Level(other, m) = c
  BY <1>2, <1>5, <1>6
<1>10. /\ Listed(open, "value", l, n) /\ l[c - 1].index = -1
       /\ c > 0 /\ c - 1 \in 0 .. MaxNested - 1
  <2>1. Listed(open, "value", l, n)
    BY <1>1, <1>2, <1>3, ListFacts
  <2>2. Index(open, n) = -1
    BY <1>1, <1>2 DEF Index
  <2>3. Level(open, n) \in Nat \ {0}
    BY <1>2, <1>3, Places
  <2>4. QED
    BY <1>2, <2>1, <2>2, <2>3, MaxNestedAssumption DEF Listed
<1>11. PICK k : /\ k = [l EXCEPT ![c - 1].index = 0] /\ k \in Lists
                /\ k[c - 1].index = 0 /\ k[c - 1].name = l[c - 1].name
                /\ \A h \in 0 .. MaxNested - 1 : h # c - 1 => k[h] = l[h]
  <2>1. PICK x, d : x = 0 /\ d = c - 1
    OBVIOUS
  <2>2. l \in Lists /\ d \in 0 .. MaxNested - 1 /\ x \in Int
    BY <1>10, <2>1, ListFacts
  <2>3. \E k : /\ k = [l EXCEPT ![d].index = x] /\ k \in Lists
               /\ k[d].index = x /\ k[d].name = l[d].name
               /\ \A h \in 0 .. MaxNested - 1 : h # d => k[h] = l[h]
    BY <2>2, ListIndex
  <2>4. QED
    BY <2>1, <2>3
<1>12. ASSUME NEW j \in 1 .. m, other[j].kind = "obj" PROVE Listed(other, "value", k, j)
  <2>1. j \in 1 .. n /\ j \in 0 .. n
    BY <1>2, <1>5, <1>6, <1>12
  <2>2. open[j].kind = "obj" /\ other[j].name = open[j].name /\ Level(other, j) = Level(open, j)
    BY <1>6, <1>12, <2>1
  <2>3. Listed(open, "value", l, j)
    BY <1>1, <2>1, <2>2, ListFacts
  <2>4. CASE j = n
    <3>1. Level(open, j) - 1 = c - 1
      BY <1>2, <2>4
    <3>2. Index(other, j) = 0
      BY <1>2, <1>5, <1>6, <2>4 DEF Index
    <3>3. l[c - 1].name = open[j].name /\ open[j].name \notin Escaped
      BY <2>3, <3>1 DEF Listed
    <3>4. QED
      BY <1>11, <2>2, <3>1, <3>2, <3>3 DEF Listed
  <2>5. CASE j # n
    <3>1. j < n /\ j < n + 1 /\ j + 1 \in 1 .. n
      BY <1>2, <2>1, <2>5
    <3>2. Level(open, j) \in Nat \ {0} /\ Level(open, j) < Level(open, n)
      BY <1>2, <1>3, <2>1, <2>2, <3>1, Places
    <3>3. Level(open, j) - 1 \in 0 .. MaxNested - 1 /\ Level(open, j) - 1 # c - 1
      BY <1>2, <3>2, MaxNestedAssumption
    <3>4. k[Level(open, j) - 1] = l[Level(open, j) - 1]
      BY <1>11, <3>3
    <3>5. Index(other, j) = Index(open, j)
      BY <1>1, <1>6, <3>1 DEF Index
    <3>6. QED
      BY <2>2, <2>3, <3>4, <3>5, ListedStays
  <2>6. QED
    BY <2>4, <2>5
<1>13. ASSUME NEW i \in Level(other, m) .. MaxNested - 1 PROVE k[i].index = -1
  <2>1. i \in Level(open, n) .. MaxNested - 1 /\ i \in 0 .. MaxNested - 1 /\ i # c - 1
    BY <1>2, <1>9
  <2>2. QED
    BY <1>1, <1>11, <2>1, ListFacts
<1>14. c = Level(other, m) - 0 /\ c <= MaxNested - 2 /\ m = Len(other)
  BY <1>2, <1>6, <1>9, MaxNestedAssumption
<1>15. PICK t : t = Append(Append(Front(s), f), [Frame EXCEPT !.by = "["])
  OBVIOUS
<1>16. Match(other, "value", t, k, c)
  BY <1>6, <1>8, <1>11, <1>12, <1>13, <1>14, <1>15 DEF Match, ListOK
<1>17. k = [l EXCEPT ![c - 1].index = @ + 1]
  BY <1>10, <1>11
<1>18. QED
  BY <1>4, <1>6, <1>15, <1>16, <1>17

(* The end of an object.                                                   *)
LEMMA MatchEndObject ==
  ASSUME NEW open, NEW s, NEW l, NEW c, Match(open, "comma", s, l, c), NEW n, n = Len(open),
         open[n].kind = "obj"
  PROVE  /\ n = 1 => Left(s) = <<>>
         /\ n > 1 => Match(Front(open), "comma", Left(s), l, c - 1)
<1>1. /\ n \in Nat \ {0} /\ open \in Seq(Opens) /\ s \in Seq(Frames) /\ Len(s) = n
      /\ Level(open, n) = c + 1 /\ c \in 0 .. MaxNested - 2
      /\ OpenOK(open, "comma") /\ StackOK(open, "comma", s)
      /\ \A j \in 1 .. n : open[j] \in Opens
  BY InsideFacts
<1>2. CASE n = 1
  <2>1. n = Len(s) /\ n > 0
    BY <1>1
  <2>2. Left(s) = <<>>
    BY <1>1, <1>2, <2>1, LeftFacts
  <2>3. QED
    BY <1>2, <2>2
<1>3. CASE n > 1
  <2>1. PICK m : m = n - 1
    OBVIOUS
  <2>2. m \in Nat \ {0} /\ m + 1 = n
    BY <1>1, <1>3, <2>1
  <2>3. PICK other : /\ other = Front(open) /\ OpenOK(other, "comma")
                     /\ Len(other) = n - 1
                     /\ \A j \in 1 .. n - 1 : other[j] = open[j]
                     /\ \A k \in 0 .. n - 1 : Level(other, k) = Level(open, k)
                     /\ Level(open, n)
                        = Level(other, n - 1) + (IF open[n].kind = "obj" THEN 1 ELSE 0)
    BY <1>1, <1>3, OpenLess
  <2>4. StackOK(other, "comma", Left(s))
    <3>1. /\ StackOK(open, "comma", s) /\ n \in Nat /\ m = Len(other) /\ m \in Nat \ {0}
          /\ Len(s) = m + 1 /\ \A j \in 1 .. m : other[j].kind = open[j].kind
      BY <1>1, <2>1, <2>2, <2>3
    <3>2. other[m].kind \in {"obj", "arr"}
      <4>1. m \in 1 .. n /\ m \in 1 .. n - 1
        BY <2>1, <2>2
      <4>2. open[m] \in Opens /\ other[m] = open[m]
        BY <1>1, <2>3, <4>1
      <4>3. QED
        BY <4>2 DEF Opens
    <3>3. QED
      BY <3>1, <3>2, StackReturn
  <2>5. Level(other, m) = c
    <3>1. Level(other, m) \in Nat /\ Level(open, n) = Level(other, m) + 1
      BY <2>1, <2>2, <2>3, LevelFacts
    <3>2. QED
      BY <1>1, <3>1
  <2>6. ASSUME NEW j \in 1 .. m, other[j].kind = "obj" PROVE Listed(other, "comma", l, j)
    <3>1. j \in 1 .. n /\ j \in 1 .. n - 1 /\ j \in 0 .. n - 1
      BY <2>1, <2>2
    <3>2. other[j] = open[j] /\ Level(other, j) = Level(open, j)
      BY <2>3, <3>1
    <3>3. Listed(open, "comma", l, j)
      BY <2>6, <3>1, <3>2, ListFacts
    <3>4. Index(other, j) = Index(open, j)
      <4>1. CASE j = m
        BY <2>1, <2>2, <2>3, <4>1 DEF Index
      <4>2. CASE j # m
        <5>1. j < m /\ j < n /\ j + 1 \in 1 .. n - 1
          BY <2>1, <2>2, <4>2
        <5>2. QED
          BY <2>1, <2>3, <5>1 DEF Index
      <4>3. QED
        BY <4>1, <4>2
    <3>5. QED
      BY <3>2, <3>3, <3>4, ListedStays
  <2>7. ASSUME NEW i \in Level(other, m) .. MaxNested - 1 PROVE l[i].index = -1
    <3>1. CASE i = c
      <4>1. n \in 1 .. n /\ Level(open, n) - 1 = i
        BY <1>1, <3>1
      <4>2. Listed(open, "comma", l, n)
        BY <4>1, ListFacts
      <4>3. Index(open, n) = -1
        BY DEF Index
      <4>4. QED
        BY <4>1, <4>2, <4>3 DEF Listed
    <3>2. CASE i # c
      <4>1. i \in Level(open, n) .. MaxNested - 1
        BY <1>1, <2>5, <3>2
      <4>2. QED
        BY <4>1, ListFacts
    <3>3. QED
      BY <3>1, <3>2
  <2>8. l \in Lists /\ m = Len(other)
    BY <2>1, <2>3, ListFacts
  <2>9. c - 1 = Level(other, m) - 1 /\ c - 1 <= MaxNested - 2
    BY <1>1, <2>5, MaxNestedAssumption
  <2>10. Match(other, "comma", Left(s), l, c - 1)
    BY <2>3, <2>4, <2>6, <2>7, <2>8, <2>9 DEF Match, ListOK
  <2>11. QED
    BY <1>3, <2>3, <2>10
<1>4. QED
  BY <1>1, <1>2, <1>3

(* The end of an array, which is inside of an object.                      *)
LEMMA MatchEndArray ==
  ASSUME NEW open, NEW s, NEW l, NEW c, Match(open, "comma", s, l, c), NEW n, n = Len(open),
         open[n].kind = "arr"
  PROVE  n > 1 /\ Match(Front(open), "comma", Left(s), [l EXCEPT ![c].index = -1], c)
<1>1. /\ n \in Nat \ {0} /\ open \in Seq(Opens) /\ s \in Seq(Frames) /\ Len(s) = n
      /\ Level(open, n) = c + 1 /\ c \in 0 .. MaxNested - 2
      /\ OpenOK(open, "comma") /\ StackOK(open, "comma", s)
      /\ \A j \in 1 .. n : open[j] \in Opens
  BY InsideFacts
<1>2. n > 1 /\ open[n - 1].kind = "obj"
  BY <1>1 DEF OpenOK
<1>3. PICK m : m = n - 1
  OBVIOUS
<1>4. m \in Nat \ {0} /\ m + 1 = n
  BY <1>1, <1>2, <1>3
<1>5. PICK other : /\ other = Front(open) /\ OpenOK(other, "comma")
                   /\ Len(other) = n - 1
                   /\ \A j \in 1 .. n - 1 : other[j] = open[j]
                   /\ \A k \in 0 .. n - 1 : Level(other, k) = Level(open, k)
                   /\ Level(open, n)
                      = Level(other, n - 1) + (IF open[n].kind = "obj" THEN 1 ELSE 0)
  BY <1>1, <1>2, OpenLess
<1>6. StackOK(other, "comma", Left(s))
  <2>1. /\ StackOK(open, "comma", s) /\ n \in Nat /\ m = Len(other) /\ m \in Nat \ {0}
        /\ Len(s) = m + 1 /\ \A j \in 1 .. m : other[j].kind = open[j].kind
    BY <1>1, <1>3, <1>4, <1>5
  <2>2. other[m].kind \in {"obj", "arr"}
    <3>1. m \in 1 .. n /\ m \in 1 .. n - 1
      BY <1>3, <1>4
    <3>2. other[m] = open[m]
      BY <1>5, <3>1
    <3>3. QED
      BY <1>2, <1>3, <3>2
  <2>3. QED
    BY <2>1, <2>2, StackReturn
<1>7. Level(other, m) = c + 1 /\ Level(open, m) = c + 1 /\ other[m].kind = "obj"
  <2>1. Level(other, m) \in Nat /\ Level(open, n) = Level(other, m) + 0
    BY <1>3, <1>4, <1>5, LevelFacts
  <2>2. m \in 0 .. n - 1 /\ m \in 1 .. n - 1
    BY <1>3, <1>4
  <2>3. QED
    BY <1>1, <1>2, <1>3, <1>5, <2>1, <2>2
<1>8. PICK k : /\ k = [l EXCEPT ![c].index = -1] /\ k \in Lists
               /\ k[c].index = -1 /\ k[c].name = l[c].name
               /\ \A h \in 0 .. MaxNested - 1 : h # c => k[h] = l[h]
  <2>1. PICK x : x = -1
    OBVIOUS
  <2>2. l \in Lists /\ c \in 0 .. MaxNested - 1 /\ x \in Int
    BY <1>1, <2>1, ListFacts, MaxNestedAssumption
  <2>3. \E k : /\ k = [l EXCEPT ![c].index = x] /\ k \in Lists
               /\ k[c].index = x /\ k[c].name = l[c].name
               /\ \A h \in 0 .. MaxNested - 1 : h # c => k[h] = l[h]
    BY <2>2, ListIndex
  <2>4. QED
    BY <2>1, <2>3
<1>9. ASSUME NEW j \in 1 .. m, other[j].kind = "obj" PROVE Listed(other, "comma", k, j)
  <2>1. j \in 1 .. n /\ j \in 1 .. n - 1 /\ j \in 0 .. n - 1
    BY <1>3, <1>4
  <2>2. other[j] = open[j] /\ Level(other, j) = Level(open, j)
    BY <1>5, <2>1
  <2>3. Listed(open, "comma", l, j)
    BY <1>9, <2>1, <2>2, ListFacts
  <2>4. CASE j = m
    <3>1. Level(open, j) - 1 = c
      BY <1>1, <1>7, <2>4
    <3>2. Index(other, j) = -1
      BY <1>3, <1>4, <1>5, <2>4 DEF Index
    <3>3. l[c].name = open[j].name /\ open[j].name \notin Escaped
      BY <2>3, <3>1 DEF Listed
    <3>4. QED
      BY <1>8, <2>2, <3>1, <3>2, <3>3 DEF Listed
  <2>5. CASE j # m
    <3>1. j < m /\ j < n /\ j + 1 \in 1 .. n - 1 /\ m \in Nat /\ j \in 1 .. m
      BY <1>3, <1>4, <2>5
    <3>2. open[j].kind = "obj" /\ open[m].kind = "obj"
      BY <1>2, <1>3, <1>9, <2>2
    <3>3. Level(open, j) \in Nat \ {0} /\ Level(open, j) < Level(open, m)
      BY <3>1, <3>2, Places
    <3>4. Level(open, j) - 1 \in 0 .. MaxNested - 1 /\ Level(open, j) - 1 # c
      BY <1>1, <1>7, <3>3, MaxNestedAssumption
    <3>5. k[Level(open, j) - 1] = l[Level(open, j) - 1]
      BY <1>8, <3>4
    <3>6. Index(other, j) = Index(open, j)
      BY <1>3, <1>5, <3>1 DEF Index
    <3>7. QED
      BY <2>2, <2>3, <3>5, <3>6, ListedStays
  <2>6. QED
    BY <2>4, <2>5
<1>10. ASSUME NEW i \in Level(other, m) .. MaxNested - 1 PROVE k[i].index = -1
  <2>1. i \in Level(open, n) .. MaxNested - 1 /\ i \in 0 .. MaxNested - 1 /\ i # c
    BY <1>1, <1>7
  <2>2. QED
    BY <1>8, <2>1, ListFacts
<1>11. m = Len(other) /\ c = Level(other, m) - 1 /\ c <= MaxNested - 2
  BY <1>1, <1>3, <1>5, <1>7, MaxNestedAssumption
<1>12. Match(other, "comma", Left(s), k, c)
  BY <1>5, <1>6, <1>8, <1>9, <1>10, <1>11 DEF Match, ListOK
<1>13. QED
  BY <1>2, <1>5, <1>8, <1>12

-----------------------------------------------------------------------------
(* The reference                                                           *)

\* The fields of the reference.
RefFields == {"ok", "odd", "open", "want", "nodes"}

\* The reference is well formed, and has become r by a token.
FedTo(r, open, want, values) ==
    /\ DOMAIN r = RefFields
    /\ r.ok => ref.ok
    /\ ~r.odd => ~ref.odd
    /\ r.open = open /\ r.want = want /\ r.nodes = values


-----------------------------------------------------------------------------
(* Each token                                                              *)

\* Between two tokens of a document that is accepted so far.
AtWork ==
    /\ DOMAIN ref = RefFields
    /\ ec = "ok" /\ nodes = ref.nodes
    /\ Match(ref.open, ref.want, stack, list, list_c)

\* The outcome o is what the reference r, after the token, asks for, or an
\* error in a document that is not at its end.
Keeps(o, r) ==
    \/ o.ec = "error" /\ r.want # "end"
    \/ /\ o.ec = "ok" /\ o.nodes = r.nodes
       /\ \/ o.stack # <<>> /\ Match(r.open, r.want, o.stack, o.list, o.list_c)
          \/ o.stack = <<>> /\ r.open = <<>> /\ r.want = "end"

(* There is always a call.                                                 *)
LEMMA MatchStack ==
  ASSUME NEW open, NEW want, NEW s, NEW l, NEW c, Match(open, want, s, l, c)
  PROVE  s # <<>>
<1>1. PICK n, m : n = Len(open) /\ m = Len(s)
  OBVIOUS
<1>2. m \in Nat \ {0} /\ s \in Seq(Frames)
  BY <1>1, RunningFrame, MatchFacts
<1>3. QED
  BY <1>1, <1>2, EmptySeq

(* What a return assigns.                                                  *)
LEMMA ReturnIs ==
  ASSUME NEW s, NEW l, NEW c, NEW v, NEW x
  PROVE  Return(AnOutcome(s, l, c, v, x)) = AnOutcome(Left(s), l, c, v, x)
BY DEF Return, Left, AnOutcome

(* A call that is not refused.                                             *)
LEMMA CallIs ==
  ASSUME NEW s, NEW l, NEW c \in Int, NEW v, NEW x, NEW by
  PROVE  LET o == AnOutcome(s, l, c, v, x)
         IN \/ Call(o, by).ec = "error"
            \/ /\ Call(o, by) = AnOutcome(Append(s, [Frame EXCEPT !.by = by]), l, c + 1, v, x)
               /\ c + 1 <= MaxNested - 2
<1>1. PICK o : o = AnOutcome(s, l, c, v, x)
  OBVIOUS
<1>2. o.stack = s /\ o.list_c = c
  BY <1>1 DEF AnOutcome
<1>3. CASE TooDeep(Len(o.stack) + 1, o.list_c + 1)
  <2>1. Call(o, by) = [o EXCEPT !.ec = "error"]
    BY <1>3 DEF Call
  <2>2. Call(o, by).ec = "error"
    BY <1>1, <2>1 DEF AnOutcome
  <2>3. QED
    BY <1>1, <2>2
<1>4. CASE ~TooDeep(Len(o.stack) + 1, o.list_c + 1)
  <2>1. PICK a : a = [Frame EXCEPT !.by = by]
    OBVIOUS
  <2>2. Call(o, by) = [o EXCEPT !.stack = Append(o.stack, a), !.list_c = o.list_c + 1]
    BY <1>4, <2>1 DEF Call
  <2>3. PICK t, d : t = Append(s, a) /\ d = c + 1
    OBVIOUS
  <2>4. Call(o, by) = [o EXCEPT !.stack = t, !.list_c = d]
    BY <1>2, <2>2, <2>3
  <2>5. [o EXCEPT !.stack = t, !.list_c = d] = AnOutcome(t, l, d, v, x)
    <3>1. PICK p : p = [o EXCEPT !.stack = t]
      OBVIOUS
    <3>2. p = AnOutcome(t, l, c, v, x)
      BY <1>1, <3>1 DEF AnOutcome
    <3>3. [p EXCEPT !.list_c = d] = AnOutcome(t, l, d, v, x)
      BY <3>2 DEF AnOutcome
    <3>4. QED
      BY <3>1, <3>3
  <2>6. c + 1 <= MaxNested - 2
    BY <1>2, <1>4, MaxNestedAssumption DEF TooDeep
  <2>7. QED
    BY <1>1, <2>1, <2>3, <2>4, <2>5, <2>6
<1>5. QED
  BY <1>3, <1>4

(* What AddJson assigns.                                                   *)
LEMMA AddJsonIs ==
  ASSUME NEW tok
  PROVE  AddJson(tok)
         = AnOutcome(Left(stack), list, list_c - 1,
                     Append(nodes, [name |-> Fullname(list, list_c), value |-> tok]), ec)
<1>1. PICK v : v = Append(nodes, [name |-> Fullname(list, list_c), value |-> tok])
  OBVIOUS
<1>2. AddJson(tok) = Return([Now EXCEPT !.nodes = Append(@, [name |-> Fullname(list, list_c),
                                                            value |-> tok]),
                                        !.list_c = @ - 1])
  BY DEF AddJson
<1>3. Now.nodes = nodes /\ Now.list_c = list_c
  BY NowFacts DEF Now
<1>4. [Now EXCEPT !.nodes = v, !.list_c = list_c - 1]
      = AnOutcome(stack, list, list_c - 1, v, ec)
  <2>1. PICK p : p = [Now EXCEPT !.nodes = v]
    OBVIOUS
  <2>2. p = AnOutcome(stack, list, list_c, v, ec)
    BY <2>1, SetTopIs DEF AnOutcome
  <2>3. [p EXCEPT !.list_c = list_c - 1] = AnOutcome(stack, list, list_c - 1, v, ec)
    BY <2>2 DEF AnOutcome
  <2>4. QED
    BY <2>1, <2>3
<1>5. AddJson(tok) = Return(AnOutcome(stack, list, list_c - 1, v, ec))
  BY <1>1, <1>2, <1>3, <1>4
<1>6. QED
  BY <1>1, <1>5, ReturnIs

(* The call that runs, and where it is.                                    *)
LEMMA WorkFacts ==
  ASSUME AtWork
  PROVE  /\ Len(stack) \in Nat \ {0} /\ stack # <<>> /\ Top = stack[Len(stack)]
         /\ ref.want = "value" => ~Top.isobj /\ ~Top.isarr
         /\ ref.want # "value" => /\ Len(stack) = Len(ref.open) /\ ref.open # <<>>
                                  /\ Top.isobj <=> RefTop.kind = "obj"
                                  /\ Top.isarr <=> RefTop.kind = "arr"
         /\ Top.name <=> ref.want = "name"
         /\ Top.colon <=> ref.want = "colon"
         /\ Top.obj <=> ref.want = "comma" /\ RefTop.kind = "obj"
         /\ Top.arr <=> ref.want = "comma" /\ RefTop.kind = "arr"
<1>1. PICK open, want, m, n : open = ref.open /\ want = ref.want /\ m = Len(stack) /\ n = Len(open)
  OBVIOUS
<1>2. Match(open, want, stack, list, list_c)
  BY <1>1 DEF AtWork
<1>3. PICK g : g = stack[m]
  OBVIOUS
<1>4. /\ m \in Nat \ {0} /\ g \in Frames
      /\ want = "value" => ~g.isobj /\ ~g.isarr
      /\ want # "value" => /\ m = n
                           /\ g.isobj <=> open[n].kind = "obj"
                           /\ g.isarr <=> open[n].kind = "arr"
      /\ g.name <=> want = "name"
      /\ g.colon <=> want = "colon"
      /\ g.obj <=> want = "comma" /\ open[n].kind = "obj"
      /\ g.arr <=> want = "comma" /\ open[n].kind = "arr"
  BY <1>1, <1>2, <1>3, RunningFrame
<1>5. Top = g /\ RefTop = open[n]
  BY <1>1, <1>3 DEF Top, RefTop, Last
<1>6. stack # <<>> /\ open \in Seq(Opens) /\ stack \in Seq(Frames) /\ n \in Nat
  <2>1. stack \in Seq(Frames) /\ open \in Seq(Opens) /\ n \in Nat
    BY <1>1, <1>2, MatchFacts
  <2>2. QED
    BY <1>1, <1>4, <2>1, EmptySeq
<1>7. want # "value" => open # <<>>
  BY <1>1, <1>4, <1>6, EmptySeq
<1>8. QED
  BY <1>1, <1>3, <1>4, <1>5, <1>6, <1>7

(* The parser goes on as the grammar does.                                 *)
LEMMA KeepsOn ==
  ASSUME AtWork, NEW r, NEW open, NEW want, NEW values, FedTo(r, open, want, values),
         NEW o, NEW s, NEW l, NEW c, o = AnOutcome(s, l, c, values, ec),
         Match(open, want, s, l, c)
  PROVE  Keeps(o, r)
<1>1. o.stack = s /\ o.list = l /\ o.list_c = c /\ o.nodes = values /\ o.ec = ec
  BY DEF AnOutcome
<1>2. r.open = open /\ r.want = want /\ r.nodes = values /\ ec = "ok" /\ s # <<>>
  BY MatchStack DEF FedTo, AtWork
<1>3. QED
  BY <1>1, <1>2 DEF Keeps

(* The parser has come to the end of the document.                         *)
LEMMA KeepsEnd ==
  ASSUME AtWork, NEW r, NEW values, FedTo(r, <<>>, "end", values),
         NEW o, NEW l, NEW c, o = AnOutcome(<<>>, l, c, values, ec)
  PROVE  Keeps(o, r)
<1>1. o.stack = <<>> /\ o.nodes = values /\ o.ec = ec
  BY DEF AnOutcome
<1>2. r.open = <<>> /\ r.want = "end" /\ r.nodes = values /\ ec = "ok"
  BY DEF FedTo, AtWork
<1>3. QED
  BY <1>1, <1>2 DEF Keeps

(* White space.                                                            *)
LEMMA SpaceKeeps ==
  ASSUME AtWork, NEW r, r = RefFeed(Space), r.ok, ~r.odd
  PROVE  Keeps(Outcome(Space), r)
<1>1. FedTo(r, ref.open, ref.want, ref.nodes)
  <2>1. r = [ref EXCEPT !.odd = @ \/ (ref.want = "end" /\ last \in Literal)]
    BY TokensAssumption DEF RefFeed, OneChar, Space, ValueWanted, InObject, InArray
  <2>2. DOMAIN ref = RefFields
    BY DEF AtWork
  <2>3. QED
    BY <2>1, <2>2 DEF FedTo, RefFields
<1>2. Outcome(Space) = Now
  BY TokensAssumption DEF Outcome, OneChar, Space
<1>3. Outcome(Space) = AnOutcome(stack, list, list_c, nodes, ec) /\ stack # <<>>
  BY <1>2, SetTopIs, WorkFacts
<1>4. QED
  BY <1>1, <1>3, KeepsOn DEF AtWork

(* A string that is the name of a member.                                  *)
LEMMA NameKeeps ==
  ASSUME AtWork, NEW tok \in Strings, ref.want = "name",
         NEW r, r = RefFeed(tok), r.ok, ~r.odd
  PROVE  Keeps(Outcome(tok), r)
<1>1. PICK n, p : n = Len(ref.open) /\ p = [ref.open EXCEPT ![n].name = tok]
  OBVIOUS
<1>2. FedTo(r, p, "colon", ref.nodes) /\ tok \notin Escaped
  <2>1. r = [ref EXCEPT !.open[Len(ref.open)].name = tok, !.want = "colon",
                        !.odd = @ \/ tok \in Escaped]
    BY TokensAssumption DEF RefFeed, OneChar, Space, ValueWanted, InObject, InArray
  <2>2. r = [ref EXCEPT !.open = p, !.want = "colon", !.odd = @ \/ tok \in Escaped]
    BY <1>1, <2>1
  <2>3. DOMAIN ref = RefFields
    BY DEF AtWork
  <2>4. FedTo(r, p, "colon", ref.nodes)
    BY <2>2, <2>3 DEF FedTo, RefFields
  <2>5. ~r.odd => tok \notin Escaped
    BY <2>2, <2>3 DEF RefFields
  <2>6. QED
    BY <2>4, <2>5
<1>3. PICK f : f = [Top EXCEPT !.name = FALSE, !.colon = TRUE]
  OBVIOUS
<1>4. PICK k : k = [list EXCEPT ![list_c].name = tok]
  OBVIOUS
<1>5. Outcome(tok) = AnOutcome(Append(Front(stack), f), k, list_c, nodes, ec)
  <2>1. Outcome(tok) = String(tok)
    BY TokensAssumption DEF Outcome, OneChar, Space
  <2>2. Top.name /\ ~Top.colon /\ ~Top.arr /\ ~Top.obj
    BY WorkFacts
  <2>3. String(tok) = [SetTop(f) EXCEPT !.list[list_c].name = tok]
    BY <1>3, <2>2 DEF String
  <2>4. SetTop(f) = AnOutcome(Append(Front(stack), f), list, list_c, nodes, ec)
    BY SetTopIs
  <2>5. SetTop(f).list = list
    BY NowFacts
  <2>6. [SetTop(f) EXCEPT !.list[list_c].name = tok] = [SetTop(f) EXCEPT !.list = k]
    BY <1>4, <2>5
  <2>7. [SetTop(f) EXCEPT !.list = k] = AnOutcome(Append(Front(stack), f), k, list_c, nodes, ec)
    BY <2>4 DEF AnOutcome
  <2>8. QED
    BY <2>1, <2>3, <2>6, <2>7
<1>6. Match(p, "colon", Append(Front(stack), f), k, list_c)
  <2>1. Match(ref.open, "name", stack, list, list_c)
    BY DEF AtWork
  <2>2. f = [stack[n] EXCEPT !.name = FALSE, !.colon = TRUE]
    BY <1>1, <1>3, WorkFacts
  <2>3. tok \in Strings \ Escaped
    BY <1>2
  <2>4. QED
    BY <1>1, <1>4, <2>1, <2>2, <2>3, MatchName
<1>7. Outcome(tok) = AnOutcome(Append(Front(stack), f), k, list_c, ref.nodes, ec)
  BY <1>5 DEF AtWork
<1>8. QED
  BY <1>2, <1>6, <1>7, KeepsOn

(* A value.                                                                *)
LEMMA ValueKeeps ==
  ASSUME AtWork, NEW tok \in Strings \cup Literal, ValueWanted,
         NEW r, r = RefFeed(tok), r.ok, ~r.odd
  PROVE  Keeps(Outcome(tok), r)
<1>1. PICK v : v = Append(nodes, [name |-> RefName, value |-> tok])
  OBVIOUS
<1>2. PICK w : w = IF ref.open = <<>> THEN "end" ELSE "comma"
  OBVIOUS
<1>3. ref.want = "value" /\ Match(ref.open, "value", stack, list, list_c)
  BY DEF AtWork, ValueWanted
<1>4. FedTo(r, ref.open, w, v)
  <2>1. r = [ref EXCEPT !.nodes = Append(@, [name |-> RefName, value |-> tok]),
                        !.want = IF ref.open = <<>> THEN "end" ELSE "comma"]
    BY TokensAssumption DEF RefFeed, OneChar, Space, ValueWanted, InObject, InArray
  <2>2. r = [ref EXCEPT !.nodes = v, !.want = w]
    BY <1>1, <1>2, <2>1 DEF AtWork
  <2>3. DOMAIN ref = RefFields
    BY DEF AtWork
  <2>4. QED
    BY <2>2, <2>3 DEF FedTo, RefFields
<1>5. Outcome(tok) = AnOutcome(Left(stack), list, list_c - 1, v, ec)
  <2>1. ~Top.name /\ ~Top.colon /\ ~Top.arr /\ ~Top.obj
    BY <1>3, WorkFacts
  <2>2. CASE tok \in Strings
    <3>1. Outcome(tok) = String(tok)
      BY <2>2, TokensAssumption DEF Outcome, OneChar, Space
    <3>2. String(tok) = AddJson(tok)
      BY <2>1 DEF String
    <3>3. QED
      BY <1>1, <1>3, <3>1, <3>2, AddJsonIs, NameIsRight
  <2>3. CASE tok \in Literal
    <3>1. Outcome(tok) = OtherValue(tok)
      BY <2>3, TokensAssumption DEF Outcome, OneChar, Space
    <3>2. OtherValue(tok) = AddJson(tok)
      BY <2>1 DEF OtherValue, ValueExpected
    <3>3. QED
      BY <1>1, <1>3, <3>1, <3>2, AddJsonIs, NameIsRight
  <2>4. QED
    BY <2>2, <2>3
<1>6. CASE ref.open = <<>>
  <2>1. Len(ref.open) = 0
    BY <1>6
  <2>2. Left(stack) = <<>>
    BY <1>3, <2>1, MatchValue
  <2>3. w = "end"
    BY <1>2, <1>6
  <2>4. QED
    BY <1>4, <1>5, <1>6, <2>2, <2>3 DEF AtWork, Keeps, FedTo, AnOutcome
<1>7. CASE ref.open # <<>>
  <2>1. PICK n : n = Len(ref.open)
    OBVIOUS
  <2>2. n > 0
    <3>1. ref.open \in Seq(Opens) /\ n \in Nat
      BY <1>3, <2>1, ValueFacts
    <3>2. QED
      BY <1>7, <2>1, <3>1, EmptySeq
  <2>3. Match(ref.open, "comma", Left(stack), list, list_c - 1)
    BY <1>3, <2>1, <2>2, MatchValue
  <2>4. w = "comma"
    BY <1>2, <1>7
  <2>5. QED
    BY <1>4, <1>5, <2>3, <2>4, KeepsOn
<1>8. QED
  BY <1>6, <1>7

(* The colon behind a name.                                                *)
LEMMA ColonKeeps ==
  ASSUME AtWork, ref.want = "colon", NEW r, r = RefFeed(":"), r.ok, ~r.odd
  PROVE  Keeps(Outcome(":"), r)
<1>1. FedTo(r, ref.open, "value", ref.nodes)
  <2>1. r = [ref EXCEPT !.want = "value"]
    BY TokensAssumption DEF RefFeed, OneChar, Space, ValueWanted, InObject, InArray
  <2>2. DOMAIN ref = RefFields
    BY DEF AtWork
  <2>3. QED
    BY <2>1, <2>2 DEF FedTo, RefFields
<1>2. PICK n, f : n = Len(ref.open) /\ f = [Top EXCEPT !.colon = FALSE]
  OBVIOUS
<1>3. PICK s : s = Append(Front(stack), f)
  OBVIOUS
<1>4. Outcome(":") = Call(AnOutcome(s, list, list_c, nodes, ec), ":")
  <2>1. Outcome(":") = Colon
    BY TokensAssumption DEF Outcome, OneChar, Space
  <2>2. ~Top.name /\ ~Top.arr /\ ~Top.obj
    BY WorkFacts
  <2>3. Colon = Call(SetTop(f), ":")
    BY <1>2, <2>2 DEF Colon
  <2>4. QED
    BY <1>3, <2>1, <2>3, SetTopIs
<1>5. Match(ref.open, "colon", stack, list, list_c)
  BY DEF AtWork
<1>6. list_c \in Int
  <2>1. list_c \in 0 .. MaxNested - 2
    BY <1>2, <1>5, MatchFacts
  <2>2. QED
    BY <2>1, MaxNestedAssumption
<1>7. CASE Outcome(":").ec = "error"
  BY <1>1, <1>7 DEF Keeps, FedTo
<1>8. CASE Outcome(":").ec # "error"
  <2>1. PICK a : a = [Frame EXCEPT !.by = ":"]
    OBVIOUS
  <2>2. /\ Outcome(":") = AnOutcome(Append(s, a), list, list_c + 1, nodes, ec)
        /\ list_c + 1 <= MaxNested - 2
    BY <1>4, <1>6, <1>8, <2>1, CallIs
  <2>3. f = [stack[n] EXCEPT !.colon = FALSE]
    BY <1>2, WorkFacts
  <2>4. Match(ref.open, "value", Append(s, a), list, list_c + 1)
    BY <1>2, <1>3, <1>5, <2>1, <2>2, <2>3, MatchColon
  <2>5. Outcome(":") = AnOutcome(Append(s, a), list, list_c + 1, ref.nodes, ec)
    BY <2>2 DEF AtWork
  <2>6. QED
    BY <1>1, <2>4, <2>5, KeepsOn
<1>9. QED
  BY <1>7, <1>8

(* A comma in an object.                                                   *)
LEMMA MemberKeeps ==
  ASSUME AtWork, ref.want = "comma", InObject, NEW r, r = RefFeed(","), r.ok, ~r.odd
  PROVE  Keeps(Outcome(","), r)
<1>1. FedTo(r, ref.open, "name", ref.nodes)
  <2>1. r = [ref EXCEPT !.want = "name"]
    BY TokensAssumption DEF RefFeed, OneChar, Space, ValueWanted, InObject, InArray
  <2>2. DOMAIN ref = RefFields
    BY DEF AtWork
  <2>3. QED
    BY <2>1, <2>2 DEF FedTo, RefFields
<1>2. PICK n, e : n = Len(ref.open) /\ e = [Top EXCEPT !.arr = FALSE, !.obj = FALSE]
  OBVIOUS
<1>3. PICK f : f = [e EXCEPT !.name = TRUE]
  OBVIOUS
<1>4. Outcome(",") = AnOutcome(Append(Front(stack), f), list, list_c, ref.nodes, ec)
  <2>1. Outcome(",") = Comma
    BY TokensAssumption DEF Outcome, OneChar, Space
  <2>2. ~Top.name /\ ~Top.colon /\ Top.isobj
    BY WorkFacts DEF InObject
  <2>3. Comma = SetTop(f)
    BY <1>2, <1>3, <2>2 DEF Comma
  <2>4. QED
    BY <2>1, <2>3, SetTopIs DEF AtWork
<1>5. Match(ref.open, "name", Append(Front(stack), f), list, list_c)
  <2>1. Match(ref.open, "comma", stack, list, list_c)
    BY DEF AtWork
  <2>2. ref.open[n].kind = "obj"
    BY <1>2 DEF InObject, RefTop, Last
  <2>3. e = [stack[n] EXCEPT !.arr = FALSE, !.obj = FALSE]
    BY <1>2, WorkFacts
  <2>4. QED
    BY <1>2, <1>3, <2>1, <2>2, <2>3, MatchNextMember
<1>6. QED
  BY <1>1, <1>4, <1>5, KeepsOn

\* The token between members and between elements.
IsComma(tok) == tok = ","

(* A comma in an array.                                                    *)
LEMMA ElementKeeps ==
  ASSUME AtWork, ref.want = "comma", InArray, NEW tok, IsComma(tok),
         NEW r, r = RefFeed(tok), r.ok, ~r.odd
  PROVE  Keeps(Outcome(tok), r)
<1>1. PICK n, p : n = Len(ref.open) /\ p = [ref.open EXCEPT ![n].index = @ + 1]
  OBVIOUS
<1>2. FedTo(r, p, "value", ref.nodes)
  <2>1. r = [ref EXCEPT !.want = "value", !.open[Len(ref.open)].index = @ + 1]
    BY TokensAssumption DEF IsComma, RefFeed, OneChar, Space, ValueWanted, InObject, InArray
  <2>2. r = [ref EXCEPT !.want = "value", !.open = p]
    BY <1>1, <2>1
  <2>3. DOMAIN ref = RefFields
    BY DEF AtWork
  <2>4. QED
    BY <2>2, <2>3 DEF FedTo, RefFields
<1>3. PICK f, k : /\ f = [Top EXCEPT !.arr = FALSE, !.obj = FALSE]
                  /\ k = [list EXCEPT ![list_c].index = @ + 1]
  OBVIOUS
<1>4. PICK s : s = Append(Front(stack), f)
  OBVIOUS
<1>5. Outcome(tok) = Call(AnOutcome(s, k, list_c, nodes, ec), tok)
  <2>1. Outcome(tok) = Comma
    BY TokensAssumption DEF IsComma, Outcome, OneChar, Space
  <2>2. ~Top.name /\ ~Top.colon /\ ~Top.isobj /\ Top.isarr
    BY WorkFacts DEF InArray
  <2>3. Comma = Call([SetTop(f) EXCEPT !.list = NextIndex(list_c)], tok)
    BY <1>3, <2>2 DEF Comma, IsComma
  <2>4. SetTop(f) = AnOutcome(s, list, list_c, nodes, ec)
    BY <1>4, SetTopIs
  <2>5. NextIndex(list_c) = k
    BY <1>3 DEF NextIndex
  <2>6. [SetTop(f) EXCEPT !.list = k] = AnOutcome(s, k, list_c, nodes, ec)
    BY <2>4 DEF AnOutcome
  <2>7. QED
    BY <2>1, <2>3, <2>5, <2>6
<1>6. Match(ref.open, "comma", stack, list, list_c)
  BY DEF AtWork
<1>7. list_c \in Int
  <2>1. list_c \in 0 .. MaxNested - 2
    BY <1>1, <1>6, MatchFacts
  <2>2. QED
    BY <2>1, MaxNestedAssumption
<1>8. CASE Outcome(tok).ec = "error"
  BY <1>2, <1>8 DEF Keeps, FedTo
<1>9. CASE Outcome(tok).ec # "error"
  <2>1. PICK a : a = [Frame EXCEPT !.by = tok]
    OBVIOUS
  <2>2. /\ Outcome(tok) = AnOutcome(Append(s, a), k, list_c + 1, nodes, ec)
        /\ list_c + 1 <= MaxNested - 2
    BY <1>5, <1>7, <1>9, <2>1, CallIs
  <2>3. f = [stack[n] EXCEPT !.arr = FALSE, !.obj = FALSE] /\ ref.open[n].kind = "arr"
    BY <1>1, <1>3, WorkFacts DEF InArray, RefTop, Last
  <2>4. Match(p, "value", Append(s, a), k, list_c + 1)
    <3>1. Match([ref.open EXCEPT ![n].index = @ + 1], "value",
                Append(Append(Front(stack), f), [Frame EXCEPT !.by = ","]),
                [list EXCEPT ![list_c].index = @ + 1], list_c + 1)
      BY <1>1, <1>6, <2>2, <2>3, MatchNextElement
    <3>2. [Frame EXCEPT !.by = ","] = a
      BY <2>1 DEF IsComma
    <3>3. QED
      BY <1>1, <1>3, <1>4, <3>1, <3>2
  <2>5. Outcome(tok) = AnOutcome(Append(s, a), k, list_c + 1, ref.nodes, ec)
    BY <2>2 DEF AtWork
  <2>6. QED
    BY <1>2, <2>4, <2>5, KeepsOn
<1>10. QED
  BY <1>8, <1>9

(* The beginning of an object.                                             *)
LEMMA ObjectKeeps ==
  ASSUME AtWork, ValueWanted, NEW r, r = RefFeed("{"), r.ok, ~r.odd
  PROVE  Keeps(Outcome("{"), r)
<1>1. PICK p : p = Append(ref.open, [kind |-> "obj", name |-> NULL, index |-> -1])
  OBVIOUS
<1>2. FedTo(r, p, "name", ref.nodes)
  <2>1. r = [ref EXCEPT !.open = Append(@, [kind |-> "obj", name |-> NULL, index |-> -1]),
                        !.want = "name"]
    BY TokensAssumption DEF RefFeed, OneChar, Space, ValueWanted, InObject, InArray
  <2>2. r = [ref EXCEPT !.open = p, !.want = "name"]
    BY <1>1, <2>1
  <2>3. DOMAIN ref = RefFields
    BY DEF AtWork
  <2>4. QED
    BY <2>2, <2>3 DEF FedTo, RefFields
<1>3. PICK m, f : m = Len(stack) /\ f = [Top EXCEPT !.name = TRUE, !.isobj = TRUE]
  OBVIOUS
<1>4. ref.want = "value" /\ Match(ref.open, "value", stack, list, list_c)
  BY DEF AtWork, ValueWanted
<1>5. Outcome("{") = AnOutcome(Append(Front(stack), f), list, list_c, ref.nodes, ec)
  <2>1. Outcome("{") = BeginObject
    BY TokensAssumption DEF Outcome, OneChar, Space
  <2>2. ValueExpected
    BY <1>4, WorkFacts DEF ValueExpected
  <2>3. BeginObject = SetTop(f)
    BY <1>3, <2>2 DEF BeginObject
  <2>4. QED
    BY <2>1, <2>3, SetTopIs DEF AtWork
<1>6. Match(p, "name", Append(Front(stack), f), list, list_c)
  <2>1. f = [stack[m] EXCEPT !.name = TRUE, !.isobj = TRUE]
    BY <1>3, WorkFacts
  <2>2. QED
    BY <1>1, <1>3, <1>4, <2>1, MatchObject
<1>7. QED
  BY <1>2, <1>5, <1>6, KeepsOn

(* The beginning of an array.                                              *)
LEMMA ArrayKeeps ==
  ASSUME AtWork, ValueWanted, InObject, NEW r, r = RefFeed("["), r.ok, ~r.odd
  PROVE  Keeps(Outcome("["), r)
<1>1. PICK p : p = Append(ref.open, [kind |-> "arr", name |-> NULL, index |-> 0])
  OBVIOUS
<1>2. FedTo(r, p, "value", ref.nodes)
  <2>1. r = [ref EXCEPT !.open = Append(@, [kind |-> "arr", name |-> NULL, index |-> 0])]
    BY TokensAssumption DEF RefFeed, OneChar, Space, ValueWanted, InObject, InArray
  <2>2. r = [ref EXCEPT !.open = p]
    BY <1>1, <2>1
  <2>3. DOMAIN ref = RefFields /\ ref.want = "value"
    BY DEF AtWork, ValueWanted
  <2>4. QED
    BY <2>2, <2>3 DEF FedTo, RefFields
<1>3. PICK m, f : m = Len(stack) /\ f = [Top EXCEPT !.isarr = TRUE]
  OBVIOUS
<1>4. PICK s, k : s = Append(Front(stack), f) /\ k = [list EXCEPT ![list_c - 1].index = @ + 1]
  OBVIOUS
<1>5. ref.want = "value" /\ Match(ref.open, "value", stack, list, list_c)
  BY DEF AtWork, ValueWanted
<1>6. Outcome("[") = Call(AnOutcome(s, k, list_c - 1, nodes, ec), "[")
  <2>1. Outcome("[") = BeginArray
    BY TokensAssumption DEF Outcome, OneChar, Space
  <2>2. ValueExpected
    BY <1>5, WorkFacts DEF ValueExpected
  <2>3. BeginArray = Call([SetTop(f) EXCEPT !.list_c = @ - 1, !.list = NextIndex(list_c - 1)], "[")
    BY <1>3, <2>2 DEF BeginArray
  <2>4. [SetTop(f) EXCEPT !.list_c = @ - 1, !.list = NextIndex(list_c - 1)]
        = AnOutcome(s, NextIndex(list_c - 1), list_c - 1, nodes, ec)
    BY <1>4, CountedIs
  <2>5. NextIndex(list_c - 1) = k
    BY <1>4 DEF NextIndex
  <2>6. QED
    BY <2>1, <2>3, <2>4, <2>5
<1>7. list_c - 1 \in Int /\ (list_c - 1) + 1 = list_c
  <2>1. PICK n : n = Len(ref.open)
    OBVIOUS
  <2>2. list_c \in 0 .. MaxNested - 2
    BY <1>5, <2>1, MatchFacts
  <2>3. QED
    BY <2>2, MaxNestedAssumption
<1>8. CASE Outcome("[").ec = "error"
  BY <1>2, <1>8 DEF Keeps, FedTo
<1>9. CASE Outcome("[").ec # "error"
  <2>1. PICK a : a = [Frame EXCEPT !.by = "["]
    OBVIOUS
  <2>2. PICK d : d = list_c - 1
    OBVIOUS
  <2>3. Outcome("[") = AnOutcome(Append(s, a), k, d + 1, nodes, ec)
    BY <1>6, <1>7, <1>9, <2>1, <2>2, CallIs
  <2>4. f = [stack[m] EXCEPT !.isarr = TRUE]
    BY <1>3, WorkFacts
  <2>5. ref.open # <<>> /\ ref.open[Len(ref.open)].kind = "obj"
    BY DEF InObject, RefTop, Last
  <2>6. Match(p, "value", Append(s, a), k, list_c)
    BY <1>1, <1>3, <1>4, <1>5, <2>1, <2>4, <2>5, MatchArray
  <2>7. Outcome("[") = AnOutcome(Append(s, a), k, list_c, ref.nodes, ec)
    BY <1>7, <2>2, <2>3 DEF AtWork
  <2>8. QED
    BY <1>2, <2>6, <2>7, KeepsOn
<1>10. QED
  BY <1>8, <1>9

\* The token that ends an object.
IsEnd(tok) == tok = "}"

(* The end of an object.                                                   *)
LEMMA EndObjectKeeps ==
  ASSUME AtWork, ref.want = "comma", InObject, NEW tok, IsEnd(tok),
         NEW r, r = RefFeed(tok), r.ok, ~r.odd
  PROVE  Keeps(Outcome(tok), r)
<1>1. PICK n, w : n = Len(ref.open) /\ w = IF n = 1 THEN "end" ELSE "comma"
  OBVIOUS
<1>2. FedTo(r, Front(ref.open), w, ref.nodes)
  <2>1. r = Closed(ref)
    BY TokensAssumption DEF IsEnd, RefFeed, OneChar, Space, ValueWanted, InObject, InArray
  <2>2. r = [ref EXCEPT !.open = Front(@), !.want = w]
    BY <1>1, <2>1 DEF Closed
  <2>3. DOMAIN ref = RefFields
    BY DEF AtWork
  <2>4. QED
    BY <2>2, <2>3 DEF FedTo, RefFields
<1>3. Match(ref.open, "comma", stack, list, list_c) /\ ref.open[n].kind = "obj"
  BY <1>1 DEF AtWork, InObject, RefTop, Last
<1>4. Outcome(tok) = AnOutcome(Left(stack), list, list_c - 1, ref.nodes, ec)
  <2>1. Outcome(tok) = EndObject
    BY TokensAssumption DEF IsEnd, Outcome, OneChar, Space
  <2>2. ~Top.name /\ ~Top.colon /\ ~Top.arr
    BY WorkFacts DEF InObject
  <2>3. EndObject = Return([Now EXCEPT !.list_c = @ - 1])
    BY <2>2 DEF EndObject
  <2>4. [Now EXCEPT !.list_c = @ - 1] = AnOutcome(stack, list, list_c - 1, nodes, ec)
    <3>1. Now.list_c = list_c /\ Now = AnOutcome(stack, list, list_c, nodes, ec)
      BY NowFacts, SetTopIs DEF Now
    <3>2. PICK d : d = list_c - 1
      OBVIOUS
    <3>3. [Now EXCEPT !.list_c = d] = AnOutcome(stack, list, d, nodes, ec)
      BY <3>1 DEF AnOutcome
    <3>4. QED
      BY <3>1, <3>2, <3>3
  <2>5. QED
    BY <2>1, <2>3, <2>4, ReturnIs DEF AtWork
<1>5. /\ n \in Nat \ {0} /\ ref.open \in Seq(Opens)
  <2>1. PICK want : want = "comma"
    OBVIOUS
  <2>2. Match(ref.open, want, stack, list, list_c) /\ want # "value"
    BY <1>3, <2>1
  <2>3. QED
    BY <1>1, <2>2, InsideFacts
<1>6. CASE n = 1
  <2>1. Left(stack) = <<>> /\ w = "end"
    BY <1>1, <1>3, <1>6, MatchEndObject
  <2>2. Front(ref.open) = <<>>
    <3>1. PICK open : open = ref.open
      OBVIOUS
    <3>2. open \in Seq(Opens) /\ Len(open) = 1
      BY <1>1, <1>5, <1>6, <3>1
    <3>3. open # <<>>
      BY <3>2
    <3>4. Front(open) \in Seq(Opens) /\ Len(Front(open)) = Len(open) - 1
      BY <3>2, <3>3, FrontFacts
    <3>5. Len(Front(open)) = 0
      BY <3>2, <3>4
    <3>6. QED
      BY <3>1, <3>4, <3>5, EmptySeq
  <2>3. Outcome(tok) = AnOutcome(<<>>, list, list_c - 1, ref.nodes, ec)
    BY <1>4, <2>1
  <2>4. QED
    BY <1>2, <2>1, <2>2, <2>3, KeepsEnd
<1>7. CASE n # 1
  <2>1. n > 1 /\ w = "comma"
    <3>1. n > 1
      BY <1>5, <1>7
    <3>2. QED
      BY <1>1, <1>7, <3>1
  <2>2. Match(Front(ref.open), "comma", Left(stack), list, list_c - 1)
    BY <1>1, <1>3, <2>1, MatchEndObject
  <2>3. QED
    BY <1>2, <1>4, <2>1, <2>2, KeepsOn
<1>8. QED
  BY <1>6, <1>7

(* The end of an array.                                                    *)
LEMMA EndArrayKeeps ==
  ASSUME AtWork, ref.want = "comma", InArray, NEW r, r = RefFeed("]"), r.ok, ~r.odd
  PROVE  Keeps(Outcome("]"), r)
<1>1. PICK n, k : n = Len(ref.open) /\ k = [list EXCEPT ![list_c].index = -1]
  OBVIOUS
<1>2. Match(ref.open, "comma", stack, list, list_c) /\ ref.open[n].kind = "arr"
  BY <1>1 DEF AtWork, InArray, RefTop, Last
<1>3. n > 1 /\ Match(Front(ref.open), "comma", Left(stack), k, list_c)
  BY <1>1, <1>2, MatchEndArray
<1>4. FedTo(r, Front(ref.open), "comma", ref.nodes)
  <2>1. r = Closed(ref)
    BY TokensAssumption DEF RefFeed, OneChar, Space, ValueWanted, InObject, InArray
  <2>2. n # 1
    BY <1>3
  <2>3. r = [ref EXCEPT !.open = Front(@), !.want = "comma"]
    BY <1>1, <2>1, <2>2 DEF Closed
  <2>4. DOMAIN ref = RefFields
    BY DEF AtWork
  <2>5. QED
    BY <2>3, <2>4 DEF FedTo, RefFields
<1>5. Outcome("]") = AnOutcome(Left(stack), k, list_c, ref.nodes, ec)
  <2>1. Outcome("]") = EndArray
    BY TokensAssumption DEF Outcome, OneChar, Space
  <2>2. ~Top.name /\ ~Top.colon /\ ~Top.obj
    BY WorkFacts DEF InArray
  <2>3. EndArray = Return([Now EXCEPT !.list[list_c].index = -1])
    BY <2>2 DEF EndArray
  <2>4. [Now EXCEPT !.list[list_c].index = -1] = AnOutcome(stack, k, list_c, nodes, ec)
    BY <1>1 DEF Now, AnOutcome
  <2>5. QED
    BY <2>1, <2>3, <2>4, ReturnIs DEF AtWork
<1>6. QED
  BY <1>3, <1>4, <1>5, KeepsOn

-----------------------------------------------------------------------------
(* The steps                                                               *)

\* The reference is well formed; a document that was refused or odd is so still.
Stays(r) ==
    /\ DOMAIN r = RefFields
    /\ r.ok => ref.ok
    /\ ~r.odd => ~ref.odd

(* The token goes by one arm of RefFeed, or is refused.                    *)
LEMMA TokenArms ==
  ASSUME NEW tok \in Tokens
  PROVE  \/ tok = Space
         \/ tok \in Strings /\ ref.want = "name"
         \/ tok \in Strings \cup Literal /\ ValueWanted
         \/ tok = ":" /\ ref.want = "colon"
         \/ IsComma(tok) /\ ref.want = "comma" /\ InObject
         \/ IsComma(tok) /\ ref.want = "comma" /\ InArray
         \/ tok = "{" /\ ValueWanted
         \/ tok = "[" /\ ValueWanted /\ InObject
         \/ IsEnd(tok) /\ ref.want = "comma" /\ InObject
         \/ tok = "]" /\ ref.want = "comma" /\ InArray
         \/ RefFeed(tok) = Refused
BY DEF RefFeed, IsComma, IsEnd

(* What each arm leaves of the reference.                                  *)
LEMMA RefStays ==
  ASSUME DOMAIN ref = RefFields, NEW tok \in Tokens
  PROVE  Stays(RefFeed(tok))
<1>1. CASE tok = Space
  <2>1. RefFeed(tok) = [ref EXCEPT !.odd = @ \/ (ref.want = "end" /\ last \in Literal)]
    BY <1>1, TokensAssumption DEF RefFeed, OneChar, Space, ValueWanted, InObject, InArray
  <2>2. QED
    BY <2>1 DEF Stays, RefFields
<1>2. CASE tok \in Strings /\ ref.want = "name"
  <2>1. RefFeed(tok) = [ref EXCEPT !.open[Len(ref.open)].name = tok, !.want = "colon",
                                   !.odd = @ \/ tok \in Escaped]
    BY <1>2, TokensAssumption DEF RefFeed, OneChar, Space, ValueWanted, InObject, InArray
  <2>2. QED
    BY <2>1 DEF Stays, RefFields
<1>3. CASE tok \in Strings \cup Literal /\ ValueWanted
  <2>1. RefFeed(tok) = [ref EXCEPT !.nodes = Append(@, [name |-> RefName, value |-> tok]),
                                   !.want = IF ref.open = <<>> THEN "end" ELSE "comma"]
    BY <1>3, TokensAssumption DEF RefFeed, OneChar, Space, ValueWanted, InObject, InArray
  <2>2. QED
    BY <2>1 DEF Stays, RefFields
<1>4. CASE tok = ":" /\ ref.want = "colon"
  <2>1. RefFeed(tok) = [ref EXCEPT !.want = "value"]
    BY <1>4, TokensAssumption DEF RefFeed, OneChar, Space, ValueWanted, InObject, InArray
  <2>2. QED
    BY <2>1 DEF Stays, RefFields
<1>5. CASE IsComma(tok) /\ ref.want = "comma" /\ InObject
  <2>1. RefFeed(tok) = [ref EXCEPT !.want = "name"]
    BY <1>5, TokensAssumption DEF IsComma, RefFeed, OneChar, Space, ValueWanted, InObject, InArray
  <2>2. QED
    BY <2>1 DEF Stays, RefFields
<1>6. CASE IsComma(tok) /\ ref.want = "comma" /\ InArray
  <2>1. RefFeed(tok) = [ref EXCEPT !.want = "value", !.open[Len(ref.open)].index = @ + 1]
    BY <1>6, TokensAssumption DEF IsComma, RefFeed, OneChar, Space, ValueWanted, InObject, InArray
  <2>2. QED
    BY <2>1 DEF Stays, RefFields
<1>7. CASE tok = "{" /\ ValueWanted
  <2>1. RefFeed(tok) = [ref EXCEPT !.open = Append(@, [kind |-> "obj", name |-> NULL, index |-> -1]),
                                   !.want = "name"]
    BY <1>7, TokensAssumption DEF RefFeed, OneChar, Space, ValueWanted, InObject, InArray
  <2>2. QED
    BY <2>1 DEF Stays, RefFields
<1>8. CASE tok = "[" /\ ValueWanted /\ InObject
  <2>1. RefFeed(tok) = [ref EXCEPT !.open = Append(@, [kind |-> "arr", name |-> NULL, index |-> 0])]
    BY <1>8, TokensAssumption DEF RefFeed, OneChar, Space, ValueWanted, InObject, InArray
  <2>2. QED
    BY <2>1 DEF Stays, RefFields
<1>9. CASE IsEnd(tok) /\ ref.want = "comma" /\ InObject
  <2>1. RefFeed(tok) = [ref EXCEPT !.open = Front(@), !.want = IF Len(ref.open) = 1 THEN "end" ELSE "comma"]
    BY <1>9, TokensAssumption DEF IsEnd, RefFeed, OneChar, Space, ValueWanted, InObject, InArray, Closed
  <2>2. QED
    BY <2>1 DEF Stays, RefFields
<1>10. CASE tok = "]" /\ ref.want = "comma" /\ InArray
  <2>1. RefFeed(tok) = [ref EXCEPT !.open = Front(@), !.want = IF Len(ref.open) = 1 THEN "end" ELSE "comma"]
    BY <1>10, TokensAssumption DEF RefFeed, OneChar, Space, ValueWanted, InObject, InArray, Closed
  <2>2. QED
    BY <2>1 DEF Stays, RefFields
<1>11. CASE RefFeed(tok) = Refused
  BY <1>11 DEF Refused, Stays, RefFields
<1>12. QED
  BY <1>1, <1>2, <1>3, <1>4, <1>5, <1>6, <1>7, <1>8, <1>9, <1>10, <1>11, TokenArms

(* Behind the end, all but white space is refused.                         *)
LEMMA EndRefuses ==
  ASSUME ref.want = "end", NEW tok \in Tokens, tok # Space
  PROVE  RefFeed(tok) = Refused
BY DEF RefFeed, ValueWanted

(* The step of the parser goes with that of the grammar.                   *)
LEMMA TokenKeeps ==
  ASSUME AtWork, NEW tok \in Tokens, NEW r, r = RefFeed(tok), r.ok, ~r.odd
  PROVE  Keeps(Outcome(tok), r)
<1>1. CASE tok = Space
  BY <1>1, SpaceKeeps
<1>2. CASE tok \in Strings /\ ref.want = "name"
  BY <1>2, NameKeeps
<1>3. CASE tok \in Strings \cup Literal /\ ValueWanted
  BY <1>3, ValueKeeps
<1>4. CASE tok = ":" /\ ref.want = "colon"
  BY <1>4, ColonKeeps
<1>5. CASE IsComma(tok) /\ ref.want = "comma" /\ InObject
  BY <1>5, MemberKeeps DEF IsComma
<1>6. CASE IsComma(tok) /\ ref.want = "comma" /\ InArray
  BY <1>6, ElementKeeps
<1>7. CASE tok = "{" /\ ValueWanted
  BY <1>7, ObjectKeeps
<1>8. CASE tok = "[" /\ ValueWanted /\ InObject
  BY <1>8, ArrayKeeps
<1>9. CASE IsEnd(tok) /\ ref.want = "comma" /\ InObject
  BY <1>9, EndObjectKeeps
<1>10. CASE tok = "]" /\ ref.want = "comma" /\ InArray
  BY <1>10, EndArrayKeeps
<1>11. CASE RefFeed(tok) = Refused
  BY <1>11 DEF AtWork, Refused, RefFields
<1>12. QED
  BY <1>1, <1>2, <1>3, <1>4, <1>5, <1>6, <1>7, <1>8, <1>9, <1>10, <1>11, TokenArms

\* The inductive invariant of Flattened.
RInv == DOMAIN ref = RefFields /\ Follows

(* A document begins.                                                      *)
LEMMA MatchBegins == Match(<<>>, "value", <<Frame>>, NewList, 0)
<1>1. PICK open, want, s : open = <<>> /\ want = "value" /\ s = <<Frame>>
  OBVIOUS
<1>2. open \in Seq(Opens) /\ Len(open) = 0
  BY <1>1
<1>3. Level(open, 0) = 0
  BY <1>2, LevelFacts
<1>4. OpenOK(open, want)
  BY <1>1, <1>2, <1>3 DEF OpenOK, Wants
<1>5. StackOK(open, want, s)
  <2>1. s \in Seq(Frames) /\ Len(s) = 1 /\ s[1] = Frame
    BY <1>1 DEF Frame, Frames
  <2>2. FrameFor(open, want, 1, Frame)
    BY <1>1, <1>2 DEF FrameFor, Frame, Frames
  <2>3. QED
    BY <1>1, <1>2, <2>1, <2>2 DEF StackOK
<1>6. ListOK(open, want, NewList)
  BY <1>2, <1>3 DEF ListOK, NewList, Lists
<1>7. Match(open, want, s, NewList, 0)
  BY <1>1, <1>2, <1>3, <1>4, <1>5, <1>6, MaxNestedAssumption DEF Match
<1>8. QED
  BY <1>1, <1>7

(* NewJson.                                                                *)
LEMMA NewJsonFollows ==
  ASSUME RInv, NewJson
  PROVE  RInv'
<1>1. /\ phase' = "parse" /\ stack' = <<Frame>> /\ list' = NewList /\ list_c' = 0
      /\ nodes' = <<>> /\ ec' = "ok" /\ ref' = NewRef /\ fresh' = (nulled = NULL)
      /\ nulled' = nulled
  BY DEF NewJson
<1>2. /\ DOMAIN NewRef = RefFields
      /\ NewRef.open = <<>> /\ NewRef.want = "value" /\ NewRef.nodes = <<>>
  BY DEF NewRef, RefFields
<1>3. QED
  BY <1>1, <1>2, MatchBegins DEF RInv, Follows

(* Parse.                                                                  *)
LEMMA ParseFollows ==
  ASSUME RInv, NEW tok \in Tokens, Parse(tok)
  PROVE  RInv'
<1>1. /\ phase = "parse" /\ ref' = RefFeed(tok) /\ fresh' = fresh /\ nulled' = NULL
      /\ Assign(IF nulled # NULL /\ tok \notin OneChar THEN Error ELSE Outcome(Seen(tok)))
  BY DEF Parse, Read
<1>2. PICK r : r = RefFeed(tok)
  OBVIOUS
<1>3. Stays(r)
  BY <1>2, RefStays DEF RInv
<1>4. DOMAIN ref' = RefFields
  BY <1>1, <1>2, <1>3 DEF Stays
<1>5. CASE r.ok /\ ~r.odd /\ fresh
  <2>1. AtWork /\ nulled = NULL
    BY <1>1, <1>3, <1>5 DEF Stays, RInv, Follows, AtWork
  <2>2. PICK o : o = Outcome(tok)
    OBVIOUS
  <2>3. Assign(o)
    BY <1>1, <2>1, <2>2 DEF Seen
  <2>4. Keeps(o, r)
    BY <1>2, <1>5, <2>1, <2>2, TokenKeeps
  <2>5. /\ stack' = o.stack /\ list' = o.list /\ list_c' = o.list_c
        /\ nodes' = o.nodes /\ ec' = o.ec
        /\ phase' = IF o.ec = "error" THEN "done"
                    ELSE IF o.stack = <<>> THEN "tail" ELSE "parse"
    BY <2>3 DEF Assign
  <2>6. CASE o.ec = "error" /\ r.want # "end"
    BY <1>1, <1>2, <1>4, <2>5, <2>6 DEF RInv, Follows
  <2>7. CASE /\ o.ec = "ok" /\ o.nodes = r.nodes
             /\ o.stack # <<>> /\ Match(r.open, r.want, o.stack, o.list, o.list_c)
    BY <1>1, <1>2, <1>4, <2>5, <2>7 DEF RInv, Follows
  <2>8. CASE /\ o.ec = "ok" /\ o.nodes = r.nodes
             /\ o.stack = <<>> /\ r.open = <<>> /\ r.want = "end"
    BY <1>1, <1>2, <1>4, <2>5, <2>8 DEF RInv, Follows
  <2>9. QED
    BY <2>4, <2>6, <2>7, <2>8 DEF Keeps
<1>6. CASE ~(r.ok /\ ~r.odd /\ fresh)
  BY <1>1, <1>2, <1>4, <1>6 DEF RInv, Follows
<1>7. QED
  BY <1>5, <1>6

(* Interrupt.                                                              *)
LEMMA InterruptFollows ==
  ASSUME RInv, NEW tok \in Tokens, Interrupt(tok)
  PROVE  RInv'
<1>1. ref' = Refused
  BY DEF Interrupt
<1>2. DOMAIN Refused = RefFields /\ ~Refused.ok
  BY DEF RInv, Refused, RefFields
<1>3. QED
  BY <1>1, <1>2 DEF RInv, Follows

(* Trail.                                                                  *)
LEMMA TrailFollows ==
  ASSUME RInv, NEW tok \in Tokens, Trail(tok)
  PROVE  RInv'
<1>1. /\ phase = "tail" /\ ref' = RefFeed(tok) /\ fresh' = fresh /\ last' = tok
      /\ IF Skipped(tok) THEN phase' = phase /\ ec' = ec ELSE phase' = "done" /\ ec' = "error"
      /\ nulled' = IF last \in Literal THEN tok ELSE nulled
      /\ nodes' = nodes
  BY DEF Trail, Read
<1>2. PICK r : r = RefFeed(tok)
  OBVIOUS
<1>3. Stays(r)
  BY <1>2, RefStays DEF RInv
<1>4. DOMAIN ref' = RefFields
  BY <1>1, <1>2, <1>3 DEF Stays
<1>5. CASE r.ok /\ ~r.odd /\ fresh
  <2>1. /\ nulled = NULL /\ ec = "ok" /\ nodes = ref.nodes
        /\ ref.open = <<>> /\ ref.want = "end"
    BY <1>1, <1>3, <1>5 DEF Stays, RInv, Follows
  <2>2. tok = Space
    <3>1. ~Refused.ok
      BY DEF RInv, Refused, RefFields
    <3>2. QED
      BY <1>2, <1>5, <2>1, <3>1, EndRefuses
  <2>3. r = [ref EXCEPT !.odd = @ \/ (ref.want = "end" /\ last \in Literal)]
    BY <1>2, <2>2, TokensAssumption
       DEF RefFeed, OneChar, Space, ValueWanted, InObject, InArray
  <2>4. /\ r.open = ref.open /\ r.want = ref.want /\ r.nodes = ref.nodes
        /\ last \notin Literal
    BY <1>5, <2>1, <2>3 DEF RInv, RefFields
  <2>5. Skipped(tok)
    BY <2>2, <2>4 DEF Skipped
  <2>6. QED
    BY <1>1, <1>2, <1>4, <2>1, <2>4, <2>5 DEF RInv, Follows
<1>6. CASE ~(r.ok /\ ~r.odd /\ fresh)
  BY <1>1, <1>2, <1>4, <1>6 DEF RInv, Follows
<1>7. QED
  BY <1>5, <1>6

(* EndDocument.                                                            *)
LEMMA EndDocumentFollows ==
  ASSUME RInv, EndDocument
  PROVE  RInv'
<1>1. /\ phase \in {"parse", "tail"} /\ phase' = "done"
      /\ nulled' \in IF last \in Literal THEN LeftOver \cup {NULL} ELSE {NULL}
      /\ ec' = ec /\ nodes' = nodes /\ ref' = ref /\ fresh' = fresh /\ last' = last
  BY DEF EndDocument
<1>2. CASE phase = "parse"
  <2>1. ref.ok /\ ~ref.odd /\ fresh => ref.want # "end"
    BY <1>2 DEF RInv, Follows, Match, OpenOK, Wants
  <2>2. QED
    BY <1>1, <1>2, <2>1 DEF RInv, Follows
<1>3. CASE phase = "tail"
  BY <1>1, <1>3 DEF RInv, Follows, ParsedRight
<1>4. QED
  BY <1>1, <1>2, <1>3

(* Every step keeps it.                                                    *)
LEMMA FollowsInductive == RInv /\ [Next]_vars => RInv'
<1> SUFFICES ASSUME RInv, [Next]_vars PROVE RInv'
  OBVIOUS
<1>1. CASE NewJson
  BY <1>1, NewJsonFollows
<1>2. ASSUME NEW tok \in Tokens, Parse(tok) PROVE RInv'
  BY <1>2, ParseFollows
<1>3. ASSUME NEW tok \in Tokens, Interrupt(tok) PROVE RInv'
  BY <1>3, InterruptFollows
<1>4. ASSUME NEW tok \in Tokens, Trail(tok) PROVE RInv'
  BY <1>4, TrailFollows
<1>5. CASE EndDocument
  BY <1>5, EndDocumentFollows
<1>6. CASE UNCHANGED vars
  BY <1>6 DEF vars, RInv, Follows, ParsedRight
<1>7. ASSUME NEW tok \in Tokens, BeginOutside(tok) PROVE RInv'
  <2>1. phase' = "undefined" /\ ref' = RefFeed(tok)
    BY <1>7 DEF BeginOutside, Read
  <2>2. DOMAIN ref' = RefFields
    BY <2>1, RefStays DEF RInv, Stays
  <2>3. QED
    BY <2>1, <2>2 DEF RInv, Follows
<1>8. QED
  BY <1>1, <1>2, <1>3, <1>4, <1>5, <1>6, <1>7 DEF Next

(* Flattened.                                                              *)
THEOREM TextIsFlattened == Spec => []Flattened
<1>1. Init => RInv
  BY DEF Init, NewRef, RInv, RefFields, Follows
<1>2. RInv => Flattened
  BY DEF RInv, Follows, Flattened, Complete, ParsedRight
<1>3. QED
  BY <1>1, <1>2, FollowsInductive, PTL DEF Spec

-----------------------------------------------------------------------------
(* VelyInput: sequences and searches                                       *)

(* A set of numbers that is not empty has a least one.                     *)
LEMMA LeastOf ==
  ASSUME NEW S, S \subseteq Nat, S # {}
  PROVE  \E m \in S : \A n \in S : m <= n
<1>1. PICK R : R = OpToRel(<, Nat)
  OBVIOUS
<1>2. IsWellFoundedOn(R, Nat)
  BY <1>1, NatLessThanWellFounded
<1>3. PICK m \in S : \A n \in S : ~(<<n, m>> \in R)
  BY <1>2, WFMin
<1>4. ASSUME NEW n \in S PROVE m <= n
  <2>1. m \in Nat /\ n \in Nat
    OBVIOUS
  <2>2. ~(<<n, m>> \in R)
    BY <1>3
  <2>3. ~(n < m)
    BY <1>1, <2>1, <2>2 DEF OpToRel
  <2>4. QED
    BY <2>1, <2>3
<1>5. QED
  BY <1>4

(* A set that has 0, and with each number the next one, has all up to N.   *)
LEMMA UpTo ==
  ASSUME NEW N \in Nat, NEW S, 0 \in S, \A n \in 0 .. N - 1 : n \in S => n + 1 \in S
  PROVE  0 .. N \subseteq S
<1>1. PICK T : T = {n \in 0 .. N : n \notin S}
  OBVIOUS
<1>2. SUFFICES ASSUME T # {} PROVE FALSE
  BY <1>1
<1>3. T \subseteq Nat
  BY <1>1
<1>4. PICK m \in T : \A n \in T : m <= n
  BY <1>2, <1>3, LeastOf
<1>5. m # 0 /\ m - 1 \in 0 .. N - 1
  BY <1>1, <1>4
<1>6. m - 1 \in S
  BY <1>1, <1>4, <1>5
<1>7. QED
  BY <1>1, <1>5, <1>6

\* The first of the places where a search may stop, 0 for none.
First(places) == IF places # {} THEN Min(places) ELSE 0

(* It is one of them, and none comes before it.                            *)
LEMMA FirstFacts ==
  ASSUME NEW S, S \subseteq Nat \ {0}
  PROVE  /\ First(S) = 0 <=> S = {}
         /\ S # {} => First(S) \in S /\ \A j \in S : First(S) <= j
<1>1. CASE S = {}
  BY <1>1 DEF First
<1>2. CASE S # {}
  <2>1. \E m \in S : \A n \in S : m <= n
    BY <1>2, LeastOf
  <2>2. Min(S) \in S /\ \A j \in S : Min(S) <= j
    BY <2>1 DEF Min
  <2>3. QED
    BY <1>2, <2>2 DEF First
<1>3. QED
  BY <1>1, <1>2

\* A sequence, whatever it has.
IsSeq(s) == \E S : s \in Seq(S)

(* A function of the first numbers is a sequence.                          *)
LEMMA SeqFrom ==
  ASSUME NEW T, NEW n \in Nat, NEW t \in [1 .. n -> T]
  PROVE  t \in Seq(T) /\ Len(t) = n
OBVIOUS

(* What a sequence is.                                                     *)
LEMMA IsSeqFacts ==
  ASSUME NEW s, IsSeq(s), NEW n, n = Len(s)
  PROVE  n \in Nat /\ DOMAIN s = 1 .. n
<1>1. PICK S : s \in Seq(S)
  BY DEF IsSeq
<1>2. QED
  BY <1>1, LenProperties

(* A sequence with one more.                                               *)
LEMMA IsSeqAppend ==
  ASSUME NEW s, IsSeq(s), NEW k, k = Len(s) + 1, NEW e, NEW t, t = Append(s, e)
  PROVE  /\ IsSeq(t) /\ Len(t) = k /\ k \in Nat \ {0}
         /\ k \in DOMAIN t /\ k \notin DOMAIN s
         /\ \A i : i \in DOMAIN t <=> i \in DOMAIN s \/ i = k
         /\ t[k] = e /\ \A i \in DOMAIN s : t[i] = s[i]
<1>1. PICK S : s \in Seq(S)
  BY DEF IsSeq
<1>2. PICK n : n = Len(s)
  OBVIOUS
<1>3. n \in Nat /\ k = n + 1 /\ DOMAIN s = 1 .. n
  BY <1>1, <1>2, LenProperties
<1>4. PICK T : T = S \cup {e}
  OBVIOUS
<1>5. s \in Seq(T) /\ e \in T
  BY <1>1, <1>4
<1>6. t \in Seq(T) /\ Len(t) = n + 1
  BY <1>2, <1>5
<1>7. t[n + 1] = e /\ \A i \in 1 .. n : t[i] = s[i]
  BY <1>2, <1>5, AppendProperties
<1>8. DOMAIN t = 1 .. n + 1
  BY <1>6, LenProperties
<1>9. QED
  BY <1>3, <1>6, <1>7, <1>8 DEF IsSeq

(* A sequence with another one at a place.                                 *)
LEMMA IsSeqExcept ==
  ASSUME NEW s, IsSeq(s), NEW k \in DOMAIN s, NEW e, NEW t, t = [s EXCEPT ![k] = e]
  PROVE  /\ IsSeq(t) /\ Len(t) = Len(s) /\ DOMAIN t = DOMAIN s
         /\ t[k] = e /\ \A i \in DOMAIN s : i # k => t[i] = s[i]
<1>1. PICK S, n : s \in Seq(S) /\ n = Len(s)
  BY DEF IsSeq
<1>2. n \in Nat /\ DOMAIN s = 1 .. n /\ \A i \in 1 .. n : s[i] \in S
  BY <1>1, LenProperties
<1>3. PICK T : T = S \cup {e}
  OBVIOUS
<1>4. DOMAIN t = 1 .. n /\ t[k] = e /\ \A i \in 1 .. n : i # k => t[i] = s[i]
  BY <1>2
<1>5. t \in [1 .. n -> T]
  BY <1>2, <1>3, <1>4
<1>6. t \in Seq(T) /\ Len(t) = n
  BY <1>2, <1>5, SeqFrom
<1>7. QED
  BY <1>1, <1>2, <1>4, <1>6 DEF IsSeq
-----------------------------------------------------------------------------
(* Cookies                                                                 *)

\* The cookies of a name in the array c.
Cookies(c, n) == {i \in DOMAIN c : c[i].name = n}

\* The array c has what was asked for of n: the program's cookie, in the place
\* that a search finds, or none of the program's.
Intended(c, n, asked) ==
    LET i == First(Cookies(c, n))
    IN IF asked = NoCookie THEN \A j \in Cookies(c, n) : ~c[j].by_program
       ELSE /\ i \in DOMAIN c /\ c[i] = ByProgram(n, asked)
            /\ \A j \in Cookies(c, n) : c[j].by_program => j = i

(* Where a cookie is.                                                      *)
LEMMA FindCookieIs ==
  ASSUME IsSeq(req.cookies), NEW n
  PROVE  FindCookie(n) = First(Cookies(req.cookies, n))
<1>1. DOMAIN req.cookies = 1 .. Len(req.cookies)
  BY IsSeqFacts
<1>2. QED
  BY <1>1 DEF FindCookie, SelectInSeq, First, Cookies

(* Cookies of a name are at places of the array.                           *)
LEMMA CookiesFacts ==
  ASSUME NEW c, IsSeq(c), NEW n
  PROVE  /\ Cookies(c, n) \subseteq Nat \ {0}
         /\ First(Cookies(c, n)) = 0 <=> Cookies(c, n) = {}
         /\ Cookies(c, n) # {} => First(Cookies(c, n)) \in Cookies(c, n)
<1>1. Cookies(c, n) \subseteq Nat \ {0}
  <2>1. PICK z : z = Len(c)
    OBVIOUS
  <2>2. z \in Nat /\ DOMAIN c = 1 .. z
    BY <2>1, IsSeqFacts
  <2>3. QED
    BY <2>2 DEF Cookies
<1>2. QED
  BY <1>1, FirstFacts

(* set-cookie and delete-cookie put what is asked for into the array.      *)
LEMMA PlacedFacts ==
  ASSUME IsSeq(req.cookies), NEW n, NEW v, v # NoCookie, NEW c, c = Placed(n, v)
  PROVE  /\ IsSeq(c)
         /\ \A asked : Intended(req.cookies, n, asked) => Intended(c, n, v)
         /\ \A m, asked : m # n /\ Intended(req.cookies, m, asked) => Intended(c, m, asked)
<1>1. PICK a, i, e : /\ a = req.cookies /\ i = First(Cookies(a, n))
                     /\ e = ByProgram(n, v)
  OBVIOUS
<1>2. IsSeq(a) /\ c = IF i = 0 THEN Append(a, e) ELSE [a EXCEPT ![i] = e]
  <2>1. IsSeq(a) /\ FindCookie(n) = i
    BY <1>1, FindCookieIs
  <2>2. QED
    BY <1>1, <2>1 DEF Placed
<1>3. e.name = n /\ e.by_program
  BY <1>1 DEF ByProgram
<1>4. CASE i = 0
  <2>1. PICK k : k = Len(a) + 1
    OBVIOUS
  <2>2. c = Append(a, e)
    BY <1>2, <1>4
  <2>3. /\ IsSeq(c) /\ k \in DOMAIN c /\ k \notin DOMAIN a
        /\ (\A j : j \in DOMAIN c <=> j \in DOMAIN a \/ j = k)
        /\ c[k] = e /\ \A j \in DOMAIN a : c[j] = a[j]
    <3>1. IsSeq(a)
      BY <1>2
    <3>2. IsSeq(c)
      BY <2>1, <2>2, <3>1, IsSeqAppend
    <3>3. k \in DOMAIN c /\ k \notin DOMAIN a
      BY <2>1, <2>2, <3>1, IsSeqAppend
    <3>4. \A j : j \in DOMAIN c <=> j \in DOMAIN a \/ j = k
      BY <2>1, <2>2, <3>1, IsSeqAppend
    <3>5. c[k] = e
      BY <2>1, <2>2, <3>1, IsSeqAppend
    <3>6. \A j \in DOMAIN a : c[j] = a[j]
      BY <2>1, <2>2, <3>1, IsSeqAppend
    <3>7. QED
      BY <3>2, <3>3, <3>4, <3>5, <3>6
  <2>4. Cookies(a, n) = {}
    BY <1>1, <1>2, <1>4, CookiesFacts
  <2>5. Cookies(c, n) = {k}
    BY <1>3, <2>3, <2>4 DEF Cookies
  <2>6. First(Cookies(c, n)) = k
    <3>1. First(Cookies(c, n)) \in Cookies(c, n)
      BY <2>3, <2>5, CookiesFacts
    <3>2. QED
      BY <2>5, <3>1
  <2>7. Intended(c, n, v)
    BY <1>1, <2>3, <2>5, <2>6 DEF Intended
  <2>8. ASSUME NEW m, m # n, NEW asked, Intended(a, m, asked) PROVE Intended(c, m, asked)
    <3>1. Cookies(c, m) = Cookies(a, m)
      BY <1>3, <2>3, <2>8 DEF Cookies
    <3>2. Cookies(a, m) \subseteq DOMAIN a
      BY DEF Cookies
    <3>3. QED
      BY <2>3, <2>8, <3>1, <3>2 DEF Intended
  <2>9. QED
    BY <1>1, <2>3, <2>7, <2>8
<1>5. CASE i # 0
  <2>1. i \in Cookies(a, n)
    BY <1>1, <1>2, <1>5, CookiesFacts
  <2>2. i \in DOMAIN a /\ a[i].name = n
    BY <2>1 DEF Cookies
  <2>3. c = [a EXCEPT ![i] = e]
    BY <1>2, <1>5
  <2>4. IsSeq(c) /\ DOMAIN c = DOMAIN a
    <3>1. IsSeq(a) /\ i \in DOMAIN a
      BY <1>2, <2>2
    <3>2. QED
      BY <2>3, <3>1, IsSeqExcept
  <2>5. c[i] = e /\ \A j \in DOMAIN a : j # i => c[j] = a[j]
    BY <2>2, <2>3
  <2>6. \A m : Cookies(c, m) = Cookies(a, m)
    BY <1>3, <2>2, <2>4, <2>5 DEF Cookies
  <2>7. ASSUME NEW asked, Intended(a, n, asked) PROVE Intended(c, n, v)
    <3>1. \A j \in Cookies(a, n) : a[j].by_program => j = i
      BY <1>1, <2>7 DEF Intended
    <3>2. \A j \in Cookies(c, n) : c[j].by_program => j = i
      BY <2>5, <2>6, <3>1 DEF Cookies
    <3>3. First(Cookies(c, n)) = i
      BY <1>1, <2>6
    <3>4. QED
      BY <1>1, <2>2, <2>4, <2>5, <3>2, <3>3 DEF Intended
  <2>8. ASSUME NEW m, m # n, NEW asked, Intended(a, m, asked) PROVE Intended(c, m, asked)
    <3>1. \A j \in Cookies(a, m) : j # i
      BY <2>2, <2>8 DEF Cookies
    <3>2. \A j \in Cookies(a, m) : c[j] = a[j]
      BY <2>5, <3>1 DEF Cookies
    <3>3. First(Cookies(a, m)) # 0 => First(Cookies(a, m)) \in Cookies(a, m)
      BY <1>1, <1>2, CookiesFacts
    <3>4. 0 \notin DOMAIN a
      <4>1. PICK z : z = Len(a)
        OBVIOUS
      <4>2. z \in Nat /\ DOMAIN a = 1 .. z
        BY <1>2, <4>1, IsSeqFacts
      <4>3. QED
        BY <4>2
    <3>5. QED
      BY <2>4, <2>6, <2>8, <3>2, <3>3, <3>4 DEF Intended
  <2>9. QED
    BY <1>1, <2>4, <2>7, <2>8
<1>6. QED
  BY <1>4, <1>5

\* What was asked for of each cookie is there until the header is sent, and
\* then the header has it.
CookiesKept ==
    /\ DOMAIN req = DOMAIN NoRequest
    /\ wanted \in [CookieNames -> {NoCookie, "new", "deleted"}]
    /\ \A n \in CookieNames \cap OddNames : wanted[n] = NoCookie
    /\ req.status = "none" => wanted = Nothing
    /\ req.status = "ok" =>
           /\ IsSeq(req.cookies)
           /\ ~req.data_was_output =>
                  \A n \in CookieNames : Intended(req.cookies, n, wanted[n])
    /\ CookiesSent

\* The lines of the header for a cookie.
Lines(h, n, asked) ==
    LET mine == {i \in DOMAIN h : h[i].name = n}
    IN IF asked = NoCookie THEN mine = {}
       ELSE \E i \in mine : mine = {i} /\ h[i].value = asked

(* The header has what was asked for when the array has.                   *)
LEMMA SetCookiesFacts ==
  ASSUME NEW c, NEW n, NEW asked, Intended(c, n, asked)
  PROVE  Lines(SetCookies(c), n, asked)
<1>1. PICK i, h : i = First(Cookies(c, n)) /\ h = SetCookies(c)
  OBVIOUS
<1>2. /\ \A j : j \in DOMAIN h <=> j \in DOMAIN c /\ c[j].by_program
      /\ \A j \in DOMAIN h : h[j] = c[j]
  BY <1>1 DEF SetCookies
<1>3. PICK mine : mine = {j \in DOMAIN h : h[j].name = n}
  OBVIOUS
<1>4. \A j : j \in mine <=> j \in Cookies(c, n) /\ c[j].by_program
  BY <1>2, <1>3 DEF Cookies
<1>5. CASE asked = NoCookie
  <2>1. \A j \in Cookies(c, n) : ~c[j].by_program
    BY <1>1, <1>5 DEF Intended
  <2>2. mine = {}
    BY <1>4, <2>1
  <2>3. QED
    BY <1>1, <1>3, <1>5, <2>2 DEF Lines
<1>6. CASE asked # NoCookie
  <2>1. /\ i \in DOMAIN c /\ c[i] = ByProgram(n, asked)
        /\ \A j \in Cookies(c, n) : c[j].by_program => j = i
    BY <1>1, <1>6 DEF Intended
  <2>2. c[i].name = n /\ c[i].value = asked /\ c[i].by_program
    BY <2>1 DEF ByProgram
  <2>3. i \in Cookies(c, n)
    BY <2>1, <2>2 DEF Cookies
  <2>4. i \in mine /\ mine = {i} /\ h[i].value = asked
    BY <1>2, <1>4, <2>1, <2>2, <2>3
  <2>5. QED
    BY <1>1, <1>3, <1>6, <2>4 DEF Lines
<1>7. QED
  BY <1>5, <1>6

(* What CookiesSent says, and of which requests.                           *)
LEMMA SentIs ==
  CookiesSent <=> (req.status \in {"ok", "error"} /\ req.data_was_output) =>
                      \A n \in CookieNames : Lines(sent, n, wanted[n])
BY DEF CookiesSent, Lines

(* A request as it is received.                                            *)
LEMMA InputCookies ==
  ASSUME NEW r \in Requests
  PROVE  /\ DOMAIN Input(r) = DOMAIN NoRequest
         /\ Input(r).status \in {"refused", "options", "undefined", "ok"}
         /\ Input(r).cookies = Received(r)
         /\ Input(r).status = "ok" => /\ Input(r).task = 0 /\ ~Input(r).data_was_output
                                      /\ Input(r).ipars
                                         = UrlParams(Cut(Url(r))) \o FromPath(ParamSegs(r))
<1>1. PICK new, ps : /\ new = [NoRequest EXCEPT !.cookies = Received(r)]
                     /\ ps = UrlParams(Cut(Url(r)))
  OBVIOUS
<1>2. /\ DOMAIN new = DOMAIN NoRequest /\ new.cookies = Received(r)
      /\ DOMAIN NoRequest = {"status", "ipars", "task", "name", "cookies", "data_was_output"}
      /\ new.task = 0 /\ new.data_was_output = FALSE
  BY <1>1 DEF NoRequest
<1>3. \/ Input(r) = [new EXCEPT !.status = "refused", !.data_was_output = TRUE]
      \/ Input(r) = [new EXCEPT !.status = "options", !.data_was_output = TRUE]
      \/ Input(r) = [new EXCEPT !.status = "undefined"]
      \/ Input(r) = [new EXCEPT !.status = "ok", !.name = ReqName(r, ps),
                                !.ipars = ps \o FromPath(ParamSegs(r))]
  BY <1>1 DEF Input
<1>4. QED
  BY <1>1, <1>2, <1>3

(* The cookies of the client are a sequence, none of them by the program.  *)
LEMMA ReceivedFacts ==
  ASSUME NEW r \in Requests
  PROVE  IsSeq(Received(r)) /\ \A n : Intended(Received(r), n, NoCookie)
<1>1. PICK k : k = Len(r.cookies)
  OBVIOUS
<1>2. k \in Nat
  BY <1>1, RequestsAssumption
<1>3. PICK c, S : c = Received(r) /\ S = {c[i] : i \in 1 .. k}
  OBVIOUS
<1>4. /\ DOMAIN c = 1 .. k /\ c \in [1 .. k -> S]
      /\ \A i \in 1 .. k : ~c[i].by_program
  BY <1>1, <1>3 DEF Received
<1>5. c \in Seq(S)
  BY <1>2, <1>4, SeqFrom
<1>6. QED
  BY <1>3, <1>4, <1>5 DEF IsSeq, Intended, Cookies

(* vely_get_input.                                                         *)
LEMMA GetInputCookies ==
  ASSUME CookiesKept, GetInput
  PROVE  CookiesKept'
<1>1. PICK r \in Requests : req' = Input(r)
  BY DEF GetInput
<1>2. /\ sent' = sent /\ wanted' = wanted /\ wanted = Nothing
      /\ wanted \in [CookieNames -> {NoCookie, "new", "deleted"}]
  BY DEF GetInput, CookiesKept
<1>3. /\ DOMAIN req' = DOMAIN NoRequest
      /\ req'.status \in {"refused", "options", "undefined", "ok"}
      /\ req'.cookies = Received(r)
      /\ req'.status = "ok" => ~req'.data_was_output
  BY <1>1, InputCookies
<1>4. CookiesSent'
  BY <1>3, SentIs DEF CookiesSent
<1>5. IsSeq(req'.cookies) /\ \A n \in CookieNames : Intended(req'.cookies, n, wanted'[n])
  BY <1>2, <1>3, ReceivedFacts DEF Nothing
<1>6. QED
  BY <1>2, <1>3, <1>4, <1>5 DEF CookiesKept

(* The statements on parameters.                                           *)
LEMMA ParamCookies ==
  ASSUME CookiesKept, sent' = sent, wanted' = wanted, NEW p, NEW i,
         req' = [req EXCEPT !.task = i, !.ipars = p]
  PROVE  CookiesKept'
<1>1. /\ DOMAIN req' = DOMAIN req /\ req'.status = req.status /\ req'.cookies = req.cookies
      /\ req'.data_was_output = req.data_was_output
  BY DEF CookiesKept, NoRequest
<1>2. QED
  BY <1>1 DEF CookiesKept, CookiesSent

(* A cookie changes in the array, and in what is wanted before the header. *)
LEMMA PlacedCookies ==
  ASSUME CookiesKept, req.status = "ok", sent' = sent, NEW n \in CookieNames,
         n \notin OddNames, NEW v \in {"new", "deleted"},
         req' = [req EXCEPT !.cookies = Placed(n, v)],
         wanted' = IF req.data_was_output THEN wanted ELSE [wanted EXCEPT ![n] = v]
  PROVE  CookiesKept'
<1>1. PICK c : c = Placed(n, v)
  OBVIOUS
<1>2. /\ DOMAIN req' = DOMAIN NoRequest /\ req'.status = "ok" /\ req'.cookies = c
      /\ req'.data_was_output = req.data_was_output
  BY <1>1 DEF CookiesKept, NoRequest
<1>3. v # NoCookie
  BY DEF NoCookie
<1>4. IsSeq(req.cookies)
  BY DEF CookiesKept
<1>5. /\ IsSeq(c)
      /\ \A asked : Intended(req.cookies, n, asked) => Intended(c, n, v)
      /\ \A m, asked : m # n /\ Intended(req.cookies, m, asked) => Intended(c, m, asked)
  BY <1>1, <1>3, <1>4, PlacedFacts
<1>6. /\ wanted \in [CookieNames -> {NoCookie, "new", "deleted"}]
      /\ \A m \in CookieNames \cap OddNames : wanted[m] = NoCookie
  BY DEF CookiesKept
<1>7. CASE req.data_was_output
  <2>1. wanted' = wanted
    BY <1>7
  <2>2. CookiesSent'
    BY <1>2, <1>7, <2>1 DEF CookiesKept, CookiesSent
  <2>3. QED
    BY <1>2, <1>5, <1>6, <1>7, <2>1, <2>2 DEF CookiesKept
<1>8. CASE ~req.data_was_output
  <2>1. /\ wanted' = [wanted EXCEPT ![n] = v]
        /\ wanted' \in [CookieNames -> {NoCookie, "new", "deleted"}]
        /\ \A m \in CookieNames \cap OddNames : wanted'[m] = NoCookie
    BY <1>6, <1>8
  <2>2. ASSUME NEW m \in CookieNames PROVE Intended(c, m, wanted'[m])
    <3>1. Intended(req.cookies, m, wanted[m])
      BY <1>8 DEF CookiesKept
    <3>2. wanted'[m] = IF m = n THEN v ELSE wanted[m]
      BY <1>6, <2>1
    <3>3. QED
      BY <1>5, <3>1, <3>2
  <2>3. CookiesSent'
    BY <1>2, <1>8 DEF CookiesSent
  <2>4. QED
    BY <1>2, <1>5, <2>1, <2>2, <2>3 DEF CookiesKept
<1>9. QED
  BY <1>7, <1>8

(* A cookie that is freed was not one of the program's.                    *)
LEMMA FreedFacts ==
  ASSUME IsSeq(req.cookies), NEW n, FindCookie(n) # 0, NEW c, c = Freed(n)
  PROVE  /\ IsSeq(c)
         /\ Intended(req.cookies, n, NoCookie) => Intended(c, n, NoCookie)
         /\ \A m, asked : m # n /\ Intended(req.cookies, m, asked) => Intended(c, m, asked)
<1>1. PICK a, i : a = req.cookies /\ i = First(Cookies(a, n))
  OBVIOUS
<1>2. PICK e : e = [name |-> n, value |-> "freed", by_program |-> a[i].by_program]
  OBVIOUS
<1>3. IsSeq(a) /\ i # 0 /\ FindCookie(n) = i
  BY <1>1, FindCookieIs
<1>4. i \in Cookies(a, n)
  BY <1>1, <1>3, CookiesFacts
<1>5. i \in DOMAIN a /\ a[i].name = n
  BY <1>4 DEF Cookies
<1>6. c = [a EXCEPT ![i] = e]
  BY <1>1, <1>2, <1>3 DEF Freed
<1>7. IsSeq(c) /\ DOMAIN c = DOMAIN a
  <2>1. IsSeq(a) /\ i \in DOMAIN a
    BY <1>3, <1>5
  <2>2. QED
    BY <1>6, <2>1, IsSeqExcept
<1>8. c[i] = e /\ \A j \in DOMAIN a : j # i => c[j] = a[j]
  BY <1>5, <1>6
<1>9. e.name = n /\ e.by_program = a[i].by_program
  BY <1>2
<1>10. \A m : Cookies(c, m) = Cookies(a, m)
  BY <1>5, <1>7, <1>8, <1>9 DEF Cookies
<1>11. ASSUME Intended(a, n, NoCookie) PROVE Intended(c, n, NoCookie)
  <2>1. \A j \in Cookies(a, n) : ~a[j].by_program
    BY <1>11 DEF Intended
  <2>2. ~c[i].by_program
    BY <1>4, <1>8, <1>9, <2>1
  <2>3. ASSUME NEW j \in Cookies(c, n) PROVE ~c[j].by_program
    <3>1. j \in Cookies(a, n) /\ j \in DOMAIN a
      BY <1>7, <1>10, <2>3 DEF Cookies
    <3>2. QED
      BY <1>8, <2>1, <2>2, <3>1
  <2>4. QED
    BY <2>3 DEF Intended
<1>12. ASSUME NEW m, m # n, NEW asked, Intended(a, m, asked) PROVE Intended(c, m, asked)
  <2>1. \A j \in Cookies(a, m) : j # i /\ c[j] = a[j]
    BY <1>5, <1>8, <1>12 DEF Cookies
  <2>2. 0 \notin DOMAIN a
    <3>1. PICK z : z = Len(a)
      OBVIOUS
    <3>2. z \in Nat /\ DOMAIN a = 1 .. z
      BY <1>3, <3>1, IsSeqFacts
    <3>3. QED
      BY <3>2
  <2>3. First(Cookies(a, m)) # 0 => First(Cookies(a, m)) \in Cookies(a, m)
    BY <1>3, CookiesFacts
  <2>4. QED
    BY <1>7, <1>10, <1>12, <2>1, <2>2, <2>3 DEF Intended
<1>13. QED
  BY <1>1, <1>7, <1>11, <1>12

(* The header is sent, by the first output or by an error page, with the   *)
(* cookies c that are left.                                                *)
LEMMA HeaderCookies ==
  ASSUME CookiesKept, req.status = "ok", wanted' = wanted, NEW c, IsSeq(c),
         ~req.data_was_output => \A n \in CookieNames : Intended(c, n, wanted[n]),
         sent' = IF req.data_was_output THEN sent ELSE SetCookies(c),
         DOMAIN req' = DOMAIN req, req'.status \in {"ok", "error"},
         req'.cookies = c, req'.data_was_output
  PROVE  CookiesKept'
<1>1. ASSUME NEW n \in CookieNames PROVE Lines(sent', n, wanted'[n])
  <2>1. CASE req.data_was_output
    BY <2>1, SentIs DEF CookiesKept
  <2>2. CASE ~req.data_was_output
    <3>1. Intended(c, n, wanted[n])
      BY <2>2
    <3>2. sent' = SetCookies(c)
      BY <2>2
    <3>3. QED
      BY <3>1, <3>2, SetCookiesFacts
  <2>3. QED
    BY <2>1, <2>2
<1>2. CookiesSent'
  BY <1>1 DEF CookiesSent, Lines
<1>3. QED
  BY <1>2 DEF CookiesKept

(* set-cookie.                                                             *)
LEMMA SetCookieCookies ==
  ASSUME CookiesKept, NEW n \in CookieNames, NEW v \in {"new", "refused"}, SetCookie(n, v)
  PROVE  CookiesKept'
<1>1. req.status = "ok"
  BY DEF SetCookie, Statement
<1>2. PICK bad : bad = (\/ req.data_was_output
                        \/ n \in OddNames \/ v = "refused"
                        \/ FindCookie(n) = 0 /\ Len(req.cookies) + 1 >= MaxCookies)
  OBVIOUS
<1>3. CASE bad
  <2>1. /\ req' = ErrorOut /\ wanted' = wanted
        /\ sent' = IF req.data_was_output THEN sent ELSE SetCookies(req.cookies)
    BY <1>2, <1>3 DEF SetCookie
  <2>2. /\ DOMAIN req' = DOMAIN req /\ req'.status = "error"
        /\ req'.cookies = req.cookies /\ req'.data_was_output
    BY <2>1 DEF ErrorOut, CookiesKept, NoRequest
  <2>3. /\ IsSeq(req.cookies)
        /\ ~req.data_was_output => \A m \in CookieNames : Intended(req.cookies, m, wanted[m])
    BY <1>1 DEF CookiesKept
  <2>4. QED
    BY <1>1, <2>1, <2>2, <2>3, HeaderCookies
<1>4. CASE ~bad
  <2>1. /\ ~req.data_was_output /\ n \notin OddNames /\ v = "new"
        /\ req' = [req EXCEPT !.cookies = Placed(n, v)]
        /\ wanted' = [wanted EXCEPT ![n] = v] /\ sent' = sent
    BY <1>2, <1>4 DEF SetCookie
  <2>2. QED
    BY <1>1, <2>1, PlacedCookies
<1>5. QED
  BY <1>3, <1>4

(* delete-cookie.                                                          *)
LEMMA DeleteCookieCookies ==
  ASSUME CookiesKept, NEW n \in CookieNames, DeleteCookie(n)
  PROVE  CookiesKept'
<1>1. req.status = "ok" /\ FindCookie(n) # 0
  BY DEF DeleteCookie, Statement
<1>2. CASE n \in OddNames
  <2>1. PICK c : c = Freed(n)
    OBVIOUS
  <2>2. /\ req' = [ErrorOut EXCEPT !.cookies = c] /\ wanted' = wanted
        /\ sent' = IF req.data_was_output THEN sent ELSE SetCookies(c)
    BY <1>2, <2>1 DEF DeleteCookie
  <2>3. /\ DOMAIN req' = DOMAIN req /\ req'.status = "error"
        /\ req'.cookies = c /\ req'.data_was_output
    BY <2>2 DEF ErrorOut, CookiesKept, NoRequest
  <2>4. IsSeq(req.cookies) /\ wanted[n] = NoCookie
    BY <1>1, <1>2 DEF CookiesKept
  <2>5. /\ IsSeq(c)
        /\ Intended(req.cookies, n, NoCookie) => Intended(c, n, NoCookie)
        /\ \A m, asked : m # n /\ Intended(req.cookies, m, asked) => Intended(c, m, asked)
    BY <1>1, <2>1, <2>4, FreedFacts
  <2>6. ASSUME ~req.data_was_output, NEW m \in CookieNames PROVE Intended(c, m, wanted[m])
    <3>1. Intended(req.cookies, m, wanted[m])
      BY <1>1, <2>6 DEF CookiesKept
    <3>2. QED
      BY <2>4, <2>5, <3>1
  <2>7. QED
    BY <1>1, <2>2, <2>3, <2>5, <2>6, HeaderCookies
<1>3. CASE n \notin OddNames
  <2>1. /\ sent' = sent /\ req' = [req EXCEPT !.cookies = Placed(n, "deleted")]
        /\ wanted' = IF req.data_was_output THEN wanted ELSE [wanted EXCEPT ![n] = "deleted"]
    BY <1>3 DEF DeleteCookie
  <2>2. QED
    BY <1>1, <1>3, <2>1, PlacedCookies
<1>4. QED
  BY <1>2, <1>3

(* Every step keeps it.                                                    *)
LEMMA CookiesInductive == CookiesKept /\ [NextInput]_input_vars => CookiesKept'
<1> SUFFICES ASSUME CookiesKept, [NextInput]_input_vars PROVE CookiesKept'
  OBVIOUS
<1>1. CASE GetInput
  BY <1>1, GetInputCookies
<1>2. ASSUME NEW n \in Names, NEW t \in BOOLEAN, InputParam(n, t) PROVE CookiesKept'
  <2>1. PICK i, p : /\ i = IF t THEN FindInput(n) ELSE req.task
                    /\ p = IF FindInput(n) = 0 THEN req.ipars
                           ELSE [req.ipars EXCEPT ![FindInput(n)].found = 1]
    OBVIOUS
  <2>2. req' = [req EXCEPT !.task = i, !.ipars = p] /\ sent' = sent /\ wanted' = wanted
    BY <1>2, <2>1 DEF InputParam, CookiesKept, NoRequest
  <2>3. QED
    BY <2>2, ParamCookies
<1>3. ASSUME NEW n \in Names, NEW v \in Values, SetInput(n, v) PROVE CookiesKept'
  <2>1. PICK p : p = IF FindInput(n) = 0 THEN Append(req.ipars, Param(n, v))
                     ELSE [req.ipars EXCEPT ![FindInput(n)].value = v, ![FindInput(n)].found = 0]
    OBVIOUS
  <2>2. req' = [req EXCEPT !.ipars = p] /\ sent' = sent /\ wanted' = wanted
    BY <1>3, <2>1 DEF SetInput, CookiesKept, NoRequest
  <2>3. req' = [req EXCEPT !.task = req.task, !.ipars = p]
    BY <2>2 DEF CookiesKept, NoRequest
  <2>4. QED
    BY <2>2, <2>3, ParamCookies
<1>4. ASSUME NEW n \in CookieNames, SetCookie(n, "new") \/ SetCookie(n, "refused")
      PROVE CookiesKept'
  BY <1>4, SetCookieCookies
<1>5. ASSUME NEW n \in CookieNames, DeleteCookie(n) PROVE CookiesKept'
  BY <1>5, DeleteCookieCookies
<1>6. CASE Output
  <2>1. /\ req.status = "ok" /\ ~req.data_was_output /\ wanted' = wanted
        /\ sent' = SetCookies(req.cookies)
        /\ req' = [req EXCEPT !.data_was_output = TRUE]
    BY <1>6 DEF Output, Statement
  <2>2. /\ DOMAIN req' = DOMAIN req /\ req'.status = "ok"
        /\ req'.cookies = req.cookies /\ req'.data_was_output
    BY <2>1 DEF CookiesKept, NoRequest
  <2>3. /\ IsSeq(req.cookies)
        /\ ~req.data_was_output => \A m \in CookieNames : Intended(req.cookies, m, wanted[m])
    BY <2>1 DEF CookiesKept
  <2>4. QED
    BY <2>1, <2>2, <2>3, HeaderCookies
<1>7. CASE EndRequest
  <2>1. req' = NoRequest /\ wanted' = Nothing
    BY <1>7 DEF EndRequest
  <2>2. /\ NoRequest.status = "none"
        /\ Nothing \in [CookieNames -> {NoCookie, "new", "deleted"}]
        /\ \A n \in CookieNames : Nothing[n] = NoCookie
    BY DEF NoRequest, Nothing
  <2>3. QED
    BY <2>1, <2>2 DEF CookiesKept, CookiesSent
<1>8. CASE UNCHANGED input_vars
  BY <1>8 DEF input_vars, CookiesKept, CookiesSent
<1>9. QED
  BY <1>1, <1>2, <1>3, <1>4, <1>5, <1>6, <1>7, <1>8 DEF NextInput

(* One Set-Cookie for each cookie that was set or deleted before the first *)
(* output, with what was asked for last, whatever cookies the client sent. *)
THEOREM CookiesAreSent == SpecInput => []CookiesSent
<1>1. InitInput => CookiesKept
  BY DEF InitInput, CookiesKept, CookiesSent, NoRequest, Nothing
<1>2. CookiesKept => CookiesSent
  BY DEF CookiesKept
<1>3. QED
  BY <1>1, <1>2, CookiesInductive, PTL DEF SpecInput

-----------------------------------------------------------------------------
(* Parameters                                                              *)

\* A list of parameters that nothing has asked for.
Unasked(ps) == IsSeq(ps) /\ \A i \in DOMAIN ps : \E n, v : ps[i] = Param(n, v)

(* The cuts of the first words can be had for any number of words.         *)
LEMMA CutExists ==
  ASSUME NEW url, NEW N \in Nat
  PROVE  \E f : f = [k \in 0 .. N |-> IF k = 0 THEN Uncut ELSE CutAt(f[k - 1], url[k])]
<1> DEFINE IsCut(f, m) == f = [k \in 0 .. m |-> IF k = 0 THEN Uncut ELSE CutAt(f[k - 1], url[k])]
           Some(m) == \E f : IsCut(f, m)
<1> HIDE DEF Some
<1>1. PICK S : S = {m \in 0 .. N : Some(m)}
  OBVIOUS
<1>2. 0 \in S
  <2>1. PICK f : f = [k \in 0 .. 0 |-> Uncut]
    OBVIOUS
  <2>2. IsCut(f, 0)
    BY <2>1
  <2>3. QED
    BY <1>1, <2>2 DEF Some
<1>3. ASSUME NEW m \in 0 .. N - 1, m \in S PROVE m + 1 \in S
  <2>1. PICK f : IsCut(f, m)
    BY <1>1, <1>3 DEF Some
  <2>2. PICK g : g = [k \in 0 .. m + 1 |-> IF k \in 0 .. m THEN f[k] ELSE CutAt(f[m], url[k])]
    OBVIOUS
  <2>3. ASSUME NEW k \in 0 .. m + 1
        PROVE g[k] = IF k = 0 THEN Uncut ELSE CutAt(g[k - 1], url[k])
    <3>1. CASE k = 0
      BY <2>1, <2>2, <3>1
    <3>2. CASE k \in 1 .. m
      <4>1. k - 1 \in 0 .. m /\ k \in 0 .. m /\ k # 0
        BY <3>2
      <4>2. f[k] = CutAt(f[k - 1], url[k])
        BY <2>1, <4>1
      <4>3. g[k] = f[k] /\ g[k - 1] = f[k - 1]
        BY <2>2, <4>1
      <4>4. QED
        BY <4>1, <4>2, <4>3
    <3>3. CASE k = m + 1
      <4>1. k - 1 = m /\ m \in 0 .. m /\ k \notin 0 .. m /\ k # 0
        BY <3>3
      <4>2. g[k] = CutAt(f[m], url[k]) /\ g[m] = f[m]
        BY <2>2, <4>1
      <4>3. QED
        BY <4>1, <4>2
    <3>4. QED
      BY <3>1, <3>2, <3>3
  <2>4. IsCut(g, m + 1)
    BY <2>2, <2>3
  <2>5. m + 1 \in 0 .. N
    OBVIOUS
  <2>6. QED
    BY <1>1, <2>4, <2>5 DEF Some
<1>4. N \in S
  BY <1>2, <1>3, UpTo
<1>5. QED
  BY <1>1, <1>4 DEF Some

(* The two words that a URL is cut at are two.                             *)
LEMMA AmpIsNotEq == Amp # Eq
  BY DEF Amp, Eq, Sign

(* The "=" are counted.                                                    *)
LEMMA CutCounts ==
  ASSUME NEW url, Len(url) \in Nat
  PROVE  Cut(url).count \in Nat
<1>1. PICK N : N = Len(url)
  OBVIOUS
<1>2. PICK f : f = CHOOSE g : g = [k \in 0 .. N |-> IF k = 0 THEN Uncut ELSE CutAt(g[k - 1], url[k])]
  OBVIOUS
<1>3. f = [k \in 0 .. N |-> IF k = 0 THEN Uncut ELSE CutAt(f[k - 1], url[k])]
  <2>1. N \in Nat
    BY <1>1
  <2>2. PICK v : v = [k \in 0 .. N |-> IF k = 0 THEN Uncut ELSE CutAt(v[k - 1], url[k])]
    BY <2>1, CutExists
  <2>3. QED
    BY <1>2, <2>2
<1>4. Cut(url) = f[N]
  BY <1>1, <1>2 DEF Cut
<1>5. PICK S : S = {k \in 0 .. N : f[k].count \in Nat /\ "count" \in DOMAIN f[k]}
  OBVIOUS
<1>6. 0 \in S
  BY <1>1, <1>3, <1>5 DEF Uncut
<1>7. ASSUME NEW k \in 0 .. N - 1, k \in S PROVE k + 1 \in S
  <2>1. k + 1 \in 0 .. N /\ k + 1 # 0 /\ (k + 1) - 1 = k
    BY <1>1
  <2>2. f[k + 1] = CutAt(f[k], url[k + 1])
    BY <1>3, <2>1
  <2>3. PICK s, w : s = f[k] /\ w = url[k + 1]
    OBVIOUS
  <2>4. s.count \in Nat /\ "count" \in DOMAIN s
    BY <1>5, <1>7, <2>3
  <2>5. CutAt(s, w).count \in Nat /\ "count" \in DOMAIN CutAt(s, w)
    <3>1. CASE w = Amp
      <4>1. CutAt(s, w) = AfterAmp(s)
        BY <3>1, AmpIsNotEq DEF CutAt
      <4>2. QED
        BY <2>4, <4>1 DEF AfterAmp
    <3>2. CASE w = Eq
      <4>1. CutAt(s, w) = AfterEq(s)
        BY <3>2, AmpIsNotEq DEF CutAt
      <4>2. QED
        BY <2>4, <4>1 DEF AfterEq
    <3>3. CASE w \notin {Amp, Eq}
      <4>1. CutAt(s, w) = [s EXCEPT !.cur = @ \o (IF s.isname THEN AsName(w) ELSE w)]
        BY <3>3 DEF CutAt
      <4>2. QED
        BY <2>4, <4>1
    <3>4. QED
      BY <3>1, <3>2, <3>3
  <2>6. QED
    BY <1>5, <2>1, <2>2, <2>3, <2>5
<1>8. N \in S
  BY <1>1, <1>6, <1>7, UpTo
<1>9. QED
  BY <1>4, <1>5, <1>8

(* The parameters of the first segments, likewise.                         *)
LEMMA PathExists ==
  ASSUME NEW segs, NEW N \in Nat
  PROVE  \E f : f = [k \in 0 .. N |-> IF k = 0 THEN NoPath ELSE PathAt(f[k - 1], segs[k])]
<1> DEFINE IsPath(f, m) == f = [k \in 0 .. m |-> IF k = 0 THEN NoPath ELSE PathAt(f[k - 1], segs[k])]
           Some(m) == \E f : IsPath(f, m)
<1> HIDE DEF Some
<1>1. PICK S : S = {m \in 0 .. N : Some(m)}
  OBVIOUS
<1>2. 0 \in S
  <2>1. PICK f : f = [k \in 0 .. 0 |-> NoPath]
    OBVIOUS
  <2>2. IsPath(f, 0)
    BY <2>1
  <2>3. QED
    BY <1>1, <2>2 DEF Some
<1>3. ASSUME NEW m \in 0 .. N - 1, m \in S PROVE m + 1 \in S
  <2>1. PICK f : IsPath(f, m)
    BY <1>1, <1>3 DEF Some
  <2>2. PICK g : g = [k \in 0 .. m + 1 |-> IF k \in 0 .. m THEN f[k] ELSE PathAt(f[m], segs[k])]
    OBVIOUS
  <2>3. ASSUME NEW k \in 0 .. m + 1
        PROVE g[k] = IF k = 0 THEN NoPath ELSE PathAt(g[k - 1], segs[k])
    <3>1. CASE k = 0
      BY <2>1, <2>2, <3>1
    <3>2. CASE k \in 1 .. m
      <4>1. k - 1 \in 0 .. m /\ k \in 0 .. m /\ k # 0
        BY <3>2
      <4>2. f[k] = PathAt(f[k - 1], segs[k])
        BY <2>1, <4>1
      <4>3. g[k] = f[k] /\ g[k - 1] = f[k - 1]
        BY <2>2, <4>1
      <4>4. QED
        BY <4>1, <4>2, <4>3
    <3>3. CASE k = m + 1
      <4>1. k - 1 = m /\ m \in 0 .. m /\ k \notin 0 .. m /\ k # 0
        BY <3>3
      <4>2. g[k] = PathAt(f[m], segs[k]) /\ g[m] = f[m]
        BY <2>2, <4>1
      <4>3. QED
        BY <4>1, <4>2
    <3>4. QED
      BY <3>1, <3>2, <3>3
  <2>4. IsPath(g, m + 1)
    BY <2>2, <2>3
  <2>5. m + 1 \in 0 .. N
    OBVIOUS
  <2>6. QED
    BY <1>1, <2>4, <2>5 DEF Some
<1>4. N \in S
  BY <1>2, <1>3, UpTo
<1>5. QED
  BY <1>1, <1>4 DEF Some

(* A list of parameters with one more.                                     *)
LEMMA UnaskedAppend ==
  ASSUME NEW ps, Unasked(ps), NEW n, NEW v
  PROVE  Unasked(Append(ps, Param(n, v)))
<1>1. PICK k, e, t : k = Len(ps) + 1 /\ e = Param(n, v) /\ t = Append(ps, e)
  OBVIOUS
<1>2. IsSeq(ps) /\ \A i \in DOMAIN ps : \E x, y : ps[i] = Param(x, y)
  BY DEF Unasked
<1>3. IsSeq(t)
  BY <1>1, <1>2, IsSeqAppend
<1>4. \A i : i \in DOMAIN t <=> i \in DOMAIN ps \/ i = k
  BY <1>1, <1>2, IsSeqAppend
<1>5. t[k] = e
  BY <1>1, <1>2, IsSeqAppend
<1>6. \A i \in DOMAIN ps : t[i] = ps[i]
  BY <1>1, <1>2, IsSeqAppend
<1>7. ASSUME NEW i \in DOMAIN t PROVE \E x, y : t[i] = Param(x, y)
  BY <1>1, <1>2, <1>4, <1>5, <1>6
<1>8. QED
  BY <1>1, <1>3, <1>7 DEF Unasked

(* Two lists of parameters.                                                *)
LEMMA UnaskedConcat ==
  ASSUME NEW ps, Unasked(ps), NEW qs, Unasked(qs)
  PROVE  Unasked(ps \o qs)
<1>1. PICK P, Q : ps \in Seq(P) /\ qs \in Seq(Q)
  BY DEF Unasked, IsSeq
<1>2. PICK S, t, m, n : S = P \cup Q /\ t = ps \o qs /\ m = Len(ps) /\ n = Len(qs)
  OBVIOUS
<1>3. ps \in Seq(S) /\ qs \in Seq(S)
  BY <1>1, <1>2
<1>4. /\ t \in Seq(S) /\ Len(t) = m + n
      /\ \A i \in 1 .. m + n : t[i] = IF i <= m THEN ps[i] ELSE qs[i - m]
  BY <1>2, <1>3, ConcatProperties
<1>5. m \in Nat /\ n \in Nat /\ DOMAIN ps = 1 .. m /\ DOMAIN qs = 1 .. n /\ DOMAIN t = 1 .. m + n
  BY <1>2, <1>3, <1>4, LenProperties
<1>6. ASSUME NEW i \in DOMAIN t PROVE \E x, y : t[i] = Param(x, y)
  <2>1. i \in 1 .. m + n
    BY <1>5
  <2>2. CASE i <= m
    <3>1. i \in DOMAIN ps /\ t[i] = ps[i]
      BY <1>4, <1>5, <2>1, <2>2
    <3>2. QED
      BY <3>1 DEF Unasked
  <2>3. CASE ~(i <= m)
    <3>1. PICK j : j = i - m
      OBVIOUS
    <3>2. j \in DOMAIN qs /\ t[i] = qs[j]
      BY <1>4, <1>5, <2>1, <2>3, <3>1
    <3>3. QED
      BY <3>2 DEF Unasked
  <2>4. QED
    BY <2>2, <2>3
<1>7. QED
  BY <1>2, <1>4, <1>6 DEF Unasked, IsSeq

(* The parameters of a URL are a list.                                     *)
LEMMA UrlParamsFacts ==
  ASSUME NEW cut, cut.count \in Nat
  PROVE  Unasked(UrlParams(cut))
<1>1. PICK n, ps : n = cut.count /\ ps = UrlParams(cut)
  OBVIOUS
<1>2. DOMAIN ps = 1 .. n /\ \A i \in 1 .. n : \E x, y : ps[i] = Param(x, y)
  BY <1>1 DEF UrlParams
<1>3. PICK S : S = {ps[i] : i \in 1 .. n}
  OBVIOUS
<1>4. ps \in [1 .. n -> S]
  <2>1. ps = [i \in 1 .. n |-> ps[i]]
    BY <1>1, <1>2 DEF UrlParams
  <2>2. QED
    BY <1>3, <2>1
<1>5. ps \in Seq(S)
  BY <1>1, <1>4, SeqFrom
<1>6. QED
  BY <1>1, <1>2, <1>5 DEF Unasked, IsSeq

(* The parameters of the path are a list.                                  *)
LEMMA FromPathFacts ==
  ASSUME NEW segs, Len(segs) \in Nat
  PROVE  Unasked(FromPath(segs))
<1>1. PICK N : N = Len(segs)
  OBVIOUS
<1>2. PICK f : f = CHOOSE g : g = [k \in 0 .. N |-> IF k = 0 THEN NoPath ELSE PathAt(g[k - 1], segs[k])]
  OBVIOUS
<1>3. f = [k \in 0 .. N |-> IF k = 0 THEN NoPath ELSE PathAt(f[k - 1], segs[k])]
  <2>1. N \in Nat
    BY <1>1
  <2>2. PICK v : v = [k \in 0 .. N |-> IF k = 0 THEN NoPath ELSE PathAt(v[k - 1], segs[k])]
    BY <2>1, PathExists
  <2>3. QED
    BY <1>2, <2>2
<1>4. PathParams(segs) = f[N]
  BY <1>1, <1>2 DEF PathParams
<1>5. PICK S : S = {k \in 0 .. N : Unasked(f[k].ps) /\ "ps" \in DOMAIN f[k]}
  OBVIOUS
<1>6. 0 \in S
  <2>1. f[0] = NoPath /\ 0 \in 0 .. N
    BY <1>1, <1>3
  <2>2. NoPath.ps = <<>> /\ "ps" \in DOMAIN NoPath
    BY DEF NoPath
  <2>3. Unasked(<<>>)
    <3>1. <<>> \in Seq({}) /\ DOMAIN <<>> = {}
      BY EmptySeq
    <3>2. QED
      BY <3>1 DEF Unasked, IsSeq
  <2>4. QED
    BY <1>5, <2>1, <2>2, <2>3
<1>7. ASSUME NEW k \in 0 .. N - 1, k \in S PROVE k + 1 \in S
  <2>1. k + 1 \in 0 .. N /\ k + 1 # 0 /\ (k + 1) - 1 = k
    BY <1>1
  <2>2. PICK s, seg, j : s = f[k] /\ seg = segs[k + 1] /\ j = k + 1
    OBVIOUS
  <2>3. f[j] = PathAt(s, seg)
    BY <1>3, <2>1, <2>2
  <2>4. Unasked(s.ps) /\ "ps" \in DOMAIN s
    BY <1>5, <1>7, <2>2
  <2>5. \/ PathAt(s, seg).ps = s.ps /\ "ps" \in DOMAIN PathAt(s, seg)
        \/ \E n, v : PathAt(s, seg).ps = Append(s.ps, Param(n, v)) /\ "ps" \in DOMAIN PathAt(s, seg)
    <3>1. CASE s.pending # <<>>
      <4>1. PathAt(s, seg) = [ps |-> Append(s.ps, Param(s.pending[1], seg)), pending |-> <<>>]
        BY <3>1 DEF PathAt
      <4>2. QED
        BY <4>1
    <3>2. CASE ~(s.pending # <<>>) /\ Contains(seg, Sign)
      <4>1. PICK n, v : PathAt(s, seg) = [s EXCEPT !.ps = Append(@, Param(n, v))]
        BY <3>2 DEF PathAt
      <4>2. QED
        BY <2>4, <4>1
    <3>3. CASE ~(s.pending # <<>>) /\ ~Contains(seg, Sign)
      <4>1. PathAt(s, seg) = [s EXCEPT !.pending = <<AsName(seg)>>]
        BY <3>3 DEF PathAt
      <4>2. QED
        BY <2>4, <4>1
    <3>4. QED
      BY <3>1, <3>2, <3>3
  <2>6. Unasked(PathAt(s, seg).ps) /\ "ps" \in DOMAIN PathAt(s, seg)
    BY <2>4, <2>5, UnaskedAppend
  <2>7. QED
    BY <1>5, <2>1, <2>2, <2>3, <2>6
<1>8. N \in S
  BY <1>1, <1>6, <1>7, UpTo
<1>9. Unasked(PathParams(segs).ps)
  BY <1>4, <1>5, <1>8
<1>10. QED
  BY <1>9, UnaskedAppend DEF FromPath

(* Sequences one behind the other can be had for any number of them.       *)
LEMMA FlatExists ==
  ASSUME NEW seqs, NEW N \in Nat
  PROVE  \E f : f = [i \in 1 .. N |-> IF i = 1 THEN seqs[i] ELSE f[i - 1] \o seqs[i]]
<1> DEFINE IsFlat(f, m) == f = [i \in 1 .. m |-> IF i = 1 THEN seqs[i] ELSE f[i - 1] \o seqs[i]]
           Some(m) == \E f : IsFlat(f, m)
<1> HIDE DEF Some
<1>1. PICK S : S = {m \in 0 .. N : Some(m)}
  OBVIOUS
<1>2. 0 \in S
  <2>1. PICK f : f = [i \in 1 .. 0 |-> seqs]
    OBVIOUS
  <2>2. IsFlat(f, 0)
    BY <2>1
  <2>3. Some(0)
    BY <2>2 DEF Some
  <2>4. 0 \in 0 .. N
    OBVIOUS
  <2>5. QED
    BY <1>1, <2>3, <2>4
<1>3. ASSUME NEW m \in 0 .. N - 1, m \in S PROVE m + 1 \in S
  <2>1. PICK f : IsFlat(f, m)
    BY <1>1, <1>3 DEF Some
  <2>2. PICK g : g = [i \in 1 .. m + 1 |-> IF i \in 1 .. m THEN f[i]
                                         ELSE IF i = 1 THEN seqs[i] ELSE f[m] \o seqs[i]]
    OBVIOUS
  <2>3. ASSUME NEW i \in 1 .. m + 1
        PROVE g[i] = IF i = 1 THEN seqs[i] ELSE g[i - 1] \o seqs[i]
    <3>1. CASE i = 1
      BY <2>1, <2>2, <3>1
    <3>2. CASE i \in 2 .. m
      <4>1. i - 1 \in 1 .. m /\ i \in 1 .. m /\ i # 1 /\ i - 1 \in 1 .. m + 1
        BY <3>2
      <4>2. f[i] = f[i - 1] \o seqs[i]
        BY <2>1, <4>1
      <4>3. g[i] = f[i] /\ g[i - 1] = f[i - 1]
        BY <2>2, <4>1
      <4>4. QED
        BY <4>1, <4>2, <4>3
    <3>3. CASE i = m + 1 /\ i # 1
      <4>1. i - 1 = m /\ m \in 1 .. m /\ i \notin 1 .. m /\ m \in 1 .. m + 1
        BY <3>3
      <4>2. g[i] = f[m] \o seqs[i] /\ g[m] = f[m]
        BY <2>2, <3>3, <4>1
      <4>3. QED
        BY <3>3, <4>1, <4>2
    <3>4. QED
      BY <3>1, <3>2, <3>3
  <2>4. IsFlat(g, m + 1)
    BY <2>2, <2>3
  <2>5. m + 1 \in 0 .. N
    OBVIOUS
  <2>6. QED
    BY <1>1, <2>4, <2>5 DEF Some
<1>4. N \in S
  BY <1>2, <1>3, UpTo
<1>5. QED
  BY <1>1, <1>4 DEF Some

(* Two sequences, one behind the other, element by element.                *)
LEMMA ConcatIs ==
  ASSUME NEW s, IsSeq(s), NEW t, IsSeq(t), NEW m, m = Len(s), NEW n, n = Len(t), NEW u, u = s \o t
  PROVE  /\ m \in Nat /\ n \in Nat /\ IsSeq(u) /\ Len(u) = m + n /\ DOMAIN u = 1 .. m + n
         /\ \A i \in 1 .. m : u[i] = s[i]
         /\ \A i \in 1 .. n : u[m + i] = t[i]
<1>1. PICK P, Q : s \in Seq(P) /\ t \in Seq(Q)
  BY DEF IsSeq
<1>2. PICK S : S = P \cup Q
  OBVIOUS
<1>3. s \in Seq(S) /\ t \in Seq(S)
  BY <1>1, <1>2
<1>4. m \in Nat /\ n \in Nat
  BY <1>3, LenProperties
<1>5. /\ u \in Seq(S) /\ Len(u) = m + n
      /\ \A i \in 1 .. m + n : u[i] = IF i <= m THEN s[i] ELSE t[i - m]
  BY <1>3, ConcatProperties
<1>6. DOMAIN u = 1 .. m + n
  BY <1>5, LenProperties
<1>7. \A i \in 1 .. m : u[i] = s[i]
  BY <1>4, <1>5
<1>8. ASSUME NEW i \in 1 .. n PROVE u[m + i] = t[i]
  <2>1. m + i \in 1 .. m + n /\ ~(m + i <= m) /\ (m + i) - m = i
    BY <1>4
  <2>2. QED
    BY <1>5, <2>1
<1>9. QED
  BY <1>4, <1>5, <1>6, <1>7, <1>8 DEF IsSeq

(* Sequences with the same elements are the same.                          *)
LEMMA SameSeq ==
  ASSUME NEW s, IsSeq(s), NEW t, IsSeq(t), NEW n, Len(s) = n, Len(t) = n,
         \A i \in 1 .. n : s[i] = t[i]
  PROVE  s = t
<1>1. DOMAIN s = 1 .. n /\ DOMAIN t = 1 .. n
  BY IsSeqFacts
<1>2. PICK P, Q : s \in Seq(P) /\ t \in Seq(Q)
  BY DEF IsSeq
<1>3. PICK S : S = P \cup Q
  OBVIOUS
<1>4. s \in Seq(S) /\ t \in Seq(S)
  BY <1>2, <1>3
<1>5. QED
  BY <1>4, SeqEqual

(* Names one behind the other are the name of both.                        *)
LEMMA AsNameConcat ==
  ASSUME NEW s, IsSeq(s), NEW t, IsSeq(t)
  PROVE  /\ IsSeq(AsName(s)) /\ AsName(s) \o AsName(t) = AsName(s \o t)
         /\ AsName(<<>>) = <<>>
<1>1. \A x : IsSeq(x) => IsSeq(AsName(x)) /\ Len(AsName(x)) = Len(x) /\ DOMAIN AsName(x) = DOMAIN x
  <2>1. ASSUME NEW x, IsSeq(x)
        PROVE IsSeq(AsName(x)) /\ Len(AsName(x)) = Len(x) /\ DOMAIN AsName(x) = DOMAIN x
    <3>1. PICK n : n = Len(x)
      OBVIOUS
    <3>2. n \in Nat /\ DOMAIN x = 1 .. n
      BY <2>1, <3>1, IsSeqFacts
    <3>3. PICK y, S : y = AsName(x) /\ S = {Underscored[x[i]] : i \in 1 .. n}
      OBVIOUS
    <3>4. y = [i \in 1 .. n |-> Underscored[x[i]]]
      BY <3>2, <3>3 DEF AsName
    <3>5. y \in [1 .. n -> S]
      BY <3>3, <3>4
    <3>6. y \in Seq(S) /\ Len(y) = n
      BY <3>2, <3>5, SeqFrom
    <3>7. QED
      BY <3>1, <3>2, <3>3, <3>4, <3>6 DEF IsSeq
  <2>2. QED
    BY <2>1
<1>2. PICK m, n, u, a, b, c, d : /\ m = Len(s) /\ n = Len(t) /\ u = s \o t /\ a = AsName(s) /\ b = AsName(t)
                                 /\ c = AsName(u) /\ d = a \o b
  OBVIOUS
<1>3. /\ m \in Nat /\ n \in Nat /\ IsSeq(u) /\ Len(u) = m + n /\ DOMAIN u = 1 .. m + n
      /\ \A i \in 1 .. m : u[i] = s[i]
      /\ \A i \in 1 .. n : u[m + i] = t[i]
  <2>1. m = Len(s) /\ n = Len(t) /\ u = s \o t
    BY <1>2
  <2>2. m \in Nat /\ n \in Nat /\ IsSeq(u)
    BY <2>1, ConcatIs
  <2>3. Len(u) = m + n /\ DOMAIN u = 1 .. m + n
    BY <2>1, ConcatIs
  <2>4. \A i \in 1 .. m : u[i] = s[i]
    BY <2>1, ConcatIs
  <2>5. \A i \in 1 .. n : u[m + i] = t[i]
    BY <2>1, ConcatIs
  <2>6. QED
    BY <2>2, <2>3, <2>4, <2>5
<1>4. IsSeq(a) /\ Len(a) = m /\ IsSeq(b) /\ Len(b) = n /\ IsSeq(c) /\ Len(c) = m + n
  BY <1>1, <1>2, <1>3
<1>5. /\ IsSeq(d) /\ Len(d) = m + n
      /\ \A i \in 1 .. m : d[i] = a[i]
      /\ \A i \in 1 .. n : d[m + i] = b[i]
  <2>1. m = Len(a) /\ n = Len(b) /\ d = a \o b /\ IsSeq(a) /\ IsSeq(b)
    BY <1>2, <1>4
  <2>2. IsSeq(d)
    BY <2>1, ConcatIs
  <2>3. Len(d) = m + n
    BY <2>1, ConcatIs
  <2>4. \A i \in 1 .. m : d[i] = a[i]
    BY <2>1, ConcatIs
  <2>5. \A i \in 1 .. n : d[m + i] = b[i]
    BY <2>1, ConcatIs
  <2>6. QED
    BY <2>2, <2>3, <2>4, <2>5
<1>6. DOMAIN s = 1 .. m /\ DOMAIN t = 1 .. n
  BY <1>2, IsSeqFacts
<1>7. /\ \A i \in 1 .. m : a[i] = Underscored[s[i]]
      /\ \A i \in 1 .. n : b[i] = Underscored[t[i]]
      /\ \A i \in 1 .. m + n : c[i] = Underscored[u[i]]
  BY <1>2, <1>3, <1>6 DEF AsName
<1>8. ASSUME NEW i \in 1 .. m + n PROVE d[i] = c[i]
  <2>1. CASE i \in 1 .. m
    BY <1>3, <1>5, <1>7, <2>1
  <2>2. CASE i \notin 1 .. m
    <3>1. PICK j : j = i - m
      OBVIOUS
    <3>2. j \in 1 .. n /\ m + j = i
      BY <1>3, <2>2, <3>1
    <3>3. d[i] = b[j] /\ u[i] = t[j]
      BY <1>3, <1>5, <3>2
    <3>4. QED
      BY <1>7, <3>2, <3>3
  <2>3. QED
    BY <2>1, <2>2
<1>9. d = c
  BY <1>4, <1>5, <1>8, SameSeq
<1>10. AsName(<<>>) = <<>>
  <2>1. IsSeq(<<>>) /\ Len(<<>>) = 0
    BY EmptySeq DEF IsSeq
  <2>2. IsSeq(AsName(<<>>)) /\ Len(AsName(<<>>)) = 0
    BY <1>1, <2>1
  <2>3. QED
    BY <2>1, <2>2, SameSeq
<1>11. QED
  BY <1>2, <1>4, <1>9, <1>10

(* Sequences one behind the other: none, and one more.                     *)
LEMMA FlattenNext ==
  ASSUME NEW T, NEW s \in Seq(Seq(T)), NEW x \in Seq(T)
  PROVE  /\ FlattenSeq(<<>>) = <<>>
         /\ FlattenSeq(Append(s, x)) = FlattenSeq(s) \o x
<1>1. FlattenSeq(<<>>) = <<>>
  BY EmptySeq DEF FlattenSeq
<1>2. PICK n, k, t : n = Len(s) /\ k = n + 1 /\ t = Append(s, x)
  OBVIOUS
<1>3. IsSeq(s) /\ n \in Nat /\ DOMAIN s = 1 .. n
  BY <1>2, LenProperties DEF IsSeq
<1>4. IsSeq(t) /\ Len(t) = k /\ t[k] = x /\ \A i \in DOMAIN s : t[i] = s[i]
  <2>1. IsSeq(s) /\ k = Len(s) + 1 /\ t = Append(s, x)
    BY <1>2, <1>3
  <2>2. IsSeq(t)
    BY <2>1, IsSeqAppend
  <2>3. Len(t) = k
    BY <2>1, IsSeqAppend
  <2>4. t[k] = x
    BY <2>1, IsSeqAppend
  <2>5. \A i \in DOMAIN s : t[i] = s[i]
    BY <2>1, IsSeqAppend
  <2>6. QED
    BY <2>2, <2>3, <2>4, <2>5
<1>5. PICK g : g = CHOOSE h : h = [i \in 1 .. k |-> IF i = 1 THEN t[i] ELSE h[i - 1] \o t[i]]
  OBVIOUS
<1>6. g = [i \in 1 .. k |-> IF i = 1 THEN t[i] ELSE g[i - 1] \o t[i]]
  <2>1. k \in Nat
    BY <1>2, <1>3
  <2>2. PICK v : v = [i \in 1 .. k |-> IF i = 1 THEN t[i] ELSE v[i - 1] \o t[i]]
    BY <2>1, FlatExists
  <2>3. QED
    BY <1>5, <2>2
<1>7. FlattenSeq(t) = g[k]
  <2>1. k # 0
    BY <1>2, <1>3
  <2>2. QED
    BY <1>4, <1>5, <2>1 DEF FlattenSeq
<1>8. CASE n = 0
  <2>1. s = <<>>
    BY <1>2, <1>8, EmptySeq
  <2>2. g[k] = x
    BY <1>2, <1>4, <1>6, <1>8
  <2>3. QED
    BY <1>1, <1>2, <1>7, <2>1, <2>2, ConcatEmptySeq
<1>9. CASE n # 0
  <2>1. PICK f : f = CHOOSE h : h = [i \in 1 .. n |-> IF i = 1 THEN s[i] ELSE h[i - 1] \o s[i]]
    OBVIOUS
  <2>2. f = [i \in 1 .. n |-> IF i = 1 THEN s[i] ELSE f[i - 1] \o s[i]]
    <3>1. PICK v : v = [i \in 1 .. n |-> IF i = 1 THEN s[i] ELSE v[i - 1] \o s[i]]
      BY <1>3, FlatExists
    <3>2. QED
      BY <2>1, <3>1
  <2>3. FlattenSeq(s) = f[n]
    BY <1>2, <1>9, <2>1 DEF FlattenSeq
  <2>4. PICK S : S = {i \in 0 .. n : i = 0 \/ f[i] = g[i]}
    OBVIOUS
  <2>5. 0 \in S
    BY <1>3, <2>4
  <2>6. ASSUME NEW i \in 0 .. n - 1, i \in S PROVE i + 1 \in S
    <3>1. PICK j : j = i + 1
      OBVIOUS
    <3>2. j \in 1 .. n /\ j \in 1 .. k /\ j - 1 = i /\ j \in 0 .. n
      BY <1>2, <1>3, <3>1
    <3>3. t[j] = s[j]
      BY <1>3, <1>4, <3>2
    <3>4. /\ f[j] = IF j = 1 THEN s[j] ELSE f[i] \o s[j]
          /\ g[j] = IF j = 1 THEN t[j] ELSE g[i] \o t[j]
      BY <1>6, <2>2, <3>2
    <3>5. i = 0 => j = 1
      BY <3>1
    <3>6. f[j] = g[j]
      BY <2>4, <2>6, <3>3, <3>4, <3>5
    <3>7. QED
      BY <2>4, <3>1, <3>2, <3>6
  <2>7. n \in S
    <3>1. 0 .. n \subseteq S
      BY <1>3, <2>5, <2>6, UpTo
    <3>2. n \in 0 .. n
      BY <1>3
    <3>3. QED
      BY <3>1, <3>2
  <2>8. f[n] = g[n]
    BY <1>9, <2>4, <2>7
  <2>9. g[k] = g[n] \o x
    <3>1. k \in 1 .. k /\ k # 1 /\ k - 1 = n
      BY <1>2, <1>3, <1>9
    <3>2. QED
      BY <1>4, <1>6, <3>1
  <2>10. QED
    BY <1>1, <1>2, <1>7, <2>3, <2>8, <2>9
<1>10. QED
  BY <1>8, <1>9

(* They are a sequence again.                                              *)
LEMMA FlattenIn ==
  ASSUME NEW T, NEW seqs \in Seq(Seq(T))
  PROVE  FlattenSeq(seqs) \in Seq(T)
<1>1. PICK N : N = Len(seqs)
  OBVIOUS
<1>2. N \in Nat /\ \A i \in 1 .. N : seqs[i] \in Seq(T)
  BY <1>1, LenProperties
<1>3. CASE N = 0
  <2>1. seqs = <<>>
    BY <1>1, <1>3, EmptySeq
  <2>2. FlattenSeq(seqs) = seqs
    BY <1>1, <1>3 DEF FlattenSeq
  <2>3. QED
    BY <2>1, <2>2, EmptySeq
<1>4. CASE N # 0
  <2>1. PICK f : f = CHOOSE g : g = [i \in 1 .. N |-> IF i = 1 THEN seqs[i] ELSE g[i - 1] \o seqs[i]]
    OBVIOUS
  <2>2. f = [i \in 1 .. N |-> IF i = 1 THEN seqs[i] ELSE f[i - 1] \o seqs[i]]
    <3>1. PICK v : v = [i \in 1 .. N |-> IF i = 1 THEN seqs[i] ELSE v[i - 1] \o seqs[i]]
      BY <1>2, FlatExists
    <3>2. QED
      BY <2>1, <3>1
  <2>3. FlattenSeq(seqs) = f[N]
    BY <1>1, <1>4, <2>1 DEF FlattenSeq
  <2>4. PICK S : S = {i \in 0 .. N : i = 0 \/ f[i] \in Seq(T)}
    OBVIOUS
  <2>5. 0 \in S
    BY <1>2, <2>4
  <2>6. ASSUME NEW i \in 0 .. N - 1, i \in S PROVE i + 1 \in S
    <3>1. PICK j : j = i + 1
      OBVIOUS
    <3>2. j \in 1 .. N /\ j - 1 = i /\ j \in 0 .. N
      BY <1>2, <3>1
    <3>3. f[j] = IF j = 1 THEN seqs[j] ELSE f[i] \o seqs[j]
      BY <2>2, <3>2
    <3>4. j # 1 => f[i] \in Seq(T)
      BY <2>4, <2>6, <3>1
    <3>5. f[j] \in Seq(T)
      BY <1>2, <3>2, <3>3, <3>4, ConcatProperties
    <3>6. QED
      BY <2>4, <3>1, <3>2, <3>5
  <2>7. N \in S
    <3>1. 0 .. N \subseteq S
      BY <1>2, <2>5, <2>6, UpTo
    <3>2. N \in 0 .. N
      BY <1>2
    <3>3. QED
      BY <3>1, <3>2
  <2>8. QED
    BY <1>4, <2>3, <2>4, <2>7
<1>5. QED
  BY <1>3, <1>4

\* The words of texts, those that the program adds among them.
Words == STRING \cup {Sign, "&", "filename", "location", "ext", "size", "path"}
WordSeqs == Seq(Words)

(* The text from one place to another grows by a word at a time.           *)
LEMMA TextNext ==
  ASSUME NEW u \in Seq(WordSeqs), NEW n, n = Len(u), NEW i \in 1 .. n + 1, NEW j \in i - 1 .. n
  PROVE  /\ Text(u, i, j) \in WordSeqs
         /\ j = i - 1 => Text(u, i, j) = <<>>
         /\ j < n => Text(u, i, j + 1) = Text(u, i, j) \o u[j + 1]
<1>1. n \in Nat /\ DOMAIN u = 1 .. n /\ \A k \in 1 .. n : u[k] \in WordSeqs
  BY LenProperties
<1>2. ASSUME NEW k \in i - 1 .. n, NEW s, s = SubSeq(u, i, k)
      PROVE /\ s \in Seq(WordSeqs) /\ Len(s) = k - i + 1 /\ \A l \in 1 .. k - i + 1 : s[l] = u[i + l - 1]
  <2>1. i \in Int /\ k \in Int
    BY <1>1
  <2>2. \A l \in i .. k : u[l] \in WordSeqs
    BY <1>1
  <2>3. /\ s \in Seq(WordSeqs) /\ Len(s) = IF i <= k THEN k - i + 1 ELSE 0
        /\ \A l \in 1 .. k - i + 1 : s[l] = u[i + l - 1]
    BY <1>2, <2>1, <2>2, SubSeqProperties
  <2>4. QED
    BY <1>1, <2>3
<1>3. PICK s : s = SubSeq(u, i, j)
  OBVIOUS
<1>4. s \in Seq(WordSeqs) /\ Len(s) = j - i + 1
  BY <1>2, <1>3
<1>5. j = i - 1 => s = <<>>
  BY <1>1, <1>4, EmptySeq
<1>6. j < n => SubSeq(u, i, j + 1) = Append(s, u[j + 1]) /\ u[j + 1] \in WordSeqs
  <2>1. SUFFICES ASSUME j < n PROVE SubSeq(u, i, j + 1) = Append(s, u[j + 1]) /\ u[j + 1] \in WordSeqs
    OBVIOUS
  <2>2. PICK k, m, t, a, e : /\ k = j + 1 /\ m = j - i + 1 /\ t = SubSeq(u, i, k) /\ e = u[k]
                             /\ a = Append(s, e)
    OBVIOUS
  <2>3. k \in i - 1 .. n /\ k \in 1 .. n /\ m \in Nat /\ k - i + 1 = m + 1 /\ i + (m + 1) - 1 = k
    BY <1>1, <2>1, <2>2
  <2>4. /\ t \in Seq(WordSeqs) /\ Len(t) = m + 1 /\ \A l \in 1 .. m + 1 : t[l] = u[i + l - 1]
    BY <1>2, <2>2, <2>3
  <2>5. /\ s \in Seq(WordSeqs) /\ Len(s) = m /\ \A l \in 1 .. m : s[l] = u[i + l - 1]
    BY <1>2, <1>3, <2>2
  <2>6. e \in WordSeqs
    BY <1>1, <2>2, <2>3
  <2>7. a \in Seq(WordSeqs) /\ Len(a) = m + 1
    <3>1. a = Append(s, e) /\ s \in Seq(WordSeqs) /\ m = Len(s)
      BY <2>2, <2>5
    <3>2. QED
      BY <2>6, <3>1, AppendProperties
  <2>8. a[m + 1] = e /\ \A l \in 1 .. m : a[l] = s[l]
    <3>1. a = Append(s, e) /\ s \in Seq(WordSeqs) /\ m = Len(s)
      BY <2>2, <2>5
    <3>2. QED
      BY <2>6, <3>1, AppendProperties
  <2>9. ASSUME NEW l \in 1 .. m + 1 PROVE t[l] = a[l]
    BY <2>2, <2>3, <2>4, <2>5, <2>8
  <2>10. t = a
    BY <2>4, <2>7, <2>9, SeqEqual
  <2>11. QED
    BY <2>2, <2>6, <2>10
<1>7. WordSeqs = Seq(Words)
  BY DEF WordSeqs
<1>8. FlattenSeq(s) \in WordSeqs
  BY <1>4, <1>7, FlattenIn
<1>9. FlattenSeq(<<>>) = <<>>
  BY EmptySeq DEF FlattenSeq
<1>10. j < n => FlattenSeq(Append(s, u[j + 1])) = FlattenSeq(s) \o u[j + 1]
  <2>1. SUFFICES ASSUME j < n PROVE FlattenSeq(Append(s, u[j + 1])) = FlattenSeq(s) \o u[j + 1]
    OBVIOUS
  <2>2. PICK e : e = u[j + 1]
    OBVIOUS
  <2>3. s \in Seq(Seq(Words)) /\ e \in Seq(Words)
    BY <1>4, <1>6, <1>7, <2>1, <2>2
  <2>4. QED
    BY <2>2, <2>3, FlattenNext
<1>11. QED
  BY <1>3, <1>5, <1>6, <1>8, <1>9, <1>10 DEF Text

(* Four words.                                                             *)
LEMMA FourWords ==
  ASSUME NEW T, NEW a \in T, NEW b \in T, NEW c \in T, NEW d \in T
  PROVE  <<a, b, c, d>> \in Seq(T)
OBVIOUS

(* A word is a line, and so are those of a request.                        *)
LEMMA WordsAreSeqs ==
  /\ \A e \in Words : <<e>> \in WordSeqs
  /\ Eq \in WordSeqs /\ Amp \in WordSeqs /\ Empty \in WordSeqs
  /\ Texts \subseteq WordSeqs
<1>1. \A e \in Words : <<e>> \in WordSeqs
  BY DEF WordSeqs
<1>2. Sign \in Words /\ "&" \in Words
  BY Zenon DEF Words
<1>3. Eq \in WordSeqs
  BY <1>1, <1>2 DEF Eq
<1>4. Amp \in WordSeqs
  BY <1>1, <1>2, Zenon DEF Amp
<1>5. Empty \in WordSeqs
  BY EmptySeq DEF Empty, WordSeqs
<1>6. Texts \subseteq WordSeqs
  <2>1. PICK S : S = STRING
    OBVIOUS
  <2>2. S \subseteq Words
    BY <2>1, Zenon DEF Words
  <2>3. Seq(S) \subseteq Seq(Words)
    BY <2>2
  <2>4. QED
    BY <2>1, <2>3 DEF Texts, WordSeqs
<1>7. QED
  BY <1>1, <1>3, <1>4, <1>5, <1>6

(* A part of a form, as it is added to the URL.                            *)
LEMMA PartUrlIsText ==
  ASSUME NEW p \in Parts
  PROVE  PartUrl(p) \in Seq(WordSeqs)
<1>1. Eq \in WordSeqs /\ Amp \in WordSeqs /\ Empty \in WordSeqs
  BY WordsAreSeqs
<1>2. \A n \in WordSeqs, v \in WordSeqs : <<n, Eq, v, Amp>> \in Seq(WordSeqs)
  <2>1. ASSUME NEW n \in WordSeqs, NEW v \in WordSeqs PROVE <<n, Eq, v, Amp>> \in Seq(WordSeqs)
    <3>1. PICK a, b : a = Eq /\ b = Amp
      OBVIOUS
    <3>2. <<n, a, v, b>> \in Seq(WordSeqs)
      BY <1>1, <3>1, FourWords
    <3>3. QED
      BY <3>1, <3>2
  <2>2. QED
    BY <2>1
<1>3. <<>> \in Seq(WordSeqs)
  BY EmptySeq
<1>4. p.name \in WordSeqs /\ p.value \in WordSeqs /\ p.file \in WordSeqs
  BY WordsAreSeqs DEF Parts
<1>5. \A s \in Words : Suffix(p.name, s) \in WordSeqs /\ <<s>> \in WordSeqs
  <2>1. ASSUME NEW s \in Words PROVE Suffix(p.name, s) \in WordSeqs /\ <<s>> \in WordSeqs
    <3>1. <<s>> \in Seq(Words) /\ p.name \in Seq(Words)
      BY <1>4, WordsAreSeqs DEF WordSeqs
    <3>2. p.name \o <<s>> \in Seq(Words)
      BY <3>1, ConcatProperties
    <3>3. QED
      BY <3>1, <3>2 DEF Suffix, WordSeqs
  <2>2. QED
    BY <2>1
<1>6. PICK fn, lo, ex, si, pa : /\ fn = "filename" /\ lo = "location" /\ ex = "ext" /\ si = "size"
                                /\ pa = "path"
  OBVIOUS
<1>7. fn \in Words /\ lo \in Words /\ ex \in Words /\ si \in Words /\ pa \in Words
  BY <1>6, Zenon DEF Words
<1>8. PICK a, b, x, y, z, w : /\ a = <<p.name, Eq, p.value, Amp>>
                              /\ b = <<Suffix(p.name, fn), Eq, p.file, Amp>>
                              /\ x = <<Suffix(p.name, lo), Eq, <<pa>>, Amp>>
                              /\ y = <<Suffix(p.name, ex), Eq, <<ex>>, Amp>>
                              /\ z = <<Suffix(p.name, si), Eq, <<si>>, Amp>>
                              /\ w = <<Suffix(p.name, fn), Eq, Empty, Amp>>
  OBVIOUS
<1>9. /\ a \in Seq(WordSeqs) /\ b \in Seq(WordSeqs) /\ x \in Seq(WordSeqs) /\ y \in Seq(WordSeqs)
      /\ z \in Seq(WordSeqs) /\ w \in Seq(WordSeqs)
  <2>1. a \in Seq(WordSeqs)
    BY <1>2, <1>4, <1>8
  <2>2. b \in Seq(WordSeqs)
    BY <1>2, <1>4, <1>5, <1>7, <1>8
  <2>3. x \in Seq(WordSeqs)
    BY <1>2, <1>5, <1>7, <1>8
  <2>4. y \in Seq(WordSeqs)
    BY <1>2, <1>5, <1>7, <1>8
  <2>5. z \in Seq(WordSeqs)
    BY <1>2, <1>5, <1>7, <1>8
  <2>6. w \in Seq(WordSeqs)
    BY <1>1, <1>2, <1>5, <1>7, <1>8
  <2>7. QED
    BY <2>1, <2>2, <2>3, <2>4, <2>5, <2>6
<1>10. PICK c, d : /\ c = IF p.file # Empty THEN b ELSE <<>>
                   /\ d = IF ~p.isfile THEN <<>> ELSE IF p.file = Empty THEN w ELSE x \o y \o z
  OBVIOUS
<1>11. PartUrl(p) = a \o c \o d
  BY <1>6, <1>8, <1>10 DEF PartUrl
<1>12. x \o y \o z \in Seq(WordSeqs)
  <2>1. x \o y \in Seq(WordSeqs)
    BY <1>9, ConcatProperties
  <2>2. QED
    BY <1>9, <2>1, ConcatProperties
<1>13. c \in Seq(WordSeqs) /\ d \in Seq(WordSeqs)
  BY <1>3, <1>9, <1>10, <1>12
<1>14. a \o c \in Seq(WordSeqs)
  BY <1>9, <1>13, ConcatProperties
<1>15. a \o c \o d \in Seq(WordSeqs)
  BY <1>13, <1>14, ConcatProperties
<1>16. QED
  BY <1>11, <1>15

(* What a form adds to the URL.                                            *)
LEMMA FormUrlIsText ==
  ASSUME NEW parts \in Seq(Parts)
  PROVE  FormUrl(parts) \in Seq(WordSeqs)
<1>1. PICK z, read : z = Len(parts) /\ read = IF Stop(parts) = 0 THEN z ELSE Stop(parts) - 1
  OBVIOUS
<1>2. z \in Nat /\ \A i \in 1 .. z : parts[i] \in Parts
  BY <1>1, LenProperties
<1>3. read \in 0 .. z
  <2>1. PICK bad : bad = {i \in 1 .. z : parts[i].kind # "good"}
    OBVIOUS
  <2>2. bad \subseteq Nat \ {0}
    BY <1>2, <2>1
  <2>3. Stop(parts) = First(bad)
    BY <1>1, <2>1 DEF Stop, SelectInSeq, First
  <2>4. First(bad) = 0 \/ First(bad) \in bad
    BY <2>2, FirstFacts
  <2>5. QED
    BY <1>1, <1>2, <2>1, <2>3, <2>4
<1>4. PICK seqs : seqs = [i \in 1 .. read |-> PartUrl(parts[i])]
  OBVIOUS
<1>5. seqs \in Seq(Seq(WordSeqs))
  <2>1. PICK T : T = Seq(WordSeqs)
    OBVIOUS
  <2>2. \A i \in 1 .. read : PartUrl(parts[i]) \in T
    BY <1>2, <1>3, <2>1, PartUrlIsText
  <2>3. seqs \in [1 .. read -> T]
    BY <1>4, <2>2
  <2>4. seqs \in Seq(T)
    BY <1>3, <2>3, SeqFrom
  <2>5. QED
    BY <2>1, <2>4
<1>6. PICK url : url = FlattenSeq(seqs)
  OBVIOUS
<1>7. url \in Seq(WordSeqs)
  BY <1>5, <1>6, FlattenIn
<1>8. FormUrl(parts) = IF url = <<>> THEN url ELSE Front(url)
  BY <1>1, <1>4, <1>6 DEF FormUrl
<1>9. url # <<>> => Front(url) \in Seq(WordSeqs)
  <2>1. url # <<>> => Len(url) > 0
    BY <1>7, EmptySeq
  <2>2. QED
    BY <1>7, <2>1, FrontFacts
<1>10. QED
  BY <1>7, <1>8, <1>9

(* The URL that is cut.                                                    *)
LEMMA UrlIsText ==
  ASSUME NEW r \in Requests
  PROVE  Url(r) \in Seq(WordSeqs)
<1>1. r.body \in Seq(WordSeqs) /\ r.query \in Seq(WordSeqs) /\ r.parts \in Seq(Parts)
  <2>1. r.body \in Seq(Texts) /\ r.query \in Seq(Texts) /\ r.parts \in Seq(Parts)
    BY RequestsAssumption
  <2>2. Seq(Texts) \subseteq Seq(WordSeqs)
    BY WordsAreSeqs
  <2>3. QED
    BY <2>1, <2>2
<1>2. PICK a, b, q : a = <<Amp>> /\ b = BodyUrl(r) /\ q = r.query
  OBVIOUS
<1>3. a \in Seq(WordSeqs)
  <2>1. PICK e : e = Amp
    OBVIOUS
  <2>2. e \in WordSeqs
    BY <2>1, WordsAreSeqs
  <2>3. <<e>> \in Seq(WordSeqs)
    BY <2>2
  <2>4. QED
    BY <1>2, <2>1, <2>3
<1>4. b \in Seq(WordSeqs)
  <2>1. BodyUrl(r) = r.body \/ BodyUrl(r) = FormUrl(r.parts) \/ BodyUrl(r) = <<>>
    BY DEF BodyUrl
  <2>2. FormUrl(r.parts) \in Seq(WordSeqs)
    BY <1>1, FormUrlIsText
  <2>3. QED
    BY <1>1, <1>2, <2>1, <2>2, EmptySeq
<1>5. Url(r) = b \/ Url(r) = q \/ Url(r) = b \o a \o q
  BY <1>2 DEF Url
<1>6. b \o a \in Seq(WordSeqs)
  BY <1>3, <1>4, ConcatProperties
<1>7. b \o a \o q \in Seq(WordSeqs)
  BY <1>1, <1>2, <1>6, ConcatProperties
<1>8. QED
  BY <1>1, <1>2, <1>4, <1>5, <1>7

(* A segment is a text.                                                    *)
LEMMA ParamSegsAreText ==
  ASSUME NEW r \in Requests
  PROVE  ParamSegs(r) \in Seq(WordSeqs)
<1>1. PICK segs : segs = r.segs
  OBVIOUS
<1>2. segs \in Seq(WordSeqs)
  <2>1. segs \in Seq(Texts)
    BY <1>1, RequestsAssumption
  <2>2. Seq(Texts) \subseteq Seq(WordSeqs)
    BY WordsAreSeqs
  <2>3. QED
    BY <2>1, <2>2
<1>3. segs # <<>> => Tail(segs) \in Seq(WordSeqs)
  BY <1>2
<1>4. <<>> \in Seq(WordSeqs) /\ <<Empty>> \in Seq(WordSeqs)
  BY EmptySeq, WordsAreSeqs
<1>5. \/ ParamSegs(r) = <<>> \/ ParamSegs(r) = segs \/ ParamSegs(r) = <<Empty>>
      \/ ParamSegs(r) = Tail(segs) /\ segs # <<>>
  <2>1. NoName(r) => ParamSegs(r) = <<>>
    BY DEF ParamSegs
  <2>2. r.path = "plain" /\ ~NoName(r) => ParamSegs(r) = Tail(segs) /\ segs # <<>>
    BY <1>1 DEF ParamSegs, NoName
  <2>3. ~NoName(r) /\ r.path # "plain" => ParamSegs(r) = segs \/ ParamSegs(r) = <<Empty>>
    BY <1>1 DEF ParamSegs
  <2>4. QED
    BY <2>1, <2>2, <2>3
<1>6. QED
  BY <1>2, <1>3, <1>4, <1>5

(* What vely_get_input makes is a list of parameters not asked for.        *)
LEMMA InputParams ==
  ASSUME NEW r \in Requests, Input(r).status = "ok"
  PROVE  Unasked(Input(r).ipars) /\ Input(r).task = 0
<1>1. /\ Input(r).ipars = UrlParams(Cut(Url(r))) \o FromPath(ParamSegs(r))
      /\ Input(r).task = 0
  BY InputCookies
<1>2. PICK url, segs, cut : url = Url(r) /\ segs = ParamSegs(r) /\ cut = Cut(url)
  OBVIOUS
<1>3. IsSeq(url) /\ IsSeq(segs)
  <2>1. url \in Seq(WordSeqs) /\ segs \in Seq(WordSeqs)
    BY <1>2, UrlIsText, ParamSegsAreText
  <2>2. QED
    BY <2>1 DEF IsSeq
<1>4. Len(url) \in Nat /\ Len(segs) \in Nat
  BY <1>3, IsSeqFacts
<1>5. cut.count \in Nat
  BY <1>2, <1>4, CutCounts
<1>6. Unasked(UrlParams(cut)) /\ Unasked(FromPath(segs))
  BY <1>4, <1>5, UrlParamsFacts, FromPathFacts
<1>7. QED
  BY <1>1, <1>2, <1>6, UnaskedConcat

\* The parameters of a name in the list p.
There(p, n) == {i \in DOMAIN p : p[i].name = n}

\* Each parameter was asked for or not, the task is one of the name task-param
\* asked for, and what set-input gave a name is the value of one of its parameters.
ParamsKept ==
    /\ DOMAIN req = DOMAIN NoRequest
    /\ DOMAIN assigned = Names
    /\ req.status = "none" => \A n \in Names : assigned[n] = <<>>
    /\ req.status = "ok" =>
           /\ IsSeq(req.ipars)
           /\ \A i \in DOMAIN req.ipars : /\ DOMAIN req.ipars[i] = {"name", "value", "found"}
                                          /\ req.ipars[i].found \in {0, 1}
           /\ req.task # 0 => req.task \in There(req.ipars, tasked)
           /\ \A n \in Names : assigned[n] # <<>> =>
                  \E i \in There(req.ipars, n) : req.ipars[i].value = assigned[n]

(* A search finds a parameter of the name, if there is one.                *)
LEMMA FindInputFacts ==
  ASSUME ParamsKept, req.status = "ok", NEW n
  PROVE  /\ FindInput(n) = 0 <=> There(req.ipars, n) = {}
         /\ FindInput(n) # 0 => FindInput(n) \in There(req.ipars, n)
<1>1. PICK p, z : p = req.ipars /\ z = Len(p)
  OBVIOUS
<1>2. IsSeq(p) /\ \A i \in DOMAIN p : p[i].found \in {0, 1}
  BY <1>1 DEF ParamsKept
<1>3. z \in Nat /\ DOMAIN p = 1 .. z
  BY <1>1, <1>2, IsSeqFacts
<1>4. PICK A, B : /\ A = {i \in 1 .. z : p[i].name = n /\ p[i].found = 0}
                  /\ B = {i \in 1 .. z : p[i].name = n /\ p[i].found = 1}
  OBVIOUS
<1>5. Having(n, 0) = First(A) /\ Having(n, 1) = First(B)
  BY <1>1, <1>4 DEF Having, SelectInSeq, First
<1>6. A \subseteq Nat \ {0} /\ B \subseteq Nat \ {0}
  BY <1>3, <1>4
<1>7. /\ First(A) = 0 <=> A = {}
      /\ A # {} => First(A) \in A
      /\ First(B) = 0 <=> B = {}
      /\ B # {} => First(B) \in B
  BY <1>6, FirstFacts
<1>8. \A i : i \in There(p, n) <=> i \in A \/ i \in B
  BY <1>2, <1>3, <1>4 DEF There
<1>9. FindInput(n) = IF First(A) # 0 THEN First(A) ELSE First(B)
  BY <1>5 DEF FindInput
<1>10. QED
  BY <1>1, <1>7, <1>8, <1>9

(* What the search promises follows.                                       *)
LEMMA KeptFound == ParamsKept => SearchAsPlain
<1> SUFFICES ASSUME ParamsKept, req.status = "ok"
             PROVE  /\ req.task # 0 => req.ipars[req.task].name = tasked
                    /\ \A n \in Names :
                           LET there == There(req.ipars, n)
                           IN /\ (FindInput(n) = 0) = (there = {})
                              /\ assigned[n] # <<>> =>
                                     \E i \in there : req.ipars[i].value = assigned[n]
                              /\ (assigned[n] # <<>> /\ Cardinality(there) = 1) =>
                                     /\ req.ipars[FindInput(n)].value = assigned[n]
                                     /\ (req.task # 0 /\ tasked = n) =>
                                            req.ipars[req.task].value = assigned[n]
  BY DEF SearchAsPlain, There
<1>1. /\ req.task # 0 => req.task \in There(req.ipars, tasked)
      /\ req.task # 0 => req.ipars[req.task].name = tasked
  BY DEF ParamsKept, There
<1>2. ASSUME NEW n \in Names, NEW there, there = There(req.ipars, n)
      PROVE /\ (FindInput(n) = 0) = (there = {})
            /\ assigned[n] # <<>> => \E i \in there : req.ipars[i].value = assigned[n]
            /\ (assigned[n] # <<>> /\ Cardinality(there) = 1) =>
                   /\ req.ipars[FindInput(n)].value = assigned[n]
                   /\ (req.task # 0 /\ tasked = n) => req.ipars[req.task].value = assigned[n]
  <2>1. /\ FindInput(n) = 0 <=> there = {}
        /\ FindInput(n) # 0 => FindInput(n) \in there
    BY <1>2, FindInputFacts
  <2>2. assigned[n] # <<>> => \E i \in there : req.ipars[i].value = assigned[n]
    BY <1>2 DEF ParamsKept
  <2>3. ASSUME assigned[n] # <<>>, Cardinality(there) = 1
        PROVE /\ req.ipars[FindInput(n)].value = assigned[n]
              /\ (req.task # 0 /\ tasked = n) => req.ipars[req.task].value = assigned[n]
    <3>1. PICK i \in there : req.ipars[i].value = assigned[n]
      BY <2>2, <2>3
    <3>2. PICK z : z = Len(req.ipars)
      OBVIOUS
    <3>3. z \in Nat /\ DOMAIN req.ipars = 1 .. z
      BY <3>2, IsSeqFacts DEF ParamsKept
    <3>4. IsFiniteSet(there)
      <4>1. there \subseteq 1 .. z
        BY <1>2, <3>3 DEF There
      <4>2. IsFiniteSet(1 .. z)
        BY <3>3, FS_Interval
      <4>3. QED
        BY <4>1, <4>2, FS_Subset
    <3>5. PICK j : there = {j}
      BY <2>3, <3>4, FS_Singleton
    <3>6. FindInput(n) = i
      BY <2>1, <3>1, <3>5
    <3>7. ASSUME req.task # 0, tasked = n PROVE req.task = i
      <4>1. req.task \in there
        BY <1>1, <1>2, <3>7
      <4>2. QED
        BY <3>1, <3>5, <4>1
    <3>8. QED
      BY <3>1, <3>6, <3>7
  <2>4. QED
    BY <2>1, <2>2, <2>3
<1>3. QED
  BY <1>1, <1>2

(* vely_get_input.                                                         *)
LEMMA GetInputParams ==
  ASSUME ParamsKept, GetInput
  PROVE  ParamsKept'
<1>1. PICK r \in Requests : req' = Input(r)
  BY DEF GetInput
<1>2. assigned' = assigned /\ DOMAIN assigned = Names /\ \A n \in Names : assigned[n] = <<>>
  BY DEF GetInput, ParamsKept
<1>3. /\ DOMAIN req' = DOMAIN NoRequest
      /\ req'.status \in {"refused", "options", "undefined", "ok"}
  BY <1>1, InputCookies
<1>4. CASE req'.status = "ok"
  <2>1. Unasked(req'.ipars) /\ req'.task = 0
    BY <1>1, <1>4, InputParams
  <2>2. ASSUME NEW i \in DOMAIN req'.ipars
        PROVE /\ DOMAIN req'.ipars[i] = {"name", "value", "found"}
              /\ req'.ipars[i].found \in {0, 1}
    <3>1. PICK n, v : req'.ipars[i] = Param(n, v)
      BY <2>1 DEF Unasked
    <3>2. QED
      BY <3>1 DEF Param
  <2>3. IsSeq(req'.ipars)
    BY <2>1 DEF Unasked
  <2>4. QED
    BY <1>2, <1>3, <1>4, <2>1, <2>2, <2>3 DEF ParamsKept
<1>5. CASE req'.status # "ok"
  BY <1>2, <1>3, <1>5 DEF ParamsKept
<1>6. QED
  BY <1>4, <1>5

(* input-param marks what it finds.                                        *)
LEMMA InputParamParams ==
  ASSUME ParamsKept, NEW n \in Names, NEW t \in BOOLEAN, InputParam(n, t)
  PROVE  ParamsKept'
<1>1. PICK p, i : p = req.ipars /\ i = FindInput(n)
  OBVIOUS
<1>2. /\ req.status = "ok" /\ assigned' = assigned
      /\ tasked' = IF t THEN n ELSE tasked
      /\ req' = [req EXCEPT !.task = IF t THEN i ELSE @,
                            !.ipars = IF i = 0 THEN @ ELSE [@ EXCEPT ![i].found = 1]]
  BY <1>1 DEF InputParam, Statement
<1>3. PICK q : q = IF i = 0 THEN p ELSE [p EXCEPT ![i].found = 1]
  OBVIOUS
<1>4. /\ DOMAIN req' = DOMAIN NoRequest /\ req'.status = "ok" /\ req'.ipars = q
      /\ req'.task = IF t THEN i ELSE req.task
  BY <1>1, <1>2, <1>3 DEF ParamsKept, NoRequest
<1>5. /\ IsSeq(p) /\ (i # 0 => i \in DOMAIN p)
      /\ \A j \in DOMAIN p : DOMAIN p[j] = {"name", "value", "found"} /\ p[j].found \in {0, 1}
  BY <1>1, <1>2, FindInputFacts DEF ParamsKept, There
<1>6. /\ IsSeq(q) /\ DOMAIN q = DOMAIN p
      /\ \A j \in DOMAIN p : /\ DOMAIN q[j] = {"name", "value", "found"} /\ q[j].found \in {0, 1}
                             /\ q[j].name = p[j].name /\ q[j].value = p[j].value
  <2>1. CASE i = 0
    BY <1>3, <1>5, <2>1
  <2>2. CASE i # 0
    <3>1. PICK e : e = [p[i] EXCEPT !.found = 1]
      OBVIOUS
    <3>2. i \in DOMAIN p /\ q = [p EXCEPT ![i] = e]
      BY <1>3, <1>5, <2>2, <3>1
    <3>3. /\ IsSeq(q) /\ DOMAIN q = DOMAIN p
          /\ q[i] = e /\ \A j \in DOMAIN p : j # i => q[j] = p[j]
      BY <1>5, <3>2, IsSeqExcept
    <3>4. /\ DOMAIN e = {"name", "value", "found"} /\ e.found = 1
          /\ e.name = p[i].name /\ e.value = p[i].value
      BY <1>5, <3>1, <3>2
    <3>5. QED
      BY <1>5, <3>3, <3>4
  <2>3. QED
    BY <2>1, <2>2
<1>7. ASSUME NEW m \in Names, assigned'[m] # <<>>
      PROVE \E j \in There(q, m) : q[j].value = assigned'[m]
  <2>1. PICK j \in There(p, m) : p[j].value = assigned[m]
    BY <1>1, <1>2, <1>7 DEF ParamsKept
  <2>2. j \in DOMAIN p /\ p[j].name = m
    BY <2>1 DEF There
  <2>3. QED
    BY <1>2, <1>6, <2>1, <2>2 DEF There
<1>8. req'.task # 0 => req'.task \in There(q, tasked')
  <2>1. \A m : There(q, m) = There(p, m)
    BY <1>6 DEF There
  <2>2. i # 0 => i \in There(p, n)
    BY <1>1, <1>2, FindInputFacts
  <2>3. req.task # 0 => req.task \in There(p, tasked)
    BY <1>1, <1>2 DEF ParamsKept
  <2>4. QED
    BY <1>2, <1>4, <2>1, <2>2, <2>3
<1>9. QED
  BY <1>2, <1>4, <1>6, <1>7, <1>8 DEF ParamsKept

(* set-input changes what a search finds, or adds a parameter.             *)
LEMMA SetInputParams ==
  ASSUME ParamsKept, NEW n \in Names, NEW v \in Values, SetInput(n, v)
  PROVE  ParamsKept'
<1>1. PICK p, i : p = req.ipars /\ i = FindInput(n)
  OBVIOUS
<1>2. /\ req.status = "ok" /\ assigned' = [assigned EXCEPT ![n] = v] /\ tasked' = tasked
      /\ req' = [req EXCEPT !.ipars = IF i = 0 THEN Append(@, Param(n, v))
                                      ELSE [@ EXCEPT ![i].value = v, ![i].found = 0]]
  BY <1>1 DEF SetInput, Statement
<1>3. PICK q : q = IF i = 0 THEN Append(p, Param(n, v))
                   ELSE [p EXCEPT ![i].value = v, ![i].found = 0]
  OBVIOUS
<1>4. /\ DOMAIN req' = DOMAIN NoRequest /\ req'.status = "ok" /\ req'.ipars = q
      /\ req'.task = req.task
  BY <1>1, <1>2, <1>3 DEF ParamsKept, NoRequest
<1>5. /\ IsSeq(p) /\ (i # 0 => i \in There(p, n)) /\ (i = 0 => There(p, n) = {})
      /\ \A j \in DOMAIN p : DOMAIN p[j] = {"name", "value", "found"} /\ p[j].found \in {0, 1}
  BY <1>1, <1>2, FindInputFacts DEF ParamsKept
<1>6. \E k : /\ IsSeq(q) /\ k \in DOMAIN q /\ (\A j \in DOMAIN p : j \in DOMAIN q)
             /\ \A j \in DOMAIN q : j = k \/ j \in DOMAIN p
             /\ \A j \in DOMAIN p : j # k => q[j] = p[j]
             /\ DOMAIN q[k] = {"name", "value", "found"} /\ q[k].found = 0
             /\ q[k].name = n /\ q[k].value = v
             /\ k \in DOMAIN p => p[k].name = n
  <2>1. CASE i = 0
    <3>1. PICK k, e : k = Len(p) + 1 /\ e = Param(n, v)
      OBVIOUS
    <3>2. IsSeq(p) /\ q = Append(p, e)
      BY <1>3, <1>5, <2>1, <3>1
    <3>3. IsSeq(q)
      BY <3>1, <3>2, IsSeqAppend
    <3>4. k \in DOMAIN q /\ k \notin DOMAIN p
      BY <3>1, <3>2, IsSeqAppend
    <3>5. \A j : j \in DOMAIN q <=> j \in DOMAIN p \/ j = k
      BY <3>1, <3>2, IsSeqAppend
    <3>6. q[k] = e
      BY <3>1, <3>2, IsSeqAppend
    <3>7. \A j \in DOMAIN p : q[j] = p[j]
      BY <3>1, <3>2, IsSeqAppend
    <3>8. /\ DOMAIN e = {"name", "value", "found"} /\ e.found = 0
          /\ e.name = n /\ e.value = v
      BY <3>1 DEF Param
    <3>9. QED
      BY <3>3, <3>4, <3>5, <3>6, <3>7, <3>8
  <2>2. CASE i # 0
    <3>1. PICK e : e = [p[i] EXCEPT !.value = v, !.found = 0]
      OBVIOUS
    <3>2. i \in DOMAIN p /\ p[i].name = n
      BY <1>5, <2>2 DEF There
    <3>3. q = [p EXCEPT ![i] = e]
      BY <1>3, <2>2, <3>1, <3>2
    <3>4. /\ IsSeq(q) /\ DOMAIN q = DOMAIN p
          /\ q[i] = e /\ \A j \in DOMAIN p : j # i => q[j] = p[j]
      BY <1>5, <3>2, <3>3, IsSeqExcept
    <3>5. /\ DOMAIN e = {"name", "value", "found"} /\ e.found = 0
          /\ e.name = n /\ e.value = v
      BY <1>5, <3>1, <3>2
    <3>6. QED
      BY <3>2, <3>4, <3>5
  <2>3. QED
    BY <2>1, <2>2
<1>7. PICK k : /\ IsSeq(q) /\ k \in DOMAIN q /\ (\A j \in DOMAIN p : j \in DOMAIN q)
               /\ \A j \in DOMAIN q : j = k \/ j \in DOMAIN p
               /\ \A j \in DOMAIN p : j # k => q[j] = p[j]
               /\ DOMAIN q[k] = {"name", "value", "found"} /\ q[k].found = 0
               /\ q[k].name = n /\ q[k].value = v
               /\ k \in DOMAIN p => p[k].name = n
  BY <1>6
<1>8. ASSUME NEW m \in Names, assigned'[m] # <<>>
      PROVE \E j \in There(q, m) : q[j].value = assigned'[m]
  <2>1. CASE m = n
    <3>1. assigned'[m] = v
      BY <1>2, <2>1 DEF ParamsKept
    <3>2. QED
      BY <1>7, <2>1, <3>1 DEF There
  <2>2. CASE m # n
    <3>1. assigned'[m] = assigned[m]
      BY <1>2, <2>2 DEF ParamsKept
    <3>2. PICK j \in There(p, m) : p[j].value = assigned[m]
      BY <1>1, <1>2, <1>8, <3>1 DEF ParamsKept
    <3>3. j \in DOMAIN p /\ p[j].name = m /\ j # k
      BY <1>7, <2>2, <3>2 DEF There
    <3>4. QED
      BY <1>7, <3>1, <3>2, <3>3 DEF There
  <2>3. QED
    BY <2>1, <2>2
<1>9. \A j \in DOMAIN q : DOMAIN q[j] = {"name", "value", "found"} /\ q[j].found \in {0, 1}
  BY <1>5, <1>7
<1>10. req'.task # 0 => req'.task \in There(q, tasked')
  <2>1. ASSUME NEW j \in There(p, tasked) PROVE j \in There(q, tasked)
    <3>1. j \in DOMAIN p /\ p[j].name = tasked
      BY DEF There
    <3>2. CASE j = k
      BY <1>7, <3>1, <3>2 DEF There
    <3>3. CASE j # k
      BY <1>7, <3>1, <3>3 DEF There
    <3>4. QED
      BY <3>2, <3>3
  <2>2. req.task # 0 => req.task \in There(p, tasked)
    BY <1>1, <1>2 DEF ParamsKept
  <2>3. QED
    BY <1>2, <1>4, <2>1, <2>2
<1>11. DOMAIN assigned' = Names
  BY <1>2 DEF ParamsKept
<1>12. QED
  BY <1>4, <1>7, <1>8, <1>9, <1>10, <1>11 DEF ParamsKept

(* The statements on cookies, and output.                                  *)
LEMMA OtherParams ==
  ASSUME ParamsKept, assigned' = assigned, tasked' = tasked, DOMAIN req' = DOMAIN req,
         req'.status \in {req.status, "error"}, req'.ipars = req.ipars, req'.task = req.task
  PROVE  ParamsKept'
BY DEF ParamsKept, There

(* Every step keeps it.                                                    *)
LEMMA ParamsInductive == ParamsKept /\ [NextInput]_input_vars => ParamsKept'
<1> SUFFICES ASSUME ParamsKept, [NextInput]_input_vars PROVE ParamsKept'
  OBVIOUS
<1>1. CASE GetInput
  BY <1>1, GetInputParams
<1>2. ASSUME NEW n \in Names, NEW t \in BOOLEAN, InputParam(n, t) PROVE ParamsKept'
  BY <1>2, InputParamParams
<1>3. ASSUME NEW n \in Names, NEW v \in Values, SetInput(n, v) PROVE ParamsKept'
  BY <1>3, SetInputParams
<1>4. ASSUME NEW n \in CookieNames, NEW v, SetCookie(n, v) PROVE ParamsKept'
  <2>1. /\ assigned' = assigned /\ tasked' = tasked
        /\ req' = ErrorOut \/ req' = [req EXCEPT !.cookies = Placed(n, v)]
    BY <1>4 DEF SetCookie
  <2>2. /\ DOMAIN req' = DOMAIN req /\ req'.status \in {req.status, "error"}
        /\ req'.ipars = req.ipars /\ req'.task = req.task
    BY <2>1 DEF ErrorOut, ParamsKept, NoRequest
  <2>3. QED
    BY <2>1, <2>2, OtherParams
<1>5. ASSUME NEW n \in CookieNames, DeleteCookie(n) PROVE ParamsKept'
  <2>1. /\ assigned' = assigned /\ tasked' = tasked
        /\ \/ req' = [ErrorOut EXCEPT !.cookies = Freed(n)]
           \/ req' = [req EXCEPT !.cookies = Placed(n, "deleted")]
    BY <1>5 DEF DeleteCookie
  <2>2. /\ DOMAIN req' = DOMAIN req /\ req'.status \in {req.status, "error"}
        /\ req'.ipars = req.ipars /\ req'.task = req.task
    BY <2>1 DEF ErrorOut, ParamsKept, NoRequest
  <2>3. QED
    BY <2>1, <2>2, OtherParams
<1>6. CASE Output
  <2>1. assigned' = assigned /\ tasked' = tasked /\ req' = [req EXCEPT !.data_was_output = TRUE]
    BY <1>6 DEF Output
  <2>2. /\ DOMAIN req' = DOMAIN req /\ req'.status \in {req.status, "error"}
        /\ req'.ipars = req.ipars /\ req'.task = req.task
    BY <2>1 DEF ParamsKept, NoRequest
  <2>3. QED
    BY <2>1, <2>2, OtherParams
<1>7. CASE EndRequest
  BY <1>7 DEF EndRequest, ParamsKept, NoRequest
<1>8. CASE UNCHANGED input_vars
  <2>1. assigned' = assigned /\ tasked' = tasked /\ req' = req
    BY <1>8 DEF input_vars
  <2>2. QED
    BY <2>1 DEF ParamsKept
<1>9. QED
  BY <1>1, <1>2, <1>3, <1>4, <1>5, <1>6, <1>7, <1>8 DEF NextInput

(* A parameter that is there is found however often it was asked for, the  *)
(* task stays on the one task-param asked for, and set-input's value is    *)
(* the one that is found.                                                  *)
THEOREM SearchFinds == SpecInput => []SearchAsPlain
<1>1. InitInput => ParamsKept
  BY DEF InitInput, ParamsKept, NoRequest
<1>2. QED
  BY <1>1, KeptFound, ParamsInductive, PTL DEF SpecInput
-----------------------------------------------------------------------------
(* What the parameters are                                                 *)

\* The places of "=" and "&" are those of words.
PlacesIn(u, n) == /\ n \in Nat /\ DOMAIN u = 1 .. n
                  /\ Equals(u) \subseteq 1 .. n /\ Amps(u) \subseteq 1 .. n

(* They are.                                                               *)
LEMMA PlacesFacts ==
  ASSUME NEW u \in Seq(WordSeqs), NEW n, n = Len(u)
  PROVE  PlacesIn(u, n)
<1>1. n \in Nat /\ DOMAIN u = 1 .. n
  BY LenProperties
<1>2. QED
  BY <1>1 DEF PlacesIn, Equals, Amps

(* How many places there are up to the next one.                           *)
LEMMA UpToNext ==
  ASSUME NEW n \in Nat, NEW P, P \subseteq 1 .. n
  PROVE  /\ UpToPlace(P, 0) = 0 /\ UpToPlace(P, n) = Cardinality(P)
         /\ \A k \in 0 .. n : UpToPlace(P, k) \in Nat
         /\ \A k \in 0 .. n - 1 : k + 1 \in P => UpToPlace(P, k + 1) = UpToPlace(P, k) + 1
         /\ \A k \in 0 .. n - 1 : k + 1 \notin P => UpToPlace(P, k + 1) = UpToPlace(P, k)
         /\ \A k \in 0 .. n, e \in P : e <= k => UpToPlace(P, e) \in 1 .. UpToPlace(P, k)
<1>0. \A j \in P : j \in Nat /\ 1 <= j /\ j <= n
  OBVIOUS
<1>1. \A k \in 0 .. n : IsFiniteSet({j \in P : j <= k})
  <2>1. ASSUME NEW k \in 0 .. n PROVE IsFiniteSet({j \in P : j <= k})
    <3>1. IsFiniteSet(1 .. n)
      BY FS_Interval
    <3>2. {j \in P : j <= k} \subseteq 1 .. n
      OBVIOUS
    <3>3. QED
      BY <3>1, <3>2, FS_Subset
  <2>2. QED
    BY <2>1
<1>2. UpToPlace(P, 0) = 0
  <2>1. {j \in P : j <= 0} = {}
    <3>1. \A j \in P : ~(j <= 0)
      BY <1>0
    <3>2. QED
      BY <3>1
  <2>2. QED
    BY <2>1, FS_EmptySet DEF UpToPlace
<1>3. UpToPlace(P, n) = Cardinality(P)
  <2>1. {j \in P : j <= n} = P
    BY <1>0
  <2>2. QED
    BY <2>1 DEF UpToPlace
<1>4. \A k \in 0 .. n : UpToPlace(P, k) \in Nat
  BY <1>1, FS_CardinalityType DEF UpToPlace
<1>5. ASSUME NEW k \in 0 .. n - 1, k + 1 \in P
      PROVE UpToPlace(P, k + 1) = UpToPlace(P, k) + 1
  <2>1. {j \in P : j <= k + 1} = {j \in P : j <= k} \cup {k + 1}
    <3>1. k + 1 <= k + 1 /\ \A j \in P : j <= k + 1 <=> j <= k \/ j = k + 1
      BY <1>0
    <3>2. QED
      BY <1>5, <3>1
  <2>2. k + 1 \notin {j \in P : j <= k} /\ k \in 0 .. n
    OBVIOUS
  <2>3. QED
    BY <1>1, <2>1, <2>2, FS_AddElement DEF UpToPlace
<1>6. ASSUME NEW k \in 0 .. n - 1, k + 1 \notin P
      PROVE UpToPlace(P, k + 1) = UpToPlace(P, k)
  <2>1. {j \in P : j <= k + 1} = {j \in P : j <= k}
    <3>1. \A j \in P : j <= k + 1 <=> j <= k
      BY <1>0, <1>6
    <3>2. QED
      BY <3>1
  <2>2. QED
    BY <2>1 DEF UpToPlace
<1>7. ASSUME NEW k \in 0 .. n, NEW e \in P, e <= k PROVE UpToPlace(P, e) \in 1 .. UpToPlace(P, k)
  <2>1. PICK a, b, c : a = {j \in P : j <= e} /\ b = {j \in P : j <= k} /\ c = {e}
    OBVIOUS
  <2>2. e \in 0 .. n /\ c \subseteq a /\ a \subseteq b
    <3>1. e \in 0 .. n /\ e <= e
      BY <1>0
    <3>2. \A j \in P : j <= e => j <= k
      BY <1>0, <1>7
    <3>3. QED
      BY <2>1, <3>1, <3>2
  <2>3. IsFiniteSet(a) /\ IsFiniteSet(b)
    BY <1>1, <2>1, <2>2
  <2>4. Cardinality(c) = 1
    BY <2>1, FS_Singleton
  <2>5. Cardinality(c) <= Cardinality(a)
    BY <2>2, <2>3, FS_Subset
  <2>6. Cardinality(a) <= Cardinality(b)
    BY <2>2, <2>3, FS_Subset
  <2>7. Cardinality(a) \in Nat /\ Cardinality(b) \in Nat
    BY <2>3, FS_CardinalityType
  <2>8. QED
    BY <2>1, <2>4, <2>5, <2>6, <2>7 DEF UpToPlace
<1>8. QED
  BY <1>2, <1>3, <1>4, <1>5, <1>6, <1>7

(* What no "&" divides, with one more word.                                *)
LEMMA TogetherNext ==
  ASSUME NEW u, NEW n, PlacesIn(u, n), NEW k \in 0 .. n - 1, NEW i \in 0 .. k + 1
  PROVE  Together(u, i, k + 2) <=> Together(u, i, k + 1) /\ (k + 1 \in Amps(u) => i = k + 1)
<1>1. PICK A : A = Amps(u)
  OBVIOUS
<1>2. n \in Nat /\ A \subseteq 1 .. n
  BY <1>1 DEF PlacesIn
<1>3. (\A a \in A : ~(i < a /\ a < k + 2))
        <=> (\A a \in A : ~(i < a /\ a < k + 1)) /\ (k + 1 \in A => i = k + 1)
  BY <1>2
<1>4. QED
  BY <1>1, <1>3 DEF Together

\* After k words the "=" are counted, and it is known whether one stands behind
\* the last "&", and, unless the text is malformed, before each "&".
CutCounted(u, k, s) ==
    /\ DOMAIN s = DOMAIN Uncut
    /\ s.count = UpToPlace(Equals(u), k)
    /\ s.had_equal \in BOOLEAN /\ s.isname = ~s.had_equal
    /\ s.had_equal <=> \E e \in Equals(u) : e <= k /\ Together(u, e, k + 1)
    /\ ~s.malformed => \A a \in Amps(u) : a <= k => \E e \in Equals(u) : e < a /\ Together(u, e, a)

\* Each "=" is alone between two "&".
Alone(u) == \A e, f \in Equals(u) : e < f => ~Together(u, e, f)

\* The string of the name that ends at e.
NameRead(u, e, str) ==
    \E b \in Amps(u) \cup {0} : b < e /\ Together(u, b, e) /\ str = AsName(Text(u, b + 1, e - 1))

\* The strings of a "=" at e, of which the second may not have ended.
PairRead(u, k, s, e) ==
    LET j == UpToPlace(Equals(u), e)
    IN /\ 2 * j - 1 \in DOMAIN s.strings /\ NameRead(u, e, s.strings[2 * j - 1])
       /\ \/ /\ s.had_equal /\ j = s.count /\ Together(u, e, k + 1)
             /\ s.cur = Text(u, e + 1, k)
          \/ /\ 2 * j \in DOMAIN s.strings
             /\ \E a \in Amps(u) : /\ e < a /\ a <= k /\ Together(u, e, a)
                                   /\ s.strings[2 * j] = Text(u, e + 1, a - 1)

\* After k words the strings are two for each "=", of which the last one may be missing.
CutRead(u, k, s) ==
    /\ IsSeq(s.strings)
    /\ Len(s.strings) = 2 * s.count - (IF s.had_equal THEN 1 ELSE 0)
    /\ ~s.had_equal => NameRead(u, k + 1, s.cur)
    /\ \A e \in Equals(u) : e <= k => PairRead(u, k, s, e)

(* What a word does to what was cut.                                       *)
LEMMA CutAtIs ==
  ASSUME NEW s, NEW w
  PROVE  /\ w = Amp => CutAt(s, w) = AfterAmp(s)
         /\ w = Eq => CutAt(s, w) = AfterEq(s)
         /\ w \notin {Amp, Eq} =>
                CutAt(s, w) = [s EXCEPT !.cur = @ \o (IF s.isname THEN AsName(w) ELSE w)]
BY AmpIsNotEq DEF CutAt

(* What is left by "&".                                                    *)
LEMMA AmpLeaves ==
  ASSUME NEW s, DOMAIN s = DOMAIN Uncut, NEW t, t = AfterAmp(s)
  PROVE  /\ DOMAIN t = DOMAIN Uncut
         /\ t.strings = Append(s.strings, s.cur) /\ t.cur = Empty /\ t.count = s.count
         /\ t.had_equal = FALSE /\ t.isname = TRUE
         /\ t.malformed = (s.malformed \/ ~s.had_equal)
  BY DEF AfterAmp, Uncut

(* A "=".                                                                 *)
LEMMA EqLeaves ==
  ASSUME NEW s, DOMAIN s = DOMAIN Uncut, NEW t, t = AfterEq(s)
  PROVE  /\ DOMAIN t = DOMAIN Uncut
         /\ t.strings = Append(s.strings, s.cur) /\ t.cur = Empty /\ t.count = s.count + 1
         /\ t.had_equal = TRUE /\ t.isname = FALSE /\ t.malformed = s.malformed
  BY DEF AfterEq, Uncut

(* Another word.                                                           *)
LEMMA WordLeaves ==
  ASSUME NEW s, DOMAIN s = DOMAIN Uncut, NEW w,
         NEW t, t = [s EXCEPT !.cur = @ \o (IF s.isname THEN AsName(w) ELSE w)]
  PROVE  /\ DOMAIN t = DOMAIN Uncut
         /\ t.strings = s.strings /\ t.cur = s.cur \o (IF s.isname THEN AsName(w) ELSE w)
         /\ t.count = s.count
         /\ t.had_equal = s.had_equal /\ t.isname = s.isname /\ t.malformed = s.malformed
  BY DEF Uncut

(* Nothing was read.                                                       *)
LEMMA UncutIs ==
  ASSUME NEW u \in Seq(WordSeqs)
  PROVE  CutCounted(u, 0, Uncut) /\ CutRead(u, 0, Uncut)
<1>1. PICK n : n = Len(u)
  OBVIOUS
<1>2. PlacesIn(u, n)
  BY <1>1, PlacesFacts
<1>3. n \in Nat /\ \A e : e \in Equals(u) \/ e \in Amps(u) => e \in Nat \ {0}
  BY <1>2 DEF PlacesIn
<1>4. UpToPlace(Equals(u), 0) = 0
  BY <1>2, UpToNext DEF PlacesIn
<1>5. CutCounted(u, 0, Uncut)
  <2>1. Uncut.count = 0 /\ Uncut.had_equal = FALSE /\ Uncut.isname = TRUE
    BY DEF Uncut
  <2>2. \A e : e \in Equals(u) \/ e \in Amps(u) => ~(e <= 0)
    BY <1>3
  <2>3. QED
    BY <1>4, <2>1, <2>2 DEF CutCounted
<1>6. NameRead(u, 1, <<>>)
  <2>1. Text(u, 1, 0) = <<>>
    BY <1>1, <1>3, TextNext
  <2>2. AsName(<<>>) = <<>>
    <3>1. IsSeq(<<>>)
      BY EmptySeq DEF IsSeq
    <3>2. QED
      BY <3>1, AsNameConcat
  <2>3. Together(u, 0, 1)
    BY <1>3 DEF Together
  <2>4. 0 \in Amps(u) \cup {0} /\ 0 < 1 /\ 0 + 1 = 1 /\ 1 - 1 = 0
    OBVIOUS
  <2>5. QED
    BY <2>1, <2>2, <2>3, <2>4 DEF NameRead
<1>7. CutRead(u, 0, Uncut)
  <2>1. IsSeq(<<>>) /\ Len(<<>>) = 0
    BY EmptySeq DEF IsSeq
  <2>2. /\ Uncut.strings = <<>> /\ Uncut.count = 0 /\ Uncut.had_equal = FALSE /\ Uncut.cur = <<>>
    BY DEF Uncut, Empty
  <2>3. \A e \in Equals(u) : ~(e <= 0)
    BY <1>3
  <2>4. 2 * 0 - 0 = 0 /\ 0 + 1 = 1
    OBVIOUS
  <2>5. Len(Uncut.strings) = 2 * Uncut.count - (IF Uncut.had_equal THEN 1 ELSE 0)
    BY <2>1, <2>2, <2>4
  <2>6. NameRead(u, 0 + 1, Uncut.cur)
    BY <1>6, <2>2, <2>4
  <2>7. QED
    BY <2>1, <2>2, <2>3, <2>5, <2>6 DEF CutRead
<1>8. QED
  BY <1>5, <1>7

(* The next word, as far as it is counted.                                 *)
LEMMA CountedNext ==
  ASSUME NEW u \in Seq(WordSeqs), NEW n, n = Len(u), NEW k \in 0 .. n - 1,
         NEW s, CutCounted(u, k, s), NEW t, t = CutAt(s, u[k + 1])
  PROVE  CutCounted(u, k + 1, t)
<1>1. PlacesIn(u, n)
  BY PlacesFacts
<1>2. PICK E, A, w, l : E = Equals(u) /\ A = Amps(u) /\ w = u[k + 1] /\ l = k + 1
  OBVIOUS
<1>3. n \in Nat /\ E \subseteq 1 .. n /\ A \subseteq 1 .. n /\ l \in 1 .. n /\ DOMAIN u = 1 .. n
  BY <1>1, <1>2 DEF PlacesIn
<1>4. (l \in E <=> w = Eq) /\ (l \in A <=> w = Amp) /\ Amp # Eq
  BY <1>2, <1>3 DEF Equals, Amps, Amp, Eq, Sign
<1>5. DOMAIN s = DOMAIN Uncut /\ t = CutAt(s, w)
  BY <1>2 DEF CutCounted
<1>6. /\ l \in E => UpToPlace(E, l) = UpToPlace(E, k) + 1
      /\ l \notin E => UpToPlace(E, l) = UpToPlace(E, k)
  BY <1>2, <1>3, UpToNext
<1>7. \A i \in 0 .. l : Together(u, i, l + 1) <=> Together(u, i, l) /\ (l \in A => i = l)
  <2>1. \A i \in 0 .. k + 1 : Together(u, i, k + 2) <=> Together(u, i, k + 1) /\ (k + 1 \in Amps(u) => i = k + 1)
    BY <1>1, TogetherNext
  <2>2. l + 1 = k + 2
    BY <1>2
  <2>3. QED
    BY <1>2, <2>1, <2>2
<1>8. /\ s.count = UpToPlace(E, k)
      /\ s.had_equal \in BOOLEAN /\ s.isname = ~s.had_equal
      /\ s.had_equal <=> \E e \in E : e <= k /\ Together(u, e, l)
      /\ ~s.malformed => \A a \in A : a <= k => \E e \in E : e < a /\ Together(u, e, a)
  BY <1>2 DEF CutCounted
<1>9. Together(u, l, l)
  BY <1>2, <1>3 DEF Together
<1>10. CASE w = Amp
  <2>0. t = AfterAmp(s)
    BY <1>5, <1>10, CutAtIs
  <2>1. /\ DOMAIN t = DOMAIN Uncut /\ t.had_equal = FALSE /\ t.isname = TRUE /\ t.count = s.count
        /\ t.malformed = (s.malformed \/ ~s.had_equal)
    BY <1>5, <2>0, AmpLeaves
  <2>2. t.count = UpToPlace(E, l)
    BY <1>4, <1>6, <1>8, <1>10, <2>1
  <2>3. ASSUME NEW e \in E, e <= l, Together(u, e, l + 1) PROVE FALSE
    <3>1. e \in 0 .. l /\ e # l
      BY <1>3, <1>4, <1>10, <2>3
    <3>2. QED
      BY <1>4, <1>7, <1>10, <2>3, <3>1
  <2>4. ASSUME ~t.malformed, NEW a \in A, a <= l PROVE \E e \in E : e < a /\ Together(u, e, a)
    <3>1. ~s.malformed /\ s.had_equal
      BY <1>8, <2>1, <2>4
    <3>2. CASE a = l
      <4>1. PICK e \in E : e <= k /\ Together(u, e, l)
        BY <1>8, <3>1
      <4>2. e < l
        BY <1>2, <1>3, <4>1
      <4>3. QED
        BY <3>2, <4>1, <4>2
    <3>3. CASE a # l
      <4>1. a <= k
        BY <1>2, <1>3, <2>4, <3>3
      <4>2. QED
        BY <1>8, <3>1, <4>1
    <3>4. QED
      BY <3>2, <3>3
  <2>5. QED
    BY <1>2, <2>1, <2>2, <2>3, <2>4 DEF CutCounted
<1>11. ASSUME w # Amp, t.malformed = s.malformed, ~t.malformed, NEW a \in A, a <= l
       PROVE \E e \in E : e < a /\ Together(u, e, a)
  <2>1. a <= k
    BY <1>2, <1>3, <1>4, <1>11
  <2>2. QED
    BY <1>8, <1>11, <2>1
<1>12. CASE w = Eq
  <2>0. t = AfterEq(s)
    BY <1>5, <1>12, CutAtIs
  <2>1. /\ DOMAIN t = DOMAIN Uncut /\ t.had_equal = TRUE /\ t.isname = FALSE /\ t.count = s.count + 1
        /\ t.malformed = s.malformed
    BY <1>5, <2>0, EqLeaves
  <2>2. t.count = UpToPlace(E, l)
    BY <1>4, <1>6, <1>8, <1>12, <2>1
  <2>3. l \in E /\ l <= l /\ Together(u, l, l + 1)
    BY <1>3, <1>4, <1>7, <1>9, <1>12
  <2>5. \A a \in A : a <= l /\ ~t.malformed => \E e \in E : e < a /\ Together(u, e, a)
    BY <1>4, <1>11, <1>12, <2>1
  <2>6. QED
    BY <1>2, <2>1, <2>2, <2>3, <2>5 DEF CutCounted
<1>13. CASE w \notin {Amp, Eq}
  <2>0. t = [s EXCEPT !.cur = @ \o (IF s.isname THEN AsName(w) ELSE w)]
    BY <1>5, <1>13, CutAtIs
  <2>1. /\ DOMAIN t = DOMAIN Uncut
        /\ t.had_equal = s.had_equal /\ t.isname = s.isname /\ t.count = s.count /\ t.malformed = s.malformed
    BY <1>5, <2>0, WordLeaves
  <2>2. t.count = UpToPlace(E, l)
    BY <1>4, <1>6, <1>8, <1>13, <2>1
  <2>3. (\E e \in E : e <= k /\ Together(u, e, l)) <=> \E e \in E : e <= l /\ Together(u, e, l + 1)
    <3>1. \A e \in E : (e <= k <=> e <= l) /\ (e <= k => (Together(u, e, l + 1) <=> Together(u, e, l)))
      <4>1. ASSUME NEW e \in E
            PROVE (e <= k <=> e <= l) /\ (e <= k => (Together(u, e, l + 1) <=> Together(u, e, l)))
        <5>1. e # l /\ e \in 1 .. n
          BY <1>3, <1>4, <1>13
        <5>2. e <= k <=> e <= l
          BY <1>2, <1>3, <5>1
        <5>3. e <= k => e \in 0 .. l
          BY <1>2, <1>3, <5>1
        <5>4. QED
          BY <1>4, <1>7, <1>13, <5>2, <5>3
      <4>2. QED
        BY <4>1
    <3>2. QED
      BY <3>1
  <2>4. \A a \in A : a <= l /\ ~t.malformed => \E e \in E : e < a /\ Together(u, e, a)
    BY <1>4, <1>11, <1>13, <2>1
  <2>5. QED
    BY <1>2, <1>8, <2>1, <2>2, <2>3, <2>4 DEF CutCounted
<1>14. QED
  BY <1>10, <1>12, <1>13

(* The next word, as far as it is read.                                    *)
LEMMA ReadNext ==
  ASSUME NEW u \in Seq(WordSeqs), Alone(u), NEW n, n = Len(u), NEW k \in 0 .. n - 1,
         NEW s, CutCounted(u, k, s), CutRead(u, k, s),
         NEW t, t = CutAt(s, u[k + 1]), ~t.malformed
  PROVE  CutRead(u, k + 1, t)
<1>1. PlacesIn(u, n)
  BY PlacesFacts
<1>2. PICK E, A, w, l : E = Equals(u) /\ A = Amps(u) /\ w = u[k + 1] /\ l = k + 1
  OBVIOUS
<1>3. n \in Nat /\ E \subseteq 1 .. n /\ A \subseteq 1 .. n /\ l \in 1 .. n /\ DOMAIN u = 1 .. n
  BY <1>1, <1>2 DEF PlacesIn
<1>4. (l \in E <=> w = Eq) /\ (l \in A <=> w = Amp) /\ Amp # Eq
  BY <1>2, <1>3 DEF Equals, Amps, Amp, Eq, Sign
<1>5. DOMAIN s = DOMAIN Uncut /\ t = CutAt(s, w)
  BY <1>2 DEF CutCounted
<1>6. \A i \in 0 .. l : Together(u, i, l + 1) <=> Together(u, i, l) /\ (l \in A => i = l)
  <2>1. \A i \in 0 .. k + 1 : Together(u, i, k + 2) <=> Together(u, i, k + 1) /\ (k + 1 \in Amps(u) => i = k + 1)
    BY <1>1, TogetherNext
  <2>2. l + 1 = k + 2
    BY <1>2
  <2>3. QED
    BY <1>2, <2>1, <2>2
<1>7. /\ s.count = UpToPlace(E, k) /\ s.count \in Nat
      /\ s.had_equal \in BOOLEAN /\ s.isname = ~s.had_equal
      /\ s.had_equal <=> \E e \in E : e <= k /\ Together(u, e, l)
  <2>1. k \in 0 .. n
    BY <1>3
  <2>2. UpToPlace(E, k) \in Nat
    BY <1>3, <2>1, UpToNext
  <2>3. QED
    BY <1>2, <2>2 DEF CutCounted
<1>8. /\ IsSeq(s.strings)
      /\ Len(s.strings) = 2 * s.count - (IF s.had_equal THEN 1 ELSE 0)
      /\ ~s.had_equal => NameRead(u, l, s.cur)
      /\ \A e \in E : e <= k => PairRead(u, k, s, e)
  BY <1>2 DEF CutRead
<1>9. Together(u, l, l) /\ Together(u, l, l + 1)
  <2>1. Together(u, l, l)
    BY <1>2, <1>3 DEF Together
  <2>2. l \in 0 .. l
    BY <1>3
  <2>3. QED
    BY <1>6, <2>1, <2>2
<1>10. /\ Text(u, l + 1, l) = <<>> /\ AsName(<<>>) = <<>>
       /\ \A i \in 1 .. l : /\ Text(u, i, k) \in WordSeqs /\ w \in WordSeqs
                            /\ Text(u, i, l) = Text(u, i, k) \o w
  <2>1. Text(u, l + 1, l) = <<>>
    <3>1. l + 1 \in 1 .. n + 1 /\ l \in (l + 1) - 1 .. n /\ l = (l + 1) - 1
      BY <1>3
    <3>2. QED
      BY <3>1, TextNext
  <2>2. AsName(<<>>) = <<>>
    <3>1. IsSeq(<<>>)
      BY EmptySeq DEF IsSeq
    <3>2. QED
      BY <3>1, AsNameConcat
  <2>3. ASSUME NEW i \in 1 .. l PROVE Text(u, i, k) \in WordSeqs /\ Text(u, i, l) = Text(u, i, k) \o w
    <3>1. i \in 1 .. n + 1 /\ k \in i - 1 .. n /\ k < n
      BY <1>2, <1>3
    <3>2. QED
      BY <1>2, <3>1, TextNext
  <2>4. w \in WordSeqs
    BY <1>2, <1>3, LenProperties
  <2>5. QED
    BY <2>1, <2>2, <2>3, <2>4
<1>11. ASSUME t.strings = s.strings \/ t.strings = Append(s.strings, s.cur)
       PROVE  /\ IsSeq(t.strings)
              /\ \A i \in DOMAIN s.strings : i \in DOMAIN t.strings /\ t.strings[i] = s.strings[i]
  <2>1. PICK x, c, y, z : x = s.strings /\ c = s.cur /\ y = t.strings /\ z = Len(x) + 1
    OBVIOUS
  <2>2. CASE y = x
    BY <1>8, <2>1, <2>2
  <2>3. CASE y = Append(x, c)
    <3>1. IsSeq(x)
      BY <1>8, <2>1
    <3>2. z = Len(x) + 1
      BY <2>1
    <3>3. IsSeq(y)
      BY <2>3, <3>1, <3>2, IsSeqAppend
    <3>4. \A i \in DOMAIN x : y[i] = x[i]
      BY <2>3, <3>1, <3>2, IsSeqAppend
    <3>5. \A i \in DOMAIN x : i \in DOMAIN y
      BY <2>3, <3>1, <3>2, IsSeqAppend
    <3>6. QED
      BY <2>1, <3>3, <3>4, <3>5
  <2>4. QED
    BY <1>11, <2>1, <2>2, <2>3
<1>12. ASSUME t.strings = Append(s.strings, s.cur), NEW z, z = Len(s.strings) + 1
       PROVE  Len(t.strings) = z /\ z \in DOMAIN t.strings /\ t.strings[z] = s.cur
  <2>1. PICK x, c, y : x = s.strings /\ c = s.cur /\ y = t.strings
    OBVIOUS
  <2>2. IsSeq(x) /\ y = Append(x, c) /\ z = Len(x) + 1
    BY <1>8, <1>12, <2>1
  <2>3. Len(y) = z
    BY <2>2, IsSeqAppend
  <2>4. z \in DOMAIN y
    BY <2>2, IsSeqAppend
  <2>5. y[z] = c
    BY <2>2, IsSeqAppend
  <2>6. QED
    BY <2>1, <2>3, <2>4, <2>5
<1>13. ASSUME t.strings = s.strings \/ t.strings = Append(s.strings, s.cur),
              NEW e \in E, e <= k, NEW j, j = UpToPlace(E, e)
       PROVE  /\ 2 * j - 1 \in DOMAIN t.strings /\ NameRead(u, e, t.strings[2 * j - 1])
              /\ \/ s.had_equal /\ j = s.count /\ Together(u, e, l) /\ s.cur = Text(u, e + 1, k)
                 \/ /\ 2 * j \in DOMAIN t.strings
                    /\ \E a \in A : /\ e < a /\ a <= l /\ Together(u, e, a)
                                    /\ t.strings[2 * j] = Text(u, e + 1, a - 1)
  <2>1. PICK x, y : x = s.strings /\ y = t.strings
    OBVIOUS
  <2>2. \A i \in DOMAIN x : i \in DOMAIN y /\ y[i] = x[i]
    BY <1>11, <1>13, <2>1
  <2>3. PairRead(u, k, s, e)
    BY <1>8, <1>13
  <2>4. /\ 2 * j - 1 \in DOMAIN x /\ NameRead(u, e, x[2 * j - 1])
        /\ \/ s.had_equal /\ j = s.count /\ Together(u, e, l) /\ s.cur = Text(u, e + 1, k)
           \/ /\ 2 * j \in DOMAIN x
              /\ \E a \in A : /\ e < a /\ a <= k /\ Together(u, e, a)
                              /\ x[2 * j] = Text(u, e + 1, a - 1)
    BY <1>2, <1>13, <2>1, <2>3 DEF PairRead
  <2>5. \A a \in A : a <= k => a <= l
    BY <1>2, <1>3
  <2>6. 2 * j - 1 \in DOMAIN y /\ NameRead(u, e, y[2 * j - 1])
    BY <2>2, <2>4
  <2>7. CASE s.had_equal /\ j = s.count /\ Together(u, e, l) /\ s.cur = Text(u, e + 1, k)
    BY <2>1, <2>6, <2>7
  <2>8. CASE /\ 2 * j \in DOMAIN x
             /\ \E a \in A : /\ e < a /\ a <= k /\ Together(u, e, a)
                             /\ x[2 * j] = Text(u, e + 1, a - 1)
    <3>1. 2 * j \in DOMAIN y /\ y[2 * j] = x[2 * j]
      BY <2>2, <2>8
    <3>2. QED
      BY <2>1, <2>5, <2>6, <2>8, <3>1
  <2>9. QED
    BY <2>4, <2>7, <2>8
<1>14. CASE w = Amp
  <2>1. t = AfterAmp(s)
    BY <1>5, <1>14, CutAtIs
  <2>2. /\ t.strings = Append(s.strings, s.cur) /\ t.cur = Empty /\ t.count = s.count
        /\ t.had_equal = FALSE /\ t.malformed = (s.malformed \/ ~s.had_equal)
    BY <1>5, <2>1, AmpLeaves
  <2>3. s.had_equal
    BY <2>2
  <2>4. PICK z : z = Len(s.strings) + 1
    OBVIOUS
  <2>5. z = 2 * s.count /\ Len(t.strings) = z /\ z \in DOMAIN t.strings /\ t.strings[z] = s.cur
    BY <1>7, <1>8, <1>12, <2>2, <2>3, <2>4
  <2>6. IsSeq(t.strings)
    BY <1>11, <2>2
  <2>7. Len(t.strings) = 2 * t.count - (IF t.had_equal THEN 1 ELSE 0)
    BY <1>7, <2>2, <2>5
  <2>8. NameRead(u, l + 1, t.cur)
    <3>1. l \in A \cup {0} /\ l < l + 1 /\ Together(u, l, l + 1) /\ (l + 1) - 1 = l
      BY <1>3, <1>4, <1>9, <1>14
    <3>2. t.cur = AsName(Text(u, l + 1, l))
      BY <1>10, <2>2 DEF Empty
    <3>3. QED
      BY <1>2, <3>1, <3>2 DEF NameRead
  <2>9. ASSUME NEW e \in E, e <= l PROVE PairRead(u, l, t, e)
    <3>1. e <= k
      BY <1>2, <1>3, <1>4, <1>14, <2>9
    <3>2. PICK j : j = UpToPlace(E, e)
      OBVIOUS
    <3>3. /\ 2 * j - 1 \in DOMAIN t.strings /\ NameRead(u, e, t.strings[2 * j - 1])
          /\ \/ s.had_equal /\ j = s.count /\ Together(u, e, l) /\ s.cur = Text(u, e + 1, k)
             \/ /\ 2 * j \in DOMAIN t.strings
                /\ \E a \in A : /\ e < a /\ a <= l /\ Together(u, e, a)
                                /\ t.strings[2 * j] = Text(u, e + 1, a - 1)
      BY <1>13, <2>2, <3>1, <3>2
    <3>4. CASE s.had_equal /\ j = s.count /\ Together(u, e, l) /\ s.cur = Text(u, e + 1, k)
      <4>1. 2 * j \in DOMAIN t.strings /\ t.strings[2 * j] = Text(u, e + 1, l - 1)
        <5>1. l - 1 = k
          BY <1>2
        <5>2. QED
          BY <2>5, <3>4, <5>1
      <4>2. l \in A /\ e < l /\ l <= l
        BY <1>2, <1>3, <1>4, <1>14, <3>1
      <4>3. QED
        BY <1>2, <3>2, <3>3, <3>4, <4>1, <4>2 DEF PairRead
    <3>5. CASE /\ 2 * j \in DOMAIN t.strings
               /\ \E a \in A : /\ e < a /\ a <= l /\ Together(u, e, a)
                               /\ t.strings[2 * j] = Text(u, e + 1, a - 1)
      BY <1>2, <3>2, <3>3, <3>5 DEF PairRead
    <3>6. QED
      BY <3>3, <3>4, <3>5
  <2>10. QED
    BY <1>2, <2>6, <2>7, <2>8, <2>9 DEF CutRead
<1>15. CASE w = Eq
  <2>1. t = AfterEq(s)
    BY <1>5, <1>15, CutAtIs
  <2>2. /\ t.strings = Append(s.strings, s.cur) /\ t.cur = Empty /\ t.count = s.count + 1
        /\ t.had_equal = TRUE
    BY <1>5, <2>1, EqLeaves
  <2>3. l \in E /\ l \notin A
    BY <1>4, <1>15
  <2>4. ~s.had_equal
    <3>1. SUFFICES ASSUME NEW e \in E, e <= k, Together(u, e, l) PROVE FALSE
      BY <1>7
    <3>2. e < l
      BY <1>2, <1>3, <3>1
    <3>3. QED
      BY <1>2, <2>3, <3>1, <3>2 DEF Alone
  <2>5. PICK z : z = Len(s.strings) + 1
    OBVIOUS
  <2>6. z = 2 * s.count + 1 /\ Len(t.strings) = z /\ z \in DOMAIN t.strings /\ t.strings[z] = s.cur
    BY <1>7, <1>8, <1>12, <2>2, <2>4, <2>5
  <2>7. IsSeq(t.strings)
    BY <1>11, <2>2
  <2>8. Len(t.strings) = 2 * t.count - (IF t.had_equal THEN 1 ELSE 0)
    BY <1>7, <2>2, <2>6
  <2>9. ASSUME NEW e \in E, e <= k PROVE PairRead(u, l, t, e)
    <3>1. PICK j : j = UpToPlace(E, e)
      OBVIOUS
    <3>2. /\ 2 * j - 1 \in DOMAIN t.strings /\ NameRead(u, e, t.strings[2 * j - 1])
          /\ 2 * j \in DOMAIN t.strings
          /\ \E a \in A : /\ e < a /\ a <= l /\ Together(u, e, a)
                          /\ t.strings[2 * j] = Text(u, e + 1, a - 1)
      BY <1>13, <2>2, <2>4, <2>9, <3>1
    <3>3. QED
      BY <1>2, <3>1, <3>2 DEF PairRead
  <2>10. PairRead(u, l, t, l)
    <3>1. UpToPlace(E, l) = s.count + 1
      BY <1>2, <1>3, <1>7, <2>3, UpToNext
    <3>2. PICK j : j = UpToPlace(E, l)
      OBVIOUS
    <3>3. j = t.count /\ 2 * j - 1 = z
      BY <1>7, <2>2, <2>6, <3>1, <3>2
    <3>4. 2 * j - 1 \in DOMAIN t.strings /\ NameRead(u, l, t.strings[2 * j - 1])
      BY <1>8, <2>4, <2>6, <3>3
    <3>5. t.cur = Text(u, l + 1, l)
      BY <1>10, <2>2 DEF Empty
    <3>6. QED
      BY <1>2, <1>9, <2>2, <3>2, <3>3, <3>4, <3>5 DEF PairRead
  <2>11. \A e \in E : e <= l => e <= k \/ e = l
    BY <1>2, <1>3
  <2>12. QED
    BY <1>2, <2>2, <2>7, <2>8, <2>9, <2>10, <2>11 DEF CutRead
<1>16. CASE w \notin {Amp, Eq}
  <2>1. t = [s EXCEPT !.cur = @ \o (IF s.isname THEN AsName(w) ELSE w)]
    BY <1>5, <1>16, CutAtIs
  <2>2. /\ t.strings = s.strings /\ t.cur = s.cur \o (IF s.isname THEN AsName(w) ELSE w)
        /\ t.count = s.count /\ t.had_equal = s.had_equal
    <3>1. DOMAIN s = DOMAIN Uncut
      BY <1>5
    <3>2. t.strings = s.strings
      BY <2>1, <3>1, WordLeaves
    <3>3. t.cur = s.cur \o (IF s.isname THEN AsName(w) ELSE w)
      <4>1. PICK d : d = IF s.isname THEN AsName(w) ELSE w
        OBVIOUS
      <4>2. t = [s EXCEPT !.cur = @ \o d]
        BY <2>1, <4>1
      <4>3. "cur" \in DOMAIN s
        BY <3>1 DEF Uncut
      <4>4. t.cur = s.cur \o d
        BY <4>2, <4>3
      <4>5. QED
        BY <4>1, <4>4
    <3>4. t.count = s.count /\ t.had_equal = s.had_equal
      BY <2>1, <3>1, WordLeaves
    <3>5. QED
      BY <3>2, <3>3, <3>4
  <2>3. l \notin A /\ l \notin E
    BY <1>4, <1>16
  <2>4. IsSeq(t.strings) /\ Len(t.strings) = 2 * t.count - (IF t.had_equal THEN 1 ELSE 0)
    BY <1>8, <2>2
  <2>5. ASSUME ~t.had_equal PROVE NameRead(u, l + 1, t.cur)
    <3>1. ~s.had_equal /\ t.cur = s.cur \o AsName(w)
      BY <1>7, <2>2, <2>5
    <3>2. PICK b \in A \cup {0} : b < l /\ Together(u, b, l) /\ s.cur = AsName(Text(u, b + 1, l - 1))
      BY <1>2, <1>8, <3>1 DEF NameRead
    <3>3. b \in 0 .. l /\ b < l + 1 /\ b + 1 \in 1 .. l /\ l - 1 = k /\ (l + 1) - 1 = l
      BY <1>2, <1>3, <3>2
    <3>4. Together(u, b, l + 1)
      BY <1>6, <2>3, <3>2, <3>3
    <3>5. PICK x : x = Text(u, b + 1, k)
      OBVIOUS
    <3>6. x \in WordSeqs /\ w \in WordSeqs /\ Text(u, b + 1, l) = x \o w
      BY <1>10, <3>3, <3>5
    <3>7. IsSeq(x) /\ IsSeq(w)
      BY <3>6 DEF WordSeqs, IsSeq
    <3>8. AsName(x) \o AsName(w) = AsName(x \o w)
      BY <3>7, AsNameConcat
    <3>9. t.cur = AsName(Text(u, b + 1, (l + 1) - 1))
      BY <3>1, <3>2, <3>3, <3>5, <3>6, <3>8
    <3>10. QED
      BY <1>2, <3>2, <3>3, <3>4, <3>9 DEF NameRead
  <2>6. ASSUME NEW e \in E, e <= l PROVE PairRead(u, l, t, e)
    <3>1. e <= k /\ e \in 0 .. l /\ e # l /\ e + 1 \in 1 .. l
      BY <1>2, <1>3, <2>3, <2>6
    <3>2. PICK j : j = UpToPlace(E, e)
      OBVIOUS
    <3>3. /\ 2 * j - 1 \in DOMAIN t.strings /\ NameRead(u, e, t.strings[2 * j - 1])
          /\ \/ s.had_equal /\ j = s.count /\ Together(u, e, l) /\ s.cur = Text(u, e + 1, k)
             \/ /\ 2 * j \in DOMAIN t.strings
                /\ \E a \in A : /\ e < a /\ a <= l /\ Together(u, e, a)
                                /\ t.strings[2 * j] = Text(u, e + 1, a - 1)
      BY <1>13, <2>2, <3>1, <3>2
    <3>4. CASE s.had_equal /\ j = s.count /\ Together(u, e, l) /\ s.cur = Text(u, e + 1, k)
      <4>1. t.had_equal /\ j = t.count
        BY <2>2, <3>4
      <4>2. Together(u, e, l + 1)
        BY <1>6, <2>3, <3>1, <3>4
      <4>3. t.cur = Text(u, e + 1, l)
        BY <1>7, <1>10, <2>2, <3>1, <3>4
      <4>4. QED
        BY <1>2, <3>2, <3>3, <4>1, <4>2, <4>3 DEF PairRead
    <3>5. CASE /\ 2 * j \in DOMAIN t.strings
               /\ \E a \in A : /\ e < a /\ a <= l /\ Together(u, e, a)
                               /\ t.strings[2 * j] = Text(u, e + 1, a - 1)
      BY <1>2, <3>2, <3>3, <3>5 DEF PairRead
    <3>6. QED
      BY <3>3, <3>4, <3>5
  <2>7. QED
    BY <1>2, <2>4, <2>5, <2>6 DEF CutRead
<1>17. QED
  BY <1>14, <1>15, <1>16

(* What the whole text was cut to.                                         *)
LEMMA CutIs ==
  ASSUME NEW u \in Seq(WordSeqs), NEW n, n = Len(u)
  PROVE  /\ CutCounted(u, n, Cut(u))
         /\ Alone(u) /\ ~Cut(u).malformed => CutRead(u, n, Cut(u))
<1> DEFINE IsRead(k, s) == /\ CutCounted(u, k, s)
                           /\ Alone(u) /\ ~s.malformed => CutRead(u, k, s)
<1> HIDE DEF IsRead
<1>1. n \in Nat
  BY LenProperties
<1>2. PICK f : f = CHOOSE g : g = [k \in 0 .. n |-> IF k = 0 THEN Uncut ELSE CutAt(g[k - 1], u[k])]
  OBVIOUS
<1>3. f = [k \in 0 .. n |-> IF k = 0 THEN Uncut ELSE CutAt(f[k - 1], u[k])]
  <2>1. PICK v : v = [k \in 0 .. n |-> IF k = 0 THEN Uncut ELSE CutAt(v[k - 1], u[k])]
    BY <1>1, CutExists
  <2>2. QED
    BY <1>2, <2>1
<1>4. Cut(u) = f[n]
  BY <1>2 DEF Cut
<1>5. PICK S : S = {k \in 0 .. n : IsRead(k, f[k])}
  OBVIOUS
<1>6. 0 \in S
  <2>1. f[0] = Uncut /\ 0 \in 0 .. n
    BY <1>1, <1>3
  <2>2. QED
    BY <1>5, <2>1, UncutIs DEF IsRead
<1>7. ASSUME NEW k \in 0 .. n - 1, k \in S PROVE k + 1 \in S
  <2>1. k + 1 \in 0 .. n /\ k + 1 # 0 /\ (k + 1) - 1 = k
    BY <1>1
  <2>2. PICK s, t, w : s = f[k] /\ t = f[k + 1] /\ w = u[k + 1]
    OBVIOUS
  <2>3. t = CutAt(s, w)
    BY <1>3, <2>1, <2>2
  <2>4. CutCounted(u, k, s) /\ (Alone(u) /\ ~s.malformed => CutRead(u, k, s))
    <3>1. IsRead(k, f[k])
      BY <1>5, <1>7
    <3>2. IsRead(k, s)
      BY <2>2, <3>1, Zenon
    <3>3. QED
      BY <3>2, Zenon DEF IsRead
  <2>5. CutCounted(u, k + 1, t)
    BY <2>2, <2>3, <2>4, CountedNext
  <2>6. ~t.malformed => ~s.malformed
    <3>1. DOMAIN s = DOMAIN Uncut
      BY <2>4 DEF CutCounted
    <3>2. CASE w = Amp
      <4>1. t = AfterAmp(s)
        BY <2>3, <3>2, CutAtIs
      <4>2. t.malformed = (s.malformed \/ ~s.had_equal)
        BY <3>1, <4>1, AmpLeaves
      <4>3. QED
        BY <4>2
    <3>3. CASE w = Eq
      <4>1. t = AfterEq(s)
        BY <2>3, <3>3, CutAtIs
      <4>2. t.malformed = s.malformed
        BY <3>1, <4>1, EqLeaves
      <4>3. QED
        BY <4>2
    <3>4. CASE w \notin {Amp, Eq}
      <4>1. t = [s EXCEPT !.cur = @ \o (IF s.isname THEN AsName(w) ELSE w)]
        BY <2>3, <3>4, CutAtIs
      <4>2. t.malformed = s.malformed
        BY <3>1, <4>1, WordLeaves
      <4>3. QED
        BY <4>2
    <3>5. QED
      BY <3>2, <3>3, <3>4
  <2>7. ASSUME Alone(u), ~t.malformed PROVE CutRead(u, k + 1, t)
    BY <2>2, <2>3, <2>4, <2>6, <2>7, ReadNext
  <2>8. QED
    <3>1. IsRead(k + 1, t)
      BY <2>5, <2>7 DEF IsRead
    <3>2. QED
      BY <1>5, <2>1, <2>2, <3>1
<1>8. n \in S
  <2>1. 0 .. n \subseteq S
    BY <1>1, <1>6, <1>7, UpTo
  <2>2. n \in 0 .. n
    BY <1>1
  <2>3. QED
    BY <2>1, <2>2
<1>9. QED
  <2>1. IsRead(n, f[n])
    BY <1>5, <1>8
  <2>2. IsRead(n, Cut(u))
    BY <1>4, <2>1, Zenon
  <2>3. QED
    BY <2>2, Zenon DEF IsRead

(* The strings that the parameters are made of.                            *)
LEMMA UrlParamIs ==
  ASSUME NEW c, IsSeq(c.strings), NEW n, n = c.count, n \in Nat, NEW j \in 1 .. n,
         NEW p, p = UrlParams(c)[j]
  PROVE  /\ 2 * j - 1 \in DOMAIN c.strings => p.name = c.strings[2 * j - 1]
         /\ 2 * j \in DOMAIN c.strings => p.value = c.strings[2 * j]
         /\ 2 * j = Len(c.strings) + 1 => p.value = c.cur
<1>1. PICK x, cur, y, z, all, m : /\ x = c.strings /\ cur = c.cur /\ y = Append(x, cur)
                                  /\ z = <<Empty, Empty>> /\ all = y \o z /\ m = Len(x)
  OBVIOUS
<1>2. IsSeq(x) /\ m \in Nat /\ DOMAIN x = 1 .. m
  <2>1. IsSeq(x) /\ m = Len(x)
    BY <1>1
  <2>2. QED
    BY <2>1, IsSeqFacts
<1>3. IsSeq(y) /\ Len(y) = m + 1 /\ y[m + 1] = cur /\ \A i \in 1 .. m : y[i] = x[i]
  <2>1. PICK k : k = Len(x) + 1
    OBVIOUS
  <2>2. k = m + 1 /\ y = Append(x, cur)
    BY <1>1, <2>1
  <2>3. IsSeq(y)
    BY <1>2, <2>1, <2>2, IsSeqAppend
  <2>4. Len(y) = k
    BY <1>2, <2>1, <2>2, IsSeqAppend
  <2>5. y[k] = cur
    BY <1>2, <2>1, <2>2, IsSeqAppend
  <2>6. \A i \in DOMAIN x : y[i] = x[i]
    BY <1>2, <2>1, <2>2, IsSeqAppend
  <2>7. QED
    BY <1>2, <2>2, <2>3, <2>4, <2>5, <2>6
<1>4. Len(all) = m + 3 /\ \A i \in 1 .. m + 1 : all[i] = y[i]
  <2>1. PICK e : e = Empty
    OBVIOUS
  <2>2. z \in Seq({e}) /\ Len(z) = 2
    BY <1>1, <2>1
  <2>3. IsSeq(z)
    BY <2>2 DEF IsSeq
  <2>4. PICK a, b : a = m + 1 /\ b = 2
    OBVIOUS
  <2>5. IsSeq(y) /\ IsSeq(z) /\ a = Len(y) /\ b = Len(z) /\ all = y \o z
    BY <1>1, <1>3, <2>2, <2>3, <2>4
  <2>6. Len(all) = a + b
    BY <2>5, ConcatIs
  <2>7. \A i \in 1 .. a : all[i] = y[i]
    BY <2>5, ConcatIs
  <2>8. QED
    BY <1>2, <2>4, <2>6, <2>7
<1>5. /\ p.name = IF 2 * j - 1 <= Len(all) THEN all[2 * j - 1] ELSE Empty
      /\ p.value = IF 2 * j <= Len(all) THEN all[2 * j] ELSE Empty
  BY <1>1 DEF UrlParams, Param
<1>6. ASSUME 2 * j - 1 \in DOMAIN x PROVE p.name = x[2 * j - 1]
  BY <1>2, <1>3, <1>4, <1>5, <1>6
<1>7. ASSUME 2 * j \in DOMAIN x PROVE p.value = x[2 * j]
  BY <1>2, <1>3, <1>4, <1>5, <1>7
<1>8. ASSUME 2 * j = m + 1 PROVE p.value = cur
  BY <1>2, <1>3, <1>4, <1>5, <1>8
<1>9. QED
  BY <1>1, <1>6, <1>7, <1>8

(* The parameters of a URL are right.                                      *)
LEMMA UrlRight ==
  ASSUME NEW u \in Seq(WordSeqs), ~Cut(u).malformed, NEW ps, ps = UrlParams(Cut(u)),
         NEW m, m = Cardinality(Equals(u))
  PROVE  /\ m \in Nat /\ IsSeq(ps) /\ Len(ps) = m
         /\ \A a \in Amps(u) : \E e \in Equals(u) : e < a /\ Together(u, e, a)
         /\ \A e \in Equals(u) : UpToPlace(Equals(u), e) \in 1 .. m
         /\ Alone(u) => \A e \in Equals(u) : PairRight(ps[UpToPlace(Equals(u), e)], u, e)
<1>1. PICK n, c, E, A : n = Len(u) /\ c = Cut(u) /\ E = Equals(u) /\ A = Amps(u)
  OBVIOUS
<1>2. n \in Nat /\ E \subseteq 1 .. n /\ A \subseteq 1 .. n
  BY <1>1, PlacesFacts DEF PlacesIn
<1>3. n \in 0 .. n
  BY <1>2
<1>4. UpToPlace(E, n) = m /\ m \in Nat
  <2>1. UpToPlace(E, n) = Cardinality(E)
    BY <1>2, UpToNext
  <2>2. UpToPlace(E, n) \in Nat
    BY <1>2, <1>3, UpToNext
  <2>3. QED
    BY <1>1, <2>1, <2>2
<1>5. \A e \in E : e <= n /\ UpToPlace(E, e) \in 1 .. m
  <2>1. ASSUME NEW e \in E PROVE e <= n /\ UpToPlace(E, e) \in 1 .. m
    <3>1. e <= n
      BY <1>2
    <3>2. QED
      BY <1>2, <1>3, <1>4, <3>1, UpToNext
  <2>2. QED
    BY <2>1
<1>6. CutCounted(u, n, c) /\ (Alone(u) => CutRead(u, n, c))
  BY <1>1, CutIs
<1>7. c.count = m /\ c.had_equal \in BOOLEAN
  BY <1>1, <1>4, <1>6 DEF CutCounted
<1>8. \A a \in A : \E e \in E : e < a /\ Together(u, e, a)
  <2>1. \A a \in A : a <= n
    BY <1>2
  <2>2. QED
    BY <1>1, <1>6, <2>1 DEF CutCounted
<1>9. IsSeq(ps) /\ Len(ps) = m
  <2>1. c.count \in Nat /\ ps = UrlParams(c)
    BY <1>1, <1>4, <1>7
  <2>2. IsSeq(ps)
    BY <2>1, UrlParamsFacts DEF Unasked
  <2>3. DOMAIN ps = 1 .. m
    BY <1>7, <2>1 DEF UrlParams
  <2>4. PICK l : l = Len(ps)
    OBVIOUS
  <2>5. l \in Nat /\ DOMAIN ps = 1 .. l
    BY <2>2, <2>4, IsSeqFacts
  <2>6. l = m
    <3>1. m > 0 => m \in 1 .. l
      BY <1>4, <2>3, <2>5
    <3>2. l > 0 => l \in 1 .. m
      <4>1. l > 0 => l \in DOMAIN ps
        BY <2>5
      <4>2. QED
        BY <2>3, <4>1
    <3>3. QED
      BY <1>4, <2>5, <3>1, <3>2
  <2>7. QED
    BY <2>2, <2>4, <2>6
<1>10. ASSUME Alone(u), NEW e \in E, NEW j, j = UpToPlace(E, e), NEW p, p = ps[j]
       PROVE PairRight(p, u, e)
  <2>1. PICK x : x = c.strings
    OBVIOUS
  <2>2. /\ IsSeq(x) /\ Len(x) = 2 * m - (IF c.had_equal THEN 1 ELSE 0)
        /\ PairRead(u, n, c, e)
    BY <1>1, <1>5, <1>6, <1>7, <1>10, <2>1 DEF CutRead
  <2>3. j \in 1 .. m
    BY <1>5, <1>10
  <2>4. /\ 2 * j - 1 \in DOMAIN x => p.name = x[2 * j - 1]
        /\ 2 * j \in DOMAIN x => p.value = x[2 * j]
        /\ 2 * j = Len(x) + 1 => p.value = c.cur
    <3>1. /\ IsSeq(c.strings) /\ m = c.count /\ m \in Nat /\ j \in 1 .. m
          /\ p = UrlParams(c)[j]
      BY <1>1, <1>4, <1>7, <1>10, <2>1, <2>2, <2>3
    <3>2. 2 * j - 1 \in DOMAIN c.strings => p.name = c.strings[2 * j - 1]
      BY <3>1, UrlParamIs
    <3>3. 2 * j \in DOMAIN c.strings => p.value = c.strings[2 * j]
      BY <3>1, UrlParamIs
    <3>4. 2 * j = Len(c.strings) + 1 => p.value = c.cur
      BY <3>1, UrlParamIs
    <3>5. QED
      BY <2>1, <3>2, <3>3, <3>4
  <2>5. /\ 2 * j - 1 \in DOMAIN x /\ NameRead(u, e, x[2 * j - 1])
        /\ \/ c.had_equal /\ j = m /\ Together(u, e, n + 1) /\ c.cur = Text(u, e + 1, n)
           \/ /\ 2 * j \in DOMAIN x
              /\ \E a \in A : /\ e < a /\ a <= n /\ Together(u, e, a)
                              /\ x[2 * j] = Text(u, e + 1, a - 1)
    BY <1>1, <1>7, <1>10, <2>1, <2>2 DEF PairRead
  <2>6. PICK b \in A \cup {0} : b < e /\ Together(u, b, e) /\ p.name = AsName(Text(u, b + 1, e - 1))
    BY <1>1, <2>4, <2>5 DEF NameRead
  <2>7. \E a \in A \cup {n + 1} : e < a /\ Together(u, e, a) /\ p.value = Text(u, e + 1, a - 1)
    <3>1. CASE c.had_equal /\ j = m /\ Together(u, e, n + 1) /\ c.cur = Text(u, e + 1, n)
      <4>1. 2 * j = Len(x) + 1
        BY <1>4, <2>2, <3>1
      <4>2. e < n + 1 /\ (n + 1) - 1 = n
        BY <1>2
      <4>3. p.value = Text(u, e + 1, (n + 1) - 1)
        BY <2>4, <3>1, <4>1, <4>2
      <4>4. QED
        BY <3>1, <4>2, <4>3
    <3>2. CASE /\ 2 * j \in DOMAIN x
               /\ \E a \in A : /\ e < a /\ a <= n /\ Together(u, e, a)
                               /\ x[2 * j] = Text(u, e + 1, a - 1)
      BY <2>4, <3>2
    <3>3. QED
      BY <2>5, <3>1, <3>2
  <2>8. PICK a \in A \cup {n + 1} : e < a /\ Together(u, e, a) /\ p.value = Text(u, e + 1, a - 1)
    BY <2>7
  <2>9. e \notin A
    BY <1>1, <1>10 DEF Equals, Amps, Amp, Eq, Sign
  <2>10. Together(u, b, a)
    <3>1. b \in Int /\ a \in Int /\ e \in Int /\ \A i \in A : i \in Int /\ i # e
      BY <1>2, <2>9
    <3>2. /\ \A i \in A : ~(b < i /\ i < e)
          /\ \A i \in A : ~(e < i /\ i < a)
      BY <1>1, <2>6, <2>8 DEF Together
    <3>3. \A i \in A : ~(b < i /\ i < a)
      BY <3>1, <3>2
    <3>4. QED
      BY <1>1, <3>3 DEF Together
  <2>11. QED
    BY <1>1, <2>6, <2>8, <2>10 DEF PairRight
<1>11. QED
  BY <1>1, <1>4, <1>5, <1>8, <1>9, <1>10

\* Where the "=" of a segment is.
FirstSign(seg) == SelectInSeq(seg, LAMBDA w : w = Sign)

\* The parameter of a segment with "=".
SplitParam(seg) == Param(AsName(SubSeq(seg, 1, FirstSign(seg) - 1)),
                         SubSeq(seg, FirstSign(seg) + 1, Len(seg)))

(* It is right.                                                            *)
LEMMA SignSplits ==
  ASSUME NEW segs, NEW t \in DOMAIN segs, NEW seg, seg = segs[t], IsSeq(seg), Contains(seg, Sign),
         NEW p, p = SplitParam(seg)
  PROVE  SegmentRight(p, segs, t)
<1>0. PICK e : e = FirstSign(seg)
  OBVIOUS
<1>1. PICK n, I : n = Len(seg) /\ I = {i \in 1 .. n : seg[i] = Sign}
  OBVIOUS
<1>2. n \in Nat /\ DOMAIN seg = 1 .. n
  BY <1>1, IsSeqFacts
<1>3. I # {} /\ I \subseteq Nat \ {0}
  BY <1>1, <1>2 DEF Contains
<1>4. e = First(I)
  BY <1>0, <1>1 DEF FirstSign, SelectInSeq, First
<1>5. e \in I /\ \A j \in I : e <= j
  <2>1. First(I) \in I
    BY <1>3, FirstFacts
  <2>2. \A j \in I : First(I) <= j
    BY <1>3, FirstFacts
  <2>3. QED
    BY <1>4, <2>1, <2>2
<1>6. e \in DOMAIN seg /\ seg[e] = Sign
  BY <1>1, <1>2, <1>5
<1>7. \A d \in 1 .. e - 1 : seg[d] # Sign
  <2>1. ASSUME NEW d \in 1 .. e - 1, seg[d] = Sign PROVE FALSE
    <3>1. e \in 1 .. n
      BY <1>1, <1>5
    <3>2. d \in 1 .. n /\ ~(e <= d)
      BY <1>2, <3>1
    <3>3. d \in I
      BY <1>1, <2>1, <3>2
    <3>4. QED
      BY <1>5, <3>2, <3>3
  <2>2. QED
    BY <2>1
<1>8. p.name = AsName(SubSeq(seg, 1, e - 1)) /\ p.value = SubSeq(seg, e + 1, Len(seg))
  BY <1>0 DEF SplitParam, Param
<1>9. QED
  BY <1>6, <1>7, <1>8 DEF SegmentRight

\* After k segments, those in P begin a parameter, of which the last one may wait
\* for its value.
PathRead(segs, P, k, s) ==
    /\ DOMAIN s = DOMAIN NoPath
    /\ IsSeq(s.ps)
    /\ s.pending # <<>> <=> k \in P /\ ~Contains(segs[k], Sign)
    /\ s.pending # <<>> => s.pending[1] = AsName(segs[k])
    /\ Len(s.ps) = UpToPlace(P, k) - (IF s.pending = <<>> THEN 0 ELSE 1)
    /\ \A t \in P : t < k \/ (t = k /\ s.pending = <<>>) =>
           /\ UpToPlace(P, t) \in DOMAIN s.ps
           /\ SegmentRight(s.ps[UpToPlace(P, t)], segs, t)

(* A segment is the value of the one before,                               *)
LEMMA ValueAt ==
  ASSUME NEW s, DOMAIN s = DOMAIN NoPath, NEW seg, NEW z, z = PathAt(s, seg), s.pending # <<>>
  PROVE  /\ DOMAIN z = DOMAIN NoPath /\ z.pending = <<>>
         /\ z.ps = Append(s.ps, Param(s.pending[1], seg))
<1>1. z = [ps |-> Append(s.ps, Param(s.pending[1], seg)), pending |-> <<>>]
  BY DEF PathAt
<1>2. QED
  BY <1>1 DEF NoPath

(* or a parameter,                                                         *)
LEMMA ParamAt ==
  ASSUME NEW s, DOMAIN s = DOMAIN NoPath, NEW seg, NEW z, z = PathAt(s, seg), s.pending = <<>>,
         Contains(seg, Sign)
  PROVE  /\ DOMAIN z = DOMAIN NoPath /\ z.pending = <<>>
         /\ z.ps = Append(s.ps, SplitParam(seg))
<1>1. z = [s EXCEPT !.ps = Append(@, SplitParam(seg))]
  BY DEF PathAt, SplitParam, FirstSign
<1>2. QED
  BY <1>1 DEF NoPath

(* or a name.                                                              *)
LEMMA NameAt ==
  ASSUME NEW s, DOMAIN s = DOMAIN NoPath, NEW seg, NEW z, z = PathAt(s, seg), s.pending = <<>>,
         ~Contains(seg, Sign)
  PROVE  /\ DOMAIN z = DOMAIN NoPath /\ z.ps = s.ps
         /\ z.pending # <<>> /\ z.pending[1] = AsName(seg)
<1>1. z = [s EXCEPT !.pending = <<AsName(seg)>>]
  BY DEF PathAt
<1>2. z.pending = <<AsName(seg)>>
  BY <1>1 DEF NoPath
<1>3. QED
  BY <1>1, <1>2 DEF NoPath

(* One more place.                                                         *)
LEMMA UpToStep ==
  ASSUME NEW n \in Nat, NEW P, P \subseteq 1 .. n, NEW k \in 0 .. n - 1, NEW l, l = k + 1
  PROVE  /\ l \in P => UpToPlace(P, l) = UpToPlace(P, k) + 1
         /\ l \notin P => UpToPlace(P, l) = UpToPlace(P, k)
  BY UpToNext

\* The parameter p of the segment e stands behind x, which has those of the others
\* up to segment k.
Grows(segs, n, P, k, m, x, p, e) ==
    /\ n \in Nat /\ P \subseteq 1 .. n /\ k \in 0 .. n /\ m = UpToPlace(P, k)
    /\ IsSeq(x) /\ Len(x) = m - 1
    /\ e \in P /\ UpToPlace(P, e) = m /\ SegmentRight(p, segs, e)
    /\ \A t \in P : t <= k /\ t # e => /\ UpToPlace(P, t) \in DOMAIN x
                                       /\ SegmentRight(x[UpToPlace(P, t)], segs, t)

(* With it the parameters are those of the segments up to k.               *)
LEMMA PathGrows ==
  ASSUME NEW segs, NEW n, NEW P, NEW k, NEW m, NEW x, NEW p, NEW e, Grows(segs, n, P, k, m, x, p, e),
         NEW y, y = Append(x, p)
  PROVE  /\ IsSeq(y) /\ Len(y) = m
         /\ \A t \in P : t <= k => /\ UpToPlace(P, t) \in DOMAIN y
                                   /\ SegmentRight(y[UpToPlace(P, t)], segs, t)
<1>0. /\ n \in Nat /\ P \subseteq 1 .. n /\ k \in 0 .. n /\ m = UpToPlace(P, k)
      /\ IsSeq(x) /\ Len(x) = m - 1
      /\ e \in P /\ UpToPlace(P, e) = m /\ SegmentRight(p, segs, e)
      /\ \A t \in P : t <= k /\ t # e => /\ UpToPlace(P, t) \in DOMAIN x
                                         /\ SegmentRight(x[UpToPlace(P, t)], segs, t)
  BY DEF Grows
<1>1. m \in Nat
  BY <1>0, UpToNext
<1>2. m = Len(x) + 1
  BY <1>0, <1>1
<1>3. IsSeq(y)
  BY <1>0, <1>2, IsSeqAppend
<1>4. Len(y) = m
  BY <1>0, <1>2, IsSeqAppend
<1>5. m \in DOMAIN y
  BY <1>0, <1>2, IsSeqAppend
<1>6. y[m] = p
  BY <1>0, <1>2, IsSeqAppend
<1>7. \A i \in DOMAIN x : y[i] = x[i]
  BY <1>0, <1>2, IsSeqAppend
<1>8. \A i \in DOMAIN x : i \in DOMAIN y
  BY <1>0, <1>2, IsSeqAppend
<1>9. ASSUME NEW t \in P, t <= k
      PROVE UpToPlace(P, t) \in DOMAIN y /\ SegmentRight(y[UpToPlace(P, t)], segs, t)
  <2>1. CASE t = e
    BY <1>0, <1>5, <1>6, <2>1
  <2>2. CASE t # e
    <3>1. UpToPlace(P, t) \in DOMAIN x /\ SegmentRight(x[UpToPlace(P, t)], segs, t)
      BY <1>0, <1>9, <2>2
    <3>2. QED
      BY <1>7, <1>8, <3>1
  <2>3. QED
    BY <2>1, <2>2
<1>10. QED
  BY <1>3, <1>4, <1>9

(* The next segment.                                                       *)
LEMMA PathNext ==
  ASSUME NEW n \in Nat, NEW segs, DOMAIN segs = 1 .. n, \A i \in 1 .. n : IsSeq(segs[i]),
         NEW P, P \subseteq 1 .. n, NEW k \in 0 .. n - 1, NEW l, l = k + 1, NEW seg, seg = segs[l],
         NEW s, PathRead(segs, P, k, s), NEW z, z = PathAt(s, seg), l \in P <=> s.pending = <<>>
  PROVE  PathRead(segs, P, l, z)
<1>1. l \in 1 .. n /\ l \in 0 .. n /\ k \in 0 .. n
  OBVIOUS
<1>2. /\ DOMAIN s = DOMAIN NoPath
      /\ IsSeq(s.ps)
      /\ s.pending # <<>> <=> k \in P /\ ~Contains(segs[k], Sign)
      /\ s.pending # <<>> => s.pending[1] = AsName(segs[k])
      /\ Len(s.ps) = UpToPlace(P, k) - (IF s.pending = <<>> THEN 0 ELSE 1)
      /\ \A t \in P : t < k \/ (t = k /\ s.pending = <<>>) =>
             /\ UpToPlace(P, t) \in DOMAIN s.ps
             /\ SegmentRight(s.ps[UpToPlace(P, t)], segs, t)
  BY DEF PathRead
<1>3. /\ l \in P => UpToPlace(P, l) = UpToPlace(P, k) + 1
      /\ l \notin P => UpToPlace(P, l) = UpToPlace(P, k)
  BY UpToStep
<1>4. PICK x, y, m : x = s.ps /\ y = z.ps /\ m = UpToPlace(P, l)
  OBVIOUS
<1>5. UpToPlace(P, k) \in Nat /\ m \in Nat
  BY <1>1, <1>4, UpToNext
<1>6. \A t \in P : /\ t <= l /\ t # l => t < k \/ t = k
                   /\ t <= l /\ t # k /\ l \notin P => t < k
                   /\ t < l => t <= l /\ (t < k \/ t = k)
                   /\ t = l => t <= l
  <2>1. \A t \in P : t \in Int
    OBVIOUS
  <2>2. k \in Int
    OBVIOUS
  <2>3. QED
    BY <2>1, <2>2
<1>7. ASSUME NEW p, y = Append(x, p), DOMAIN z = DOMAIN NoPath, z.pending = <<>>,
             NEW e \in P, UpToPlace(P, e) = m, SegmentRight(p, segs, e), IsSeq(x), Len(x) = m - 1,
             \A t \in P : t <= l /\ t # e => /\ UpToPlace(P, t) \in DOMAIN x
                                             /\ SegmentRight(x[UpToPlace(P, t)], segs, t),
             l \notin P \/ Contains(seg, Sign)
      PROVE PathRead(segs, P, l, z)
  <2>1. Grows(segs, n, P, l, m, x, p, e)
    BY <1>1, <1>4, <1>7 DEF Grows
  <2>2. IsSeq(y)
    BY <1>7, <2>1, PathGrows
  <2>3. Len(y) = m
    BY <1>7, <2>1, PathGrows
  <2>4. \A t \in P : t <= l => /\ UpToPlace(P, t) \in DOMAIN y
                               /\ SegmentRight(y[UpToPlace(P, t)], segs, t)
    BY <1>7, <2>1, PathGrows
  <2>5. Len(y) = m - 0
    BY <1>5, <2>3
  <2>6. \A t \in P : t < l \/ (t = l /\ z.pending = <<>>) =>
             /\ UpToPlace(P, t) \in DOMAIN y
             /\ SegmentRight(y[UpToPlace(P, t)], segs, t)
    BY <1>6, <2>4
  <2>7. Len(y) = m - (IF z.pending = <<>> THEN 0 ELSE 1)
    BY <1>7, <2>5
  <2>8. z.pending # <<>> <=> l \in P /\ ~Contains(segs[l], Sign)
    BY <1>7
  <2>9. QED
    BY <1>4, <1>7, <2>2, <2>6, <2>7, <2>8 DEF PathRead
<1>8. CASE s.pending # <<>>
  <2>1. PICK p : p = Param(s.pending[1], seg)
    OBVIOUS
  <2>2. DOMAIN z = DOMAIN NoPath /\ y = Append(x, p) /\ z.pending = <<>>
    BY <1>2, <1>4, <1>8, <2>1, ValueAt
  <2>3. SegmentRight(p, segs, k)
    <3>1. p.name = AsName(segs[k]) /\ p.value = segs[k + 1] /\ k + 1 \in DOMAIN segs
      BY <1>1, <1>2, <1>8, <2>1 DEF Param
    <3>2. ~Contains(segs[k], Sign)
      BY <1>2, <1>8
    <3>3. QED
      BY <3>1, <3>2, Zenon DEF SegmentRight
  <2>4. l \notin P /\ k \in P /\ UpToPlace(P, k) = m
    BY <1>2, <1>3, <1>4, <1>8
  <2>5. IsSeq(x) /\ Len(x) = m - 1
    BY <1>2, <1>4, <1>8, <2>4
  <2>6. \A t \in P : t <= l /\ t # k => /\ UpToPlace(P, t) \in DOMAIN x
                                        /\ SegmentRight(x[UpToPlace(P, t)], segs, t)
    BY <1>2, <1>4, <1>6, <2>4
  <2>7. QED
    BY <1>7, <2>2, <2>3, <2>4, <2>5, <2>6
<1>9. CASE s.pending = <<>> /\ Contains(seg, Sign)
  <2>1. PICK p : p = SplitParam(seg)
    OBVIOUS
  <2>2. DOMAIN z = DOMAIN NoPath /\ y = Append(x, p) /\ z.pending = <<>>
    BY <1>2, <1>4, <1>9, <2>1, ParamAt
  <2>3. SegmentRight(p, segs, l)
    BY <1>1, <1>9, <2>1, SignSplits
  <2>4. l \in P /\ m = UpToPlace(P, k) + 1 /\ UpToPlace(P, l) = m
    BY <1>3, <1>4, <1>9
  <2>5. IsSeq(x) /\ Len(x) = m - 1
    BY <1>2, <1>4, <1>5, <1>9, <2>4
  <2>6. \A t \in P : t <= l /\ t # l => /\ UpToPlace(P, t) \in DOMAIN x
                                        /\ SegmentRight(x[UpToPlace(P, t)], segs, t)
    BY <1>2, <1>4, <1>6, <1>9
  <2>7. QED
    BY <1>7, <1>9, <2>2, <2>3, <2>4, <2>5, <2>6
<1>10. CASE s.pending = <<>> /\ ~Contains(seg, Sign)
  <2>1. DOMAIN z = DOMAIN NoPath /\ y = x /\ z.pending # <<>> /\ z.pending[1] = AsName(seg)
    BY <1>2, <1>4, <1>10, NameAt
  <2>2. l \in P /\ m = UpToPlace(P, k) + 1
    BY <1>3, <1>4, <1>10
  <2>3. IsSeq(y) /\ Len(y) = m - 1
    BY <1>2, <1>4, <1>5, <1>10, <2>1, <2>2
  <2>4. \A t \in P : t < l \/ (t = l /\ z.pending = <<>>) =>
             /\ UpToPlace(P, t) \in DOMAIN y
             /\ SegmentRight(y[UpToPlace(P, t)], segs, t)
    BY <1>2, <1>4, <1>6, <1>10, <2>1
  <2>5. Len(y) = m - (IF z.pending = <<>> THEN 0 ELSE 1)
    BY <2>1, <2>3
  <2>6. QED
    BY <1>4, <1>10, <2>1, <2>2, <2>3, <2>4, <2>5 DEF PathRead
<1>11. QED
  BY <1>8, <1>9, <1>10

(* The parameters of the path are right.                                   *)
LEMMA PathIsRight ==
  ASSUME NEW segs \in Seq(WordSeqs)
  PROVE  PathRight(FromPath(segs), segs)
<1>1. PICK n : n = Len(segs)
  OBVIOUS
<1>2. n \in Nat /\ DOMAIN segs = 1 .. n
  BY <1>1, LenProperties
<1>2a. \A i \in 1 .. n : IsSeq(segs[i])
  <2>1. \A i \in 1 .. n : segs[i] \in WordSeqs
    BY <1>1, LenProperties
  <2>2. QED
    BY <2>1 DEF WordSeqs, IsSeq
<1>3. PICK f : f = CHOOSE g : g = [k \in 0 .. n |-> IF k = 0 THEN NoPath ELSE PathAt(g[k - 1], segs[k])]
  OBVIOUS
<1>4. f = [k \in 0 .. n |-> IF k = 0 THEN NoPath ELSE PathAt(f[k - 1], segs[k])]
  <2>1. PICK v : v = [k \in 0 .. n |-> IF k = 0 THEN NoPath ELSE PathAt(v[k - 1], segs[k])]
    BY <1>2, PathExists
  <2>2. QED
    BY <1>3, <2>1
<1>5. PathParams(segs) = f[n]
  BY <1>1, <1>3 DEF PathParams
<1>6. PICK P : P = {k \in 1 .. n : f[k - 1].pending = <<>>}
  OBVIOUS
<1>7. P \subseteq 1 .. n
  BY <1>6
<1>8. PICK S : S = {k \in 0 .. n : PathRead(segs, P, k, f[k])}
  OBVIOUS
<1>9. 0 \in S
  <2>1. f[0] = NoPath /\ 0 \in 0 .. n
    BY <1>2, <1>4
  <2>2. NoPath.ps = <<>> /\ NoPath.pending = <<>>
    BY DEF NoPath
  <2>3. IsSeq(<<>>) /\ Len(<<>>) = 0
    BY EmptySeq DEF IsSeq
  <2>4. UpToPlace(P, 0) = 0
    BY <1>2, <1>7, UpToNext
  <2>5. \A t \in P : ~(t < 0) /\ t # 0
    BY <1>2, <1>7
  <2>6. 0 \notin P /\ Len(<<>>) = 0 - 0
    BY <2>3, <2>5
  <2>7. PathRead(segs, P, 0, NoPath)
    BY <2>2, <2>3, <2>4, <2>5, <2>6 DEF PathRead
  <2>8. QED
    BY <1>8, <2>1, <2>7
<1>10. ASSUME NEW k \in 0 .. n - 1, k \in S PROVE k + 1 \in S
  <2>1. k + 1 \in 0 .. n /\ k + 1 # 0 /\ (k + 1) - 1 = k /\ k + 1 \in 1 .. n
    BY <1>2
  <2>2. PICK s, l, z, seg : s = f[k] /\ l = k + 1 /\ z = f[l] /\ seg = segs[l]
    OBVIOUS
  <2>3. z = PathAt(s, seg)
    BY <1>4, <2>1, <2>2
  <2>4. PathRead(segs, P, k, s)
    BY <1>8, <1>10, <2>2
  <2>5. l \in P <=> s.pending = <<>>
    BY <1>6, <2>1, <2>2
  <2>6. PathRead(segs, P, l, z)
    BY <1>2, <1>2a, <1>7, <2>2, <2>3, <2>4, <2>5, PathNext
  <2>7. QED
    BY <1>8, <2>1, <2>2, <2>6
<1>11. \A k \in 0 .. n : PathRead(segs, P, k, f[k])
  <2>1. 0 .. n \subseteq S
    BY <1>2, <1>9, <1>10, UpTo
  <2>2. QED
    BY <1>8, <2>1
<1>12. ASSUME NEW t \in DOMAIN segs
       PROVE t \in P <=> ~(t - 1 \in P /\ ~Contains(segs[t - 1], Sign))
  <2>1. PICK k : k = t - 1
    OBVIOUS
  <2>2. t \in 1 .. n /\ k \in 0 .. n
    BY <1>2, <2>1
  <2>3. PathRead(segs, P, k, f[k])
    BY <1>11, <2>2
  <2>4. f[k].pending # <<>> <=> k \in P /\ ~Contains(segs[k], Sign)
    BY <2>3 DEF PathRead
  <2>5. t \in P <=> f[k].pending = <<>>
    BY <1>6, <2>1, <2>2
  <2>6. QED
    BY <2>1, <2>4, <2>5
<1>13. PICK s, x, ps, m, z : /\ s = f[n] /\ x = s.ps /\ ps = FromPath(segs) /\ m = UpToPlace(P, n)
                             /\ z = <<"true">>
  OBVIOUS
<1>14. m = Cardinality(P) /\ m \in Nat
  <2>1. UpToPlace(P, n) = Cardinality(P)
    BY <1>2, <1>7, UpToNext
  <2>2. n \in 0 .. n
    BY <1>2
  <2>3. UpToPlace(P, n) \in Nat
    BY <1>2, <1>7, <2>2, UpToNext
  <2>4. QED
    BY <1>13, <2>1, <2>3
<1>15. PathRead(segs, P, n, s)
  BY <1>2, <1>11, <1>13
<1>16. /\ IsSeq(x)
       /\ s.pending # <<>> <=> n \in P /\ ~Contains(segs[n], Sign)
       /\ s.pending # <<>> => s.pending[1] = AsName(segs[n])
       /\ Len(x) = m - (IF s.pending = <<>> THEN 0 ELSE 1)
       /\ \A t \in P : t < n \/ (t = n /\ s.pending = <<>>) =>
              UpToPlace(P, t) \in DOMAIN x /\ SegmentRight(x[UpToPlace(P, t)], segs, t)
  BY <1>13, <1>15 DEF PathRead
<1>17. Len(ps) = m /\ \A t \in P : SegmentRight(ps[UpToPlace(P, t)], segs, t)
  <2>1. CASE s.pending = <<>>
    <3>1. ps = x
      BY <1>5, <1>13, <2>1 DEF FromPath
    <3>2. \A t \in P : t < n \/ t = n
      BY <1>2, <1>7
    <3>3. Len(x) = m
      BY <1>14, <1>16, <2>1
    <3>4. QED
      BY <1>16, <2>1, <3>1, <3>2, <3>3
  <2>2. CASE s.pending # <<>>
    <3>1. PICK p : p = Param(s.pending[1], z)
      OBVIOUS
    <3>2. ps = Append(x, p)
      BY <1>5, <1>13, <2>2, <3>1, Zenon DEF FromPath
    <3>3. n + 1 \notin DOMAIN segs /\ n \in P /\ n \in 0 .. n
      BY <1>2, <1>16, <2>2
    <3>4. SegmentRight(p, segs, n)
      <4>1. p.name = AsName(segs[n]) /\ p.value = z
        BY <1>16, <2>2, <3>1 DEF Param
      <4>2. ~Contains(segs[n], Sign)
        BY <1>16, <2>2
      <4>3. QED
        BY <1>13, <3>3, <4>1, <4>2, Zenon DEF SegmentRight
    <3>5. Len(x) = m - 1 /\ m = UpToPlace(P, n)
      BY <1>13, <1>14, <1>16, <2>2
    <3>6. \A t \in P : t <= n /\ t # n => /\ UpToPlace(P, t) \in DOMAIN x
                                          /\ SegmentRight(x[UpToPlace(P, t)], segs, t)
      <4>1. \A t \in P : t <= n /\ t # n => t < n
        BY <1>2, <1>7
      <4>2. QED
        BY <1>16, <4>1
    <3>7. Grows(segs, n, P, n, m, x, p, n)
      BY <1>2, <1>7, <1>13, <1>16, <3>3, <3>4, <3>5, <3>6 DEF Grows
    <3>8. Len(ps) = m /\ \A t \in P : t <= n => SegmentRight(ps[UpToPlace(P, t)], segs, t)
      BY <3>2, <3>7, PathGrows
    <3>9. \A t \in P : t <= n
      BY <1>2, <1>7
    <3>10. QED
      BY <3>8, <3>9
  <2>3. QED
    BY <2>1, <2>2
<1>18. QED
  <2>1. P \in SUBSET DOMAIN segs
    BY <1>2, <1>7
  <2>2. QED
    BY <1>12, <1>13, <1>14, <1>17, <2>1 DEF PathRight

(* What stands behind the first of two sequences.                          *)
LEMMA BehindIs ==
  ASSUME NEW s, IsSeq(s), NEW t, IsSeq(t), NEW m, m = Len(s), NEW u, u = s \o t, NEW z, z = Len(u),
         NEW k, k = m + 1
  PROVE  SubSeq(u, k, z) = t
<1>1. PICK n : n = Len(t)
  OBVIOUS
<1>2. m \in Nat /\ n \in Nat /\ z = m + n
  <2>1. m \in Nat
    BY <1>1, ConcatIs
  <2>2. n \in Nat
    BY <1>1, ConcatIs
  <2>3. Len(u) = m + n
    BY <1>1, ConcatIs
  <2>4. QED
    BY <2>1, <2>2, <2>3
<1>3. \A i \in 1 .. n : u[m + i] = t[i]
  BY <1>1, ConcatIs
<1>4. IsSeq(u)
  BY <1>1, ConcatIs
<1>5. PICK S, v : u \in Seq(S) /\ v = SubSeq(u, k, z)
  BY <1>4 DEF IsSeq
<1>6. DOMAIN u = 1 .. z
  BY <1>5, LenProperties
<1>7. k \in Int /\ z \in Int /\ \A i \in k .. z : u[i] \in S
  <2>1. \A i \in k .. z : i \in 1 .. z
    BY <1>2
  <2>2. QED
    BY <1>2, <1>5, <1>6, <2>1, LenProperties
<1>8. /\ v \in Seq(S) /\ Len(v) = IF k <= z THEN z - k + 1 ELSE 0
      /\ \A i \in 1 .. z - k + 1 : v[i] = u[k + i - 1]
  BY <1>5, <1>7, SubSeqProperties
<1>9. /\ Len(v) = n /\ z - k + 1 = n /\ \A i \in 1 .. n : k + i - 1 = m + i
  BY <1>2, <1>8
<1>10. IsSeq(v) /\ \A i \in 1 .. n : v[i] = t[i]
  BY <1>3, <1>8, <1>9 DEF IsSeq
<1>11. v = t
  BY <1>1, <1>9, <1>10, SameSeq
<1>12. QED
  BY <1>5, <1>11

(* A request is read as a whole, or refused.                               *)
LEMMA InputUncorrupted ==
  ASSUME NEW r \in Requests, Input(r).status = "ok"
  PROVE  ~Cut(Url(r)).malformed
<1>1. PICK new, cut, ps : /\ new = [NoRequest EXCEPT !.cookies = Received(r)]
                          /\ cut = Cut(Url(r)) /\ ps = UrlParams(cut)
  OBVIOUS
<1>2. DOMAIN new = {"status", "ipars", "task", "name", "cookies", "data_was_output"}
  BY <1>1 DEF NoRequest
<1>3. \/ Input(r) = [new EXCEPT !.status = "refused", !.data_was_output = TRUE]
      \/ Input(r) = [new EXCEPT !.status = "options", !.data_was_output = TRUE]
      \/ Input(r) = [new EXCEPT !.status = "undefined"]
      \/ ~cut.malformed
  BY <1>1 DEF Input
<1>4. "status" \in DOMAIN new
  BY <1>2
<1>5. /\ Input(r) # [new EXCEPT !.status = "refused", !.data_was_output = TRUE]
      /\ Input(r) # [new EXCEPT !.status = "options", !.data_was_output = TRUE]
      /\ Input(r) # [new EXCEPT !.status = "undefined"]
  BY <1>4
<1>6. ~cut.malformed
  BY <1>3, <1>5, Zenon
<1>7. QED
  BY <1>1, <1>6

(* The parameters of a request are right.                                  *)
LEMMA InputRight ==
  ASSUME given \in Requests, req = Input(given)
  PROVE  ParamsRight
<1>1. SUFFICES ASSUME req.status = "ok" PROVE ParamsRight
  BY DEF ParamsRight
<1>2. PICK u, segs, c, E, A : /\ u = Url(given) /\ segs = ParamSegs(given) /\ c = Cut(u)
                              /\ E = Equals(u) /\ A = Amps(u)
  OBVIOUS
<1>3. PICK ps, qs, all, m, z : /\ ps = UrlParams(c) /\ qs = FromPath(segs) /\ all = req.ipars
                               /\ m = Cardinality(E) /\ z = Len(all)
  OBVIOUS
<1>4. u \in Seq(WordSeqs) /\ segs \in Seq(WordSeqs) /\ ~c.malformed
  BY <1>1, <1>2, UrlIsText, ParamSegsAreText, InputUncorrupted
<1>5. all = ps \o qs
  BY <1>1, <1>2, <1>3, InputCookies
<1>6. /\ m \in Nat /\ IsSeq(ps) /\ Len(ps) = m
      /\ \A a \in A : \E e \in E : e < a /\ Together(u, e, a)
      /\ \A e \in E : UpToPlace(E, e) \in 1 .. m
      /\ Alone(u) => \A e \in E : PairRight(ps[UpToPlace(E, e)], u, e)
  BY <1>2, <1>3, <1>4, UrlRight
<1>7. IsSeq(qs)
  <2>1. Len(segs) \in Nat
    BY <1>4, LenProperties
  <2>2. QED
    BY <1>3, <2>1, FromPathFacts DEF Unasked
<1>8. PathRight(SubSeq(all, m + 1, z), segs)
  <2>1. SubSeq(all, m + 1, z) = qs
    <3>1. m = Len(ps)
      BY <1>6
    <3>2. IsSeq(ps) /\ IsSeq(qs) /\ all = ps \o qs /\ z = Len(all)
      BY <1>3, <1>5, <1>6, <1>7
    <3>3. PICK k : k = m + 1
      OBVIOUS
    <3>4. SubSeq(all, k, z) = qs
      BY <3>1, <3>2, <3>3, BehindIs
    <3>5. QED
      BY <3>3, <3>4
  <2>2. QED
    BY <1>3, <1>4, <2>1, PathIsRight
<1>9. ASSUME Alone(u), NEW e \in E PROVE PairRight(all[UpToPlace(E, e)], u, e)
  <2>1. PICK j, n : j = UpToPlace(E, e) /\ n = Len(qs)
    OBVIOUS
  <2>2. m = Len(ps)
    BY <1>6
  <2>3. \A i \in 1 .. m : all[i] = ps[i]
    BY <1>5, <1>6, <1>7, <2>1, <2>2, ConcatIs
  <2>4. j \in 1 .. m
    BY <1>6, <2>1
  <2>5. PairRight(ps[j], u, e)
    BY <1>6, <1>9, <2>1
  <2>6. QED
    BY <2>1, <2>3, <2>4, <2>5
<1>10. QED
  BY <1>2, <1>3, <1>6, <1>8, <1>9, Zenon DEF ParamsRight, Alone

\* Before its first statement a request is as vely_get_input left it.
InputUntouched ==
    /\ steps \in Nat
    /\ req.status = "ok" /\ steps = 0 => given \in Requests /\ req = Input(given)

(* Every step keeps it so.                                                 *)
LEMMA UntouchedInductive == InputUntouched /\ [NextInput]_input_vars => InputUntouched'
<1> SUFFICES ASSUME InputUntouched, [NextInput]_input_vars PROVE InputUntouched'
  OBVIOUS
<1>1. steps \in Nat
  BY DEF InputUntouched
<1>2. CASE GetInput
  BY <1>1, <1>2 DEF GetInput, InputUntouched
<1>3. CASE EndRequest
  <2>1. req' = NoRequest /\ steps' = 0
    BY <1>3 DEF EndRequest
  <2>2. req'.status # "ok"
    BY <2>1 DEF NoRequest
  <2>3. QED
    BY <2>1, <2>2 DEF InputUntouched
<1>4. CASE Statement
  <2>1. steps' = steps + 1
    BY <1>4 DEF Statement
  <2>2. steps' \in Nat /\ steps' # 0
    BY <1>1, <2>1
  <2>3. QED
    BY <2>2 DEF InputUntouched
<1>5. CASE UNCHANGED input_vars
  BY <1>5 DEF input_vars, InputUntouched
<1>6. GetInput \/ EndRequest \/ Statement \/ UNCHANGED input_vars
  BY DEF NextInput, InputParam, SetInput, SetCookie, DeleteCookie, Output
<1>7. QED
  BY <1>2, <1>3, <1>4, <1>5, <1>6

(* What vely_get_input makes of the body, the query string and the path is *)
(* right: each "=" of the text gives the parameter of its own pair, each   *)
(* segment of the path is used once, in the order they came in.            *)
THEOREM ParamsAreRight == SpecInput => []ParamsRight
<1>1. InitInput => InputUntouched
  BY DEF InitInput, NoRequest, InputUntouched
<1>2. InputUntouched => ParamsRight
  <2>1. ASSUME InputUntouched, req.status = "ok", steps = 0 PROVE ParamsRight
    BY <2>1, InputRight DEF InputUntouched
  <2>2. ASSUME ~(req.status = "ok" /\ steps = 0) PROVE ParamsRight
    BY <2>2 DEF ParamsRight
  <2>3. QED
    BY <2>1, <2>2
<1>3. QED
  BY <1>1, <1>2, UntouchedInductive, PTL DEF SpecInput
=============================================================================

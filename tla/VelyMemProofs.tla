--------------------------- MODULE VelyMemProofs ---------------------------
(***************************************************************************)
(* Proofs about VelyMem, for any number of addresses, of open-file         *)
(* statements and of table entries.                                        *)
(*                                                                         *)
(* The first part is about the table alone: what vely_add_mem,             *)
(* _vely_set_free and the two status operations do to a well formed table. *)
(* The second part is the inductive invariant of the worker.               *)
(***************************************************************************)
EXTENDS VelyMem, TLAPS

\* A freed entry holds nothing and is no file; entries past vm_curr are blank.
CleanEntries(t) ==
    \A i \in Slot :
        /\ "FREE" \in t.status[i] => t.ptr[i] = NULL /\ "FILE" \notin t.status[i]
        /\ i >= t.curr => t.status[i] = {} /\ t.ptr[i] = NULL

WellFormed(t) == t \in Table /\ ChainExact(t) /\ CleanEntries(t)

\* What two tables have in common away from entry r.
SameElsewhere(t, u, r) ==
    \A i \in Slot \ {r} : /\ u.ptr[i] = t.ptr[i]
                          /\ u.status[i] = t.status[i]
                          /\ InUse(u, i) <=> InUse(t, i)

(* A fresh table is well formed.                                           *)
LEMMA EmptyWellFormed == WellFormed(EmptyTable)
  BY MemAssumption DEF WellFormed, EmptyTable, Table, ChainExact, CleanEntries, Slot, Bits

(* vely_add_mem takes an entry that nobody uses and leaves the others alone.*)
LEMMA AddMemWellFormed ==
  ASSUME NEW t, WellFormed(t), HasRoom(t),
         NEW p \in Blocks \cup Files, NEW process \in BOOLEAN
  PROVE  /\ AddSlot(t) \in Slot
         /\ ~InUse(t, AddSlot(t))
         /\ WellFormed(AddMem(t, p, process))
         /\ InUse(AddMem(t, p, process), AddSlot(t))
         /\ AddMem(t, p, process).ptr[AddSlot(t)] = p
         /\ "FILE" \notin AddMem(t, p, process).status[AddSlot(t)]
         /\ process => "PROCESS" \in AddMem(t, p, process).status[AddSlot(t)]
         /\ t.status[AddSlot(t)] \ {"FREE"}
                \subseteq AddMem(t, p, process).status[AddSlot(t)]
         /\ SameElsewhere(t, AddMem(t, p, process), AddSlot(t))
<1> DEFINE r == AddSlot(t)
           u == AddMem(t, p, process)
           n == Len(t.free)
<1>1. /\ t.ptr \in [Slot -> Blocks \cup Files \cup {NULL}]
      /\ t.status \in [Slot -> SUBSET Bits]
      /\ t.curr \in 0 .. MaxSlots
      /\ t.free \in Seq(Slot)
      /\ n \in Nat
  BY DEF WellFormed, Table
<1>2. CASE t.free # <<>>
  <2>1. n \in 1 .. n /\ n > 0
    BY <1>1, <1>2
  <2>2. r = t.free[n] /\ r \in Slot /\ r < t.curr /\ "FREE" \in t.status[r]
    BY <1>1, <1>2, <2>1 DEF AddSlot, WellFormed, ChainExact
  <2>3. "FILE" \notin t.status[r]
    BY <2>2 DEF WellFormed, CleanEntries
  <2>4. /\ u.ptr = [t.ptr EXCEPT ![r] = p]
        /\ u.status = [t.status EXCEPT ![r] = TakenStatus(t.status[r], process)]
        /\ u.curr = t.curr
        /\ u.free = SubSeq(t.free, 1, n - 1)
    BY <1>2 DEF AddMem
  <2>5. /\ u.free \in Seq(Slot)
        /\ Len(u.free) = n - 1
        /\ \A k \in 1 .. n - 1 : u.free[k] = t.free[k]
    BY <1>1, <2>1, <2>4
  <2>6. u.status[r] \in SUBSET Bits /\ "FREE" \notin u.status[r]
        /\ "FILE" \notin u.status[r]
        /\ (process => "PROCESS" \in u.status[r])
        /\ t.status[r] \ {"FREE"} \subseteq u.status[r]
    BY <1>1, <2>2, <2>3, <2>4 DEF TakenStatus, Bits
  <2>7. SameElsewhere(t, u, r)
    BY <1>1, <2>2, <2>4 DEF SameElsewhere, InUse
  <2>8. u \in Table
    <3>1. u = [ptr |-> u.ptr, status |-> u.status, curr |-> u.curr, free |-> u.free]
      BY DEF AddMem
    <3>2. u.ptr \in [Slot -> Blocks \cup Files \cup {NULL}]
      BY <1>1, <2>4
    <3>3. u.status \in [Slot -> SUBSET Bits]
      BY <1>1, <2>4, <2>6
    <3> QED BY <1>1, <2>4, <2>5, <3>1, <3>2, <3>3 DEF Table
  <2>9. ChainExact(u)
    <3>1. \A k \in 1 .. n - 1 : t.free[k] # r
      BY <1>1, <2>1, <2>2 DEF WellFormed, ChainExact
    <3>2. ASSUME NEW k \in 1 .. Len(u.free)
          PROVE  u.free[k] < u.curr /\ "FREE" \in u.status[u.free[k]]
      BY <1>1, <2>4, <2>5, <3>1 DEF WellFormed, ChainExact
    <3>3. ASSUME NEW j \in 1 .. Len(u.free), NEW k \in 1 .. Len(u.free),
                 u.free[j] = u.free[k]
          PROVE  j = k
      BY <1>1, <2>5, <3>3 DEF WellFormed, ChainExact
    <3>4. ASSUME NEW i \in Slot, i < u.curr, "FREE" \in u.status[i]
          PROVE  \E k \in 1 .. Len(u.free) : u.free[k] = i
      <4>1. i # r /\ "FREE" \in t.status[i] /\ i < t.curr
        BY <1>1, <2>4, <2>6, <3>4
      <4>2. PICK k \in 1 .. n : t.free[k] = i
        BY <4>1 DEF WellFormed, ChainExact
      <4>3. k # n
        BY <4>1, <4>2, <2>2
      <4> QED BY <1>1, <4>2, <4>3, <2>5
    <3> QED BY <3>2, <3>3, <3>4 DEF ChainExact
  <2>10. CleanEntries(u)
    BY <1>1, <2>2, <2>4, <2>6 DEF WellFormed, CleanEntries, Slot
  <2> QED BY <1>1, <2>2, <2>4, <2>6, <2>7, <2>8, <2>9, <2>10 DEF WellFormed, InUse
<1>3. CASE t.free = <<>>
  <2>1. r = t.curr /\ t.curr < MaxSlots /\ r \in Slot
    BY <1>1, <1>3, MemAssumption DEF AddSlot, HasRoom, Slot
  <2>2. t.status[r] = {} /\ t.ptr[r] = NULL
    BY <2>1, <1>1 DEF WellFormed, CleanEntries, Slot
  <2>3. /\ u.ptr = [t.ptr EXCEPT ![r] = p]
        /\ u.status = [t.status EXCEPT ![r] = TakenStatus(t.status[r], process)]
        /\ u.curr = t.curr + 1
        /\ u.free = <<>>
    BY <1>3 DEF AddMem
  <2>4. u.status[r] \in SUBSET Bits /\ "FREE" \notin u.status[r]
        /\ "FILE" \notin u.status[r]
        /\ (process => "PROCESS" \in u.status[r])
        /\ t.status[r] \ {"FREE"} \subseteq u.status[r]
    BY <1>1, <2>1, <2>2, <2>3 DEF TakenStatus, Bits
  <2>5. SameElsewhere(t, u, r)
    BY <1>1, <2>1, <2>3 DEF SameElsewhere, InUse, Slot
  <2>6. u \in Table
    <3>1. u = [ptr |-> u.ptr, status |-> u.status, curr |-> u.curr, free |-> u.free]
      BY DEF AddMem
    <3>2. u.ptr \in [Slot -> Blocks \cup Files \cup {NULL}]
      BY <1>1, <2>3
    <3>3. u.status \in [Slot -> SUBSET Bits]
      BY <1>1, <2>3, <2>4
    <3>4. u.curr \in 0 .. MaxSlots
      BY <1>1, <2>1, <2>3, MemAssumption
    <3> QED BY <1>1, <1>3, <2>3, <3>1, <3>2, <3>3, <3>4 DEF Table
  <2>7. ChainExact(u)
    <3>1. \A i \in Slot : i < t.curr => "FREE" \notin t.status[i]
      BY <1>3, <1>1 DEF WellFormed, ChainExact
    <3>2. \A i \in Slot : i < u.curr => "FREE" \notin u.status[i]
      BY <1>1, <2>1, <2>3, <2>4, <3>1 DEF Slot
    <3> QED BY <2>3, <3>2 DEF ChainExact
  <2>8. CleanEntries(u)
    BY <1>1, <2>1, <2>3, <2>4 DEF WellFormed, CleanEntries, Slot
  <2>9. InUse(u, r) /\ ~InUse(t, r) /\ u.ptr[r] = p
    BY <1>1, <2>1, <2>3, <2>4 DEF InUse
  <2> QED BY <2>1, <2>4, <2>5, <2>6, <2>7, <2>8, <2>9 DEF WellFormed
<1> QED BY <1>2, <1>3

(* _vely_set_free puts an entry in use that is no file at the head of the   *)
(* chain: it is the one the next vely_add_mem takes.                       *)
LEMMA SetFreeWellFormed ==
  ASSUME NEW t, WellFormed(t), NEW r \in Slot,
         InUse(t, r), "FILE" \notin t.status[r]
  PROVE  /\ WellFormed(SetFree(t, r))
         /\ ~InUse(SetFree(t, r), r)
         /\ HasRoom(SetFree(t, r))
         /\ AddSlot(SetFree(t, r)) = r
         /\ SetFree(t, r).status[r] = t.status[r] \cup {"FREE"}
         /\ SetFree(t, r).curr = t.curr
         /\ SameElsewhere(t, SetFree(t, r), r)
<1> DEFINE u == SetFree(t, r)
           n == Len(t.free)
<1>1. /\ t.ptr \in [Slot -> Blocks \cup Files \cup {NULL}]
      /\ t.status \in [Slot -> SUBSET Bits]
      /\ t.curr \in 0 .. MaxSlots
      /\ t.free \in Seq(Slot)
      /\ n \in Nat
  BY DEF WellFormed, Table
<1>2. /\ u.ptr = [t.ptr EXCEPT ![r] = NULL]
      /\ u.status = [t.status EXCEPT ![r] = t.status[r] \cup {"FREE"}]
      /\ u.curr = t.curr
      /\ u.free = Append(t.free, r)
  BY DEF SetFree, FreedStatus
<1>3. /\ u.free \in Seq(Slot)
      /\ Len(u.free) = n + 1
      /\ u.free[n + 1] = r
      /\ \A k \in 1 .. n : u.free[k] = t.free[k]
  BY <1>1, <1>2
<1>4. HasRoom(u) /\ AddSlot(u) = r
  <2>1. u.free # <<>>
    BY <1>1, <1>3
  <2> QED BY <1>1, <1>3, <2>1 DEF HasRoom, AddSlot
<1>5. SameElsewhere(t, u, r)
  BY <1>1, <1>2 DEF SameElsewhere, InUse
<1>6. u \in Table
  <2>1. u = [ptr |-> u.ptr, status |-> u.status, curr |-> u.curr, free |-> u.free]
    BY DEF SetFree
  <2>2. u.ptr \in [Slot -> Blocks \cup Files \cup {NULL}]
    BY <1>1, <1>2
  <2>3. u.status \in [Slot -> SUBSET Bits]
    BY <1>1, <1>2 DEF Bits
  <2> QED BY <1>1, <1>2, <1>3, <2>1, <2>2, <2>3 DEF Table
<1>7. ChainExact(u)
  <2>1. r < u.curr /\ "FREE" \in u.status[r]
    BY <1>1, <1>2 DEF InUse
  <2>2. \A k \in 1 .. n : t.free[k] # r
    BY DEF WellFormed, ChainExact, InUse
  <2>3. ASSUME NEW k \in 1 .. Len(u.free)
        PROVE  u.free[k] < u.curr /\ "FREE" \in u.status[u.free[k]]
    <3>1. CASE k = n + 1
      BY <1>3, <2>1, <3>1
    <3>2. CASE k \in 1 .. n
      BY <1>1, <1>2, <1>3, <2>2, <3>2 DEF WellFormed, ChainExact
    <3> QED BY <1>1, <1>3, <3>1, <3>2
  <2>4. ASSUME NEW j \in 1 .. Len(u.free), NEW k \in 1 .. Len(u.free),
               u.free[j] = u.free[k]
        PROVE  j = k
    BY <1>1, <1>3, <2>2, <2>4 DEF WellFormed, ChainExact
  <2>5. ASSUME NEW i \in Slot, i < u.curr, "FREE" \in u.status[i]
        PROVE  \E k \in 1 .. Len(u.free) : u.free[k] = i
    <3>1. CASE i = r
      <4>1. n + 1 \in 1 .. Len(u.free)
        BY <1>1, <1>3
      <4> QED BY <1>3, <3>1, <4>1
    <3>2. CASE i # r
      <4>1. PICK k \in 1 .. n : t.free[k] = i
        BY <1>1, <1>2, <2>5, <3>2 DEF WellFormed, ChainExact
      <4>2. k \in 1 .. Len(u.free)
        BY <1>1, <1>3
      <4> QED BY <1>3, <4>1, <4>2
    <3> QED BY <3>1, <3>2
  <2> QED BY <2>3, <2>4, <2>5 DEF ChainExact
<1>8. CleanEntries(u)
  BY <1>1, <1>2 DEF WellFormed, CleanEntries, InUse, Slot
<1>9. ~InUse(u, r) /\ u.status[r] = t.status[r] \cup {"FREE"}
  BY <1>1, <1>2 DEF InUse
<1> QED BY <1>2, <1>4, <1>5, <1>6, <1>7, <1>8, <1>9 DEF WellFormed

(* Marking an entry in use as a file or as process memory.                 *)
LEMMA SetStatusWellFormed ==
  ASSUME NEW t, WellFormed(t), NEW r \in Slot, InUse(t, r),
         NEW bit \in {"FILE", "PROCESS"}
  PROVE  /\ WellFormed(SetStatus(t, bit, r))
         /\ InUse(SetStatus(t, bit, r), r)
         /\ SetStatus(t, bit, r).ptr = t.ptr
         /\ SetStatus(t, bit, r).status[r] = t.status[r] \cup {bit}
         /\ SetStatus(t, bit, r).curr = t.curr
         /\ SameElsewhere(t, SetStatus(t, bit, r), r)
<1> DEFINE u == SetStatus(t, bit, r)
<1>1. /\ t.ptr \in [Slot -> Blocks \cup Files \cup {NULL}]
      /\ t.status \in [Slot -> SUBSET Bits]
      /\ t.curr \in 0 .. MaxSlots
      /\ t.free \in Seq(Slot)
  BY DEF WellFormed, Table
<1>2. u = [ptr |-> t.ptr, status |-> u.status, curr |-> t.curr, free |-> t.free]
  BY DEF SetStatus
<1>3. /\ u.ptr = t.ptr /\ u.curr = t.curr /\ u.free = t.free
      /\ u.status = [t.status EXCEPT ![r] = t.status[r] \cup {bit}]
  BY DEF SetStatus
<1>4. u.status \in [Slot -> SUBSET Bits]
  BY <1>1, <1>3 DEF Bits
<1>5. u \in Table
  BY <1>1, <1>2, <1>3, <1>4 DEF Table
<1>6. \A i \in Slot : ("FREE" \in u.status[i] <=> "FREE" \in t.status[i])
  BY <1>1, <1>3
<1>7. ChainExact(u)
  <2>1. \A k \in 1 .. Len(t.free) : t.free[k] \in Slot
    BY <1>1
  <2> QED BY <1>3, <1>6, <2>1 DEF WellFormed, ChainExact
<1>8. CleanEntries(u)
  BY <1>1, <1>3, <1>6 DEF WellFormed, CleanEntries, InUse, Slot
<1>9. SameElsewhere(t, u, r) /\ InUse(u, r)
  BY <1>1, <1>3, <1>6 DEF SameElsewhere, InUse
<1> QED BY <1>1, <1>3, <1>5, <1>7, <1>8, <1>9 DEF WellFormed

(* Emptying an entry.                                                      *)
LEMMA ClearMemWellFormed ==
  ASSUME NEW t, WellFormed(t), NEW r \in Slot
  PROVE  /\ WellFormed(ClearMem(t, r))
         /\ ClearMem(t, r).ptr = [t.ptr EXCEPT ![r] = NULL]
         /\ ClearMem(t, r).status = t.status
         /\ ClearMem(t, r).curr = t.curr
<1> DEFINE u == ClearMem(t, r)
<1>1. /\ t.ptr \in [Slot -> Blocks \cup Files \cup {NULL}]
      /\ t.status \in [Slot -> SUBSET Bits]
      /\ t.curr \in 0 .. MaxSlots
      /\ t.free \in Seq(Slot)
  BY DEF WellFormed, Table
<1>2. u = [ptr |-> u.ptr, status |-> t.status, curr |-> t.curr, free |-> t.free]
  BY DEF ClearMem
<1>3. /\ u.ptr = [t.ptr EXCEPT ![r] = NULL] /\ u.status = t.status
      /\ u.curr = t.curr /\ u.free = t.free
  BY DEF ClearMem
<1>4. u \in Table
  <2>1. u.ptr \in [Slot -> Blocks \cup Files \cup {NULL}]
    BY <1>1, <1>3
  <2> QED BY <1>1, <1>2, <2>1 DEF Table
<1>5. ChainExact(u) /\ CleanEntries(u)
  BY <1>1, <1>3 DEF WellFormed, ChainExact, CleanEntries
<1> QED BY <1>3, <1>4, <1>5 DEF WellFormed

-----------------------------------------------------------------------------
(* Blocks and entries.  hd, hp and sc stand for header, heap and scope.     *)

HeapTypes(hd, hp, sc) ==
    /\ hd \in [Blocks -> Slot]
    /\ hp \in [Blocks -> {"none", "managed", "os"}]
    /\ sc \in [Blocks -> {"none", "request", "process", "orphan", "lost"}]

Owned(b, hp, sc) == hp[b] = "managed" /\ sc[b] # "lost"

BlocksOK(t, hd, hp, sc) ==
    /\ \A b \in Blocks : Owned(b, hp, sc) =>
           /\ InUse(t, hd[b])
           /\ t.ptr[hd[b]] = b
           /\ "FILE" \notin t.status[hd[b]]
           /\ sc[b] = "process" => "PROCESS" \in t.status[hd[b]]
    /\ \A i \in Slot : (InUse(t, i) /\ t.ptr[i] # NULL) =>
           IF "FILE" \in t.status[i]
           THEN t.ptr[i] \in Files
           ELSE /\ t.ptr[i] \in Blocks
                /\ Owned(t.ptr[i], hp, sc)
                /\ hd[t.ptr[i]] = i

\* The file entries of t are there in u too.
KeepsFiles(t, u) ==
    \A i \in Slot : (InUse(t, i) /\ "FILE" \in t.status[i]) =>
        InUse(u, i) /\ "FILE" \in u.status[i] /\ u.ptr[i] = t.ptr[i]

\* A static FILE* that is set has an entry the loop has not passed, and a
\* vely_file record names an entry of its own statement, or one already
\* emptied.  hn, fr and sw stand for handle, filerec and sweep.
FilesOK(t, hn, fr, sw) ==
    /\ \A f \in Files : hn[f] =>
           \E i \in Slot : /\ InUse(t, i) /\ "FILE" \in t.status[i]
                           /\ t.ptr[i] = f /\ i >= sw
    /\ \A b \in Blocks : fr[b] # NoFile =>
           /\ fr[b].file \in Files
           /\ InUse(t, fr[b].ind) /\ "FILE" \in t.status[fr[b].ind]
           /\ t.ptr[fr[b].ind] \in {fr[b].file, NULL}

(* A new block in an entry of its own.                                     *)
LEMMA AddBlock ==
  ASSUME NEW t, WellFormed(t), HasRoom(t),
         NEW hd, NEW hp, NEW sc, HeapTypes(hd, hp, sc),
         BlocksOK(t, hd, hp, sc),
         NEW b \in Blocks, ~Owned(b, hp, sc),
         NEW process \in BOOLEAN,
         NEW kind \in {"request", "process"}, 
         kind = "process" => \/ process
                             \/ "PROCESS" \in t.status[AddSlot(t)]
  PROVE  /\ WellFormed(AddMem(t, b, process))
         /\ BlocksOK(AddMem(t, b, process),
                     [hd EXCEPT ![b] = AddSlot(t)],
                     [hp EXCEPT ![b] = "managed"],
                     [sc EXCEPT ![b] = kind])
         /\ AddSlot(t) \in Slot
         /\ KeepsFiles(t, AddMem(t, b, process))
<1> DEFINE r == AddSlot(t)
           u == AddMem(t, b, process)
           hd2 == [hd EXCEPT ![b] = r]
           hp2 == [hp EXCEPT ![b] = "managed"]
           sc2 == [sc EXCEPT ![b] = kind]
<1>1. /\ r \in Slot /\ ~InUse(t, r) /\ WellFormed(u)
      /\ InUse(u, r) /\ u.ptr[r] = b
      /\ "FILE" \notin u.status[r]
      /\ process => "PROCESS" \in u.status[r]
      /\ t.status[r] \ {"FREE"} \subseteq u.status[r]
      /\ SameElsewhere(t, u, r)
  BY AddMemWellFormed
<1>2. \A i \in Slot : i # r => /\ u.ptr[i] = t.ptr[i]
                               /\ u.status[i] = t.status[i]
                               /\ InUse(u, i) <=> InUse(t, i)
  BY <1>1 DEF SameElsewhere
<1>3. \A c \in Blocks : c # b =>
          hd2[c] = hd[c] /\ (Owned(c, hp2, sc2) <=> Owned(c, hp, sc))
          /\ sc2[c] = sc[c] /\ hd[c] \in Slot
  BY DEF HeapTypes, Owned
<1>4. hd2[b] = r /\ Owned(b, hp2, sc2) /\ sc2[b] = kind
  BY DEF HeapTypes, Owned
<1>5. ASSUME NEW c \in Blocks, Owned(c, hp2, sc2)
      PROVE  /\ InUse(u, hd2[c])
             /\ u.ptr[hd2[c]] = c
             /\ "FILE" \notin u.status[hd2[c]]
             /\ sc2[c] = "process" => "PROCESS" \in u.status[hd2[c]]
  <2>1. CASE c = b
    BY <1>1, <1>4, <2>1
  <2>2. CASE c # b
    <3>1. InUse(t, hd[c]) /\ hd[c] # r
      BY <1>1, <1>3, <1>5, <2>2 DEF BlocksOK
    <3> QED BY <1>2, <1>3, <1>5, <2>2, <3>1 DEF BlocksOK
  <2> QED BY <2>1, <2>2
<1>6. ASSUME NEW i \in Slot, InUse(u, i), u.ptr[i] # NULL
      PROVE  IF "FILE" \in u.status[i]
             THEN u.ptr[i] \in Files
             ELSE /\ u.ptr[i] \in Blocks
                  /\ Owned(u.ptr[i], hp2, sc2)
                  /\ hd2[u.ptr[i]] = i
  <2>1. CASE i = r
    BY <1>1, <1>4, <2>1
  <2>2. CASE i # r /\ "FILE" \in u.status[i]
    BY <1>2, <1>6, <2>2 DEF BlocksOK
  <2>3. CASE i # r /\ "FILE" \notin u.status[i]
    <3>1. /\ t.ptr[i] \in Blocks /\ Owned(t.ptr[i], hp, sc) /\ hd[t.ptr[i]] = i
          /\ u.ptr[i] = t.ptr[i]
      BY <1>2, <1>6, <2>3 DEF BlocksOK
    <3>2. t.ptr[i] # b
      BY <3>1
    <3> QED BY <1>3, <2>3, <3>1, <3>2
  <2> QED BY <2>1, <2>2, <2>3
<1>7. KeepsFiles(t, u)
  BY <1>1, <1>2 DEF KeepsFiles
<1> QED BY <1>1, <1>5, <1>6, <1>7 DEF BlocksOK

(* A block freed together with its entry.                                  *)
LEMMA RemoveBlock ==
  ASSUME NEW t, WellFormed(t),
         NEW hd, NEW hp, NEW sc, HeapTypes(hd, hp, sc),
         BlocksOK(t, hd, hp, sc),
         NEW b \in Blocks, Owned(b, hp, sc),
         NEW hd2, NEW hp2, NEW sc2,
         \A c \in Blocks \ {b} : hd2[c] = hd[c] /\ hp2[c] = hp[c] /\ sc2[c] = sc[c],
         ~Owned(b, hp2, sc2)
  PROVE  /\ WellFormed(SetFree(t, hd[b]))
         /\ BlocksOK(SetFree(t, hd[b]), hd2, hp2, sc2)
         /\ KeepsFiles(t, SetFree(t, hd[b]))
<1> DEFINE r == hd[b]
           u == SetFree(t, r)
<1>1. r \in Slot /\ InUse(t, r) /\ t.ptr[r] = b /\ "FILE" \notin t.status[r]
  BY DEF BlocksOK, HeapTypes
<1>2. /\ WellFormed(u) /\ ~InUse(u, r)
      /\ \A i \in Slot : i # r => /\ u.ptr[i] = t.ptr[i]
                                  /\ u.status[i] = t.status[i]
                                  /\ InUse(u, i) <=> InUse(t, i)
  BY <1>1, SetFreeWellFormed DEF SameElsewhere
<1>3. ASSUME NEW c \in Blocks, Owned(c, hp2, sc2)
      PROVE  /\ InUse(u, hd2[c])
             /\ u.ptr[hd2[c]] = c
             /\ "FILE" \notin u.status[hd2[c]]
             /\ sc2[c] = "process" => "PROCESS" \in u.status[hd2[c]]
  <2>1. c # b /\ Owned(c, hp, sc) /\ hd2[c] = hd[c] /\ sc2[c] = sc[c]
    BY <1>3 DEF Owned
  <2>2. hd[c] \in Slot /\ InUse(t, hd[c]) /\ t.ptr[hd[c]] = c
    BY <2>1 DEF BlocksOK, HeapTypes
  <2>3. hd[c] # r
    BY <1>1, <2>1, <2>2
  <2> QED BY <1>2, <2>1, <2>2, <2>3 DEF BlocksOK
<1>4. ASSUME NEW i \in Slot, InUse(u, i), u.ptr[i] # NULL
      PROVE  IF "FILE" \in u.status[i]
             THEN u.ptr[i] \in Files
             ELSE /\ u.ptr[i] \in Blocks
                  /\ Owned(u.ptr[i], hp2, sc2)
                  /\ hd2[u.ptr[i]] = i
  <2>1. i # r /\ InUse(t, i) /\ u.ptr[i] = t.ptr[i] /\ u.status[i] = t.status[i]
    BY <1>2, <1>4
  <2>2. CASE "FILE" \in u.status[i]
    BY <1>4, <2>1, <2>2 DEF BlocksOK
  <2>3. CASE "FILE" \notin u.status[i]
    <3>1. t.ptr[i] \in Blocks /\ Owned(t.ptr[i], hp, sc) /\ hd[t.ptr[i]] = i
      BY <1>4, <2>1, <2>3 DEF BlocksOK
    <3>2. t.ptr[i] # b
      BY <2>1, <3>1
    <3> QED BY <2>1, <2>3, <3>1, <3>2 DEF Owned
  <2> QED BY <2>2, <2>3
<1>5. KeepsFiles(t, u)
  BY <1>1, <1>2 DEF KeepsFiles
<1> QED BY <1>2, <1>3, <1>4, <1>5 DEF BlocksOK

(* Steps that keep the file entries keep what is known of the files.        *)
LEMMA FilesKept ==
  ASSUME NEW t, NEW u, KeepsFiles(t, u), NEW hn, NEW fr, NEW sw,
         fr \in [Blocks -> [file : Files \cup {NULL}, ind : Slot]],
         FilesOK(t, hn, fr, sw)
  PROVE  FilesOK(u, hn, fr, sw)
<1>1. ASSUME NEW f \in Files, hn[f]
      PROVE  \E i \in Slot : /\ InUse(u, i) /\ "FILE" \in u.status[i]
                             /\ u.ptr[i] = f /\ i >= sw
  BY <1>1 DEF FilesOK, KeepsFiles
<1>2. ASSUME NEW b \in Blocks, fr[b] # NoFile
      PROVE  /\ fr[b].file \in Files
             /\ InUse(u, fr[b].ind) /\ "FILE" \in u.status[fr[b].ind]
             /\ u.ptr[fr[b].ind] \in {fr[b].file, NULL}
  <2>1. fr[b].ind \in Slot
    OBVIOUS
  <2> QED BY <1>2, <2>1 DEF FilesOK, KeepsFiles
<1> QED BY <1>1, <1>2 DEF FilesOK

(* A block the table does not own changes hands: unmanaged memory.          *)
LEMMA OtherBlock ==
  ASSUME NEW t, NEW hd, NEW hp, NEW sc, HeapTypes(hd, hp, sc),
         BlocksOK(t, hd, hp, sc),
         NEW b \in Blocks, ~Owned(b, hp, sc),
         NEW kind \in {"none", "os"}, NEW s
  PROVE  BlocksOK(t, hd, [hp EXCEPT ![b] = kind], [sc EXCEPT ![b] = s])
<1> DEFINE hp2 == [hp EXCEPT ![b] = kind]
           sc2 == [sc EXCEPT ![b] = s]
<1>1. \A c \in Blocks : /\ c # b => hp2[c] = hp[c] /\ sc2[c] = sc[c]
                        /\ hp2[b] = kind
  BY DEF HeapTypes
<1>2. \A c \in Blocks : Owned(c, hp2, sc2) => c # b /\ Owned(c, hp, sc)
  BY <1>1 DEF Owned
<1>3. \A c \in Blocks : Owned(c, hp, sc) => Owned(c, hp2, sc2)
  BY <1>1 DEF Owned
<1> QED BY <1>1, <1>2, <1>3 DEF BlocksOK

-----------------------------------------------------------------------------
(* The inductive invariant.                                                *)

\* What vely_done has gone through holds only process memory.
Passed == \A i \in Slot :
    (i < sweep /\ InUse(tab, i) /\ tab.ptr[i] # NULL
               /\ "FILE" \notin tab.status[i])
        => "PROCESS" \in tab.status[i] /\ keep_mem

PhaseOK ==
    /\ phase # "sweep" => sweep = 0 /\ ~keep_mem
    /\ phase = "sweep" => sweep <= tab.curr /\ ~vely_mem_os /\ Passed
    /\ phase # "request" => stmt = "none"
    /\ stmt = "process" => vely_mem_process
    /\ \A f \in Files : handle[f] => descriptors[f] > 0

MemInv == /\ TypeOK
          /\ WellFormed(tab)
          /\ BlocksOK(tab, header, heap, scope)
          /\ FilesOK(tab, handle, filerec, sweep)
          /\ PhaseOK
          /\ HandlesClosed
          /\ SurvivorsMarked

(* The allocation part of a statement, in either mode.                     *)
LEMMA AllocateStep ==
  ASSUME MemInv, phase = "request", NEW b \in Blocks, Allocate(tab, b)
  PROVE  /\ WellFormed(TableWith(tab, b))
         /\ HeapTypes(header', heap', scope')
         /\ BlocksOK(TableWith(tab, b), header', heap', scope')
         /\ FilesOK(TableWith(tab, b), handle, filerec, sweep)
<1>1. /\ HeapTypes(header, heap, scope) /\ WellFormed(tab)
      /\ BlocksOK(tab, header, heap, scope)
      /\ FilesOK(tab, handle, filerec, sweep)
      /\ vely_mem_process \in BOOLEAN /\ vely_mem_os \in BOOLEAN
      /\ filerec \in [Blocks -> [file : Files \cup {NULL}, ind : Slot]]
  BY DEF MemInv, TypeOK, HeapTypes
<1>2. ~Owned(b, heap, scope)
  BY DEF Allocate, Owned
<1>3. CASE vely_mem_os
  <2>1. /\ TableWith(tab, b) = tab /\ header' = header
        /\ heap' = [heap EXCEPT ![b] = "os"]
        /\ scope' = [scope EXCEPT ![b] = AskedScope]
    BY <1>3 DEF TableWith, Allocate, ModeKind
  <2>2. HeapTypes(header', heap', scope')
    BY <1>1, <2>1 DEF HeapTypes, AskedScope
  <2>3. BlocksOK(tab, header', heap', scope')
    BY <1>1, <1>2, <2>1, OtherBlock
  <2> QED BY <1>1, <2>1, <2>2, <2>3
<1>4. CASE ~vely_mem_os
  <2>1. /\ TableWith(tab, b) = AddMem(tab, b, vely_mem_process)
        /\ header' = [header EXCEPT ![b] = AddSlot(tab)]
        /\ heap' = [heap EXCEPT ![b] = "managed"]
        /\ scope' = [scope EXCEPT ![b] = AskedScope]
        /\ HasRoom(tab)
    BY <1>4 DEF TableWith, Allocate, ModeKind
  <2>2. /\ AskedScope \in {"request", "process"}
        /\ AskedScope = "process" => vely_mem_process
    BY DEF AskedScope, MemInv, PhaseOK
  <2>3. /\ WellFormed(AddMem(tab, b, vely_mem_process))
        /\ BlocksOK(AddMem(tab, b, vely_mem_process), header', heap', scope')
        /\ AddSlot(tab) \in Slot
        /\ KeepsFiles(tab, AddMem(tab, b, vely_mem_process))
    BY <1>1, <1>2, <2>1, <2>2, AddBlock
  <2>4. HeapTypes(header', heap', scope')
    BY <1>1, <2>1, <2>2, <2>3 DEF HeapTypes
  <2>5. FilesOK(AddMem(tab, b, vely_mem_process), handle, filerec, sweep)
    BY <1>1, <2>3, FilesKept
  <2> QED BY <2>1, <2>3, <2>4, <2>5
<1> QED BY <1>1, <1>3, <1>4

(* The release of a block, by the program or by vely_done.                 *)
LEMMA ReleaseStep ==
  ASSUME MemInv, NEW b \in Blocks, ReleaseBlock(b),
         heap[b] = "os" \/ Owned(b, heap, scope)
  PROVE  /\ WellFormed(tab')
         /\ HeapTypes(header', heap', scope')
         /\ BlocksOK(tab', header', heap', scope')
         /\ FilesOK(tab', handle, filerec, sweep)
         /\ heap' = [heap EXCEPT ![b] = "none"]
         /\ heap[b] = "managed" => tab' = SetFree(tab, header[b])
         /\ tab'.curr = tab.curr
<1>1. /\ HeapTypes(header, heap, scope) /\ WellFormed(tab)
      /\ BlocksOK(tab, header, heap, scope)
      /\ FilesOK(tab, handle, filerec, sweep)
      /\ filerec \in [Blocks -> [file : Files \cup {NULL}, ind : Slot]]
      /\ 0 \in Slot
  BY MemAssumption DEF MemInv, TypeOK, HeapTypes, Slot
<1>2. heap[b] = "managed" => InUse(tab, header[b]) /\ header[b] \in Slot
                             /\ "FILE" \notin tab.status[header[b]]
  BY <1>1 DEF BlocksOK, HeapTypes, Owned
<1>3. /\ header' = [header EXCEPT ![b] = 0]
      /\ heap' = [heap EXCEPT ![b] = "none"]
      /\ scope' = [scope EXCEPT ![b] = "none"]
      /\ tab' = IF heap[b] = "managed" THEN SetFree(tab, header[b]) ELSE tab
  BY <1>2 DEF ReleaseBlock, InUse
<1>4. HeapTypes(header', heap', scope')
  BY <1>1, <1>3 DEF HeapTypes
<1>5. CASE heap[b] = "managed"
  <2>1. Owned(b, heap, scope)
    BY <1>5 DEF Owned
  <2>2. /\ \A c \in Blocks \ {b} : /\ header'[c] = header[c]
                                   /\ heap'[c] = heap[c] /\ scope'[c] = scope[c]
        /\ ~Owned(b, heap', scope')
    BY <1>1, <1>3 DEF HeapTypes, Owned
  <2>3. /\ WellFormed(SetFree(tab, header[b]))
        /\ BlocksOK(SetFree(tab, header[b]), header', heap', scope')
        /\ KeepsFiles(tab, SetFree(tab, header[b]))
    BY <1>1, <2>1, <2>2, RemoveBlock
  <2>4. tab' = SetFree(tab, header[b])
    BY <1>3, <1>5
  <2>5. FilesOK(SetFree(tab, header[b]), handle, filerec, sweep)
    BY <1>1, <2>3, FilesKept
  <2>6. SetFree(tab, header[b]).curr = tab.curr
    BY DEF SetFree
  <2> QED BY <1>3, <1>4, <2>3, <2>4, <2>5, <2>6
<1>6. CASE heap[b] = "os"
  <2>1. tab' = tab /\ ~Owned(b, heap, scope)
    BY <1>3, <1>6 DEF Owned
  <2>2. BlocksOK(tab, header, heap', scope')
    BY <1>1, <1>3, <2>1, OtherBlock
  <2>3. \A c \in Blocks : Owned(c, heap', scope') => header'[c] = header[c]
    BY <1>1, <1>3 DEF Owned, HeapTypes
  <2>4. BlocksOK(tab, header', heap', scope')
    BY <2>2, <2>3 DEF BlocksOK
  <2> QED BY <1>1, <1>3, <1>4, <1>6, <2>1, <2>4
<1> QED BY <1>5, <1>6 DEF Owned

-----------------------------------------------------------------------------
(* Each action keeps the invariant.                                        *)

(* The steps that touch neither the table nor a block.                     *)
LEMMA ControlSteps ==
  ASSUME MemInv,
         \/ BeginRequest \/ EndRequest \/ ReportError \/ EndStmt
         \/ \E os \in BOOLEAN : ManageMemory(os)
         \/ \E process \in BOOLEAN : StartStmt(process)
  PROVE  MemInv'
<1>1. UNCHANGED <<tab, header, heap, handle, descriptors, filerec, scope,
                  sweep, keep_mem>>
  BY DEF BeginRequest, EndRequest, ReportError, EndStmt, ManageMemory,
         StartStmt, StartSweep, memVars, fileVars, sweepVars
<1>2. TypeOK'
  BY <1>1 DEF MemInv, TypeOK, BeginRequest, EndRequest, ReportError, EndStmt,
         ManageMemory, StartStmt, StartSweep, sweepVars, modeVars
<1>3. /\ WellFormed(tab') /\ BlocksOK(tab', header', heap', scope')
      /\ FilesOK(tab', handle', filerec', sweep')
  BY <1>1 DEF MemInv
<1>4. HandlesClosed' /\ SurvivorsMarked'
  BY <1>1 DEF MemInv, HandlesClosed, SurvivorsMarked, BeginRequest, EndRequest,
         ReportError, EndStmt, ManageMemory, StartStmt, StartSweep, sweepVars
<1>5. PhaseOK'
  <2>1. phase = "request" => sweep = 0 /\ ~keep_mem /\ 0 <= tab.curr
    BY DEF MemInv, PhaseOK, TypeOK, Table
  <2>2. sweep = 0 => Passed'
    BY <1>1 DEF Passed, Slot
  <2> QED BY <1>1, <2>1, <2>2 DEF MemInv, PhaseOK, BeginRequest, EndRequest,
             ReportError, EndStmt, ManageMemory, StartStmt, StartSweep, sweepVars
<1> QED BY <1>2, <1>3, <1>4, <1>5 DEF MemInv, WellFormed, BlocksOK, FilesOK,
           InUse, Owned, ChainExact, CleanEntries

(* A step inside a request that leaves the mode and the statement alone.    *)
LEMMA RequestStep ==
  ASSUME MemInv, phase = "request", UNCHANGED <<modeVars, sweepVars>>,
         WellFormed(tab'), HeapTypes(header', heap', scope'),
         BlocksOK(tab', header', heap', scope'),
         FilesOK(tab', handle', filerec', sweep),
         handle' \in [Files -> BOOLEAN],
         descriptors' \in [Files -> 0 .. MaxOpen],
         filerec' \in [Blocks -> [file : Files \cup {NULL}, ind : Slot]],
         \A f \in Files : handle'[f] => descriptors'[f] > 0
  PROVE  MemInv'
<1>1. TypeOK'
  BY DEF MemInv, TypeOK, HeapTypes, WellFormed, modeVars, sweepVars
<1>2. PhaseOK'
  BY DEF MemInv, PhaseOK, modeVars, sweepVars
<1>3. HandlesClosed' /\ SurvivorsMarked'
  BY DEF HandlesClosed, SurvivorsMarked, sweepVars
<1>4. sweep' = sweep
  BY DEF sweepVars
<1> QED BY <1>1, <1>2, <1>3, <1>4 DEF MemInv, WellFormed, BlocksOK, FilesOK,
           InUse, Owned, ChainExact, CleanEntries

(* _vely_malloc, in either mode, keeps the invariant: the new block has an
   entry of its own. *)
LEMMA MallocStep == ASSUME MemInv, NEW b \in Blocks, Malloc(b) PROVE MemInv'
<1>1. /\ phase = "request" /\ Allocate(tab, b) /\ tab' = TableWith(tab, b)
      /\ UNCHANGED <<modeVars, fileVars, sweepVars>>
  BY DEF Malloc
<1>2. /\ WellFormed(tab') /\ HeapTypes(header', heap', scope')
      /\ BlocksOK(tab', header', heap', scope')
      /\ FilesOK(tab', handle, filerec, sweep)
  BY <1>1, AllocateStep
<1>3. UNCHANGED <<handle, descriptors, filerec>>
  BY <1>1 DEF fileVars
<1> QED BY <1>1, <1>2, <1>3, RequestStep DEF MemInv, TypeOK, PhaseOK

(* _vely_free keeps the invariant: block and entry go together. *)
LEMMA FreeStep == ASSUME MemInv, NEW b \in Blocks, Free(b) PROVE MemInv'
<1>1. /\ phase = "request" /\ ReleaseBlock(b) /\ Held(b)
      /\ UNCHANGED <<modeVars, fileVars, sweepVars>>
  BY DEF Free
<1>2. heap[b] = "os" \/ Owned(b, heap, scope)
  BY <1>1 DEF MemInv, TypeOK, Held, Owned
<1>3. /\ WellFormed(tab') /\ HeapTypes(header', heap', scope')
      /\ BlocksOK(tab', header', heap', scope')
      /\ FilesOK(tab', handle, filerec, sweep)
  BY <1>1, <1>2, ReleaseStep
<1>4. UNCHANGED <<handle, descriptors, filerec>>
  BY <1>1 DEF fileVars
<1> QED BY <1>1, <1>3, <1>4, RequestStep DEF MemInv, TypeOK, PhaseOK

(* _vely_mem_set_process keeps the invariant: the entry it marks is the
   block's own, and no file. *)
LEMMA SetProcessStep ==
  ASSUME MemInv, NEW b \in Blocks, SetProcess(b) PROVE MemInv'
<1> DEFINE r == header[b]
           u == SetStatus(tab, "PROCESS", r)
<1>1. /\ phase = "request" /\ Held(b) /\ heap[b] = "managed"
      /\ tab' = u /\ scope' = [scope EXCEPT ![b] = "process"]
      /\ UNCHANGED <<header, heap>> /\ UNCHANGED <<modeVars, fileVars, sweepVars>>
  BY DEF SetProcess
<1>2. UNCHANGED <<handle, descriptors, filerec>>
  BY <1>1 DEF fileVars
<1>3. /\ HeapTypes(header, heap, scope) /\ WellFormed(tab)
      /\ BlocksOK(tab, header, heap, scope)
      /\ FilesOK(tab, handle, filerec, sweep)
      /\ filerec \in [Blocks -> [file : Files \cup {NULL}, ind : Slot]]
  BY DEF MemInv, TypeOK, HeapTypes
<1>4. /\ r \in Slot /\ InUse(tab, r) /\ tab.ptr[r] = b
      /\ "FILE" \notin tab.status[r] /\ Owned(b, heap, scope)
  BY <1>1, <1>3 DEF BlocksOK, HeapTypes, Owned, Held
<1>5. /\ WellFormed(u) /\ InUse(u, r) /\ u.ptr = tab.ptr
      /\ u.status[r] = tab.status[r] \cup {"PROCESS"}
      /\ \A i \in Slot : i # r => /\ u.status[i] = tab.status[i]
                                  /\ InUse(u, i) <=> InUse(tab, i)
  BY <1>3, <1>4, SetStatusWellFormed DEF SameElsewhere
<1>6. /\ HeapTypes(header, heap, scope')
      /\ \A c \in Blocks : Owned(c, heap, scope') <=> Owned(c, heap, scope)
      /\ \A c \in Blocks : c # b => scope'[c] = scope[c]
  BY <1>1, <1>3, <1>4 DEF HeapTypes, Owned
<1>7. BlocksOK(u, header, heap, scope')
  <2>1. ASSUME NEW c \in Blocks, Owned(c, heap, scope')
        PROVE  /\ InUse(u, header[c]) /\ u.ptr[header[c]] = c
               /\ "FILE" \notin u.status[header[c]]
               /\ scope'[c] = "process" => "PROCESS" \in u.status[header[c]]
    <3>1. /\ Owned(c, heap, scope) /\ header[c] \in Slot
          /\ c # b => header[c] # r
      BY <1>3, <1>4, <1>6, <2>1 DEF BlocksOK, HeapTypes
    <3> QED BY <1>3, <1>4, <1>5, <1>6, <3>1 DEF BlocksOK
  <2>2. ASSUME NEW i \in Slot, InUse(u, i), u.ptr[i] # NULL
        PROVE  IF "FILE" \in u.status[i]
               THEN u.ptr[i] \in Files
               ELSE /\ u.ptr[i] \in Blocks
                    /\ Owned(u.ptr[i], heap, scope')
                    /\ header[u.ptr[i]] = i
    <3>1. /\ InUse(tab, i) /\ tab.ptr[i] = u.ptr[i]
          /\ "FILE" \in u.status[i] <=> "FILE" \in tab.status[i]
      BY <1>4, <1>5, <2>2
    <3> QED BY <1>3, <1>6, <2>2, <3>1 DEF BlocksOK
  <2> QED BY <2>1, <2>2 DEF BlocksOK
<1>8. KeepsFiles(tab, u)
  BY <1>4, <1>5 DEF KeepsFiles
<1>9. FilesOK(u, handle, filerec, sweep)
  BY <1>3, <1>8, FilesKept
<1> QED BY <1>1, <1>2, <1>5, <1>6, <1>7, <1>9, RequestStep
        DEF MemInv, TypeOK, PhaseOK

(* _vely_realloc keeps the invariant.  That the entry is freed and taken
   again at once is why a process-scoped block keeps its PROCESS bit. *)
LEMMA ReallocStep ==
  ASSUME MemInv, NEW b \in Blocks, NEW c \in Blocks, Realloc(b, c)
  PROVE  MemInv'
<1> DEFINE r == header[b]
           t == SetFree(tab, r)
           kind == IF stmt = "process" /\ ~vely_mem_os THEN "process" ELSE scope[b]
           hd1 == [header EXCEPT ![b] = 0]
           hp1 == [heap EXCEPT ![b] = "none"]
           sc1 == [scope EXCEPT ![b] = "none"]
<1>1. /\ phase = "request" /\ Held(b) /\ heap[b] = ModeKind
      /\ c = b \/ heap[c] = "none"
      /\ tab' = IF vely_mem_os THEN tab ELSE AddMem(t, c, vely_mem_process)
      /\ header' = IF vely_mem_os THEN header
                   ELSE [header EXCEPT ![b] = 0, ![c] = AddSlot(t)]
      /\ heap' = [heap EXCEPT ![b] = "none", ![c] = heap[b]]
      /\ scope' = [scope EXCEPT ![b] = "none", ![c] = kind]
      /\ UNCHANGED <<modeVars, fileVars, sweepVars>>
  BY DEF Realloc
<1>2. UNCHANGED <<handle, descriptors, filerec>>
  BY <1>1 DEF fileVars
<1>3. /\ HeapTypes(header, heap, scope) /\ WellFormed(tab)
      /\ BlocksOK(tab, header, heap, scope)
      /\ FilesOK(tab, handle, filerec, sweep)
      /\ filerec \in [Blocks -> [file : Files \cup {NULL}, ind : Slot]]
      /\ vely_mem_process \in BOOLEAN /\ vely_mem_os \in BOOLEAN
      /\ stmt = "process" => vely_mem_process
      /\ 0 \in Slot
  BY MemAssumption DEF MemInv, TypeOK, PhaseOK, HeapTypes, Slot
<1>4. kind \in {"request", "process"}
  BY <1>1 DEF Held
<1>5. CASE ~vely_mem_os
  <2>1. /\ heap[b] = "managed" /\ Owned(b, heap, scope)
        /\ scope[b] = "process" => "PROCESS" \in tab.status[r]
        /\ r \in Slot /\ InUse(tab, r) /\ "FILE" \notin tab.status[r]
    BY <1>1, <1>3, <1>5 DEF ModeKind, Owned, Held, BlocksOK, HeapTypes
  <2>2. /\ HeapTypes(hd1, hp1, sc1)
        /\ \A d \in Blocks \ {b} : hd1[d] = header[d] /\ hp1[d] = heap[d]
                                   /\ sc1[d] = scope[d]
        /\ ~Owned(b, hp1, sc1) /\ ~Owned(c, hp1, sc1)
    BY <1>1, <1>3 DEF HeapTypes, Owned
  <2>3. /\ WellFormed(t) /\ BlocksOK(t, hd1, hp1, sc1) /\ KeepsFiles(tab, t)
    <3> HIDE DEF hd1, hp1, sc1
    <3> QED BY <1>3, <2>1, <2>2, RemoveBlock
  <2>4. /\ HasRoom(t) /\ AddSlot(t) = r
        /\ t.status[r] = tab.status[r] \cup {"FREE"}
    BY <1>3, <2>1, SetFreeWellFormed
  <2>5. kind = "process" => vely_mem_process \/ "PROCESS" \in t.status[AddSlot(t)]
    BY <1>3, <2>1, <2>4
  <2>6. /\ WellFormed(AddMem(t, c, vely_mem_process))
        /\ BlocksOK(AddMem(t, c, vely_mem_process),
                    [hd1 EXCEPT ![c] = AddSlot(t)],
                    [hp1 EXCEPT ![c] = "managed"],
                    [sc1 EXCEPT ![c] = kind])
        /\ AddSlot(t) \in Slot
        /\ KeepsFiles(t, AddMem(t, c, vely_mem_process))
    BY <1>3, <1>4, <2>2, <2>3, <2>4, <2>5, AddBlock
  <2>7. /\ tab' = AddMem(t, c, vely_mem_process)
        /\ header' = [hd1 EXCEPT ![c] = AddSlot(t)]
        /\ heap' = [hp1 EXCEPT ![c] = "managed"]
        /\ scope' = [sc1 EXCEPT ![c] = kind]
    BY <1>1, <1>5, <2>1
  <2>8. HeapTypes(header', heap', scope')
    BY <1>4, <2>2, <2>6, <2>7 DEF HeapTypes
  <2>9. FilesOK(t, handle, filerec, sweep)
    BY <1>3, <2>3, FilesKept
  <2>10. FilesOK(tab', handle, filerec, sweep)
    BY <1>3, <2>6, <2>7, <2>9, FilesKept
  <2>11. WellFormed(tab') /\ BlocksOK(tab', header', heap', scope')
    BY <2>6, <2>7
  <2> QED BY <1>1, <1>2, <2>8, <2>10, <2>11, RequestStep
          DEF MemInv, TypeOK, PhaseOK
<1>6. CASE vely_mem_os
  <2>1. /\ heap[b] = "os" /\ ~Owned(b, heap, scope) /\ ~Owned(c, heap, scope)
    BY <1>1, <1>6 DEF ModeKind, Owned
  <2>2. BlocksOK(tab, header, hp1, sc1) /\ HeapTypes(header, hp1, sc1)
        /\ ~Owned(c, hp1, sc1)
    BY <1>1, <1>3, <2>1, OtherBlock DEF HeapTypes, Owned
  <2>3. BlocksOK(tab, header, [hp1 EXCEPT ![c] = "os"], [sc1 EXCEPT ![c] = kind])
    BY <1>3, <2>2, OtherBlock
  <2>4. /\ tab' = tab /\ header' = header
        /\ heap' = [hp1 EXCEPT ![c] = "os"]
        /\ scope' = [sc1 EXCEPT ![c] = kind]
    BY <1>1, <1>6, <2>1
  <2>5. HeapTypes(header', heap', scope')
    BY <1>4, <2>2, <2>4 DEF HeapTypes
  <2>6. WellFormed(tab') /\ BlocksOK(tab', header', heap', scope')
        /\ FilesOK(tab', handle, filerec, sweep)
    BY <1>3, <2>3, <2>4
  <2> QED BY <1>1, <1>2, <2>5, <2>6, RequestStep DEF MemInv, TypeOK, PhaseOK
<1> QED BY <1>5, <1>6

(* open-file of a file that does not open leaves a record and no FILE*. *)
LEMMA OpenFailsStep ==
  ASSUME MemInv, NEW f \in Files, NEW b \in Blocks, OpenFileFails(f, b)
  PROVE  MemInv'
<1>1. /\ phase = "request" /\ Allocate(tab, b) /\ tab' = TableWith(tab, b)
      /\ handle' = [handle EXCEPT ![f] = FALSE]
      /\ UNCHANGED <<descriptors, filerec>> /\ UNCHANGED <<modeVars, sweepVars>>
  BY DEF OpenFileFails
<1>2. /\ WellFormed(tab') /\ HeapTypes(header', heap', scope')
      /\ BlocksOK(tab', header', heap', scope')
      /\ FilesOK(tab', handle, filerec, sweep)
  BY <1>1, AllocateStep
<1>3. handle' \in [Files -> BOOLEAN] /\ \A g \in Files : handle'[g] => handle[g]
  BY <1>1 DEF MemInv, TypeOK
<1>4. FilesOK(tab', handle', filerec', sweep)
  BY <1>1, <1>2, <1>3 DEF FilesOK
<1> QED BY <1>1, <1>2, <1>3, <1>4, RequestStep DEF MemInv, TypeOK, PhaseOK

(* open-file registers the static FILE* in an entry of its own. *)
LEMMA OpenFileStep ==
  ASSUME MemInv, NEW f \in Files, NEW b \in Blocks, OpenFile(f, b)
  PROVE  MemInv'
<1> DEFINE t == TableWith(tab, b)
           r == AddSlot(t)
           u == AddMem(t, f, vely_mem_process)
           w == SetStatus(u, "FILE", r)
<1>1. /\ phase = "request" /\ Allocate(tab, b) /\ HasRoom(t)
      /\ descriptors[f] < MaxOpen
      /\ tab' = w
      /\ handle' = [handle EXCEPT ![f] = TRUE]
      /\ descriptors' = [descriptors EXCEPT ![f] = descriptors[f] + 1]
      /\ filerec' = [filerec EXCEPT ![b] = [file |-> f, ind |-> r]]
      /\ UNCHANGED <<modeVars, sweepVars>>
  BY DEF OpenFile
<1>2. /\ WellFormed(t) /\ HeapTypes(header', heap', scope')
      /\ BlocksOK(t, header', heap', scope')
      /\ FilesOK(t, handle, filerec, sweep)
  BY <1>1, AllocateStep
<1>3. /\ vely_mem_process \in BOOLEAN
      /\ handle \in [Files -> BOOLEAN]
      /\ descriptors \in [Files -> 0 .. MaxOpen]
      /\ filerec \in [Blocks -> [file : Files \cup {NULL}, ind : Slot]]
      /\ sweep = 0
      /\ \A g \in Files : handle[g] => descriptors[g] > 0
  BY <1>1 DEF MemInv, TypeOK, PhaseOK
<1>4. /\ r \in Slot /\ ~InUse(t, r) /\ WellFormed(u) /\ InUse(u, r)
      /\ u.ptr[r] = f
      /\ SameElsewhere(t, u, r)
  BY <1>1, <1>2, <1>3, AddMemWellFormed
<1>5. /\ WellFormed(w) /\ InUse(w, r) /\ w.ptr = u.ptr
      /\ "FILE" \in w.status[r]
      /\ SameElsewhere(u, w, r)
  BY <1>4, SetStatusWellFormed
<1>6. \A i \in Slot : i # r => /\ w.ptr[i] = t.ptr[i]
                               /\ w.status[i] = t.status[i]
                               /\ InUse(w, i) <=> InUse(t, i)
  BY <1>4, <1>5 DEF SameElsewhere
<1>7. f # NULL /\ w.ptr[r] = f /\ f \in Files
  BY <1>4, <1>5, MemAssumption
<1>8. BlocksOK(w, header', heap', scope')
  <2>1. ASSUME NEW c \in Blocks, Owned(c, heap', scope')
        PROVE  /\ InUse(w, header'[c]) /\ w.ptr[header'[c]] = c
               /\ "FILE" \notin w.status[header'[c]]
               /\ scope'[c] = "process" => "PROCESS" \in w.status[header'[c]]
    <3>1. header'[c] \in Slot /\ InUse(t, header'[c])
      BY <1>2, <2>1 DEF BlocksOK, HeapTypes
    <3> QED BY <1>2, <1>4, <1>6, <2>1, <3>1 DEF BlocksOK
  <2>2. ASSUME NEW i \in Slot, InUse(w, i), w.ptr[i] # NULL
        PROVE  IF "FILE" \in w.status[i]
               THEN w.ptr[i] \in Files
               ELSE /\ w.ptr[i] \in Blocks
                    /\ Owned(w.ptr[i], heap', scope')
                    /\ header'[w.ptr[i]] = i
    BY <1>2, <1>5, <1>6, <1>7, <2>2 DEF BlocksOK
  <2> QED BY <2>1, <2>2 DEF BlocksOK
<1>9. KeepsFiles(t, w)
  BY <1>4, <1>6 DEF KeepsFiles
<1>10. FilesOK(w, handle, filerec, sweep)
  BY <1>2, <1>3, <1>9, FilesKept
<1>11. FilesOK(w, handle', filerec', sweep)
  <2>1. ASSUME NEW g \in Files, handle'[g]
        PROVE  \E i \in Slot : /\ InUse(w, i) /\ "FILE" \in w.status[i]
                               /\ w.ptr[i] = g /\ i >= sweep
    <3>1. CASE g = f
      BY <1>3, <1>4, <1>5, <1>7, <3>1 DEF Slot
    <3>2. CASE g # f
      BY <1>1, <1>3, <1>10, <2>1, <3>2 DEF FilesOK
    <3> QED BY <3>1, <3>2
  <2>2. ASSUME NEW c \in Blocks, filerec'[c] # NoFile
        PROVE  /\ filerec'[c].file \in Files
               /\ InUse(w, filerec'[c].ind) /\ "FILE" \in w.status[filerec'[c].ind]
               /\ w.ptr[filerec'[c].ind] \in {filerec'[c].file, NULL}
    <3>1. CASE c = b
      BY <1>1, <1>3, <1>5, <1>7, <3>1
    <3>2. CASE c # b
      BY <1>1, <1>3, <1>10, <2>2, <3>2 DEF FilesOK
    <3> QED BY <3>1, <3>2
  <2> QED BY <2>1, <2>2 DEF FilesOK
<1>12. /\ handle' \in [Files -> BOOLEAN]
       /\ filerec' \in [Blocks -> [file : Files \cup {NULL}, ind : Slot]]
  BY <1>1, <1>3, <1>4
<1>13. /\ descriptors' \in [Files -> 0 .. MaxOpen]
       /\ \A g \in Files : handle'[g] => descriptors'[g] > 0
  BY <1>1, <1>3, MemAssumption
<1> QED BY <1>1, <1>2, <1>5, <1>8, <1>11, <1>12, <1>13, RequestStep

(* Emptying a file entry loses no block, and no set static FILE* but that   *)
(* of the entry's own statement.                                           *)
LEMMA CloseEntry ==
  ASSUME NEW t, WellFormed(t), NEW hd, NEW hp, NEW sc, HeapTypes(hd, hp, sc),
         BlocksOK(t, hd, hp, sc),
         NEW hn, NEW hn2, NEW fr, NEW sw, FilesOK(t, hn, fr, sw),
         fr \in [Blocks -> [file : Files \cup {NULL}, ind : Slot]],
         NEW b \in Blocks, fr[b] # NoFile,
         \A f \in Files : hn2[f] => hn[f] /\ f # fr[b].file
  PROVE  /\ WellFormed(ClearMem(t, fr[b].ind))
         /\ BlocksOK(ClearMem(t, fr[b].ind), hd, hp, sc)
         /\ FilesOK(ClearMem(t, fr[b].ind), hn2, fr, sw)
<1> DEFINE r == fr[b].ind
           u == ClearMem(t, r)
<1>1. r \in Slot /\ InUse(t, r) /\ "FILE" \in t.status[r]
      /\ t.ptr[r] \in {fr[b].file, NULL}
  BY DEF FilesOK
<1>2. /\ WellFormed(u) /\ u.ptr = [t.ptr EXCEPT ![r] = NULL]
      /\ u.status = t.status /\ u.curr = t.curr
      /\ t.ptr \in [Slot -> Blocks \cup Files \cup {NULL}]
  BY <1>1, ClearMemWellFormed DEF WellFormed, Table
<1>3. \A i \in Slot : InUse(u, i) <=> InUse(t, i)
  BY <1>2 DEF InUse
<1>4. \A i \in Slot : i # r => u.ptr[i] = t.ptr[i]
  BY <1>2
<1>5. u.ptr[r] = NULL
  BY <1>1, <1>2
<1>6. BlocksOK(u, hd, hp, sc)
  <2>1. ASSUME NEW c \in Blocks, Owned(c, hp, sc)
        PROVE  /\ InUse(u, hd[c]) /\ u.ptr[hd[c]] = c
               /\ "FILE" \notin u.status[hd[c]]
               /\ sc[c] = "process" => "PROCESS" \in u.status[hd[c]]
    <3>1. hd[c] \in Slot /\ hd[c] # r
      BY <1>1, <2>1 DEF BlocksOK, HeapTypes
    <3> QED BY <1>2, <1>3, <1>4, <2>1, <3>1 DEF BlocksOK
  <2>2. ASSUME NEW i \in Slot, InUse(u, i), u.ptr[i] # NULL
        PROVE  IF "FILE" \in u.status[i]
               THEN u.ptr[i] \in Files
               ELSE /\ u.ptr[i] \in Blocks
                    /\ Owned(u.ptr[i], hp, sc)
                    /\ hd[u.ptr[i]] = i
    <3>1. i # r /\ InUse(t, i) /\ u.ptr[i] = t.ptr[i] /\ u.status[i] = t.status[i]
      BY <1>2, <1>3, <1>4, <1>5, <2>2
    <3> QED BY <2>2, <3>1 DEF BlocksOK
  <2> QED BY <2>1, <2>2 DEF BlocksOK
<1>7. FilesOK(u, hn2, fr, sw)
  <2>1. ASSUME NEW f \in Files, hn2[f]
        PROVE  \E i \in Slot : /\ InUse(u, i) /\ "FILE" \in u.status[i]
                               /\ u.ptr[i] = f /\ i >= sw
    <3>1. hn[f] /\ f # fr[b].file /\ f # NULL
      BY <2>1, MemAssumption
    <3>2. PICK i \in Slot : /\ InUse(t, i) /\ "FILE" \in t.status[i]
                            /\ t.ptr[i] = f /\ i >= sw
      BY <3>1 DEF FilesOK
    <3>3. i # r
      BY <1>1, <3>1, <3>2
    <3> QED BY <1>2, <1>3, <1>4, <3>2, <3>3
  <2>2. ASSUME NEW c \in Blocks, fr[c] # NoFile
        PROVE  /\ fr[c].file \in Files
               /\ InUse(u, fr[c].ind) /\ "FILE" \in u.status[fr[c].ind]
               /\ u.ptr[fr[c].ind] \in {fr[c].file, NULL}
    <3>1. fr[c].ind \in Slot
      OBVIOUS
    <3> QED BY <1>2, <1>3, <1>4, <1>5, <2>2, <3>1 DEF FilesOK
  <2> QED BY <2>1, <2>2 DEF FilesOK
<1> QED BY <1>2, <1>6, <1>7

(* close-file empties the entry of its own statement and frees its record. *)
LEMMA CloseFileStep ==
  ASSUME MemInv, NEW b \in Blocks, CloseFile(b) PROVE MemInv'
<1> DEFINE f == filerec[b].file
           t == ClearMem(tab, filerec[b].ind)
           u == SetFree(t, header[b])
<1>1. /\ phase = "request" /\ Held(b) /\ heap[b] = ModeKind
      /\ filerec[b] # NoFile
      /\ CloseHandle(f)
      /\ tab' = IF vely_mem_os THEN t ELSE u
      /\ heap' = [heap EXCEPT ![b] = "none"]
      /\ header' = [header EXCEPT ![b] = 0]
      /\ scope' = [scope EXCEPT ![b] = "none"]
      /\ filerec' = [filerec EXCEPT ![b] = NoFile]
      /\ UNCHANGED <<modeVars, sweepVars>>
  BY DEF CloseFile
<1>2. /\ HeapTypes(header, heap, scope) /\ WellFormed(tab)
      /\ BlocksOK(tab, header, heap, scope)
      /\ FilesOK(tab, handle, filerec, sweep)
      /\ handle \in [Files -> BOOLEAN]
      /\ descriptors \in [Files -> 0 .. MaxOpen]
      /\ filerec \in [Blocks -> [file : Files \cup {NULL}, ind : Slot]]
      /\ \A g \in Files : handle[g] => descriptors[g] > 0
      /\ 0 \in Slot
  BY MemAssumption DEF MemInv, TypeOK, PhaseOK, HeapTypes, Slot
<1>3. f \in Files
  BY <1>1, <1>2 DEF FilesOK
<1>4. /\ handle' = [handle EXCEPT ![f] = FALSE]
      /\ descriptors' = IF handle[f] THEN [descriptors EXCEPT ![f] = descriptors[f] - 1]
                                     ELSE descriptors
  BY <1>1 DEF CloseHandle
<1>5. /\ handle' \in [Files -> BOOLEAN]
      /\ \A g \in Files : handle'[g] => handle[g] /\ g # f
  BY <1>2, <1>4
<1>6. /\ descriptors' \in [Files -> 0 .. MaxOpen]
      /\ \A g \in Files : handle'[g] => descriptors'[g] > 0
  BY <1>2, <1>3, <1>4, <1>5, MemAssumption
<1>7. WellFormed(t) /\ BlocksOK(t, header, heap, scope)
      /\ FilesOK(t, handle', filerec, sweep)
  BY <1>1, <1>2, <1>5, CloseEntry
<1>8. \A s : FilesOK(s, handle', filerec, sweep) => FilesOK(s, handle', filerec', sweep)
  BY <1>1, <1>2 DEF FilesOK
<1>9. filerec' \in [Blocks -> [file : Files \cup {NULL}, ind : Slot]]
  BY <1>1, <1>2 DEF NoFile
<1>10. HeapTypes(header', heap', scope')
  BY <1>1, <1>2 DEF HeapTypes
<1>11. CASE ~vely_mem_os
  <2>1. Owned(b, heap, scope)
    BY <1>1, <1>11 DEF ModeKind, Owned, Held
  <2>2. /\ \A c \in Blocks \ {b} : header'[c] = header[c] /\ heap'[c] = heap[c]
                                   /\ scope'[c] = scope[c]
        /\ ~Owned(b, heap', scope')
    BY <1>1, <1>2 DEF HeapTypes, Owned
  <2>3. WellFormed(u) /\ BlocksOK(u, header', heap', scope') /\ KeepsFiles(t, u)
    BY <1>2, <1>7, <2>1, <2>2, RemoveBlock
  <2>4. FilesOK(u, handle', filerec, sweep)
    BY <1>2, <1>7, <2>3, FilesKept
  <2>5. tab' = u
    BY <1>1, <1>11
  <2>6. FilesOK(tab', handle', filerec', sweep)
    BY <1>8, <2>4, <2>5
  <2> QED BY <1>1, <1>5, <1>6, <1>9, <1>10, <2>3, <2>5, <2>6, RequestStep
<1>12. CASE vely_mem_os
  <2>1. tab' = t /\ heap[b] = "os" /\ ~Owned(b, heap, scope)
    BY <1>1, <1>12 DEF ModeKind, Owned
  <2>2. BlocksOK(t, header, heap', scope')
    BY <1>1, <1>2, <1>7, <2>1, OtherBlock
  <2>3. \A c \in Blocks : Owned(c, heap', scope') => header'[c] = header[c]
    BY <1>1, <1>2 DEF Owned, HeapTypes
  <2>4. BlocksOK(t, header', heap', scope')
    BY <2>2, <2>3 DEF BlocksOK
  <2>5. FilesOK(tab', handle', filerec', sweep)
    BY <1>7, <1>8, <2>1
  <2> QED BY <1>1, <1>5, <1>6, <1>7, <1>9, <1>10, <2>1, <2>4, <2>5, RequestStep
<1> QED BY <1>11, <1>12

(* _vely_realloc out of memory loses its block, and nothing else. *)
LEMMA ReallocFailsStep ==
  ASSUME MemInv, NEW b \in Blocks, ReallocFails(b) PROVE MemInv'
<1> DEFINE u == SetFree(tab, header[b])
<1>1. /\ phase = "request" /\ phase' = "sweep" /\ ~vely_mem_os' /\ stmt' = "none"
      /\ vely_mem_os' \in BOOLEAN
      /\ Held(b) /\ heap[b] = "managed"
      /\ tab' = u /\ scope' = [scope EXCEPT ![b] = "lost"]
      /\ UNCHANGED <<header, heap, vely_mem_process, handle, descriptors,
                     filerec, sweep, keep_mem>>
  BY DEF ReallocFails, StartSweep, fileVars
<1>2. /\ HeapTypes(header, heap, scope) /\ WellFormed(tab)
      /\ BlocksOK(tab, header, heap, scope)
      /\ FilesOK(tab, handle, filerec, sweep)
      /\ filerec \in [Blocks -> [file : Files \cup {NULL}, ind : Slot]]
  BY DEF MemInv, TypeOK, HeapTypes
<1>3. /\ Owned(b, heap, scope)
      /\ \A c \in Blocks \ {b} : header'[c] = header[c] /\ heap'[c] = heap[c]
                                 /\ scope'[c] = scope[c]
      /\ ~Owned(b, heap', scope')
  BY <1>1, <1>2 DEF HeapTypes, Owned, Held
<1>4. WellFormed(u) /\ BlocksOK(u, header', heap', scope') /\ KeepsFiles(tab, u)
  BY <1>2, <1>3, RemoveBlock
<1>5. FilesOK(u, handle, filerec, sweep)
  BY <1>2, <1>4, FilesKept
<1>6. HeapTypes(header', heap', scope')
  BY <1>1, <1>2 DEF HeapTypes
<1>7. TypeOK'
  BY <1>1, <1>4, <1>6 DEF MemInv, TypeOK, HeapTypes, WellFormed
<1>8. PhaseOK'
  <2>1. sweep = 0 /\ 0 <= u.curr
    BY <1>1, <1>4 DEF MemInv, PhaseOK, WellFormed, Table
  <2>2. Passed'
    BY <1>1, <2>1 DEF Passed, Slot
  <2> QED BY <1>1, <2>1, <2>2 DEF MemInv, PhaseOK
<1>9. HandlesClosed' /\ SurvivorsMarked'
  BY <1>1 DEF HandlesClosed, SurvivorsMarked
<1>10. WellFormed(tab') /\ BlocksOK(tab', header', heap', scope')
       /\ FilesOK(tab', handle', filerec', sweep')
  BY <1>1, <1>4, <1>5
<1> QED BY <1>7, <1>8, <1>9, <1>10 DEF MemInv, WellFormed, BlocksOK, FilesOK,
           InUse, Owned, ChainExact, CleanEntries

(* One turn of the loop of vely_done.                                      *)
LEMMA SweepSlotStep == ASSUME MemInv, SweepSlot PROVE MemInv'
<1> DEFINE p == tab.ptr[sweep]
           kind == SweptKind(tab.status[sweep], p)
<1>1. /\ phase = "sweep" /\ sweep < tab.curr /\ sweep' = sweep + 1
      /\ keep_mem' = (keep_mem \/ kind = "keep")
      /\ kind = "free" => ReleaseBlock(p)
      /\ kind # "free" => UNCHANGED <<tab, header, heap, scope>>
      /\ kind = "close" => CloseHandle(p)
      /\ kind # "close" => UNCHANGED <<handle, descriptors>>
      /\ UNCHANGED <<vely_mem_os, vely_mem_process, stmt, filerec, phase>>
  BY DEF SweepSlot, LoopEnd, memVars, modeVars
<1>2. /\ HeapTypes(header, heap, scope) /\ WellFormed(tab)
      /\ BlocksOK(tab, header, heap, scope)
      /\ FilesOK(tab, handle, filerec, sweep)
      /\ handle \in [Files -> BOOLEAN]
      /\ descriptors \in [Files -> 0 .. MaxOpen]
      /\ keep_mem \in BOOLEAN /\ vely_mem_os \in BOOLEAN /\ ~vely_mem_os
      /\ tab.curr \in 0 .. MaxSlots /\ sweep \in 0 .. MaxSlots
      /\ \A g \in Files : handle[g] => descriptors[g] > 0
      /\ Passed /\ stmt = "none"
  BY <1>1 DEF MemInv, TypeOK, PhaseOK, HeapTypes, Table
<1>3. sweep \in Slot /\ sweep' \in 0 .. MaxSlots
  BY <1>1, <1>2, MemAssumption DEF Slot
<1>4. /\ kind = "skip" => ~(InUse(tab, sweep) /\ p # NULL)
      /\ kind = "close" => "FILE" \in tab.status[sweep] /\ p \in Files
      /\ kind = "keep" => "PROCESS" \in tab.status[sweep]
      /\ kind = "free" => /\ p \in Blocks /\ Owned(p, heap, scope)
                          /\ header[p] = sweep
      /\ InUse(tab, sweep) /\ p # NULL /\ "FILE" \in tab.status[sweep]
             => kind = "close"
      /\ kind \in {"skip", "close", "keep", "free"}
  BY <1>1, <1>2, <1>3 DEF SweptKind, BlocksOK, InUse
<1>5. /\ WellFormed(tab') /\ HeapTypes(header', heap', scope')
      /\ BlocksOK(tab', header', heap', scope')
      /\ FilesOK(tab', handle, filerec, sweep)
      /\ tab'.curr = tab.curr
      /\ kind = "free" => tab' = SetFree(tab, sweep)
  <2>1. CASE kind = "free"
    <3>1. p \in Blocks /\ heap[p] = "managed" /\ Owned(p, heap, scope)
          /\ header[p] = sweep /\ ReleaseBlock(p)
      BY <1>1, <1>4, <2>1 DEF Owned
    <3> HIDE DEF p, kind
    <3> QED BY <3>1, ReleaseStep
  <2>2. CASE kind # "free"
    BY <1>1, <1>2, <2>2
  <2> QED BY <2>1, <2>2
<1>6. /\ handle' \in [Files -> BOOLEAN]
      /\ descriptors' \in [Files -> 0 .. MaxOpen]
      /\ \A g \in Files : handle'[g] => handle[g] /\ descriptors'[g] > 0
                                        /\ (kind = "close" => g # p)
  <2>1. CASE kind = "close"
    <3>1. /\ p \in Files /\ handle' = [handle EXCEPT ![p] = FALSE]
          /\ descriptors' = IF handle[p] THEN [descriptors EXCEPT ![p] = descriptors[p] - 1]
                                         ELSE descriptors
      BY <1>1, <1>4, <2>1 DEF CloseHandle
    <3> HIDE DEF p, kind
    <3> QED BY <1>2, <3>1, MemAssumption
  <2>2. CASE kind # "close"
    BY <1>1, <1>2, <2>2
  <2> QED BY <2>1, <2>2
<1>7. FilesOK(tab', handle', filerec', sweep')
  <2>1. ASSUME NEW f \in Files, handle'[f]
        PROVE  \E i \in Slot : /\ InUse(tab', i) /\ "FILE" \in tab'.status[i]
                               /\ tab'.ptr[i] = f /\ i >= sweep'
    <3>1. handle[f] /\ f # NULL
      BY <1>6, <2>1, MemAssumption
    <3>2. PICK i \in Slot : /\ InUse(tab', i) /\ "FILE" \in tab'.status[i]
                            /\ tab'.ptr[i] = f /\ i >= sweep
      BY <1>5, <3>1 DEF FilesOK
    <3>3. i # sweep
      <4>1. SUFFICES ASSUME i = sweep PROVE FALSE
        OBVIOUS
      <4>2. kind # "free"
        BY <1>2, <1>3, <1>4, <1>5, <3>2, <4>1, SetFreeWellFormed DEF BlocksOK
      <4>3. tab' = tab
        BY <1>1, <4>2
      <4>4. kind = "close" /\ f = p
        BY <1>4, <3>1, <3>2, <4>1, <4>3
      <4> QED BY <1>6, <2>1, <4>4
    <3> QED BY <1>1, <1>3, <3>2, <3>3 DEF Slot
  <2> QED BY <1>1, <1>5, <2>1 DEF FilesOK
<1>8. Passed'
  <2>1. ASSUME NEW i \in Slot, i < sweep', InUse(tab', i), tab'.ptr[i] # NULL,
               "FILE" \notin tab'.status[i]
        PROVE  "PROCESS" \in tab'.status[i] /\ keep_mem'
    <3>1. CASE kind = "free"
      <4>1. InUse(tab, sweep) /\ "FILE" \notin tab.status[sweep]
        BY <1>2, <1>4, <3>1 DEF BlocksOK
      <4>2. tab' = SetFree(tab, sweep)
        BY <1>5, <3>1
      <4>3. ~InUse(tab', sweep) /\ SameElsewhere(tab, tab', sweep)
        BY <1>2, <1>3, <4>1, <4>2, SetFreeWellFormed
      <4>4. i # sweep
        BY <2>1, <4>3
      <4>5. /\ InUse(tab, i) /\ tab.ptr[i] # NULL /\ "FILE" \notin tab.status[i]
            /\ tab'.status[i] = tab.status[i]
        BY <2>1, <4>3, <4>4 DEF SameElsewhere
      <4>6. i < sweep
        BY <1>1, <1>2, <2>1, <4>4 DEF Slot
      <4> QED BY <1>1, <1>2, <4>5, <4>6 DEF Passed
    <3>2. CASE kind # "free" /\ i = sweep
      <4>1. tab' = tab /\ p # NULL /\ InUse(tab, sweep)
        BY <1>1, <2>1, <3>2
      <4>2. kind = "keep"
        BY <1>4, <2>1, <3>2, <4>1
      <4> QED BY <1>1, <1>4, <3>2, <4>1, <4>2
    <3>3. CASE kind # "free" /\ i # sweep
      <4>1. tab' = tab /\ i < sweep
        BY <1>1, <1>2, <2>1, <3>3 DEF Slot
      <4> QED BY <1>1, <1>2, <2>1, <4>1 DEF Passed
    <3> QED BY <3>1, <3>2, <3>3
  <2> QED BY <2>1 DEF Passed
<1>9. PhaseOK'
  BY <1>1, <1>2, <1>3, <1>5, <1>6, <1>8 DEF PhaseOK, MemInv
<1>10. TypeOK'
  BY <1>1, <1>3, <1>5, <1>6 DEF MemInv, TypeOK, HeapTypes, WellFormed
<1>11. HandlesClosed' /\ SurvivorsMarked'
  BY <1>1 DEF HandlesClosed, SurvivorsMarked
<1> QED BY <1>5, <1>7, <1>9, <1>10, <1>11 DEF MemInv, WellFormed, BlocksOK,
           FilesOK, InUse, Owned, ChainExact, CleanEntries

(* The rest of vely_done: the loop has passed every entry, so no FILE* is   *)
(* set, and without process memory no block is left in the table.          *)
LEMMA EndSweepStep == ASSUME MemInv, EndSweep PROVE MemInv'
<1>1. /\ phase = "sweep" /\ sweep = tab.curr /\ phase' = "idle" /\ sweep' = 0
      /\ keep_mem' = FALSE
      /\ tab' = IF keep_mem THEN tab ELSE EmptyTable
      /\ filerec' = [b \in Blocks |-> NoFile]
      /\ scope' = [b \in Blocks |-> IF heap[b] = "managed" /\ scope[b] = "request"
                                    THEN "orphan" ELSE scope[b]]
      /\ UNCHANGED <<header, heap, vely_mem_os, vely_mem_process, stmt,
                     handle, descriptors>>
  BY DEF EndSweep, LoopEnd, KeptTable, modeVars
<1>2. /\ HeapTypes(header, heap, scope) /\ WellFormed(tab)
      /\ BlocksOK(tab, header, heap, scope)
      /\ FilesOK(tab, handle, filerec, sweep)
      /\ tab.curr \in 0 .. MaxSlots
      /\ Passed /\ stmt = "none" /\ 0 \in Slot
  BY <1>1, MemAssumption DEF MemInv, TypeOK, PhaseOK, HeapTypes, Table, Slot
<1>3. HeapTypes(header', heap', scope')
  BY <1>1, <1>2 DEF HeapTypes
<1>4. \A b \in Blocks : /\ Owned(b, heap', scope') <=> Owned(b, heap, scope)
                        /\ scope'[b] = "process" => scope[b] = "process"
  BY <1>1, <1>2 DEF HeapTypes, Owned
<1>5. \A f \in Files : ~handle[f]
  BY <1>1, <1>2 DEF FilesOK, InUse, Slot
<1>6. \A b \in Blocks : Owned(b, heap, scope) =>
          "PROCESS" \in tab.status[header[b]] /\ keep_mem
  <2>1. ASSUME NEW b \in Blocks, Owned(b, heap, scope)
        PROVE  "PROCESS" \in tab.status[header[b]] /\ keep_mem
    <3>1. /\ header[b] \in Slot /\ InUse(tab, header[b])
          /\ tab.ptr[header[b]] = b /\ b # NULL
          /\ "FILE" \notin tab.status[header[b]]
      BY <1>2, <2>1, MemAssumption DEF BlocksOK, HeapTypes
    <3>2. header[b] < sweep
      BY <1>1, <3>1 DEF InUse
    <3> QED BY <1>2, <3>1, <3>2 DEF Passed
  <2> QED BY <2>1
<1>7. WellFormed(tab')
  BY <1>1, <1>2, EmptyWellFormed
<1>8. BlocksOK(tab', header', heap', scope')
  <2>1. CASE keep_mem
    <3>1. tab' = tab /\ header' = header
      BY <1>1, <2>1
    <3> QED BY <1>2, <1>4, <3>1 DEF BlocksOK
  <2>2. CASE ~keep_mem
    <3>1. tab' = EmptyTable
      BY <1>1, <2>2
    <3>2. \A i \in Slot : ~InUse(tab', i)
      BY <3>1 DEF EmptyTable, InUse, Slot
    <3>3. \A b \in Blocks : ~Owned(b, heap', scope')
      BY <1>4, <1>6, <2>2
    <3> QED BY <3>2, <3>3 DEF BlocksOK
  <2> QED BY <2>1, <2>2
<1>9. FilesOK(tab', handle', filerec', sweep')
  BY <1>1, <1>5 DEF FilesOK
<1>10. TypeOK'
  <2>1. filerec' \in [Blocks -> [file : Files \cup {NULL}, ind : Slot]]
    BY <1>1, <1>2 DEF NoFile
  <2>2. sweep' \in 0 .. MaxSlots
    BY <1>1, MemAssumption
  <2> QED BY <1>1, <1>3, <1>7, <2>1, <2>2
          DEF MemInv, TypeOK, HeapTypes, WellFormed
<1>11. HandlesClosed'
  BY <1>1, <1>5 DEF HandlesClosed
<1>12. SurvivorsMarked'
  <2>1. ASSUME NEW b \in Blocks, heap'[b] = "managed", scope'[b] # "lost"
        PROVE  "PROCESS" \in tab'.status[header'[b]]
    <3>1. Owned(b, heap, scope)
      BY <1>4, <2>1 DEF Owned
    <3> QED BY <1>1, <1>6, <3>1
  <2> QED BY <2>1 DEF SurvivorsMarked
<1>13. PhaseOK'
  BY <1>1, <1>2, <1>5 DEF PhaseOK, MemInv
<1> QED BY <1>7, <1>8, <1>9, <1>10, <1>11, <1>12, <1>13 DEF MemInv, WellFormed,
           BlocksOK, FilesOK, InUse, Owned, ChainExact, CleanEntries

-----------------------------------------------------------------------------
(* The worker starts in the invariant: nothing is allocated.               *)
LEMMA InitMemInv == Init => MemInv
<1> SUFFICES ASSUME Init PROVE MemInv
  OBVIOUS
<1>1. WellFormed(tab) /\ 0 \in Slot
  BY EmptyWellFormed, MemAssumption DEF Init, Slot
<1>2. TypeOK
  <2>1. filerec \in [Blocks -> [file : Files \cup {NULL}, ind : Slot]]
    BY <1>1 DEF Init, NoFile
  <2>2. /\ header \in [Blocks -> Slot]
        /\ scope \in [Blocks -> {"none", "request", "process", "orphan", "lost"}]
        /\ descriptors \in [Files -> 0 .. MaxOpen]
        /\ sweep \in 0 .. MaxSlots
    BY <1>1, MemAssumption DEF Init
  <2>3. /\ heap \in [Blocks -> {"none", "managed", "os"}]
        /\ handle \in [Files -> BOOLEAN]
        /\ vely_mem_os \in BOOLEAN /\ vely_mem_process \in BOOLEAN
        /\ keep_mem \in BOOLEAN
        /\ phase \in {"request", "sweep", "idle"}
        /\ stmt \in {"none", "request", "process"}
    BY DEF Init
  <2> QED BY <1>1, <2>1, <2>2, <2>3 DEF TypeOK, WellFormed
<1>3. \A i \in Slot : ~InUse(tab, i)
  BY DEF Init, EmptyTable, InUse, Slot
<1>4. BlocksOK(tab, header, heap, scope)
  BY <1>3 DEF Init, BlocksOK, Owned
<1> QED BY <1>1, <1>2, <1>4 DEF Init, MemInv, FilesOK, PhaseOK, HandlesClosed,
           SurvivorsMarked

(* Every step of the worker keeps the invariant.                           *)
LEMMA NextMemInv == MemInv /\ [Next]_vars => MemInv'
<1> SUFFICES ASSUME MemInv, [Next]_vars PROVE MemInv'
  OBVIOUS
<1>1. CASE \/ BeginRequest \/ EndRequest \/ ReportError \/ EndStmt
           \/ \E os \in BOOLEAN : ManageMemory(os)
           \/ \E process \in BOOLEAN : StartStmt(process)
  BY <1>1, ControlSteps
<1>2. CASE SweepSlot
  BY <1>2, SweepSlotStep
<1>3. CASE EndSweep
  BY <1>3, EndSweepStep
<1>4. CASE \E b \in Blocks : Malloc(b)
  BY <1>4, MallocStep
<1>5. CASE \E b \in Blocks : Free(b)
  BY <1>5, FreeStep
<1>6. CASE \E b \in Blocks : SetProcess(b)
  BY <1>6, SetProcessStep
<1>7. CASE \E b \in Blocks : CloseFile(b)
  BY <1>7, CloseFileStep
<1>8. CASE \E b \in Blocks : ReallocFails(b)
  BY <1>8, ReallocFailsStep
<1>9. CASE \E b, c \in Blocks : Realloc(b, c)
  BY <1>9, ReallocStep
<1>10. CASE \E f \in Files, b \in Blocks : OpenFile(f, b)
  BY <1>10, OpenFileStep
<1>11. CASE \E f \in Files, b \in Blocks : OpenFileFails(f, b)
  BY <1>11, OpenFailsStep
<1>12. CASE UNCHANGED vars
  <2>1. UNCHANGED <<tab, header, heap, vely_mem_os, vely_mem_process, stmt,
                    handle, descriptors, filerec, phase, sweep, keep_mem, scope>>
    BY <1>12 DEF vars, memVars, modeVars, fileVars, sweepVars
  <2> QED BY <2>1 DEF MemInv, TypeOK, WellFormed, ChainExact, CleanEntries,
             BlocksOK, FilesOK, PhaseOK, Passed, HandlesClosed, SurvivorsMarked,
             InUse, Owned
<1> QED BY <1>1, <1>2, <1>3, <1>4, <1>5, <1>6, <1>7, <1>8, <1>9, <1>10, <1>11,
           <1>12 DEF Next

-----------------------------------------------------------------------------
(* The results.                                                            *)

(* The invariant holds for as long as the worker runs, over any number of   *)
(* requests and errors.                                                    *)
THEOREM MemInvariant == Spec => []MemInv
<1>1. Init => MemInv
  BY InitMemInv
<1>2. MemInv /\ [Next]_vars => MemInv'
  BY NextMemInv
<1> QED BY <1>1, <1>2, PTL DEF Spec

(* The variables of velymem.c keep their types.                            *)
THEOREM TypeCorrect == Spec => []TypeOK
<1>1. MemInv => TypeOK
  BY DEF MemInv
<1> QED BY <1>1, MemInvariant, PTL

(* vely_add_mem never hands out an entry in use: the free chain is exact.   *)
THEOREM FreeChain == Spec => []FreeChainExact
<1>1. MemInv => FreeChainExact
  BY DEF MemInv, WellFormed, FreeChainExact
<1> QED BY <1>1, MemInvariant, PTL

(* _vely_free and _vely_realloc find the caller's own entry from the index  *)
(* word of its block.                                                      *)
THEOREM BlocksTracked == Spec => []Tracked
<1>1. MemInv => Tracked
  BY DEF MemInv, BlocksOK, Owned, Tracked
<1> QED BY <1>1, MemInvariant, PTL

(* vely_done frees nothing twice, and nothing of unmanaged mode.            *)
THEOREM NoDoubleFree == Spec => []EntriesLive
<1>1. MemInv => EntriesLive
  BY DEF MemInv, BlocksOK, Owned, EntriesLive
<1> QED BY <1>1, MemInvariant, PTL

(* No static FILE* is set between requests.                                *)
THEOREM FilesClosed == Spec => []HandlesClosed
<1>1. MemInv => HandlesClosed
  BY DEF MemInv
<1> QED BY <1>1, MemInvariant, PTL

(* Only entries with the PROCESS bit, and failed reallocs, survive a        *)
(* request.                                                                *)
THEOREM NothingElseSurvives == Spec => []SurvivorsMarked
<1>1. MemInv => SurvivorsMarked
  BY DEF MemInv
<1> QED BY <1>1, MemInvariant, PTL

(* vely_done never frees process-scoped or unmanaged memory.               *)
THEOREM ProcessMemory == Spec => ProcessMemoryKept
<1>1. MemInv /\ [Next]_vars =>
        [phase = "sweep" => \A b \in Blocks : (scope[b] = "process" \/ heap[b] = "os")
                                => heap'[b] = heap[b]]_vars
  <2> SUFFICES ASSUME MemInv, Next, phase = "sweep", NEW b \in Blocks,
                      scope[b] = "process" \/ heap[b] = "os"
               PROVE  heap'[b] = heap[b]
    OBVIOUS
  <2>1. SweepSlot \/ EndSweep
    BY DEF Next, BeginRequest, EndRequest, ReportError, ManageMemory, StartStmt,
           EndStmt, Malloc, Free, SetProcess, CloseFile, ReallocFails, Realloc,
           OpenFile, OpenFileFails
  <2>2. CASE EndSweep
    BY <2>2 DEF EndSweep
  <2>3. CASE SweepSlot
    <3> DEFINE p == tab.ptr[sweep]
               kind == SweptKind(tab.status[sweep], p)
    <3>1. kind # "free" => heap' = heap
      BY <2>3 DEF SweepSlot, memVars
    <3>2. CASE kind = "free"
      <4>1. /\ ReleaseBlock(p) /\ sweep < tab.curr /\ sweep \in Slot
            /\ "FREE" \notin tab.status[sweep] /\ p # NULL
            /\ "FILE" \notin tab.status[sweep]
            /\ "PROCESS" \notin tab.status[sweep]
        BY <2>3, <3>2, MemAssumption
           DEF SweepSlot, SweptKind, LoopEnd, MemInv, TypeOK, Table, Slot
      <4>2. p \in Blocks /\ Owned(p, heap, scope) /\ header[p] = sweep
        BY <4>1 DEF MemInv, BlocksOK, InUse
      <4>3. heap' = [heap EXCEPT ![p] = "none"]
        <5> HIDE DEF p
        <5> QED BY <4>1, <4>2, ReleaseStep
      <4>4. b # p
        BY <4>1, <4>2 DEF MemInv, BlocksOK, Owned
      <4> QED BY <4>2, <4>3, <4>4 DEF MemInv, TypeOK
    <3> QED BY <3>1, <3>2
  <2> QED BY <2>1, <2>2, <2>3
<1> QED BY <1>1, MemInvariant, PTL DEF Spec, ProcessMemoryKept
=============================================================================

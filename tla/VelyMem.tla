------------------------------ MODULE VelyMem ------------------------------
(***************************************************************************)
(* The managed heap of a Vely worker (velymem.c).                          *)
(*                                                                         *)
(* Every block that a statement allocates is entered in a table, vm[], and *)
(* carries its own index in the table in the word before its data.  Freed  *)
(* entries are chained, last freed first reused.  When a request ends,     *)
(* vely_done walks the table, closes the files and frees every block that  *)
(* is not process-scoped.  A block is process-scoped when it was allocated *)
(* while vely_mem_process was set, which the code generated for the hash   *)
(* and tree statements does around the call, or was made so by             *)
(* _vely_mem_set_process.                                                  *)
(*                                                                         *)
(* A block is an address: free returns it, malloc may hand it out again.   *)
(* A file is an open-file statement, which owns one static FILE pointer.   *)
(***************************************************************************)
EXTENDS Integers, Sequences, FiniteSets

CONSTANTS Blocks,     \* the addresses malloc can return
          Files,      \* the open-file statements of the program
          NULL,       \* the null pointer of a table entry
          MaxSlots,   \* bound: the entries the table can grow to
          MaxOpen     \* bound: descriptors one open-file statement may hold

ASSUME MemAssumption ==
    /\ MaxSlots \in Nat \ {0}
    /\ MaxOpen \in Nat
    /\ NULL \notin Blocks \cup Files
    /\ Blocks \cap Files = {}

VARIABLES
    tab,              \* vm, vm_curr and the chain from vm_first_free
    header,           \* the index word in front of each block (0 once freed)
    heap,             \* what the C allocator knows of each address
    vely_mem_os,      \* TRUE: unmanaged mode, plain malloc and free
    vely_mem_process, \* TRUE: new entries are process-scoped
    handle,           \* is the static FILE* of the statement not NULL
    descriptors,      \* descriptors the statement opened and nobody closed
    filerec,          \* which blocks are vely_file records, and their memind
    phase,            \* "request", "sweep" (inside vely_done) or "idle"
    sweep,            \* the loop index of vely_done
    keep_mem,         \* the local of vely_done
    stmt,             \* the kind of statement the program is inside of
    scope             \* history: how long each block was meant to live

memVars == <<tab, header, heap>>
modeVars == <<vely_mem_os, vely_mem_process, stmt>>
fileVars == <<handle, descriptors, filerec>>
sweepVars == <<phase, sweep, keep_mem>>
vars == <<memVars, modeVars, fileVars, sweepVars, scope>>

Slot == 0 .. MaxSlots - 1
Bits == {"FREE", "FILE", "PROCESS"}
NoFile == [file |-> NULL, ind |-> 0]

-----------------------------------------------------------------------------
(* The table.  tab.free is the chain that starts at vm_first_free, its      *)
(* head last.  A definition named Bug... is a slip this code could have; it *)
(* is used only to show that a property would notice.                      *)

EmptyTable == [ptr    |-> [i \in Slot |-> NULL],
               status |-> [i \in Slot |-> {}],
               curr   |-> 0,
               free   |-> <<>>]

HasRoom(t) == t.free # <<>> \/ t.curr < MaxSlots

\* vely_add_mem: the entry it takes.
AddSlot(t) == IF t.free # <<>> THEN t.free[Len(t.free)] ELSE t.curr

BugStillFree(s, process) == s \cup (IF process THEN {"PROCESS"} ELSE {})

\* The status an entry gets when it is taken: only the FREE bit is cleared.
TakenStatus(s, process) ==
    (s \ {"FREE"}) \cup (IF process THEN {"PROCESS"} ELSE {})

\* vely_add_mem: the table after it.
AddMem(t, p, process) ==
    LET r == AddSlot(t)
    IN  [ptr    |-> [t.ptr EXCEPT ![r] = p],
         status |-> [t.status EXCEPT ![r] = TakenStatus(t.status[r], process)],
         curr   |-> IF t.free # <<>> THEN t.curr ELSE t.curr + 1,
         free   |-> IF t.free # <<>> THEN SubSeq(t.free, 1, Len(t.free) - 1)
                                     ELSE t.free]

BugNoStatus(t, bit, r) == t

\* vely_set_mem_status, also the last line of _vely_mem_set_process.
SetStatus(t, bit, r) ==
    [ptr    |-> t.ptr,
     status |-> [t.status EXCEPT ![r] = t.status[r] \cup {bit}],
     curr   |-> t.curr,
     free   |-> t.free]

\* vely_clear_mem: close-file empties the entry but does not chain it.
ClearMem(t, r) == [ptr    |-> [t.ptr EXCEPT ![r] = NULL],
                   status |-> t.status,
                   curr   |-> t.curr,
                   free   |-> t.free]

BugStatusCleared(s) == {"FREE"}

\* The bits a freed entry is left with.
FreedStatus(s) == s \cup {"FREE"}

\* _vely_set_free
SetFree(t, r) == [ptr    |-> [t.ptr EXCEPT ![r] = NULL],
                  status |-> [t.status EXCEPT ![r] = FreedStatus(t.status[r])],
                  curr   |-> t.curr,
                  free   |-> Append(t.free, r)]

-----------------------------------------------------------------------------
Init == /\ tab = EmptyTable
        /\ header = [b \in Blocks |-> 0]
        /\ heap = [b \in Blocks |-> "none"]
        /\ vely_mem_os = FALSE
        /\ vely_mem_process = FALSE
        /\ handle = [f \in Files |-> FALSE]
        /\ descriptors = [f \in Files |-> 0]
        /\ filerec = [b \in Blocks |-> NoFile]
        /\ phase = "idle"
        /\ sweep = 0
        /\ keep_mem = FALSE
        /\ stmt = "none"
        /\ scope = [b \in Blocks |-> "none"]

(* The next request: vely_init_input_req turns managed mode on.             *)
BeginRequest == /\ phase = "idle"
                /\ phase' = "request"
                /\ vely_mem_os' = FALSE
                /\ UNCHANGED <<memVars, vely_mem_process, stmt, fileVars,
                               sweep, keep_mem, scope>>

(* manage-memory on and off                                                *)
ManageMemory(os) == /\ phase = "request" /\ stmt = "none"
                    /\ vely_mem_os # os
                    /\ vely_mem_os' = os
                    /\ UNCHANGED <<memVars, vely_mem_process, stmt, fileVars,
                                   sweepVars, scope>>

(* A hash or tree statement: the generated code sets vely_mem_process from  *)
(* the object before the call and clears it after.                         *)
StartStmt(process) ==
    /\ phase = "request" /\ stmt = "none"
    /\ stmt' = IF process THEN "process" ELSE "request"
    /\ vely_mem_process' = process
    /\ UNCHANGED <<memVars, vely_mem_os, fileVars, sweepVars, scope>>

EndStmt == /\ phase = "request" /\ stmt # "none"
           /\ stmt' = "none"
           /\ vely_mem_process' = FALSE
           /\ UNCHANGED <<memVars, vely_mem_os, fileVars, sweepVars, scope>>

-----------------------------------------------------------------------------
(* The blocks the program may still name: those of this request, and the    *)
(* process-scoped ones.                                                    *)
Held(b) == heap[b] # "none" /\ scope[b] \in {"request", "process"}

ModeKind == IF vely_mem_os THEN "os" ELSE "managed"

AskedScope == IF stmt = "process" THEN "process" ELSE "request"

\* malloc succeeded at b and the block is entered in table t.
Allocate(t, b) ==
    /\ heap[b] = "none"
    /\ vely_mem_os \/ HasRoom(t)
    /\ heap' = [heap EXCEPT ![b] = ModeKind]
    /\ scope' = [scope EXCEPT ![b] = AskedScope]
    /\ header' = IF vely_mem_os THEN header
                                ELSE [header EXCEPT ![b] = AddSlot(t)]

TableWith(t, p) == IF vely_mem_os THEN t ELSE AddMem(t, p, vely_mem_process)

(* _vely_malloc, _vely_calloc, _vely_strdup; _vely_realloc of no block      *)
Malloc(b) == /\ phase = "request"
             /\ Allocate(tab, b)
             /\ tab' = TableWith(tab, b)
             /\ UNCHANGED <<modeVars, fileVars, sweepVars>>

(* _vely_free of a block the program holds, in the mode it was allocated in.*)
(* An entry already marked FREE is left alone.                             *)
ReleaseBlock(b) ==
    LET r == header[b]
    IN  IF heap[b] = "managed" /\ "FREE" \in tab.status[r]
        THEN UNCHANGED <<memVars, scope>>
        ELSE /\ header' = [header EXCEPT ![b] = 0]
             /\ tab' = IF heap[b] = "managed" THEN SetFree(tab, r) ELSE tab
             /\ heap' = [heap EXCEPT ![b] = "none"]
             /\ scope' = [scope EXCEPT ![b] = "none"]

Free(b) == /\ phase = "request"
           /\ Held(b) /\ heap[b] = ModeKind /\ filerec[b] = NoFile
           /\ ReleaseBlock(b)
           /\ UNCHANGED <<modeVars, fileVars, sweepVars>>

(* _vely_mem_set_process, for a key or value stored in a process-scoped     *)
(* object.                                                                 *)
SetProcess(b) == /\ phase = "request" /\ stmt = "process"
                 /\ ~vely_mem_os /\ vely_mem_process
                 /\ Held(b) /\ heap[b] = "managed"
                 /\ tab' = SetStatus(tab, "PROCESS", header[b])
                 /\ scope' = [scope EXCEPT ![b] = "process"]
                 /\ UNCHANGED <<header, heap, modeVars, fileVars, sweepVars>>

(* _vely_realloc: the entry is freed and the first free entry, the same     *)
(* one, is taken for the block at its new address c.                       *)
Realloc(b, c) ==
    LET t == SetFree(tab, header[b])
    IN  /\ phase = "request"
        /\ Held(b) /\ heap[b] = ModeKind /\ filerec[b] = NoFile
        /\ c = b \/ heap[c] = "none"
        /\ tab' = IF vely_mem_os THEN tab ELSE AddMem(t, c, vely_mem_process)
        /\ header' = IF vely_mem_os THEN header
                                    ELSE [header EXCEPT ![b] = 0, ![c] = AddSlot(t)]
        /\ heap' = [heap EXCEPT ![b] = "none", ![c] = heap[b]]
        /\ scope' = [scope EXCEPT ![b] = "none",
                                  ![c] = IF stmt = "process" /\ ~vely_mem_os
                                         THEN "process" ELSE scope[b]]
        /\ UNCHANGED <<modeVars, fileVars, sweepVars>>

-----------------------------------------------------------------------------
(* open-file: a vely_file record at b, then the static FILE* is registered. *)
(* The static is assigned whatever it held before.                         *)
OpenFile(f, b) ==
    LET t == TableWith(tab, b)
    IN  /\ phase = "request" /\ stmt = "none"
        /\ descriptors[f] < MaxOpen
        /\ Allocate(tab, b)
        /\ HasRoom(t)
        /\ tab' = SetStatus(AddMem(t, f, vely_mem_process), "FILE", AddSlot(t))
        /\ handle' = [handle EXCEPT ![f] = TRUE]
        /\ descriptors' = [descriptors EXCEPT ![f] = @ + 1]
        /\ filerec' = [filerec EXCEPT ![b] = [file |-> f, ind |-> AddSlot(t)]]
        /\ UNCHANGED <<modeVars, sweepVars>>

(* open-file of a file that cannot be opened: fopen returned NULL           *)
OpenFileFails(f, b) ==
    /\ phase = "request" /\ stmt = "none"
    /\ Allocate(tab, b)
    /\ tab' = TableWith(tab, b)
    /\ handle' = [handle EXCEPT ![f] = FALSE]
    /\ UNCHANGED <<modeVars, descriptors, filerec, sweepVars>>

BugCloseUnchecked(f) ==
    /\ handle' = [handle EXCEPT ![f] = FALSE]
    /\ descriptors' = [descriptors EXCEPT ![f] = @ - 1]

\* fclose through the static FILE*, which is then NULL.
CloseHandle(f) ==
    /\ handle' = [handle EXCEPT ![f] = FALSE]
    /\ descriptors' = IF handle[f] THEN [descriptors EXCEPT ![f] = @ - 1]
                                   ELSE descriptors

(* close-file through the vely_file record at b                            *)
CloseFile(b) ==
    LET t == ClearMem(tab, filerec[b].ind)
    IN  /\ phase = "request" /\ stmt = "none"
        /\ Held(b) /\ heap[b] = ModeKind /\ filerec[b] # NoFile
        /\ CloseHandle(filerec[b].file)
        /\ tab' = IF vely_mem_os THEN t ELSE SetFree(t, header[b])
        /\ heap' = [heap EXCEPT ![b] = "none"]
        /\ header' = [header EXCEPT ![b] = 0]
        /\ scope' = [scope EXCEPT ![b] = "none"]
        /\ filerec' = [filerec EXCEPT ![b] = NoFile]
        /\ UNCHANGED <<modeVars, sweepVars>>

-----------------------------------------------------------------------------
(* The end of a request.  The main loop turns managed mode on and calls     *)
(* vely_memory_init, that is vely_done.                                    *)
StartSweep == /\ phase' = "sweep"
              /\ vely_mem_os' = FALSE
              /\ stmt' = "none"
              /\ UNCHANGED <<sweep, keep_mem>>

EndRequest == /\ phase = "request" /\ stmt = "none"
              /\ StartSweep
              /\ UNCHANGED <<memVars, vely_mem_process, fileVars, scope>>

(* vely_report_error, at any point of the request (out of memory, invalid   *)
(* memory given to a statement, an error the program reports): a long jump  *)
(* to end_point.  Nothing resets vely_mem_process.                         *)
ReportError == /\ phase = "request"
               /\ StartSweep
               /\ UNCHANGED <<memVars, vely_mem_process, fileVars, scope>>

(* _vely_realloc out of memory: the entry is already freed, the block is    *)
(* not, and the error ends the request.                                    *)
ReallocFails(b) ==
    /\ phase = "request" /\ ~vely_mem_os
    /\ Held(b) /\ heap[b] = "managed" /\ filerec[b] = NoFile
    /\ tab' = SetFree(tab, header[b])
    /\ scope' = [scope EXCEPT ![b] = "lost"]
    /\ StartSweep
    /\ UNCHANGED <<header, heap, vely_mem_process, fileVars>>

BugProcessFirst(s, p) == IF "FREE" \in s \/ p = NULL THEN "skip"
                         ELSE IF "PROCESS" \in s THEN "keep"
                         ELSE IF "FILE" \in s THEN "close"
                         ELSE "free"

\* What the loop of vely_done does with an entry.
SweptKind(s, p) == IF "FREE" \in s \/ p = NULL THEN "skip"
                   ELSE IF "FILE" \in s THEN "close"
                   ELSE IF "PROCESS" \in s THEN "keep"
                   ELSE "free"

BugLoopEnd == IF tab.curr = 0 THEN 0 ELSE tab.curr - 1

\* The bound of that loop.
LoopEnd == tab.curr

BugTableDropped == EmptyTable

\* Without process memory the table starts afresh.
KeptTable == IF keep_mem THEN tab ELSE EmptyTable

(* One turn of the loop in vely_done                                       *)
SweepSlot ==
    LET p == tab.ptr[sweep]
        kind == SweptKind(tab.status[sweep], p)
    IN  /\ phase = "sweep" /\ sweep < LoopEnd
        /\ sweep' = sweep + 1
        /\ keep_mem' = (keep_mem \/ kind = "keep")
        /\ IF kind = "free"
           THEN ReleaseBlock(p)
           ELSE UNCHANGED <<memVars, scope>>
        /\ IF kind = "close"
           THEN CloseHandle(p)
           ELSE UNCHANGED <<handle, descriptors>>
        /\ UNCHANGED <<modeVars, filerec, phase>>

(* The rest of vely_done.  Request blocks that are still there have no      *)
(* owner from here on.                                                     *)
EndSweep ==
    /\ phase = "sweep" /\ sweep = LoopEnd
    /\ phase' = "idle"
    /\ sweep' = 0
    /\ keep_mem' = FALSE
    /\ tab' = KeptTable
    /\ filerec' = [b \in Blocks |-> NoFile]
    /\ scope' = [b \in Blocks |-> IF heap[b] = "managed" /\ scope[b] = "request"
                                  THEN "orphan" ELSE scope[b]]
    /\ UNCHANGED <<header, heap, modeVars, handle, descriptors>>

-----------------------------------------------------------------------------
Next == \/ BeginRequest \/ EndRequest \/ ReportError
        \/ SweepSlot \/ EndSweep
        \/ \E os \in BOOLEAN : ManageMemory(os)
        \/ \E process \in BOOLEAN : StartStmt(process)
        \/ EndStmt
        \/ \E b \in Blocks : \/ Malloc(b) \/ Free(b) \/ SetProcess(b)
                             \/ CloseFile(b) \/ ReallocFails(b)
        \/ \E b, c \in Blocks : Realloc(b, c)
        \/ \E f \in Files, b \in Blocks : OpenFile(f, b) \/ OpenFileFails(f, b)

Spec == Init /\ [][Next]_vars

-----------------------------------------------------------------------------
(* Properties                                                              *)

\* The types of the variables, velymem.c:30-85.
Table == [ptr    : [Slot -> Blocks \cup Files \cup {NULL}],
          status : [Slot -> SUBSET Bits],
          curr   : 0 .. MaxSlots,
          free   : Seq(Slot)]

TypeOK ==
    /\ tab \in Table
    /\ header \in [Blocks -> Slot]
    /\ heap \in [Blocks -> {"none", "managed", "os"}]
    /\ vely_mem_os \in BOOLEAN
    /\ vely_mem_process \in BOOLEAN
    /\ handle \in [Files -> BOOLEAN]
    /\ descriptors \in [Files -> 0 .. MaxOpen]
    /\ filerec \in [Blocks -> [file : Files \cup {NULL}, ind : Slot]]
    /\ phase \in {"request", "sweep", "idle"}
    /\ sweep \in 0 .. MaxSlots
    /\ keep_mem \in BOOLEAN
    /\ stmt \in {"none", "request", "process"}
    /\ scope \in [Blocks -> {"none", "request", "process", "orphan", "lost"}]

InUse(t, i) == i < t.curr /\ "FREE" \notin t.status[i]

ChainExact(t) ==
    /\ \A k \in 1 .. Len(t.free) :
           t.free[k] < t.curr /\ "FREE" \in t.status[t.free[k]]
    /\ \A j, k \in 1 .. Len(t.free) : t.free[j] = t.free[k] => j = k
    /\ \A i \in Slot : (i < t.curr /\ "FREE" \in t.status[i])
                           => \E k \in 1 .. Len(t.free) : t.free[k] = i

\* The chain of freed entries names every FREE entry once and no other, so
\* vely_add_mem (velymem.c:133) never hands out an entry that is in use and
\* the chain never loops, whatever order entries are freed and reused in.
FreeChainExact == ChainExact(tab)

\* Every managed block is found again from the index word in front of it, in
\* an entry that is in use and is not a file: _vely_free and _vely_realloc
\* (velymem.c:295, 340) act on the caller's own block.  The one exception is
\* a block whose realloc failed.
Tracked ==
    \A b \in Blocks : (heap[b] = "managed" /\ scope[b] # "lost") =>
        /\ InUse(tab, header[b])
        /\ tab.ptr[header[b]] = b
        /\ "FILE" \notin tab.status[header[b]]

\* An entry in use that is neither a file nor cleared holds a live managed
\* block that points back to it: what vely_done frees (velymem.c:418) was not
\* freed before, nor belongs to unmanaged mode.
EntriesLive ==
    \A i \in Slot : (InUse(tab, i) /\ tab.ptr[i] # NULL) =>
        IF "FILE" \in tab.status[i]
        THEN tab.ptr[i] \in Files
        ELSE /\ tab.ptr[i] \in Blocks
             /\ heap[tab.ptr[i]] = "managed"
             /\ header[tab.ptr[i]] = i
             /\ scope[tab.ptr[i]] # "lost"

\* Between requests no static FILE* is left set, so the next request cannot
\* use a descriptor of the previous one (velymem.c:412-414).
HandlesClosed == phase = "idle" => \A f \in Files : ~handle[f]

\* A managed block that outlives its request does so because its entry has
\* the PROCESS bit, or because a realloc of it failed: vely_done misses
\* nothing else (velymem.c:395).
SurvivorsMarked ==
    phase = "idle" =>
        \A b \in Blocks : (heap[b] = "managed" /\ scope[b] # "lost") =>
            "PROCESS" \in tab.status[header[b]]

\* The end of a request frees neither a process-scoped block, realloc'ed or
\* not, nor an unmanaged one: only statements of the program do
\* (velymem.c:416; memory-handling: such memory stays for all requests).
ProcessMemoryKept ==
    [][phase = "sweep" =>
         \A b \in Blocks : (scope[b] = "process" \/ heap[b] = "os") =>
             heap'[b] = heap[b]]_vars

\* memory-handling: managed memory is always fully freed at the end of a
\* request.  The code does not always do so: see the README.
RequestMemoryFreed ==
    phase = "idle" => \A b \in Blocks : heap[b] = "managed" => scope[b] = "process"
=============================================================================

# Verification of the Vely run time

Vely is an application server framework in C: a generator (v1) turns `.vely` files into C,
a script (vv) builds them into a FastCGI worker, and a manager (vf) keeps the workers
running. This directory holds TLA+ modules of the parts of the run time that keep state,
TLC configurations that check them on small instances, and TLAPS proofs for every instance.
Paths such as `velymem.c:133` are relative to `src/`.

## 1. Inventory

| Component | State it keeps | Operations | What is hard, and what makes it correct |
|---|---|---|---|
| managed heap (velymem.c) | table of blocks `vm`, free chain, mode and scope flags, the index in front of each block | allocate, realloc, free, make process-scoped, open and close files, `vely_done` | The chain is threaded through the table and entries are reused; the table outlives requests. Every block is found from its index, nothing is freed twice, no file outlives its request, process memory survives. |
| process manager vf (vf.c) | `plist`, options, time of the executable, no-restart flag, command | the loop: load, executable, workers, commands; start_child; handlestop | Workers die, connections come and the executable changes while it goes through its slots. No worker is lost or orphaned, no worker is started that must not be, the ones asked for come back. |
| request loop (v1.c main, vv dispatcher, velyrt.c, chandle.c) | jump flags, `vely_in_request`, `vely_end_program`, error in progress | accept, input, dispatch, before/handler/after, errors, exit-request, signals | Two long jumps and a signal that disables them. Handlers in order, an error ends the request only, no transaction crosses requests, a worker told to end does. |
| response (velyrt.c) | flags of header, data, silent, disabled, finished; depth of write-string | out-header, out, write-string, send-file, finish-output, error pages, OPTIONS | Any order of statements and errors; one header, its end once, then data. |
| database layer (db.c, pg.c, mys.c, lite.c) | a connection per database, the flag of the transaction, prepared statements | begin, commit, rollback, queries, check at the end of a request | Connections are lost at any time and made again. A transaction is not spread over two sessions, none reaches the next request, prepared statements are known exactly where they are used. |
| shared memory of vf (vf.c 480-613, 1115-1227) | one command word, its data, the lock of the server | client, server, starting server and its launcher | No lock on the word: commands are overwritten, given up and answered late. No server executes one command twice; an undisturbed success and a reported start are real. |
| FastCGI client (fcli.c) | socket, the part of a record that is read, data and error so far, threads | new-server, call-server | Time-outs, closes and errors between any two parts; threads that do not start. VV_OKAY means the whole answer; nothing runs on when call-server returns. |
| tree (tree.c) | AVL nodes, the ordered list through them, a cursor | new-, write-, read-, delete-, purge-tree, use-cursor | A deletion moves keys between nodes, relinks and rotates. Balance, order, and what an ordered map would answer. |
| hash (hash.c) | buckets of chains, count, the place of a traversal | new-, write-, read-, resize-, purge-hash | Deletion, addition and resize in the middle of a traversal. What a dictionary would answer, nothing missed and nothing twice. |
| JSON (json.c) | static list of names, level, cut-off character, nodes | new-json | Recursion over statics that outlive calls, documents and errors. A value has its own name and indexes; the list stays in its bounds. |
| input (velyrt.c, velyrtc.c) | list of parameters with found marks, the task, cookies | get input, input-param, set-input, set-, get- and delete-cookie | One pass cuts body and query string; marks speed up a search; cookies are changed in place. Each name has its value, a search finds what is there, each changed cookie is sent once. |
| statement translator v1, script vv | | | A generator; what the generated code does at run time is modelled where it changes state. |
| curl, crypto, regex, UTF-8, trace, stub | none of their own | | Wrappers of libraries; not modelled. |

How they interact. vf forks workers and talks to them by SIGTERM only. A worker's loop calls
the dispatcher, which calls the application; statements call the heap, the response and the
database. An error (`vely_report_error`) rolls back transactions, writes an error page and
jumps to the end of the request, where the heap is swept (`vely_done`). The hazards are
listed in PROJECT.json with the properties that watch them.

## 2. Modules

| Module | Models | Extends |
|---|---|---|
| VelyMem | velymem.c and the generated code around it | standard modules |
| VfManager | the loop of vf, its workers, commands once they arrive | standard modules |
| VfCommand | how commands arrive: clients, servers and launchers over shared memory | standard modules |
| VelyOutput | the response, as operators on a record | SequencesExt |
| VelyWorker | the request loop, dispatcher, errors, exits, signals | VelyOutput |
| VelyInput | the input of a request and its cookies | SequencesExt |
| VelyDb | db.c over its three drivers; the servers are external | standard modules |
| FcgiClient | call-server; the servers are external | standard modules |
| VelyTree, VelyMap | tree.c and its statements; the ordered map it implements | standard modules |
| VelyHash, VelyDict | hash.c and its statements; the dictionary it implements | SequencesExt |
| VelyJson | the parser of json.c, with the grammar beside it | SequencesExt |
| VelyMemProofs, VfManagerProofs, VfCommandProofs, VelyWorkerProofs, VelyDbProofs, FcgiClientProofs, VelyHashProofs | theorems about the module of the same name | that module, TLAPS |
| VelyTextProofs | theorems about VelyJson and VelyInput | both, TLAPS |
| MC... | values and symmetry for TLC | the above |

VelyWorker and VelyJson are run as they are. Definitions named `Bug...` are slips the
code could plausibly have; nothing in the specifications uses them. Each is put in the place of
one definition to show that a property notices it (PROJECT.json, "mutants").

### VelyMem
`tab` is `vm`, `vm_curr` and the chain from `vm_first_free` (a sequence, head last);
`header` the index word in front of a block; `heap` what the C allocator knows of an address,
which malloc may hand out again; `handle` and `descriptors` the static `FILE*` of each
open-file statement and what it really has open. `vely_done` is one step per entry
(SweepSlot) between StartSweep and EndSweep. `scope` is a history variable: how long the
program meant a block to live when it was allocated or marked. A statement that keeps
process memory sets `vely_mem_process` before its calls and resets it after them (StartStmt,
EndStmt), and an error may come in between. A program frees blocks it owns once: it is the
code, not the caller, that is under test.

### VfManager
`job` is the routine vf is in and those that follow, `slot` the index of its loop over
`plist`; each routine that walks `plist` takes a step per slot, since children change in
between. A child is forked, sets its death signal, checks its parent, execs, then accepts and
serves. A SIGTERM that meets a worker between two requests may only be noted (VelyWorker
shows why): such a worker is a stray, which vf has forgotten and which ends after one more
request. A command of the client arrives whole; how it arrives is VfCommand.

### VfCommand
A client is a place in `cli_getshm`, a server a place in `main`, and a launcher the process that
started it and polls with the server's own `checkshm`. `shm` is the command word and who wrote
the data last; `lock` is the lock of `srvhere()`. Clients give up, servers are killed, a second server
meets the first and says so in the same word. `alone` and `since` are history: the clients that nobody
disturbed, and the starts in whose time a server listened. `here` counts what is attached to the memory
(`shm_nattch`), other clients included. A client that gives up sleeps once more after its last look and then writes
DONE, also over an answer that came meanwhile (vf.c:600). Timing: two neighbouring statements
of a process that sleeps for seconds between its polls are one step; the execution of a command is not.

### VelyWorker and VelyOutput
`pc` is the place in the generated main loop or in the dispatcher, or the handler of the
application that runs. Statements that change the state here may come in any order. The two
jumps are changes of `pc` under the flags `done_setjmp` and `done_err_setjmp`; SigTerm may
come between any two steps and clears both. Shared with VelyDb is the idea of the open
transaction, which here is only who began it. The response is the sequence of its parts;
consecutive writes of one kind are one part. Within write-string output leaves the response alone,
which is what an error, exit-request or send-file in the middle of one has to cope with. Once a SIGTERM has cleared
the jumps, an error returns to its caller: `vely_get_input` then goes on (velyrt.c:914, 952, 1012) and may end with a
request that is dispatched, or with none.

### VelyInput
`vely_get_input` is one step: the checks of method, type and length in their order, the URL that is
made of form, body and query string, the pass that cuts it (`Cut`, which takes the words one by one
with CutAt, as the loop at velyrt.c:1444 does characters), and the parameters of the path. Then come the
statements, in any order. `given`, `assigned`, `tasked`, `wanted` and `sent` are history. `Named` is the name that the last
`req=` gave; an empty one counts as none (velyrt.c:1581). OddNames are names that a cookie of the client may have and one of
the program may not: to delete such a cookie frees its text before the error is reported (velyrt.c:415), and leaves the
freed text in the list.

### VelyDb
Each database is a record: `dbc`, `has_connected`, `is_begin` and one prepared statement on the
side of the worker; the session and the names it knows on the side of the server. One action
is one statement: its text where that needs the connection (MakeSQL), the first execution by the
driver (PgExec, MariaExec, LiteExec, each with its own way to prepare), where the code allows it the
reconnect and the second execution, and the rows (Fetch), each with every answer the server may
give. Drop loses a session at any time, and an answer may be lost after its statement was done.
`vely_check_transaction` takes one step per database. The servers (section "The servers" of the
module) are external: postgres aborts a transaction at an error and accepts commit outside of one,
mariadb commits implicitly at a begin, SQLite refuses nested begins, keeps the transaction at a
failed commit and never loses its connection. `work`, `told` and `wrong` are history. Left out:
rollbacks mariadb decides on by itself (deadlocks), statements that commit implicitly (DDL).

### FcgiClient
A call is a place in `vv_fc_request`, its socket, the part of the record it reads, and what it got. The
server sends a record whole, up to its header or up to its message, stalls, or closes, in order or with a reset. It may also
start to send empty records without end (Flood), each there before it is read: a read that gets all it asks for does not look
at the time (fcli.c:179). A signal may interrupt a read (Interrupt) and leave EINTR in errno; when the server then closes, the
read of 0 bytes is tried again for ever (Spin, fcli.c:171). Expire lets the time of a call pass. The caller creates the threads in order, joins them in order, and counts. The hooks
of the C interface are not used by call-server and left out.

### VelyTree and VelyMap
A node is named by its key, so that a deletion that moves a key renames a node at the end of its
statement. Insert, delete and the searches follow tree.c's recursion; the rotations are one operator with a direction.
VelyMap is a map and the key the cursor stands on, with whether its last move found a key (`fine`, the status of the cursor). `call` is in both modules the last statement with all that it was given
and all that it gave back, so that the refinement compares arguments and results, and not only what is stored: every
statement of VelyTree has to be the one of VelyMap with the same arguments and the same results. A purge loses nothing, since
only an empty tree can be purged (tree.c reports an error else, which may end a tree without process scope). A
cursor whose node was freed is left out, as is one after a failed read: the application
may not use it, and nothing tells it so (section 4).

### VelyHash and VelyDict
A bucket is the sequence of its chain, head first. `dnext` and `dcurr` are the place of the traversal. `call` is again the
last statement with its arguments and results; `due` and `done` are what a traversal has to return and what it has returned. In
VelyDict a resize leaves the map as it is, and only a delete and a purge take anything away.

### VelyJson
One step is one token; a frame of `stack` is one call of `vely_json_new` with its flags. `ref` reads the same
tokens by the grammar, with a stack of open objects and arrays, and is compared at the end of a
document. MaxNested stands for VV_JSON_MAX_NESTED, 32. An array that is the whole document makes the code write to
`list[-1]` (json.c:388); the model follows it up to there (BeginOutside, phase "undefined") and no further, since what that
word is depends on the build: with gcc it is `node_tot` at -O3, and padding in a build for debugging. What else is left out is
named at the head of the module.

## 3. Runs

| Run | Instance and bounds | What it shows |
|---|---|---|
| mem | 3 blocks, 1 file, 3 entries (MaxSlots), MaxOpen 2, symmetric blocks | All safety properties of the heap. Three entries are enough for a chain of two, an entry between two kept ones and a reused entry; two descriptors for a FILE* that is overwritten. |
| vf | 4 processes, 2 slots, 2 events, 1 waiting connection, 1 stray, symmetric processes | Safety of the manager. More processes than slots, so that a stopped worker still serves while its slot is used again; two events give a crash during a command, or a build and a crash. |
| vf_live | 3 processes, 1 event, SpikeLimit 1, no symmetry | Replenished, Served, Stopped |
| worker | write-string nested twice (MaxNested), the first six entries of the log; 89,766 states | Safety and liveness of the request loop. The limit of the code is 5; two levels have an inner, an outer and one that is refused. |
| db | postgres, mariadb and SQLite, 425,259 states | Safety of the database layer; three databases for the loop of the check, one of each kind |
| tree | every statement on 6 keys (Few), one of them with two values; beyond that insertions and deletions of 12 keys; 140,103 states | Balanced, ListInOrder, ImplementsMap. A deletion that rotates twice on its way up needs twelve nodes at least (a minimal AVL tree of height 5), and TLC has all trees of that size. `call` is not part of the VIEW: no statement reads it. |
| hash | 4 keys, 10 and 12 buckets | TableSound, ImplementsDict: three keys share a bucket in one table and are apart in the other |
| json | documents of 13 tokens (MaxTokens), MaxNested 5; 2,471,290 states | Flattened, ListInBounds: an array of two objects with a member each fits, and so does a document that goes too deep |
| fcli | 2 calls; 3 records of 7 kinds and 1 of 2 kinds; every call with a time-out; signals and floods in the second (Noisy); 711,336 states | OkMeansWhole, AllFinished, CallReturns |
| command | 2 clients, 2 starts, symmetric; 2,530,266 states | ExecutedOnce, StartedMeansListening. Each client and each start runs once, so the system may stop: deadlock is not checked here. |
| input | query strings of 3 parts, forms of 2, paths of 3, 4 cookies, 4 statements, one odd cookie name; 2,983,518 states | ParamsRight, SearchAsPlain, CookiesSent |
| db_lost (violation) | one mariadb | CommitKept, see section 4 |

Bounds by name: MaxSlots, MaxOpen (VelyMem); MaxQueue, MaxStrays, SpikeLimit, MaxEvents
(VfManager); six entries of `log`, MaxNested (VelyWorker); MaxTokens, MaxNested (VelyJson); MaxRecords, Noisy
(FcgiClient); MaxSteps, MaxCookies, MaxQuery (VelyInput); Few (VelyTree). Every action fires in the passing runs. Deadlock
is checked everywhere but in command: dead workers stutter by an explicit action.

What the passing runs say, most important first:
- heap: the chain is exact, every block is tracked and what the sweep frees is live, also
  after failed reallocs, files closed twice and errors inside of statements; files do not
  outlive their request; process memory does.
- vf: every worker that was not told to end is in exactly one slot; the adaptive maximum
  holds while processup counts; nothing is started after stop; no orphans after vf dies.
  Once the environment is quiet the workers asked for are there, and waiting connections are
  served (with two slots).
- worker: after() runs once exactly for requests whose handler was called; the response is
  well formed; no request's transaction reaches the next; an error ends the worker only if it
  is the second or a rollback is under way; requests end; SIGTERM in a request ends the worker after it.
- db: while the flag is set the session is in a transaction or gone; no query of a transaction is
  reported fine after it ran outside of it; unless a begin, commit or rollback failed, no session
  is left in a transaction between requests; a prepared statement is known where it is used.
- tree and hash: each statement of VelyTree is that of the ordered map VelyMap with the same arguments and results, each of
  VelyHash that of the dictionary VelyDict: what was written and not deleted is found, under every clause, and nothing
  else is. In the tree this is checked for cursors whose node was not freed; the dictionary leaves open whether a traversal
  returns what was added after it began.
- command: the unlocked word of shared memory loses commands, but a server never executes one twice. That one
  server at most is past its lock (OneServer) is proved, and used in the other proofs.
- fcli: VV_OKAY is never said of half an answer. With time-outs call-server returns whether its servers stall, close or cut
  their records, unless one of them sends without end, or closes behind a read that a signal interrupted (section 4).
- json and input: text is taken apart as its grammar says, for every text within the bounds, but for what Flattened and
  ParamsRight name.

Properties that name their exceptions: Tracked and SurvivorsMarked leave out blocks whose
realloc failed (velymem.c:302 frees the entry first); WellFormed leaves out the answers 204 and
304, which do not note the header they wrote (velyrt.c:3471), and requests whose error returned
to its caller; HeaderEnded leaves out finish-output, which never ends a header (v1.c:6230);
NoOpenTransaction leaves out transactions begun in `_startup()`, which survive if the first
request is OPTIONS (velyrt.c:1062); NoTransactionKept leaves out sessions in which a begin, commit or
rollback failed; Flattened leaves out the documents it names; ParamsRight leaves out a `=` within a value;
ExecutedOnce speaks of success only for clients nobody disturbed; CallReturns needs a time-out, and names the two cases in which
the code does not look at it; ListInBounds names the array that is the whole document.

### Fairness
VfManager: the loop of vf, the steps of each child, its accept of a waiting connection, the last
request of a stray and the end of a build are weakly fair: they are running code that waits for
nothing else. Connections, crashes, commands, builds and a restart of vf are not. VelyWorker:
the loop and the return of the application's code are weakly fair; clients and signals are
not. FcgiClient: the requests, the caller and the passing of time are weakly fair; the server is not, and may
stall or send for ever. The other modules have safety properties and refinements only, and no fairness.

## 4. Where code and documentation differ

The run db_lost ends in a counterexample and is a finding in PROJECT.json:
- CommitKept: `vely_commit` clears the flag first (db.c:237), so a lost connection is made again, the
  empty commit succeeds, and the application is told that its lost work is committed.

These are properties of the modules as well, and TLC refutes each: put the name in the cfg in
place of the others, CurrentExecutable, TermEnds and Served as PROPERTY, the others as INVARIANT.
- VelyMem, RequestMemoryFreed (MCVelyMem.cfg, SPECIFICATION SpecErrorFree, without symmetry): `_vely_set_free` keeps the PROCESS bit of an entry, and
  `vely_add_mem` does not clear it. A request's block that reuses such an entry is never freed
  (docs/memory-handling.2vv:12).
- VfManager, CurrentExecutable (VfLive.cfg): every `start_child` stores the executable's time, so a worker that
  is started between a build and `checkmod()` hides the build from the older workers (docs/vf.2vv:135).
  Served fails with num_process = 1: with `--max-worker=1` no worker is ever started (vf.c:1249; docs/vf.2vv:28).
- VelyWorker, TermEnds (MCVelyWorker.cfg): SIGTERM between the test of `vely_end_program` and
  `vely_in_request=0` is noted and forgotten until one more request has come. ExitHonored: SIGTERM clears
  `vely_done_setjmp`; exit-request, and in the same way report-error, then returns to its caller.
- VelyDb, NothingLeftOpen (MCVelyDb.cfg, Vendor <- MCFile): a commit that fails (SQLite busy or a deferred constraint)
  leaves the transaction open in the connection, and no check finds it. PreparedUsable with Vendor <- MCSameKind:
  with two postgres databases, connecting to the second forgets the prepared statements of the first but
  not in its session, where the name is then refused.
- VelyJson, Independent (MCVelyJson.cfg): `nulled` is not reset by the root call, so the character that follows
  a document's last number can be read as the first of the next document (docs/new-json.2vv).
- FcgiClient, AllFinished with Retry = TRUE: `invalid_thread` is never reset; a server whose thread did not start
  once is never joined again when call-server is repeated with it (docs/call-server.2vv).

Met on the way, and built into the models as the code has it:
- worker: the comment at velyrt.c:3670 says that exit-request in `_before()` "goes straight to _after()". It does not: `_after()` is
  skipped, as docs/exit-request.2vv:18 says ("it will still execute, unless exit-request is called from
  before-request-handler"); HandlersInOrder follows the code and this document. Exit-request within write-string leaves the output of after() in the string; output after
  finish-output is an error (velyrt.c:2237) where its documentation says it fails silently; an error
  inside a statement with process scope leaves `vely_mem_process` set for the next request.
- db: begin, commit and rollback set their error clauses only on success (db.c:245-252); a failed connect
  leaves `dbc` allocated, from which SQLite never recovers (pg.c:119, lite.c:27); a prepared statement of SQLite that
  failed once is not reset (lite.c:287), and no input can be bound to it any more; a row that mariadb cannot
  deliver leaves the number of rows at the full count.
- tree: the deletion of a key frees the node of its successor, and with it a cursor that stands there; a read that
  finds nothing leaves the cursor's node as it was in memory.
  docs/use-cursor.2vv:30 says that `current` takes the node that was current before; after a use-cursor that found nothing
  it gives nothing, since it tests the status of that statement (v1.c:6156).
- hash: a traversal without its begin after new, resize or purge skips the first bucket; an element added
  at the head of the current bucket is not returned.
- json: `{}` and `[]` are refused though json.c:355 and 378 say "zero or more"; a name with an escape is cut; an
  array in an array shares its index; an unclosed object or array at the end of the text is accepted; a bad string does
  not set the error by itself (json.c:460), its caller does. docs/new-json.2vv:58 says that of names that occur twice only one is
  reported; the code stores both, read-json by key finds the last, a traversal meets both. docs/new-json.2vv:56 says that
  objects nest up to 32 deep; the code refuses what is deeper than 30 (json.c:327). An array as the whole document is
  counted at `list[-1]`, outside of the array (json.c:388).
- fcli: a bad time-out returns before the status is set; docs/new-server.2vv:55 says that a call ends with its time-out, but a server that sends whole
  records one after the other is never timed out, since the time is looked at only when a read gets less than it asks for
  (fcli.c:179), and a read of 0 bytes with an old EINTR in errno is tried again for ever (fcli.c:171); a failed
  getaddrinfo leaks the socket's memory.
- vf: the client's test of the lock holds it for a moment, in which a start finds it taken (vf.c:304); a launcher polls
  with the server's routine and may consume a client's command (vf.c:1221).
- input: an unencoded `=` in a value shifts names and values (velyrt.c:1474); with duplicates set-input changes one and
  input-param may find the other (docs/set-input.2vv:22); delete-cookie after output is silently lost; a path that ends in a
  slash, or in `_`, adds a parameter without a name; set-cookie refuses one cookie too early (velyrt.c:282); delete-cookie frees the cookie's text (velyrt.c:415) before the check
  of its name (velyrt.c:418), whose error leaves the freed text in the list; the header of the error page has only the cookies
  of the program, and so not this one.

## 5. Proofs

Eight modules of proofs, each beside its component and for every value of its constants. The assumptions
are the ones the modules name, about the constants: sizes are positive, names are distinct.

| Module | Theorems and what each states | Holds for | Inductive invariant |
|---|---|---|---|
| VelyMemProofs | MemInvariant; TypeCorrect, FreeChain (FreeChainExact), BlocksTracked (Tracked), NoDoubleFree (EntriesLive), FilesClosed (HandlesClosed), NothingElseSurvives (SurvivorsMarked), ProcessMemory (ProcessMemoryKept) | any blocks, files and size of the table | MemInv |
| VfManagerProofs | TypeCorrect, WorkersAreListed (WorkersListed), CapHolds (AdaptiveCap), OrphansEnd (NoOrphans), RestartsAreAllowed (RestartsAllowed) | any number of slots, processes and events | IInv |
| VfCommandProofs | OneServerRuns (OneServer), StartedIsTrue (StartedMeansListening), CommandsOnce (ExecutedOnce) | any number of clients and starts | Types, LockInv, StartInv, OnceInv, AloneInv |
| VelyWorkerProofs | TypeCorrect, TransactionsEnd (NoOpenTransaction), HandlersRunInOrder (HandlersInOrder), ErrorsSurvived (ErrorSurvived), ResponseWellFormed (WellFormed), HeaderIsEnded (HeaderEnded) | any depth of write-string and any order of statements, errors and signals | TypeOK, JumpInv, TxnInv, LogInv, RespInv |
| VelyDbProofs | TypeCorrect, FlagIsTrue (FlagMeansOpen), QueriesTogether (StatementsTogether), TransactionsNotKept (NoTransactionKept); PreparedIsUsable (PreparedUsable) if at most one database is postgres | any databases | DbInv, PrepInv |
| FcgiClientProofs | OkIsWhole (OkMeansWhole), also with floods and signals; CallsFinish (AllFinished) if servers that were not started are not called again | any number of servers and of records in an answer | CallsGood, Pending, Owned, Counting |
| VelyHashProofs | TableIsSound (TableSound), HashImplementsDict (the refinement ImplementsDict) | any keys, values, hash codes and sizes | IInv |
| VelyTextProofs, of VelyJson | ListStaysInBounds (ListInBounds), TextIsFlattened (Flattened) | documents of any length, any number of them, any limit of nesting; past an array as the whole document nothing is stated | IInv; RInv |
| VelyTextProofs, of VelyInput | CookiesAreSent (CookiesSent), SearchFinds (SearchAsPlain), ParamsAreRight (ParamsRight) | any requests, names and values, any number of statements | CookiesKept; ParamsKept; InputUntouched |

The two conditions are needed: section 4 has what happens without them.

Why the properties are not inductive, and what each invariant adds:
- VelyMem. What vely_add_mem does is right only if a freed entry is clean and entries past `vm_curr` are blank
  (WellFormed); what the sweep does, only if each open file is known to an entry, its record agrees with it, blocks
  at and behind the index of the sweep are as the sweep leaves them, and process-scoped blocks have the PROCESS bit.
  One layer of lemmas is about the table alone (AddMemWellFormed ...), one is a lemma per action.
- VfManager. Which routines may follow one another (JobInv), and which of them may start workers and why
  (PermitInv): RestartsAllowed follows from these alone. ListInv says that `plist` is injective, has every
  working process, and is empty from the slot `init` has reached. AdaptiveCap is a count: CapInv says
  at each point of the loop how many slots `totprocess` has counted, how many workers stand in the slots
  behind it, and how many processup may still start. A worker that dies meanwhile only lowers it.
- VfCommand. LockInv ties the lock to the one server past it. StartInv follows "started" from the server that
  wrote it, through the word and through a client's reset, to the launchers that poll. OnceInv says that a server
  has not executed the command of a client whose command is still to be taken; AloneInv where, between client, word
  and server, the command of an undisturbed client is.
- VelyWorker. JumpInv says which jump is set where; TxnInv that a transaction of a request lives only until the
  check; LogInv how far a request is from what was called. RespInv relates the parts of the response to its flags
  (SentAsFlagged, InOrder): from it each output statement keeps the order.
- VelyDb. A statement is followed through its executions: Ready before each, Over after it, Sound when it is
  settled. Sound says that `is_begin_transaction` is set only with a connection, whose session is in the transaction or
  gone (Coherent), that the work of a transaction is in that session or lost with it (WorkKept), and that a session is otherwise in a transaction
  only if the application was told of a failure (Known). Agreed, for prepared statements: a name is known
  exactly if the worker has the statement and the session is there.
- FcgiClient. Good says what a request has read at each of its places, in terms of what the server sent (Between two
  records, Within one, Whole); Owned which threads the caller must wait for, and Counting what it has counted.
- VelyHash. Good says of the chains that every entry is in its bucket once and has a value, of a traversal that it stands on
  an entry of its bucket, and that the count is the number of entries; Traversed says that what a traversal owes is Ahead
  of it. Each statement then is the one of VelyDict with the same arguments and results; none is a stutter. InOrder and AddAll are recursive functions;
  what they compute is proved by induction over the naturals, stated for sets (lemmas Least and Upwards), since
  the library's induction takes an operator.
- VelyJson. Depth counts the calls on the stack that were made for members of objects; `list_c` is that many, or more after
  a malformed document, and one less only while an array that took it back is running (Running). OutsideIsRoot: an array that would
be counted at `list[-1]` is the root call's. Calls says which
  calls the frames can be of. For Flattened, what the parser stores is compared with what the grammar would (ref): Match
  says that the parser has one call for each object and array that is open, with the flag that stands for what the grammar wants
  next (StackOK), and that `list`, up to `list_c`, has the member of each open object, with the index of the array which
  that member opened (ListOK). One lemma per token keeps Match; NameIsRight reads the name of a value from it.
- VelyInput. CookiesKept: until the header ends, what a search finds for a name is the only cookie of the program of that
  name, and has what was asked for last (Intended); the header sends the array as it then is. A delete-cookie that
  fails changes no cookie of the program (FreedFacts). ParamsKept: the
  list of parameters is a sequence with marks 0 and 1 only, task is in it, and of the names that set-input was given each
  is in the list with its value, and task is at the parameter that task-param asked for. That get input makes such a list is induction over the URL and over the path (CutCounts,
  FromPathFacts). InputUntouched says only that a request is as get input left it until its first statement; ParamsRight is
  about what the two loops compute. CutCounted and CutRead say what the first has after k words: the `=` are counted, each
  has its name at the string before its number doubled and its value at that string, except for the last one while it is
  read; a text that was not refused has a `=` before each `&`. PathRead says which of the first k segments begin a
  parameter, that each of them has it, and whether the last waits for its value.

What the proofs said about the models. Arms of a CASE that overlap have no value the prover may use, and TLC takes the
first: they were given exclusive guards (VfCommand, VelyTree, VelyMap, VelyInput, VelyJson, FcgiClient, VelyDb).
Names that were taken to be distinct are now assumed to be (NONE and the commands of vf, the tokens of JSON,
NULL and the keys of a hash). HandlersInOrder, the folds of VelyHash and of VelyInput, the name of a value in VelyJson and the
cookies of the header are stated with quantifiers and recursive functions. So is ParamsRight, which cut the text into pieces to
compare with, and now names the places in the text that each parameter comes from, and the segment of the path. It turned
up a fault of the model: only the first word of a name had its `-` made `_`, where velyrt.c:1454 and 1652 change them all. What a request of VelyInput is made of is assumed by
RequestsAssumption: sequences of words, parts and cookies, and nothing about which.

Left to TLC, and why:
- Balanced, ListInOrder and ImplementsMap of VelyTree: its operators are RECURSIVE as tree.c is, and the prover has no SMT
  in a module that declares one.
- Liveness under fairness: Replenished, Served and Stopped of VfManager, RequestEnds and EndsWhenTold of VelyWorker,
  CallReturns of FcgiClient.
- CommitKept, which the code violates.

## 6. Plan

1. Composition of VelyWorker and VelyDb: a request's transaction and its errors as one system, in which
   NoOpenTransaction follows from NoTransactionKept.
2. The rotations of VelyTree as lemmas of a module without its recursive operators.

## 7. Not modelled, and why

- The translator v1 and the script vv: generators of code; the run-time calls that each modelled statement
  generates are part of the action of that statement.
- Encodings and character data: percent-decoding, UTF-8, base64, quoting of SQL and of JSON strings, the rows of a
  query; text without state over time.
- curl, crypto and regular expressions: calls of a library each, with no state of their own.
- Files and directories (read-file, write-file, uploads on disk), exec-program, and trace: calls of the operating system.
- The statistics of a tree and a hash (hops, reads): counters that nothing else reads. Of get-hash the length is what TableSound
  says of the count.
- Command-line programs: one request, no loop. Exhaustion of memory for the table of the heap itself.

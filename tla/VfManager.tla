----------------------------- MODULE VfManager -----------------------------
(***************************************************************************)
(* vf, the manager of an application's workers (vf.c).                     *)
(*                                                                         *)
(* One loop polls the listening socket, the executable and the client's    *)
(* commands, and keeps plist[], the process of each slot.  In fixed mode   *)
(* (-w) every slot has a worker; in adaptive mode (-d) workers are added   *)
(* while connections wait and taken away when none do.  handlestop sends   *)
(* SIGTERM and forgets the process at once: a worker that serves a request *)
(* finishes it on its own.                                                 *)
(*                                                                         *)
(* The routines vf is inside of, and those it calls next, are the sequence *)
(* job; a routine that goes through plist does it one slot a step, because *)
(* workers die, connections come and the executable changes in between.    *)
(* A command of the client is taken from shared memory and answered as a   *)
(* whole here; how it gets there is not modelled.                          *)
(***************************************************************************)
EXTENDS Integers, Sequences, FiniteSets

CONSTANTS Procs,       \* process ids
          NONE,        \* -1 of plist, the NULL of commtime, no command
          num_process, \* size of plist: -w, or --max-worker
          MaxQueue,    \* bound: connections waiting to be accepted
          SpikeLimit,  \* tspike seconds, in turns of the loop
          MaxStrays,   \* bound: workers that noted a SIGTERM and go on
          MaxEvents    \* bound: crashes, builds and commands

Commands == {"start", "stop", "restart", "status", "quit"}

ASSUME VfAssumption ==
    /\ num_process \in Nat \ {0}
    /\ MaxQueue \in Nat /\ MaxStrays \in Nat /\ MaxEvents \in Nat
    /\ SpikeLimit \in Nat \ {0}
    /\ NONE \notin Procs \cup Nat \cup Commands

VARIABLES
    adapt, dnr, modreload, \* the options -d, -n and (not) -g
    num_to_start_min,      \* --min-worker, or -w
    vf,                    \* is the manager running: "up", "down"
    job,                   \* the routine it is in, and those to come
    slot,                  \* i of the routine's loop over plist, 0 before it
    tot,                   \* tot of processup
    checks,                \* connwait() calls that agreed so far
    waiting,               \* what they returned
    nspike,
    temp_no_restart,
    commtime,
    plist,
    command,               \* the client's command in shared memory
    exe, exeok,            \* the executable: its modification time; can it run
    proc,                  \* each process: where it is, whether its parent is
                           \* gone, whether it got SIGTERM while serving a
                           \* request, and the executable it runs
    queue,                 \* connections nobody has accepted
    strays,                \* workers in accept that will end after the next
                           \* request; vf does not know of them
    events                 \* crashes, builds and commands so far

opts == <<adapt, dnr, modreload, num_to_start_min>>
loopVars == <<job, slot, tot, checks, waiting, nspike>>
listVars == <<plist, commtime, temp_no_restart>>
envVars == <<exe, exeok, queue, strays, events>>
vars == <<opts, vf, loopVars, listVars, command, proc, envVars>>

NoProc == [at |-> "none", orphan |-> FALSE, termed |-> FALSE, vers |-> 0]
Slots == 1 .. num_process

-----------------------------------------------------------------------------
BugDown(p) == proc[p].at # "idle"

\* whatisprocess(p) is -1.
Down(p) == proc[p] = NoProc

Live(p) == proc[p] # NoProc

\* totprocess(): what is left of plist, and the count.
Pruned(pl) == [i \in Slots |-> IF pl[i] # NONE /\ Down(pl[i]) THEN NONE ELSE pl[i]]
Listed(pl) == Cardinality({i \in Slots : pl[i] # NONE})
totprocess == Listed(Pruned(plist))

\* checkmod()
checkmod == commtime # NONE /\ exeok /\ commtime # exe

\* start_child: nothing when the executable is missing, else a child in a
\* slot of pl.
StartChild(pl, i) ==
    IF exeok
    THEN /\ commtime' = exe
         /\ \E p \in Procs :
               /\ ~Live(p) /\ \A j \in Slots : pl[j] # p
               /\ plist' = [pl EXCEPT ![i] = p]
               /\ proc' = [proc EXCEPT ![p].at = "forked"]
    ELSE /\ plist' = pl
         /\ UNCHANGED <<commtime, proc>>

\* SIGTERM.  A worker that serves a request finishes it, any other process
\* ends; but one that is between two requests only makes a note of it, and
\* will end after it has served the second.
Sigterm(p) ==
    \/ /\ proc[p].at = "busy"
       /\ proc' = [proc EXCEPT ![p].termed = TRUE]
       /\ UNCHANGED strays
    \/ /\ proc[p].at # "busy"
       /\ proc' = [proc EXCEPT ![p] = NoProc]
       /\ UNCHANGED strays
    \/ /\ proc[p].at = "idle" /\ strays < MaxStrays
       /\ proc' = [proc EXCEPT ![p] = NoProc]
       /\ strays' = strays + 1

-----------------------------------------------------------------------------
(* The options a command line can have, and the server just started.        *)
InitOptions == \/ /\ adapt /\ ~dnr
                  /\ num_to_start_min \in 0 .. num_process - 1
               \/ /\ ~adapt /\ dnr \in BOOLEAN
                  /\ num_to_start_min = num_process

Init == /\ adapt \in BOOLEAN /\ dnr \in BOOLEAN /\ modreload \in BOOLEAN
        /\ num_to_start_min \in 0 .. num_process
        /\ InitOptions
        /\ vf = "up"
        /\ job = <<"init">>
        /\ slot = 1 /\ tot = 0 /\ checks = 0 /\ waiting = FALSE /\ nspike = 0
        /\ temp_no_restart = FALSE
        /\ commtime = NONE
        /\ plist = [i \in Slots |-> NONE]
        /\ command = NONE
        /\ exe = 0 /\ exeok = TRUE
        /\ proc = [p \in Procs |-> NoProc]
        /\ queue = 0 /\ strays = 0
        /\ events = 0

In(routine) == vf = "up" /\ Head(job) = routine

\* The routine returns; what is called next is the rest of job.
Return == job' = Tail(job) /\ slot' = 0

\* The routine goes on to the next slot, or returns after the last.
Continue == IF slot < num_process
            THEN slot' = slot + 1 /\ UNCHANGED job
            ELSE Return

(* The workers started before the loop                                     *)
StartFirst ==
    /\ In("init")
    /\ IF slot <= num_to_start_min
       THEN /\ StartChild(plist, slot)
            /\ slot' = slot + 1
            /\ UNCHANGED job
       ELSE /\ job' = <<"load">> /\ slot' = 0
            /\ UNCHANGED <<plist, commtime, proc>>
    /\ UNCHANGED <<opts, vf, tot, checks, waiting, nspike, temp_no_restart,
                   command, envVars>>

-----------------------------------------------------------------------------
BugManaging == adapt

\* Does this turn of the loop add or take away workers?
Managing == adapt /\ ~temp_no_restart

BugRoomToGrow == totprocess < num_process
BugNoRoom == totprocess < num_process - 2

RoomToGrow == totprocess < num_process - 1

\* nspike after a turn without connections: it starts over at the limit.
SpikeAfter == IF nspike + 1 >= SpikeLimit THEN 0 ELSE nspike + 1

(* The three connwait() calls of a turn, with a sleep between two.  The     *)
(* third that agrees may grow or shrink the number of workers.             *)
CheckLoad ==
    LET w == queue > 0
        grow == w /\ RoomToGrow
        shrink == ~w /\ nspike + 1 >= SpikeLimit /\ totprocess > num_to_start_min
    IN  /\ In("load") /\ Managing
        /\ IF checks < 2 /\ (checks = 0 \/ w = waiting)
           THEN /\ checks' = checks + 1 /\ waiting' = w
                /\ nspike' = IF w THEN 0 ELSE nspike
                /\ UNCHANGED <<job, plist>>
           ELSE /\ checks' = 0 /\ waiting' = FALSE
                /\ IF w # waiting
                   THEN /\ job' = <<"up0", "mod">>
                        /\ UNCHANGED <<nspike, plist>>
                   ELSE /\ job' = (IF grow THEN <<"up1">> ELSE <<>>) \o
                                  (IF shrink THEN <<"stopone">> ELSE <<>>) \o
                                  <<"up0", "mod">>
                        /\ nspike' = IF w THEN nspike ELSE SpikeAfter
                        /\ plist' = IF w \/ nspike + 1 >= SpikeLimit
                                    THEN Pruned(plist) ELSE plist
        /\ UNCHANGED <<opts, vf, slot, tot, temp_no_restart, commtime,
                       command, proc, envVars>>

SkipLoad == /\ In("load") /\ ~Managing
            /\ job' = <<"mod">>
            /\ checks' = 0 /\ waiting' = FALSE
            /\ UNCHANGED <<opts, vf, slot, tot, nspike, listVars, command,
                           proc, envVars>>

(* Restart what died, and everything when the executable changed           *)
CheckMod ==
    /\ In("mod")
    /\ job' = IF temp_no_restart \/ dnr THEN <<"shm">>
              ELSE IF modreload /\ checkmod THEN <<"stop", "up0", "shm">>
              ELSE <<"up0", "shm">>
    /\ UNCHANGED <<opts, vf, slot, tot, checks, waiting, nspike, listVars,
                   command, proc, envVars>>

-----------------------------------------------------------------------------
(* processup(addone): totprocess() first, in adaptive mode                 *)
EnterProcessup ==
    /\ In("up0") \/ In("up1")
    /\ slot = 0
    /\ slot' = 1
    /\ tot' = IF adapt THEN totprocess ELSE 0
    /\ plist' = IF adapt THEN Pruned(plist) ELSE plist
    /\ UNCHANGED <<opts, vf, job, checks, waiting, nspike, commtime,
                   temp_no_restart, command, proc, envVars>>

BugNeedsOne(addone) == ~adapt \/ addone

\* Is a worker wanted in an empty slot?
NeedsOne(addone) == ~adapt \/ num_to_start_min > tot \/ addone

(* One slot of processup's loop                                            *)
ProcessupSlot ==
    LET addone == Head(job) = "up1"
        empty == plist[slot] = NONE \/ Down(plist[slot])
    IN  /\ In("up0") \/ In("up1")
        /\ slot > 0
        /\ IF empty /\ NeedsOne(addone)
           THEN /\ StartChild([plist EXCEPT ![slot] = NONE], slot)
                /\ tot' = tot + 1
                /\ IF addone THEN Return ELSE Continue
           ELSE /\ plist' = IF empty THEN [plist EXCEPT ![slot] = NONE] ELSE plist
                /\ Continue
                /\ UNCHANGED <<tot, commtime, proc>>
        /\ UNCHANGED <<opts, vf, checks, waiting, nspike, temp_no_restart,
                       command, envVars>>

BugLastToStop == TRUE

\* Does handlestop stop after the slot it just emptied?
LastToStop == Head(job) = "stopone"

(* One slot of handlestop's loop                                           *)
StopSlot ==
    /\ In("stop") \/ In("stopone")
    /\ IF slot > 0 /\ plist[slot] # NONE
       THEN /\ plist' = [plist EXCEPT ![slot] = NONE]
            /\ IF Down(plist[slot]) THEN UNCHANGED <<proc, strays>>
                                    ELSE Sigterm(plist[slot])
            /\ IF LastToStop THEN Return ELSE Continue
       ELSE Continue /\ UNCHANGED <<plist, proc, strays>>
    /\ UNCHANGED <<opts, vf, tot, checks, waiting, nspike, commtime,
                   temp_no_restart, command, exe, exeok, queue, events>>

-----------------------------------------------------------------------------
(* checkshm                                                                *)
CheckShm ==
    /\ In("shm")
    /\ job' = CASE command = "restart" -> <<"stop", "up0", "done">>
                [] command = "start"   -> <<"up0", "done">>
                [] command = "status"  -> <<"done">>
                [] command = "stop"    -> <<"stop", "norestart">>
                [] command = "quit"    -> <<"stop", "exit">>
                [] OTHER               -> <<"load">>
    /\ temp_no_restart' = (temp_no_restart /\ command \notin {"restart", "start"})
    /\ UNCHANGED <<opts, vf, slot, tot, checks, waiting, nspike, plist,
                   commtime, command, proc, envVars>>

Answer == /\ In("done") \/ In("norestart")
          /\ temp_no_restart' = (temp_no_restart \/ Head(job) = "norestart")
          /\ command' = NONE
          /\ job' = <<"load">>
          /\ UNCHANGED <<opts, vf, slot, tot, checks, waiting, nspike, plist,
                         commtime, proc, envVars>>

\* The kernel ends the children that asked for it when their parent ends
\* (PR_SET_PDEATHSIG); of the others it only changes the parent.  With the
\* last of them the listening socket is gone.
ParentEnds ==
    /\ vf' = "down"
    /\ command' = NONE
    /\ proc' = [p \in Procs |-> IF proc[p].at = "forked"
                                THEN [proc[p] EXCEPT !.orphan = TRUE]
                                ELSE NoProc]
    /\ queue' = 0
    /\ UNCHANGED <<opts, loopVars, listVars, exe, exeok>>
    /\ strays' = 0

(* The quit command: vf exits after it told the workers to                 *)
Exit == In("exit") /\ ParentEnds /\ UNCHANGED events

(* vf is killed, or exits because it cannot fork                           *)
Killed == /\ vf = "up" /\ events < MaxEvents
          /\ ParentEnds
          /\ events' = events + 1

(* vf is started again with the same options                               *)
Restart == /\ vf = "down"
           /\ vf' = "up"
           /\ job' = <<"init">> /\ slot' = 1
           /\ tot' = 0 /\ checks' = 0 /\ waiting' = FALSE /\ nspike' = 0
           /\ temp_no_restart' = FALSE
           /\ commtime' = NONE
           /\ plist' = [i \in Slots |-> NONE]
           /\ exeok
           /\ UNCHANGED <<opts, command, proc, envVars>>

-----------------------------------------------------------------------------
(* A process from fork to exec: prctl first, then the check that the        *)
(* parent is still there, then execvp of whatever is there by then.        *)
BugParentThere(p) == TRUE
ParentThere(p) == ~proc[p].orphan

SetDeathSignal(p) == /\ proc[p].at = "forked"
                     /\ proc' = [proc EXCEPT ![p].at = "armed"]

CheckParent(p) ==
    /\ proc[p].at = "armed"
    /\ proc' = [proc EXCEPT ![p] = IF ParentThere(p) THEN [@ EXCEPT !.at = "checked"]
                                                     ELSE NoProc]

Exec(p) == /\ proc[p].at = "checked"
           /\ proc' = [proc EXCEPT ![p] = IF exeok
                                          THEN [@ EXCEPT !.at = "idle", !.vers = exe]
                                          ELSE NoProc]

(* The worker: it accepts a connection, and ends after the request when it  *)
(* got SIGTERM meanwhile.                                                  *)
Finish(p) == /\ proc[p].at = "busy"
             /\ proc' = [proc EXCEPT ![p] = IF @.termed THEN NoProc
                                            ELSE [@ EXCEPT !.at = "idle"]]

ProcessStep(p) == /\ SetDeathSignal(p) \/ CheckParent(p) \/ Exec(p) \/ Finish(p)
                  /\ UNCHANGED <<opts, vf, loopVars, listVars, command, envVars>>

Accept(p) == /\ proc[p].at = "idle" /\ queue > 0
             /\ queue' = queue - 1
             /\ proc' = [proc EXCEPT ![p].at = "busy"]
             /\ UNCHANGED <<opts, vf, loopVars, listVars, command, exe, exeok,
                            strays, events>>

(* The last request of a worker that noted a SIGTERM                        *)
AcceptLast == /\ strays > 0 /\ queue > 0
              /\ queue' = queue - 1
              /\ strays' = strays - 1
              /\ UNCHANGED <<opts, vf, loopVars, listVars, command, proc, exe,
                             exeok, events>>

Crash(p) == /\ Live(p) /\ ~proc[p].orphan /\ events < MaxEvents
            /\ events' = events + 1
            /\ proc' = [proc EXCEPT ![p] = NoProc]
            /\ UNCHANGED <<opts, vf, loopVars, listVars, command, exe, exeok,
                           queue, strays>>

-----------------------------------------------------------------------------
(* Outside: connections, commands, and a build that removes the executable  *)
(* and writes a new one.                                                   *)
Connect == /\ vf = "up" /\ queue < MaxQueue
           /\ queue' = queue + 1
           /\ UNCHANGED <<opts, vf, loopVars, listVars, command, proc, exe,
                          exeok, strays, events>>

Send(c) == /\ vf = "up" /\ command = NONE /\ events < MaxEvents
           /\ command' = c
           /\ events' = events + 1
           /\ UNCHANGED <<opts, vf, loopVars, listVars, proc, exe, exeok,
                          queue, strays>>

StartBuild == /\ exeok /\ events < MaxEvents
              /\ exeok' = FALSE
              /\ events' = events + 1
              /\ UNCHANGED <<opts, vf, loopVars, listVars, command, proc,
                             exe, queue, strays>>

EndBuild == /\ ~exeok
            /\ exeok' = TRUE
            /\ exe' = exe + 1
            /\ UNCHANGED <<opts, vf, loopVars, listVars, command, proc,
                           queue, strays, events>>

-----------------------------------------------------------------------------
Manager == \/ StartFirst \/ CheckLoad \/ SkipLoad \/ CheckMod
           \/ EnterProcessup \/ ProcessupSlot \/ StopSlot
           \/ CheckShm \/ Answer \/ Exit

Next == \/ Manager \/ Killed \/ Restart
        \/ \E p \in Procs : ProcessStep(p) \/ Accept(p) \/ Crash(p)
        \/ AcceptLast \/ Connect \/ StartBuild \/ EndBuild
        \/ \E c \in Commands : Send(c)

(* vf's loop and its workers run, and a build ends.  Nothing makes a        *)
(* client connect, a worker crash or anyone start vf again.                *)
Fairness == /\ WF_vars(Manager)
            /\ WF_vars(EndBuild) /\ WF_vars(AcceptLast)
            /\ \A p \in Procs : WF_vars(ProcessStep(p)) /\ WF_vars(Accept(p))

Spec == Init /\ [][Next]_vars /\ Fairness
-----------------------------------------------------------------------------
(* Properties                                                              *)

Places == {"none", "forked", "armed", "checked", "idle", "busy"}
Routines == {"init", "load", "up0", "up1", "mod", "stop", "stopone", "shm",
             "done", "norestart", "exit"}

\* The types of the variables, vf.c:129-162.
TypeOK ==
    /\ adapt \in BOOLEAN /\ dnr \in BOOLEAN /\ modreload \in BOOLEAN
    /\ num_to_start_min \in 0 .. num_process
    /\ vf \in {"up", "down"}
    /\ job \in Seq(Routines) /\ job # <<>>
    /\ slot \in 0 .. num_process + 1
    /\ tot \in 0 .. 2 * num_process
    /\ checks \in 0 .. 2 /\ waiting \in BOOLEAN
    /\ nspike \in 0 .. SpikeLimit - 1
    /\ temp_no_restart \in BOOLEAN
    /\ commtime \in Nat \cup {NONE}
    /\ plist \in [Slots -> Procs \cup {NONE}]
    /\ command \in Commands \cup {NONE}
    /\ exe \in Nat /\ exeok \in BOOLEAN
    /\ proc \in [Procs -> [at : Places, orphan : BOOLEAN, termed : BOOLEAN,
                           vers : Nat]]
    /\ queue \in 0 .. MaxQueue /\ strays \in 0 .. MaxStrays
    /\ events \in 0 .. MaxEvents

Working(p) == Live(p) /\ ~proc[p].termed /\ ~proc[p].orphan

\* vf never loses a worker: one that was not told to end is in plist, in one
\* slot only, so that stop, restart and quit reach it (vf.c:439, 743).
WorkersListed ==
    vf = "up" => \A p \in Procs : Working(p) =>
                     Cardinality({i \in Slots : plist[i] = p}) = 1

\* In adaptive mode the workers that accept connections stay below the
\* maximum, whatever dies while processup counts (vf.c:1249, 755).
AdaptiveCap ==
    adapt => Cardinality({p \in Procs : Working(p)}) <= num_process - 1

\* No process outlives vf but one that has yet to look whether its parent is
\* there (vf.c:665-670).
NoOrphans ==
    \A p \in Procs : (Live(p) /\ (vf = "down" \/ proc[p].orphan)) =>
                          proc[p].at \in {"forked", "armed"}

\* Workers are started only as the options and the last command allow:
\* never after stop, and with -n only before the loop or on a command
\* (vf.c:1240, 1277).
RestartsAllowed ==
    [][\A p \in Procs : (~Live(p) /\ proc'[p].at = "forked") =>
          /\ ~temp_no_restart
          /\ dnr => Head(job) = "init" \/ command # NONE]_vars

Tending == vf = "up" /\ ~temp_no_restart /\ ~dnr

\* Once crashes, builds and commands are over, the number of workers asked
\* for is there and stays there: all of them with -w, --min-worker with -d.
Replenished ==
    <>[](Tending => Cardinality({p \in Procs : Working(p)}) >= num_to_start_min)

\* A connection that waits is accepted, also by an application that had no
\* worker left, unless vf was told to stop or not to restart (vf.c:1240).
Served == [](queue = MaxQueue => <>(queue < MaxQueue \/ ~Tending))

\* After stop every worker ends, those that serve a request after it; but
\* for the strays, which wait for one more.
Stopped == temp_no_restart ~> (~temp_no_restart \/ \A p \in Procs : ~Live(p))

\* vf: by default processes are automatically restarted when their
\* executable changes.  The code does not always do it: see the README.
CurrentExecutable ==
    <>[](Tending /\ modreload =>
            \A p \in Procs : Working(p) => proc[p].vers = exe)
=============================================================================

------------------------------ MODULE VfCommand ------------------------------
(***************************************************************************)
(* The commands of vf (vf.c): a client (vf -m) writes a command in shared  *)
(* memory and polls for its answer; the resident server takes it in its    *)
(* loop.  A new server tells its launcher in the same memory that it has   *)
(* started, or that another server runs, and the launcher polls with the   *)
(* routine of the server.  The lock of srvhere() admits one server.        *)
(*                                                                         *)
(* What the commands do to the workers is VfManager.  Two statements next  *)
(* to each other (data1 and command, or the test of a message and its      *)
(* answer) are one step: vf waits for seconds, VV_MAX_CLI_WAIT, before it  *)
(* gives up.  The execution of a command takes as long as it takes.        *)
(***************************************************************************)
EXTENDS Naturals, FiniteSets

CONSTANTS Clients,   \* invocations of vf -m
          Starts,    \* invocations of vf that start a server
          NONE

ASSUME NamesAssumption == /\ Clients \cap Starts = {}
                          /\ NONE \notin Clients \cup Starts

Commands == {"start", "stop", "restart", "status", "quit", "bad"}

VARIABLES
    shm,        \* shbuf: command, and who wrote data1 last and what
    lock,       \* the process that holds the lock of srvhere(), or NONE
    client,     \* each client: pc and comm
    launcher,   \* the parent of each start that polls for the message
    resident,   \* the child of each start: pc, and the command it executes
    execs,      \* how often each server executed the command of each client
    alone,      \* the clients with nobody beside them so far
    since       \* the launchers in whose time some server was listening

vars == <<shm, lock, client, launcher, resident, execs, alone, since>>

Init ==
    /\ shm = [command |-> "DONE", data1 |-> "", by |-> NONE]
    /\ lock = NONE
    /\ client = [c \in Clients |-> [pc |-> "off", comm |-> "status"]]
    /\ launcher = [s \in Starts |-> "off"]
    /\ resident = [s \in Starts |-> [pc |-> "off", fg |-> FALSE, took |-> NONE]]
    /\ execs = [c \in Clients |-> [s \in Starts |-> 0]]
    /\ alone = {}
    /\ since = {}

Listening(s) == resident[s].pc \in {"tell", "await", "loop", "execute"} /\ lock = s

AtWork(c) == client[c].pc \in {"locked", "wait", "write", "poll"}

Attached(s) == resident[s].pc \notin {"off", "gone"} \/ launcher[s] = "poll"

Write(comm, by) == shm' = [command |-> "COMMAND", data1 |-> comm, by |-> by]

\* The server's own refusal of a name (VV_DONEBAD) is not reached: the client
\* refuses it first.
Answered(comm) ==
    CASE comm = "okay_started" -> "DONESTARTUP"
      [] comm = "okay_running" -> "DONESTARTUP0"
      [] OTHER -> "DONE"

\* The answer to status is left in data1.
Reply(comm) == [shm EXCEPT !.command = Answered(comm),
                           !.data1 = IF comm = "status" THEN "okay" ELSE @]
-----------------------------------------------------------------------------
(* The client: cli_getshm by vf -m                                         *)

SetClient(c, pc) == client' = [client EXCEPT ![c].pc = pc]

\* The name of the command is checked first.  If nobody else is attached to the
\* memory, or the lock is free, there is no server: the test of the lock takes it
\* for a moment.
BeginClient(c, comm) ==
    /\ client[c].pc = "off"
    /\ LET here == (\E s \in Starts : Attached(s)) \/ (\E d \in Clients : AtWork(d))
       IN client' = [client EXCEPT ![c] =
                        [pc |-> CASE comm # "bad" /\ here ->
                                        IF lock # NONE THEN "wait" ELSE "locked"
                                  [] comm = "quit" /\ ~here -> "ok"
                                  [] OTHER -> "error",
                         comm |-> comm]]
    /\ lock' = IF client'[c].pc = "locked" THEN c ELSE lock
    /\ alone' = IF /\ \A d \in Clients : ~AtWork(d)
                   /\ \A s \in Starts : /\ launcher[s] # "poll"
                                        /\ resident[s].pc \in {"off", "gone", "loop"}
                THEN {c} ELSE {}
    /\ UNCHANGED <<shm, launcher, resident, execs, since>>

Unlock(c) ==
    /\ client[c].pc = "locked"
    /\ lock' = NONE
    /\ SetClient(c, IF client[c].comm = "quit" THEN "ok" ELSE "error")
    /\ UNCHANGED <<shm, launcher, resident, execs, alone, since>>

\* A command that is not answered yet is waited for.
AwaitTurn(c) ==
    /\ client[c].pc = "wait"
    /\ \/ shm.command # "COMMAND" /\ SetClient(c, "write")
       \/ shm.command = "COMMAND" /\ SetClient(c, "error")
    /\ UNCHANGED <<shm, lock, launcher, resident, execs, alone, since>>

Issue(c) ==
    /\ client[c].pc = "write"
    /\ Write(client[c].comm, c)
    /\ SetClient(c, "poll")
    /\ UNCHANGED <<lock, launcher, resident, execs, alone, since>>

GotAnswer(c) ==
    /\ client[c].pc = "poll" /\ shm.command # "COMMAND"
    /\ SetClient(c, "ok")
    /\ UNCHANGED <<shm, lock, launcher, resident, execs, alone, since>>

\* No answer in time: the command is taken back, which is no error for quit.  An
\* answer that comes after the last poll is taken back too, and counts.
GiveUp(c) ==
    /\ client[c].pc = "poll"
    /\ SetClient(c, IF shm.command # "COMMAND" \/ client[c].comm = "quit" THEN "ok"
                    ELSE "error")
    /\ shm' = [shm EXCEPT !.command = "DONE"]
    /\ UNCHANGED <<lock, launcher, resident, execs, alone, since>>
-----------------------------------------------------------------------------
(* A start: the launcher and the resident server                           *)

SetResident(s, pc) == resident' = [resident EXCEPT ![s].pc = pc]

BugGetshm == shm

\* getshm(): a command that is in the memory is dropped.
Getshm == [shm EXCEPT !.command = "DONE"]

\* In the foreground there is no launcher.
Launch(s, fg) ==
    /\ launcher[s] = "off"
    /\ shm' = Getshm
    /\ launcher' = [launcher EXCEPT ![s] = IF fg THEN "none" ELSE "poll"]
    /\ resident' = [resident EXCEPT ![s] = [pc |-> "lock", fg |-> fg, took |-> NONE]]
    /\ since' = IF \E t \in Starts : Listening(t) THEN since \cup {s} ELSE since
    /\ alone' = {}
    /\ UNCHANGED <<lock, client, execs>>

\* lockfile(): the lock of a file, which no other process holds.
CanLock == lock = NONE

\* srvhere(VV_LOCK); with the lock, the socket is bound, or the server exits.
\* Without it the server only tells its launcher.
TryLock(s) ==
    /\ resident[s].pc = "lock"
    /\ LET after == IF resident[s].fg THEN "loop" ELSE "tell"
       IN \/ /\ CanLock
             /\ lock' = s /\ SetResident(s, after)
             /\ since' = since \cup {t \in Starts : launcher[t] = "poll"}
          \/ /\ ~CanLock
             /\ SetResident(s, IF resident[s].fg THEN "gone" ELSE "tell")
             /\ UNCHANGED <<lock, since>>
          \/ /\ CanLock /\ SetResident(s, "gone")
             /\ UNCHANGED <<lock, since>>
    /\ UNCHANGED <<shm, client, launcher, execs, alone>>

Tell(s) ==
    /\ resident[s].pc = "tell"
    /\ Write(IF lock = s THEN "okay_started" ELSE "okay_running", s)
    /\ SetResident(s, "await")
    /\ UNCHANGED <<lock, client, launcher, execs, alone, since>>

\* The answer of the launcher, or none in time, which is no error either.
Told(s) ==
    /\ resident[s].pc = "await"
    /\ \/ shm.command # "COMMAND" /\ UNCHANGED shm
       \/ shm' = [shm EXCEPT !.command = "DONE"]
    /\ SetResident(s, IF lock = s THEN "loop" ELSE "gone")
    /\ UNCHANGED <<lock, client, launcher, execs, alone, since>>

\* checkshm() in the loop of the server: the command is executed, which may take
\* long, and then answered; quit ends the server.
Take(s) ==
    /\ resident[s].pc = "loop" /\ shm.command = "COMMAND"
    /\ resident' = [resident EXCEPT ![s].pc = "execute", ![s].took = shm.data1]
    /\ execs' = IF shm.by \in Clients THEN [execs EXCEPT ![shm.by][s] = @ + 1] ELSE execs
    /\ UNCHANGED <<shm, lock, client, launcher, alone, since>>

BugAnswer(s) == shm

Answer(s) == Reply(resident[s].took)

Executed(s) ==
    /\ resident[s].pc = "execute"
    /\ shm' = Answer(s)
    /\ resident' = [resident EXCEPT ![s].pc = IF resident[s].took = "quit" THEN "gone" ELSE "loop",
                                    ![s].took = NONE]
    /\ lock' = IF resident[s].took = "quit" THEN NONE ELSE lock
    /\ UNCHANGED <<client, launcher, execs, alone, since>>

\* The server is killed, or ends with an error.
Killed(s) ==
    /\ resident[s].pc \notin {"off", "gone"}
    /\ SetResident(s, "gone")
    /\ lock' = IF lock = s THEN NONE ELSE lock
    /\ UNCHANGED <<shm, client, launcher, execs, alone, since>>

\* checkshm() of the launcher takes any command, and answers it although it has no
\* workers; quit ends the launcher.  Then it looks for its message.
LauncherPoll(s) ==
    /\ launcher[s] = "poll"
    /\ shm' = IF shm.command = "COMMAND" THEN Reply(shm.data1) ELSE shm
    /\ launcher' = [launcher EXCEPT ![s] =
           CASE shm.command = "COMMAND" /\ shm.data1 = "quit" -> "ended"
             [] shm'.command = "DONESTARTUP" -> "started"
             [] shm'.command = "DONESTARTUP0" -> "running"
             [] OTHER -> "poll"]
    /\ UNCHANGED <<lock, client, resident, execs, alone, since>>

LauncherGivesUp(s) ==
    /\ launcher[s] = "poll"
    /\ launcher' = [launcher EXCEPT ![s] = "failed"]
    /\ UNCHANGED <<shm, lock, client, resident, execs, alone, since>>

Client(c) ==
    \/ \E comm \in Commands : BeginClient(c, comm)
    \/ Unlock(c)
    \/ AwaitTurn(c)
    \/ Issue(c)
    \/ GotAnswer(c)
    \/ GiveUp(c)

Server(s) ==
    \/ \E fg \in BOOLEAN : Launch(s, fg)
    \/ TryLock(s)
    \/ Tell(s)
    \/ Told(s)
    \/ Take(s)
    \/ Executed(s)
    \/ Killed(s)
    \/ LauncherPoll(s)
    \/ LauncherGivesUp(s)

Next == (\E c \in Clients : Client(c)) \/ (\E s \in Starts : Server(s))

Spec == Init /\ [][Next]_vars
-----------------------------------------------------------------------------
(* Properties                                                              *)

\* checkshm() answers a command after it executed it, so that this server does not
\* execute it again ("just make sure we don't do it again", vf.c:500), whoever else
\* writes, gives up, starts or dies meanwhile; and the success of a client that had the
\* memory for itself, with no answer to an earlier command still to come, means
\* that its command was executed.  Quit also succeeds without a server.
ExecutedOnce ==
    \A c \in Clients :
        /\ \A s \in Starts : execs[c][s] <= 1
        /\ (client[c].pc = "ok" /\ c \in alone /\ client[c].comm # "quit") =>
               \E s \in Starts : execs[c][s] = 1

\* A launcher that reports "successfully started" heard it from a server that
\* listened in its time, and never from a message an earlier start left behind.
StartedMeansListening ==
    \A s \in Starts : launcher[s] = "started" => s \in since

\* "Locking here to make sure only one resident server process remains"
\* (vf.c:1150): however servers are started together, killed or told to quit, and
\* clients test the lock meanwhile, one at most is in its loop and takes commands.
OneServer ==
    \A s, t \in Starts :
        /\ resident[s].pc \in {"loop", "execute"}
        /\ resident[t].pc \in {"loop", "execute"}
        => s = t
=============================================================================

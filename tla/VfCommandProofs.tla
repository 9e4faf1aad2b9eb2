-------------------------- MODULE VfCommandProofs --------------------------
(***************************************************************************)
(* Proofs about VfCommand, for any number of clients and of starts.        *)
(*                                                                         *)
(* LockInv is the mutual exclusion of srvhere().  StartInv follows a       *)
(* message "started" from the server to the launchers.  OnceInv and        *)
(* AloneInv follow a command from the client to the server.                *)
(***************************************************************************)
EXTENDS VfCommand, TLAPS

Data == Commands \cup {"", "okay", "okay_started", "okay_running"}
Memory == [command : {"COMMAND", "DONE", "DONESTARTUP", "DONESTARTUP0"},
           data1 : Data,
           by : Clients \cup Starts \cup {NONE}]
ClientPlaces == {"off", "locked", "wait", "write", "poll", "ok", "error"}
AClient == [pc : ClientPlaces, comm : Commands]
ResidentPlaces == {"off", "lock", "tell", "await", "loop", "execute", "gone"}
AResident == [pc : ResidentPlaces, fg : BOOLEAN, took : Data \cup {NONE}]
LauncherPlaces == {"off", "none", "poll", "started", "running", "failed", "ended"}

Types ==
    /\ shm \in Memory
    /\ lock \in Clients \cup Starts \cup {NONE}
    /\ client \in [Clients -> AClient]
    /\ launcher \in [Starts -> LauncherPlaces]
    /\ resident \in [Starts -> AResident]
    /\ execs \in [Clients -> [Starts -> Nat]]

\* Who is in its loop holds the lock, and so does a client that tests it.
LockInv ==
    /\ \A s \in Starts : launcher[s] = "off" <=> resident[s].pc = "off"
    /\ \A s \in Starts : resident[s].pc \in {"loop", "execute"} => lock = s
    /\ \A s \in Starts :
           lock = s => resident[s].pc \in {"tell", "await", "loop", "execute"}
    /\ \A c \in Clients : client[c].pc = "locked" => lock = c

\* A message "started" is in the memory.
StartedTold == \/ shm.command = "DONESTARTUP"
               \/ shm.command = "COMMAND" /\ shm.data1 = "okay_started"

\* Every launcher that could read the message is in since.
PollersSince == \A t \in Starts : launcher[t] = "poll" => t \in since

StartInv ==
    /\ \A s \in Starts : Listening(s) => PollersSince
    /\ StartedTold => PollersSince
    /\ StartedMeansListening

\* A command that this server took is gone from the memory when it is back in
\* its loop; a client writes its command once.
OnceInv ==
    /\ shm.by \in Clients => client[shm.by].pc \in {"poll", "ok", "error"}
    /\ \A c \in Clients, s \in Starts :
           /\ execs[c][s] <= 1
           /\ execs[c][s] = 1 =>
                  /\ client[c].pc \in {"poll", "ok", "error"}
                  /\ resident[s].pc # "off"
                  /\ shm.command = "COMMAND" /\ shm.by = c =>
                         resident[s].pc \in {"execute", "gone"}

Executed1(c) == \E s \in Starts : execs[c][s] = 1

\* While a client has the memory for itself, what is in the memory is an older
\* message, its command, or the answer to it.
AloneWith(c) ==
    /\ c \in Clients
    /\ \A d \in Clients \ {c} : ~AtWork(d)
    /\ \A s \in Starts : /\ launcher[s] # "poll"
                         /\ resident[s].pc \in {"off", "gone", "loop", "execute"}
                         /\ AtWork(c) /\ resident[s].pc = "execute" =>
                                shm.command = "COMMAND"
    /\ client[c].pc = "write" => shm.command # "COMMAND"
    /\ client[c].pc = "poll" =>
           IF shm.command = "COMMAND" THEN shm.by = c ELSE Executed1(c)
    /\ client[c].pc = "poll" => \A s \in Starts : resident[s].pc = "execute" => Executed1(c)
    /\ client[c].pc = "ok" /\ client[c].comm # "quit" => Executed1(c)

AloneInv == \A c \in alone : AloneWith(c)

-----------------------------------------------------------------------------
(* What the steps do to one client, one server and the memory              *)

ClientGoes(c, pc) ==
    /\ client' \in [Clients -> AClient]
    /\ client'[c].pc = pc
    /\ client'[c].comm = client[c].comm
    /\ \A d \in Clients \ {c} : client'[d] = client[d]

(* A step of a client moves this client only.                              *)
LEMMA SetClientFacts ==
  ASSUME Types, NEW c \in Clients, NEW pc \in ClientPlaces, SetClient(c, pc)
  PROVE  ClientGoes(c, pc)
<1>1. client \in [Clients -> AClient] /\ client[c] \in AClient
  BY DEF Types
<1>2. [client[c] EXCEPT !.pc = pc] \in AClient
  BY <1>1 DEF AClient
<1>3. client' = [client EXCEPT ![c] = [client[c] EXCEPT !.pc = pc]]
  BY DEF SetClient
<1>4. client'[c] = [client[c] EXCEPT !.pc = pc]
  BY <1>1, <1>3
<1>5. QED
  BY <1>1, <1>2, <1>3, <1>4 DEF ClientGoes, AClient

ResidentGoes(s, pc) ==
    /\ resident' \in [Starts -> AResident]
    /\ resident'[s].pc = pc
    /\ resident'[s].fg = resident[s].fg
    /\ \A t \in Starts \ {s} : resident'[t] = resident[t]

(* A step of a server moves this server only.                              *)
LEMMA SetResidentFacts ==
  ASSUME Types, NEW s \in Starts, NEW pc \in ResidentPlaces, SetResident(s, pc)
  PROVE  ResidentGoes(s, pc) /\ resident'[s].took = resident[s].took
<1>1. resident \in [Starts -> AResident] /\ resident[s] \in AResident
  BY DEF Types
<1>2. [resident[s] EXCEPT !.pc = pc] \in AResident
  BY <1>1 DEF AResident
<1>3. resident' = [resident EXCEPT ![s] = [resident[s] EXCEPT !.pc = pc]]
  BY DEF SetResident
<1>4. resident'[s] = [resident[s] EXCEPT !.pc = pc]
  BY <1>1, <1>3
<1>5. QED
  BY <1>1, <1>2, <1>3, <1>4 DEF ResidentGoes, AResident

(* A new client sees whether there is a server, and may take the lock.     *)
LEMMA BeginFacts ==
  ASSUME Types, NEW c \in Clients, NEW comm \in Commands, BeginClient(c, comm)
  PROVE  /\ client' \in [Clients -> AClient]
         /\ client[c].pc = "off"
         /\ client'[c].pc \in {"locked", "wait", "ok", "error"}
         /\ client'[c].comm = comm
         /\ client'[c].pc = "ok" => comm = "quit"
         /\ \A d \in Clients \ {c} : client'[d] = client[d]
         /\ \/ client'[c].pc = "locked" /\ lock = NONE /\ lock' = c
            \/ client'[c].pc # "locked" /\ lock' = lock
<1>1. client \in [Clients -> AClient] /\ client[c].pc = "off"
  BY DEF Types, BeginClient
<1>2. PICK pc \in {"locked", "wait", "ok", "error"} :
        /\ client' = [client EXCEPT ![c] = [pc |-> pc, comm |-> comm]]
        /\ pc = "ok" => comm = "quit"
        /\ pc = "locked" => lock = NONE
  <2>1. CASE comm # "bad" /\ (\E s \in Starts : Attached(s))
    BY <2>1 DEF BeginClient
  <2>2. CASE comm = "quit" /\ ~(\E s \in Starts : Attached(s))
    BY <2>2 DEF BeginClient
  <2>3. CASE comm # "quit" /\ (comm = "bad" \/ ~(\E s \in Starts : Attached(s)))
    BY <2>3 DEF BeginClient
  <2>4. QED
    BY <2>1, <2>2, <2>3
<1>3. client'[c] = [pc |-> pc, comm |-> comm]
  BY <1>1, <1>2
<1>4. [pc |-> pc, comm |-> comm] \in AClient
  BY <1>2 DEF AClient, ClientPlaces
<1>5. client' \in [Clients -> AClient]
  BY <1>1, <1>2, <1>4
<1>6. lock' = IF pc = "locked" THEN c ELSE lock
  BY <1>3 DEF BeginClient
<1>7. QED
  BY <1>1, <1>2, <1>3, <1>5, <1>6

(* checkshm() answers, and takes the command away with it.                 *)
LEMMA ReplyFacts ==
  ASSUME Types, NEW comm
  PROVE  /\ Reply(comm) \in Memory
         /\ Reply(comm).command # "COMMAND"
         /\ Reply(comm).command = "DONESTARTUP" <=> comm = "okay_started"
         /\ Reply(comm).by = shm.by
<1>1. shm \in Memory
  BY DEF Types
<1>2. /\ Answered(comm) \in {"DONE", "DONESTARTUP", "DONESTARTUP0"}
      /\ Answered(comm) = "DONESTARTUP" <=> comm = "okay_started"
  BY DEF Answered
<1>3. QED
  BY <1>1, <1>2 DEF Reply, Memory, Data

(* checkshm() takes a command.                                             *)
LEMMA TakeFacts ==
  ASSUME Types, NEW s \in Starts, Take(s)
  PROVE  /\ ResidentGoes(s, "execute")
         /\ resident'[s].took = shm.data1
         /\ execs' \in [Clients -> [Starts -> Nat]]
         /\ \A c \in Clients, t \in Starts :
                execs'[c][t] = IF shm.by = c /\ t = s THEN execs[c][t] + 1
                                                      ELSE execs[c][t]
<1>1. /\ resident \in [Starts -> AResident] /\ resident[s] \in AResident
      /\ shm.data1 \in Data
      /\ execs \in [Clients -> [Starts -> Nat]]
  BY DEF Types, Memory
<1>2. PICK r : r = [resident[s] EXCEPT !.pc = "execute", !.took = shm.data1]
  OBVIOUS
<1>3. r \in AResident /\ r.pc = "execute" /\ r.took = shm.data1 /\ r.fg = resident[s].fg
  BY <1>1, <1>2 DEF AResident, ResidentPlaces
<1>4. resident' = [resident EXCEPT ![s] = r]
  BY <1>1, <1>2 DEF Take
<1>5. ResidentGoes(s, "execute") /\ resident'[s].took = shm.data1
  BY <1>1, <1>3, <1>4 DEF ResidentGoes
<1>6. CASE shm.by \in Clients
  <2>1. PICK e : e = [execs[shm.by] EXCEPT ![s] = execs[shm.by][s] + 1]
    OBVIOUS
  <2>2. /\ e \in [Starts -> Nat]
        /\ e[s] = execs[shm.by][s] + 1
        /\ \A t \in Starts \ {s} : e[t] = execs[shm.by][t]
    BY <1>1, <1>6, <2>1
  <2>3. execs' = [execs EXCEPT ![shm.by] = e]
    BY <1>6, <2>1 DEF Take
  <2>4. QED
    BY <1>1, <1>5, <1>6, <2>2, <2>3
<1>7. CASE shm.by \notin Clients
  BY <1>1, <1>5, <1>7 DEF Take
<1>8. QED
  BY <1>6, <1>7

(* A command was executed: it is answered, and quit ends the server.       *)
LEMMA ExecutedFacts ==
  ASSUME Types, NEW s \in Starts, Executed(s)
  PROVE  /\ ResidentGoes(s, IF resident[s].took = "quit" THEN "gone" ELSE "loop")
         /\ shm' \in Memory
         /\ shm'.command # "COMMAND"
         /\ shm'.command = "DONESTARTUP" <=> resident[s].took = "okay_started"
         /\ shm'.by = shm.by
<1>1. resident \in [Starts -> AResident] /\ resident[s] \in AResident
  BY DEF Types
<1>2. PICK pc : pc = IF resident[s].took = "quit" THEN "gone" ELSE "loop"
  OBVIOUS
<1>3. PICK r : r = [resident[s] EXCEPT !.pc = pc, !.took = NONE]
  OBVIOUS
<1>4. r \in AResident /\ r.pc = pc /\ r.fg = resident[s].fg
  BY <1>1, <1>2, <1>3 DEF AResident, ResidentPlaces
<1>5. resident' = [resident EXCEPT ![s] = r]
  BY <1>1, <1>2, <1>3 DEF Executed
<1>6. ResidentGoes(s, pc)
  BY <1>1, <1>4, <1>5 DEF ResidentGoes
<1>7. shm' = Reply(resident[s].took)
  BY DEF Executed, Answer
<1>8. QED
  BY <1>2, <1>6, <1>7, ReplyFacts

(* A start drops the command in the memory and has a server of its own.    *)
LEMMA LaunchFacts ==
  ASSUME Types, NEW s \in Starts, NEW fg \in BOOLEAN, Launch(s, fg)
  PROVE  /\ shm' \in Memory /\ shm'.command = "DONE" /\ shm'.by = shm.by
         /\ resident' \in [Starts -> AResident]
         /\ resident'[s].pc = "lock"
         /\ \A t \in Starts \ {s} : resident'[t] = resident[t]
         /\ launcher' \in [Starts -> LauncherPlaces]
         /\ launcher[s] = "off" /\ launcher'[s] \in {"none", "poll"}
         /\ \A t \in Starts \ {s} : launcher'[t] = launcher[t]
<1>1. /\ shm \in Memory /\ resident \in [Starts -> AResident]
      /\ launcher \in [Starts -> LauncherPlaces]
  BY DEF Types
<1>2. shm' \in Memory /\ shm'.command = "DONE" /\ shm'.by = shm.by
  BY <1>1 DEF Launch, Getshm, Memory
<1>3. [pc |-> "lock", fg |-> fg, took |-> NONE] \in AResident
  BY DEF AResident, ResidentPlaces
<1>4. resident' = [resident EXCEPT ![s] = [pc |-> "lock", fg |-> fg, took |-> NONE]]
  BY DEF Launch
<1>5. PICK pc \in {"none", "poll"} : launcher' = [launcher EXCEPT ![s] = pc]
  BY DEF Launch
<1>6. launcher[s] = "off"
  BY DEF Launch
<1>7. QED
  BY <1>1, <1>2, <1>3, <1>4, <1>5, <1>6 DEF LauncherPlaces

(* A launcher answers any command, and looks for its message.              *)
LEMMA LauncherPollFacts ==
  ASSUME Types, NEW s \in Starts, LauncherPoll(s)
  PROVE  /\ shm' \in Memory
         /\ shm'.command # "COMMAND"
         /\ shm'.by = shm.by
         /\ shm'.command = "DONESTARTUP" => StartedTold
         /\ launcher[s] = "poll"
         /\ launcher' \in [Starts -> LauncherPlaces]
         /\ launcher'[s] \in {"ended", "started", "running", "poll"}
         /\ launcher'[s] = "started" => shm'.command = "DONESTARTUP"
         /\ \A t \in Starts \ {s} : launcher'[t] = launcher[t]
<1>1. shm \in Memory /\ launcher \in [Starts -> LauncherPlaces] /\ launcher[s] = "poll"
  BY DEF Types, LauncherPoll
<1>2. /\ shm' \in Memory
      /\ shm'.command # "COMMAND"
      /\ shm'.by = shm.by
      /\ shm'.command = "DONESTARTUP" => StartedTold
  BY <1>1, ReplyFacts DEF LauncherPoll, StartedTold
<1> DEFINE pc == CASE shm.command = "COMMAND" /\ shm.data1 = "quit" -> "ended"
                   [] shm'.command = "DONESTARTUP" -> "started"
                   [] shm'.command = "DONESTARTUP0" -> "running"
                   [] OTHER -> "poll"
<1>3. /\ pc \in {"ended", "started", "running", "poll"}
      /\ pc = "started" => shm'.command = "DONESTARTUP"
      /\ launcher' = [launcher EXCEPT ![s] = pc]
  BY DEF LauncherPoll
<1> HIDE DEF pc
<1>4. QED
  BY <1>1, <1>2, <1>3 DEF LauncherPlaces

(* Every step keeps the types.                                             *)
LEMMA TypeStep == Types /\ [Next]_vars => Types'
<1> SUFFICES ASSUME Types, [Next]_vars PROVE Types'
  OBVIOUS
<1>1. ASSUME NEW c \in Clients, NEW comm \in Commands, BeginClient(c, comm)
      PROVE  Types'
  BY <1>1, BeginFacts DEF BeginClient, Types
<1>2. ASSUME NEW c \in Clients, Unlock(c)
      PROVE  Types'
  <2>1. \E pc \in {"ok", "error"} : SetClient(c, pc)
    BY <1>2 DEF Unlock
  <2>2. client' \in [Clients -> AClient]
    BY <2>1, SetClientFacts DEF ClientGoes, ClientPlaces
  <2>3. QED
    BY <1>2, <2>2 DEF Unlock, Types
<1>3. ASSUME NEW c \in Clients, AwaitTurn(c)
      PROVE  Types'
  <2>1. \E pc \in {"write", "error"} : SetClient(c, pc)
    BY <1>3 DEF AwaitTurn
  <2>2. client' \in [Clients -> AClient]
    BY <2>1, SetClientFacts DEF ClientGoes, ClientPlaces
  <2>3. QED
    BY <1>3, <2>2 DEF AwaitTurn, Types
<1>4. ASSUME NEW c \in Clients, Issue(c)
      PROVE  Types'
  <2>1. client' \in [Clients -> AClient]
    BY <1>4, SetClientFacts DEF Issue, ClientGoes, ClientPlaces
  <2>2. shm' \in Memory
    BY <1>4 DEF Issue, Write, Types, Memory, Data, AClient
  <2>3. QED
    BY <1>4, <2>1, <2>2 DEF Issue, Types
<1>5. ASSUME NEW c \in Clients, GotAnswer(c)
      PROVE  Types'
  <2>1. client' \in [Clients -> AClient]
    BY <1>5, SetClientFacts DEF GotAnswer, ClientGoes, ClientPlaces
  <2>2. QED
    BY <1>5, <2>1 DEF GotAnswer, Types
<1>6. ASSUME NEW c \in Clients, GiveUp(c)
      PROVE  Types'
  <2>1. \E pc \in {"ok", "error"} : SetClient(c, pc)
    BY <1>6 DEF GiveUp
  <2>2. client' \in [Clients -> AClient]
    BY <2>1, SetClientFacts DEF ClientGoes, ClientPlaces
  <2>3. shm' \in Memory
    BY <1>6 DEF GiveUp, Types, Memory
  <2>4. QED
    BY <1>6, <2>2, <2>3 DEF GiveUp, Types
<1>7. ASSUME NEW s \in Starts, NEW fg \in BOOLEAN, Launch(s, fg)
      PROVE  Types'
  BY <1>7, LaunchFacts DEF Launch, Types
<1>8. ASSUME NEW s \in Starts, TryLock(s)
      PROVE  Types'
  <2>1. \E pc \in {"loop", "tell", "gone"} : SetResident(s, pc)
    BY <1>8 DEF TryLock, CanLock
  <2>2. resident' \in [Starts -> AResident]
    BY <2>1, SetResidentFacts DEF ResidentGoes, ResidentPlaces
  <2>3. QED
    BY <1>8, <2>2 DEF TryLock, CanLock, Types
<1>9. ASSUME NEW s \in Starts, Tell(s)
      PROVE  Types'
  <2>1. resident' \in [Starts -> AResident]
    BY <1>9, SetResidentFacts DEF Tell, ResidentGoes, ResidentPlaces
  <2>2. shm' \in Memory
    BY <1>9 DEF Tell, Write, Types, Memory, Data
  <2>3. QED
    BY <1>9, <2>1, <2>2 DEF Tell, Types
<1>10. ASSUME NEW s \in Starts, Told(s)
      PROVE  Types'
  <2>1. \E pc \in {"loop", "gone"} : SetResident(s, pc)
    BY <1>10 DEF Told
  <2>2. resident' \in [Starts -> AResident]
    BY <2>1, SetResidentFacts DEF ResidentGoes, ResidentPlaces
  <2>3. shm' \in Memory
    BY <1>10 DEF Told, Types, Memory
  <2>4. QED
    BY <1>10, <2>2, <2>3 DEF Told, Types
<1>11. ASSUME NEW s \in Starts, Take(s)
      PROVE  Types'
  BY <1>11, TakeFacts DEF Take, Types, ResidentGoes
<1>12. ASSUME NEW s \in Starts, Executed(s)
      PROVE  Types'
  BY <1>12, ExecutedFacts DEF Executed, Types, ResidentGoes
<1>13. ASSUME NEW s \in Starts, Killed(s)
      PROVE  Types'
  <2>1. resident' \in [Starts -> AResident]
    BY <1>13, SetResidentFacts DEF Killed, ResidentGoes, ResidentPlaces
  <2>2. QED
    BY <1>13, <2>1 DEF Killed, Types
<1>14. ASSUME NEW s \in Starts, LauncherPoll(s)
      PROVE  Types'
  BY <1>14, LauncherPollFacts DEF LauncherPoll, Types
<1>15. ASSUME NEW s \in Starts, LauncherGivesUp(s)
      PROVE  Types'
  BY <1>15 DEF LauncherGivesUp, Types, LauncherPlaces
<1>16. CASE UNCHANGED vars
  BY <1>16 DEF vars, Types
<1>17. QED
  BY <1>1, <1>2, <1>3, <1>4, <1>5, <1>6, <1>7, <1>8, <1>9, <1>10,
     <1>11, <1>12, <1>13, <1>14, <1>15, <1>16 DEF Next, Client, Server

(* The lock of srvhere() admits one server, or a client that tests it.    *)
LEMMA LockStep == Types /\ LockInv /\ [Next]_vars => LockInv'
<1> SUFFICES ASSUME Types, LockInv, [Next]_vars PROVE LockInv'
  OBVIOUS
<1> USE NamesAssumption DEF LockInv
<1>1. ASSUME NEW c \in Clients, NEW comm \in Commands, BeginClient(c, comm)
      PROVE  LockInv'
  <2>1. UNCHANGED <<resident, launcher>>
    BY <1>1 DEF BeginClient
  <2>2. QED
    BY <1>1, <2>1, BeginFacts
<1>2. ASSUME NEW c \in Clients, Unlock(c)
      PROVE  LockInv'
  <2>1. PICK pc \in {"ok", "error"} : ClientGoes(c, pc)
    BY <1>2, SetClientFacts DEF Unlock, ClientPlaces
  <2>2. QED
    BY <1>2, <2>1 DEF Unlock, ClientGoes
<1>3. ASSUME NEW c \in Clients, AwaitTurn(c)
      PROVE  LockInv'
  <2>1. PICK pc \in {"write", "error"} : ClientGoes(c, pc)
    BY <1>3, SetClientFacts DEF AwaitTurn, ClientPlaces
  <2>2. QED
    BY <1>3, <2>1 DEF AwaitTurn, ClientGoes
<1>4. ASSUME NEW c \in Clients, Issue(c)
      PROVE  LockInv'
  <2>1. PICK pc \in {"poll"} : ClientGoes(c, pc)
    BY <1>4, SetClientFacts DEF Issue, ClientPlaces
  <2>2. QED
    BY <1>4, <2>1 DEF Issue, ClientGoes
<1>5. ASSUME NEW c \in Clients, GotAnswer(c)
      PROVE  LockInv'
  <2>1. PICK pc \in {"ok"} : ClientGoes(c, pc)
    BY <1>5, SetClientFacts DEF GotAnswer, ClientPlaces
  <2>2. QED
    BY <1>5, <2>1 DEF GotAnswer, ClientGoes
<1>6. ASSUME NEW c \in Clients, GiveUp(c)
      PROVE  LockInv'
  <2>1. PICK pc \in {"ok", "error"} : ClientGoes(c, pc)
    BY <1>6, SetClientFacts DEF GiveUp, ClientPlaces
  <2>2. QED
    BY <1>6, <2>1 DEF GiveUp, ClientGoes
<1>7. ASSUME NEW s \in Starts, NEW fg \in BOOLEAN, Launch(s, fg)
      PROVE  LockInv'
  <2>1. UNCHANGED <<client, lock>>
    BY <1>7 DEF Launch
  <2>2. QED
    BY <1>7, <2>1, LaunchFacts
<1>8. ASSUME NEW s \in Starts, TryLock(s)
      PROVE  LockInv'
  <2>1. PICK pc \in {"loop", "tell", "gone"} :
          /\ ResidentGoes(s, pc)
          /\ \/ lock = NONE /\ lock' = s
             \/ lock' = lock /\ pc # "loop"
    BY <1>8, SetResidentFacts DEF TryLock, CanLock, ResidentPlaces
  <2>2. UNCHANGED <<client, launcher>> /\ resident[s].pc = "lock"
    BY <1>8 DEF TryLock, CanLock
  <2>3. lock = NONE /\ lock' = s => pc # "gone"
    BY <1>8, <2>1 DEF TryLock, CanLock, SetResident, Types, AResident, ResidentGoes
  <2>4. QED
    BY <2>1, <2>2, <2>3 DEF ResidentGoes
<1>9. ASSUME NEW s \in Starts, Tell(s)
      PROVE  LockInv'
  <2>1. PICK pc \in {"await"} : ResidentGoes(s, pc)
    BY <1>9, SetResidentFacts DEF Tell, ResidentPlaces
  <2>2. QED
    BY <1>9, <2>1 DEF Tell, ResidentGoes
<1>10. ASSUME NEW s \in Starts, Told(s)
      PROVE  LockInv'
  <2>1. ResidentGoes(s, IF lock = s THEN "loop" ELSE "gone")
    BY <1>10, SetResidentFacts DEF Told, ResidentPlaces
  <2>2. QED
    BY <1>10, <2>1 DEF Told, ResidentGoes
<1>11. ASSUME NEW s \in Starts, Take(s)
      PROVE  LockInv'
  BY <1>11, TakeFacts DEF Take, ResidentGoes
<1>12. ASSUME NEW s \in Starts, Executed(s)
      PROVE  LockInv'
  <2>1. /\ ResidentGoes(s, IF resident[s].took = "quit" THEN "gone" ELSE "loop")
        /\ lock' = IF resident[s].took = "quit" THEN NONE ELSE lock
        /\ lock = s /\ UNCHANGED <<client, launcher>>
    BY <1>12, ExecutedFacts DEF Executed
  <2>2. \A c \in Clients : client[c].pc # "locked"
    BY <2>1
  <2>3. \A t \in Starts \ {s} : resident'[t].pc \notin {"loop", "execute"}
    BY <2>1 DEF ResidentGoes
  <2>4. resident[s].pc = "execute"
    BY <1>12 DEF Executed
  <2>5. QED
    BY <2>1, <2>2, <2>3, <2>4 DEF ResidentGoes
<1>13. ASSUME NEW s \in Starts, Killed(s)
      PROVE  LockInv'
  <2>1. PICK pc \in {"gone"} : ResidentGoes(s, pc)
    BY <1>13, SetResidentFacts DEF Killed, ResidentPlaces
  <2>2. QED
    BY <1>13, <2>1 DEF Killed, ResidentGoes
<1>14. ASSUME NEW s \in Starts, LauncherPoll(s)
      PROVE  LockInv'
  BY <1>14 DEF LauncherPoll
<1>15. ASSUME NEW s \in Starts, LauncherGivesUp(s)
      PROVE  LockInv'
  BY <1>15 DEF LauncherGivesUp
<1>16. CASE UNCHANGED vars
  BY <1>16 DEF vars
<1>17. QED
  BY <1>1, <1>2, <1>3, <1>4, <1>5, <1>6, <1>7, <1>8, <1>9, <1>10,
     <1>11, <1>12, <1>13, <1>14, <1>15, <1>16 DEF Next, Client, Server

(* A message "started" is read only by launchers in whose time a server   *)
(* listened.                                                               *)
LEMMA StartStep == Types /\ LockInv /\ StartInv /\ [Next]_vars => StartInv'
<1> SUFFICES ASSUME Types, LockInv, StartInv, [Next]_vars PROVE StartInv'
  OBVIOUS
<1> USE NamesAssumption DEF StartInv, PollersSince, StartedMeansListening
<1>1. ASSUME NEW c \in Clients, NEW comm \in Commands, BeginClient(c, comm)
      PROVE  StartInv'
  <2>1. UNCHANGED <<launcher, since, resident, shm>>
    BY <1>1 DEF BeginClient
  <2>2. \A t \in Starts : Listening(t)' => Listening(t)
    BY <1>1, <2>1, BeginFacts DEF Listening
  <2>3. StartedTold' => StartedTold
    BY <2>1 DEF StartedTold
  <2>4. QED
    BY <2>1, <2>2, <2>3
<1>2. ASSUME NEW c \in Clients, Unlock(c)
      PROVE  StartInv'
  <2>1. UNCHANGED <<launcher, since, resident>>
    BY <1>2 DEF Unlock
  <2>2. \A t \in Starts : Listening(t)' => Listening(t)
    BY <1>2, <2>1 DEF Unlock, Listening
  <2>3. StartedTold' => StartedTold
    BY <1>2 DEF Unlock, StartedTold
  <2>4. QED
    BY <2>1, <2>2, <2>3
<1>3. ASSUME NEW c \in Clients, AwaitTurn(c)
      PROVE  StartInv'
  <2>1. UNCHANGED <<launcher, since, resident>>
    BY <1>3 DEF AwaitTurn
  <2>2. \A t \in Starts : Listening(t)' => Listening(t)
    BY <1>3, <2>1 DEF AwaitTurn, Listening
  <2>3. StartedTold' => StartedTold
    BY <1>3 DEF AwaitTurn, StartedTold
  <2>4. QED
    BY <2>1, <2>2, <2>3
<1>4. ASSUME NEW c \in Clients, Issue(c)
      PROVE  StartInv'
  <2>1. UNCHANGED <<launcher, since, resident>>
    BY <1>4 DEF Issue
  <2>2. \A t \in Starts : Listening(t)' => Listening(t)
    BY <1>4, <2>1 DEF Issue, Listening
  <2>3. StartedTold' => StartedTold
    BY <1>4 DEF Issue, Write, StartedTold, Types, AClient, Commands
  <2>4. QED
    BY <2>1, <2>2, <2>3
<1>5. ASSUME NEW c \in Clients, GotAnswer(c)
      PROVE  StartInv'
  <2>1. UNCHANGED <<launcher, since, resident>>
    BY <1>5 DEF GotAnswer
  <2>2. \A t \in Starts : Listening(t)' => Listening(t)
    BY <1>5, <2>1 DEF GotAnswer, Listening
  <2>3. StartedTold' => StartedTold
    BY <1>5 DEF GotAnswer, StartedTold
  <2>4. QED
    BY <2>1, <2>2, <2>3
<1>6. ASSUME NEW c \in Clients, GiveUp(c)
      PROVE  StartInv'
  <2>1. UNCHANGED <<launcher, since, resident>>
    BY <1>6 DEF GiveUp
  <2>2. \A t \in Starts : Listening(t)' => Listening(t)
    BY <1>6, <2>1 DEF GiveUp, Listening
  <2>3. StartedTold' => StartedTold
    BY <1>6 DEF GiveUp, StartedTold, Types, Memory
  <2>4. QED
    BY <2>1, <2>2, <2>3
<1>7. ASSUME NEW s \in Starts, NEW fg \in BOOLEAN, Launch(s, fg)
      PROVE  StartInv'
  <2>1. ~StartedTold'
    BY <1>7, LaunchFacts DEF StartedTold
  <2>2. /\ \A t \in Starts : Listening(t)' => Listening(t)
        /\ since \subseteq since'
        /\ (\E t \in Starts : Listening(t)) => s \in since'
    BY <1>7, LaunchFacts DEF Launch, Listening
  <2>3. /\ launcher'[s] \in {"none", "poll"}
        /\ \A t \in Starts \ {s} : launcher'[t] = launcher[t]
    BY <1>7, LaunchFacts
  <2>4. QED
    BY <2>1, <2>2, <2>3
<1>8. ASSUME NEW s \in Starts, TryLock(s)
      PROVE  StartInv'
  <2>1. UNCHANGED <<launcher, shm>> /\ since \subseteq since'
    BY <1>8 DEF TryLock, CanLock
  <2>2. StartedTold' => StartedTold
    BY <2>1 DEF StartedTold
  <2>3. CASE \A t \in Starts : launcher[t] = "poll" => t \in since'
    BY <2>1, <2>2, <2>3
  <2>4. CASE ~\A t \in Starts : launcher[t] = "poll" => t \in since'
    <3>1. PICK pc \in {"tell", "gone"} : ResidentGoes(s, pc) /\ lock' = lock /\ since' = since
      BY <1>8, <2>4, SetResidentFacts DEF TryLock, CanLock, ResidentPlaces
    <3>2. pc = "tell" => lock # s
      BY <1>8 DEF TryLock, CanLock, LockInv
    <3>3. QED
      BY <2>1, <2>2, <3>1, <3>2 DEF ResidentGoes, Listening
  <2>5. QED
    BY <2>3, <2>4
<1>9. ASSUME NEW s \in Starts, Tell(s)
      PROVE  StartInv'
  <2>1. UNCHANGED <<launcher, since, lock>> /\ ResidentGoes(s, "await")
    BY <1>9, SetResidentFacts DEF Tell, ResidentPlaces
  <2>2. \A t \in Starts : Listening(t)' => Listening(t)
    BY <1>9, <2>1 DEF Tell, Listening, ResidentGoes
  <2>3. StartedTold' => Listening(s)
    BY <1>9 DEF Tell, Write, StartedTold, Listening
  <2>4. QED
    BY <2>1, <2>2, <2>3
<1>10. ASSUME NEW s \in Starts, Told(s)
      PROVE  StartInv'
  <2>1. /\ UNCHANGED <<launcher, since, lock>>
        /\ ResidentGoes(s, IF lock = s THEN "loop" ELSE "gone")
    BY <1>10, SetResidentFacts DEF Told, ResidentPlaces
  <2>2. \A t \in Starts : Listening(t)' => Listening(t)
    BY <1>10, <2>1 DEF Told, Listening, ResidentGoes
  <2>3. StartedTold' => StartedTold
    BY <1>10 DEF Told, StartedTold, Types, Memory
  <2>4. QED
    BY <2>1, <2>2, <2>3
<1>11. ASSUME NEW s \in Starts, Take(s)
      PROVE  StartInv'
  <2>1. UNCHANGED <<launcher, since, lock, shm>> /\ ResidentGoes(s, "execute")
    BY <1>11, TakeFacts DEF Take
  <2>2. \A t \in Starts : Listening(t)' => Listening(t)
    BY <1>11, <2>1 DEF Take, Listening, ResidentGoes
  <2>3. StartedTold' => StartedTold
    BY <2>1 DEF StartedTold
  <2>4. QED
    BY <2>1, <2>2, <2>3
<1>12. ASSUME NEW s \in Starts, Executed(s)
      PROVE  StartInv'
  <2>1. UNCHANGED <<launcher, since>>
    BY <1>12 DEF Executed
  <2>2. Listening(s)
    BY <1>12 DEF Executed, Listening, LockInv
  <2>3. QED
    BY <2>1, <2>2
<1>13. ASSUME NEW s \in Starts, Killed(s)
      PROVE  StartInv'
  <2>1. UNCHANGED <<launcher, since, shm>> /\ ResidentGoes(s, "gone")
    BY <1>13, SetResidentFacts DEF Killed, ResidentPlaces
  <2>2. \A t \in Starts : Listening(t)' => Listening(t)
    BY <1>13, <2>1 DEF Killed, Listening, ResidentGoes
  <2>3. StartedTold' => StartedTold
    BY <2>1 DEF StartedTold
  <2>4. QED
    BY <2>1, <2>2, <2>3
<1>14. ASSUME NEW s \in Starts, LauncherPoll(s)
      PROVE  StartInv'
  <2>1. UNCHANGED <<since, lock, resident>>
    BY <1>14 DEF LauncherPoll
  <2>2. \A t \in Starts : Listening(t)' => Listening(t)
    BY <2>1 DEF Listening
  <2>3. StartedTold' => StartedTold
    BY <1>14, LauncherPollFacts DEF StartedTold
  <2>4. launcher'[s] = "started" => StartedTold
    BY <1>14, LauncherPollFacts
  <2>5. /\ launcher[s] = "poll"
        /\ \A t \in Starts \ {s} : launcher'[t] = launcher[t]
    BY <1>14, LauncherPollFacts
  <2>6. QED
    BY <2>1, <2>2, <2>3, <2>4, <2>5
<1>15. ASSUME NEW s \in Starts, LauncherGivesUp(s)
      PROVE  StartInv'
  <2>1. UNCHANGED <<shm, since, lock, resident>>
    BY <1>15 DEF LauncherGivesUp
  <2>2. \A t \in Starts : launcher'[t] \in {launcher[t], "failed"}
    BY <1>15 DEF LauncherGivesUp, Types
  <2>3. QED
    BY <2>1, <2>2 DEF Listening, StartedTold
<1>16. CASE UNCHANGED vars
  BY <1>16 DEF vars, Listening, StartedTold
<1>17. QED
  BY <1>1, <1>2, <1>3, <1>4, <1>5, <1>6, <1>7, <1>8, <1>9, <1>10,
     <1>11, <1>12, <1>13, <1>14, <1>15, <1>16 DEF Next, Client, Server

(* A server takes the command of a client once: when it is back in its     *)
(* loop, the command is not in the memory any more.                        *)
LEMMA OnceStep == Types /\ LockInv /\ OnceInv /\ [Next]_vars => OnceInv'
<1> SUFFICES ASSUME Types, LockInv, OnceInv, [Next]_vars PROVE OnceInv'
  OBVIOUS
<1> USE DEF OnceInv
<1>1. ASSUME NEW c \in Clients, NEW comm \in Commands, BeginClient(c, comm)
      PROVE  OnceInv'
  <2>1. UNCHANGED <<shm, resident, execs>>
    BY <1>1 DEF BeginClient
  <2>2. /\ client[c].pc = "off"
        /\ \A d \in Clients \ {c} : client'[d] = client[d]
    BY <1>1, BeginFacts
  <2>3. QED
    BY <2>1, <2>2
<1>2. ASSUME NEW c \in Clients, Unlock(c)
      PROVE  OnceInv'
  <2>1. PICK pc \in {"ok", "error"} : ClientGoes(c, pc)
    BY <1>2, SetClientFacts DEF Unlock, ClientPlaces
  <2>2. UNCHANGED <<shm, resident, execs>>
    BY <1>2 DEF Unlock
  <2>3. QED
    BY <1>2, <2>1, <2>2 DEF Unlock, ClientGoes
<1>3. ASSUME NEW c \in Clients, AwaitTurn(c)
      PROVE  OnceInv'
  <2>1. PICK pc \in {"write", "error"} : ClientGoes(c, pc)
    BY <1>3, SetClientFacts DEF AwaitTurn, ClientPlaces
  <2>2. UNCHANGED <<shm, resident, execs>>
    BY <1>3 DEF AwaitTurn
  <2>3. QED
    BY <1>3, <2>1, <2>2 DEF AwaitTurn, ClientGoes
<1>4. ASSUME NEW c \in Clients, Issue(c)
      PROVE  OnceInv'
  <2>1. ClientGoes(c, "poll") /\ client[c].pc = "write"
    BY <1>4, SetClientFacts DEF Issue, ClientPlaces
  <2>2. UNCHANGED <<resident, execs>> /\ shm'.by = c
    BY <1>4 DEF Issue, Write
  <2>3. \A s \in Starts : execs[c][s] # 1
    BY <2>1
  <2>4. QED
    BY <2>1, <2>2, <2>3 DEF ClientGoes
<1>5. ASSUME NEW c \in Clients, GotAnswer(c)
      PROVE  OnceInv'
  <2>1. PICK pc \in {"ok"} : ClientGoes(c, pc)
    BY <1>5, SetClientFacts DEF GotAnswer, ClientPlaces
  <2>2. UNCHANGED <<shm, resident, execs>>
    BY <1>5 DEF GotAnswer
  <2>3. QED
    BY <1>5, <2>1, <2>2 DEF GotAnswer, ClientGoes
<1>6. ASSUME NEW c \in Clients, GiveUp(c)
      PROVE  OnceInv'
  <2>1. PICK pc \in {"ok", "error"} : ClientGoes(c, pc)
    BY <1>6, SetClientFacts DEF GiveUp, ClientPlaces
  <2>2. UNCHANGED <<resident, execs>> /\ shm'.by = shm.by /\ shm'.command = "DONE"
    BY <1>6 DEF GiveUp, Types, Memory
  <2>3. QED
    BY <2>1, <2>2 DEF ClientGoes
<1>7. ASSUME NEW s \in Starts, NEW fg \in BOOLEAN, Launch(s, fg)
      PROVE  OnceInv'
  <2>1. UNCHANGED <<client, execs>>
    BY <1>7 DEF Launch
  <2>2. resident[s].pc = "off"
    BY <1>7 DEF Launch, LockInv
  <2>3. QED
    BY <1>7, <2>1, <2>2, LaunchFacts
<1>8. ASSUME NEW s \in Starts, TryLock(s)
      PROVE  OnceInv'
  <2>1. PICK pc \in {"loop", "tell", "gone"} : ResidentGoes(s, pc)
    BY <1>8, SetResidentFacts DEF TryLock, CanLock, ResidentPlaces
  <2>2. UNCHANGED <<shm, client, execs>> /\ resident[s].pc = "lock"
    BY <1>8 DEF TryLock, CanLock
  <2>3. QED
    BY <2>1, <2>2 DEF ResidentGoes
<1>9. ASSUME NEW s \in Starts, Tell(s)
      PROVE  OnceInv'
  <2>1. ResidentGoes(s, "await") /\ resident[s].pc = "tell"
    BY <1>9, SetResidentFacts DEF Tell, ResidentPlaces
  <2>2. UNCHANGED <<client, execs>> /\ shm'.by = s
    BY <1>9 DEF Tell, Write
  <2>3. shm'.by \notin Clients
    BY <2>2, NamesAssumption
  <2>4. QED
    BY <2>1, <2>2, <2>3 DEF ResidentGoes
<1>10. ASSUME NEW s \in Starts, Told(s)
      PROVE  OnceInv'
  <2>1. PICK pc \in {"loop", "gone"} : ResidentGoes(s, pc)
    BY <1>10, SetResidentFacts DEF Told, ResidentPlaces
  <2>2. UNCHANGED <<client, execs>> /\ shm'.by = shm.by /\ shm'.command # "COMMAND"
    BY <1>10 DEF Told, Types, Memory
  <2>3. QED
    BY <2>1, <2>2 DEF ResidentGoes
<1>11. ASSUME NEW s \in Starts, Take(s)
      PROVE  OnceInv'
  <2>1. /\ ResidentGoes(s, "execute")
        /\ \A c \in Clients, t \in Starts :
               execs'[c][t] = IF shm.by = c /\ t = s THEN execs[c][t] + 1
                                                     ELSE execs[c][t]
    BY <1>11, TakeFacts
  <2>2. UNCHANGED <<shm, client>> /\ resident[s].pc = "loop" /\ shm.command = "COMMAND"
    BY <1>11 DEF Take
  <2>3. \A c \in Clients : shm.by = c => execs[c][s] = 0
    <3>1. \A c \in Clients : execs[c][s] \in Nat
      BY DEF Types
    <3>2. QED
      BY <2>2, <3>1
  <2>4. QED
    BY <2>1, <2>2, <2>3 DEF ResidentGoes
<1>12. ASSUME NEW s \in Starts, Executed(s)
      PROVE  OnceInv'
  <2>1. PICK pc \in {"loop", "gone"} : ResidentGoes(s, pc)
    BY <1>12, ExecutedFacts
  <2>2. /\ UNCHANGED <<client, execs>> /\ shm'.by = shm.by /\ shm'.command # "COMMAND"
    BY <1>12, ExecutedFacts DEF Executed
  <2>3. QED
    BY <2>1, <2>2 DEF ResidentGoes
<1>13. ASSUME NEW s \in Starts, Killed(s)
      PROVE  OnceInv'
  <2>1. ResidentGoes(s, "gone")
    BY <1>13, SetResidentFacts DEF Killed, ResidentPlaces
  <2>2. UNCHANGED <<shm, client, execs>>
    BY <1>13 DEF Killed
  <2>3. QED
    BY <2>1, <2>2 DEF ResidentGoes
<1>14. ASSUME NEW s \in Starts, LauncherPoll(s)
      PROVE  OnceInv'
  <2>1. UNCHANGED <<client, resident, execs>>
    BY <1>14 DEF LauncherPoll
  <2>2. shm'.by = shm.by /\ shm'.command # "COMMAND"
    BY <1>14, LauncherPollFacts
  <2>3. QED
    BY <2>1, <2>2
<1>15. ASSUME NEW s \in Starts, LauncherGivesUp(s)
      PROVE  OnceInv'
  BY <1>15 DEF LauncherGivesUp
<1>16. CASE UNCHANGED vars
  BY <1>16 DEF vars
<1>17. QED
  BY <1>1, <1>2, <1>3, <1>4, <1>5, <1>6, <1>7, <1>8, <1>9, <1>10,
     <1>11, <1>12, <1>13, <1>14, <1>15, <1>16 DEF Next, Client, Server

(* Nobody disturbs a client that has the memory for itself.                *)
LEMMA AloneStep == Types /\ LockInv /\ OnceInv /\ AloneInv /\ [Next]_vars => AloneInv'
<1> SUFFICES ASSUME Types, LockInv, OnceInv, AloneInv, [Next]_vars PROVE AloneInv'
  OBVIOUS
<1> USE DEF AloneInv
<1>1. ASSUME NEW c \in Clients, NEW comm \in Commands, BeginClient(c, comm)
      PROVE  AloneInv'
  <2> SUFFICES ASSUME NEW a \in alone' PROVE AloneWith(a)'
    OBVIOUS
  <2>1. /\ a = c
        /\ \A d \in Clients : ~AtWork(d)
        /\ \A s \in Starts : /\ launcher[s] # "poll"
                             /\ resident[s].pc \in {"off", "gone", "loop"}
    BY <1>1 DEF BeginClient
  <2>2. UNCHANGED <<shm, launcher, resident, execs>>
    BY <1>1 DEF BeginClient
  <2>3. /\ client'[c].pc \in {"locked", "wait", "ok", "error"}
        /\ client'[c].pc = "ok" => client'[c].comm = "quit"
        /\ \A d \in Clients \ {c} : client'[d] = client[d]
    BY <1>1, BeginFacts
  <2>4. QED
    BY <2>1, <2>2, <2>3 DEF AloneWith, AtWork
<1>2. ASSUME NEW c \in Clients, Unlock(c)
      PROVE  AloneInv'
  <2> SUFFICES ASSUME NEW a \in alone PROVE AloneWith(a)'
    BY <1>2 DEF Unlock
  <2>1. PICK pc \in {"ok", "error"} : ClientGoes(c, pc)
    BY <1>2, SetClientFacts DEF Unlock, ClientPlaces
  <2>2. UNCHANGED <<shm, launcher, resident, execs>>
    BY <1>2 DEF Unlock
  <2>3. AloneWith(a) /\ c = a
    BY <1>2 DEF Unlock, AtWork, AloneWith
  <2>4. pc = "ok" => client[c].comm = "quit"
    BY <1>2, <2>1 DEF Unlock, SetClient, ClientGoes, Types, AClient
  <2>5. QED
    BY <2>1, <2>2, <2>3, <2>4 DEF ClientGoes, AloneWith, AtWork
<1>3. ASSUME NEW c \in Clients, AwaitTurn(c)
      PROVE  AloneInv'
  <2> SUFFICES ASSUME NEW a \in alone PROVE AloneWith(a)'
    BY <1>3 DEF AwaitTurn
  <2>1. PICK pc \in {"write", "error"} : ClientGoes(c, pc)
    BY <1>3, SetClientFacts DEF AwaitTurn, ClientPlaces
  <2>2. UNCHANGED <<shm, launcher, resident, execs>>
    BY <1>3 DEF AwaitTurn
  <2>3. AloneWith(a) /\ c = a
    BY <1>3 DEF AwaitTurn, AtWork, AloneWith
  <2>4. client[c].pc = "wait" /\ (pc = "write" => shm.command # "COMMAND")
    BY <1>3, <2>1 DEF AwaitTurn, SetClient, ClientGoes, Types, AClient
  <2>5. QED
    BY <2>1, <2>2, <2>3, <2>4 DEF ClientGoes, AloneWith, AtWork
<1>4. ASSUME NEW c \in Clients, Issue(c)
      PROVE  AloneInv'
  <2> SUFFICES ASSUME NEW a \in alone PROVE AloneWith(a)'
    BY <1>4 DEF Issue
  <2>1. PICK pc \in {"poll"} : ClientGoes(c, pc)
    BY <1>4, SetClientFacts DEF Issue, ClientPlaces
  <2>2. UNCHANGED <<launcher, resident, execs>>
    BY <1>4 DEF Issue
  <2>3. AloneWith(a) /\ c = a
    BY <1>4 DEF Issue, AtWork, AloneWith
  <2>4. client[c].pc = "write" /\ shm'.command = "COMMAND" /\ shm'.by = c
    BY <1>4 DEF Issue, Write
  <2>5. \A s \in Starts : resident[s].pc # "execute"
    BY <2>3, <2>4 DEF AloneWith, AtWork
  <2>6. QED
    BY <2>1, <2>2, <2>3, <2>4, <2>5 DEF ClientGoes, AloneWith, AtWork
<1>5. ASSUME NEW c \in Clients, GotAnswer(c)
      PROVE  AloneInv'
  <2> SUFFICES ASSUME NEW a \in alone PROVE AloneWith(a)'
    BY <1>5 DEF GotAnswer
  <2>1. PICK pc \in {"ok"} : ClientGoes(c, pc)
    BY <1>5, SetClientFacts DEF GotAnswer, ClientPlaces
  <2>2. UNCHANGED <<shm, launcher, resident, execs>>
    BY <1>5 DEF GotAnswer
  <2>3. AloneWith(a) /\ c = a
    BY <1>5 DEF GotAnswer, AtWork, AloneWith
  <2>4. Executed1(a) /\ UNCHANGED Executed1(a)
    BY <1>5, <2>2, <2>3 DEF GotAnswer, AloneWith, Executed1
  <2>5. QED
    BY <2>1, <2>2, <2>3, <2>4 DEF ClientGoes, AloneWith, AtWork
<1>6. ASSUME NEW c \in Clients, GiveUp(c)
      PROVE  AloneInv'
  <2> SUFFICES ASSUME NEW a \in alone PROVE AloneWith(a)'
    BY <1>6 DEF GiveUp
  <2>1. PICK pc \in {"ok", "error"} : ClientGoes(c, pc)
    BY <1>6, SetClientFacts DEF GiveUp, ClientPlaces
  <2>2. UNCHANGED <<launcher, resident, execs>>
    BY <1>6 DEF GiveUp
  <2>3. AloneWith(a) /\ c = a
    BY <1>6 DEF GiveUp, AtWork, AloneWith
  <2>4. CASE shm.command = "COMMAND"
    <3>1. pc = "ok" => client[c].comm = "quit"
      BY <1>6, <2>1, <2>4 DEF GiveUp, SetClient, ClientGoes, Types, AClient
    <3>2. QED
      BY <2>1, <2>2, <2>3, <3>1 DEF ClientGoes, AloneWith, AtWork
  <2>5. CASE shm.command # "COMMAND"
    <3>1. Executed1(a) /\ UNCHANGED Executed1(a)
      BY <1>6, <2>2, <2>3, <2>5 DEF GiveUp, AloneWith, Executed1
    <3>2. QED
      BY <2>1, <2>2, <2>3, <3>1 DEF ClientGoes, AloneWith, AtWork
  <2>6. QED
    BY <2>4, <2>5
<1>7. ASSUME NEW s \in Starts, NEW fg \in BOOLEAN, Launch(s, fg)
      PROVE  AloneInv'
  BY <1>7 DEF Launch
<1>8. ASSUME NEW s \in Starts, TryLock(s)
      PROVE  AloneInv'
  <2>1. alone = {}
    BY <1>8 DEF TryLock, CanLock, AloneWith
  <2>2. QED
    BY <1>8, <2>1 DEF TryLock, CanLock
<1>9. ASSUME NEW s \in Starts, Tell(s)
      PROVE  AloneInv'
  <2>1. alone = {}
    BY <1>9 DEF Tell, AloneWith
  <2>2. QED
    BY <1>9, <2>1 DEF Tell
<1>10. ASSUME NEW s \in Starts, Told(s)
      PROVE  AloneInv'
  <2>1. alone = {}
    BY <1>10 DEF Told, AloneWith
  <2>2. QED
    BY <1>10, <2>1 DEF Told
<1>11. ASSUME NEW s \in Starts, Take(s)
      PROVE  AloneInv'
  <2> SUFFICES ASSUME NEW a \in alone PROVE AloneWith(a)'
    BY <1>11 DEF Take
  <2>1. /\ ResidentGoes(s, "execute")
        /\ \A c \in Clients, t \in Starts :
               execs'[c][t] = IF shm.by = c /\ t = s THEN execs[c][t] + 1
                                                     ELSE execs[c][t]
    BY <1>11, TakeFacts
  <2>2. /\ UNCHANGED <<shm, launcher, client>>
        /\ resident[s].pc = "loop" /\ shm.command = "COMMAND"
    BY <1>11 DEF Take
  <2>3. AloneWith(a) /\ a \in Clients
    BY DEF AloneWith
  <2>4. execs[a][s] \in Nat /\ (shm.by = a => execs[a][s] = 0)
    <3>1. execs[a][s] \in Nat
      BY <2>3 DEF Types
    <3>2. execs[a][s] <= 1 /\ (shm.by = a => execs[a][s] # 1)
      BY <2>2, <2>3 DEF OnceInv
    <3>3. QED
      BY <3>1, <3>2
  <2>5. Executed1(a) => Executed1(a)'
    BY <2>1, <2>3, <2>4 DEF Executed1
  <2>6. shm.by = a => Executed1(a)'
    BY <2>1, <2>3, <2>4 DEF Executed1
  <2>7. QED
    BY <2>1, <2>2, <2>3, <2>5, <2>6 DEF ResidentGoes, AloneWith, AtWork
<1>12. ASSUME NEW s \in Starts, Executed(s)
      PROVE  AloneInv'
  <2> SUFFICES ASSUME NEW a \in alone PROVE AloneWith(a)'
    BY <1>12 DEF Executed
  <2>1. PICK pc \in {"loop", "gone"} : ResidentGoes(s, pc)
    BY <1>12, ExecutedFacts
  <2>2. /\ UNCHANGED <<client, launcher, execs>>
        /\ shm'.command # "COMMAND" /\ resident[s].pc = "execute"
    BY <1>12, ExecutedFacts DEF Executed
  <2>3. \A t \in Starts \ {s} : resident[t].pc # "execute"
    BY <2>2 DEF LockInv
  <2>4. AloneWith(a) /\ UNCHANGED Executed1(a)
    BY <2>2 DEF Executed1
  <2>5. QED
    BY <2>1, <2>2, <2>3, <2>4 DEF ResidentGoes, AloneWith, AtWork
<1>13. ASSUME NEW s \in Starts, Killed(s)
      PROVE  AloneInv'
  <2> SUFFICES ASSUME NEW a \in alone PROVE AloneWith(a)'
    BY <1>13 DEF Killed
  <2>1. ResidentGoes(s, "gone")
    BY <1>13, SetResidentFacts DEF Killed, ResidentPlaces
  <2>2. UNCHANGED <<shm, client, launcher, execs>>
    BY <1>13 DEF Killed
  <2>3. AloneWith(a) /\ UNCHANGED Executed1(a)
    BY <2>2 DEF Executed1
  <2>4. QED
    BY <2>1, <2>2, <2>3 DEF ResidentGoes, AloneWith, AtWork
<1>14. ASSUME NEW s \in Starts, LauncherPoll(s)
      PROVE  AloneInv'
  <2>1. alone = {}
    BY <1>14 DEF LauncherPoll, AloneWith
  <2>2. QED
    BY <1>14, <2>1 DEF LauncherPoll
<1>15. ASSUME NEW s \in Starts, LauncherGivesUp(s)
      PROVE  AloneInv'
  <2>1. alone = {}
    BY <1>15 DEF LauncherGivesUp, AloneWith
  <2>2. QED
    BY <1>15, <2>1 DEF LauncherGivesUp
<1>16. CASE UNCHANGED vars
  BY <1>16 DEF vars, AloneWith, AtWork, Executed1
<1>17. QED
  BY <1>1, <1>2, <1>3, <1>4, <1>5, <1>6, <1>7, <1>8, <1>9, <1>10,
     <1>11, <1>12, <1>13, <1>14, <1>15, <1>16 DEF Next, Client, Server
-----------------------------------------------------------------------------
(* The theorems                                                            *)

(* The invariants hold at the start.                                       *)
LEMMA InitInvs == Init => Types /\ LockInv /\ StartInv /\ OnceInv /\ AloneInv
<1> SUFFICES ASSUME Init PROVE Types /\ LockInv /\ StartInv /\ OnceInv /\ AloneInv
  OBVIOUS
<1> USE NamesAssumption DEF Init
<1>1. shm \in Memory
  BY DEF Memory, Data
<1>2. client \in [Clients -> AClient]
  BY DEF AClient, ClientPlaces, Commands
<1>3. resident \in [Starts -> AResident]
  BY DEF AResident, ResidentPlaces
<1>4. Types
  BY <1>1, <1>2, <1>3 DEF Types, LauncherPlaces
<1>5. LockInv
  BY DEF LockInv
<1>6. StartInv
  BY DEF StartInv, Listening, StartedTold, StartedMeansListening
<1>7. OnceInv
  <2>1. shm.by \notin Clients
    OBVIOUS
  <2>2. \A c \in Clients, s \in Starts : execs[c][s] = 0
    OBVIOUS
  <2> HIDE DEF Init
  <2>3. QED
    BY <2>1, <2>2 DEF OnceInv
<1>8. QED
  BY <1>4, <1>5, <1>6, <1>7 DEF AloneInv

(* They are inductive together.                                            *)
LEMMA Invs == Spec => [](Types /\ LockInv /\ StartInv /\ OnceInv /\ AloneInv)
  BY InitInvs, TypeStep, LockStep, StartStep, OnceStep, AloneStep, PTL DEF Spec

(* srvhere(): however many servers are started at once, killed, or told to  *)
(* quit, one at most is in its loop and takes commands.                    *)
THEOREM OneServerRuns == Spec => []OneServer
<1>1. LockInv => OneServer
  BY DEF LockInv, OneServer
<1>2. QED
  BY <1>1, Invs, PTL

(* A launcher that reports "started" heard it from a server that listened  *)
(* in its time, for any number of starts and clients.                      *)
THEOREM StartedIsTrue == Spec => []StartedMeansListening
<1>1. StartInv => StartedMeansListening
  BY DEF StartInv
<1>2. QED
  BY <1>1, Invs, PTL

(* No server executes a command twice, and a client with the memory for    *)
(* itself that reports success had its command executed.                   *)
THEOREM CommandsOnce == Spec => []ExecutedOnce
<1>1. OnceInv /\ AloneInv => ExecutedOnce
  BY DEF OnceInv, AloneInv, AloneWith, ExecutedOnce, Executed1
<1>2. QED
  BY <1>1, Invs, PTL
=============================================================================

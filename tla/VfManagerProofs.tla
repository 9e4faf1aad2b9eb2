-------------------------- MODULE VfManagerProofs --------------------------
(***************************************************************************)
(* Proofs about VfManager, for any number of workers, of processes and of  *)
(* events.                                                                 *)
(*                                                                         *)
(* JobInv says what vf may be in the middle of, PermitInv why it may start *)
(* workers there, OrphanInv what is left when it ends, ListInv that plist  *)
(* has every worker, and CapInv how many there are at each point.          *)
(***************************************************************************)
EXTENDS VfManager, FiniteSetTheorems, SequenceTheorems, TLAPS

AProcess == [at : Places, orphan : BOOLEAN, termed : BOOLEAN, vers : Nat]
List == [Slots -> Procs \cup {NONE}]

\* What can be left to do, a routine and those after it.
Jobs == {<<"init">>, <<"load">>, <<"mod">>, <<"shm">>, <<"done">>, <<"norestart">>,
         <<"exit">>, <<"up0", "mod">>, <<"up1", "up0", "mod">>,
         <<"stopone", "up0", "mod">>, <<"up0", "shm">>, <<"stop", "up0", "shm">>,
         <<"up0", "done">>, <<"stop", "up0", "done">>, <<"stop", "norestart">>,
         <<"stop", "exit">>}
Loops == {"up0", "up1", "stop", "stopone"}

Options == IF adapt THEN ~dnr /\ num_to_start_min <= num_process - 1
                    ELSE num_to_start_min = num_process

JobInv ==
    /\ job \in Jobs
    /\ Head(job) = "init" => slot >= 1
    /\ Head(job) # "init" => slot <= num_process
    /\ Head(job) \notin Loops \cup {"init"} => slot = 0
    /\ Head(job) \in {"up0", "up1"} /\ slot > 0 => tot < num_process + slot

\* Workers are started for a connection that waits, to restart what died, or
\* on a command.
ForLoad == {<<"up0", "mod">>, <<"up1", "up0", "mod">>, <<"stopone", "up0", "mod">>}
ForDead == {<<"up0", "shm">>, <<"stop", "up0", "shm">>}
ForCommand == {<<"up0", "done">>, <<"stop", "up0", "done">>}

PermitInv ==
    vf = "up" =>
        /\ Head(job) = "init" => ~temp_no_restart
        /\ job \in ForLoad => ~temp_no_restart /\ adapt
        /\ job \in ForDead => ~temp_no_restart /\ ~dnr
        /\ job \in ForCommand => ~temp_no_restart /\ command # NONE

OrphanInv ==
    /\ \A p \in Procs : proc[p].orphan => proc[p].at \in {"forked", "armed"}
    /\ vf = "down" => \A p \in Procs : Live(p) => proc[p].orphan

ListInv ==
    /\ \A i, j \in Slots : plist[i] = plist[j] /\ plist[i] # NONE => i = j
    /\ vf = "up" => \A p \in Procs : Working(p) => \E i \in Slots : plist[i] = p
    /\ vf = "up" /\ Head(job) = "init" => \A i \in Slots : i >= slot => plist[i] = NONE

Workers == {p \in Procs : Working(p)}

CapInv ==
    adapt =>
        /\ Cardinality(Workers) <= num_process - 1
        /\ vf = "up" =>
             /\ Head(job) = "init" => Cardinality(Workers) <= slot - 1
             /\ Head(job) = "up0" /\ slot > 0 => Cardinality(Workers) <= tot
             /\ Head(job) = "up1" => Cardinality(Workers) <= num_process - 2

-----------------------------------------------------------------------------
(* What vf goes on to do                                                   *)

(* A job is a sequence of routines.                                        *)
LEMMA JobsAreSequences == Jobs \subseteq Seq(Routines) \ {<<>>}
BY DEF Jobs, Routines

(* When a routine returns, the next one is for the same reason.            *)
LEMMA TailFacts ==
  ASSUME NEW j \in Jobs, Head(j) \in Loops
  PROVE  /\ Tail(j) \in Jobs
         /\ Head(Tail(j)) \in {"up0", "mod", "shm", "done", "norestart", "exit"}
         /\ Tail(j) \in ForLoad => j \in ForLoad
         /\ Tail(j) \in ForDead => j \in ForDead
         /\ Tail(j) \in ForCommand => j \in ForCommand
<1>1. CASE j = <<"up0", "mod">>
  <2>1. Tail(j) = <<"mod">>
    BY <1>1
  <2>2. QED
    BY <1>1, <2>1 DEF Jobs, ForLoad, ForDead, ForCommand
<1>2. CASE j = <<"up1", "up0", "mod">>
  <2>1. Tail(j) = <<"up0", "mod">>
    BY <1>2
  <2>2. QED
    BY <1>2, <2>1 DEF Jobs, ForLoad, ForDead, ForCommand
<1>3. CASE j = <<"stopone", "up0", "mod">>
  <2>1. Tail(j) = <<"up0", "mod">>
    BY <1>3
  <2>2. QED
    BY <1>3, <2>1 DEF Jobs, ForLoad, ForDead, ForCommand
<1>4. CASE j = <<"up0", "shm">>
  <2>1. Tail(j) = <<"shm">>
    BY <1>4
  <2>2. QED
    BY <1>4, <2>1 DEF Jobs, ForLoad, ForDead, ForCommand
<1>5. CASE j = <<"stop", "up0", "shm">>
  <2>1. Tail(j) = <<"up0", "shm">>
    BY <1>5
  <2>2. QED
    BY <1>5, <2>1 DEF Jobs, ForLoad, ForDead, ForCommand
<1>6. CASE j = <<"up0", "done">>
  <2>1. Tail(j) = <<"done">>
    BY <1>6
  <2>2. QED
    BY <1>6, <2>1 DEF Jobs, ForLoad, ForDead, ForCommand
<1>7. CASE j = <<"stop", "up0", "done">>
  <2>1. Tail(j) = <<"up0", "done">>
    BY <1>7
  <2>2. QED
    BY <1>7, <2>1 DEF Jobs, ForLoad, ForDead, ForCommand
<1>8. CASE j = <<"stop", "norestart">>
  <2>1. Tail(j) = <<"norestart">>
    BY <1>8
  <2>2. QED
    BY <1>8, <2>1 DEF Jobs, ForLoad, ForDead, ForCommand
<1>9. CASE j = <<"stop", "exit">>
  <2>1. Tail(j) = <<"exit">>
    BY <1>9
  <2>2. QED
    BY <1>9, <2>1 DEF Jobs, ForLoad, ForDead, ForCommand
<1>10. \A r \in {"init", "load", "mod", "shm", "done", "norestart", "exit"} : j # <<r>>
  BY DEF Loops
<1>11. QED
  BY <1>1, <1>2, <1>3, <1>4, <1>5, <1>6, <1>7, <1>8, <1>9, <1>10 DEF Jobs

(* The routines that start workers, and what they are called for.          *)
LEMMA StartingJobs ==
  ASSUME NEW j \in Jobs, Head(j) \in {"up0", "up1"}
  PROVE  j \in ForLoad \cup ForDead \cup ForCommand
<1>1. \A r \in {"init", "load", "mod", "shm", "done", "norestart", "exit"} : j # <<r>>
  OBVIOUS
<1>2. j # <<"stop", "norestart">> /\ j # <<"stop", "exit">>
  OBVIOUS
<1>3. QED
  BY <1>1, <1>2 DEF Jobs, ForLoad, ForDead, ForCommand

\* A job begins anew: its routine is before the first slot.
NewJob(j) == job' = j /\ j \in Jobs /\ slot' = 0

(* A routine that goes through plist goes on, or returns.                  *)
LEMMA LoopFacts ==
  ASSUME VfAssumption, JobInv, Head(job) \in Loops, Continue \/ Return
  PROVE  \/ job' = job /\ slot < num_process /\ slot' = slot + 1
         \/ /\ NewJob(Tail(job))
            /\ Head(job') \in {"up0", "mod", "shm", "done", "norestart", "exit"}
            /\ job' \in ForLoad => job \in ForLoad
            /\ job' \in ForDead => job \in ForDead
            /\ job' \in ForCommand => job \in ForCommand
<1>1. job \in Jobs
  BY DEF JobInv
<1>2. \/ job' = job /\ slot < num_process /\ slot' = slot + 1
      \/ job' = Tail(job) /\ slot' = 0
  BY DEF Continue, Return
<1>3. PICK t : t = Tail(job)
  OBVIOUS
<1>4. /\ t \in Jobs
      /\ Head(t) \in {"up0", "mod", "shm", "done", "norestart", "exit"}
      /\ t \in ForLoad => job \in ForLoad
      /\ t \in ForDead => job \in ForDead
      /\ t \in ForCommand => job \in ForCommand
  BY <1>1, <1>3, TailFacts
<1>5. QED
  BY <1>2, <1>3, <1>4 DEF NewJob

-----------------------------------------------------------------------------
(* What happens to the processes                                           *)

\* No process is new, and an orphan that has looked for its parent is gone.
Onward ==
    /\ proc' \in [Procs -> AProcess]
    /\ \A p \in Procs :
           /\ Live(p)' => Live(p)
           /\ Working(p)' => Working(p)
           /\ proc'[p].orphan => proc[p].orphan /\ proc'[p].at \in {"forked", "armed"}
           /\ proc[p].orphan => proc'[p].orphan \/ ~Live(p)'

\* The process p is new.
Forked(p) ==
    /\ proc' \in [Procs -> AProcess]
    /\ ~Live(p)
    /\ proc'[p] = [at |-> "forked", orphan |-> FALSE, termed |-> FALSE, vers |-> 0]
    /\ \A q \in Procs \ {p} : proc'[q] = proc[q]

(* No process is a process.                                                *)
LEMMA NoProcFacts ==
  /\ NoProc \in AProcess
  /\ NoProc.at = "none" /\ NoProc.orphan = FALSE /\ NoProc.termed = FALSE /\ NoProc.vers = 0
BY DEF NoProc, AProcess, Places

(* A process that goes on, or ends, alone.                                 *)
LEMMA OneOnward ==
  ASSUME proc \in [Procs -> AProcess], OrphanInv, NEW p \in Procs, NEW r \in AProcess,
         proc' = [proc EXCEPT ![p] = r],
         \/ r = NoProc
         \/ /\ Live(p)
            /\ r.orphan = proc[p].orphan
            /\ r.orphan => r.at \in {"forked", "armed"}
            /\ proc[p].termed => r.termed
  PROVE  Onward
<1>1. /\ proc' \in [Procs -> AProcess]
      /\ proc'[p] = r
      /\ \A q \in Procs \ {p} : proc'[q] = proc[q]
  OBVIOUS
<1>2. ASSUME NEW q \in Procs \ {p}
      PROVE  /\ Live(q)' => Live(q)
             /\ Working(q)' => Working(q)
             /\ proc'[q].orphan => proc[q].orphan /\ proc'[q].at \in {"forked", "armed"}
             /\ proc[q].orphan => proc'[q].orphan \/ ~Live(q)'
  BY <1>1 DEF Live, Working, OrphanInv, NoProc
<1>3. /\ Live(p)' => Live(p)
      /\ Working(p)' => Working(p)
      /\ proc'[p].orphan => proc[p].orphan /\ proc'[p].at \in {"forked", "armed"}
      /\ proc[p].orphan => proc'[p].orphan \/ ~Live(p)'
  <2>1. CASE r = NoProc
    BY <1>1, <2>1, NoProcFacts DEF Live, Working, NoProc
  <2>2. CASE /\ Live(p)
             /\ r.orphan = proc[p].orphan
             /\ r.orphan => r.at \in {"forked", "armed"}
             /\ proc[p].termed => r.termed
    BY <1>1, <2>2 DEF Working, AProcess
  <2>3. QED
    BY <2>1, <2>2
<1>4. QED
  BY <1>1, <1>2, <1>3 DEF Onward

(* The steps of a process.                                                 *)
LEMMA ProcessOnward ==
  ASSUME proc \in [Procs -> AProcess], exe \in Nat, OrphanInv, NEW p \in Procs,
         ProcessStep(p) \/ Accept(p) \/ Crash(p)
  PROVE  Onward
<1>1. PICK c : c = proc[p]
  OBVIOUS
<1>2. c \in AProcess /\ (c.orphan => c.at \in {"forked", "armed"})
  BY <1>1 DEF OrphanInv
<1>3. c.at # "none" => Live(p)
  BY <1>1 DEF Live, NoProc
<1>4. ASSUME NEW at \in {"armed", "checked", "busy", "idle"}, NEW v \in Nat,
             at = "armed" \/ ~c.orphan, c.at # "none",
             proc' = [proc EXCEPT ![p] = [c EXCEPT !.at = at, !.vers = v]]
      PROVE  Onward
  <2>1. PICK r : r = [c EXCEPT !.at = at, !.vers = v]
    OBVIOUS
  <2>2. r \in AProcess /\ r.at = at /\ r.orphan = c.orphan /\ r.termed = c.termed
    BY <1>2, <1>4, <2>1 DEF AProcess, Places
  <2>3. QED
    BY <1>1, <1>3, <1>4, <2>1, <2>2, OneOnward
<1>5. ASSUME proc' = [proc EXCEPT ![p] = NoProc]
      PROVE  Onward
  BY <1>5, NoProcFacts, OneOnward
<1>6. CASE SetDeathSignal(p)
  <2>1. c.at = "forked"
    BY <1>1, <1>6 DEF SetDeathSignal
  <2>2. proc' = [proc EXCEPT ![p] = [c EXCEPT !.at = "armed", !.vers = c.vers]]
    BY <1>1, <1>2, <1>6 DEF SetDeathSignal, AProcess
  <2>3. QED
    BY <1>2, <1>4, <2>1, <2>2 DEF AProcess
<1>7. CASE CheckParent(p)
  <2>1. c.at = "armed"
    BY <1>1, <1>7 DEF CheckParent
  <2>2. CASE c.orphan
    BY <1>1, <1>5, <1>7, <2>2 DEF CheckParent, ParentThere
  <2>3. CASE ~c.orphan
    <3>1. proc' = [proc EXCEPT ![p] = [c EXCEPT !.at = "checked", !.vers = c.vers]]
      BY <1>1, <1>2, <1>7, <2>3 DEF CheckParent, ParentThere, AProcess
    <3>2. QED
      BY <1>2, <1>4, <2>1, <2>3, <3>1 DEF AProcess
  <2>4. QED
    BY <2>2, <2>3
<1>8. CASE Exec(p)
  <2>1. c.at = "checked" /\ ~c.orphan
    BY <1>1, <1>2, <1>8 DEF Exec
  <2>2. CASE exeok
    BY <1>1, <1>4, <1>8, <2>1, <2>2 DEF Exec
  <2>3. CASE ~exeok
    BY <1>1, <1>5, <1>8, <2>3 DEF Exec
  <2>4. QED
    BY <2>2, <2>3
<1>9. CASE Finish(p)
  <2>1. c.at = "busy" /\ ~c.orphan
    BY <1>1, <1>2, <1>9 DEF Finish
  <2>2. CASE c.termed
    BY <1>1, <1>5, <1>9, <2>2 DEF Finish
  <2>3. CASE ~c.termed
    <3>1. proc' = [proc EXCEPT ![p] = [c EXCEPT !.at = "idle", !.vers = c.vers]]
      BY <1>1, <1>2, <1>9, <2>3 DEF Finish, AProcess
    <3>2. QED
      BY <1>2, <1>4, <2>1, <3>1 DEF AProcess
  <2>4. QED
    BY <2>2, <2>3
<1>10. CASE Accept(p)
  <2>1. c.at = "idle" /\ ~c.orphan
    BY <1>1, <1>2, <1>10 DEF Accept
  <2>2. proc' = [proc EXCEPT ![p] = [c EXCEPT !.at = "busy", !.vers = c.vers]]
    BY <1>1, <1>2, <1>10 DEF Accept, AProcess
  <2>3. QED
    BY <1>2, <1>4, <2>1, <2>2 DEF AProcess
<1>11. CASE Crash(p)
  BY <1>5, <1>11 DEF Crash
<1>12. QED
  BY <1>6, <1>7, <1>8, <1>9, <1>10, <1>11 DEF ProcessStep

(* SIGTERM: the process ends, or knows that it has to.                     *)
LEMMA SigtermOnward ==
  ASSUME proc \in [Procs -> AProcess], OrphanInv, NEW p \in Procs, Sigterm(p)
  PROVE  Onward /\ ~Working(p)'
<1>1. PICK c : c = proc[p]
  OBVIOUS
<1>2. c \in AProcess /\ (c.orphan => c.at \in {"forked", "armed"})
  BY <1>1 DEF OrphanInv
<1>3. CASE c.at = "busy"
  <2>1. PICK r : r = [c EXCEPT !.termed = TRUE]
    OBVIOUS
  <2>2. r \in AProcess /\ r.orphan = c.orphan /\ r.termed = TRUE /\ r.at = "busy"
    BY <1>2, <1>3, <2>1 DEF AProcess
  <2>3. proc' = [proc EXCEPT ![p] = r]
    BY <1>1, <1>3, <2>1 DEF Sigterm
  <2>4. Live(p) /\ ~c.orphan
    BY <1>1, <1>2, <1>3 DEF Live, NoProc
  <2>5. Onward
    BY <1>1, <2>2, <2>3, <2>4, OneOnward
  <2>6. QED
    BY <2>2, <2>3, <2>5 DEF Working
<1>4. CASE c.at # "busy"
  <2>1. proc' = [proc EXCEPT ![p] = NoProc]
    BY <1>1, <1>4 DEF Sigterm
  <2>2. Onward
    BY <2>1, NoProcFacts, OneOnward
  <2>3. QED
    BY <2>1, <2>2 DEF Working, Live, NoProc
<1>5. QED
  BY <1>3, <1>4

(* Nothing happens to the processes.                                       *)
LEMMA StillOnward ==
  ASSUME proc \in [Procs -> AProcess], OrphanInv, UNCHANGED proc
  PROVE  Onward
BY DEF Onward, OrphanInv, Live, Working, NoProc

(* start_child: a new process in the slot, or none.                        *)
LEMMA StartChildFacts ==
  ASSUME proc \in [Procs -> AProcess], NEW pl \in List, NEW i \in Slots, StartChild(pl, i)
  PROVE  \/ plist' = pl /\ UNCHANGED proc
         \/ \E p \in Procs : /\ Forked(p)
                             /\ plist' \in List
                             /\ plist'[i] = p
                             /\ \A j \in Slots \ {i} : plist'[j] = pl[j]
                             /\ \A j \in Slots : pl[j] # p
<1>1. CASE ~exeok
  BY <1>1 DEF StartChild
<1>2. CASE exeok
  <2>1. PICK p \in Procs : /\ ~Live(p) /\ \A j \in Slots : pl[j] # p
                           /\ plist' = [pl EXCEPT ![i] = p]
                           /\ proc' = [proc EXCEPT ![p].at = "forked"]
    BY <1>2 DEF StartChild
  <2>2. proc[p] = NoProc
    BY <2>1 DEF Live
  <2>3. PICK r : r = [NoProc EXCEPT !.at = "forked"]
    OBVIOUS
  <2>4. r = [at |-> "forked", orphan |-> FALSE, termed |-> FALSE, vers |-> 0] /\ r \in AProcess
    BY <2>3 DEF NoProc, AProcess, Places
  <2>5. proc' = [proc EXCEPT ![p] = r]
    BY <2>1, <2>2, <2>3
  <2>6. Forked(p)
    BY <2>1, <2>4, <2>5 DEF Forked
  <2>7. /\ plist' \in List /\ plist'[i] = p
        /\ \A j \in Slots \ {i} : plist'[j] = pl[j]
    BY <2>1 DEF List
  <2>8. QED
    BY <2>1, <2>6, <2>7
<1>3. QED
  BY <1>1, <1>2

(* vf ends: what is left are orphans that have not asked for the signal.   *)
LEMMA ParentEndsFacts ==
  ASSUME proc \in [Procs -> AProcess], ParentEnds
  PROVE  /\ proc' \in [Procs -> AProcess]
         /\ \A p \in Procs : Live(p)' => Live(p) /\ proc'[p].orphan /\ proc'[p].at = "forked"
         /\ \A p \in Procs : proc'[p].orphan => Live(p)'
<1>1. ASSUME NEW p \in Procs
      PROVE  /\ proc'[p] \in AProcess
             /\ Live(p)' => Live(p) /\ proc'[p].orphan /\ proc'[p].at = "forked"
             /\ proc'[p].orphan => Live(p)'
  <2>1. PICK c : c = proc[p]
    OBVIOUS
  <2>2. c \in AProcess
    BY <2>1
  <2>3. CASE c.at = "forked"
    <3>1. PICK r : r = [c EXCEPT !.orphan = TRUE]
      OBVIOUS
    <3>2. r \in AProcess /\ r.orphan = TRUE /\ r.at = "forked"
      BY <2>2, <2>3, <3>1 DEF AProcess
    <3>3. proc'[p] = r
      BY <2>1, <2>3, <3>1 DEF ParentEnds
    <3>4. QED
      BY <2>1, <2>3, <3>2, <3>3 DEF Live, NoProc
  <2>4. CASE c.at # "forked"
    <3>1. proc'[p] = NoProc
      BY <2>1, <2>4 DEF ParentEnds
    <3>2. QED
      BY <3>1, NoProcFacts DEF Live, NoProc
  <2>5. QED
    BY <2>3, <2>4
<1>2. proc' \in [Procs -> AProcess]
  BY <1>1 DEF ParentEnds
<1>3. QED
  BY <1>1, <1>2

-----------------------------------------------------------------------------
(* Types                                                                   *)

Flags ==
    /\ adapt \in BOOLEAN /\ dnr \in BOOLEAN /\ modreload \in BOOLEAN
    /\ waiting \in BOOLEAN /\ temp_no_restart \in BOOLEAN /\ exeok \in BOOLEAN
Scalars ==
    /\ num_to_start_min \in 0 .. num_process /\ Options
    /\ vf \in {"up", "down"}
    /\ checks \in 0 .. 2
    /\ nspike \in 0 .. SpikeLimit - 1
    /\ commtime \in Nat \cup {NONE}
    /\ command \in Commands \cup {NONE}
    /\ exe \in Nat
    /\ queue \in 0 .. MaxQueue /\ strays \in 0 .. MaxStrays
    /\ events \in 0 .. MaxEvents
Tables == plist \in List /\ proc \in [Procs -> AProcess]
Counters == slot \in 0 .. num_process + 1 /\ tot \in 0 .. 2 * num_process

(* What is true or false.                                                  *)
LEMMA FlagStep == Flags /\ [Next]_vars => Flags'
<1> SUFFICES ASSUME Flags, [Next]_vars PROVE Flags'
  OBVIOUS
<1> USE DEF Flags, opts, loopVars, listVars, envVars
<1>1. ASSUME StartFirst PROVE Flags'
  BY <1>1 DEF StartFirst
<1>2. ASSUME CheckLoad PROVE Flags'
  <2>1. waiting' \in BOOLEAN
    <3> DEFINE w == queue > 0
    <3>1. w \in BOOLEAN
      OBVIOUS
    <3>2. waiting' = w \/ waiting' = FALSE
      BY <1>2 DEF CheckLoad
    <3> HIDE DEF w
    <3>3. QED
      BY <3>1, <3>2
  <2>2. QED
    BY <1>2, <2>1 DEF CheckLoad
<1>3. ASSUME SkipLoad PROVE Flags'
  BY <1>3 DEF SkipLoad
<1>4. ASSUME CheckMod PROVE Flags'
  BY <1>4 DEF CheckMod
<1>5. ASSUME EnterProcessup PROVE Flags'
  BY <1>5 DEF EnterProcessup
<1>6. ASSUME ProcessupSlot PROVE Flags'
  BY <1>6 DEF ProcessupSlot
<1>7. ASSUME StopSlot PROVE Flags'
  BY <1>7 DEF StopSlot
<1>8. ASSUME CheckShm PROVE Flags'
  <2>1. temp_no_restart' \in BOOLEAN
    BY <1>8 DEF CheckShm
  <2>2. QED
    BY <1>8, <2>1 DEF CheckShm
<1>9. ASSUME Answer PROVE Flags'
  BY <1>9 DEF Answer
<1>10. ASSUME Exit PROVE Flags'
  BY <1>10 DEF Exit, ParentEnds
<1>11. ASSUME Killed PROVE Flags'
  BY <1>11 DEF Killed, ParentEnds
<1>12. ASSUME Restart PROVE Flags'
  BY <1>12 DEF Restart
<1>13. ASSUME NEW p \in Procs, ProcessStep(p) PROVE Flags'
  BY <1>13 DEF ProcessStep
<1>14. ASSUME NEW p \in Procs, Accept(p) PROVE Flags'
  BY <1>14 DEF Accept
<1>15. ASSUME NEW p \in Procs, Crash(p) PROVE Flags'
  BY <1>15 DEF Crash
<1>16. ASSUME AcceptLast PROVE Flags'
  BY <1>16 DEF AcceptLast
<1>17. ASSUME Connect PROVE Flags'
  BY <1>17 DEF Connect
<1>18. ASSUME StartBuild PROVE Flags'
  BY <1>18 DEF StartBuild
<1>19. ASSUME EndBuild PROVE Flags'
  BY <1>19 DEF EndBuild
<1>20. ASSUME NEW c \in Commands, Send(c) PROVE Flags'
  BY <1>20 DEF Send
<1>21. CASE UNCHANGED vars
  BY <1>21 DEF vars
<1>22. QED
  BY <1>1, <1>2, <1>3, <1>4, <1>5, <1>6, <1>7, <1>8, <1>9, <1>10, <1>11,
     <1>12, <1>13, <1>14, <1>15, <1>16, <1>17, <1>18, <1>19, <1>20, <1>21 DEF Next, Manager

(* The options stay, and what is counted stays within its bounds.          *)
LEMMA ScalarStep == Scalars /\ [Next]_vars => Scalars'
<1> SUFFICES ASSUME Scalars, [Next]_vars PROVE Scalars'
  OBVIOUS
<1> USE VfAssumption DEF Scalars, Options, opts, loopVars, listVars, envVars
<1>1. ASSUME StartFirst PROVE Scalars'
  <2>1. commtime' \in Nat \cup {NONE}
    BY <1>1 DEF StartFirst, StartChild
  <2>2. QED
    BY <1>1, <2>1 DEF StartFirst
<1>2. ASSUME CheckLoad PROVE Scalars'
  <2>1. checks' \in 0 .. 2
    BY <1>2 DEF CheckLoad
  <2>2. nspike' \in {0, nspike, SpikeAfter}
    BY <1>2 DEF CheckLoad
  <2>3. nspike' \in 0 .. SpikeLimit - 1
    BY <2>2 DEF SpikeAfter
  <2>4. QED
    BY <1>2, <2>1, <2>3 DEF CheckLoad
<1>3. ASSUME SkipLoad PROVE Scalars'
  BY <1>3 DEF SkipLoad
<1>4. ASSUME CheckMod PROVE Scalars'
  BY <1>4 DEF CheckMod
<1>5. ASSUME EnterProcessup PROVE Scalars'
  BY <1>5 DEF EnterProcessup
<1>6. ASSUME ProcessupSlot PROVE Scalars'
  <2>1. commtime' \in Nat \cup {NONE}
    BY <1>6 DEF ProcessupSlot, StartChild
  <2>2. QED
    BY <1>6, <2>1 DEF ProcessupSlot
<1>7. ASSUME StopSlot PROVE Scalars'
  <2>1. strays' \in 0 .. MaxStrays
    BY <1>7 DEF StopSlot, Sigterm
  <2>2. QED
    BY <1>7, <2>1 DEF StopSlot
<1>8. ASSUME CheckShm PROVE Scalars'
  BY <1>8 DEF CheckShm
<1>9. ASSUME Answer PROVE Scalars'
  BY <1>9 DEF Answer
<1>10. ASSUME Exit PROVE Scalars'
  BY <1>10 DEF Exit, ParentEnds
<1>11. ASSUME Killed PROVE Scalars'
  BY <1>11 DEF Killed, ParentEnds
<1>12. ASSUME Restart PROVE Scalars'
  BY <1>12 DEF Restart
<1>13. ASSUME NEW p \in Procs, ProcessStep(p) PROVE Scalars'
  BY <1>13 DEF ProcessStep
<1>14. ASSUME NEW p \in Procs, Accept(p) PROVE Scalars'
  BY <1>14 DEF Accept
<1>15. ASSUME NEW p \in Procs, Crash(p) PROVE Scalars'
  BY <1>15 DEF Crash
<1>16. ASSUME AcceptLast PROVE Scalars'
  BY <1>16 DEF AcceptLast
<1>17. ASSUME Connect PROVE Scalars'
  BY <1>17 DEF Connect
<1>18. ASSUME StartBuild PROVE Scalars'
  BY <1>18 DEF StartBuild
<1>19. ASSUME EndBuild PROVE Scalars'
  BY <1>19 DEF EndBuild
<1>20. ASSUME NEW c \in Commands, Send(c) PROVE Scalars'
  BY <1>20 DEF Send
<1>21. CASE UNCHANGED vars
  BY <1>21 DEF vars
<1>22. QED
  BY <1>1, <1>2, <1>3, <1>4, <1>5, <1>6, <1>7, <1>8, <1>9, <1>10, <1>11,
     <1>12, <1>13, <1>14, <1>15, <1>16, <1>17, <1>18, <1>19, <1>20, <1>21 DEF Next, Manager

(* totprocess(): the pruned list, and how many there are.                  *)
LEMMA ListedFacts ==
  ASSUME NEW pl \in List
  PROVE  /\ Pruned(pl) \in List
         /\ Listed(pl) \in 0 .. num_process
         /\ IsFiniteSet({i \in Slots : pl[i] # NONE})
<1>1. IsFiniteSet(Slots) /\ Cardinality(Slots) = num_process
  BY VfAssumption, FS_Interval DEF Slots
<1>2. PICK S : S = {i \in Slots : pl[i] # NONE}
  OBVIOUS
<1>3. S \in SUBSET Slots
  BY <1>2
<1>4. IsFiniteSet(S) /\ Cardinality(S) <= num_process /\ Cardinality(S) \in Nat
  BY <1>1, <1>3, FS_Subset, FS_CardinalityType
<1>5. Pruned(pl) \in List
  BY DEF Pruned, List
<1>6. QED
  BY <1>2, <1>4, <1>5, VfAssumption DEF Listed

(* A new job keeps what is said of jobs.                                   *)
LEMMA NewJobInv ==
  ASSUME NEW j, NewJob(j), Head(j) # "init"
  PROVE  JobInv'
BY VfAssumption DEF NewJob, JobInv

(* A sequence of two or three routines is its elements.                    *)
LEMMA Elements ==
  ASSUME NEW s \in Seq(Routines)
  PROVE  /\ Len(s) = 1 => s = <<s[1]>>
         /\ Len(s) = 2 => s = <<s[1], s[2]>>
         /\ Len(s) = 3 => s = <<s[1], s[2], s[3]>>
OBVIOUS

(* A routine before two others.                                            *)
LEMMA Preceded ==
  ASSUME NEW a \in Routines, NEW b \in Routines, NEW c \in Routines
  PROVE  <<a>> \o <<b, c>> = <<a, b, c>>
<1>1. PICK u : u = <<a>>
  OBVIOUS
<1>2. u \in Seq(Routines) /\ Len(u) = 1 /\ u[1] = a
  BY <1>1
<1>3. PICK v : v = <<b, c>>
  OBVIOUS
<1>4. v \in Seq(Routines) /\ Len(v) = 2 /\ v[1] = b /\ v[2] = c
  BY <1>3
<1>5. PICK s : s = u \o v
  OBVIOUS
<1>6. /\ u \o v \in Seq(Routines)
      /\ Len(u \o v) = Len(u) + Len(v)
      /\ \A i \in 1 .. Len(u) + Len(v) :
             (u \o v)[i] = IF i <= Len(u) THEN u[i] ELSE v[i - Len(u)]
  BY <1>2, <1>4, ConcatProperties
<1>7. s \in Seq(Routines) /\ Len(s) = 3
  BY <1>2, <1>4, <1>5, <1>6
<1>8. \A i \in 1 .. 3 : s[i] = IF i <= 1 THEN u[i] ELSE v[i - 1]
  BY <1>2, <1>4, <1>5, <1>6
<1>9. s[1] = a /\ s[2] = b /\ s[3] = c
  BY <1>2, <1>4, <1>8
<1>10. QED
  BY <1>1, <1>3, <1>5, <1>7, <1>9, Elements

(* The job after the load of a turn was looked at.                         *)
LEMMA LoadJob ==
  ASSUME NEW grow \in BOOLEAN, NEW shrink \in BOOLEAN, ~(grow /\ shrink), NEW j,
         j = (IF grow THEN <<"up1">> ELSE <<>>) \o
             (IF shrink THEN <<"stopone">> ELSE <<>>) \o <<"up0", "mod">>
  PROVE  j = IF grow THEN <<"up1", "up0", "mod">>
             ELSE IF shrink THEN <<"stopone", "up0", "mod">> ELSE <<"up0", "mod">>
<1>1. /\ "up0" \in Routines /\ "up1" \in Routines /\ "mod" \in Routines
      /\ "stopone" \in Routines
  BY DEF Routines
<1>2. /\ <<"up1">> \in Seq(Routines) /\ <<"stopone">> \in Seq(Routines)
      /\ <<"up0", "mod">> \in Seq(Routines) /\ <<>> \in Seq(Routines)
  BY <1>1
<1>3. CASE grow /\ ~shrink
  <2>1. j = (<<"up1">> \o <<>>) \o <<"up0", "mod">>
    BY <1>3
  <2>2. <<"up1">> \o <<>> = <<"up1">>
    BY <1>2, ConcatEmptySeq
  <2>3. <<"up1">> \o <<"up0", "mod">> = <<"up1", "up0", "mod">>
    BY <1>1, Preceded
  <2>4. j = <<"up1", "up0", "mod">>
    BY <2>1, <2>2, <2>3, Zenon
  <2>5. QED
    BY <1>3, <2>4
<1>4. CASE ~grow /\ shrink
  <2>1. j = (<<>> \o <<"stopone">>) \o <<"up0", "mod">>
    BY <1>4
  <2>2. <<>> \o <<"stopone">> = <<"stopone">>
    BY <1>2, ConcatEmptySeq
  <2>3. <<"stopone">> \o <<"up0", "mod">> = <<"stopone", "up0", "mod">>
    BY <1>1, Preceded
  <2>4. j = <<"stopone", "up0", "mod">>
    BY <2>1, <2>2, <2>3, Zenon
  <2>5. QED
    BY <1>4, <2>4
<1>5. CASE ~grow /\ ~shrink
  <2>1. j = (<<>> \o <<>>) \o <<"up0", "mod">>
    BY <1>5
  <2>2. <<>> \o <<>> = <<>> /\ <<>> \o <<"up0", "mod">> = <<"up0", "mod">>
    BY <1>2, ConcatEmptySeq
  <2>3. j = <<"up0", "mod">>
    BY <2>1, <2>2, Zenon
  <2>4. QED
    BY <1>5, <2>3
<1>6. QED
  BY <1>3, <1>4, <1>5

(* What CheckLoad goes on with.                                            *)
LEMMA CheckLoadJob ==
  ASSUME Scalars, JobInv, CheckLoad
  PROVE  /\ slot = 0 /\ slot' = 0 /\ UNCHANGED tot
         /\ \/ job' = job
            \/ job' \in ForLoad /\ (Head(job') = "up1" => RoomToGrow)
<1> DEFINE w == queue > 0
           grow == w /\ RoomToGrow
           shrink == ~w /\ nspike + 1 >= SpikeLimit /\ totprocess > num_to_start_min
<1>1. slot = 0 /\ slot' = 0 /\ UNCHANGED tot
  BY DEF CheckLoad, In, JobInv, Loops
<1>2. \/ job' = job
      \/ job' = <<"up0", "mod">>
      \/ job' = (IF grow THEN <<"up1">> ELSE <<>>) \o
                (IF shrink THEN <<"stopone">> ELSE <<>>) \o <<"up0", "mod">>
  BY DEF CheckLoad
<1>3. grow \in BOOLEAN /\ shrink \in BOOLEAN /\ ~(grow /\ shrink) /\ (grow => RoomToGrow)
  OBVIOUS
<1> HIDE DEF grow, shrink
<1>4. \/ job' = job
      \/ job' = <<"up0", "mod">>
      \/ job' = IF grow THEN <<"up1", "up0", "mod">>
                ELSE IF shrink THEN <<"stopone", "up0", "mod">> ELSE <<"up0", "mod">>
  BY <1>2, <1>3, LoadJob
<1>5. QED
  BY <1>1, <1>3, <1>4 DEF ForLoad

(* What vf may be in the middle of.                                        *)
LEMMA JobStep == Scalars /\ Tables /\ Counters /\ JobInv /\ [Next]_vars => JobInv' /\ Counters'
<1> SUFFICES ASSUME Scalars, Tables, Counters, JobInv, [Next]_vars PROVE JobInv' /\ Counters'
  OBVIOUS
<1> USE VfAssumption DEF opts, loopVars, listVars, envVars
<1>1. ASSUME StartFirst PROVE JobInv' /\ Counters'
  <2>1. job \in Jobs /\ Head(job) = "init" /\ slot \in 1 .. num_process + 1 /\ UNCHANGED tot
    BY <1>1 DEF StartFirst, In, JobInv, Counters
  <2>2. \/ job' = job /\ slot <= num_process /\ slot' = slot + 1
        \/ job' = <<"load">> /\ slot' = 0
    BY <1>1, <2>1 DEF StartFirst, Scalars
  <2>3. QED
    BY <2>1, <2>2 DEF JobInv, Counters, Jobs, Loops
<1>2. ASSUME CheckLoad PROVE JobInv' /\ Counters'
  <2>1. /\ slot = 0 /\ slot' = 0 /\ UNCHANGED tot
        /\ job' = job \/ job' \in ForLoad
    BY <1>2, CheckLoadJob
  <2>2. CASE job' = job
    BY <2>1, <2>2 DEF JobInv, Counters
  <2>3. CASE job' \in ForLoad
    <3>1. NewJob(job') /\ Head(job') # "init"
      BY <2>1, <2>3 DEF NewJob, ForLoad, Jobs
    <3>2. QED
      BY <2>1, <3>1, NewJobInv DEF Counters
  <2>4. QED
    BY <2>1, <2>2, <2>3
<1>3. ASSUME SkipLoad PROVE JobInv' /\ Counters'
  <2>1. slot = 0 /\ slot' = 0 /\ UNCHANGED tot
    BY <1>3 DEF SkipLoad, In, JobInv, Loops
  <2>2. job' \in {<<"mod">>}
    BY <1>3 DEF SkipLoad
  <2>3. NewJob(job') /\ Head(job') # "init"
    BY <2>1, <2>2 DEF NewJob, Jobs
  <2>4. QED
    BY <2>1, <2>3, NewJobInv DEF Counters
<1>4. ASSUME CheckMod PROVE JobInv' /\ Counters'
  <2>1. slot = 0 /\ slot' = 0 /\ UNCHANGED tot
    BY <1>4 DEF CheckMod, In, JobInv, Loops
  <2>2. job' \in {<<"shm">>, <<"stop", "up0", "shm">>, <<"up0", "shm">>}
    BY <1>4 DEF CheckMod
  <2>3. NewJob(job') /\ Head(job') # "init"
    BY <2>1, <2>2 DEF NewJob, Jobs
  <2>4. QED
    BY <2>1, <2>3, NewJobInv DEF Counters
<1>5. ASSUME EnterProcessup PROVE JobInv' /\ Counters'
  <2>1. UNCHANGED job /\ slot' = 1 /\ Head(job) \in {"up0", "up1"}
    BY <1>5 DEF EnterProcessup, In
  <2>2. tot' \in 0 .. num_process
    <3>1. Pruned(plist) \in List
      BY ListedFacts DEF Tables
    <3>2. totprocess \in 0 .. num_process
      BY <3>1, ListedFacts DEF totprocess
    <3>3. QED
      BY <1>5, <3>2 DEF EnterProcessup
  <2>3. QED
    BY <2>1, <2>2 DEF JobInv, Counters, Loops
<1>6. ASSUME ProcessupSlot PROVE JobInv' /\ Counters'
  <2>1. /\ Head(job) \in {"up0", "up1"} /\ slot \in 1 .. num_process
        /\ Head(job) \in Loops /\ tot < num_process + slot
    BY <1>6 DEF ProcessupSlot, In, JobInv, Counters, Loops
  <2>2. (Continue \/ Return) /\ tot' \in {tot, tot + 1}
    BY <1>6 DEF ProcessupSlot
  <2>3. CASE job' = job /\ slot < num_process /\ slot' = slot + 1
    BY <2>1, <2>2, <2>3 DEF JobInv, Counters
  <2>4. CASE NewJob(Tail(job)) /\ Head(job') \in {"up0", "mod", "shm", "done", "norestart", "exit"}
    <3>1. JobInv' /\ slot' = 0
      BY <2>4, NewJobInv DEF NewJob
    <3>2. QED
      BY <2>1, <2>2, <3>1 DEF Counters
  <2>5. QED
    BY <2>1, <2>2, <2>3, <2>4, LoopFacts
<1>7. ASSUME StopSlot PROVE JobInv' /\ Counters'
  <2>1. Head(job) \in {"stop", "stopone"} /\ Head(job) \in Loops /\ UNCHANGED tot
    BY <1>7 DEF StopSlot, In, Loops
  <2>2. Continue \/ Return
    BY <1>7 DEF StopSlot
  <2>3. CASE job' = job /\ slot < num_process /\ slot' = slot + 1
    BY <2>1, <2>3 DEF JobInv, Counters
  <2>4. CASE NewJob(Tail(job)) /\ Head(job') \in {"up0", "mod", "shm", "done", "norestart", "exit"}
    <3>1. JobInv' /\ slot' = 0
      BY <2>4, NewJobInv DEF NewJob
    <3>2. QED
      BY <2>1, <3>1 DEF Counters
  <2>5. QED
    BY <2>1, <2>2, <2>3, <2>4, LoopFacts
<1>8. ASSUME CheckShm PROVE JobInv' /\ Counters'
  <2>1. slot = 0 /\ slot' = 0 /\ UNCHANGED tot
    BY <1>8 DEF CheckShm, In, JobInv, Loops
  <2>2. job' \in {<<"stop", "up0", "done">>, <<"up0", "done">>, <<"done">>,
             <<"stop", "norestart">>, <<"stop", "exit">>, <<"load">>}
    BY <1>8 DEF CheckShm
  <2>3. NewJob(job') /\ Head(job') # "init"
    BY <2>1, <2>2 DEF NewJob, Jobs
  <2>4. QED
    BY <2>1, <2>3, NewJobInv DEF Counters
<1>9. ASSUME Answer PROVE JobInv' /\ Counters'
  <2>1. slot = 0 /\ slot' = 0 /\ UNCHANGED tot
    BY <1>9 DEF Answer, In, JobInv, Loops
  <2>2. job' \in {<<"load">>}
    BY <1>9 DEF Answer
  <2>3. NewJob(job') /\ Head(job') # "init"
    BY <2>1, <2>2 DEF NewJob, Jobs
  <2>4. QED
    BY <2>1, <2>3, NewJobInv DEF Counters
<1>10. ASSUME Exit PROVE JobInv' /\ Counters'
  <2>1. UNCHANGED <<job, slot, tot>>
    BY <1>10 DEF Exit, ParentEnds
  <2>2. QED
    BY <2>1 DEF JobInv, Counters
<1>11. ASSUME Killed PROVE JobInv' /\ Counters'
  <2>1. UNCHANGED <<job, slot, tot>>
    BY <1>11 DEF Killed, ParentEnds
  <2>2. QED
    BY <2>1 DEF JobInv, Counters
<1>12. ASSUME Restart PROVE JobInv' /\ Counters'
  <2>1. job' = <<"init">> /\ slot' = 1 /\ tot' = 0
    BY <1>12 DEF Restart
  <2>2. QED
    BY <2>1 DEF JobInv, Counters, Jobs, Loops
<1>13. ASSUME NEW p \in Procs, ProcessStep(p) PROVE JobInv' /\ Counters'
  <2>1. UNCHANGED <<job, slot, tot>>
    BY <1>13 DEF ProcessStep
  <2>2. QED
    BY <2>1 DEF JobInv, Counters
<1>14. ASSUME NEW p \in Procs, Accept(p) PROVE JobInv' /\ Counters'
  <2>1. UNCHANGED <<job, slot, tot>>
    BY <1>14 DEF Accept
  <2>2. QED
    BY <2>1 DEF JobInv, Counters
<1>15. ASSUME NEW p \in Procs, Crash(p) PROVE JobInv' /\ Counters'
  <2>1. UNCHANGED <<job, slot, tot>>
    BY <1>15 DEF Crash
  <2>2. QED
    BY <2>1 DEF JobInv, Counters
<1>16. ASSUME AcceptLast PROVE JobInv' /\ Counters'
  <2>1. UNCHANGED <<job, slot, tot>>
    BY <1>16 DEF AcceptLast
  <2>2. QED
    BY <2>1 DEF JobInv, Counters
<1>17. ASSUME Connect PROVE JobInv' /\ Counters'
  <2>1. UNCHANGED <<job, slot, tot>>
    BY <1>17 DEF Connect
  <2>2. QED
    BY <2>1 DEF JobInv, Counters
<1>18. ASSUME StartBuild PROVE JobInv' /\ Counters'
  <2>1. UNCHANGED <<job, slot, tot>>
    BY <1>18 DEF StartBuild
  <2>2. QED
    BY <2>1 DEF JobInv, Counters
<1>19. ASSUME EndBuild PROVE JobInv' /\ Counters'
  <2>1. UNCHANGED <<job, slot, tot>>
    BY <1>19 DEF EndBuild
  <2>2. QED
    BY <2>1 DEF JobInv, Counters
<1>20. ASSUME NEW c \in Commands, Send(c) PROVE JobInv' /\ Counters'
  <2>1. UNCHANGED <<job, slot, tot>>
    BY <1>20 DEF Send
  <2>2. QED
    BY <2>1 DEF JobInv, Counters
<1>21. CASE UNCHANGED vars
  BY <1>21 DEF vars, JobInv, Counters
<1>22. QED
  BY <1>1, <1>2, <1>3, <1>4, <1>5, <1>6, <1>7, <1>8, <1>9, <1>10, <1>11,
     <1>12, <1>13, <1>14, <1>15, <1>16, <1>17, <1>18, <1>19, <1>20, <1>21 DEF Next, Manager

-----------------------------------------------------------------------------
(* The steps, by what they do to plist and the processes                   *)

\* Slots are emptied, of processes that do not work any more.
Emptied ==
    /\ vf' = vf /\ Onward
    /\ plist' \in List
    /\ \A i \in Slots : \/ plist'[i] = plist[i]
                        \/ plist'[i] = NONE /\ \A p \in Procs : plist[i] = p => ~Working(p)'

\* A new process in a slot that had none.
Filled(i, p) ==
    /\ vf = "up" /\ vf' = "up" /\ Forked(p)
    /\ plist' \in List /\ plist'[i] = p
    /\ \A j \in Slots \ {i} : plist'[j] = plist[j] /\ plist[j] # p
    /\ plist[i] # NONE => Down(plist[i])

\* The step is of a worker, of a client or of a build.
Aside == UNCHANGED <<vf, job, slot, tot, plist>> /\ Onward

\* vf decides what to do next.
Decided ==
    /\ vf = "up" /\ vf' = "up" /\ UNCHANGED proc
    /\ plist' \in {plist, Pruned(plist)}
    /\ NewJob(job') /\ Head(job') # "init"
    /\ Head(job') = "up1" => RoomToGrow

(* Every step is one of these.                                             *)
LEMMA Kinds ==
  ASSUME Scalars, Tables, JobInv, OrphanInv, [Next]_vars
  PROVE  \/ Aside \/ Decided \/ StartFirst \/ EnterProcessup \/ ProcessupSlot
         \/ StopSlot \/ ParentEnds \/ Restart
<1> USE DEF opts, loopVars, listVars, envVars
<1>1. proc \in [Procs -> AProcess] /\ exe \in Nat
  BY DEF Tables, Scalars
<1>2. ASSUME UNCHANGED <<vf, job, slot, tot, plist, proc>> PROVE Aside
  BY <1>1, <1>2, StillOnward DEF Aside
<1>3. ASSUME CheckLoad PROVE Decided
  <2>1. /\ slot = 0 /\ slot' = 0
        /\ \/ job' = job
           \/ job' \in ForLoad /\ (Head(job') = "up1" => RoomToGrow)
    BY <1>3, CheckLoadJob
  <2>2. vf = "up" /\ Head(job) = "load" /\ UNCHANGED <<vf, proc>>
    BY <1>3 DEF CheckLoad, In
  <2>3. plist' \in {plist, Pruned(plist)}
    BY <1>3 DEF CheckLoad
  <2>4. CASE job' = job
    BY <2>1, <2>2, <2>3, <2>4 DEF Decided, NewJob, JobInv
  <2>5. CASE job' \in ForLoad /\ (Head(job') = "up1" => RoomToGrow)
    <3>1. job' \in Jobs /\ Head(job') # "init"
      BY <2>5 DEF ForLoad, Jobs
    <3>2. QED
      BY <2>1, <2>2, <2>3, <2>5, <3>1 DEF Decided, NewJob
  <2>6. QED
    BY <2>1, <2>4, <2>5
<1>4. ASSUME SkipLoad \/ CheckMod \/ CheckShm \/ Answer PROVE Decided
  <2>1. slot = 0 /\ slot' = 0
    BY <1>4 DEF SkipLoad, CheckMod, CheckShm, Answer, In, JobInv, Loops
  <2>2. vf = "up" /\ UNCHANGED <<vf, proc, plist>>
    BY <1>4 DEF SkipLoad, CheckMod, CheckShm, Answer, In
  <2>3. job' \in {<<"mod">>, <<"shm">>, <<"stop", "up0", "shm">>, <<"up0", "shm">>, <<"load">>,
                  <<"stop", "up0", "done">>, <<"up0", "done">>, <<"done">>,
                  <<"stop", "norestart">>, <<"stop", "exit">>}
    BY <1>4 DEF SkipLoad, CheckMod, CheckShm, Answer
  <2>4. job' \in Jobs /\ Head(job') \notin {"init", "up1"}
    BY <2>3 DEF Jobs
  <2>5. QED
    BY <2>1, <2>2, <2>4 DEF Decided, NewJob
<1>5. ASSUME NEW p \in Procs, ProcessStep(p) \/ Accept(p) \/ Crash(p) PROVE Aside
  <2>1. Onward
    BY <1>1, <1>5, ProcessOnward
  <2>2. UNCHANGED <<vf, job, slot, tot, plist>>
    BY <1>5 DEF ProcessStep, Accept, Crash
  <2>3. QED
    BY <2>1, <2>2 DEF Aside
<1>6. ASSUME AcceptLast \/ Connect \/ StartBuild \/ EndBuild PROVE Aside
  BY <1>2, <1>6 DEF AcceptLast, Connect, StartBuild, EndBuild
<1>7. ASSUME NEW c \in Commands, Send(c) PROVE Aside
  BY <1>2, <1>7 DEF Send
<1>8. CASE UNCHANGED vars
  BY <1>2, <1>8 DEF vars
<1>9. QED
  BY <1>3, <1>4, <1>5, <1>6, <1>7, <1>8 DEF Next, Manager, Exit, Killed

(* Nothing is lost when plist is pruned.                                   *)
LEMMA PrunedFacts ==
  ASSUME Tables, OrphanInv, UNCHANGED <<vf, proc>>, plist' \in {plist, Pruned(plist)}
  PROVE  Emptied
<1>1. Onward
  BY StillOnward DEF Tables
<1>2. plist' \in List
  BY ListedFacts DEF Tables
<1>3. ASSUME NEW i \in Slots
      PROVE  \/ plist'[i] = plist[i]
             \/ plist'[i] = NONE /\ \A p \in Procs : plist[i] = p => ~Working(p)'
  BY <1>3, VfAssumption DEF Pruned, Down, Working, Live
<1>4. QED
  BY <1>1, <1>2, <1>3 DEF Emptied

(* A worker is started, or the slot is left empty.                         *)
LEMMA StartFacts ==
  ASSUME Tables, OrphanInv, vf = "up", vf' = "up", NEW i \in Slots, NEW pl \in List,
         StartChild(pl, i),
         plist[i] # NONE => Down(plist[i]),
         pl[i] = NONE, \A j \in Slots \ {i} : pl[j] = plist[j]
  PROVE  Emptied \/ \E p \in Procs : Filled(i, p)
<1>1. proc \in [Procs -> AProcess]
  BY DEF Tables
<1>2. CASE plist' = pl /\ UNCHANGED proc
  <2>1. Onward
    BY <1>1, <1>2, StillOnward
  <2>2. \A p \in Procs : plist[i] = p => ~Working(p)'
    BY <1>2, VfAssumption DEF Working, Live, Down
  <2>3. QED
    BY <1>2, <2>1, <2>2 DEF Emptied
<1>3. CASE \E p \in Procs : /\ Forked(p)
                            /\ plist' \in List
                            /\ plist'[i] = p
                            /\ \A j \in Slots \ {i} : plist'[j] = pl[j]
                            /\ \A j \in Slots : pl[j] # p
  BY <1>3 DEF Filled
<1>4. QED
  BY <1>1, <1>2, <1>3, StartChildFacts

(* The first workers.                                                      *)
LEMMA StartFirstFacts ==
  ASSUME Scalars, Tables, Counters, JobInv, OrphanInv, ListInv, StartFirst
  PROVE  /\ vf = "up" /\ vf' = "up" /\ Head(job) = "init"
         /\ \/ /\ Emptied \/ \E p \in Procs : Filled(slot, p)
               /\ slot \in Slots /\ slot <= num_to_start_min
               /\ job' = job /\ slot' = slot + 1
            \/ Emptied /\ job' = <<"load">> /\ slot' = 0
<1> USE DEF opts, envVars
<1>1. vf = "up" /\ vf' = "up" /\ Head(job) = "init" /\ slot >= 1
  BY DEF StartFirst, In, JobInv
<1>2. CASE slot <= num_to_start_min
  <2>1. slot \in Slots
    BY <1>1, <1>2, VfAssumption DEF Slots, Scalars, Counters
  <2>2. plist[slot] = NONE
    BY <1>1, <2>1, VfAssumption DEF ListInv, Slots
  <2>3. StartChild(plist, slot) /\ job' = job /\ slot' = slot + 1
    BY <1>2 DEF StartFirst
  <2>4. plist \in List
    BY DEF Tables
  <2>5. Emptied \/ \E p \in Procs : Filled(slot, p)
    BY <1>1, <2>1, <2>2, <2>3, <2>4, StartFacts
  <2>6. QED
    BY <1>1, <1>2, <2>1, <2>3, <2>5
<1>3. CASE ~(slot <= num_to_start_min)
  <2>1. job' = <<"load">> /\ slot' = 0 /\ UNCHANGED <<plist, proc>>
    BY <1>3 DEF StartFirst
  <2>2. Emptied
    BY <1>1, <2>1, PrunedFacts
  <2>3. QED
    BY <1>1, <2>1, <2>2
<1>4. QED
  BY <1>2, <1>3

(* A slot of processup: one worker at most, where one is wanted.           *)
LEMMA ProcessupFacts ==
  ASSUME Scalars, Tables, Counters, JobInv, OrphanInv, ProcessupSlot
  PROVE  /\ vf = "up" /\ vf' = "up" /\ Head(job) \in {"up0", "up1"} /\ slot \in Slots
         /\ Continue \/ Return
         /\ \/ Emptied /\ tot' \in {tot, tot + 1}
            \/ /\ \E p \in Procs : Filled(slot, p)
               /\ tot' = tot + 1
               /\ NeedsOne(Head(job) = "up1")
               /\ Head(job) = "up1" => Return
<1> DEFINE addone == Head(job) = "up1"
           empty == plist[slot] = NONE \/ Down(plist[slot])
<1> USE DEF opts, envVars
<1>1. /\ vf = "up" /\ vf' = "up" /\ Head(job) \in {"up0", "up1"} /\ slot \in Slots
      /\ Continue \/ Return
  BY VfAssumption DEF ProcessupSlot, In, JobInv, Loops, Counters, Slots
<1>2. PICK pl : pl = [plist EXCEPT ![slot] = NONE]
  OBVIOUS
<1>3. pl \in List /\ pl[slot] = NONE /\ \A j \in Slots \ {slot} : pl[j] = plist[j]
  BY <1>1, <1>2 DEF Tables, List
<1>4. CASE empty /\ NeedsOne(addone)
  <2>1. StartChild(pl, slot) /\ tot' = tot + 1 /\ (addone => Return)
    BY <1>2, <1>4 DEF ProcessupSlot
  <2>2. plist[slot] # NONE => Down(plist[slot])
    BY <1>4
  <2>3. Emptied \/ \E p \in Procs : Filled(slot, p)
    BY <1>1, <1>3, <2>1, <2>2, StartFacts
  <2>4. QED
    BY <1>1, <1>4, <2>1, <2>3
<1>5. CASE ~(empty /\ NeedsOne(addone))
  <2>1. /\ plist' = IF empty THEN pl ELSE plist
        /\ UNCHANGED <<tot, proc>>
    BY <1>2, <1>5 DEF ProcessupSlot
  <2>2. Onward
    BY <2>1, StillOnward DEF Tables
  <2>3. empty => \A p \in Procs : plist[slot] = p => ~Working(p)'
    BY <2>1, VfAssumption DEF Working, Live, Down
  <2>4. plist \in List
    BY DEF Tables
  <2>5. Emptied
    <3>1. CASE empty
      BY <1>1, <1>3, <2>1, <2>2, <2>3, <3>1 DEF Emptied
    <3>2. CASE ~empty
      BY <1>1, <2>1, <2>2, <2>4, <3>2 DEF Emptied
    <3>3. QED
      BY <3>1, <3>2
  <2>6. QED
    BY <1>1, <2>1, <2>5
<1>6. QED
  BY <1>4, <1>5

(* A slot of handlestop: what was there is told to end.                    *)
LEMMA StopFacts ==
  ASSUME Scalars, Tables, Counters, JobInv, OrphanInv, StopSlot
  PROVE  /\ vf = "up" /\ vf' = "up" /\ Head(job) \in {"stop", "stopone"}
         /\ Continue \/ Return
         /\ Emptied
<1> USE DEF opts
<1>1. /\ vf = "up" /\ vf' = "up" /\ Head(job) \in {"stop", "stopone"} /\ slot \in 0 .. num_process
      /\ Continue \/ Return
  BY VfAssumption DEF StopSlot, In, JobInv, Loops, Counters
<1>2. proc \in [Procs -> AProcess] /\ plist \in List
  BY DEF Tables
<1>3. CASE slot > 0 /\ plist[slot] # NONE
  <2>1. slot \in Slots
    BY <1>1, <1>3, VfAssumption DEF Slots
  <2>2. PICK p : p = plist[slot]
    OBVIOUS
  <2>3. p \in Procs
    BY <1>2, <1>3, <2>1, <2>2 DEF List
  <2>4. plist' = [plist EXCEPT ![slot] = NONE]
    BY <1>3 DEF StopSlot
  <2>5. \/ Down(p) /\ UNCHANGED proc
        \/ Sigterm(p)
    BY <1>3, <2>2 DEF StopSlot
  <2>6. Onward /\ ~Working(p)'
    <3>1. CASE Down(p) /\ UNCHANGED proc
      BY <1>2, <3>1, StillOnward DEF Down, Working, Live
    <3>2. CASE Sigterm(p)
      BY <1>2, <2>3, <3>2, SigtermOnward
    <3>3. QED
      BY <2>5, <3>1, <3>2
  <2>7. /\ plist' \in List /\ plist'[slot] = NONE
        /\ \A j \in Slots \ {slot} : plist'[j] = plist[j]
    BY <1>2, <2>1, <2>4 DEF List
  <2>8. \A q \in Procs : plist[slot] = q => ~Working(q)'
    BY <2>2, <2>6
  <2>9. QED
    BY <1>1, <2>6, <2>7, <2>8 DEF Emptied
<1>4. CASE ~(slot > 0 /\ plist[slot] # NONE)
  <2>1. UNCHANGED <<plist, proc>>
    BY <1>4 DEF StopSlot
  <2>2. QED
    BY <1>1, <2>1, PrunedFacts
<1>5. QED
  BY <1>3, <1>4

(* Every step, by what it does to plist and the processes.                 *)
LEMMA ListKinds ==
  ASSUME Scalars, Tables, Counters, JobInv, OrphanInv, ListInv, [Next]_vars
  PROVE  \/ Emptied
         \/ \E i \in Slots, p \in Procs : Filled(i, p)
         \/ ParentEnds
         \/ Restart
<1>1. CASE Aside
  <2>1. plist \in List
    BY DEF Tables
  <2>2. QED
    BY <1>1, <2>1 DEF Aside, Emptied
<1>2. CASE Decided
  BY <1>2, PrunedFacts DEF Decided
<1>3. CASE StartFirst
  BY <1>3, StartFirstFacts
<1>4. CASE EnterProcessup
  <2>1. UNCHANGED <<vf, proc>> /\ plist' \in {plist, Pruned(plist)}
    BY <1>4 DEF EnterProcessup
  <2>2. QED
    BY <2>1, PrunedFacts
<1>5. CASE ProcessupSlot
  BY <1>5, ProcessupFacts
<1>6. CASE StopSlot
  BY <1>6, StopFacts
<1>7. QED
  BY <1>1, <1>2, <1>3, <1>4, <1>5, <1>6, Kinds

-----------------------------------------------------------------------------
(* plist and the processes                                                 *)

(* plist and the table of processes have their types.                      *)
LEMMA TableStep ==
  ASSUME Scalars, Tables, Counters, JobInv, OrphanInv, ListInv, [Next]_vars
  PROVE  Tables'
<1>1. CASE Emptied
  BY <1>1 DEF Emptied, Onward, Tables, List, Slots
<1>2. CASE \E i \in Slots, p \in Procs : Filled(i, p)
  BY <1>2 DEF Filled, Forked, Tables, List, Slots
<1>3. CASE ParentEnds
  <2>1. proc' \in [Procs -> AProcess]
    BY <1>3, ParentEndsFacts DEF Tables
  <2>2. QED
    BY <1>3, <2>1 DEF ParentEnds, Tables, List, Slots, listVars
<1>4. CASE Restart
  BY <1>4 DEF Restart, Tables, List, Slots
<1>5. QED
  BY <1>1, <1>2, <1>3, <1>4, ListKinds

(* An orphan has not looked for its parent yet, and without vf there are   *)
(* only orphans.                                                           *)
LEMMA OrphanStep ==
  ASSUME Scalars, Tables, Counters, JobInv, OrphanInv, ListInv, [Next]_vars
  PROVE  OrphanInv'
<1>1. CASE Emptied
  BY <1>1 DEF Emptied, Onward, OrphanInv
<1>2. ASSUME NEW i \in Slots, NEW p \in Procs, Filled(i, p) PROVE OrphanInv'
  <2>1. vf' = "up" /\ Forked(p)
    BY <1>2 DEF Filled
  <2>2. \A q \in Procs : proc'[q].orphan => proc'[q].at \in {"forked", "armed"}
    BY <2>1 DEF Forked, OrphanInv
  <2>3. QED
    BY <2>1, <2>2 DEF OrphanInv
<1>3. CASE ParentEnds
  <2>1. /\ \A p \in Procs : Live(p)' => Live(p) /\ proc'[p].orphan /\ proc'[p].at = "forked"
        /\ \A p \in Procs : proc'[p].orphan => Live(p)'
    BY <1>3, ParentEndsFacts DEF Tables
  <2>2. QED
    BY <2>1 DEF OrphanInv
<1>4. CASE Restart
  BY <1>4 DEF Restart, OrphanInv
<1>5. QED
  BY <1>1, <1>2, <1>3, <1>4, ListKinds

\* No process is twice in the list.
Injective == \A i, j \in Slots : plist[i] = plist[j] /\ plist[i] # NONE => i = j
\* vf knows its workers.
AllListed == vf = "up" => \A p \in Procs : Working(p) => \E i \in Slots : plist[i] = p
\* Before the loop the slots that are left are empty.
RestEmpty == vf = "up" /\ Head(job) = "init" => \A i \in Slots : i >= slot => plist[i] = NONE

(* The list has every worker once.                                         *)
LEMMA ListStep ==
  ASSUME Scalars, Tables, Counters, JobInv, OrphanInv, ListInv, [Next]_vars
  PROVE  ListInv'
<1>1. Injective /\ AllListed /\ RestEmpty
  BY DEF ListInv, Injective, AllListed, RestEmpty
<1>2. plist \in List /\ proc \in [Procs -> AProcess]
  BY DEF Tables
<1>3. Injective' /\ AllListed'
  <2>1. CASE Emptied
    <3>1. \A i \in Slots : plist'[i] = plist[i] \/ plist'[i] = NONE
      BY <2>1 DEF Emptied
    <3>2. \A p \in Procs : Working(p)' => Working(p)
      BY <2>1 DEF Emptied, Onward
    <3>3. Injective'
      BY <1>1, <3>1 DEF Injective, Slots
    <3>4. ASSUME vf' = "up", NEW p \in Procs, Working(p)'
          PROVE  \E i \in Slots : plist'[i] = p
      <4>1. vf = "up" /\ Working(p)
        BY <2>1, <3>2, <3>4 DEF Emptied
      <4>2. PICK i \in Slots : plist[i] = p
        BY <1>1, <4>1 DEF AllListed
      <4>3. plist'[i] = p
        BY <2>1, <3>4, <4>2 DEF Emptied
      <4>4. QED
        BY <4>3
    <3>5. QED
      BY <3>3, <3>4 DEF AllListed, Slots
  <2>2. ASSUME NEW i \in Slots, NEW p \in Procs, Filled(i, p) PROVE Injective' /\ AllListed'
    <3>1. /\ plist'[i] = p
          /\ \A j \in Slots \ {i} : plist'[j] = plist[j] /\ plist[j] # p
      BY <2>2 DEF Filled
    <3>2. Injective'
      BY <1>1, <3>1 DEF Injective, Slots
    <3>3. ASSUME NEW q \in Procs, Working(q)'
          PROVE  \E j \in Slots : plist'[j] = q
      <4>1. CASE q = p
        BY <3>1, <4>1
      <4>2. CASE q # p
        <5>1. proc'[q] = proc[q]
          BY <2>2, <4>2 DEF Filled, Forked
        <5>2. Working(q)
          BY <3>3, <5>1 DEF Working, Live
        <5>3. PICK j \in Slots : plist[j] = q
          BY <1>1, <2>2, <5>2 DEF AllListed, Filled
        <5>4. j # i
          <6>1. ASSUME j = i PROVE FALSE
            <7>1. Down(q)
              BY <2>2, <5>3, <6>1, VfAssumption DEF Filled
            <7>2. QED
              BY <5>2, <7>1 DEF Working, Live, Down
          <6>2. QED
            BY <6>1
        <5>5. QED
          BY <3>1, <5>3, <5>4
      <4>3. QED
        BY <4>1, <4>2
    <3>4. QED
      BY <3>2, <3>3 DEF AllListed, Slots
  <2>3. CASE ParentEnds
    BY <1>1, <2>3 DEF ParentEnds, listVars, Injective, AllListed, Slots
  <2>4. CASE Restart
    <3>1. \A i \in Slots : plist'[i] = NONE
      BY <2>4 DEF Restart
    <3>2. \A p \in Procs : ~Working(p)'
      BY <2>4 DEF Restart, OrphanInv, Working, Live
    <3>3. QED
      BY <3>1, <3>2 DEF Injective, AllListed, Slots
  <2>5. QED
    BY <2>1, <2>2, <2>3, <2>4, ListKinds
<1>4. RestEmpty'
  <2>1. CASE Aside
    BY <1>1, <2>1 DEF Aside, RestEmpty, Slots
  <2>2. CASE Decided
    BY <2>2 DEF Decided, RestEmpty
  <2>3. CASE StartFirst
    <3>1. CASE job' = <<"load">>
      BY <3>1 DEF RestEmpty
    <3>2. CASE /\ Emptied \/ \E p \in Procs : Filled(slot, p)
               /\ slot \in Slots /\ job' = job /\ slot' = slot + 1
      <4>1. \A j \in Slots : j >= slot => plist[j] = NONE
        BY <1>1, <2>3, StartFirstFacts DEF RestEmpty
      <4>2. \A j \in Slots \ {slot} : plist'[j] = plist[j] \/ plist'[j] = NONE
        BY <3>2 DEF Emptied, Filled
      <4>3. ASSUME NEW j \in Slots, j >= slot' PROVE plist'[j] = NONE
        <5>1. j # slot /\ j >= slot
          BY <3>2, <4>3, VfAssumption DEF Slots
        <5>2. QED
          BY <4>1, <4>2, <5>1
      <4>4. QED
        BY <4>3 DEF RestEmpty, Slots
    <3>3. QED
      BY <2>3, <3>1, <3>2, StartFirstFacts
  <2>4. CASE EnterProcessup
    <3>1. Head(job') # "init"
      BY <2>4 DEF EnterProcessup, In
    <3>2. QED
      BY <3>1 DEF RestEmpty
  <2>5. CASE ProcessupSlot \/ StopSlot
    <3>1. Head(job) \in Loops /\ (Continue \/ Return)
      BY <2>5, ProcessupFacts, StopFacts DEF Loops
    <3>2. Head(job') # "init"
      BY <3>1, LoopFacts, VfAssumption DEF Loops
    <3>3. QED
      BY <3>2 DEF RestEmpty
  <2>6. CASE ParentEnds
    BY <2>6 DEF ParentEnds, RestEmpty
  <2>7. CASE Restart
    BY <2>7 DEF Restart, RestEmpty, Slots
  <2>8. QED
    BY <2>1, <2>2, <2>3, <2>4, <2>5, <2>6, <2>7, Kinds
<1>5. QED
  BY <1>3, <1>4 DEF ListInv, Injective, AllListed, RestEmpty

(* The options of the command line stay.                                   *)
LEMMA OptionsStay == [Next]_vars => opts' = opts
<1> SUFFICES ASSUME [Next]_vars PROVE opts' = opts
  OBVIOUS
<1>1. ASSUME StartFirst PROVE opts' = opts
  BY <1>1 DEF StartFirst
<1>2. ASSUME CheckLoad PROVE opts' = opts
  BY <1>2 DEF CheckLoad
<1>3. ASSUME SkipLoad PROVE opts' = opts
  BY <1>3 DEF SkipLoad
<1>4. ASSUME CheckMod PROVE opts' = opts
  BY <1>4 DEF CheckMod
<1>5. ASSUME EnterProcessup PROVE opts' = opts
  BY <1>5 DEF EnterProcessup
<1>6. ASSUME ProcessupSlot PROVE opts' = opts
  BY <1>6 DEF ProcessupSlot
<1>7. ASSUME StopSlot PROVE opts' = opts
  BY <1>7 DEF StopSlot
<1>8. ASSUME CheckShm PROVE opts' = opts
  BY <1>8 DEF CheckShm
<1>9. ASSUME Answer PROVE opts' = opts
  BY <1>9 DEF Answer
<1>10. ASSUME Exit PROVE opts' = opts
  BY <1>10 DEF Exit, ParentEnds
<1>11. ASSUME Killed PROVE opts' = opts
  BY <1>11 DEF Killed, ParentEnds
<1>12. ASSUME Restart PROVE opts' = opts
  BY <1>12 DEF Restart
<1>13. ASSUME NEW p \in Procs, ProcessStep(p) PROVE opts' = opts
  BY <1>13 DEF ProcessStep
<1>14. ASSUME NEW p \in Procs, Accept(p) PROVE opts' = opts
  BY <1>14 DEF Accept
<1>15. ASSUME NEW p \in Procs, Crash(p) PROVE opts' = opts
  BY <1>15 DEF Crash
<1>16. ASSUME AcceptLast PROVE opts' = opts
  BY <1>16 DEF AcceptLast
<1>17. ASSUME Connect PROVE opts' = opts
  BY <1>17 DEF Connect
<1>18. ASSUME StartBuild PROVE opts' = opts
  BY <1>18 DEF StartBuild
<1>19. ASSUME EndBuild PROVE opts' = opts
  BY <1>19 DEF EndBuild
<1>20. ASSUME NEW c \in Commands, Send(c) PROVE opts' = opts
  BY <1>20 DEF Send
<1>21. CASE UNCHANGED vars
  BY <1>21 DEF vars
<1>22. QED
  BY <1>1, <1>2, <1>3, <1>4, <1>5, <1>6, <1>7, <1>8, <1>9, <1>10, <1>11,
     <1>12, <1>13, <1>14, <1>15, <1>16, <1>17, <1>18, <1>19, <1>20, <1>21 DEF Next, Manager

(* Workers are wanted for a reason that still holds.                       *)
LEMMA PermitStep == Scalars /\ JobInv /\ PermitInv /\ [Next]_vars => PermitInv'
<1> SUFFICES ASSUME Scalars, JobInv, PermitInv, [Next]_vars PROVE PermitInv'
  OBVIOUS
<1> USE VfAssumption DEF opts, loopVars, listVars, envVars
<1>1. ASSUME StartFirst PROVE PermitInv'
  <2>1. job' = job \/ job' = <<"load">>
    BY <1>1 DEF StartFirst
  <2>2. UNCHANGED <<vf, temp_no_restart, command>> /\ adapt' = adapt /\ dnr' = dnr
    BY <1>1 DEF StartFirst
  <2>3. CASE job' = job
    BY <2>2, <2>3 DEF PermitInv
  <2>4. CASE job' = <<"load">>
    BY <2>4 DEF PermitInv, ForLoad, ForDead, ForCommand
  <2>5. QED
    BY <2>1, <2>3, <2>4
<1>2. ASSUME CheckLoad PROVE PermitInv'
  <2>1. UNCHANGED <<vf, temp_no_restart, command>> /\ adapt' = adapt /\ dnr' = dnr
    BY <1>2 DEF CheckLoad
  <2>2. adapt /\ ~temp_no_restart
    BY <1>2 DEF CheckLoad, Managing
  <2>3. CASE job' = job
    BY <2>1, <2>3 DEF PermitInv
  <2>4. CASE job' \in ForLoad
    <3>1. Head(job') # "init" /\ job' \notin ForDead /\ job' \notin ForCommand
      BY <2>4 DEF ForLoad, ForDead, ForCommand
    <3>2. QED
      BY <2>1, <2>2, <3>1 DEF PermitInv
  <2>5. QED
    BY <1>2, <2>3, <2>4, CheckLoadJob
<1>3. ASSUME SkipLoad PROVE PermitInv'
  <2>1. job' = <<"mod">>
    BY <1>3 DEF SkipLoad
  <2>2. QED
    BY <2>1 DEF PermitInv, ForLoad, ForDead, ForCommand
<1>4. ASSUME CheckMod PROVE PermitInv'
  <2>1. UNCHANGED <<vf, temp_no_restart, command>> /\ adapt' = adapt /\ dnr' = dnr
    BY <1>4 DEF CheckMod
  <2>2. \/ job' = <<"shm">>
        \/ /\ job' \in {<<"stop", "up0", "shm">>, <<"up0", "shm">>}
           /\ ~temp_no_restart /\ ~dnr
    BY <1>4 DEF CheckMod
  <2>3. /\ Head(job') # "init" /\ job' \notin ForLoad /\ job' \notin ForCommand
        /\ job' \in ForDead => ~temp_no_restart /\ ~dnr
    BY <2>2 DEF ForLoad, ForDead, ForCommand
  <2>4. QED
    BY <2>1, <2>3 DEF PermitInv
<1>5. ASSUME EnterProcessup PROVE PermitInv'
  BY <1>5 DEF EnterProcessup, PermitInv
<1>6. ASSUME ProcessupSlot PROVE PermitInv'
  <2>1. Head(job) \in Loops /\ (Continue \/ Return)
    BY <1>6 DEF ProcessupSlot, In, Loops
  <2>2. UNCHANGED <<vf, temp_no_restart, command>> /\ adapt' = adapt /\ dnr' = dnr
    BY <1>6 DEF ProcessupSlot
  <2>3. CASE job' = job
    BY <2>2, <2>3 DEF PermitInv
  <2>4. CASE /\ Head(job') # "init"
             /\ job' \in ForLoad => job \in ForLoad
             /\ job' \in ForDead => job \in ForDead
             /\ job' \in ForCommand => job \in ForCommand
    BY <2>2, <2>4 DEF PermitInv
  <2>5. QED
    BY <2>1, <2>3, <2>4, LoopFacts
<1>7. ASSUME StopSlot PROVE PermitInv'
  <2>1. Head(job) \in Loops /\ (Continue \/ Return)
    BY <1>7 DEF StopSlot, In, Loops
  <2>2. UNCHANGED <<vf, temp_no_restart, command>> /\ adapt' = adapt /\ dnr' = dnr
    BY <1>7 DEF StopSlot
  <2>3. CASE job' = job
    BY <2>2, <2>3 DEF PermitInv
  <2>4. CASE /\ Head(job') # "init"
             /\ job' \in ForLoad => job \in ForLoad
             /\ job' \in ForDead => job \in ForDead
             /\ job' \in ForCommand => job \in ForCommand
    BY <2>2, <2>4 DEF PermitInv
  <2>5. QED
    BY <2>1, <2>3, <2>4, LoopFacts
<1>8. ASSUME CheckShm PROVE PermitInv'
  <2>1. UNCHANGED <<vf, command>>
    BY <1>8 DEF CheckShm
  <2>2. \/ job' \in {<<"load">>, <<"done">>, <<"stop", "norestart">>, <<"stop", "exit">>}
        \/ job' \in {<<"stop", "up0", "done">>, <<"up0", "done">>} /\ command \in {"restart", "start"}
    BY <1>8 DEF CheckShm
  <2>3. command \in {"restart", "start"} => ~temp_no_restart' /\ command' # NONE
    <3>1. temp_no_restart' = (temp_no_restart /\ command \notin {"restart", "start"})
      BY <1>8 DEF CheckShm
    <3>2. command \in {"restart", "start"} => command # NONE
      BY DEF Commands
    <3>3. QED
      BY <2>1, <3>1, <3>2
  <2>4. /\ Head(job') # "init" /\ job' \notin ForLoad /\ job' \notin ForDead
        /\ job' \in ForCommand => command \in {"restart", "start"}
    BY <2>2 DEF ForLoad, ForDead, ForCommand
  <2>5. QED
    BY <2>3, <2>4 DEF PermitInv
<1>9. ASSUME Answer PROVE PermitInv'
  <2>1. job' = <<"load">>
    BY <1>9 DEF Answer
  <2>2. QED
    BY <2>1 DEF PermitInv, ForLoad, ForDead, ForCommand
<1>10. ASSUME Exit PROVE PermitInv'
  BY <1>10 DEF Exit, ParentEnds, PermitInv
<1>11. ASSUME Killed PROVE PermitInv'
  BY <1>11 DEF Killed, ParentEnds, PermitInv
<1>12. ASSUME Restart PROVE PermitInv'
  <2>1. job' = <<"init">> /\ ~temp_no_restart'
    BY <1>12 DEF Restart
  <2>2. job' \notin ForLoad /\ job' \notin ForDead /\ job' \notin ForCommand
    BY <2>1 DEF ForLoad, ForDead, ForCommand
  <2>3. QED
    BY <2>1, <2>2 DEF PermitInv
<1>13. ASSUME NEW p \in Procs, ProcessStep(p) PROVE PermitInv'
  BY <1>13 DEF ProcessStep, PermitInv
<1>14. ASSUME NEW p \in Procs, Accept(p) PROVE PermitInv'
  BY <1>14 DEF Accept, PermitInv
<1>15. ASSUME NEW p \in Procs, Crash(p) PROVE PermitInv'
  BY <1>15 DEF Crash, PermitInv
<1>16. ASSUME AcceptLast PROVE PermitInv'
  BY <1>16 DEF AcceptLast, PermitInv
<1>17. ASSUME Connect PROVE PermitInv'
  BY <1>17 DEF Connect, PermitInv
<1>18. ASSUME StartBuild PROVE PermitInv'
  BY <1>18 DEF StartBuild, PermitInv
<1>19. ASSUME EndBuild PROVE PermitInv'
  BY <1>19 DEF EndBuild, PermitInv
<1>20. ASSUME NEW c \in Commands, Send(c) PROVE PermitInv'
  <2>1. UNCHANGED <<vf, job, temp_no_restart>> /\ adapt' = adapt /\ dnr' = dnr /\ command = NONE
    BY <1>20 DEF Send
  <2>2. QED
    BY <2>1 DEF PermitInv
<1>21. CASE UNCHANGED vars
  BY <1>21 DEF vars, PermitInv
<1>22. QED
  BY <1>1, <1>2, <1>3, <1>4, <1>5, <1>6, <1>7, <1>8, <1>9, <1>10, <1>11,
     <1>12, <1>13, <1>14, <1>15, <1>16, <1>17, <1>18, <1>19, <1>20, <1>21 DEF Next, Manager

-----------------------------------------------------------------------------
(* How many workers there are                                              *)

(* A list has at least as many entries as the processes that are in it.    *)
LEMMA Counted ==
  ASSUME NEW pl \in List, NEW W, W \subseteq Procs,
         \A p \in W : \E i \in Slots : pl[i] = p
  PROVE  IsFiniteSet(W) /\ Cardinality(W) \in Nat /\ Cardinality(W) <= Listed(pl)
<1> DEFINE T == {i \in Slots : pl[i] # NONE}
           f == [p \in W |-> CHOOSE i \in Slots : pl[i] = p]
<1>1. IsFiniteSet(T)
  BY ListedFacts
<1>2. ASSUME NEW p \in W PROVE f[p] \in Slots /\ pl[f[p]] = p
  <2>1. \E i \in Slots : pl[i] = p
    OBVIOUS
  <2>2. QED
    BY <2>1
<1>3. \A p \in W : f[p] \in T
  BY <1>2, VfAssumption
<1>4. f \in [W -> T]
  BY <1>3
<1>5. \A p, q \in W : f[p] = f[q] => p = q
  BY <1>2
<1> HIDE DEF f, T
<1>6. f \in Injection(W, T)
  BY <1>4, <1>5 DEF Injection, IsInjective
<1>7. IsFiniteSet(W) /\ Cardinality(W) <= Cardinality(T)
  BY <1>1, <1>6, FS_Injection
<1>8. QED
  BY <1>7, FS_CardinalityType DEF Listed, T

(* There are finitely many workers: those in plist, or none without vf.    *)
LEMMA FewWorkers ==
  ASSUME Scalars, Tables, OrphanInv, ListInv
  PROVE  /\ IsFiniteSet(Workers) /\ Cardinality(Workers) \in Nat
         /\ vf = "down" => Workers = {}
<1>1. CASE vf = "up"
  <2>1. \A p \in Workers : \E i \in Slots : plist[i] = p
    BY <1>1 DEF ListInv, Workers
  <2>2. Workers \subseteq Procs /\ plist \in List
    BY DEF Workers, Tables
  <2>3. QED
    BY <1>1, <2>1, <2>2, Counted
<1>2. CASE vf = "down"
  <2>1. Workers = {}
    BY <1>2 DEF OrphanInv, Workers, Working
  <2>2. QED
    BY <2>1, FS_EmptySet
<1>3. QED
  BY <1>1, <1>2 DEF Scalars

(* totprocess() counts every worker, and maybe others.                     *)
LEMMA TotprocessCounts ==
  ASSUME Tables, ListInv, vf = "up"
  PROVE  Cardinality(Workers) <= totprocess /\ totprocess \in 0 .. num_process
<1>1. Pruned(plist) \in List
  BY ListedFacts DEF Tables
<1>2. ASSUME NEW p \in Workers PROVE \E i \in Slots : Pruned(plist)[i] = p
  <2>1. Working(p) /\ p \in Procs
    BY DEF Workers
  <2>2. PICK i \in Slots : plist[i] = p
    BY <2>1 DEF ListInv
  <2>3. ~Down(plist[i])
    BY <2>1, <2>2 DEF Working, Live, Down
  <2>4. Pruned(plist)[i] = p
    BY <2>2, <2>3 DEF Pruned
  <2>5. QED
    BY <2>4
<1>3. Workers \subseteq Procs
  BY DEF Workers
<1>4. Cardinality(Workers) <= Listed(Pruned(plist))
  BY <1>1, <1>2, <1>3, Counted
<1>5. Listed(Pruned(plist)) \in 0 .. num_process
  BY <1>1, ListedFacts
<1>6. QED
  BY <1>4, <1>5 DEF totprocess

(* There are more workers only where start_child made one.                 *)
LEMMA WorkersAfter ==
  ASSUME Scalars, Tables, OrphanInv, ListInv
  PROVE  LET n == Cardinality(Workers)
             m == Cardinality(Workers')
         IN  /\ n \in Nat
             /\ Onward => m \in Nat /\ m <= n
             /\ \A i \in Slots, p \in Procs : Filled(i, p) => m \in Nat /\ m <= n + 1
             /\ ParentEnds => m = 0
<1>1. IsFiniteSet(Workers) /\ Cardinality(Workers) \in Nat
  BY FewWorkers
<1>2. ASSUME Onward
      PROVE  Cardinality(Workers') \in Nat /\ Cardinality(Workers') <= Cardinality(Workers)
  <2>1. Workers' \in SUBSET Workers
    BY <1>2 DEF Onward, Workers
  <2>2. QED
    BY <1>1, <2>1, FS_Subset, FS_CardinalityType
<1>3. ASSUME NEW i \in Slots, NEW p \in Procs, Filled(i, p)
      PROVE  Cardinality(Workers') \in Nat /\ Cardinality(Workers') <= Cardinality(Workers) + 1
  <2>1. \A q \in Procs \ {p} : Working(q)' => Working(q)
    BY <1>3 DEF Filled, Forked, Working, Live
  <2>2. Workers' \in SUBSET (Workers \cup {p})
    BY <2>1 DEF Workers
  <2>3. /\ IsFiniteSet(Workers \cup {p})
        /\ Cardinality(Workers \cup {p}) <= Cardinality(Workers) + 1
        /\ Cardinality(Workers \cup {p}) \in Nat
    <3>1. /\ IsFiniteSet(Workers \cup {p})
          /\ \/ Cardinality(Workers \cup {p}) = Cardinality(Workers)
             \/ Cardinality(Workers \cup {p}) = Cardinality(Workers) + 1
      BY <1>1, FS_AddElement
    <3>2. QED
      BY <1>1, <3>1
  <2>4. IsFiniteSet(Workers') /\ Cardinality(Workers') <= Cardinality(Workers \cup {p})
    BY <2>2, <2>3, FS_Subset
  <2>5. Cardinality(Workers') \in Nat
    BY <2>4, FS_CardinalityType
  <2>6. QED
    BY <1>1, <2>3, <2>4, <2>5
<1>4. ASSUME ParentEnds PROVE Cardinality(Workers') = 0
  <2>1. \A p \in Procs : Live(p)' => proc'[p].orphan
    BY <1>4, ParentEndsFacts DEF Tables
  <2>2. Workers' = {}
    BY <2>1 DEF Workers, Working
  <2>3. QED
    BY <2>2, FS_EmptySet
<1>5. QED
  BY <1>1, <1>2, <1>3, <1>4

(* In adaptive mode a slot is left, whatever ends while processup counts.  *)
LEMMA CapStep ==
  ASSUME Scalars, Tables, Counters, JobInv, OrphanInv, ListInv, CapInv, [Next]_vars
  PROVE  CapInv'
<1> SUFFICES ASSUME adapt' PROVE CapInv'
  BY DEF CapInv
<1> USE VfAssumption
<1>1. adapt /\ num_to_start_min <= num_process - 1 /\ num_to_start_min \in Nat
  <2>1. adapt
    BY OptionsStay DEF opts
  <2>2. QED
    BY <2>1 DEF Scalars, Options
<1>2. PICK n : n = Cardinality(Workers)
  OBVIOUS
<1>3. PICK m : m = Cardinality(Workers')
  OBVIOUS
<1>4. /\ n \in Nat
      /\ Onward => m \in Nat /\ m <= n
      /\ \A i \in Slots, p \in Procs : Filled(i, p) => m \in Nat /\ m <= n + 1
      /\ ParentEnds => m = 0
  BY <1>2, <1>3, WorkersAfter
<1>5. /\ n <= num_process - 1
      /\ vf = "up" =>
             /\ Head(job) = "init" => n <= slot - 1
             /\ Head(job) = "up0" /\ slot > 0 => n <= tot
             /\ Head(job) = "up1" => n <= num_process - 2
  BY <1>1, <1>2 DEF CapInv
<1>6. SUFFICES /\ m <= num_process - 1
               /\ vf' = "up" =>
                    /\ Head(job') = "init" => m <= slot' - 1
                    /\ Head(job') = "up0" /\ slot' > 0 => m <= tot'
                    /\ Head(job') = "up1" => m <= num_process - 2
  BY <1>3 DEF CapInv
<1>7. slot \in 0 .. num_process + 1 /\ tot \in 0 .. 2 * num_process
  BY DEF Counters
<1>8. vf = "up" => n <= totprocess /\ totprocess \in 0 .. num_process
  BY <1>2, TotprocessCounts
<1>9. CASE Aside
  BY <1>4, <1>5, <1>7, <1>9 DEF Aside
<1>10. CASE Decided
  <2>1. Onward
    BY <1>10, StillOnward DEF Decided, Tables
  <2>2. /\ m \in Nat /\ m <= n /\ vf = "up" /\ slot' = 0
        /\ Head(job') # "init"
        /\ Head(job') = "up1" => totprocess < num_process - 1
    BY <1>4, <1>10, <2>1 DEF Decided, RoomToGrow, NewJob
  <2>3. QED
    BY <1>4, <1>5, <1>8, <2>2
<1>11. CASE StartFirst
  <2>1. /\ vf = "up" /\ Head(job) = "init"
        /\ \/ /\ Emptied \/ \E p \in Procs : Filled(slot, p)
              /\ slot \in Slots /\ slot <= num_to_start_min
              /\ job' = job /\ slot' = slot + 1
           \/ Emptied /\ job' = <<"load">> /\ slot' = 0
    BY <1>11, StartFirstFacts
  <2>2. CASE Emptied /\ job' = <<"load">> /\ slot' = 0
    <3>1. m \in Nat /\ m <= n /\ Head(job') = "load"
      BY <1>4, <2>2 DEF Emptied
    <3>2. QED
      BY <1>4, <1>5, <3>1
  <2>3. CASE /\ Emptied \/ \E p \in Procs : Filled(slot, p)
             /\ slot \in Slots /\ slot <= num_to_start_min
             /\ job' = job /\ slot' = slot + 1
    <3>1. m \in Nat /\ m <= n + 1
      BY <1>4, <2>3 DEF Emptied
    <3>2. QED
      BY <1>1, <1>4, <1>5, <1>7, <2>1, <2>3, <3>1
  <2>4. QED
    BY <2>1, <2>2, <2>3
<1>12. CASE EnterProcessup
  <2>1. vf = "up" /\ Head(job) \in {"up0", "up1"} /\ job' = job
    BY <1>12 DEF EnterProcessup, In
  <2>2. Onward /\ tot' = totprocess
    BY <1>1, <1>12, StillOnward DEF EnterProcessup, Tables
  <2>3. QED
    BY <1>4, <1>5, <1>8, <2>1, <2>2
<1>13. CASE ProcessupSlot
  <2>1. /\ vf = "up" /\ Head(job) \in {"up0", "up1"} /\ slot \in Slots /\ slot > 0
        /\ Continue \/ Return
    BY <1>13, ProcessupFacts DEF Slots
  <2>2. \/ job' = job /\ slot' = slot + 1
        \/ slot' = 0 /\ Head(job') \notin {"init", "up1"}
    BY <2>1, LoopFacts DEF Loops, NewJob
  <2>3. CASE Emptied /\ tot' \in {tot, tot + 1}
    <3>1. m \in Nat /\ m <= n
      BY <1>4, <2>3 DEF Emptied
    <3>2. QED
      BY <1>4, <1>5, <1>7, <2>1, <2>2, <2>3, <3>1
  <2>4. CASE /\ \E p \in Procs : Filled(slot, p)
             /\ tot' = tot + 1
             /\ NeedsOne(Head(job) = "up1")
             /\ Head(job) = "up1" => Return
    <3>1. m \in Nat /\ m <= n + 1
      BY <1>4, <2>1, <2>4
    <3>2. CASE Head(job) = "up0"
      <4>1. num_to_start_min > tot
        BY <1>1, <2>4, <3>2 DEF NeedsOne
      <4>2. QED
        BY <1>1, <1>4, <1>5, <1>7, <2>1, <2>2, <2>4, <3>1, <3>2, <4>1
    <3>3. CASE Head(job) = "up1"
      <4>1. slot' = 0 /\ Head(job') \notin {"init", "up1"}
        <5>1. slot' = 0
          BY <2>4, <3>3 DEF Return
        <5>2. QED
          BY <1>7, <2>1, <2>2, <5>1
      <4>2. QED
        BY <1>4, <1>5, <2>1, <3>1, <3>3, <4>1
    <3>4. QED
      BY <2>1, <3>2, <3>3
  <2>5. QED
    BY <1>13, <2>3, <2>4, ProcessupFacts
<1>14. CASE StopSlot
  <2>1. vf = "up" /\ Head(job) \in {"stop", "stopone"} /\ (Continue \/ Return) /\ Emptied
    BY <1>14, StopFacts
  <2>2. \/ job' = job
        \/ slot' = 0 /\ Head(job') \notin {"init", "up1"}
    BY <2>1, LoopFacts DEF Loops, NewJob
  <2>3. m \in Nat /\ m <= n
    BY <1>4, <2>1 DEF Emptied
  <2>4. QED
    BY <1>4, <1>5, <2>1, <2>2, <2>3
<1>15. CASE ParentEnds
  <2>1. vf' = "down"
    BY <1>15 DEF ParentEnds
  <2>2. QED
    BY <1>4, <1>15, <2>1
<1>16. CASE Restart
  <2>1. vf = "down" /\ UNCHANGED proc /\ slot' = 1 /\ job' = <<"init">>
    BY <1>16 DEF Restart
  <2>2. n = 0
    BY <1>2, <2>1, FewWorkers, FS_EmptySet
  <2>3. Onward
    BY <2>1, StillOnward DEF Tables
  <2>4. m = 0
    BY <1>4, <2>2, <2>3
  <2>5. QED
    BY <2>1, <2>4
<1>17. QED
  BY <1>9, <1>10, <1>11, <1>12, <1>13, <1>14, <1>15, <1>16, Kinds

-----------------------------------------------------------------------------
(* The invariant, and what follows                                         *)

IInv == /\ Flags /\ Scalars /\ Tables /\ Counters
        /\ JobInv /\ PermitInv /\ OrphanInv /\ ListInv /\ CapInv

(* The server just started.                                                *)
LEMMA InitInv == Init => IInv
<1> SUFFICES ASSUME Init PROVE IInv
  OBVIOUS
<1> USE VfAssumption
<1>1. Flags
  BY DEF Init, Flags
<1>2. Scalars
  BY DEF Init, InitOptions, Scalars, Options
<1>3. Tables
  BY NoProcFacts DEF Init, Tables, List
<1>4. Counters
  BY DEF Init, Counters
<1>5. job = <<"init">> /\ Head(job) = "init" /\ slot = 1 /\ vf = "up"
  BY DEF Init
<1>6. JobInv
  BY <1>5 DEF JobInv, Jobs, Loops
<1>7. PermitInv
  <2>1. job \notin ForLoad /\ job \notin ForDead /\ job \notin ForCommand
    BY <1>5 DEF ForLoad, ForDead, ForCommand
  <2>2. QED
    BY <2>1 DEF Init, PermitInv
<1>8. \A p \in Procs : proc[p] = NoProc
  BY DEF Init
<1>9. OrphanInv
  BY <1>5, <1>8, NoProcFacts DEF OrphanInv
<1>10. \A p \in Procs : ~Working(p)
  BY <1>8 DEF Working, Live
<1>11. ListInv
  BY <1>10 DEF Init, ListInv
<1>12. CapInv
  <2>1. Workers = {}
    BY <1>10 DEF Workers
  <2>2. Cardinality(Workers) = 0
    BY <2>1, FS_EmptySet
  <2>3. QED
    BY <1>5, <2>2 DEF CapInv
<1>13. QED
  BY <1>1, <1>2, <1>3, <1>4, <1>6, <1>7, <1>9, <1>11, <1>12 DEF IInv

(* Every step keeps it.                                                    *)
LEMMA StepInv == IInv /\ [Next]_vars => IInv'
<1> SUFFICES ASSUME IInv, [Next]_vars PROVE IInv'
  OBVIOUS
<1>1. /\ Flags /\ Scalars /\ Tables /\ Counters
      /\ JobInv /\ PermitInv /\ OrphanInv /\ ListInv /\ CapInv
  BY DEF IInv
<1>2. Flags' /\ Scalars'
  BY <1>1, FlagStep, ScalarStep
<1>3. JobInv' /\ Counters'
  BY <1>1, JobStep
<1>4. PermitInv'
  BY <1>1, PermitStep
<1>5. Tables'
  BY <1>1, TableStep
<1>6. OrphanInv'
  BY <1>1, OrphanStep
<1>7. ListInv'
  BY <1>1, ListStep
<1>8. CapInv'
  BY <1>1, CapStep
<1>9. QED
  BY <1>2, <1>3, <1>4, <1>5, <1>6, <1>7, <1>8 DEF IInv

(* The inductive invariant holds throughout.                               *)
LEMMA Invariant == Spec => []IInv
BY InitInv, StepInv, PTL DEF Spec

(* The variables of vf keep their types (vf.c:129-162).                    *)
THEOREM TypeCorrect == Spec => []TypeOK
<1>1. IInv => TypeOK
  <2> SUFFICES ASSUME IInv PROVE TypeOK
    OBVIOUS
  <2>1. Flags /\ Scalars /\ Tables /\ Counters /\ job \in Jobs
    BY DEF IInv, JobInv
  <2>2. job \in Seq(Routines) /\ job # <<>>
    BY <2>1, JobsAreSequences
  <2>3. plist \in [Slots -> Procs \cup {NONE}]
    BY <2>1 DEF Tables, List
  <2>4. proc \in [Procs -> [at : Places, orphan : BOOLEAN, termed : BOOLEAN, vers : Nat]]
    BY <2>1 DEF Tables, AProcess
  <2>5. QED
    BY <2>1, <2>2, <2>3, <2>4 DEF TypeOK, Flags, Scalars, Counters
<1>2. QED
  BY <1>1, Invariant, PTL

(* A worker that was not told to end is in plist, in one slot, for any      *)
(* number of slots: what stop, restart and quit go through (vf.c:439, 743). *)
THEOREM WorkersAreListed == Spec => []WorkersListed
<1>1. IInv => WorkersListed
  <2> SUFFICES ASSUME IInv, vf = "up", NEW p \in Procs, Working(p)
               PROVE  Cardinality({i \in Slots : plist[i] = p}) = 1
    BY DEF WorkersListed
  <2>1. Injective /\ AllListed
    BY DEF IInv, ListInv, Injective, AllListed
  <2>2. PICK i \in Slots : plist[i] = p
    BY <2>1 DEF AllListed
  <2>3. {j \in Slots : plist[j] = p} = {i}
    BY <2>1, <2>2, VfAssumption DEF Injective
  <2>4. QED
    BY <2>3, FS_Singleton
<1>2. QED
  BY <1>1, Invariant, PTL

(* In adaptive mode fewer than num_process workers accept connections,      *)
(* whatever dies between the count and the fork (vf.c:1249, 755).           *)
THEOREM CapHolds == Spec => []AdaptiveCap
<1>1. IInv => AdaptiveCap
  BY DEF IInv, CapInv, AdaptiveCap, Workers
<1>2. QED
  BY <1>1, Invariant, PTL

(* What outlives vf has yet to look for its parent, so that it ends         *)
(* (vf.c:665-670).                                                         *)
THEOREM OrphansEnd == Spec => []NoOrphans
<1>1. IInv => NoOrphans
  BY DEF IInv, OrphanInv, NoOrphans
<1>2. QED
  BY <1>1, Invariant, PTL

(* A step that starts a worker does it where the options and the last       *)
(* command allow (vf.c:1240, 1277).                                        *)
LEMMA AllowedStep ==
  ASSUME IInv, [Next]_vars, NEW p \in Procs, ~Live(p), proc'[p].at = "forked"
  PROVE  ~temp_no_restart /\ (dnr => Head(job) = "init" \/ command # NONE)
<1>1. Scalars /\ Tables /\ Counters /\ JobInv /\ PermitInv /\ OrphanInv /\ ListInv
  BY DEF IInv
<1>2. proc[p].at = "none"
  BY NoProcFacts DEF Live
<1>3. ~Onward
  <2>1. Live(p)'
    BY NoProcFacts DEF Live
  <2>2. QED
    BY <2>1 DEF Onward
<1>4. ~Emptied /\ ~Aside /\ (UNCHANGED proc => FALSE)
  BY <1>2, <1>3 DEF Emptied, Aside
<1>5. CASE StartFirst
  BY <1>1, <1>5 DEF StartFirst, In, PermitInv
<1>6. CASE ProcessupSlot
  <2>1. vf = "up" /\ Head(job) \in {"up0", "up1"}
    BY <1>1, <1>6, ProcessupFacts
  <2>2. job \in ForLoad \cup ForDead \cup ForCommand
    BY <1>1, <2>1, StartingJobs DEF JobInv
  <2>3. adapt => ~dnr
    BY <1>1 DEF Scalars, Options
  <2>4. QED
    BY <1>1, <2>1, <2>2, <2>3 DEF PermitInv
<1>7. ~ParentEnds
  <2>1. ASSUME ParentEnds PROVE FALSE
    <3>1. Live(p)' => Live(p)
      BY <1>1, <2>1, ParentEndsFacts DEF Tables
    <3>2. Live(p)'
      BY NoProcFacts DEF Live
    <3>3. QED
      BY <3>1, <3>2
  <2>2. QED
    BY <2>1
<1>8. ~Decided /\ ~EnterProcessup /\ ~Restart
  BY <1>4 DEF Decided, EnterProcessup, Restart
<1>9. ~StopSlot
  BY <1>1, <1>4, StopFacts
<1>10. QED
  BY <1>1, <1>4, <1>5, <1>6, <1>7, <1>8, <1>9, Kinds

(* Workers are never started after stop, nor with -n but before the loop    *)
(* or on a command (vf.c:1240, 1277).                                      *)
THEOREM RestartsAreAllowed == Spec => RestartsAllowed
<1>1. IInv /\ [Next]_vars =>
        [\A p \in Procs : (~Live(p) /\ proc'[p].at = "forked") =>
            /\ ~temp_no_restart
            /\ dnr => Head(job) = "init" \/ command # NONE]_vars
  BY AllowedStep
<1>2. QED
  BY <1>1, Invariant, PTL DEF Spec, RestartsAllowed
=============================================================================

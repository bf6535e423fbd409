-------------------------- MODULE Respawner_proofs --------------------------
(***************************************************************************)
(* Theorems about Respawner, for any set of commands and of conditions and *)
(* any number of edits of the file, with the signal handlers between any   *)
(* two steps of main.                                                      *)
(***************************************************************************)
EXTENDS Respawner, TLAPS

-----------------------------------------------------------------------------
(* One process of each command                                             *)

\* The state of a command tells whether it has a process; a command that was
\* told to end before it ran has none.
Counted(c) ==
    /\ st[c] \notin {"Running", "Killing"} => running[c] = 0 /\ zombies[c] = 0
    /\ running[c] + zombies[c] <= 1

Processes ==
    /\ st \in [Cmds -> States]
    /\ running \in [Cmds -> Nat] /\ zombies \in [Cmds -> Nat]
    /\ \A c \in Cmds : Counted(c)

LEMMA InitProcesses == Init => Processes
BY DEF Init, Processes, Counted, States

LEMMA ForkProcesses ==
  ASSUME Processes, NEW c \in Cmds, Fork(c)
  PROVE  Processes'
<1>1. st[c] \notin {"Running", "Killing"}
  BY DEF Fork, Startable
<1>2. running[c] = 0 /\ zombies[c] = 0
  BY <1>1 DEF Processes, Counted
<1>3. st' \in [Cmds -> States] /\ running' \in [Cmds -> Nat] /\ zombies' = zombies
  <2>1. running' = [running EXCEPT ![c] = running[c] + 1]
        \/ running' = [running EXCEPT ![c] = running[c]]
    BY DEF Fork
  <2> QED  BY <2>1 DEF Fork, Processes, States
<1>4. ASSUME NEW d \in Cmds  PROVE Counted(d)'
  BY <1>2, <1>3 DEF Fork, Processes, Counted
<1> QED  BY <1>3, <1>4 DEF Processes

\* The processes of a SIGCHLD: each that ended is waited for once, and an entry
\* with pid -1 takes itself for ended only when there is no process any more.
LEMMA OnChildProcesses ==
  ASSUME Processes, OnChild
  PROVE  Processes'
<1>1. PICK by \in [Unborn -> Zombies \cup {Nobody}] :
        LET lost == {d \in Zombies : \E c \in Unborn : by[c] = d}
            ended == {c \in Zombies \ lost : pid[c] = "own"}
            childless == {c \in Unborn : by[c] = Nobody /\ \A d \in Cmds : running[d] = 0}
        IN /\ WaitAny(by)
           /\ st' = [c \in Cmds |-> IF c \notin ended \cup childless THEN st[c]
                                    ELSE IF st[c] = "Killing" THEN "Killed" ELSE "Failed"]
           /\ pid' = [c \in Cmds |-> IF c \in ended THEN "stale" ELSE pid[c]]
           /\ zombies' = [c \in Cmds |->
                            IF c \in ended \cup lost THEN zombies[c] - 1 ELSE zombies[c]]
  BY DEF OnChild
<1> DEFINE lost == {d \in Zombies : \E c \in Unborn : by[c] = d}
           ended == {c \in Zombies \ lost : pid[c] = "own"}
           childless == {c \in Unborn : by[c] = Nobody /\ \A d \in Cmds : running[d] = 0}
<1>2. /\ WaitAny(by) /\ running' = running
      /\ st' = [c \in Cmds |-> IF c \notin ended \cup childless THEN st[c]
                               ELSE IF st[c] = "Killing" THEN "Killed" ELSE "Failed"]
      /\ zombies' = [c \in Cmds |->
                       IF c \in ended \cup lost THEN zombies[c] - 1 ELSE zombies[c]]
  BY <1>1 DEF OnChild
<1>3. ended \cup lost \subseteq Zombies /\ childless \subseteq Cmds
  BY DEF Zombies, Unborn
<1>4. ASSUME childless # {}  PROVE ended \cup lost = Zombies
  BY <1>2, <1>4 DEF WaitAny
<1>5. ASSUME childless # {}  PROVE \A d \in Cmds : running[d] = 0
  BY <1>5
<1> HIDE DEF lost, ended, childless
<1>6. \A c \in Cmds : running[c] \in Nat /\ zombies[c] \in Nat
  BY DEF Processes
<1>7. \A c \in Cmds : c \in Zombies <=> zombies[c] > 0
  BY DEF Zombies
<1>8. st' \in [Cmds -> States] /\ running' \in [Cmds -> Nat] /\ zombies' \in [Cmds -> Nat]
  <2>1. zombies' \in [Cmds -> Nat]
    BY <1>2, <1>3, <1>6, <1>7
  <2>2. st' \in [Cmds -> States]
    BY <1>2 DEF Processes, States
  <2> QED  BY <1>2, <2>1, <2>2 DEF Processes
<1>9. ASSUME NEW d \in Cmds  PROVE Counted(d)'
  <2>1. running[d] + zombies[d] <= 1 /\ running'[d] = running[d]
    BY <1>2 DEF Processes, Counted
  <2>2. running'[d] + zombies'[d] <= 1
    BY <1>2, <1>3, <1>6, <1>7, <2>1
  <2>3. CASE d \in ended
    BY <1>2, <1>3, <1>6, <1>7, <2>1, <2>2, <2>3 DEF Counted
  <2>4. CASE d \in childless
    BY <1>2, <1>4, <1>5, <1>6, <1>7, <2>1, <2>2, <2>4 DEF Counted
  <2>5. CASE d \notin ended \cup childless
    <3>1. st'[d] = st[d]
      BY <1>2, <2>5
    <3>2. ASSUME st[d] \notin {"Running", "Killing"}  PROVE zombies'[d] = 0
      BY <1>2, <1>3, <1>6, <1>7, <3>2 DEF Processes, Counted
    <3> QED  BY <2>1, <2>2, <3>1, <3>2 DEF Processes, Counted
  <2> QED  BY <2>3, <2>4, <2>5
<1> QED  BY <1>8, <1>9 DEF Processes

LEMMA NextProcesses == Processes /\ [Next]_vars => Processes'
<1> SUFFICES ASSUME Processes, [Next]_vars  PROVE Processes'
  OBVIOUS
<1>1. ASSUME UNCHANGED <<st, running, zombies>>  PROVE Processes'
  BY <1>1 DEF Processes, Counted
<1>2. CASE UNCHANGED vars \/ StorePid \/ Started \/ NoReread \/ KillDone \/ OnUsr1 \/ OnUsr2
           \/ OnTerm \/ Edit \/ Condition
  BY <1>1, <1>2 DEF vars, StorePid, Started, NoReread, KillDone, OnUsr1, OnUsr2, OnTerm, Edit,
                    OnHup, Condition, tableVars, procVars
<1>3. ASSUME NEW c \in Cmds, Skip(c)  PROVE Processes'
  BY <1>1, <1>3 DEF Skip, tableVars, procVars
<1>4. ASSUME NEW c \in Cmds, Fork(c)  PROVE Processes'
  BY <1>4, ForkProcesses
<1>5. ASSUME NEW c \in Cmds, Kill(c)  PROVE Processes'
  BY <1>5 DEF Kill, Processes, Counted, procVars, States
<1>6. CASE Erase
  BY <1>6 DEF Erase, Processes, Counted, procVars, States
<1>7. CASE Reread
  BY <1>7 DEF Reread, InTable, Processes, Counted, procVars, States
<1>8. CASE OnChild
  BY <1>8, OnChildProcesses
<1>9. ASSUME NEW c \in Cmds, Exit(c)  PROVE Processes'
  <2>1. /\ running[c] \in Nat \ {0} /\ zombies[c] \in Nat
        /\ running' = [running EXCEPT ![c] = @ - 1]
        /\ zombies' = [zombies EXCEPT ![c] = @ + 1] /\ st' = st
    BY <1>9 DEF Exit, Processes, tableVars
  <2>2. running' \in [Cmds -> Nat] /\ zombies' \in [Cmds -> Nat]
    BY <2>1 DEF Processes
  <2>3. ASSUME NEW d \in Cmds  PROVE Counted(d)'
    BY <2>1 DEF Processes, Counted
  <2> QED  BY <2>1, <2>2, <2>3 DEF Processes
<1> QED
  BY <1>2, <1>3, <1>4, <1>5, <1>6, <1>7, <1>8, <1>9 DEF Next, Main

\* respawner never has two processes of one command, whenever SIGCHLD comes,
\* also between fork() and the assignment of the pid, however often the file
\* changes, and whether or not fork() fails.
THEOREM RespawnerOneProcess == Spec => []OneProcess
<1>1. Processes => OneProcess
  BY DEF Processes, OneProcess, Counted
<1> QED  BY <1>1, InitProcesses, NextProcesses, PTL DEF Spec

-----------------------------------------------------------------------------
(* Only what the file names is started                                     *)

\* Where fork() does not fail, no entry has the pid -1.  A command the file did
\* not name when it was read last is told to end, or will be before anything is
\* started.
Leaving ==
    /\ todo \subseteq Cmds /\ conf \subseteq Cmds
    /\ st \in [Cmds -> States]
    /\ "nofork" \notin world => got # "none" /\ Unborn = {}
    /\ "nofork" \notin world =>
         \A c \in Cmds \ lastRead :
           \/ st[c] \in {"absent", "Killing", "Killed"}
           \/ pc = "kill" /\ c \in todo
           \/ pc = "gone"
    /\ pc = "start" => todo \subseteq lastRead
    /\ pc = "spawn" => todo \subseteq InTable

LEMMA InitLeaving == Init => Leaving
BY DEF Init, Leaving, Unborn, States

LEMMA NextLeaving == Leaving /\ Processes /\ [Next]_vars => Leaving'
<1> SUFFICES ASSUME Leaving, Processes, [Next]_vars  PROVE Leaving'
  OBVIOUS
<1> USE DEF Leaving, States, InTable, Unborn
<1>1. CASE UNCHANGED vars
  BY <1>1 DEF vars, mainVars, tableVars, fileVars
<1>2. ASSUME NEW c \in Cmds, Fork(c)  PROVE Leaving'
  BY <1>2 DEF Fork, Forked, Startable, fileVars
<1>3. ASSUME NEW c \in Cmds, Skip(c)  PROVE Leaving'
  BY <1>3 DEF Skip, fileVars, tableVars
<1>4. ASSUME NEW c \in Cmds, Kill(c)  PROVE Leaving'
  BY <1>4 DEF Kill, fileVars
<1>5. CASE StorePid
  BY <1>5 DEF StorePid, fileVars
<1>6. CASE Started
  BY <1>6 DEF Started, tableVars, fileVars
<1>7. CASE Erase
  BY <1>7 DEF Erase, fileVars
<1>8. CASE Reread
  BY <1>8 DEF Reread, fileVars
<1>9. CASE NoReread
  BY <1>9 DEF NoReread, tableVars, fileVars
<1>10. CASE KillDone
  BY <1>10 DEF KillDone, tableVars, fileVars
<1>11. CASE OnChild
  <2>1. st' \in [Cmds -> States]
    BY <1>11 DEF OnChild
  <2>2. ASSUME NEW c \in Cmds, zombies[c] = 0, "nofork" \notin world  PROVE st'[c] = st[c]
    BY <1>11, <2>2 DEF OnChild, Zombies
  <2>3. ASSUME NEW c \in Cmds, st[c] \in {"absent", "Killed"}  PROVE zombies[c] = 0
    BY <2>3 DEF Processes, Counted
  <2>4. ASSUME NEW c \in Cmds, st[c] = "Killing"  PROVE st'[c] \in {"Killing", "Killed"}
    BY <1>11, <2>4 DEF OnChild
  <2>5. ASSUME NEW c \in Cmds, st[c] # "absent"  PROVE st'[c] # "absent"
    BY <1>11, <2>5 DEF OnChild
  <2>6. ASSUME "nofork" \notin world  PROVE \A c \in Cmds : pid'[c] # "none"
    BY <1>11, <2>6 DEF OnChild
  <2>7. /\ UNCHANGED <<todo, got, conf, world, lastRead>>
        /\ pc' \in {pc, "reread"} /\ (pc # "select" => pc' = pc)
    BY <1>11 DEF OnChild, Wake, fileVars
  <2>8. ASSUME "nofork" \notin world, NEW c \in Cmds \ lastRead
        PROVE  \/ st'[c] \in {"absent", "Killing", "Killed"}
               \/ pc = "kill" /\ c \in todo
               \/ pc = "gone"
    BY <2>2, <2>3, <2>4, <2>8
  <2> QED  BY <2>1, <2>5, <2>6, <2>7, <2>8
<1>12. CASE OnUsr1 \/ OnUsr2 \/ OnTerm
  BY <1>12 DEF OnUsr1, OnUsr2, OnTerm, Wake, tableVars, fileVars
<1>13. CASE Edit
  BY <1>13 DEF Edit, OnHup, Wake, tableVars
<1>14. CASE Condition
  BY <1>14 DEF Condition, mainVars, tableVars
<1>15. ASSUME NEW c \in Cmds, Exit(c)  PROVE Leaving'
  BY <1>15 DEF Exit, mainVars, tableVars, fileVars
<1> QED
  BY <1>1, <1>2, <1>3, <1>4, <1>5, <1>6, <1>7, <1>8, <1>9, <1>10, <1>11, <1>12,
     <1>13, <1>14, <1>15 DEF Next, Main

\* Where fork() does not fail, a command is started only when the file, as it was
\* read last, names it.
THEOREM RespawnerStartsConfigured == Spec => StartsConfigured
<1>1. Leaving /\ [Next]_vars =>
        [forking' # forking /\ "nofork" \notin world
           => forking' \in lastRead \cup {Nobody}]_vars
  <2> SUFFICES ASSUME Leaving, Next, forking' # forking, "nofork" \notin world
               PROVE  forking' \in lastRead \cup {Nobody}
    OBVIOUS
  <2>1. ASSUME NEW c \in Cmds, Fork(c)  PROVE forking' \in lastRead
    BY <2>1 DEF Fork, Startable, Leaving
  <2>2. CASE StorePid
    BY <2>2 DEF StorePid
  <2>3. ASSUME NEW c \in Cmds, Skip(c) \/ Kill(c) \/ Exit(c)  PROVE FALSE
    BY <2>3 DEF Skip, Kill, Exit, mainVars
  <2>4. CASE Started \/ Erase \/ Reread \/ NoReread \/ KillDone \/ OnChild \/ OnUsr1 \/ OnUsr2
             \/ OnTerm \/ Edit \/ Condition
    BY <2>4 DEF Started, Erase, Reread, NoReread, KillDone, OnChild, OnUsr1, OnUsr2, OnTerm,
                Edit, OnHup, Condition, mainVars
  <2> QED  BY <2>1, <2>2, <2>3, <2>4 DEF Next, Main
<1> QED
  BY <1>1, InitLeaving, NextLeaving, InitProcesses, NextProcesses, PTL
  DEF Spec, StartsConfigured

-----------------------------------------------------------------------------
(* respawner is not ended by its own kill()                                *)

\* As long as nobody changed the file there is nothing to kill.
Unedited ==
    /\ edits \in Nat
    /\ edits = 0 => InTable \subseteq conf /\ (pc = "kill" => todo = {})

\* An entry that is not in the vector has no pid, and the one whose pid is not
\* stored yet is in it.
Entries ==
    /\ \A c \in Cmds : st[c] = "absent" => pid[c] = "zero"
    /\ forking # Nobody =>
         forking \in todo \cap InTable /\ pc \in {"start", "spawn", "gone"}

\* A pid is 0 only from the reading of a line to the fork() in the same pass
\* of main: in the loops that start commands, or in the loop before that kills
\* others.
PidsStored ==
    /\ respawn = TRUE
    /\ forking # Nobody => got # "zero"
    /\ pc = "kill" => todo \subseteq InTable
    /\ \A c \in InTable :
         pid[c] = "zero" =>
           /\ st[c] = "NotRunning" \/ c = forking
           /\ \/ pc \in {"start", "spawn"} /\ c \in todo
              \/ pc = "kill" /\ c \notin todo

Alive ==
    /\ st \in [Cmds -> States] /\ pid \in [Cmds -> {"zero", "own", "none", "stale"}]
    /\ got \in {"zero", "own", "none"}
    /\ Unedited /\ Entries
    /\ pc = "gone" => told \/ (Removable /\ edits # 0)
    /\ pc # "gone" /\ ~Removable => PidsStored

LEMMA InitAlive == Init => Alive
BY DEF Init, Alive, Unedited, Entries, PidsStored, Removable, InTable, States

LEMMA MainAlive ==
  ASSUME Alive, Main
  PROVE  Alive'
<1> USE DEF Alive, Unedited, Entries, PidsStored, Removable, InTable, States
<1>1. ASSUME NEW c \in Cmds, Fork(c)  PROVE Alive'
  BY <1>1, RespawnerConstants DEF Fork, Forked, Startable, fileVars
<1>2. ASSUME NEW c \in Cmds, Skip(c)  PROVE Alive'
  BY <1>2, RespawnerConstants DEF Skip, Startable, fileVars, tableVars
<1>3. ASSUME NEW c \in Cmds, Kill(c)  PROVE Alive'
  BY <1>3 DEF Kill, fileVars
<1>4. CASE StorePid
  BY <1>4 DEF StorePid, fileVars
<1>5. CASE Started
  BY <1>5 DEF Started, tableVars, fileVars
<1>6. CASE Erase
  BY <1>6 DEF Erase, fileVars
<1>7. CASE Reread
  BY <1>7 DEF Reread, fileVars
<1>8. CASE NoReread
  BY <1>8 DEF NoReread, tableVars, fileVars
<1>9. CASE KillDone
  BY <1>9 DEF KillDone, tableVars, fileVars
<1> QED  BY <1>1, <1>2, <1>3, <1>4, <1>5, <1>6, <1>7, <1>8, <1>9 DEF Main

LEMMA NextAlive == Alive /\ Processes /\ [Next]_vars => Alive'
<1> SUFFICES ASSUME Alive, Processes, [Next]_vars  PROVE Alive'
  OBVIOUS
<1> USE DEF Alive, Unedited, Entries, PidsStored, Removable, InTable, States
<1>1. CASE UNCHANGED vars
  BY <1>1 DEF vars, mainVars, tableVars, fileVars
<1>2. CASE Main
  BY <1>2, MainAlive
<1>3. CASE OnChild
  <2>1. /\ UNCHANGED <<todo, forking, got, respawn, conditional, blank, edits, world, told>>
        /\ UNCHANGED conf
        /\ pc' \in {pc, "reread"} /\ (pc # "select" => pc' = pc) /\ pc # "gone"
    BY <1>3 DEF OnChild, Wake, fileVars
  <2>2. PICK ended \in SUBSET Cmds, childless \in SUBSET Cmds :
          /\ \A c \in ended : pid[c] = "own" /\ st[c] # "absent"
          /\ \A c \in childless : pid[c] = "none"
          /\ st' = [c \in Cmds |-> IF c \notin ended \cup childless THEN st[c]
                                   ELSE IF st[c] = "Killing" THEN "Killed" ELSE "Failed"]
          /\ pid' = [c \in Cmds |-> IF c \in ended THEN "stale" ELSE pid[c]]
    <3>1. PICK by \in [Unborn -> Zombies \cup {Nobody}] :
            LET lost == {d \in Zombies : \E c \in Unborn : by[c] = d}
                ended == {c \in Zombies \ lost : pid[c] = "own"}
                childless == {c \in Unborn : by[c] = Nobody /\ \A d \in Cmds : running[d] = 0}
            IN /\ st' = [c \in Cmds |-> IF c \notin ended \cup childless THEN st[c]
                                        ELSE IF st[c] = "Killing" THEN "Killed" ELSE "Failed"]
               /\ pid' = [c \in Cmds |-> IF c \in ended THEN "stale" ELSE pid[c]]
      BY <1>3 DEF OnChild
    <3> DEFINE lost == {d \in Zombies : \E c \in Unborn : by[c] = d}
               ended == {c \in Zombies \ lost : pid[c] = "own"}
               childless == {c \in Unborn : by[c] = Nobody /\ \A d \in Cmds : running[d] = 0}
    <3>2. ended \in SUBSET Cmds /\ childless \in SUBSET Cmds
      BY DEF Zombies, Unborn
    <3>3. (\A c \in ended : pid[c] = "own") /\ \A c \in childless : pid[c] = "none"
      BY DEF Unborn
    <3>4. \A c \in ended : st[c] # "absent"
      BY DEF Zombies, Processes, Counted
    <3> HIDE DEF ended, childless
    <3> QED  BY <3>1, <3>2, <3>3, <3>4 DEF ended, childless
  <2>3. \A c \in Cmds : st'[c] = "absent" <=> st[c] = "absent"
    BY <2>2
  <2>4. \A c \in Cmds : /\ pid'[c] = "zero" => pid[c] = "zero"
                        /\ pid[c] = "zero" => st'[c] = st[c]
    BY <2>2
  <2>5. st' \in [Cmds -> States] /\ pid' \in [Cmds -> {"zero", "own", "none", "stale"}]
    BY <2>2
  <2>6. Removable' = Removable
    BY <2>1
  <2>7. InTable' = InTable
    BY <2>3
  <2> HIDE DEF InTable, Removable
  <2>8. Unedited'
    BY <2>1, <2>7
  <2> HIDE DEF Unedited
  <2>9. Entries'
    <3>1. \A c \in Cmds : st'[c] = "absent" => pid'[c] = "zero"
      <4> SUFFICES ASSUME NEW c \in Cmds, st'[c] = "absent"  PROVE pid'[c] = "zero"
        OBVIOUS
      <4>1. st[c] = "absent" /\ pid[c] = "zero"
        BY <2>3
      <4> QED  BY <4>1, <2>2
    <3>2. forking' = forking /\ todo' = todo
      BY <2>1
    <3>3. forking # Nobody => pc' = pc
      BY <2>1
    <3> QED  BY <2>7, <3>1, <3>2, <3>3
  <2> HIDE DEF Entries
  <2>10. PidsStored => PidsStored'
    <3> SUFFICES ASSUME PidsStored  PROVE PidsStored'
      OBVIOUS
    <3>1. /\ forking' = forking /\ todo' = todo /\ got' = got /\ respawn' = respawn
          /\ pc' = pc \/ (pc = "select" /\ pc' = "reread")
      BY <2>1
    <3>2. pc' = "kill" => todo' \subseteq InTable'
      BY <2>7, <3>1
    <3>3. ASSUME NEW c \in InTable, pid'[c] = "zero"
          PROVE  /\ st'[c] = "NotRunning" \/ c = forking
                 /\ \/ pc' \in {"start", "spawn"} /\ c \in todo
                    \/ pc' = "kill" /\ c \notin todo
      <4>1. c \in Cmds
        BY DEF InTable
      <4>2. pid'[c] = "zero"
        BY <3>3
      <4>3. pid[c] = "zero" /\ st'[c] = st[c]
        BY <2>4, <4>1, <4>2
      <4> QED  BY <3>1, <3>3, <4>3
    <3> QED  BY <2>7, <3>1, <3>2, <3>3
  <2> HIDE DEF Unedited, Entries, PidsStored
  <2> QED
    BY <2>1, <2>5, <2>6, <2>8, <2>9, <2>10
<1>4. CASE OnUsr1 \/ OnUsr2 \/ OnTerm
  BY <1>4 DEF OnUsr1, OnUsr2, OnTerm, Wake, tableVars, fileVars
<1>5. CASE Edit
  BY <1>5 DEF Edit, OnHup, Wake, tableVars
<1>6. CASE Condition
  BY <1>6 DEF Condition, mainVars, tableVars
<1>7. ASSUME NEW c \in Cmds, Exit(c)  PROVE Alive'
  BY <1>7 DEF Exit, mainVars, tableVars, fileVars
<1> QED
  BY <1>1, <1>2, <1>3, <1>4, <1>5, <1>6, <1>7 DEF Next

\* Where no line can be removed that has no process yet, respawner never sends
\* SIGTERM to its own process group: it ends only when it is told to.
THEOREM RespawnerSurvives == Spec => []Survives
<1>1. Alive => Survives
  BY DEF Alive, Survives, Removable
<1> QED
  BY <1>1, InitAlive, NextAlive, InitProcesses, NextProcesses, PTL DEF Spec

-----------------------------------------------------------------------------
(* Types                                                                   *)

Known ==
    /\ pc \in {"start", "select", "reread", "kill", "spawn", "erase", "gone"}
    /\ todo \subseteq Cmds /\ forking \in Cmds \cup {Nobody}
    /\ got \in {"zero", "own", "none"} /\ pid \in [Cmds -> {"zero", "own", "none", "stale"}]
    /\ reread \in BOOLEAN /\ respawn \in BOOLEAN /\ chld \in BOOLEAN /\ told \in BOOLEAN
    /\ lastRead \subseteq Cmds /\ conf \subseteq Cmds

World ==
    /\ conditional \in Conditionals /\ blank \in Blanks /\ there \subseteq Cmds
    /\ edits \in 0..MaxEdits /\ world \in Worlds

LEMMA InitKnown == Init => Known /\ World
<1> SUFFICES ASSUME Init  PROVE Known /\ World
  OBVIOUS
<1>1. 0 \in 0..MaxEdits /\ conditional \in SUBSET Cmds
  BY RespawnerConstants DEF Init
<1>2. World
  BY <1>1 DEF Init, World
<1>3. Known
  BY DEF Init, Known
<1> QED  BY <1>2, <1>3

LEMMA NextWorld == World /\ [Next]_vars => World'
<1> SUFFICES ASSUME World, [Next]_vars  PROVE World'
  OBVIOUS
<1>1. ASSUME UNCHANGED fileVars  PROVE World'
  BY <1>1 DEF fileVars, World
<1>2. CASE Edit
  <2>1. edits' \in 0..MaxEdits
    BY <1>2, RespawnerConstants DEF Edit, World
  <2> QED  BY <1>2, <2>1 DEF Edit, World
<1>3. CASE Condition
  <2>1. conditional \in SUBSET Cmds
    BY RespawnerConstants DEF World
  <2> QED  BY <1>3, <2>1 DEF Condition, World
<1>4. CASE UNCHANGED vars \/ Main \/ OnChild \/ OnUsr1 \/ OnUsr2 \/ OnTerm \/ \E c \in Cmds : Exit(c)
  BY <1>1, <1>4 DEF vars, Main, Fork, Skip, Kill, StorePid, Started, Erase, Reread, NoReread,
                    KillDone, OnChild, OnUsr1, OnUsr2, OnTerm, Exit
<1> QED  BY <1>2, <1>3, <1>4 DEF Next

LEMMA NextKnown == Known /\ [Next]_vars => Known'
<1> SUFFICES ASSUME Known, [Next]_vars  PROVE Known'
  OBVIOUS
<1> USE DEF Known
<1>1. CASE UNCHANGED vars
  BY <1>1 DEF vars, mainVars, tableVars, fileVars, procVars
<1>2. ASSUME NEW c \in Cmds, Fork(c) \/ Skip(c) \/ Kill(c)  PROVE Known'
  BY <1>2 DEF Fork, Forked, Skip, Kill, tableVars, fileVars, procVars
<1>3. CASE StorePid
  BY <1>3 DEF StorePid, fileVars, procVars
<1>4. CASE Started \/ Erase \/ Reread \/ NoReread \/ KillDone
  BY <1>4 DEF Started, Erase, Reread, NoReread, KillDone, InTable, tableVars, fileVars, procVars
<1>5. CASE OnChild
  BY <1>5 DEF OnChild, Wake, fileVars
<1>6. CASE OnUsr1 \/ OnUsr2 \/ OnTerm
  BY <1>6 DEF OnUsr1, OnUsr2, OnTerm, Wake, tableVars, fileVars, procVars
<1>7. CASE Edit
  BY <1>7 DEF Edit, OnHup, Wake, tableVars, procVars
<1>8. CASE Condition
  BY <1>8 DEF Condition, mainVars, tableVars, procVars
<1>9. ASSUME NEW c \in Cmds, Exit(c)  PROVE Known'
  BY <1>9 DEF Exit, mainVars, tableVars, fileVars
<1> QED
  BY <1>1, <1>2, <1>3, <1>4, <1>5, <1>6, <1>7, <1>8, <1>9 DEF Next, Main

\* Type correctness: a command has at most as many processes as it can have.
THEOREM RespawnerTypeOK == Spec => []TypeOK
<1>1. Known /\ World /\ Processes => TypeOK
  <2> SUFFICES ASSUME Known, World, Processes  PROVE TypeOK
    OBVIOUS
  <2>1. running \in [Cmds -> 0..2] /\ zombies \in [Cmds -> 0..2]
    <3>1. running \in [Cmds -> Nat] /\ zombies \in [Cmds -> Nat]
      BY DEF Processes
    <3>2. ASSUME NEW c \in Cmds  PROVE running[c] \in 0..2 /\ zombies[c] \in 0..2
      <4>1. running[c] \in Nat /\ zombies[c] \in Nat
        BY <3>1
      <4>2. running[c] + zombies[c] <= 1
        BY DEF Processes, Counted
      <4> QED  BY <4>1, <4>2
    <3> QED  BY <3>1, <3>2
  <2>2. st \in [Cmds -> States]
    BY DEF Processes
  <2> QED  BY <2>1, <2>2 DEF Known, World, TypeOK
<1> QED
  BY <1>1, InitKnown, NextKnown, NextWorld, InitProcesses, NextProcesses, PTL DEF Spec
=============================================================================

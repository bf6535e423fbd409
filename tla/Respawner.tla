----------------------------- MODULE Respawner -----------------------------
(***************************************************************************)
(* respawner (src/application/respawner.cpp): starts the commands of        *)
(* respawn.conf, starts them again when they end, and follows changes of    *)
(* the file.  The handlers of SIGCHLD, SIGHUP, SIGUSR1, SIGUSR2 and SIGTERM  *)
(* run between any two steps of main; select() returns only for a signal    *)
(* that comes while it waits.                                                *)
(*                                                                           *)
(* world is what may happen in a behaviour: "suspend" (SIGUSR1), "nofork"    *)
(* (fork may fail).  Left out: that the kernel gives a reaped pid again.     *)
(***************************************************************************)
EXTENDS Integers

CONSTANTS Cmds,         \* commands: a line of respawn.conf
          Conditionals, \* which of them may have "if <cond_file>"
          Blanks,       \* which of them may be blank lines
          Worlds,       \* the worlds of the instance
          Nobody,       \* no command
          MaxEdits      \* bound: how often the file is changed

ASSUME RespawnerConstants ==
    /\ Conditionals \subseteq SUBSET Cmds /\ Nobody \notin Cmds
    /\ Blanks \subseteq SUBSET Cmds /\ Worlds \subseteq SUBSET {"suspend", "nofork"}
    /\ MaxEdits \in Nat

VARIABLES
    pc,        \* where main is
    todo,      \* commands the current loop has still to look at
    forking,   \* the command in forkIt() whose pid is not stored yet
    got,       \* what forkIt() returns: "own", "zero", or "none" for -1
    st,        \* commands[i].state, "absent" when it is not in the vector
    pid,       \* commands[i].pid: "zero", "own", "none", or "stale" once reaped
    reread, respawn,
    lastRead,  \* history: the commands readCommands returned last
    conf, conditional, blank, \* respawn.conf; its commands with "if <cond_file>",
                       \* and its blank lines, which are commands without words
    there,     \* the condition files that exist
    edits, world,
    running, zombies,  \* processes of each command
    chld,      \* SIGCHLD is pending
    told       \* history: somebody sent SIGTERM to respawner

mainVars == <<pc, todo, forking, got>>
tableVars == <<st, pid>>
fileVars == <<conf, conditional, blank, there, edits, world>>
procVars == <<running, zombies, chld>>
vars == <<mainVars, tableVars, reread, respawn, lastRead, fileVars, procVars, told>>

States == {"absent", "NotRunning", "Running", "Failed", "Killing", "Killed"}

TypeOK ==
    /\ pc \in {"start", "select", "reread", "kill", "spawn", "erase", "gone"}
    /\ todo \subseteq Cmds /\ forking \in Cmds \cup {Nobody}
    /\ got \in {"zero", "own", "none"}
    /\ st \in [Cmds -> States] /\ pid \in [Cmds -> {"zero", "own", "none", "stale"}]
    /\ {reread, respawn, chld, told} \subseteq BOOLEAN
    /\ lastRead \subseteq Cmds /\ conf \subseteq Cmds /\ there \subseteq Cmds
    /\ conditional \in Conditionals /\ blank \in Blanks /\ edits \in 0..MaxEdits
    /\ world \in Worlds
    /\ running \in [Cmds -> 0..2] /\ zombies \in [Cmds -> 0..2]

Init ==
    /\ conditional \in Conditionals /\ blank \in Blanks /\ world \in Worlds
    /\ conf \in SUBSET Cmds /\ there \in SUBSET conditional /\ edits = 0
    /\ pc = "start" /\ todo = conf /\ forking = Nobody /\ got = "zero" /\ lastRead = conf
    /\ st = [c \in Cmds |-> IF c \in conf THEN "NotRunning" ELSE "absent"]
    /\ pid = [c \in Cmds |-> "zero"]
    /\ reread = FALSE /\ respawn = TRUE /\ told = FALSE
    /\ running = [c \in Cmds |-> 0] /\ zombies = [c \in Cmds |-> 0] /\ chld = FALSE

-----------------------------------------------------------------------------
(* main                                                                    *)

\* A command is started: at the start and in the loop after select() when it
\* waits for nothing, in that loop also when it ended.
Startable(c) ==
    \/ st[c] = "NotRunning" /\ (c \in conditional => c \in there)
    \/ st[c] = "Failed" /\ pc = "spawn"

\* What forkIt() may return: 0 for a command without words, else the pid of a
\* new process, or -1 when fork() fails.
Forked(c) ==
    IF c \in blank THEN {"zero"}
    ELSE {"own"} \cup (IF "nofork" \in world THEN {"none"} ELSE {})

\* Mutant of Fork: the state stays as it was.
ForkUnmarked(c) ==
    /\ pc \in {"start", "spawn"} /\ c \in todo /\ forking = Nobody /\ Startable(c)
    /\ forking' = c /\ got' \in Forked(c)
    /\ running' = [running EXCEPT ![c] = IF got' = "own" THEN @ + 1 ELSE @]
    /\ UNCHANGED <<pc, todo, st, pid, reread, respawn, lastRead, fileVars, zombies,
                   chld, told>>

Fork(c) ==
    /\ pc \in {"start", "spawn"} /\ c \in todo /\ forking = Nobody /\ Startable(c)
    /\ st' = [st EXCEPT ![c] = "Running"]
    /\ forking' = c /\ got' \in Forked(c)
    /\ running' = [running EXCEPT ![c] = IF got' = "own" THEN @ + 1 ELSE @]
    /\ UNCHANGED <<pc, todo, pid, reread, respawn, lastRead, fileVars, zombies,
                   chld, told>>

\* The command is marked as running whatever forkIt() returned.
StorePid ==
    /\ forking # Nobody /\ pc \in {"start", "spawn"}
    /\ pid' = [pid EXCEPT ![forking] = got]
    /\ todo' = todo \ {forking} /\ forking' = Nobody /\ got' = "zero"
    /\ UNCHANGED <<pc, st, reread, respawn, lastRead, fileVars, procVars, told>>

Skip(c) ==
    /\ pc \in {"start", "spawn"} /\ c \in todo /\ forking = Nobody /\ ~Startable(c)
    /\ todo' = todo \ {c}
    /\ UNCHANGED <<pc, forking, got, tableVars, reread, respawn, lastRead, fileVars,
                   procVars, told>>

\* The loop is done: the vector is cleared of what was killed, and main waits.
Started ==
    /\ pc \in {"start", "spawn"} /\ todo = {}
    /\ pc' = IF pc = "start" THEN "select" ELSE "erase"
    /\ UNCHANGED <<todo, forking, got, tableVars, reread, respawn, lastRead, fileVars,
                   procVars, told>>

Erase ==
    /\ pc = "erase" /\ pc' = "select"
    /\ st' = [c \in Cmds |-> IF st[c] = "Killed" THEN "absent" ELSE st[c]]
    /\ pid' = [c \in Cmds |-> IF st[c] = "Killed" THEN "zero" ELSE pid[c]]
    /\ UNCHANGED <<todo, forking, got, reread, respawn, lastRead, fileVars, procVars, told>>

InTable == {c \in Cmds : st[c] # "absent"}

\* The file is read: what is new is appended, what is gone will be killed.
Reread ==
    /\ pc = "reread" /\ reread
    /\ pc' = "kill" /\ todo' = InTable \ conf /\ lastRead' = conf
    /\ st' = [c \in Cmds |-> IF c \in conf \ InTable THEN "NotRunning" ELSE st[c]]
    /\ respawn' = (respawn \/ conf \ InTable # {})
    /\ UNCHANGED <<forking, got, pid, reread, fileVars, procVars, told>>
NoReread ==
    /\ pc = "reread" /\ ~reread
    /\ pc' = IF respawn THEN "spawn" ELSE "erase"
    /\ todo' = IF respawn THEN InTable ELSE {}
    /\ UNCHANGED <<forking, got, tableVars, reread, respawn, lastRead, fileVars, procVars, told>>

\* kill(commands[i].pid, SIGTERM).  For a pid that is 0 the signal goes to the
\* process group, respawner included: onTerm ends it.  For -1 it goes to all
\* processes but respawner: those of the commands may end, as they always may.
Kill(c) ==
    /\ pc = "kill" /\ c \in todo
    /\ st' = [st EXCEPT ![c] = "Killing"]
    /\ todo' = todo \ {c}
    /\ pc' = IF pid[c] = "zero" THEN "gone" ELSE pc
    /\ UNCHANGED <<forking, got, pid, reread, respawn, lastRead, fileVars, procVars, told>>

\* Mutant of KillDone: nothing is started in a pass that killed.
KillDoneOnly ==
    /\ pc = "kill" /\ todo = {}
    /\ reread' = FALSE /\ pc' = "erase"
    /\ UNCHANGED <<todo, forking, got, tableVars, respawn, lastRead, fileVars, procVars, told>>

\* reread = false, and a second of sleep.
KillDone ==
    /\ pc = "kill" /\ todo = {}
    /\ reread' = FALSE
    /\ pc' = IF respawn THEN "spawn" ELSE "erase"
    /\ todo' = IF respawn THEN InTable ELSE {}
    /\ UNCHANGED <<forking, got, tableVars, respawn, lastRead, fileVars, procVars, told>>

-----------------------------------------------------------------------------
(* Signals                                                                 *)

Wake == pc' = IF pc = "select" THEN "reread" ELSE pc

\* Mutant of OnChild: one process is waited for per signal.
OnChildOne ==
    /\ chld /\ pc # "gone"
    /\ LET ended == {c \in Cmds : pid[c] = "own" /\ zombies[c] > 0}
           one == {c \in ended : c = CHOOSE d \in ended : TRUE}
       IN /\ st' = [c \in Cmds |-> IF c \notin one THEN st[c]
                                   ELSE IF st[c] = "Killing" THEN "Killed" ELSE "Failed"]
          /\ pid' = [c \in Cmds |-> IF c \in one THEN "stale" ELSE pid[c]]
          /\ zombies' = [c \in Cmds |-> IF c \in one THEN zombies[c] - 1 ELSE zombies[c]]
    /\ chld' = FALSE /\ Wake
    /\ UNCHANGED <<todo, forking, got, reread, respawn, lastRead, fileVars, running, told>>

Zombies == {c \in Cmds : zombies[c] > 0}
Unborn == {c \in Cmds : pid[c] = "none"}

\* What waitpid() does for an entry with pid -1, in any order of the entries: it
\* reaps some process that ended, whose entry hears nothing of it (by[c]); when
\* none is left it returns 0, or -1 if there is no process at all, which is the
\* pid of the entry.
WaitAny(by) ==
    /\ \A c, d \in Unborn : c # d /\ by[c] = by[d] => by[c] = Nobody
    /\ (\E c \in Unborn : by[c] = Nobody)
          => \A d \in Zombies : pid[d] = "own" \/ \E c \in Unborn : by[c] = d

OnChild ==
    /\ chld /\ pc # "gone"
    /\ \E by \in [Unborn -> Zombies \cup {Nobody}] :
         LET lost == {d \in Zombies : \E c \in Unborn : by[c] = d}
             ended == {c \in Zombies \ lost : pid[c] = "own"}
             childless == {c \in Unborn : by[c] = Nobody /\ \A d \in Cmds : running[d] = 0}
         IN /\ WaitAny(by)
            /\ st' = [c \in Cmds |-> IF c \notin ended \cup childless THEN st[c]
                                     ELSE IF st[c] = "Killing" THEN "Killed" ELSE "Failed"]
            /\ pid' = [c \in Cmds |-> IF c \in ended THEN "stale" ELSE pid[c]]
            /\ zombies' = [c \in Cmds |->
                             IF c \in ended \cup lost THEN zombies[c] - 1 ELSE zombies[c]]
    /\ chld' = FALSE /\ Wake
    /\ UNCHANGED <<todo, forking, got, reread, respawn, lastRead, fileVars, running, told>>

OnHup ==
    /\ pc # "gone" /\ reread' = TRUE /\ Wake
    /\ UNCHANGED <<todo, forking, got, tableVars, respawn, lastRead, procVars, told>>
OnUsr1 ==
    /\ "suspend" \in world /\ pc # "gone" /\ respawn' = FALSE /\ Wake
    /\ UNCHANGED <<todo, forking, got, tableVars, reread, lastRead, fileVars, procVars, told>>
OnUsr2 ==
    /\ pc # "gone" /\ respawn' = TRUE /\ Wake
    /\ UNCHANGED <<todo, forking, got, tableVars, reread, lastRead, fileVars, procVars, told>>

OnTerm ==
    /\ pc # "gone" /\ told' = TRUE /\ pc' = "gone"
    /\ UNCHANGED <<todo, forking, got, tableVars, reread, respawn, lastRead, fileVars, procVars>>

-----------------------------------------------------------------------------
(* The world: the file is edited and SIGHUP sent, condition files come and  *)
(* go, processes end, by themselves or because they were told to            *)

Edit ==
    /\ edits < MaxEdits /\ edits' = edits + 1
    /\ conf' \in SUBSET Cmds \ {conf} /\ UNCHANGED <<conditional, blank, there, world>>
    /\ OnHup

Condition ==
    /\ there' \in SUBSET conditional \ {there} /\ pc # "gone"
    /\ UNCHANGED <<mainVars, tableVars, reread, respawn, lastRead, conf, conditional,
                   blank, edits, world, procVars, told>>

Exit(c) ==
    /\ running[c] > 0 /\ pc # "gone"
    /\ running' = [running EXCEPT ![c] = @ - 1]
    /\ zombies' = [zombies EXCEPT ![c] = @ + 1]
    /\ chld' = TRUE
    /\ UNCHANGED <<mainVars, tableVars, reread, respawn, lastRead, fileVars, told>>

Main ==
    \/ \E c \in Cmds : Fork(c) \/ Skip(c) \/ Kill(c)
    \/ StorePid \/ Started \/ Erase \/ Reread \/ NoReread \/ KillDone

Next ==
    \/ Main \/ OnChild \/ OnUsr1 \/ OnUsr2 \/ OnTerm \/ Edit \/ Condition
    \/ \E c \in Cmds : Exit(c)

Spec == Init /\ [][Next]_vars

\* main and pending signals go on, and what was told to end does.
LiveSpec ==
    /\ Spec /\ WF_vars(Main) /\ WF_vars(OnChild)
    /\ \A c \in Cmds : WF_vars(st[c] = "Killing" /\ Exit(c))

-----------------------------------------------------------------------------
(* Properties                                                              *)

\* A command never runs twice at the same time.
OneProcess == \A c \in Cmds : running[c] + zombies[c] <= 1

\* respawner ends only when it is told to, as long as no line can be removed
\* that has no process yet: because of its condition, because spawning was
\* suspended, or because it is blank.
Removable == conditional # {} \/ blank # {} \/ "suspend" \in world
Survives == ~Removable \/ edits = 0 => (pc = "gone" => told)

\* A command that the file does not name any more is not started again, as long
\* as fork() does not fail: an entry with pid -1 that was killed may be taken for
\* one that ended.
StartsConfigured ==
    [][forking' # forking /\ "nofork" \notin world => forking' \in lastRead \cup {Nobody}]_vars

\* "Daemon to (re)spawn tasks": a command the file names runs again and again,
\* unless spawning is suspended or respawner was told to end.  That holds as
\* long as processes go on ending, because only a signal makes main look, for a
\* file that is not changed, and where fork() does not fail: a command it failed
\* for is marked as running, and its entry takes the ends of other processes.
Idle(c) ==
    \/ c \notin conf \/ c \in blank \/ (c \in conditional /\ c \notin there)
    \/ ~respawn \/ pc = "gone"
RespawnedLater ==
    [](edits = 0 /\ "nofork" \notin world) /\ []<>chld
      => \A c \in Cmds : []<>(running[c] > 0 \/ Idle(c))
=============================================================================

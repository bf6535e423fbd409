------------------------------ MODULE Upgrade ------------------------------
(***************************************************************************)
(* Firmware upgrade: the program upgrade (src/application/upgrade.cpp),    *)
(* its download by updatefiles (updatefiles.cpp) and what monitor          *)
(* (monitor.cpp) does around it.  The unit has two file systems; the       *)
(* program writes the one that does not run, and monitor makes the boot    *)
(* loader choose it.  The only memory over a power loss is the state file, *)
(* the package, the two file systems and the boot loader's variables.      *)
(***************************************************************************)
EXTENDS Integers, FiniteSets

CONSTANTS Procs,      \* processes of upgrade that may exist at once
          Latest,     \* versions are 1..Latest, the unit begins with 1
          Paths,      \* the paths file: from which version to which
          MaxWants,   \* bound: times the server names it
          MaxLosses,  \* bound: losses of power
          MaxFails,   \* bound: new versions that do not boot
          FaultSets   \* the sets faults may be, elements explained there

ASSUME UpgradeConstants ==
    /\ IsFiniteSet(Procs) /\ Latest \in Nat \ {0}
    /\ Paths \subseteq (1..Latest) \X (1..Latest)
    /\ MaxWants \in Nat /\ MaxLosses \in Nat /\ MaxFails \in Nat
    /\ \A f \in FaultSets : f \subseteq {"slow", "overlap"}

VARIABLES
    state,      \* UpgradeStateFile, "" when there is none
    tar,        \* the package in UpgradeDir
    tarVer,     \* the version it leads to
    pc, mode,   \* each process: where it is; a version given or -c
    rebootIt,   \* /tmp/reboot_it
    slot,       \* the version in each file system, Mixed while it is written
    running,    \* the file system that is booted
    kernel,     \* boot variable kernel
    verified,   \* file systems whose boot variable state is "verified"
    upgradedVersion, \* UpgradedVersionFile
    info,       \* UpgradeInfoFile: a version and how often it did well
    mon,        \* where monitor is
    goal,       \* reboot or power off, once monitor goes down
    first,      \* cellinfo.first_connection
    dup,        \* dup_fs runs
    rejected,   \* history: versions that did not boot
    wants, losses,
    faults      \* what may happen in this behaviour: "slow" lets monitor
                \* start late after a boot; without "overlap" no upgrade
                \* goes on unseen, see Unseen

fileVars == <<state, tar, tarVer>>
procVars == <<pc, mode>>
bootVars == <<slot, running, kernel, verified, upgradedVersion, info>>
monVars == <<mon, goal, first, dup>>
boundVars == <<rejected, wants, losses, faults>>
vars == <<fileVars, procVars, rebootIt, bootVars, monVars, boundVars>>

Mixed == 0
Slots == {1, 2}
Opposite == 3 - running
SwVersion == slot[running]

TypeOK ==
    /\ state \in {"", "starting", "fetching", "untarring", "upgrading",
                  "upgraded", "failed"}
    /\ tar \in {"none", "part", "whole", "bad", "good"}
    /\ tarVer \in 0..Latest
    /\ pc \in [Procs -> {"none", "forked", "started", "plan", "download",
                         "verify", "install", "untar", "installer", "touch"}]
    /\ mode \in [Procs -> {"to", "continue"}]
    /\ rebootIt \in BOOLEAN
    /\ slot \in [Slots -> 0..Latest] /\ running \in Slots /\ kernel \in Slots
    /\ verified \subseteq Slots
    /\ upgradedVersion \in 0..Latest
    /\ info \in [ver : 0..Latest, good : BOOLEAN]
    /\ mon \in {"off", "boot", "run", "complete", "wait", "kernel", "flag",
                "version", "info", "check", "dup", "halt"}
    /\ goal \in {"reboot", "off"} /\ first \in BOOLEAN /\ dup \in BOOLEAN
    /\ rejected \subseteq 1..Latest /\ wants \in 0..MaxWants /\ losses \in 0..MaxLosses
    /\ faults \in FaultSets

Init ==
    /\ state = "" /\ tar = "none" /\ tarVer = 0
    /\ pc = [p \in Procs |-> "none"] /\ mode = [p \in Procs |-> "to"]
    /\ rebootIt = FALSE
    /\ slot = [s \in Slots |-> 1] /\ running = 1 /\ kernel = 1 /\ verified = Slots
    /\ upgradedVersion = 0 /\ info = [ver |-> 1, good |-> FALSE]
    /\ mon = "off" /\ goal = "off" /\ first = TRUE /\ dup = FALSE
    /\ rejected = {} /\ wants = 0 /\ losses = 0
    /\ faults \in FaultSets

-----------------------------------------------------------------------------
(* The program upgrade                                                     *)

\* Mutant of Found: pgrep does not find a process that still downloads.
FoundLate == {p \in Procs : pc[p] \notin {"none", "forked", "plan", "download"}}

\* What pgrep upgrade finds: a process that still is the shell is not found.
Found == {p \in Procs : pc[p] \notin {"none", "forked"}}

\* What monitor does not wait for: a process that just ends its download (the
\* state still is "fetching") or that is not upgrade yet.  Without "overlap"
\* monitor does not go down in that moment, and no download ends later.
Unseen(places) == "overlap" \notin faults => \A p \in Procs : pc[p] \notin places

\* The shell starts upgrade in the background.
Spawn(m) ==
    \E p \in Procs :
      /\ pc[p] = "none"
      /\ pc' = [pc EXCEPT ![p] = "forked"] /\ mode' = [mode EXCEPT ![p] = m]

Goto(p, place) == pc' = [pc EXCEPT ![p] = place] /\ UNCHANGED mode
Exit(p) == Goto(p, "none")

\* cleanAllFiles, and monitor's rm -rf: the state file is in UpgradeDir too.
CleanAllFiles == state' = "" /\ tar' = "none" /\ tarVer' = 0
SetState(s) == state' = s /\ UNCHANGED <<tar, tarVer>>
KeepFiles == UNCHANGED fileVars

ExecUpgrade(p) ==
    /\ pc[p] = "forked" /\ Goto(p, "started")
    /\ UNCHANGED <<fileVars, rebootIt, bootVars, monVars, boundVars>>

\* Mutant of Main: what was interrupted is left as it is.
MainLeaves(p) ==
    /\ pc[p] = "started"
    /\ IF Found # {p} \/ state # "" \/ mode[p] = "continue"
       THEN KeepFiles /\ Exit(p)
       ELSE SetState("starting") /\ Goto(p, "plan")
    /\ UNCHANGED <<rebootIt, bootVars, monVars, boundVars>>

\* main: who finds another process exits; then the state decides.
Main(p) ==
    /\ pc[p] = "started"
    /\ \/ Found # {p} /\ Exit(p) /\ KeepFiles
       \/ /\ Found = {p}
          /\ \/ /\ state = "fetching"
                /\ IF tar = "none" THEN CleanAllFiles /\ Exit(p)
                   ELSE KeepFiles /\ pc' = [pc EXCEPT ![p] = "download"]
                                  /\ mode' = [mode EXCEPT ![p] = "continue"]
             \/ /\ state \in {"untarring", "upgrading"} /\ KeepFiles
                /\ pc' = [pc EXCEPT ![p] = "install"]
                /\ mode' = [mode EXCEPT ![p] = "continue"]
             \/ state = "upgraded" /\ KeepFiles /\ Exit(p)
             \/ /\ state \in {"starting", "failed"} /\ mode[p] = "continue"
                /\ CleanAllFiles /\ Exit(p)
             \/ state = "" /\ mode[p] = "continue" /\ KeepFiles /\ Exit(p)
             \/ /\ state \in {"", "starting", "failed"} /\ mode[p] = "to"
                /\ state' = "starting" /\ Goto(p, "plan")
                /\ IF state = "" THEN UNCHANGED <<tar, tarVer>>
                   ELSE tar' = "none" /\ tarVer' = 0
    /\ UNCHANGED <<rebootIt, bootVars, monVars, boundVars>>

\* findPath does not note where it has been: in a circle that does not lead to
\* the version it seeks it calls itself until the stack is full.
Circle == \E vs \in SUBSET (1..Latest) \ {{}} :
              \A v \in vs : \E w \in vs : <<v, w>> \in Paths

\* Mutant of Plan: the version upgraded to before is not asked for.
PlanAgain(p) ==
    /\ pc[p] = "plan"
    /\ \/ CleanAllFiles /\ Exit(p)
       \/ Circle /\ KeepFiles /\ Exit(p)
       \/ \E dest \in 1..Latest :
            /\ <<SwVersion, dest>> \in Paths /\ dest # SwVersion
            /\ state' = "fetching" /\ tarVer' = dest /\ UNCHANGED tar
            /\ Goto(p, "download")
    /\ UNCHANGED <<rebootIt, bootVars, monVars, boundVars>>

\* upgradeFirmware and upgrade up to the download: the first step of a path to
\* the version the server named, up or down, unless there is none, or that
\* version was upgraded to before.
Plan(p) ==
    /\ pc[p] = "plan"
    /\ \/ CleanAllFiles /\ Exit(p)
       \/ Circle /\ KeepFiles /\ Exit(p)
       \/ \E dest \in 1..Latest :
            /\ <<SwVersion, dest>> \in Paths /\ dest # SwVersion
            /\ IF dest = upgradedVersion THEN CleanAllFiles /\ Exit(p)
               ELSE /\ state' = "fetching" /\ tarVer' = dest /\ UNCHANGED tar
                    /\ Goto(p, "download")
    /\ UNCHANGED <<rebootIt, bootVars, monVars, boundVars>>

\* updatefiles: no verification information or no server key, nothing is
\* fetched; or the transfer fails and what came stays; or all of it comes,
\* right or not.  It exits with 0 in each case, so upgrade goes on.
Download(p) ==
    /\ pc[p] = "download"
    /\ "overlap" \notin faults => mon \in {"run", "wait"}
    /\ \/ Goto(p, "install") /\ UNCHANGED tar
       \/ Goto(p, "install") /\ tar' = IF tar = "none" THEN "part" ELSE tar
       \/ Goto(p, "verify") /\ tar' \in {"whole", "bad"}
    /\ UNCHANGED <<state, tarVer, rebootIt, bootVars, monVars, boundVars>>

\* getAndVerify: a package whose signature is wrong is removed.
Verify(p) ==
    /\ pc[p] = "verify" /\ Goto(p, "install")
    /\ tar' = IF tar = "whole" THEN "good" ELSE "none"
    /\ UNCHANGED <<state, tarVer, rebootIt, bootVars, monVars, boundVars>>

\* install without success: in a run with a version upgradeFirmware removes
\* all files whatever install left.
GiveUp(p, s) ==
    /\ Exit(p)
    /\ IF mode[p] = "to" THEN CleanAllFiles ELSE SetState(s)

\* install up to tar.
Install(p) ==
    /\ pc[p] = "install"
    /\ IF tar = "none" THEN GiveUp(p, "")
       ELSE SetState("untarring") /\ Goto(p, "untar")
    /\ UNCHANGED <<rebootIt, bootVars, monVars, boundVars>>

\* tar ends: it refuses a part, and it may find a defect or no installer in
\* what was not verified.  The installer begins to write.
Untar(p) ==
    /\ pc[p] = "untar"
    /\ \/ tar # "good" /\ GiveUp(p, "failed") /\ UNCHANGED slot
       \/ /\ tar # "part" /\ SetState("upgrading") /\ Goto(p, "installer")
          /\ slot' = [slot EXCEPT ![Opposite] = Mixed]
    /\ UNCHANGED <<rebootIt, running, kernel, verified, upgradedVersion, info,
                   monVars, boundVars>>

\* Mutant of Installer: a failure of the installer is not noticed.
InstallerBlind(p) ==
    /\ pc[p] = "installer" /\ SetState("upgraded") /\ Goto(p, "touch")
    /\ slot' = [slot EXCEPT ![Opposite] =
                  IF tar \in {"whole", "good"} THEN tarVer ELSE Mixed]
    /\ UNCHANGED <<rebootIt, running, kernel, verified, upgradedVersion, info,
                   monVars, boundVars>>

\* The installer returns.  When it fails, dup_fs makes the other file system a
\* copy of this one and all files are removed.
Installer(p) ==
    /\ pc[p] = "installer"
    /\ \/ /\ tar \in {"whole", "good"} /\ SetState("upgraded") /\ Goto(p, "touch")
          /\ slot' = [slot EXCEPT ![Opposite] = tarVer]
       \/ /\ CleanAllFiles /\ Exit(p)
          /\ slot' = [slot EXCEPT ![Opposite] = SwVersion]
    /\ UNCHANGED <<rebootIt, running, kernel, verified, upgradedVersion, info,
                   monVars, boundVars>>

Touch(p) ==
    /\ pc[p] = "touch" /\ Exit(p)
    /\ rebootIt' = TRUE
    /\ UNCHANGED <<fileVars, bootVars, monVars, boundVars>>

-----------------------------------------------------------------------------
(* Who starts it                                                           *)

\* unitcomm: the server names another version than the one that runs.
ServerWants ==
    /\ mon = "run"
    /\ wants < MaxWants /\ wants' = wants + 1
    /\ Spawn("to")
    /\ UNCHANGED <<fileVars, rebootIt, bootVars, monVars, rejected, losses, faults>>

\* monitor, checkUpgrading at the first connection after a boot.
FirstConnection ==
    /\ mon = "run" /\ first /\ first' = FALSE
    /\ IF state \in {"fetching", "untarring", "upgrading"} THEN Spawn("continue")
       ELSE UNCHANGED procVars
    /\ UNCHANGED <<fileVars, rebootIt, bootVars, mon, goal, dup, boundVars>>

-----------------------------------------------------------------------------
(* monitor goes down                                                       *)

\* getStateInfo: reboot(); it is also called in every wait on the way down.
SeeRebootIt ==
    /\ mon \in {"run", "wait", "dup"} /\ rebootIt
    /\ rebootIt' = FALSE /\ mon' = "complete" /\ goal' = "reboot"
    /\ UNCHANGED <<fileVars, procVars, bootVars, first, dup, boundVars>>

\* powerOff: updateUpgradeInfo counts what went well with this version.
PowerOff ==
    /\ mon = "run" /\ Unseen({"verify", "install"})
    /\ mon' = "complete" /\ goal' = "off"
    /\ info' \in {info} \cup
         (IF info.ver = SwVersion THEN {[info EXCEPT !.good = TRUE]} ELSE {})
    /\ UNCHANGED <<fileVars, procVars, rebootIt, slot, running, kernel, verified,
                   upgradedVersion, first, dup, boundVars>>

AfterCompletion == IF goal = "reboot" THEN "halt" ELSE "check"

\* Mutant of Complete: the boot loader is switched while the installer writes.
CompleteEarly ==
    /\ mon = "complete"
    /\ mon' = IF state \in {"upgrading", "upgraded"} THEN "kernel"
              ELSE AfterCompletion
    /\ UNCHANGED <<fileVars, procVars, rebootIt, bootVars, goal, first, dup, boundVars>>

\* completeUpgrade
Complete ==
    /\ mon = "complete"
    /\ \/ /\ state \in {"untarring", "upgrading"} /\ mon' = "wait"
          /\ IF Found = {} THEN Spawn("continue") ELSE UNCHANGED procVars
       \/ state = "upgraded" /\ mon' = "kernel" /\ UNCHANGED procVars
       \/ /\ state \notin {"untarring", "upgrading", "upgraded"}
          /\ mon' = AfterCompletion /\ UNCHANGED procVars
    /\ UNCHANGED <<fileVars, rebootIt, bootVars, goal, first, dup, boundVars>>

\* waitForUpgradeToFinish, and the state it leaves.
WaitDone ==
    /\ mon = "wait" /\ (state = "upgraded" \/ Found = {}) /\ Unseen({"forked"})
    /\ mon' = IF state = "upgraded" THEN "kernel" ELSE AfterCompletion
    /\ UNCHANGED <<fileVars, procVars, rebootIt, bootVars, goal, first, dup,
                   boundVars>>

\* doUpgrade, four writes: variable kernel, variable state of that kernel,
\* UpgradedVersionFile and UpgradeInfoFile.
SetKernel ==
    /\ mon = "kernel" /\ mon' = "flag" /\ kernel' = Opposite
    /\ UNCHANGED <<fileVars, procVars, rebootIt, slot, running, verified,
                   upgradedVersion, info, goal, first, dup, boundVars>>
SetProgrammed ==
    /\ mon = "flag" /\ mon' = "version" /\ verified' = verified \ {Opposite}
    /\ UNCHANGED <<fileVars, procVars, rebootIt, slot, running, kernel,
                   upgradedVersion, info, goal, first, dup, boundVars>>
WriteUpgradedVersion ==
    /\ mon = "version" /\ mon' = "info" /\ upgradedVersion' = slot[Opposite]
    /\ UNCHANGED <<fileVars, procVars, rebootIt, slot, running, kernel, verified,
                   info, goal, first, dup, boundVars>>
WriteUpgradeInfo ==
    /\ mon = "info" /\ mon' = AfterCompletion
    /\ info' = [ver |-> slot[Opposite], good |-> FALSE]
    /\ UNCHANGED <<fileVars, procVars, rebootIt, slot, running, kernel, verified,
                   upgradedVersion, goal, first, dup, boundVars>>

\* The rest of powerOff: a version that proved itself is copied to the other
\* file system when the boot variable .state of that one is "verified".  It is
\* not the variable SetProgrammed writes, whose name has no dot, and no program
\* here writes it: it holds what the boot loader left there.
CheckUpgradeInfo ==
    /\ mon = "check"
    /\ IF info.good /\ info.ver = SwVersion
       THEN /\ info' = [ver |-> 0, good |-> FALSE]
            /\ dup' \in BOOLEAN
       ELSE UNCHANGED <<info, dup>>
    /\ mon' = IF dup' THEN "dup" ELSE "halt"
    /\ slot' = IF dup' THEN [slot EXCEPT ![Opposite] = Mixed] ELSE slot
    /\ UNCHANGED <<fileVars, procVars, rebootIt, running, kernel, verified,
                   upgradedVersion, goal, first, boundVars>>

DupFsEnds ==
    /\ dup /\ dup' = FALSE
    /\ slot' = [slot EXCEPT ![Opposite] = SwVersion]
    /\ mon' = IF mon = "dup" THEN "halt" ELSE mon
    /\ UNCHANGED <<fileVars, procVars, rebootIt, running, kernel, verified,
                   upgradedVersion, info, goal, first, boundVars>>

-----------------------------------------------------------------------------
(* Power and the boot loader                                               *)

Dark ==
    /\ pc' = [p \in Procs |-> "none"] /\ UNCHANGED mode
    /\ rebootIt' = FALSE /\ mon' = "off" /\ dup' = FALSE

Halt ==
    /\ mon = "halt" /\ Dark
    /\ UNCHANGED <<fileVars, bootVars, goal, first, boundVars>>

LosePower ==
    /\ mon # "off" /\ losses < MaxLosses /\ losses' = losses + 1
    /\ Dark
    /\ UNCHANGED <<fileVars, bootVars, goal, first, rejected, wants, faults>>

\* The boot loader takes the file system kernel names; when that does not
\* come up it goes back to the other one.
Boot ==
    /\ mon = "off" /\ mon' = "boot" /\ first' = TRUE
    /\ \/ running' = kernel /\ verified' = verified \cup {kernel}
          /\ UNCHANGED <<kernel, rejected>>
       \/ /\ kernel \notin verified /\ Cardinality(rejected) < MaxFails
          /\ running' = 3 - kernel /\ kernel' = 3 - kernel /\ UNCHANGED verified
          /\ rejected' = rejected \cup ({slot[kernel]} \ {Mixed})
    /\ UNCHANGED <<fileVars, procVars, rebootIt, slot, upgradedVersion, info, goal,
                   dup, wants, losses, faults>>

\* Mutant of StartMonitor: a finished upgrade is left as it is.
StartMonitorKeeps ==
    /\ mon = "boot" /\ mon' = "run"
    /\ IF state \in {"starting", "failed"} THEN CleanAllFiles ELSE KeepFiles
    /\ UNCHANGED <<procVars, rebootIt, bootVars, goal, first, dup, boundVars>>

\* cleanUpgradeDir, only in the first two minutes after a boot.
StartMonitor ==
    /\ mon = "boot" /\ mon' = "run"
    /\ \/ IF state \in {"starting", "upgraded", "failed"} THEN CleanAllFiles
          ELSE KeepFiles
       \/ "slow" \in faults /\ KeepFiles
    /\ UNCHANGED <<procVars, rebootIt, bootVars, goal, first, dup, boundVars>>

UpgradeStep(p) ==
    \/ ExecUpgrade(p) \/ Main(p) \/ Plan(p) \/ Download(p) \/ Verify(p)
    \/ Install(p) \/ Untar(p) \/ Installer(p) \/ Touch(p)

MonitorStep ==
    \/ SeeRebootIt \/ Complete \/ WaitDone
    \/ SetKernel \/ SetProgrammed \/ WriteUpgradedVersion \/ WriteUpgradeInfo
    \/ CheckUpgradeInfo \/ DupFsEnds \/ Halt \/ Boot \/ StartMonitor

Next ==
    \/ \E p \in Procs : UpgradeStep(p)
    \/ MonitorStep \/ PowerOff \/ ServerWants \/ FirstConnection \/ LosePower

Spec == Init /\ [][Next]_vars

\* Processes run, and a unit that runs has a connection at some time.
LiveSpec ==
    /\ Spec /\ WF_vars(MonitorStep) /\ WF_vars(FirstConnection)
    /\ \A p \in Procs : WF_vars(UpgradeStep(p))

-----------------------------------------------------------------------------
(* Properties                                                              *)

\* At most one process is past the check of main, however many unitcomm and
\* monitor start and however long a shell takes to become upgrade.
OneUpgrade ==
    Cardinality({p \in Procs : pc[p] \notin {"none", "forked", "started"}}) <= 1

\* "upgraded: Succeeded in upgrading.  Needs reboot into new kernel."  In that
\* state the other file system holds the new version, whole and alone, when
\* monitor was in time to clean the directory after each boot and no upgrade
\* went on unseen while monitor went down.
UpgradedIsWhole ==
    faults = {} /\ state = "upgraded" /\ mon \notin {"off", "boot"} =>
        slot[Opposite] = tarVer

\* The boot loader is never sent to a file system that is half written.
BootsWhole == "overlap" \notin faults => slot[kernel] # Mixed

\* monitor only ever switches the boot loader to a version that the paths file
\* leads to from the one that runs: never to what it came from, to what is left
\* of an earlier upgrade, or to what it runs already.
FollowsPaths ==
    [][faults = {} /\ kernel' # kernel /\ mon # "off" =>
         /\ slot[kernel'] # slot[kernel]
         /\ <<slot[kernel], slot[kernel']>> \in Paths]_vars

OneWay == \A a, b \in Paths : a[1] = b[1] => a = b

\* A version that did not boot is not written again, as long as the paths file
\* leads from each version to one only, and no power was lost between the
\* switch and UpgradedVersionFile.
NotAgain ==
    faults = {} /\ losses = 0 /\ OneWay =>
        \A p \in Procs : pc[p] = "installer" => tarVer \notin rejected

\* An upgrade that has begun to write is brought to an end, also when power
\* is lost in the middle of it, as long as that does not go on for ever, and
\* the unit does not go down in the moment one begins.
ComesToEnd ==
    "overlap" \notin faults =>
        (state \in {"untarring", "upgrading"} ~> state \notin {"untarring", "upgrading"})
=============================================================================
